----------------------------- MODULE ModelTurn ------------------------------
(***************************************************************************)
(* One turn of the agent seen from its data: the messages AgentRunner      *)
(* collects (agent_runtime/runner.py), what the provider makes of them for *)
(* the endpoint, the calls the answer asks for and what is executed of     *)
(* them, while the tools of MCP servers come and go.  The events of the    *)
(* turn, its queue and its limits are those of AgentRunner.                *)
(*                                                                         *)
(* Steps.  A step runs to the next suspension: the endpoint, the exec tool *)
(* and the events of a call are awaited.                                   *)
(***************************************************************************)
EXTENDS OpenAIProvider, ToolRegistry, ShellTool, FiniteSets

CONSTANTS Exec,         \* the name of the exec tool
          Unknown,      \* a name the model makes up
          Histories,    \* the messages a turn may begin with
          MaxRounds     \* bound: calls of the model, fewer than may be empty

\* An identifier of the endpoint, or one made from the round and the place.
Ident == ({"endpoint"} \X Nat) \cup ({"short"} \X Nat \X Nat)

\* What a session has stored of a message: an answer comes with all the calls of its
\* turn, and what the tools said to them is not a message.
StoredMessage == [role : {"user", "assistant"}, calls : Seq(Ident), answers : {<< >>}]

\* A turn begins with what is stored, the question last.
ASSUME HistoriesAssumption ==
    \A history \in Histories :
        /\ history \in Seq(StoredMessage)
        /\ history # << >> /\ history[Len(history)].role = "user"

VARIABLES messages,     \* the message history
          sent,         \* messages and tools of the last call
          round,        \* calls of the model so far
          turn,         \* where run_stream is suspended
          todo          \* calls of the answer not executed yet

turnVars == <<messages, sent, round, turn, todo>>
vars == <<providerVars, registryVars, shellVars, turnVars>>

Text(role) == [role |-> role, calls |-> << >>, answers |-> << >>]
Asking(calls) == [Text("assistant") EXCEPT !.calls = calls]
ToolMessage(id) == [Text("tool") EXCEPT !.answers = id]

Init ==
    /\ ProviderInit
    /\ RegistryInit({Exec})
    /\ ShellInit
    /\ messages \in Histories
    /\ sent = [messages |-> << >>, tools |-> {}]
    /\ round = 0
    /\ turn = "ask"
    /\ todo = << >>

-----------------------------------------------------------------------------
(* Identifiers.  The endpoint numbers the calls of each answer anew; an    *)
(* identifier that is not of nine letters and digits is replaced by its    *)
(* digest.                                                                 *)

Identifier(call) ==
    IF call.id # 0 THEN <<"endpoint", call.id>> ELSE <<"short", round, call.key>>

Normalized(id) == IF id # << >> /\ id[1] = "endpoint" THEN <<"digest", id[2]>> ELSE id

\* A mistake: only the calls are renamed, not what answers them.
SanitizedCalls(history) ==
    [i \in DOMAIN history |->
        [history[i] EXCEPT !.calls = [c \in DOMAIN @ |-> Normalized(@[c])]]]

Sanitized(history) ==
    [i \in DOMAIN history |->
        [history[i] EXCEPT !.calls = [c \in DOMAIN @ |-> Normalized(@[c])],
                           !.answers = Normalized(@)]]

\* No two questions, and no two answers, in a row.
Alternates(history) ==
    \A i \in DOMAIN history \ {1} :
        history[i].role = history[i - 1].role => history[i].role = "tool"

-----------------------------------------------------------------------------
(* The model is asked.                                                     *)

Asks ==
    /\ turn = "ask" /\ round < MaxRounds
    /\ GetDefinitions
    /\ sent' = [messages |-> Sanitized(messages), tools |-> Definitions]
    /\ CallBegins(Alternates(messages))
    /\ round' = round + 1
    /\ turn' = "model"
    /\ UNCHANGED <<shellVars, messages, todo>>

\* The calls of a turn, all answered by now, are MaxCalls at most, those of exec as
\* many as Commands.
Plans ==
    LET asked == Cardinality({i \in DOMAIN messages : messages[i].role = "tool"})
        free == {c \in Commands : exec[c] = "new"}
    IN  {p \in [name : UNION {[1..n -> sent.tools \cup {Unknown}] : n \in 0..(MaxCalls - asked)},
                indexed : BOOLEAN, identified : BOOLEAN] :
            /\ Cardinality({c \in DOMAIN p.name : p.name[c] = Exec}) <= Cardinality(free)
            /\ IF p.name = << >> THEN p.indexed /\ p.identified ELSE p.indexed \/ p.identified}

Endpoint ==
    /\ turn = "model"
    /\ ProviderNext \/ \E p \in Plans : Opens(p)
    /\ UNCHANGED <<registryVars, shellVars, turnVars>>

Answered == turn = "model" /\ response.kind # "none"

AnswerFails ==
    /\ Answered /\ response.kind = "error"
    /\ turn' = "end"
    /\ CallOver
    /\ UNCHANGED <<registryVars, shellVars, messages, sent, round, todo>>

AnswerCalls ==
    /\ Answered /\ response.kind = "success" /\ response.calls # << >>
    /\ LET calls == [c \in DOMAIN response.calls |->
                        [name |-> response.calls[c].name, id |-> Identifier(response.calls[c])]]
       IN  /\ messages' = Append(messages, Asking([c \in DOMAIN calls |-> calls[c].id]))
           /\ todo' = calls
    /\ turn' = "tools"
    /\ CallOver
    /\ UNCHANGED <<registryVars, shellVars, sent, round>>

\* An answer of neither text nor calls is asked for again.
AnswerEnds ==
    /\ Answered /\ response.kind = "success" /\ response.calls = << >>
    /\ IF response.content = << >>
       THEN turn' = "ask" /\ UNCHANGED messages
       ELSE turn' = "end" /\ messages' = Append(messages, Text("assistant"))
    /\ CallOver
    /\ UNCHANGED <<registryVars, shellVars, sent, round, todo>>

-----------------------------------------------------------------------------
(* The calls are executed one after the other, each gets one message.      *)

ToolAnswered ==
    /\ messages' = Append(messages, ToolMessage(Head(todo).id))
    /\ todo' = Tail(todo)
    /\ turn' = "tools"
    /\ UNCHANGED <<sent, round>>

\* No such tool, arguments it does not take, or any tool but exec: whatever
\* comes of it is a result.  A tool switched off is executed all the same.
ToolRuns ==
    /\ turn = "tools" /\ todo # << >>
    /\ ToolAnswered
    /\ UNCHANGED <<providerVars, registryVars, shellVars>>

ExecBegins ==
    /\ turn = "tools" /\ todo # << >>
    /\ Head(todo).name = Exec /\ Exec \in registered
    /\ \E c \in Commands : ExecStarts(c)
    /\ turn' = "exec"
    /\ UNCHANGED <<providerVars, registryVars, messages, sent, round, todo>>

ExecAnswers ==
    /\ turn = "exec"
    /\ \A c \in Commands : exec[c] \in ExecEnded \cup {"new"}
    /\ ToolAnswered
    /\ UNCHANGED <<providerVars, registryVars, shellVars>>

AsksAgain ==
    /\ turn = "tools" /\ todo = << >>
    /\ turn' = "ask"
    /\ UNCHANGED <<providerVars, registryVars, shellVars, messages, sent, round, todo>>

\* What goes on after the call of exec has no part in the turn: it may end later.
Shell ==
    /\ turn \in {"exec", "end"}
    /\ ShellNext
    /\ UNCHANGED <<providerVars, registryVars, turnVars>>

\* The request is cancelled, or its limit of iterations reached.
Stops ==
    /\ turn \in {"ask", "tools"}
    /\ turn' = "end"
    /\ UNCHANGED <<providerVars, registryVars, shellVars, messages, sent, round, todo>>

\* The task that reads run_stream is cancelled in the call of exec.
Drops ==
    /\ turn = "exec"
    /\ \E c \in Commands : Interrupted(c) \/ InterruptedEarly(c)
    /\ turn' = "end"
    /\ UNCHANGED <<providerVars, registryVars, messages, sent, round, todo>>

\* The model call is cancelled with its task.
DropsCall ==
    /\ turn = "model" /\ response.kind = "none"
    /\ CallOver
    /\ turn' = "end"
    /\ UNCHANGED <<registryVars, shellVars, messages, sent, round, todo>>

-----------------------------------------------------------------------------

\* The manager of MCP servers, at any time of the turn.  While the model answers
\* or a command runs nothing reads the registry: a change then is one after.
ToolsChange ==
    /\ turn \in {"ask", "tools"}
    /\ \/ \E tool \in Tools \ {Exec} :
             Register(tool) \/ Unregister(tool) \/ Disable(tool) \/ Enable(tool)
       \/ \E tools \in SUBSET (Tools \ {Exec}) : UnregisterGroup(tools)
    /\ UNCHANGED <<providerVars, shellVars, turnVars>>

Next ==
    \/ Asks \/ Endpoint \/ AnswerFails \/ AnswerCalls \/ AnswerEnds
    \/ ToolRuns \/ ExecBegins \/ ExecAnswers \/ AsksAgain \/ Shell
    \/ Stops \/ Drops \/ DropsCall \/ ToolsChange

Spec == Init /\ [][Next]_vars

-----------------------------------------------------------------------------

\* Message i asks for calls: each is answered once right after it, and nothing else is.
AnsweredAt(history, i) ==
    LET calls == history[i].calls
    IN  /\ Len(history) >= i + Len(calls)
        /\ \A c \in DOMAIN calls :
              /\ history[i + c].role = "tool"
              /\ Cardinality({d \in DOMAIN calls : history[i + d].answers = calls[c]}) = 1
        /\ Len(history) > i + Len(calls) => history[i + Len(calls) + 1].role # "tool"

\* Message i comes after the question of the turn.
OfTurn(history, i) == \A j \in DOMAIN history : j >= i => history[j].role # "user"

PairsIn(history) ==
    \A i \in DOMAIN history :
        history[i].calls # << >> /\ OfTurn(history, i) => AnsweredAt(history, i)

(* Every message of a tool the endpoint is sent answers a call of the last   *)
(* assistant message before it, and every call the turn made is answered   *)
(* once before the next message: the endpoint refuses any other history,   *)
(* whatever identifiers it gave and whatever became of the calls           *)
(* (openai.py:240, runner.py:248).                                         *)
PairsKept == PairsIn(sent.messages)

(* So is every call of the turns before.  The store keeps the calls with     *)
(* the answer (session_manager.py:487) and sends them again without what   *)
(* the tools said (builder.py:108): it does not hold.                      *)
StoredPairsKept ==
    \A i \in DOMAIN sent.messages :
        sent.messages[i].calls # << >> => AnsweredAt(sent.messages, i)

(* The calls of an answer are those the endpoint meant, numbered or not.     *)
(* Pieces without an index of one call each are taken for one call         *)
(* (openai.py:653): it does not hold.                                      *)
AssembledAlways ==
    response.kind = "success" => Len(response.calls) = Cardinality(Begun)

(* What is executed was sent whole: a call the endpoint cut off ("length",   *)
(* or a stream that ended early) is not run with the arguments that came.  *)
(* Its arguments are repaired instead (openai.py:665): it does not hold.   *)
ExecutedWhole ==
    response.kind = "success" => \A c \in DOMAIN response.calls :
        Len(response.calls[c].args) = Pieces

(* When the call of a command has ended, nothing of it runs any more.  Only  *)
(* bash is killed (shell.py:225): it does not hold.                        *)
NothingRuns == \A c \in Commands : exec[c] = "timedOut" => ~ children[c]

=============================================================================
