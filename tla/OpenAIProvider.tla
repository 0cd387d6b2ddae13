--------------------------- MODULE OpenAIProvider ---------------------------
(***************************************************************************)
(* One streamed call of OpenAIProvider                                     *)
(* (agent_runtime/providers/openai.py).  The endpoint sends chunks of      *)
(* content, reasoning and pieces of tool calls; each is passed on as it    *)
(* comes (on_chunk) and kept, and at the end the answer is put together    *)
(* from those that were kept, one after the other (_parse_chunks): the     *)
(* model keeps of the chunks what comes of them.  A chunk without a choice *)
(* carries the usage only.                                                 *)
(***************************************************************************)
EXTENDS Naturals, Sequences

CONSTANTS MaxCalls,     \* bound: tool calls in an answer
          Pieces,       \* the chunks a tool call comes in
          MaxText       \* bound: chunks of content or reasoning

ASSUME ProviderAssumption == MaxCalls \in Nat

VARIABLES stream,       \* "closed", "opening", "open"
          plan,         \* what the endpoint is about to answer
          given,        \* [1..MaxCalls -> pieces of the call sent]
          finish,       \* the finish_reason sent last, or "none"
          parsed,       \* what _parse_chunks makes of the chunks received
          events,       \* what was passed on of this call: content and reasoning
          response      \* what the call returned, or NoResponse

providerVars == <<stream, plan, given, finish, parsed, events, response>>

Errors == {"timeout", "connection", "rate_limit", "server", "other"}

NoResponse == [kind |-> "none"]
Failure(error) == [kind |-> "error", error |-> error]

\* name is the tool of each call; an endpoint may leave out the index of the
\* pieces, or the id of the calls.
NoPlan == [name |-> << >>, indexed |-> TRUE, identified |-> TRUE]

NoneParsed == [calls |-> << >>, content |-> << >>, reasoning |-> << >>]

ProviderInit ==
    /\ stream = "closed" /\ plan = NoPlan /\ finish = "none"
    /\ given = [c \in 1..MaxCalls |-> 0]
    /\ parsed = NoneParsed /\ events = << >>
    /\ response = NoResponse

-----------------------------------------------------------------------------
(* The answer.                                                             *)

Chunk(text, reason, deltas) == [text |-> text, reason |-> reason, deltas |-> deltas]

\* Piece p of call c; the first one has the name, and the id if there is one.
Delta(c, p) == [index |-> IF plan.indexed THEN c ELSE 0, call |-> c, piece |-> p]

\* A mistake: the place of a piece in its chunk tells its call.
KeyByPlace(delta, place) == place

\* _accum_tc: without an index, the place of the piece in its chunk.
Key(delta, place) == IF delta.index # 0 THEN delta.index ELSE place

NoBuffer(key) == [key |-> key, name |-> "", id |-> 0, args |-> << >>]

\* The name and the id come with the first piece only.
Accumulated(buffer, delta) ==
    [key |-> buffer.key,
     name |-> IF delta.piece = 1 THEN plan.name[delta.call] ELSE buffer.name,
     id |-> IF delta.piece = 1 /\ plan.identified THEN delta.call ELSE buffer.id,
     args |-> Append(buffer.args, <<delta.call, delta.piece>>)]

\* tc_bufs with the pieces of one chunk: no two of them have the same key, and a
\* key is first seen after the smaller ones, so that they are the places.
Buffers(buffers, deltas) ==
    LET keys == {Key(deltas[p], p) : p \in DOMAIN deltas}
        old(key) == IF key \in DOMAIN buffers THEN buffers[key] ELSE NoBuffer(key)
        at(key) == CHOOSE p \in DOMAIN deltas : Key(deltas[p], p) = key
    IN  [key \in DOMAIN buffers \cup keys |->
            IF key \in keys THEN Accumulated(old(key), deltas[at(key)]) ELSE buffers[key]]

\* Content and reasoning as they stand in the answer.
Parsed ==
    [kind |-> "success", calls |-> parsed.calls, content |-> parsed.content,
     reasoning |-> parsed.reasoning, finish |-> IF finish = "none" THEN "stop" ELSE finish]

-----------------------------------------------------------------------------
(* The call.                                                               *)

Emptied(to) ==
    /\ stream' = to
    /\ plan' = NoPlan /\ finish' = "none"
    /\ given' = [c \in 1..MaxCalls |-> 0]
    /\ parsed' = NoneParsed /\ events' = << >>

\* The request is refused here if it does not alternate.
CallBegins(alternates) ==
    IF alternates THEN Emptied("opening") /\ response' = NoResponse
    ELSE Emptied("closed") /\ response' = Failure("other")

Opens(answer) ==
    /\ stream = "opening"
    /\ stream' = "open"
    /\ plan' = answer
    /\ UNCHANGED <<given, finish, parsed, events, response>>

\* The exceptions of the client become an error of its kind, a silence of the
\* stream a time-out; the chunks received are lost.
Fails ==
    /\ stream \in {"opening", "open"}
    /\ Emptied("closed")
    /\ \E error \in Errors : response' = Failure(error)

\* The call is over: its answer was taken, or its task cancelled.
CallOver == Emptied("closed") /\ response' = NoResponse

\* on_chunk puts content and reasoning into the queue of the runner; pieces of
\* tool calls are passed on, too, but the runner leaves them.
Passed(text, reason) ==
    (IF text THEN << "content" >> ELSE << >>) \o (IF reason THEN << "reasoning" >> ELSE << >>)

\* A mistake: a chunk is either content or reasoning.
PassesOne(chunk) ==
    events' = events \o Passed(chunk.text, chunk.reason /\ ~ chunk.text)

Passes(chunk) == events' = events \o Passed(chunk.text, chunk.reason)

Receives(chunk) ==
    /\ stream = "open"
    /\ parsed' = [calls |-> Buffers(parsed.calls, chunk.deltas),
                  content |-> parsed.content \o Passed(chunk.text, FALSE),
                  reasoning |-> parsed.reasoning \o Passed(FALSE, chunk.reason)]
    /\ Passes(chunk)
    /\ UNCHANGED <<stream, plan, response>>

SendsText ==
    /\ finish = "none" /\ Len(events) < MaxText
    /\ \E text, reason \in BOOLEAN : (text \/ reason) /\ Receives(Chunk(text, reason, << >>))
    /\ UNCHANGED <<given, finish>>

\* The next pieces of one or several calls; a call begins after the one before.
SendsPieces ==
    /\ finish = "none"
    /\ \E n \in DOMAIN plan.name : \E of \in [1..n -> DOMAIN plan.name] :
          /\ \A j, k \in 1..n : j < k => of[j] < of[k]
          /\ \A k \in 1..n :
                given[of[k]] < Pieces
                /\ \A b \in 1..(of[k] - 1) : given[b] > 0 \/ \E j \in 1..n : of[j] = b
          /\ Receives(Chunk(FALSE, FALSE, [k \in 1..n |-> Delta(of[k], given[of[k]] + 1)]))
          /\ given' = [c \in DOMAIN given |->
                          IF \E k \in 1..n : of[k] = c THEN given[c] + 1 ELSE given[c]]
    /\ UNCHANGED finish

\* The last chunk but the usage: the answer is whole, or as long as it may be.
SendsFinish ==
    /\ stream = "open" /\ finish = "none"
    /\ finish' \in {"length"} \cup
          (IF \A c \in DOMAIN plan.name : given[c] = Pieces
           THEN {IF plan.name = << >> THEN "stop" ELSE "tool_calls"} ELSE {})
    /\ UNCHANGED <<stream, plan, given, parsed, events, response>>

\* The stream ends, with or without a finish_reason.
StreamEnds ==
    /\ stream = "open"
    /\ stream' = "closed"
    /\ response' = Parsed
    /\ UNCHANGED <<plan, given, finish, parsed, events>>

ProviderNext == Fails \/ SendsText \/ SendsPieces \/ SendsFinish \/ StreamEnds

-----------------------------------------------------------------------------

Begun == {c \in DOMAIN plan.name : given[c] > 0}

(* The answer has the tool calls the endpoint sent, each with its own name   *)
(* and the pieces of its arguments in their order, however the pieces of   *)
(* several calls were mixed, if the endpoint numbers them (openai.py:571). *)
CallsAssembled ==
    response.kind = "success" /\ plan.indexed =>
        response.calls = [c \in Begun |->
            [key |-> c, name |-> plan.name[c], id |-> IF plan.identified THEN c ELSE 0,
             args |-> [p \in 1..given[c] |-> <<c, p>>]]]

(* The answer says what was passed on while it came: the client and the      *)
(* history see the same content and reasoning (openai.py:803).             *)
AnswerIsStreamed ==
    response.kind = "success" =>
        /\ response.content = SelectSeq(events, LAMBDA e : e = "content")
        /\ response.reasoning = SelectSeq(events, LAMBDA e : e = "reasoning")

=============================================================================
