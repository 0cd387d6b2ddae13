------------------------------- MODULE AgentRunner -------------------------------
(***************************************************************************)
(* AgentRunner.run_stream (agent_runtime/runner.py): the loop of model     *)
(* calls and tool executions of one request.  A model call is a task of    *)
(* its own that puts what the model streams into event_queue, None at its  *)
(* end; run_stream reads the queue with a time limit and yields what it    *)
(* reads.  One queue serves all iterations.                                *)
(*                                                                         *)
(* Steps.  Both coroutines run on one loop: an action is "resume, run to   *)
(* the next suspension".  run_stream is suspended at every yield, in       *)
(* event_queue.get(), in `await task` and in the execution of a tool; the  *)
(* call before it starts and in the provider.                              *)
(***************************************************************************)
EXTENDS RunnerEvents, Integers, Sequences

CONSTANTS
    MaxIterations,    \* AgentRunSpec.max_iterations (the API requires >= 1)
    EmptyThreshold,   \* _EMPTY_RESPONSE_THRESHOLD
    MaxTools,         \* bound: tool calls in one response
    MaxQueue          \* bound: what a call puts in the queue before it is read

ASSUME MaxIterationsAssumption == MaxIterations \in Nat \ {0}
ASSUME EmptyThresholdAssumption == EmptyThreshold \in Nat \ {0}
ASSUME MaxToolsAssumption == MaxTools \in Nat \ {0}
ASSUME MaxQueueAssumption == MaxQueue \in Nat

VARIABLES
    pc,          \* where run_stream is suspended
    event,       \* the event it yielded last
    outcome,     \* "open", or how the stream ended
    iteration,   \* iterations begun; names the current call
    call,        \* the background task of the current iteration
    answer,      \* its result
    tools,       \* tool calls of the answer not begun yet
    empties,     \* empty_response_count
    queue,       \* event_queue
    cancelled,   \* the request's CancellationToken
    timedOut     \* history: the queue timed out in some iteration

runVars == <<pc, event, outcome>>
callVars == <<iteration, call, answer, tools>>
vars == <<runVars, callVars, empties, queue, cancelled, timedOut>>

\* "wait" is the inner loop: in event_queue.get() or at the yield of an item.
\* "slow", "failed", "aborted", "opened", "call", "result" and "boundary" are
\* the other yields, "join" is `await task`, "tool" a tool's execution.
PC == {"new", "opened", "wait", "slow", "join", "call", "tool", "result",
       "boundary", "failed", "aborted", "closed"}
Running == {"created", "calling"}
Item == [call : Nat, kind : {"content", "progress", "None"}]

TypeOK ==
    /\ pc \in PC
    /\ event \in Event
    /\ outcome \in {"open", "done", "raised", "dropped"}
    /\ iteration \in 0..MaxIterations
    /\ call \in {"none", "ended", "refused", "killed"} \cup Running
    /\ answer \in {"none", "error", "tools", "text", "empty"}
    /\ tools \in 0..MaxTools
    /\ empties \in 0..EmptyThreshold
    /\ queue \in Seq(Item)
    /\ cancelled \in BOOLEAN
    /\ timedOut \in BOOLEAN

Init ==
    /\ pc = "new" /\ event = "none" /\ outcome = "open"
    /\ iteration = 0 /\ answer = "none" /\ tools = 0 /\ empties = 0
    /\ call = "none"
    /\ queue = <<>>
    /\ cancelled = FALSE
    /\ timedOut = FALSE

--------------------------------------------------------------------------------
(* Helpers *)

Goto(l) == pc' = l /\ UNCHANGED <<event, outcome>>

\* Yield e and be suspended at l.
Emit(e, l) == pc' = l /\ event' = e /\ UNCHANGED outcome

\* The done event: nothing follows it.
Finish(reason) == pc' = "closed" /\ event' = reason /\ outcome' = "done"

\* CancelledError is raised in run_stream.
AbortQuietly == Finish("aborted") /\ UNCHANGED callVars
Abort == Emit("cancelled", "aborted") /\ UNCHANGED callVars

\* An asyncio.CancelledError, which nothing catches, leaves run_stream.
Leave(how) == pc' = "closed" /\ outcome' = how /\ UNCHANGED event

Put(kind) == queue' = Append(queue, [call |-> iteration, kind |-> kind])

Launch ==
    /\ iteration' = iteration + 1
    /\ call' = "created"
    /\ answer' = "none"
    /\ Goto("wait")
    /\ UNCHANGED tools

\* The head of the for loop: the range is exhausted (stop_reason is
\* "max_iterations"), token.check() raises, or the next call is launched.
ContinueInRange == iteration < MaxIterations /\ IF cancelled THEN Abort ELSE Launch
Continue ==
    \/ iteration = MaxIterations /\ Finish("completed") /\ UNCHANGED callVars
    \/ iteration < MaxIterations /\ cancelled /\ Abort
    \/ iteration < MaxIterations /\ ~cancelled /\ Launch

\* The head of the loop over tool calls, n of which have not begun.
BeginTool(n) ==
    /\ Emit("progress", "call")
    /\ tools' = n - 1
    /\ UNCHANGED <<iteration, call, answer>>
NextTool(n) ==
    \/ cancelled /\ Abort
    \/ ~cancelled /\ BeginTool(n)

--------------------------------------------------------------------------------
(* run_stream *)

Start ==
    /\ pc = "new"
    /\ Emit("start", "opened")
    /\ UNCHANGED <<callVars, empties, queue, cancelled, timedOut>>

Resume ==
    /\ pc \in {"opened", "boundary"}
    /\ Continue
    /\ UNCHANGED <<empties, queue, cancelled, timedOut>>

\* The inner loop ends at the first None.
AtAnswer == call \notin Running
AtNone == Head(queue).kind = "None"
TakeItem ==
    /\ pc = "wait" /\ queue # <<>>
    /\ IF AtNone THEN Goto("join") ELSE Emit(Head(queue).kind, "wait")
    /\ queue' = Tail(queue)
    /\ UNCHANGED <<callVars, empties, cancelled, timedOut>>

\* Nothing arrived for _QUEUE_GET_TIMEOUT_S.
QueueTimeout ==
    /\ pc = "wait" /\ queue = <<>> /\ call # "created"
    /\ Emit("error", "slow")
    /\ timedOut' = TRUE
    /\ UNCHANGED <<callVars, empties, queue, cancelled>>

\* The error was consumed and the call still runs: task.cancel() raises
\* asyncio.CancelledError in it, its finally block puts None, and `await task`
\* raises the same in run_stream.
KillCall ==
    /\ pc = "slow" /\ call = "calling"
    /\ call' = "killed"
    /\ Put("None")
    /\ Leave("raised")
    /\ UNCHANGED <<iteration, answer, tools, empties, cancelled, timedOut>>

\* `await task` returned, after None or because the call ended while the error
\* event was being consumed: run_stream goes on by the answer.
Answered(a) == pc \in {"join", "slow"} /\ call = "ended" /\ answer = a

AnswerRefused ==
    /\ pc \in {"join", "slow"} /\ call = "refused"
    /\ Abort
    /\ UNCHANGED <<empties, queue, cancelled, timedOut>>

AnswerError ==
    /\ Answered("error")
    /\ Emit("error", "failed")
    /\ UNCHANGED <<callVars, empties, queue, cancelled, timedOut>>

AnswerTools ==
    /\ Answered("tools")
    /\ \E n \in 1..MaxTools : NextTool(n)
    /\ UNCHANGED <<empties, queue, cancelled, timedOut>>

AnswerText ==
    /\ Answered("text")
    /\ Finish("completed")
    /\ empties' = 0
    /\ UNCHANGED <<callVars, queue, cancelled, timedOut>>

EmptyLimitPast(n) == n > EmptyThreshold
EmptyLimit(n) == n >= EmptyThreshold
AnswerEmpty ==
    /\ Answered("empty")
    /\ empties' = empties + 1
    /\ IF EmptyLimit(empties')
       THEN Emit("error", "failed") /\ UNCHANGED callVars
       ELSE Continue
    /\ UNCHANGED <<queue, cancelled, timedOut>>

RunTool ==
    /\ pc = "call"
    /\ Goto("tool")
    /\ UNCHANGED <<callVars, empties, queue, cancelled, timedOut>>

\* A result, a ToolError, a timeout or any other exception: the tool is answered.
ToolReturns ==
    /\ pc = "tool"
    /\ Emit("progress", "result")
    /\ UNCHANGED <<callVars, empties, queue, cancelled, timedOut>>

AfterTool ==
    /\ pc = "result"
    /\ \/ tools > 0 /\ NextTool(tools)
       \/ tools = 0 /\ Emit("progress", "boundary") /\ UNCHANGED callVars
    /\ UNCHANGED <<empties, queue, cancelled, timedOut>>

\* The done event after an error or a cancelled event.
Close ==
    /\ \/ pc = "failed" /\ Finish("failed")
       \/ pc = "aborted" /\ Finish("aborted")
    /\ UNCHANGED <<callVars, empties, queue, cancelled, timedOut>>

--------------------------------------------------------------------------------
(* _request_model_stream_with_events, the background task.  It outlives a  *)
(* run_stream that was left.                                               *)

\* token.check() once more, the event loop having run in between.
CallBegins ==
    /\ call = "created"
    /\ \/ cancelled /\ call' = "refused" /\ Put("None")
       \/ ~cancelled /\ call' = "calling" /\ UNCHANGED queue
    /\ UNCHANGED <<runVars, iteration, answer, tools, empties, cancelled, timedOut>>

\* on_chunk: content or reasoning.  Deltas of tool calls put nothing.
Chunk ==
    /\ call = "calling" /\ Len(queue) < MaxQueue
    /\ \E kind \in {"content", "progress"} : Put(kind)
    /\ UNCHANGED <<runVars, callVars, empties, cancelled, timedOut>>

\* The provider turns its own timeouts and exceptions into an error answer.
CallReturns ==
    /\ call = "calling"
    /\ call' = "ended"
    /\ answer' \in {"error", "tools", "text", "empty"}
    /\ Put("None")
    /\ UNCHANGED <<runVars, iteration, tools, empties, cancelled, timedOut>>

--------------------------------------------------------------------------------
(* The consumer *)

\* cancel_request, the watchdog or the deadline of send_message.
Cancel ==
    /\ outcome = "open" /\ ~cancelled
    /\ cancelled' = TRUE
    /\ UNCHANGED <<runVars, callVars, empties, queue, timedOut>>

\* The consumer stops: the generator is closed at a yield, or the task that
\* reads it is cancelled at an await.  Only in `await task` does that reach the
\* call.
Drop ==
    /\ outcome = "open"
    /\ Leave("dropped")
    /\ \/ pc = "join" /\ call = "calling" /\ call' = "killed" /\ Put("None")
       \/ ~(pc = "join" /\ call = "calling") /\ UNCHANGED <<call, queue>>
    /\ UNCHANGED <<iteration, answer, tools, empties, cancelled, timedOut>>

--------------------------------------------------------------------------------
RunStep ==
    \/ Start \/ Resume \/ TakeItem \/ QueueTimeout \/ KillCall
    \/ AnswerRefused \/ AnswerError \/ AnswerTools \/ AnswerText \/ AnswerEmpty
    \/ RunTool \/ ToolReturns \/ AfterTool \/ Close
CallStep == CallBegins \/ Chunk \/ CallReturns
Next == RunStep \/ CallStep \/ Cancel \/ Drop

Spec == Init /\ [][Next]_vars

\* run_stream is scheduled whenever it can go on, its tools are bounded by
\* tool_timeout_s, and the provider bounds every wait for the model.
Fairness == WF_vars(RunStep) /\ WF_vars(CallBegins) /\ WF_vars(CallReturns)
FairSpec == Spec /\ Fairness
================================================================================
