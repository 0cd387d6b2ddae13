---------------------------- MODULE RunnerProperties ----------------------------
(***************************************************************************)
(* What AgentRunner.run_stream must guarantee.                             *)
(***************************************************************************)
EXTENDS AgentRunner

\* After the queue timed out, and until the next event, the runner is "lost".
ProtocolState ==
    CASE pc = "new"     -> "new"
      [] pc = "failed"  -> "failing"
      [] pc = "aborted" -> "cancelling"
      [] pc = "closed"  -> "ended"
      [] OTHER          -> IF event = "error" THEN "lost" ELSE "streaming"

Protocol == INSTANCE RunnerProtocol WITH
    state <- ProtocolState, last <- event, outcome <- outcome

\* The events of a run come in the order send_message relies on: start first,
\* one done event last, after it nothing, an error of the model followed by
\* done, an exception only where send_message may meet one.
Refines == Protocol!Spec

\* Unless the queue has timed out, the queue of all iterations keeps the streams
\* of different calls apart: it holds items of the current call only, closed by
\* None exactly when the call is over, and nothing once the inner loop is left.
StreamsApart ==
    ~timedOut /\ outcome = "open" =>
        /\ \A i \in DOMAIN queue :
            /\ queue[i].call = iteration
            /\ queue[i].kind = "None" <=> i = Len(queue) /\ call \notin Running
        /\ pc = "wait" /\ call \notin Running => queue # <<>>
        /\ pc # "wait" => queue = <<>> /\ call \notin Running

\* A cancelled run winds down: once no model call and no tool is under way, none
\* begins again, wherever the run was when the token was cancelled.
AtWork == call = "calling" \/ pc \in {"call", "tool"}
CancelIsFinal == [](cancelled /\ ~AtWork => []~AtWork)

\* Every run comes to an end, by its done event or by an exception, even if the
\* model answers with nothing but empty responses and tool calls.
RunEnds == <>(outcome # "open")

--------------------------------------------------------------------------------
(* What the documentation says and the code does not do. *)

\* docs/session-manager.md:959 "请求结束 → AgentRunner 清理内部资源": when the request
\* has ended the runner has cleaned up, so that no call of the model goes on.
RunCleansUp == outcome # "open" => call \notin Running

\* A tool whose event was handed over is executed even if the token was cancelled
\* meanwhile (runner.py:198).
CancelSparesTool == [][pc # "tool" /\ pc' = "tool" => ~cancelled]_vars
================================================================================
