------------------------------ MODULE RunnerEvents ------------------------------
(***************************************************************************)
(* The vocabulary of AgentRunner.run_stream (agent_runtime/runner.py), as  *)
(* its consumer send_message sees it: which event may follow which.        *)
(***************************************************************************)

\* "lost": the queue timed out.  "ended": nothing more is yielded.
RunnerState == {"new", "streaming", "failing", "lost", "cancelling", "ended"}
Terminal    == {"completed", "failed", "aborted"}   \* done, by stop_reason

\* "content" carries text of the answer; "progress" is everything else that is
\* yielded on the way (reasoning, tool_call, tool_result, iteration_boundary).
Event == {"none", "start", "content", "progress", "error", "cancelled"} \cup Terminal

\* A failed model call ends the loop, and done follows the error event.
FailingStepsNone == {}
FailingSteps == {<<"failing", "failed", "ended">>}

\* What run_stream yields next: <<state, event, next state>>.  After the queue
\* timeout the cancelled task is awaited, which either raises or, if the model
\* answered meanwhile, goes on.
RunnerSteps ==
    {<<"new", "start", "streaming">>, <<"cancelling", "aborted", "ended">>}
    \cup FailingSteps
    \cup {"streaming", "lost"} \X {"content", "progress"} \X {"streaming"}
    \cup {"streaming", "lost"} \X {"completed"} \X {"ended"}
    \cup {"streaming", "lost"} \X {"error"} \X {"failing", "lost"}
    \cup {"streaming", "lost"} \X {"cancelled"} \X {"cancelling"}

\* Where an exception may escape from run_stream instead.
MayRaise == {"streaming", "lost"}
================================================================================
