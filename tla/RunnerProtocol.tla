----------------------------- MODULE RunnerProtocol -----------------------------
(***************************************************************************)
(* What AgentRunner.run_stream promises send_message: a stream of events   *)
(* in the order RunnerEvents allows, closed by exactly one done event,     *)
(* unless an exception escapes or the consumer goes away.  SessionManager  *)
(* is written against this protocol; AgentRunner implements it.            *)
(***************************************************************************)
EXTENDS RunnerEvents

VARIABLES
    state,    \* what run_stream will do next
    last,     \* the event yielded last
    outcome   \* "open", or how the stream ended

vars == <<state, last, outcome>>

TypeOK ==
    /\ state \in RunnerState
    /\ last \in Event
    /\ outcome \in {"open", "done", "raised", "dropped"}

Init == state = "new" /\ last = "none" /\ outcome = "open"

Yield ==
    /\ outcome = "open"
    /\ \E s \in RunnerSteps :
        /\ s[1] = state
        /\ last' = s[2]
        /\ state' = s[3]
        /\ outcome' = IF s[2] \in Terminal THEN "done" ELSE "open"

\* An exception reaches the consumer.
Raise ==
    /\ outcome = "open"
    /\ state \in MayRaise
    /\ state' = "ended" /\ outcome' = "raised"
    /\ UNCHANGED last

\* The consumer stops reading: deadline, disconnect, failed save.
Drop ==
    /\ outcome = "open"
    /\ state' = "ended" /\ outcome' = "dropped"
    /\ UNCHANGED last

Next == Yield \/ Raise \/ Drop

Spec == Init /\ [][Next]_vars
================================================================================
