-------------------------- MODULE SessionManagerProofs --------------------------
(***************************************************************************)
(* Theorems about SessionManager, for any set of requests, any choice of   *)
(* administrative calls and any number of restarts, and about clients that *)
(* wait for their turn (SessionClients).                                   *)
(***************************************************************************)
EXTENDS SessionClients, SequenceTheorems, FiniteSetTheorems, TLAPS

--------------------------------------------------------------------------------
(* The lock *)

\* Taking an element out of a queue leaves a queue of the same set.
LEMMA RemoveIndexType ==
    ASSUME NEW S, NEW s \in Seq(S), NEW i \in 1..Len(s)
    PROVE  RemoveIndex(s, i) \in Seq(S)
<1>1. SubSeq(s, 1, i - 1) \in Seq(S)
  BY SubSeqProperties
<1>2. SubSeq(s, i + 1, Len(s)) \in Seq(S)
  BY SubSeqProperties
<1>. QED BY <1>1, <1>2, ConcatProperties DEF RemoveIndex, RemoveAt

\* Leaving the queue (timeout or cancellation) keeps the queues well formed.
LEMMA LeaveQueueType ==
    ASSUME LockTypeOK, NEW r \in Requests, LeaveQueue(r)
    PROVE  waiters' \in [Requests -> Seq(Requests)]
<1>0. PICK l \in Requests : \E i \in 1..Len(waiters[l]) :
          waiters' = [waiters EXCEPT ![l] = RemoveIndex(@, i)]
  BY DEF LeaveQueue
<1>1. PICK i \in 1..Len(waiters[l]) :
          waiters' = [waiters EXCEPT ![l] = RemoveIndex(@, i)]
  BY <1>0
<1>2. waiters[l] \in Seq(Requests)
  BY DEF LockTypeOK
<1>3. RemoveIndex(waiters[l], i) \in Seq(Requests)
  BY <1>2, RemoveIndexType
<1>. QED BY <1>1, <1>3 DEF LockTypeOK

\* force_unlock and a restart leave the queues and dictionaries well formed.
LEMMA ForceUnlockType ==
    ASSUME LockTypeOK, ForceUnlock, waiters' \in [Requests -> Seq(Requests)]
    PROVE  LockTypeOK'
BY DEF LockTypeOK, ForceUnlock

LEMMA LockForgottenType ==
    ASSUME LockForgotten PROVE LockTypeOK'
<1>1. <<>> \in Seq(Requests)
  BY EmptySeq
<1>. QED BY <1>1 DEF LockTypeOK, LockForgotten

\* Each way into the lock keeps it well formed.
LEMMA AcquireType ==
    ASSUME LockTypeOK, NEW r \in Requests,
           AcquireFree(r) \/ Enqueue(r) \/ AcquireWoken(r)
    PROVE  LockTypeOK'
<1>1. CASE AcquireFree(r)
  BY <1>1 DEF LockTypeOK, AcquireFree
<1>2. CASE Enqueue(r)
  <2>1. lockObj \in Requests /\ waiters[lockObj] \in Seq(Requests)
    BY <1>2 DEF LockTypeOK, Enqueue, Contended
  <2>2. Append(waiters[lockObj], r) \in Seq(Requests)
    BY <2>1, AppendProperties
  <2>. QED BY <1>2, <2>1, <2>2 DEF LockTypeOK, Enqueue
<1>3. CASE AcquireWoken(r)
  <2>1. PICK l \in Requests \ locked :
            /\ waiters[l] # <<>>
            /\ locked' = locked \cup {l}
            /\ waiters' = [waiters EXCEPT ![l] = Tail(@)]
            /\ keyOwner' = r
            /\ UNCHANGED lockObj
    BY <1>3 DEF AcquireWoken
  <2>2. waiters[l] \in Seq(Requests)
    BY DEF LockTypeOK
  <2>3. Tail(waiters[l]) \in Seq(Requests)
    BY <2>1, <2>2, HeadTailProperties
  <2>. QED BY <2>1, <2>3 DEF LockTypeOK
<1>. QED BY <1>1, <1>2, <1>3

--------------------------------------------------------------------------------
(* The vocabulary of send_message *)

\* What the runner can yield is an event, and what it becomes is a state.
LEMMA RunnerStepsType ==
    ASSUME NEW s \in RunnerSteps
    PROVE  s[2] \in Event /\ s[3] \in RunnerState
BY DEF RunnerSteps, FailingSteps, Event, Terminal, RunnerState

\* Saving a message extends a well-formed conversation.
LEMMA SaveType ==
    ASSUME TypeOK, NEW r \in Requests, NEW role \in {"user", "assistant"}, Save(r, role)
    PROVE  history' \in Seq(Message)
<1>1. [req |-> r, role |-> role] \in Message
  BY DEF Message
<1>. QED BY <1>1, AppendProperties DEF Save, TypeOK

\* A request that gives up its locals, or reaches its cleanup, stays well typed.
LEMMA FailType ==
    ASSUME TypeOK, NEW r \in Requests, Fail(r)
    PROVE  /\ pc' \in [Requests -> PC]
           /\ runner' \in [Requests -> RunnerState]
           /\ event' \in [Requests -> Event]
           /\ chunks' \subseteq Requests /\ unsendable' \subseteq Requests
BY DEF TypeOK, Fail, Goto, DropLocals, PC, Yields, RunnerState, Event

LEMMA FinallyType ==
    ASSUME TypeOK, NEW r \in Requests, Finally(r),
           waiters' \in [Requests -> Seq(Requests)]
    PROVE  /\ LockTypeOK'
           /\ pc' \in [Requests -> PC]
           /\ runner' \in [Requests -> RunnerState]
           /\ event' \in [Requests -> Event]
           /\ chunks' \subseteq Requests /\ unsendable' \subseteq Requests
           /\ cancelled' \subseteq Requests
           /\ activeToken' = NoRequest
<1>1. LockTypeOK'
  BY ForceUnlockType DEF TypeOK, Finally
<1>2. AfterCleanup \in PC
  BY DEF AfterCleanup, PC, Ended
<1>. QED
  BY <1>1, <1>2 DEF TypeOK, Finally, Goto, DropLocals, RunnerState, Event

LEMMA FinishStatusType ==
    ASSUME TypeOK, NEW r \in Requests, FinishStatus(r)
    PROVE  /\ status' \in {"idle", "busy", "error"}
           /\ reqId' \in Requests \cup {NoRequest}
           /\ pc' \in [Requests -> PC]
           /\ runner' \in [Requests -> RunnerState]
           /\ event' \in [Requests -> Event]
           /\ chunks' \subseteq Requests /\ unsendable' \subseteq Requests
<1>1. CASE Busy
  BY <1>1 DEF FinishStatus, TypeOK, Outcome, Goto, DropLocals, PC, Awaits, RunnerState, Event
<1>2. CASE ~Busy
  BY <1>2, FailType DEF FinishStatus, TypeOK
<1>. QED BY <1>1, <1>2

--------------------------------------------------------------------------------
(* Type correctness *)

\* A step of a request keeps the types.
LEMMA RequestStepType ==
    ASSUME TypeOK, NEW r \in Requests, Send(r) \/ Continues(r)
    PROVE  TypeOK'
<1>. USE DEF OtherActors, adminVars, localVars
<1>1. CASE Send(r)
  BY <1>1, FailType DEF Send, TypeOK, LockTypeOK, lockVars, Goto, PC, Awaits
<1>2. CASE Admit(r)
  <2>1. LockTypeOK'
    BY <1>2, AcquireType DEF Admit, TypeOK
  <2>. QED BY <1>2, <2>1 DEF Admit, TypeOK, Goto, PC, Yields, Awaits
<1>3. CASE LockAcquired(r)
  <2>1. LockTypeOK'
    BY <1>3, AcquireType DEF LockAcquired, TypeOK
  <2>. QED BY <1>3, <2>1 DEF LockAcquired, TypeOK, Goto, PC, Yields
<1>4. CASE LockTimeout(r)
  <2>1. LockTypeOK'
    BY <1>4, LeaveQueueType DEF LockTimeout, TypeOK, LockTypeOK
  <2>. QED BY <1>4, <2>1, FailType DEF LockTimeout, TypeOK
<1>5. CASE Claim(r)
  <2>1. CASE exists /\ status = "idle"
    BY <1>5, <2>1 DEF Claim, TypeOK, LockTypeOK, lockVars, Goto, PC, Awaits
  <2>2. CASE ~ (exists /\ status = "idle")
    BY <1>5, <2>2, FailType DEF Claim, TypeOK, LockTypeOK, lockVars
  <2>. QED BY <2>1, <2>2
<1>6. CASE Prepare(r)
  <2>1. CASE Goto(r, "run") /\ UNCHANGED <<runner, event, chunks>>
              /\ unsendable' \in {unsendable, unsendable \cup {r}}
    BY <1>6, <2>1 DEF Prepare, TypeOK, LockTypeOK, lockVars, Goto, PC, Awaits
  <2>2. CASE Fail(r)
    BY <1>6, <2>2, FailType DEF Prepare, TypeOK, LockTypeOK, lockVars
  <2>. QED BY <1>6, <2>1, <2>2 DEF Prepare
<1>7. CASE RunnerEvent(r)
  <2>1. history' \in Seq(Message)
    BY <1>7, SaveType DEF RunnerEvent, TypeOK
  <2>2. PICK s \in RunnerSteps :
            /\ event' = [event EXCEPT ![r] = s[2]]
            /\ runner' = [runner EXCEPT ![r] = s[3]]
    BY <1>7 DEF RunnerEvent
  <2>3. event' \in [Requests -> Event] /\ runner' \in [Requests -> RunnerState]
    BY <2>2, RunnerStepsType DEF TypeOK
  <2>. QED BY <1>7, <2>1, <2>3 DEF RunnerEvent, TypeOK, LockTypeOK, lockVars, Goto, PC, Yields
<1>8. CASE RunFails(r)
  BY <1>8, FailType DEF RunFails, TypeOK, LockTypeOK, lockVars
<1>9. CASE RunLost(r)
  BY <1>9, FinallyType DEF RunLost, TypeOK, LockTypeOK
<1>10. CASE DeadlinePasses(r)
  BY <1>10 DEF DeadlinePasses, TypeOK, LockTypeOK, lockVars, Goto, DropLocals, PC, Yields,
               RunnerState, Event
<1>11. CASE DeliverEvent(r)
  BY <1>11 DEF DeliverEvent, TypeOK, LockTypeOK, lockVars, Goto, PC, Awaits, Event
<1>12. CASE DeliverDone(r)
  <2>1. CASE SavesAssistant(r) /\ exists
    <3>1. history' \in Seq(Message)
      BY <1>12, <2>1, SaveType DEF DeliverDone
    <3>. QED
      BY <1>12, <2>1, <3>1 DEF DeliverDone, TypeOK, LockTypeOK, lockVars, Goto, PC, Awaits
  <2>2. CASE SavesAssistant(r) /\ ~exists
    BY <1>12, <2>2, FailType DEF DeliverDone, TypeOK, LockTypeOK, lockVars
  <2>3. CASE ~SavesAssistant(r)
    BY <1>12, <2>3, FinishStatusType DEF DeliverDone, TypeOK, LockTypeOK, lockVars
  <2>. QED BY <2>1, <2>2, <2>3
<1>13. CASE Finish(r)
  BY <1>13, FinishStatusType DEF Finish, TypeOK, LockTypeOK, lockVars
<1>14. CASE Unlock(r)
  <2>1. CASE MayUnlock(r)
    BY <1>14, <2>1, FinallyType DEF Unlock, TypeOK, LockTypeOK
  <2>2. CASE ~MayUnlock(r)
    BY <1>14, <2>2, FailType DEF Unlock, TypeOK, LockTypeOK
  <2>. QED BY <2>1, <2>2
<1>15. CASE Report(r)
  BY <1>15, FinallyType DEF Report, TypeOK, LockTypeOK
<1>16. CASE StreamClosed(r)
  <2>1. waiters' \in [Requests -> Seq(Requests)]
    BY <1>16, LeaveQueueType DEF StreamClosed, TypeOK, LockTypeOK
  <2>. QED BY <1>16, <2>1, FinallyType DEF StreamClosed, TypeOK
<1>17. CASE Reset(r)
  BY <1>17 DEF Reset, ToIdle, TypeOK, LockTypeOK, lockVars, Goto, PC, Ended
<1>18. CASE Interrupt(r)
  BY <1>18 DEF Interrupt, TypeOK, LockTypeOK, lockVars, Goto, PC, Ended
<1>. QED
  BY <1>1, <1>2, <1>3, <1>4, <1>5, <1>6, <1>7, <1>8, <1>9, <1>10, <1>11, <1>12, <1>13,
     <1>14, <1>15, <1>16, <1>17, <1>18 DEF Continues, Progress

\* So does a step of the watchdog, of an administrative call, or a restart.
LEMMA SurroundingStepType ==
    ASSUME TypeOK, Surroundings
    PROVE  TypeOK'
<1>. USE DEF rowVars, adminVars, localVars
<1>1. CASE WatchdogScan
  BY <1>1 DEF WatchdogScan, TypeOK, LockTypeOK, lockVars
<1>2. CASE WatchdogReset
  <2>1. LockTypeOK'
    BY <1>2, ForceUnlockType DEF WatchdogReset, TypeOK, LockTypeOK
  <2>2. RegisteredToken \subseteq Requests
    BY DEF RegisteredToken, TypeOK
  <2>. QED BY <1>2, <2>1, <2>2 DEF WatchdogReset, ToIdle, TypeOK
<1>3. CASE Administration
  <2>1. CASE CancelCheck
    BY <2>1 DEF CancelCheck, Checked, TypeOK, LockTypeOK, lockVars
  <2>2. CASE Cancel
    <3>1. RegisteredToken \subseteq Requests
      BY DEF RegisteredToken, TypeOK
    <3>. QED BY <2>2, <3>1 DEF Cancel, AdminDone, TypeOK, LockTypeOK, lockVars
  <2>3. CASE DeleteCheck
    BY <2>3 DEF DeleteCheck, Checked, TypeOK, LockTypeOK, lockVars
  <2>4. CASE Delete
    BY <2>4, EmptySeq DEF Delete, AdminDone, ToIdle, TypeOK, LockTypeOK, lockVars
  <2>5. CASE ArchiveCheck
    BY <2>5 DEF ArchiveCheck, Checked, TypeOK, LockTypeOK, lockVars
  <2>6. CASE Archive
    BY <2>6 DEF Archive, AdminDone, TypeOK, LockTypeOK, lockVars
  <2>7. CASE UnarchiveCheck
    BY <2>7 DEF UnarchiveCheck, Checked, TypeOK, LockTypeOK, lockVars
  <2>8. CASE Unarchive
    BY <2>8 DEF Unarchive, AdminDone, TypeOK, LockTypeOK, lockVars
  <2>. QED
    BY <1>3, <2>1, <2>2, <2>3, <2>4, <2>5, <2>6, <2>7, <2>8 DEF Administration
<1>4. CASE Crash
  <2>1. LockTypeOK'
    BY <1>4, LockForgottenType DEF Crash
  <2>2. crashes' \in 0..MaxCrashes
    BY <1>4, MaxCrashesAssumption DEF Crash, TypeOK
  <2>. QED
    BY <1>4, <2>1, <2>2 DEF Crash, TypeOK, PC, Ended, RunnerState, Event
<1>. QED BY <1>1, <1>2, <1>3, <1>4 DEF Surroundings

\* Every variable keeps its type, in particular the conversation stays a sequence
\* of messages and the queues of the lock sequences of requests.
THEOREM TypeCorrect == Spec => []TypeOK
<1>1. Init => TypeOK
  <2>1. <<>> \in Seq(Message) /\ <<>> \in Seq(Requests)
    BY EmptySeq
  <2>2. 0 \in 0..MaxCrashes
    BY MaxCrashesAssumption
  <2>. QED
    BY <2>1, <2>2 DEF Init, LockInit, TypeOK, LockTypeOK, PC, RunnerState, Event
<1>2. TypeOK /\ [Next]_vars => TypeOK'
  <2>1. TypeOK /\ Next => TypeOK'
    BY RequestStepType, SurroundingStepType DEF Next
  <2>2. TypeOK /\ UNCHANGED vars => TypeOK'
    BY DEF TypeOK, LockTypeOK, vars, rowVars, localVars, lockVars, adminVars
  <2>. QED BY <2>1, <2>2
<1>. QED BY <1>1, <1>2, PTL DEF Spec

--------------------------------------------------------------------------------
(* No session is left busy without an owner                                 *)
(*                                                                          *)
(* BusyHasOwner is not inductive: the cleanup looks at the row through Busy, *)
(* which a deleted row never satisfies, so it must also be known that a row  *)
(* that is gone does not read "busy".                                       *)

GoneIsIdle == ~exists => status = "idle"
OwnerInv == TypeOK /\ GoneIsIdle /\ BusyHasOwner

\* Where a request may be while the row names it.
Owner == Owes \cup {"interrupted", "crashed"}

\* A step of r that leaves the row alone disturbs the invariant only if r, being
\* the owner, is no longer one afterwards.
LEMMA OwnerMoves ==
    ASSUME OwnerInv, NEW r \in Requests, NEW l, Goto(r, l),
           UNCHANGED <<exists, status, reqId>>,
           pc[r] \in Owner /\ Busy => l \in Owner
    PROVE  GoneIsIdle' /\ BusyHasOwner'
<1>1. pc \in [Requests -> PC]
  BY DEF OwnerInv, TypeOK
<1>2. GoneIsIdle'
  BY DEF OwnerInv, GoneIsIdle
<1>3. BusyHasOwner'
  <2>. SUFFICES ASSUME status = "busy"
                PROVE  reqId \in Requests /\ pc'[reqId] \in Owner
    BY DEF BusyHasOwner, Owner, Owes
  <2>1. Busy /\ reqId \in Requests /\ pc[reqId] \in Owner
    BY DEF OwnerInv, GoneIsIdle, BusyHasOwner, Busy, Owner
  <2>2. pc' = [pc EXCEPT ![r] = l]
    BY DEF Goto
  <2>. QED BY <1>1, <2>1, <2>2
<1>. QED BY <1>2, <1>3

\* Failing and cleaning up are such steps.
LEMMA OwnerFails ==
    ASSUME OwnerInv, NEW r \in Requests, Fail(r), UNCHANGED <<exists, status, reqId>>
    PROVE  GoneIsIdle' /\ BusyHasOwner'
BY OwnerMoves DEF Fail, Owner, Owes

LEMMA OwnerCleansUp ==
    ASSUME OwnerInv, NEW r \in Requests, Finally(r), UNCHANGED <<exists, status, reqId>>
    PROVE  GoneIsIdle' /\ BusyHasOwner'
BY OwnerMoves DEF Finally, AfterCleanup, Owner, Owes

\* The final status update either takes the row out of busy or fails.
LEMMA OwnerFinishes ==
    ASSUME OwnerInv, NEW r \in Requests, FinishStatus(r), UNCHANGED exists
    PROVE  GoneIsIdle' /\ BusyHasOwner'
<1>1. CASE Busy
  BY <1>1 DEF FinishStatus, Outcome, Busy, GoneIsIdle, BusyHasOwner
<1>2. CASE ~Busy
  BY <1>2, OwnerFails DEF FinishStatus
<1>. QED BY <1>1, <1>2

LEMMA RequestStepOwner ==
    ASSUME OwnerInv, NEW r \in Requests, Send(r) \/ Continues(r)
    PROVE  GoneIsIdle' /\ BusyHasOwner'
<1>1. CASE Send(r)
  <2>1. pc[r] \notin Owner
    BY <1>1 DEF Send, Owner, Owes
  <2>. QED BY <1>1, <2>1, OwnerMoves, OwnerFails DEF Send
<1>2. CASE Admit(r)
  BY <1>2, OwnerMoves DEF Admit, Owner, Owes
<1>3. CASE LockAcquired(r)
  BY <1>3, OwnerMoves DEF LockAcquired, Owner, Owes
<1>4. CASE LockTimeout(r)
  BY <1>4, OwnerFails DEF LockTimeout
<1>5. CASE Claim(r)
  <2>1. CASE exists /\ status = "idle"
    <3>1. reqId' = r /\ pc'[r] = "claimed" /\ exists'
      BY <1>5, <2>1 DEF Claim, Goto, OwnerInv, TypeOK
    <3>. QED BY <3>1 DEF GoneIsIdle, BusyHasOwner, Owes
  <2>2. CASE ~(exists /\ status = "idle")
    BY <1>5, <2>2, OwnerFails DEF Claim
  <2>. QED BY <2>1, <2>2
<1>6. CASE Prepare(r)
  BY <1>6, OwnerMoves, OwnerFails DEF Prepare, Owner, Owes
<1>7. CASE RunnerEvent(r)
  BY <1>7, OwnerMoves DEF RunnerEvent, Owner, Owes
<1>8. CASE RunFails(r)
  BY <1>8, OwnerFails DEF RunFails
<1>9. CASE RunLost(r)
  BY <1>9, OwnerCleansUp DEF RunLost
<1>10. CASE DeadlinePasses(r)
  BY <1>10, OwnerMoves DEF DeadlinePasses, Owner, Owes
<1>11. CASE DeliverEvent(r)
  BY <1>11, OwnerMoves DEF DeliverEvent, Owner, Owes
<1>12. CASE DeliverDone(r)
  <2>1. CASE SavesAssistant(r) /\ exists
    BY <1>12, <2>1, OwnerMoves DEF DeliverDone, Owner, Owes
  <2>2. CASE SavesAssistant(r) /\ ~exists
    BY <1>12, <2>2, OwnerFails DEF DeliverDone
  <2>3. CASE ~SavesAssistant(r)
    BY <1>12, <2>3, OwnerFinishes DEF DeliverDone
  <2>. QED BY <2>1, <2>2, <2>3
<1>13. CASE Finish(r)
  BY <1>13, OwnerFinishes DEF Finish
<1>14. CASE Unlock(r)
  BY <1>14, OwnerCleansUp, OwnerFails DEF Unlock
<1>15. CASE Report(r)
  BY <1>15, OwnerCleansUp DEF Report
<1>16. CASE StreamClosed(r)
  BY <1>16, OwnerCleansUp DEF StreamClosed
<1>17. CASE Reset(r)
  <2>1. CASE exists
    BY <1>17, <2>1 DEF Reset, ToIdle, GoneIsIdle, BusyHasOwner
  <2>2. CASE ~exists
    BY <1>17, <2>2 DEF Reset, OwnerInv, GoneIsIdle, BusyHasOwner
  <2>. QED BY <2>1, <2>2
<1>18. CASE Interrupt(r)
  BY <1>18, OwnerMoves DEF Interrupt, Owner
<1>. QED
  BY <1>1, <1>2, <1>3, <1>4, <1>5, <1>6, <1>7, <1>8, <1>9, <1>10, <1>11, <1>12, <1>13,
     <1>14, <1>15, <1>16, <1>17, <1>18 DEF Continues, Progress

LEMMA SurroundingStepOwner ==
    ASSUME OwnerInv, Surroundings
    PROVE  GoneIsIdle' /\ BusyHasOwner'
<1>1. ASSUME UNCHANGED <<exists, status, reqId, pc>>
      PROVE  GoneIsIdle' /\ BusyHasOwner'
  BY <1>1 DEF OwnerInv, GoneIsIdle, BusyHasOwner
<1>2. CASE WatchdogScan
  BY <1>1, <1>2 DEF WatchdogScan, rowVars
<1>3. CASE WatchdogReset
  <2>1. CASE Busy
    BY <1>3, <2>1 DEF WatchdogReset, ToIdle, Busy, GoneIsIdle, BusyHasOwner
  <2>2. CASE ~Busy
    BY <1>1, <1>3, <2>2 DEF WatchdogReset
  <2>. QED BY <2>1, <2>2
<1>4. CASE CancelCheck \/ DeleteCheck \/ ArchiveCheck \/ UnarchiveCheck
  BY <1>1, <1>4
  DEF CancelCheck, DeleteCheck, ArchiveCheck, UnarchiveCheck, Checked, rowVars
<1>5. CASE Cancel \/ Archive \/ Unarchive
  BY <1>1, <1>5 DEF Cancel, Archive, Unarchive, AdminDone, rowVars
<1>6. CASE Delete
  BY <1>6 DEF Delete, ToIdle, GoneIsIdle, BusyHasOwner
<1>7. CASE Crash
  <2>1. UNCHANGED <<exists, status, reqId>>
    BY <1>7 DEF Crash, rowVars
  <2>2. \A q \in Requests : pc[q] \in Owner => pc'[q] \in Owner
    BY <1>7 DEF Crash, Owner, Owes, Ended
  <2>. QED BY <2>1, <2>2 DEF OwnerInv, GoneIsIdle, BusyHasOwner, Owner
<1>. QED
  BY <1>2, <1>3, <1>4, <1>5, <1>6, <1>7 DEF Surroundings, Administration

\* A session is never left busy with nobody to reset it: while the row is busy,
\* the request it names still has its cleanup ahead of it, or was killed or
\* interrupted before the write.
THEOREM BusyAlwaysOwned == Spec => []BusyHasOwner
<1>1. Init => GoneIsIdle /\ BusyHasOwner
  BY DEF Init, GoneIsIdle, BusyHasOwner
<1>2. TypeOK /\ GoneIsIdle /\ BusyHasOwner /\ [Next]_vars => (GoneIsIdle /\ BusyHasOwner)'
  <2>1. TypeOK /\ GoneIsIdle /\ BusyHasOwner /\ Next => (GoneIsIdle /\ BusyHasOwner)'
    BY RequestStepOwner, SurroundingStepOwner DEF Next, OwnerInv
  <2>2. GoneIsIdle /\ BusyHasOwner /\ UNCHANGED vars => (GoneIsIdle /\ BusyHasOwner)'
    BY DEF GoneIsIdle, BusyHasOwner, vars, rowVars
  <2>. QED BY <2>1, <2>2
<1>. QED BY <1>1, <1>2, TypeCorrect, PTL DEF Spec

--------------------------------------------------------------------------------
(* The id of the running request *)

\* A step of a request names a request in the row only while making it busy.
LEMMA RequestStepNames ==
    ASSUME IdleNamesNobody, NEW r \in Requests, Send(r) \/ Continues(r)
    PROVE  IdleNamesNobody'
<1>1. ASSUME UNCHANGED <<status, reqId>> PROVE IdleNamesNobody'
  BY <1>1 DEF IdleNamesNobody
<1>2. CASE Claim(r)
  BY <1>2 DEF Claim, IdleNamesNobody
<1>3. CASE DeliverDone(r) \/ Finish(r)
  BY <1>1, <1>3 DEF DeliverDone, Finish, FinishStatus, IdleNamesNobody
<1>4. CASE Reset(r)
  BY <1>1, <1>4 DEF Reset, ToIdle, IdleNamesNobody
<1>5. CASE Send(r) \/ Admit(r) \/ LockAcquired(r) \/ LockTimeout(r) \/ Prepare(r)
  BY <1>1, <1>5 DEF Send, Admit, LockAcquired, LockTimeout, Prepare
<1>6. CASE RunnerEvent(r) \/ RunFails(r) \/ RunLost(r) \/ DeadlinePasses(r) \/ DeliverEvent(r)
  BY <1>1, <1>6 DEF RunnerEvent, RunFails, RunLost, DeadlinePasses, DeliverEvent
<1>7. CASE Unlock(r) \/ Report(r) \/ StreamClosed(r) \/ Interrupt(r)
  BY <1>1, <1>7 DEF Unlock, Report, StreamClosed, Interrupt
<1>. QED
  BY <1>2, <1>3, <1>4, <1>5, <1>6, <1>7 DEF Continues, Progress

LEMMA SurroundingStepNames ==
    ASSUME IdleNamesNobody, Surroundings
    PROVE  IdleNamesNobody'
<1>1. ASSUME UNCHANGED <<status, reqId>> PROVE IdleNamesNobody'
  BY <1>1 DEF IdleNamesNobody
<1>2. CASE WatchdogReset
  BY <1>1, <1>2 DEF WatchdogReset, ToIdle, IdleNamesNobody
<1>3. CASE Delete
  BY <1>3 DEF Delete, ToIdle, IdleNamesNobody
<1>4. CASE WatchdogScan \/ Crash
  BY <1>1, <1>4 DEF WatchdogScan, Crash, rowVars
<1>5. CASE CancelCheck \/ DeleteCheck \/ ArchiveCheck \/ UnarchiveCheck
  BY <1>1, <1>5
  DEF CancelCheck, DeleteCheck, ArchiveCheck, UnarchiveCheck, Checked, rowVars
<1>6. CASE Cancel \/ Archive \/ Unarchive
  BY <1>1, <1>6 DEF Cancel, Archive, Unarchive, AdminDone, rowVars
<1>. QED
  BY <1>2, <1>3, <1>4, <1>5, <1>6 DEF Surroundings, Administration

\* A session that is not busy names no current request, whichever of the four
\* writers (turn end, cleanup, watchdog, delete) took it out of busy.
THEOREM IdleNeverNames == Spec => []IdleNamesNobody
<1>1. Init => IdleNamesNobody
  BY DEF Init, IdleNamesNobody
<1>2. IdleNamesNobody /\ [Next]_vars => IdleNamesNobody'
  <2>1. IdleNamesNobody /\ Next => IdleNamesNobody'
    BY RequestStepNames, SurroundingStepNames DEF Next
  <2>2. IdleNamesNobody /\ UNCHANGED vars => IdleNamesNobody'
    BY DEF IdleNamesNobody, vars, rowVars
  <2>. QED BY <2>1, <2>2
<1>. QED BY <1>1, <1>2, PTL DEF Spec

--------------------------------------------------------------------------------
(* What the service remembers for a session *)

Remembered == {activeToken, lockObj, keyOwner}

\* A step that makes nobody leave the active places, and remembers nobody but
\* the active request r in addition.
LEMMA RememberedMoves ==
    ASSUME TypeOK, RemembersActive, NEW r \in Requests, NEW l, Goto(r, l), l \in Active,
           Remembered' \subseteq Remembered \cup {r, NoRequest}
    PROVE  RemembersActive'
<1>1. pc'[r] \in Active /\ \A q \in Requests : pc[q] \in Active => pc'[q] \in Active
  BY DEF Goto, TypeOK
<1>2. \A q \in Remembered : q # NoRequest => q \in Requests /\ pc[q] \in Active
  BY DEF Remembered, RemembersActive, TypeOK, LockTypeOK
<1>3. \A q \in Remembered' : q # NoRequest => pc'[q] \in Active
  BY <1>1, <1>2
<1>. QED BY <1>3 DEF Remembered, RemembersActive

LEMMA RememberedFails ==
    ASSUME TypeOK, RemembersActive, NEW r \in Requests, Fail(r),
           Remembered' \subseteq Remembered \cup {r, NoRequest}
    PROVE  RemembersActive'
BY RememberedMoves DEF Fail, Active, Yields

\* The cleanup forgets everything the service remembers for the session.
LEMMA RememberedDropped ==
    ASSUME NEW r \in Requests, Finally(r)
    PROVE  RemembersActive'
BY DEF Finally, ForceUnlock, RemembersActive

\* A step of a request that has been through its cleanup.
LEMMA RememberedElsewhere ==
    ASSUME TypeOK, RemembersActive, NEW r \in Requests, NEW l, Goto(r, l), pc[r] \notin Active,
           UNCHANGED <<activeToken, lockObj, keyOwner>>
    PROVE  RemembersActive'
BY DEF Goto, TypeOK, LockTypeOK, RemembersActive

LEMMA RequestStepLeaks ==
    ASSUME TypeOK, RemembersActive, NEW r \in Requests, Send(r) \/ Continues(r)
    PROVE  RemembersActive'
<1>1. CASE Send(r)
  <2>1. Remembered' \subseteq Remembered \cup {r, NoRequest}
    BY <1>1 DEF Send, Remembered, lockVars
  <2>. QED BY <1>1, <2>1, RememberedMoves, RememberedFails DEF Send, Active, Awaits
<1>2. CASE Admit(r)
  <2>1. Remembered' \subseteq Remembered \cup {r, NoRequest}
    BY <1>2 DEF Admit, AcquireFree, Enqueue, Remembered
  <2>. QED BY <1>2, <2>1, RememberedMoves DEF Admit, Active, Yields, Awaits
<1>3. CASE LockAcquired(r)
  <2>1. Remembered' \subseteq Remembered \cup {r, NoRequest}
    BY <1>3 DEF LockAcquired, AcquireWoken, Remembered
  <2>. QED BY <1>3, <2>1, RememberedMoves DEF LockAcquired, Active, Yields
<1>4. ASSUME UNCHANGED <<activeToken, lockObj, keyOwner>>
      PROVE  Remembered' = Remembered
  BY <1>4 DEF Remembered
<1>5. CASE LockTimeout(r)
  BY <1>4, <1>5, RememberedFails DEF LockTimeout
<1>6. CASE Claim(r)
  BY <1>4, <1>6, RememberedMoves, RememberedFails DEF Claim, lockVars, Active, Awaits
<1>7. CASE Prepare(r)
  BY <1>4, <1>7, RememberedMoves, RememberedFails DEF Prepare, lockVars, Active, Awaits
<1>8. CASE RunnerEvent(r)
  BY <1>4, <1>8, RememberedMoves DEF RunnerEvent, lockVars, Active, Yields
<1>9. CASE RunFails(r)
  BY <1>4, <1>9, RememberedFails DEF RunFails, lockVars
<1>10. CASE DeadlinePasses(r)
  BY <1>4, <1>10, RememberedMoves DEF DeadlinePasses, lockVars, Active, Yields
<1>11. CASE DeliverEvent(r)
  BY <1>4, <1>11, RememberedMoves DEF DeliverEvent, lockVars, Active, Awaits
<1>12. CASE DeliverDone(r) \/ Finish(r)
  <2>1. UNCHANGED <<activeToken, lockObj, keyOwner>>
    BY <1>12 DEF DeliverDone, Finish, lockVars
  <2>2. Fail(r) \/ Goto(r, "finish") \/ Goto(r, "unlock")
    BY <1>12 DEF DeliverDone, Finish, FinishStatus
  <2>. QED BY <1>4, <2>1, <2>2, RememberedMoves, RememberedFails DEF Active, Awaits
<1>13. CASE Unlock(r)
  BY <1>4, <1>13, RememberedDropped, RememberedFails DEF Unlock
<1>14. CASE RunLost(r) \/ Report(r) \/ StreamClosed(r)
  BY <1>14, RememberedDropped DEF RunLost, Report, StreamClosed
<1>15. CASE Reset(r) \/ Interrupt(r)
  <2>1. pc[r] \notin Active
    BY <1>15 DEF Reset, Interrupt, Active, Yields, Awaits
  <2>. QED BY <1>4, <1>15, <2>1, RememberedElsewhere DEF Reset, Interrupt, lockVars
<1>. QED
  BY <1>1, <1>2, <1>3, <1>5, <1>6, <1>7, <1>8, <1>9, <1>10, <1>11, <1>12, <1>13, <1>14,
     <1>15 DEF Continues, Progress

LEMMA SurroundingStepLeaks ==
    ASSUME RemembersActive, Surroundings
    PROVE  RemembersActive'
<1>1. ASSUME UNCHANGED <<activeToken, pc, lockObj, keyOwner>> PROVE RemembersActive'
  BY <1>1 DEF RemembersActive
<1>2. CASE WatchdogScan
  BY <1>1, <1>2 DEF WatchdogScan, lockVars
<1>3. CASE WatchdogReset
  BY <1>3 DEF WatchdogReset, ForceUnlock, RemembersActive
<1>4. CASE Crash
  BY <1>4 DEF Crash, LockForgotten, RemembersActive
<1>5. CASE CancelCheck \/ DeleteCheck \/ ArchiveCheck \/ UnarchiveCheck
  BY <1>1, <1>5
  DEF CancelCheck, DeleteCheck, ArchiveCheck, UnarchiveCheck, Checked, lockVars
<1>6. CASE Cancel \/ Delete \/ Archive \/ Unarchive
  BY <1>1, <1>6 DEF Cancel, Delete, Archive, Unarchive, AdminDone, lockVars
<1>. QED
  BY <1>2, <1>3, <1>4, <1>5, <1>6 DEF Surroundings, Administration

\* Whatever happens to the lock, an object that can be found is held.
LEMMA LockStepHeld ==
    ASSUME FoundIsHeld, UNCHANGED lockVars \/ ForceUnlock \/ LockForgotten
               \/ UNCHANGED <<lockObj, locked>>
               \/ \E r \in Requests : AcquireFree(r) \/ Enqueue(r) \/ AcquireWoken(r)
    PROVE  FoundIsHeld'
BY DEF FoundIsHeld, lockVars, ForceUnlock, LockForgotten, AcquireFree, Enqueue, AcquireWoken

LEMMA StepHeld ==
    ASSUME FoundIsHeld, Next
    PROVE  FoundIsHeld'
<1>1. ASSUME NEW r \in Requests, Send(r) \/ Continues(r)
      PROVE  FoundIsHeld'
  <2>1. CASE Admit(r) \/ LockAcquired(r)
    BY <2>1, LockStepHeld DEF Admit, LockAcquired
  <2>2. CASE Unlock(r) \/ Report(r) \/ StreamClosed(r) \/ RunLost(r)
    BY <2>2, LockStepHeld DEF Unlock, Report, StreamClosed, RunLost, Finally
  <2>3. CASE Send(r) \/ LockTimeout(r) \/ Claim(r) \/ Prepare(r) \/ RunnerEvent(r)
    BY <2>3, LockStepHeld DEF Send, LockTimeout, Claim, Prepare, RunnerEvent
  <2>4. CASE RunFails(r) \/ DeadlinePasses(r) \/ DeliverEvent(r) \/ DeliverDone(r)
    BY <2>4, LockStepHeld DEF RunFails, DeadlinePasses, DeliverEvent, DeliverDone
  <2>5. CASE Finish(r) \/ Reset(r) \/ Interrupt(r)
    BY <2>5, LockStepHeld DEF Finish, Reset, Interrupt
  <2>. QED BY <1>1, <2>1, <2>2, <2>3, <2>4, <2>5 DEF Continues, Progress
<1>2. ASSUME Surroundings PROVE FoundIsHeld'
  <2>1. CASE WatchdogScan \/ WatchdogReset \/ Crash
    BY <2>1, LockStepHeld DEF WatchdogScan, WatchdogReset, Crash
  <2>2. CASE CancelCheck \/ DeleteCheck \/ ArchiveCheck \/ UnarchiveCheck
    BY <2>2, LockStepHeld DEF CancelCheck, DeleteCheck, ArchiveCheck, UnarchiveCheck, Checked
  <2>3. CASE Cancel \/ Delete \/ Archive \/ Unarchive
    BY <2>3, LockStepHeld DEF Cancel, Delete, Archive, Unarchive, AdminDone
  <2>. QED BY <1>2, <2>1, <2>2, <2>3 DEF Surroundings, Administration
<1>. QED BY <1>1, <1>2 DEF Next

\* The token entry, the lock object and the key kept for a session never outlive
\* the request they belong to, although any cleanup drops anybody's, and a lock
\* object that can be found is held.
THEOREM NothingOutlives == Spec => []NothingLeaks
<1>1. Init => RemembersActive /\ FoundIsHeld
  BY DEF Init, LockInit, RemembersActive, FoundIsHeld
<1>2. TypeOK /\ RemembersActive /\ [Next]_vars => RemembersActive'
  <2>1. TypeOK /\ RemembersActive /\ Next => RemembersActive'
    BY RequestStepLeaks, SurroundingStepLeaks DEF Next
  <2>2. RemembersActive /\ UNCHANGED vars => RemembersActive'
    BY DEF RemembersActive, vars, lockVars
  <2>. QED BY <2>1, <2>2
<1>3. FoundIsHeld /\ [Next]_vars => FoundIsHeld'
  BY StepHeld DEF FoundIsHeld, vars, lockVars
<1>. QED BY <1>1, <1>2, <1>3, TypeCorrect, PTL DEF Spec, NothingLeaks

--------------------------------------------------------------------------------
(* The stored conversation                                                  *)

\* Before the run the runner is new; an event that is handed over has made it go on.
Early == {"new", "admit", "lockwait", "start", "claimed"}
RunnerFollows ==
    \A r \in Requests :
        /\ pc[r] \in Early => runner[r] = "new"
        /\ pc[r] = "yield" => runner[r] # "new"

LEMMA StepRunnerFollows ==
    ASSUME TypeOK, RunnerFollows, Next
    PROVE  RunnerFollows'
<1>. USE DEF RunnerFollows, Early, TypeOK, localVars
<1>1. ASSUME NEW r \in Requests, Send(r) \/ Continues(r)
      PROVE  RunnerFollows'
  <2>1. CASE Fail(r) \/ Finally(r)
    BY <2>1 DEF Fail, Finally, AfterCleanup, Goto, DropLocals
  <2>2. CASE RunnerEvent(r)
    <3>1. \A s \in RunnerSteps : s[3] # "new"
      BY DEF RunnerSteps, FailingSteps, Terminal
    <3>. QED BY <2>2, <3>1 DEF RunnerEvent, Goto
  <2>3. CASE Send(r) \/ Admit(r) \/ LockAcquired(r) \/ LockTimeout(r) \/ Claim(r) \/ Prepare(r)
    BY <2>1, <2>3 DEF Send, Admit, LockAcquired, LockTimeout, Claim, Prepare, Goto
  <2>4. CASE RunFails(r) \/ RunLost(r) \/ DeadlinePasses(r) \/ DeliverEvent(r)
    BY <2>1, <2>4 DEF RunFails, RunLost, DeadlinePasses, DeliverEvent, Goto, DropLocals
  <2>5. CASE DeliverDone(r) \/ Finish(r)
    BY <2>1, <2>5 DEF DeliverDone, Finish, FinishStatus, Goto, DropLocals
  <2>6. CASE Unlock(r) \/ Report(r) \/ StreamClosed(r) \/ Reset(r) \/ Interrupt(r)
    BY <2>1, <2>6 DEF Unlock, Report, StreamClosed, Reset, Interrupt, Goto
  <2>. QED BY <1>1, <2>2, <2>3, <2>4, <2>5, <2>6 DEF Continues, Progress
<1>2. CASE Surroundings
  <2>1. CASE Crash
    BY <2>1 DEF Crash, Ended
  <2>2. CASE ~ Crash
    BY <1>2, <2>2 DEF Surroundings, WatchdogScan, WatchdogReset, Administration, CancelCheck,
       DeleteCheck, ArchiveCheck, UnarchiveCheck, Checked, Cancel, Delete, Archive, Unarchive,
       AdminDone
  <2>. QED BY <2>1, <2>2
<1>. QED BY <1>1, <1>2 DEF Next

Asked(r) == \E i \in 1..Len(history) : history[i] = [req |-> r, role |-> "user"]
Answered(r) == \E i \in 1..Len(history) : history[i] = [req |-> r, role |-> "assistant"]

SavedOnce == \A i, j \in 1..Len(history) : history[i] = history[j] => i = j

QuestionFirst ==
    \A i \in 1..Len(history) : history[i].role = "assistant" =>
        \E j \in 1..Len(history) : j < i /\ history[j] = [req |-> history[i].req, role |-> "user"]

\* Where a request may be once its answer is saved, and where it may save it.
Past == {"finish", "unlock", "yieldError", "reset"} \cup Ended
Running(r) == pc[r] \in {"run", "yield"} /\ runner[r] # "new"

\* Which messages of a request there are, by where it is.
SavedByPlace ==
    \A r \in Requests :
        /\ Asked(r) => runner[r] # "new"
        /\ Answered(r) => pc[r] \in Past
        /\ exists /\ Running(r) => Asked(r)

MessagesInv == SavedOnce /\ QuestionFirst /\ SavedByPlace

\* A step of r that saves nothing and neither starts a run nor returns to one.
LEMMA MessagesKept ==
    ASSUME MessagesInv, UNCHANGED <<history, exists>>, NEW r,
           \A q \in Requests \ {r} : pc'[q] = pc[q] /\ runner'[q] = runner[q],
           runner[r] # "new" => runner'[r] # "new",
           pc[r] \in Past => pc'[r] \in Past,
           Running(r)' => Running(r)
    PROVE  MessagesInv'
<1>1. SavedOnce' /\ QuestionFirst'
  BY DEF MessagesInv, SavedOnce, QuestionFirst
<1>2. \A q \in Requests : Asked(q)' = Asked(q) /\ Answered(q)' = Answered(q)
  BY DEF Asked, Answered
<1>3. SavedByPlace'
  BY <1>2 DEF MessagesInv, SavedByPlace, Running
<1>. QED BY <1>1, <1>3 DEF MessagesInv

\* A request that fails or is cleaned up is one that has left its run.
LEMMA MessagesLeave ==
    ASSUME TypeOK, MessagesInv, UNCHANGED <<history, exists>>, NEW r \in Requests,
           Fail(r) \/ Finally(r)
    PROVE  MessagesInv'
<1>1. pc'[r] \in {"yieldError", "reset", "done"} /\ runner'[r] = "ended"
  BY DEF TypeOK, Fail, Finally, AfterCleanup, Goto, DropLocals
<1>2. \A q \in Requests \ {r} : pc'[q] = pc[q] /\ runner'[q] = runner[q]
  BY DEF TypeOK, Fail, Finally, Goto, DropLocals
<1>. QED BY <1>1, <1>2, MessagesKept DEF Past, Ended, Running

\* Saving adds one message at the end.
LEMMA SaveAppends ==
    ASSUME TypeOK, NEW r \in Requests, NEW role \in {"user", "assistant"}, Save(r, role)
    PROVE  /\ Len(history) \in Nat /\ Len(history') = Len(history) + 1
           /\ history'[Len(history) + 1] = [req |-> r, role |-> role]
           /\ \A i \in 1..Len(history) : history'[i] = history[i] /\ history[i] \in Message
<1>1. [req |-> r, role |-> role] \in Message
  BY DEF Message
<1>2. history \in Seq(Message)
  BY DEF TypeOK
<1>. QED BY <1>1, <1>2, AppendProperties, LenProperties, ElementOfSeq DEF Save

\* The question is saved with the first event.
LEMMA MessagesAsk ==
    ASSUME TypeOK, MessagesInv, NEW r \in Requests, RunnerEvent(r), FirstEvent(r)
    PROVE  MessagesInv'
<1>. DEFINE n == Len(history)
            m == [req |-> r, role |-> "user"]
<1>1. /\ n \in Nat /\ Len(history') = n + 1 /\ history'[n + 1] = m
      /\ \A i \in 1..n : history'[i] = history[i] /\ history[i] \in Message
  BY SaveAppends DEF RunnerEvent
<1>2. ~ Asked(r)
  BY DEF MessagesInv, SavedByPlace, FirstEvent
<1>3. SavedOnce'
  BY <1>1, <1>2 DEF MessagesInv, SavedOnce, Asked
<1>4. QuestionFirst'
  BY <1>1 DEF MessagesInv, QuestionFirst
<1>5. /\ Asked(r)'
      /\ \A q \in Requests : Answered(q)' = Answered(q)
      /\ \A q \in Requests \ {r} : Asked(q)' = Asked(q)
  BY <1>1 DEF Asked, Answered
<1>6. \A s \in RunnerSteps : s[3] # "new"
  BY DEF RunnerSteps, FailingSteps, Terminal
<1>7. /\ runner'[r] # "new" /\ exists' = exists
      /\ \A q \in Requests \ {r} : pc'[q] = pc[q] /\ runner'[q] = runner[q]
      /\ pc[r] = "run"
  BY <1>6 DEF RunnerEvent, TypeOK, Goto
<1>8. SavedByPlace'
  BY <1>5, <1>7 DEF MessagesInv, SavedByPlace, Running, Past, Ended
<1>. QED BY <1>3, <1>4, <1>8 DEF MessagesInv

\* The answer is saved when done is delivered, to a session that is still there.
LEMMA MessagesAnswer ==
    ASSUME TypeOK, RunnerFollows, MessagesInv, NEW r \in Requests,
           DeliverDone(r), SavesAssistant(r), exists
    PROVE  MessagesInv'
<1>. DEFINE n == Len(history)
            m == [req |-> r, role |-> "assistant"]
<1>1. /\ n \in Nat /\ Len(history') = n + 1 /\ history'[n + 1] = m
      /\ \A i \in 1..n : history'[i] = history[i] /\ history[i] \in Message
  BY SaveAppends DEF DeliverDone
<1>2. Asked(r) /\ ~ Answered(r)
  BY DEF DeliverDone, MessagesInv, SavedByPlace, Running, RunnerFollows, Past, Ended
<1>3. SavedOnce'
  BY <1>1, <1>2 DEF MessagesInv, SavedOnce, Answered
<1>4. QuestionFirst'
  BY <1>1, <1>2 DEF MessagesInv, QuestionFirst, Asked
<1>5. /\ Answered(r)'
      /\ \A q \in Requests : Asked(q)' = Asked(q)
      /\ \A q \in Requests \ {r} : Answered(q)' = Answered(q)
  BY <1>1 DEF Asked, Answered
<1>6. /\ pc'[r] = "finish" /\ exists' = exists /\ runner' = runner
      /\ \A q \in Requests \ {r} : pc'[q] = pc[q]
  BY DEF DeliverDone, TypeOK, Goto, localVars
<1>7. SavedByPlace'
  BY <1>5, <1>6 DEF MessagesInv, SavedByPlace, Running, Past
<1>. QED BY <1>3, <1>4, <1>7 DEF MessagesInv

LEMMA RequestStepMessages ==
    ASSUME TypeOK, RunnerFollows, MessagesInv, NEW r \in Requests, Send(r) \/ Continues(r)
    PROVE  MessagesInv'
<1>. USE DEF TypeOK, Goto, Running, Past, Ended
<1>1. CASE Send(r) \/ Claim(r) \/ Prepare(r)
  BY <1>1, MessagesKept, MessagesLeave DEF Send, Claim, Prepare, localVars, RunnerFollows, Early
<1>2. CASE Admit(r) \/ LockAcquired(r) \/ LockTimeout(r)
  BY <1>2, MessagesKept, MessagesLeave DEF Admit, LockAcquired, LockTimeout, localVars
<1>3. CASE RunnerEvent(r)
  <2>1. CASE FirstEvent(r)
    BY <1>3, <2>1, MessagesAsk
  <2>2. CASE ~ FirstEvent(r)
    <3>1. \A s \in RunnerSteps : s[3] # "new"
      BY DEF RunnerSteps, FailingSteps, Terminal
    <3>. QED BY <1>3, <2>2, <3>1, MessagesKept DEF RunnerEvent, FirstEvent
  <2>. QED BY <2>1, <2>2
<1>4. CASE RunFails(r) \/ RunLost(r) \/ Report(r) \/ Unlock(r) \/ StreamClosed(r)
  BY <1>4, MessagesLeave DEF RunFails, RunLost, Report, Unlock, StreamClosed
<1>5. CASE DeadlinePasses(r) \/ DeliverEvent(r)
  BY <1>5, MessagesKept DEF DeadlinePasses, DeliverEvent, DropLocals, RunnerFollows
<1>6. CASE DeliverDone(r) \/ Finish(r)
  <2>1. CASE FinishStatus(r) /\ UNCHANGED <<history, exists>>
    BY <2>1, MessagesKept, MessagesLeave DEF FinishStatus, DropLocals
  <2>2. CASE Fail(r) /\ UNCHANGED <<history, exists>>
    BY <2>2, MessagesLeave
  <2>. QED BY <1>6, <2>1, <2>2, MessagesAnswer DEF DeliverDone, Finish
<1>7. CASE Reset(r) \/ Interrupt(r)
  BY <1>7, MessagesKept DEF Reset, Interrupt, localVars
<1>. QED BY <1>1, <1>2, <1>3, <1>4, <1>5, <1>6, <1>7 DEF Continues, Progress

LEMMA SurroundingStepMessages ==
    ASSUME TypeOK, RunnerFollows, MessagesInv, Surroundings
    PROVE  MessagesInv'
<1>1. CASE Delete
  <2>1. Len(history') = 0 /\ ~ exists'
    BY <1>1, EmptySeq DEF Delete
  <2>. QED BY <2>1 DEF MessagesInv, SavedOnce, QuestionFirst, SavedByPlace, Asked, Answered
<1>2. CASE Crash
  <2>1. UNCHANGED <<history, exists>>
    BY <1>2 DEF Crash, rowVars
  <2>2. \A q \in Requests : Asked(q)' = Asked(q) /\ Answered(q)' = Answered(q)
    BY <2>1 DEF Asked, Answered
  <2>3. \A q \in Requests : /\ ~ Running(q)'
                            /\ runner'[q] = "new" => pc[q] = "new"
                            /\ pc[q] \in Past => pc'[q] \in Past
    BY <1>2 DEF Crash, Running, Past, Ended
  <2>4. SavedByPlace'
    BY <2>2, <2>3 DEF MessagesInv, SavedByPlace, RunnerFollows, Early
  <2>. QED BY <2>1, <2>4 DEF MessagesInv, SavedOnce, QuestionFirst
<1>3. CASE UNCHANGED <<history, exists, pc, runner>>
  BY <1>3, MessagesKept DEF Running
<1>4. Surroundings => Delete \/ Crash \/ UNCHANGED <<history, exists, pc, runner>>
  BY DEF Surroundings, WatchdogScan, WatchdogReset, Administration, CancelCheck, DeleteCheck,
     ArchiveCheck, UnarchiveCheck, Checked, Cancel, Archive, Unarchive, AdminDone, rowVars,
     localVars
<1>. QED BY <1>1, <1>2, <1>3, <1>4

LEMMA RunnerFollowsPlace == Spec => []RunnerFollows
<1>1. Init => RunnerFollows
  BY DEF Init, RunnerFollows
<1>2. TypeOK /\ RunnerFollows /\ [Next]_vars => RunnerFollows'
  BY StepRunnerFollows DEF RunnerFollows, vars, localVars
<1>. QED BY <1>1, <1>2, TypeCorrect, PTL DEF Spec

LEMMA MessagesByPlace == Spec => []MessagesInv
<1>1. Init => MessagesInv
  BY EmptySeq DEF Init, MessagesInv, SavedOnce, QuestionFirst, SavedByPlace, Asked, Answered,
     Running
<1>2. TypeOK /\ RunnerFollows /\ MessagesInv /\ [Next]_vars => MessagesInv'
  <2>1. MessagesInv /\ UNCHANGED vars => MessagesInv'
    BY MessagesKept DEF vars, rowVars, localVars, Running
  <2>. QED BY <2>1, RequestStepMessages, SurroundingStepMessages DEF Next
<1>. QED BY <1>1, <1>2, TypeCorrect, RunnerFollowsPlace, PTL DEF Spec

\* A set of positions that are all the same one has at most one element.
LEMMA AtMostOnce ==
    ASSUME NEW S, \A i, j \in S : i = j
    PROVE  Cardinality(S) <= 1
<1>1. CASE S = {}
  BY <1>1, FS_EmptySet
<1>2. CASE S # {}
  <2>1. \E i : S = {i}
    BY <1>2
  <2>2. PICK i : S = {i}
    BY <2>1
  <2>3. Cardinality(S) = 1
    BY <2>2, FS_Singleton
  <2>. QED BY <2>3
<1>. QED BY <1>1, <1>2

\* The stored conversation has at most one question and one answer of a request,
\* and no answer without its question before it, whatever is deleted, lost or
\* cut off between the two saves.
THEOREM ConversationWellFormed == Spec => []HistoryWellFormed
<1>1. TypeOK /\ MessagesInv => HistoryWellFormed
  <2>. SUFFICES ASSUME TypeOK, MessagesInv, NEW r \in Requests
                PROVE  /\ Cardinality(Saved(r, "user")) <= 1
                       /\ Cardinality(Saved(r, "assistant")) <= 1
                       /\ \A i \in Saved(r, "assistant") : \E j \in Saved(r, "user") : j < i
    BY DEF HistoryWellFormed
  <2>1. ASSUME NEW role PROVE Cardinality(Saved(r, role)) <= 1
    <3>1. \A i, j \in Saved(r, role) : i = j
      BY DEF Saved, MessagesInv, SavedOnce
    <3>. QED BY <3>1, AtMostOnce
  <2>2. \A i \in Saved(r, "assistant") : \E j \in Saved(r, "user") : j < i
    BY DEF Saved, MessagesInv, QuestionFirst
  <2>. QED BY <2>1, <2>2
<1>. QED BY <1>1, TypeCorrect, MessagesByPlace, PTL

--------------------------------------------------------------------------------
(* The queues of the lock objects                                           *)

QueuedIn(w, r) == \E l \in Requests : \E i \in 1..Len(w[l]) : w[l][i] = r
NobodyTwice(w) ==
    \A l, m \in Requests : \A i \in 1..Len(w[l]), j \in 1..Len(w[m]) :
        w[l][i] = w[m][j] => l = m /\ i = j

\* t is s without its i-th element.
Without(s, i, t) ==
    /\ Len(t) = Len(s) - 1
    /\ \A j \in 1..(Len(s) - 1) : t[j] = IF j < i THEN s[j] ELSE s[j + 1]

LEMMA RemoveIndexWithout ==
    ASSUME NEW S, NEW s \in Seq(S), NEW i \in 1..Len(s)
    PROVE  Without(s, i, RemoveIndex(s, i))
<1>. DEFINE a == SubSeq(s, 1, i - 1)
            b == SubSeq(s, i + 1, Len(s))
<1>1. Len(s) \in Nat /\ \A j \in 1..Len(s) : s[j] \in S
  BY LenProperties, ElementOfSeq
<1>2. a \in Seq(S) /\ Len(a) = i - 1 /\ \A j \in 1..(i - 1) : a[j] = s[j]
  BY <1>1, SubSeqProperties
<1>3. b \in Seq(S) /\ Len(b) = Len(s) - i /\ \A j \in 1..(Len(s) - i) : b[j] = s[i + j]
  BY <1>1, SubSeqProperties
<1>4. RemoveIndex(s, i) = a \o b
  BY DEF RemoveIndex, RemoveAt
<1>. HIDE DEF a, b
<1>5. /\ Len(a \o b) = Len(s) - 1
      /\ \A j \in 1..(Len(s) - 1) : (a \o b)[j] = IF j <= i - 1 THEN a[j] ELSE b[j - (i - 1)]
  BY SMTT(30), <1>1, <1>2, <1>3, ConcatProperties
<1>6. ASSUME NEW j \in 1..(Len(s) - 1) PROVE (a \o b)[j] = IF j < i THEN s[j] ELSE s[j + 1]
  <2>1. CASE j < i
    BY <1>1, <1>2, <1>5, <2>1
  <2>2. CASE ~ (j < i)
    <3>1. (a \o b)[j] = b[j - (i - 1)] /\ j - (i - 1) \in 1..(Len(s) - i)
      BY <1>1, <1>5, <2>2
    <3>2. b[j - (i - 1)] = s[i + (j - (i - 1))]
      BY <1>3, <3>1
    <3>3. i + (j - (i - 1)) = j + 1
      BY <1>1
    <3>. QED BY <2>2, <3>1, <3>2, <3>3
  <2>. QED BY <2>1, <2>2
<1>. QED BY <1>4, <1>5, <1>6 DEF Without

LEMMA TailWithout ==
    ASSUME NEW S, NEW s \in Seq(S), s # <<>>
    PROVE  Len(s) \in Nat \ {0} /\ Without(s, 1, Tail(s)) /\ Head(s) = s[1]
<1>1. /\ Len(s) \in Nat \ {0} /\ Head(s) = s[1]
      /\ Tail(s) \in Seq(S) /\ Len(Tail(s)) = Len(s) - 1
      /\ \A j \in 1..(Len(s) - 1) : Tail(s)[j] = s[j + 1]
  BY LenProperties, HeadTailProperties, EmptySeq
<1>2. \A j \in 1..(Len(s) - 1) : ~ (j < 1)
  BY <1>1
<1>. QED BY <1>1, <1>2 DEF Without

\* The queues w become w2: r joins that of l, or leaves it.
Joins(w, w2, l, r) ==
    /\ \A m \in Requests : Len(w[m]) \in Nat
    /\ \A m \in Requests \ {l} : w2[m] = w[m]
    /\ Len(w2[l]) = Len(w[l]) + 1
    /\ \A i \in 1..Len(w[l]) : w2[l][i] = w[l][i]
    /\ w2[l][Len(w[l]) + 1] = r
Leaves(w, w2, l, r) ==
    /\ \A m \in Requests : Len(w[m]) \in Nat
    /\ \A m \in Requests \ {l} : w2[m] = w[m]
    /\ \E i \in 1..Len(w[l]) : w[l][i] = r /\ Without(w[l], i, w2[l])

\* What that means for requests that are queued once.
LEMMA QueueJoined ==
    ASSUME NEW w, NEW w2, NEW l \in Requests, NEW r, Joins(w, w2, l, r),
           NobodyTwice(w), ~ QueuedIn(w, r)
    PROVE  NobodyTwice(w2) /\ \A q : QueuedIn(w2, q) <=> QueuedIn(w, q) \/ q = r
<1>. USE DEF Joins
<1>1. ASSUME NEW m \in Requests, NEW j \in 1..Len(w2[m])
      PROVE  \/ j \in 1..Len(w[m]) /\ w2[m][j] = w[m][j]
             \/ m = l /\ j = Len(w[l]) + 1 /\ w2[m][j] = r
  <2>1. CASE m = l
    BY <2>1
  <2>2. CASE m # l
    BY <2>2
  <2>. QED BY <2>1, <2>2
<1>2. \A m \in Requests : \A j \in 1..Len(w[m]) : w[m][j] # r
  BY DEF QueuedIn
<1>3. ASSUME NEW m \in Requests, NEW k \in Requests, NEW j \in 1..Len(w2[m]),
             NEW h \in 1..Len(w2[k]), w2[m][j] = w2[k][h]
      PROVE  m = k /\ j = h
  BY <1>1, <1>2, <1>3 DEF NobodyTwice
<1>4. ASSUME NEW q, QueuedIn(w2, q) PROVE QueuedIn(w, q) \/ q = r
  BY <1>1, <1>4 DEF QueuedIn
<1>5. ASSUME NEW q, QueuedIn(w, q) PROVE QueuedIn(w2, q)
  <2>1. PICK m \in Requests : \E j \in 1..Len(w[m]) : w[m][j] = q
    BY <1>5 DEF QueuedIn
  <2>2. PICK j \in 1..Len(w[m]) : w[m][j] = q
    BY <2>1
  <2>3. j \in 1..Len(w2[m]) /\ w2[m][j] = q
    BY <2>2
  <2>. QED BY <2>3 DEF QueuedIn
<1>6. QueuedIn(w2, r)
  <2>1. Len(w2[l]) \in 1..Len(w2[l]) /\ w2[l][Len(w2[l])] = r
    OBVIOUS
  <2>. QED BY <2>1 DEF QueuedIn
<1>7. NobodyTwice(w2)
  BY <1>3 DEF NobodyTwice
<1>. QED BY <1>4, <1>5, <1>6, <1>7

LEMMA QueueLeft ==
    ASSUME NEW w, NEW w2, NEW l \in Requests, NEW r, Leaves(w, w2, l, r), NobodyTwice(w)
    PROVE  NobodyTwice(w2) /\ \A q : QueuedIn(w2, q) <=> QueuedIn(w, q) /\ q # r
<1>i. PICK i \in 1..Len(w[l]) : w[l][i] = r /\ Without(w[l], i, w2[l])
  BY DEF Leaves
<1>. USE <1>i DEF Leaves
\* Whoever is queued afterwards was so before, maybe one place behind.
<1>. DEFINE Was(m, j) == IF m = l /\ j >= i THEN j + 1 ELSE j
<1>1. ASSUME NEW m \in Requests, NEW j \in 1..Len(w2[m])
      PROVE  /\ Was(m, j) \in 1..Len(w[m]) /\ w2[m][j] = w[m][Was(m, j)]
             /\ ~ (m = l /\ Was(m, j) = i)
  <2>1. CASE m = l
    BY <2>1 DEF Without
  <2>2. CASE m # l
    BY <2>2
  <2>. QED BY <2>1, <2>2
<1>2. ASSUME NEW m \in Requests, NEW k \in Requests, NEW j \in 1..Len(w2[m]),
             NEW h \in 1..Len(w2[k]), w2[m][j] = w2[k][h]
      PROVE  m = k /\ j = h
  <2>1. w[m][Was(m, j)] = w[k][Was(k, h)] /\ Was(m, j) \in 1..Len(w[m])
        /\ Was(k, h) \in 1..Len(w[k])
    BY <1>1, <1>2
  <2>2. m = k /\ Was(m, j) = Was(k, h)
    <3>. HIDE DEF Was
    <3>. QED BY <2>1 DEF NobodyTwice
  <2>3. j \in Int /\ h \in Int
    OBVIOUS
  <2>. QED BY <2>2, <2>3
<1>3. ASSUME NEW q, QueuedIn(w2, q) PROVE QueuedIn(w, q) /\ q # w[l][i]
  <2>1. PICK m \in Requests : \E j \in 1..Len(w2[m]) : w2[m][j] = q
    BY <1>3 DEF QueuedIn
  <2>2. PICK j \in 1..Len(w2[m]) : w2[m][j] = q
    BY <2>1
  <2>3. Was(m, j) \in 1..Len(w[m]) /\ q = w[m][Was(m, j)] /\ ~ (m = l /\ Was(m, j) = i)
    BY <1>1, <2>2
  <2>. HIDE DEF Was
  <2>. QED BY <2>3 DEF QueuedIn, NobodyTwice
<1>4. ASSUME NEW q, QueuedIn(w, q), q # w[l][i] PROVE QueuedIn(w2, q)
  <2>1. PICK m \in Requests : \E j \in 1..Len(w[m]) : w[m][j] = q
    BY <1>4 DEF QueuedIn
  <2>2. PICK j \in 1..Len(w[m]) : w[m][j] = q
    BY <2>1
  <2>3. CASE m = l /\ j > i
    <3>1. j - 1 \in 1..Len(w2[l]) /\ w2[l][j - 1] = w[l][j]
      BY <2>3 DEF Without
    <3>. QED BY <2>2, <2>3, <3>1 DEF QueuedIn
  <2>4. CASE m = l /\ j < i
    <3>1. j \in 1..Len(w2[l]) /\ w2[l][j] = w[l][j]
      BY <2>4 DEF Without
    <3>. QED BY <2>2, <2>4, <3>1 DEF QueuedIn
  <2>5. CASE m # l
    BY <2>2, <2>5 DEF QueuedIn
  <2>6. ~ (m = l /\ j = i)
    BY <1>4, <2>2
  <2>7. j \in Int /\ i \in Int
    OBVIOUS
  <2>. QED BY <2>3, <2>4, <2>5, <2>6, <2>7
<1>5. NobodyTwice(w2)
  BY <1>2 DEF NobodyTwice
<1>. QED BY <1>3, <1>4, <1>5

\* A request is queued exactly while it is suspended there.
QueueInv ==
    /\ NobodyTwice(waiters)
    /\ \A r \in Requests : pc[r] = "lockwait" <=> QueuedIn(waiters, r)

\* A request that is queued leaves its queue, by the lock or without it.
LEMMA LeaveQueueLeaves ==
    ASSUME TypeOK, QueueInv, NEW r \in Requests, LeaveQueue(r) \/ AcquireWoken(r)
    PROVE  NobodyTwice(waiters') /\ \A q : QueuedIn(waiters', q) <=> QueuedIn(waiters, q) /\ q # r
<1>1. waiters \in [Requests -> Seq(Requests)]
  BY DEF TypeOK, LockTypeOK
<1>a. \A m \in Requests : Len(waiters[m]) \in Nat
  BY <1>1, LenProperties
<1>2. CASE LeaveQueue(r)
  <2>1. PICK l \in Requests : \E i \in 1..Len(waiters[l]) :
            waiters[l][i] = r /\ waiters' = [waiters EXCEPT ![l] = RemoveIndex(@, i)]
    BY <1>2 DEF LeaveQueue
  <2>2. PICK i \in 1..Len(waiters[l]) :
            waiters[l][i] = r /\ waiters' = [waiters EXCEPT ![l] = RemoveIndex(@, i)]
    BY <2>1
  <2>3. Without(waiters[l], i, RemoveIndex(waiters[l], i))
    BY <1>1, RemoveIndexWithout
  <2>4. Leaves(waiters, waiters', l, r)
    BY <1>1, <1>a, <2>2, <2>3 DEF Leaves
  <2>. QED BY <2>4, QueueLeft DEF QueueInv
<1>3. CASE AcquireWoken(r)
  <2>1. PICK l \in Requests \ locked :
            /\ waiters[l] # <<>> /\ Head(waiters[l]) = r
            /\ waiters' = [waiters EXCEPT ![l] = Tail(@)]
    BY <1>3 DEF AcquireWoken
  <2>2. 1 \in 1..Len(waiters[l]) /\ Without(waiters[l], 1, Tail(waiters[l]))
        /\ waiters[l][1] = r
    <3>1. waiters[l] \in Seq(Requests) /\ waiters[l] # <<>>
      BY <1>1, <2>1
    <3>2. Len(waiters[l]) \in Nat \ {0} /\ Without(waiters[l], 1, Tail(waiters[l]))
          /\ Head(waiters[l]) = waiters[l][1]
      BY <3>1, TailWithout
    <3>. QED BY <2>1, <3>2
  <2>3. Leaves(waiters, waiters', l, r)
    BY <1>1, <1>a, <2>1, <2>2 DEF Leaves
  <2>. QED BY <2>3, QueueLeft DEF QueueInv
<1>. QED BY <1>2, <1>3

\* A step of r that neither enters nor leaves a queue.
LEMMA QueueKept ==
    ASSUME TypeOK, QueueInv, UNCHANGED waiters, NEW r \in Requests, NEW l, Goto(r, l),
           pc[r] # "lockwait", l # "lockwait"
    PROVE  QueueInv'
BY DEF QueueInv, TypeOK, Goto

LEMMA RequestStepQueues ==
    ASSUME TypeOK, QueueInv, NEW r \in Requests, Send(r) \/ Continues(r)
    PROVE  QueueInv'
<1>. USE DEF lockVars
<1>1. ASSUME UNCHANGED waiters, pc[r] # "lockwait", Fail(r) \/ Finally(r)
      PROVE  QueueInv'
  BY <1>1, QueueKept DEF Fail, Finally, AfterCleanup
<1>2. ASSUME LeaveQueue(r) \/ AcquireWoken(r), NEW l, Goto(r, l), l # "lockwait"
      PROVE  QueueInv'
  BY <1>2, LeaveQueueLeaves DEF QueueInv, Goto, TypeOK
<1>3. CASE Admit(r)
  <2>1. CASE AcquireFree(r) /\ Goto(r, "start")
    BY <1>3, <2>1, QueueKept DEF Admit, AcquireFree
  <2>2. CASE Enqueue(r) /\ Goto(r, "lockwait")
    <3>1. ~ QueuedIn(waiters, r)
      BY <1>3 DEF Admit, QueueInv
    <3>2. lockObj \in Requests /\ waiters \in [Requests -> Seq(Requests)]
      BY <2>2 DEF Enqueue, Contended, TypeOK, LockTypeOK
    <3>3. /\ NobodyTwice(waiters')
          /\ \A q : QueuedIn(waiters', q) <=> QueuedIn(waiters, q) \/ q = r
      <4>1. waiters' = [waiters EXCEPT ![lockObj] = Append(@, r)]
        BY <2>2 DEF Enqueue
      <4>2. \A m \in Requests : Len(waiters[m]) \in Nat
        BY <3>2, LenProperties
      <4>3. waiters[lockObj] \in Seq(Requests)
        BY <3>2
      <4>4. /\ Len(Append(waiters[lockObj], r)) = Len(waiters[lockObj]) + 1
            /\ \A i \in 1..Len(waiters[lockObj]) :
                   Append(waiters[lockObj], r)[i] = waiters[lockObj][i]
            /\ Append(waiters[lockObj], r)[Len(waiters[lockObj]) + 1] = r
        BY <4>3, AppendProperties
      <4>5. /\ waiters'[lockObj] = Append(waiters[lockObj], r)
            /\ \A m \in Requests \ {lockObj} : waiters'[m] = waiters[m]
        BY <3>2, <4>1
      <4>6. Joins(waiters, waiters', lockObj, r)
        BY <4>2, <4>4, <4>5 DEF Joins
      <4>. QED BY <3>1, <3>2, <4>6, QueueJoined DEF QueueInv
    <3>. QED BY <2>2, <3>3 DEF QueueInv, Goto, TypeOK
  <2>. QED BY <1>3, <2>1, <2>2 DEF Admit
<1>4. CASE LockAcquired(r) \/ LockTimeout(r)
  BY <1>2, <1>4 DEF LockAcquired, LockTimeout, Fail
<1>5. CASE StreamClosed(r)
  <2>1. CASE pc[r] = "lockwait"
    BY <1>2, <1>5, <2>1 DEF StreamClosed, Finally, AfterCleanup
  <2>2. CASE pc[r] # "lockwait"
    BY <1>1, <1>5, <2>2 DEF StreamClosed
  <2>. QED BY <2>1, <2>2
<1>6. CASE Send(r) \/ Claim(r) \/ Prepare(r) \/ RunnerEvent(r) \/ RunFails(r) \/ RunLost(r)
  BY <1>1, <1>6, QueueKept DEF Send, Claim, Prepare, RunnerEvent, RunFails, RunLost
<1>7. CASE DeadlinePasses(r) \/ DeliverEvent(r) \/ DeliverDone(r) \/ Finish(r)
  BY <1>1, <1>7, QueueKept DEF DeadlinePasses, DeliverEvent, DeliverDone, Finish, FinishStatus
<1>8. CASE Unlock(r) \/ Report(r) \/ Reset(r) \/ Interrupt(r)
  BY <1>1, <1>8, QueueKept DEF Unlock, Report, Reset, Interrupt
<1>. QED BY <1>3, <1>4, <1>5, <1>6, <1>7, <1>8 DEF Continues, Progress

LEMMA SurroundingStepQueues ==
    ASSUME TypeOK, QueueInv, Surroundings
    PROVE  QueueInv'
<1>1. CASE Crash
  <2>1. \A l \in Requests : Len(waiters'[l]) = 0
    BY <1>1, EmptySeq DEF Crash, LockForgotten
  <2>2. \A r \in Requests : pc'[r] # "lockwait"
    BY <1>1 DEF Crash, Ended
  <2>. QED BY <2>1, <2>2 DEF QueueInv, NobodyTwice, QueuedIn
<1>2. Surroundings => Crash \/ UNCHANGED <<pc, waiters>>
  BY DEF Surroundings, WatchdogScan, WatchdogReset, Administration, CancelCheck, DeleteCheck,
     ArchiveCheck, UnarchiveCheck, Checked, Cancel, Delete, Archive, Unarchive, AdminDone,
     lockVars
<1>. QED BY <1>1, <1>2 DEF QueueInv

\* A coroutine waits on one lock object, at one place, exactly while it is
\* suspended in try_lock: force_unlock abandons lock objects with coroutines
\* queued on them, and neither a timeout nor a cancellation leaves one behind.
THEOREM NobodyStaysQueued == Spec => []QueuedOnce
<1>1. Init => QueueInv
  BY EmptySeq DEF Init, LockInit, QueueInv, NobodyTwice, QueuedIn
<1>2. TypeOK /\ QueueInv /\ [Next]_vars => QueueInv'
  BY RequestStepQueues, SurroundingStepQueues DEF Next, QueueInv, vars, lockVars
<1>3. TypeOK /\ QueueInv => QueuedOnce
  <2>. SUFFICES ASSUME TypeOK, QueueInv, NEW r \in Requests
                PROVE  Cardinality(Places(r)) = IF pc[r] = "lockwait" THEN 1 ELSE 0
    BY DEF QueuedOnce
  <2>1. CASE pc[r] = "lockwait"
    <3>a. PICK l \in Requests : \E i \in 1..Len(waiters[l]) : waiters[l][i] = r
      BY <2>1 DEF QueueInv, QueuedIn
    <3>1. PICK i \in 1..Len(waiters[l]) : waiters[l][i] = r
      BY <3>a
    <3>2. Places(r) = {<<l, i>>}
      BY <3>1 DEF Places, QueueInv, NobodyTwice
    <3>3. Cardinality(Places(r)) = 1
      BY <3>2, FS_Singleton
    <3>. QED BY <2>1, <3>3
  <2>2. CASE pc[r] # "lockwait"
    <3>1. Places(r) = {}
      BY <2>2 DEF Places, QueueInv, QueuedIn
    <3>. QED BY <2>2, <3>1, FS_EmptySet
  <2>. QED BY <2>1, <2>2
<1>. QED BY <1>1, <1>2, <1>3, TypeCorrect, PTL DEF Spec

--------------------------------------------------------------------------------
(* Clients that wait for their turn                                         *)

Live(r) == pc[r] \notin {"new"} \cup Ended
AtMostOne == \A q, r \in Requests : Live(q) /\ Live(r) => q = r

\* The lock object is created on the way out of "admit".
HolderPastAdmit == \A r \in Requests : pc[r] = "admit" => lockObj # r

TurnInv == AtMostOne /\ HolderPastAdmit /\ NeverQueues

\* Such a client does nothing that another one could not do.
LEMMA SerialImpliesSpec == SerialSpec => Spec
<1>1. [SerialNext]_vars => [Next]_vars
  BY DEF SerialNext, Next
<1>. QED BY <1>1, PTL DEF SerialSpec, Spec

\* A step of r moves r alone, from where it is live or new; it is only ever
\* admitted when it is sent.
LEMMA MovesAlone ==
    ASSUME TypeOK, NEW r \in Requests, Send(r) \/ Continues(r)
    PROVE  /\ \A q \in Requests \ {r} : pc'[q] = pc[q] /\ runner'[q] = runner[q]
           /\ Continues(r) => Live(r)
           /\ pc'[r] = "admit" => Send(r)
<1>. USE DEF Live, TypeOK, Goto, DropLocals, localVars, Ended
<1>1. ASSUME Fail(r) \/ Finally(r)
      PROVE  /\ \A q \in Requests \ {r} : pc'[q] = pc[q] /\ runner'[q] = runner[q]
             /\ pc'[r] # "admit"
  BY <1>1 DEF Fail, Finally, AfterCleanup
<1>2. Continues(r) => Live(r)
  BY DEF Continues, Progress, Admit, LockAcquired, LockTimeout, Claim, Prepare, RunnerEvent,
     RunFails, RunLost, DeadlinePasses, DeliverEvent, DeliverDone, Finish, Unlock, Report,
     StreamClosed, Reset, Interrupt, Yields, Awaits
<1>3. CASE Send(r)
  BY <1>1, <1>2, <1>3 DEF Send
<1>4. CASE Admit(r) \/ LockAcquired(r) \/ LockTimeout(r) \/ Claim(r) \/ Prepare(r)
  BY <1>1, <1>2, <1>4 DEF Admit, LockAcquired, LockTimeout, Claim, Prepare
<1>5. CASE RunnerEvent(r) \/ RunFails(r) \/ RunLost(r) \/ DeadlinePasses(r) \/ DeliverEvent(r)
  BY <1>1, <1>2, <1>5 DEF RunnerEvent, RunFails, RunLost, DeadlinePasses, DeliverEvent
<1>6. CASE DeliverDone(r) \/ Finish(r)
  BY <1>1, <1>2, <1>6 DEF DeliverDone, Finish, FinishStatus
<1>7. CASE Unlock(r) \/ Report(r) \/ StreamClosed(r) \/ Reset(r) \/ Interrupt(r)
  BY <1>1, <1>2, <1>7 DEF Unlock, Report, StreamClosed, Reset, Interrupt
<1>. QED BY <1>2, <1>3, <1>4, <1>5, <1>6, <1>7 DEF Continues, Progress

\* The surroundings move nobody; a restart ends whoever is live.
LEMMA SurroundingsMove ==
    ASSUME TypeOK, Surroundings
    PROVE  \/ UNCHANGED <<pc, runner>>
           \/ Crash /\ \A r \in Requests : ~ Live(r)'
<1>1. CASE Crash
  BY <1>1 DEF Crash, Live, Ended
<1>2. CASE ~ Crash
  BY <1>2 DEF Surroundings, WatchdogScan, WatchdogReset, Administration, CancelCheck, DeleteCheck,
     ArchiveCheck, UnarchiveCheck, Checked, Cancel, Delete, Archive, Unarchive, AdminDone,
     localVars
<1>. QED BY <1>1, <1>2

\* Who is admitted finds no lock object: it is not its own, and anybody else's
\* would belong to a second live request.
LEMMA AdmittedFindsNone ==
    ASSUME TypeOK, RemembersActive, TurnInv, NEW r \in Requests, pc[r] = "admit"
    PROVE  lockObj = NoRequest
BY DEF TypeOK, LockTypeOK, RemembersActive, TurnInv, AtMostOne, HolderPastAdmit, Live, Active,
       Yields, Awaits, Ended

LEMMA SerialStepTurns ==
    ASSUME TypeOK, RemembersActive, TurnInv, SerialNext
    PROVE  TurnInv'
<1>1. ASSUME NEW r \in Requests, (NobodyElse(r) /\ Send(r)) \/ Continues(r)
      PROVE  TurnInv'
  <2>1. /\ \A q \in Requests \ {r} : pc'[q] = pc[q]
        /\ Continues(r) => Live(r)
        /\ pc'[r] = "admit" => Send(r)
    BY <1>1, MovesAlone
  <2>2. AtMostOne'
    <3>1. \A q \in Requests \ {r} : ~ Live(q)
      <4>1. CASE NobodyElse(r)
        BY <4>1 DEF NobodyElse, Live
      <4>2. CASE Live(r)
        BY <4>2 DEF TurnInv, AtMostOne
      <4>. QED BY <1>1, <2>1, <4>1, <4>2
    <3>2. \A q \in Requests \ {r} : ~ Live(q)'
      BY <2>1, <3>1 DEF Live
    <3>. QED BY <3>2 DEF AtMostOne
  <2>3. HolderPastAdmit'
    <3>1. CASE Admit(r)
      <4>1. pc'[r] # "admit" /\ lockObj' \in {lockObj, r}
        BY <3>1 DEF Admit, AcquireFree, Enqueue, Goto, TypeOK
      <4>. QED BY <2>1, <4>1 DEF TurnInv, HolderPastAdmit
    <3>2. CASE ~ Admit(r)
      <4>1. lockObj' \in {lockObj, NoRequest}
        BY <1>1, <3>2 DEF Send, Continues, Progress, LockAcquired, AcquireWoken, LockTimeout,
           Claim, Prepare, RunnerEvent, RunFails, RunLost, DeadlinePasses, DeliverEvent,
           DeliverDone, Finish, Unlock, Report, StreamClosed, Reset, Interrupt, Finally,
           ForceUnlock, lockVars
      <4>2. Send(r) => lockObj' = lockObj /\ lockObj # r
        BY NoRequestAssumption
        DEF Send, lockVars, RemembersActive, Active, Yields, Awaits, TypeOK, LockTypeOK
      <4>. QED BY <2>1, <4>1, <4>2, NoRequestAssumption DEF TurnInv, HolderPastAdmit
    <3>. QED BY <3>1, <3>2
  <2>4. NeverQueues'
    <3>1. pc'[r] = "lockwait" => pc[r] = "lockwait" \/ (Admit(r) /\ Contended)
      BY <1>1
      DEF Send, Continues, Progress, Admit, Enqueue, LockAcquired, LockTimeout, Claim, Prepare,
          RunnerEvent, RunFails, RunLost, DeadlinePasses, DeliverEvent, DeliverDone, Finish,
          FinishStatus, Unlock, Report, StreamClosed, Reset, Interrupt, Finally, AfterCleanup,
          Fail, Goto, TypeOK
    <3>2. ~ (Admit(r) /\ Contended)
      BY AdmittedFindsNone DEF Admit, Contended
    <3>. QED BY <2>1, <3>1, <3>2 DEF TurnInv, NeverQueues
  <2>. QED BY <2>2, <2>3, <2>4 DEF TurnInv
<1>2. ASSUME Surroundings PROVE TurnInv'
  <2>1. CASE Crash /\ \A r \in Requests : ~ Live(r)'
    BY <2>1 DEF TurnInv, AtMostOne, HolderPastAdmit, NeverQueues, Live, Ended
  <2>2. CASE UNCHANGED pc
    <3>1. lockObj' \in {lockObj, NoRequest}
      BY <1>2 DEF Surroundings, WatchdogScan, WatchdogReset, Administration, CancelCheck,
         DeleteCheck, ArchiveCheck, UnarchiveCheck, Checked, Cancel, Delete, Archive, Unarchive,
         AdminDone, Crash, LockForgotten, ForceUnlock, lockVars
    <3>. QED BY <2>2, <3>1, NoRequestAssumption
         DEF TurnInv, AtMostOne, HolderPastAdmit, NeverQueues, Live
  <2>. QED BY <1>2, <2>1, <2>2, SurroundingsMove
<1>. QED BY <1>1, <1>2 DEF SerialNext

LEMMA TurnsKept == SerialSpec => []TurnInv
<1>1. Init => TurnInv
  BY DEF Init, TurnInv, AtMostOne, HolderPastAdmit, NeverQueues, Live
<1>2. TypeOK /\ NothingLeaks /\ TurnInv /\ [SerialNext]_vars => TurnInv'
  <2>1. TurnInv /\ UNCHANGED vars => TurnInv'
    BY DEF TurnInv, AtMostOne, HolderPastAdmit, NeverQueues, Live, vars, lockVars
  <2>. QED BY <2>1, SerialStepTurns DEF NothingLeaks
<1>. QED BY <1>1, <1>2, SerialImpliesSpec, TypeCorrect, NothingOutlives, PTL DEF SerialSpec

\* A client that waits for its turn never waits for the lock: whichever way the
\* request before it ended, a restart included, its lock is gone.
THEOREM WaitersNeverQueue == SerialSpec => []NeverQueues
BY TurnsKept, PTL DEF TurnInv

\* What the service owes a request that nobody cancelled.  A row that was
\* deleted under it cannot be busy any more.
InTurn == {"start", "claimed", "run", "yield", "finish", "unlock"}
OwnsRow == {"claimed", "run", "yield", "finish"}
KeptFor(r) ==
    r \notin cancelled =>
        /\ pc[r] \in InTurn \cup {"admit"} => activeToken = r
        /\ pc[r] \in InTurn => keyOwner = r /\ lockObj \in locked
        /\ pc[r] \in OwnsRow /\ exists => Busy /\ reqId = r
ProtectedInv == \A r \in Requests : KeptFor(r)

\* A request that leaves its turn is owed nothing.
LEMMA LeavingIsKept ==
    ASSUME TypeOK, NEW r \in Requests, Fail(r) \/ Finally(r)
    PROVE  KeptFor(r)'
BY DEF TypeOK, Fail, Finally, AfterCleanup, Goto, KeptFor, InTurn, OwnsRow

\* One step of the turn after the other.
LEMMA OwnStepIsKept ==
    ASSUME TypeOK, RemembersActive, TurnInv, NEW r \in Requests, KeptFor(r),
           Send(r) \/ Continues(r)
    PROVE  KeptFor(r)'
<1>. USE DEF TypeOK, Goto, OtherActors
<1>1. CASE Send(r)
  BY <1>1, LeavingIsKept DEF Send, KeptFor, InTurn, OwnsRow
<1>2. CASE Admit(r)
  <2>1. lockObj = NoRequest
    BY <1>2, AdmittedFindsNone DEF Admit
  <2>2. AcquireFree(r) /\ Goto(r, "start")
    BY <1>2, <2>1 DEF Admit, Enqueue, Contended
  <2>. QED BY <1>2, <2>2 DEF Admit, AcquireFree, KeptFor, InTurn, OwnsRow
<1>3. CASE LockAcquired(r) \/ LockTimeout(r)
  BY <1>3 DEF LockAcquired, LockTimeout, TurnInv, NeverQueues
<1>4. CASE Claim(r)
  BY <1>4, LeavingIsKept DEF Claim, KeptFor, InTurn, OwnsRow, Busy, lockVars
<1>5. CASE Prepare(r) \/ RunnerEvent(r) \/ DeliverEvent(r)
  BY <1>5, LeavingIsKept
  DEF Prepare, RunnerEvent, DeliverEvent, KeptFor, InTurn, OwnsRow, Busy, lockVars
<1>6. CASE RunFails(r) \/ RunLost(r) \/ Report(r) \/ StreamClosed(r) \/ Unlock(r)
  BY <1>6, LeavingIsKept DEF RunFails, RunLost, Report, StreamClosed, Unlock
<1>7. CASE DeadlinePasses(r) \/ Reset(r) \/ Interrupt(r)
  BY <1>7 DEF DeadlinePasses, Reset, Interrupt, KeptFor, InTurn, OwnsRow
<1>8. CASE DeliverDone(r) \/ Finish(r)
  <2>1. CASE Fail(r)
    BY <2>1, LeavingIsKept
  <2>2. CASE ~ Fail(r)
    BY <1>8, <2>2
    DEF DeliverDone, Finish, FinishStatus, KeptFor, InTurn, OwnsRow, Busy, lockVars
  <2>. QED BY <2>1, <2>2
<1>. QED BY <1>1, <1>2, <1>3, <1>4, <1>5, <1>6, <1>7, <1>8 DEF Continues, Progress

\* Nobody else is in a turn meanwhile, and the surroundings take nothing from a
\* request without cancelling it.
LEMMA SerialStepProtects ==
    ASSUME TypeOK, RemembersActive, TurnInv, ProtectedInv, SerialNext
    PROVE  ProtectedInv'
<1>1. ASSUME NEW q \in Requests, (NobodyElse(q) /\ Send(q)) \/ Continues(q),
             NEW r \in Requests
      PROVE  KeptFor(r)'
  <2>1. CASE r = q
    BY <1>1, <2>1, OwnStepIsKept DEF ProtectedInv
  <2>2. CASE r # q
    <3>1. ~ Live(r)
      <4>1. CASE NobodyElse(q)
        BY <2>2, <4>1 DEF NobodyElse, Live
      <4>2. CASE Continues(q)
        BY <2>2, <4>2, MovesAlone DEF TurnInv, AtMostOne
      <4>. QED BY <1>1, <4>1, <4>2
    <3>2. pc'[r] = pc[r]
      BY <1>1, <2>2, MovesAlone
    <3>. QED BY <3>1, <3>2 DEF Live, KeptFor, InTurn, OwnsRow, Ended
  <2>. QED BY <2>1, <2>2
<1>2. ASSUME Surroundings, NEW r \in Requests PROVE KeptFor(r)'
  <2>0. KeptFor(r)
    BY DEF ProtectedInv
  <2>1. CASE WatchdogReset
    BY <2>0, <2>1, NoRequestAssumption
    DEF WatchdogReset, RegisteredToken, KeptFor, InTurn, OwnsRow, ForceUnlock, Busy
  <2>2. CASE Crash
    BY <2>2 DEF Crash, KeptFor, InTurn, OwnsRow, Ended
  <2>3. CASE Delete
    BY <2>0, <2>3 DEF Delete, AdminDone, KeptFor, lockVars
  <2>4. CASE Cancel \/ Archive \/ Unarchive
    BY <2>0, <2>4 DEF Cancel, Archive, Unarchive, AdminDone, KeptFor, Busy, rowVars, lockVars
  <2>5. CASE WatchdogScan \/ CancelCheck \/ DeleteCheck \/ ArchiveCheck \/ UnarchiveCheck
    BY <2>0, <2>5 DEF WatchdogScan, CancelCheck, DeleteCheck, ArchiveCheck, UnarchiveCheck,
       Checked, KeptFor, Busy, rowVars, lockVars
  <2>. QED BY <1>2, <2>1, <2>2, <2>3, <2>4, <2>5 DEF Surroundings, Administration
<1>. QED BY <1>1, <1>2 DEF SerialNext, ProtectedInv

LEMMA TurnsProtected == SerialSpec => []ProtectedInv
<1>1. Init => ProtectedInv
  BY DEF Init, ProtectedInv, KeptFor, InTurn, OwnsRow
<1>2. TypeOK /\ NothingLeaks /\ TurnInv /\ ProtectedInv /\ [SerialNext]_vars => ProtectedInv'
  <2>1. ProtectedInv /\ UNCHANGED vars => ProtectedInv'
    BY DEF ProtectedInv, KeptFor, Busy, vars, rowVars, lockVars
  <2>. QED BY <2>1, SerialStepProtects DEF NothingLeaks
<1>. QED
  BY <1>1, <1>2, SerialImpliesSpec, TypeCorrect, NothingOutlives, TurnsKept, PTL DEF SerialSpec

\* Where nobody deletes the session, it stays.
LEMMA SessionStays ==
    ASSUME "delete" \notin AdminOps
    PROVE  SerialSpec => []exists
<1>1. Init => exists
  BY DEF Init
<1>2. TypeOK /\ exists /\ [SerialNext]_vars => exists'
  <2>1. TypeOK => ~ Delete
    BY DEF TypeOK, Delete, AdminDone
  <2>2. exists /\ ~ Delete /\ Next => exists'
    BY DEF Next, Send, Continues, Progress, Admit, LockAcquired, LockTimeout, Claim, Prepare,
       RunnerEvent, RunFails, RunLost, DeadlinePasses, DeliverEvent, DeliverDone, Finish, Unlock,
       Report, StreamClosed, Reset, Interrupt, Surroundings, WatchdogScan, WatchdogReset,
       Administration, CancelCheck, DeleteCheck, ArchiveCheck, UnarchiveCheck, Checked, Cancel,
       Archive, Unarchive, AdminDone, Crash, rowVars
  <2>3. exists /\ UNCHANGED vars => exists'
    BY DEF vars, rowVars
  <2>. QED BY <2>1, <2>2, <2>3 DEF SerialNext, Next
<1>. QED BY <1>1, <1>2, SerialImpliesSpec, TypeCorrect, PTL DEF SerialSpec

\* From the lock to the end of its turn, a request that nobody cancelled keeps
\* its token, its key, a held lock and, from the optimistic update on, a busy row
\* with its id: neither what earlier requests left behind nor a watchdog acting
\* on a stale scan takes the session away silently.  Deleting the session does:
\* delete_session checks the status and deletes in two steps, so a message sent
\* between them loses its row.
THEOREM TurnIsProtected ==
    ASSUME "delete" \notin AdminOps
    PROVE  SerialSpec => []Protected
<1>1. ProtectedInv /\ exists => Protected
  BY DEF ProtectedInv, KeptFor, Protected, InTurn, OwnsRow
<1>. QED BY <1>1, TurnsProtected, SessionStays, PTL

\* While a run is on in a session that is there, its question is the last message.
LastIsQuestion ==
    \A r \in Requests : exists /\ Running(r) =>
        Len(history) > 0 /\ history[Len(history)] = [req |-> r, role |-> "user"]
ConversationInv == ConversationInTurns /\ LastIsQuestion

\* A message after a conversation of turns leaves one of turns, if it is a
\* question, or the answer to the question before it.
LEMMA SaveInTurn ==
    ASSUME TypeOK, ConversationInTurns, NEW r \in Requests, NEW role \in {"user", "assistant"},
           Save(r, role),
           role = "assistant" =>
               Len(history) > 0 /\ history[Len(history)] = [req |-> r, role |-> "user"]
    PROVE  /\ ConversationInTurns'
           /\ Len(history') > 0 /\ history'[Len(history')] = [req |-> r, role |-> role]
<1>. DEFINE n == Len(history)
<1>1. /\ n \in Nat /\ Len(history') = n + 1
      /\ history'[n + 1] = [req |-> r, role |-> role]
      /\ \A i \in 1..n : history'[i] = history[i] /\ history[i] \in Message
  BY SaveAppends
<1>2. ASSUME NEW i \in 1..(n + 1), history'[i].role = "assistant"
      PROVE  i > 1 /\ history'[i - 1] = [history'[i] EXCEPT !.role = "user"]
  <2>1. CASE i \in 1..n
    <3>1. history[i].role = "assistant"
      BY <1>1, <1>2, <2>1
    <3>2. i > 1 /\ history[i - 1] = [history[i] EXCEPT !.role = "user"]
      BY <2>1, <3>1 DEF ConversationInTurns
    <3>. QED BY <1>1, <2>1, <3>2
  <2>2. CASE i = n + 1
    <3>1. role = "assistant"
      BY <1>1, <1>2, <2>2
    <3>2. n > 0 /\ history[n] = [req |-> r, role |-> "user"]
      BY <3>1
    <3>3. i > 1 /\ i - 1 = n /\ history'[n] = [req |-> r, role |-> "user"]
      BY <1>1, <2>2, <3>2
    <3>4. [history'[i] EXCEPT !.role = "user"] = [req |-> r, role |-> "user"]
      BY <1>1, <2>2
    <3>. QED BY <3>3, <3>4
  <2>. QED BY <1>1, <2>1, <2>2
<1>3. ConversationInTurns'
  BY <1>1, <1>2 DEF ConversationInTurns
<1>. QED BY <1>1, <1>3

\* A step that saves nothing, and puts nobody into a run who was not in one.
LEMMA ConversationKept ==
    ASSUME ConversationInv, UNCHANGED history, exists' => exists,
           \A r \in Requests : Running(r)' => Running(r)
    PROVE  ConversationInv'
BY DEF ConversationInv, ConversationInTurns, LastIsQuestion

\* What a step of r does to the conversation: it saves a question, or the answer
\* to a run that is on, or neither.
LEMMA StepSaves ==
    ASSUME TypeOK, RunnerFollows, NEW r \in Requests, Send(r) \/ Continues(r)
    PROVE  /\ exists' = exists
           /\ \/ Save(r, "user") /\ Live(r)
              \/ Save(r, "assistant") /\ exists /\ Running(r) /\ ~ Running(r)'
              \/ UNCHANGED history /\ (Running(r)' => Running(r))
<1>. USE DEF TypeOK, Goto, Running
<1>1. ASSUME Fail(r) \/ Finally(r) PROVE ~ Running(r)'
  BY <1>1 DEF Fail, Finally, AfterCleanup
<1>2. CASE Send(r) \/ Admit(r) \/ LockAcquired(r) \/ LockTimeout(r) \/ Claim(r)
  BY <1>1, <1>2 DEF Send, Admit, LockAcquired, LockTimeout, Claim
<1>3. CASE Prepare(r)
  BY <1>1, <1>3 DEF Prepare, RunnerFollows, Early
<1>4. CASE RunnerEvent(r)
  BY <1>4 DEF RunnerEvent, FirstEvent, Live, Ended
<1>5. CASE RunFails(r) \/ RunLost(r) \/ Report(r) \/ Unlock(r) \/ StreamClosed(r)
  BY <1>1, <1>5 DEF RunFails, RunLost, Report, Unlock, StreamClosed
<1>6. CASE DeadlinePasses(r) \/ DeliverEvent(r) \/ Reset(r) \/ Interrupt(r)
  BY <1>6 DEF DeadlinePasses, DeliverEvent, Reset, Interrupt, RunnerFollows
<1>7. CASE DeliverDone(r) \/ Finish(r)
  BY <1>1, <1>7 DEF DeliverDone, Finish, FinishStatus, RunnerFollows
<1>. QED BY <1>2, <1>3, <1>4, <1>5, <1>6, <1>7 DEF Continues, Progress

LEMMA SerialStepConversation ==
    ASSUME TypeOK, RunnerFollows, TurnInv, ConversationInv, SerialNext
    PROVE  ConversationInv'
<1>1. ASSUME NEW r \in Requests, (NobodyElse(r) /\ Send(r)) \/ Continues(r)
      PROVE  ConversationInv'
  <2>1. \A q \in Requests \ {r} : Running(q)' = Running(q)
    BY <1>1, MovesAlone DEF Running
  <2>2. exists' = exists
    BY <1>1, StepSaves
  <2>3. ASSUME Live(r) PROVE \A q \in Requests \ {r} : ~ Running(q)'
    BY <2>1, <2>3 DEF TurnInv, AtMostOne, Live, Ended, Running
  <2>4. CASE Save(r, "user") /\ Live(r)
    <3>1. /\ ConversationInTurns' /\ Len(history') > 0
          /\ history'[Len(history')] = [req |-> r, role |-> "user"]
      BY <2>4, SaveInTurn DEF ConversationInv
    <3>. QED BY <2>3, <2>4, <3>1 DEF ConversationInv, LastIsQuestion
  <2>5. CASE Save(r, "assistant") /\ exists /\ Running(r) /\ ~ Running(r)'
    <3>1. Len(history) > 0 /\ history[Len(history)] = [req |-> r, role |-> "user"]
      BY <2>5 DEF ConversationInv, LastIsQuestion
    <3>2. ConversationInTurns'
      BY <2>5, <3>1, SaveInTurn DEF ConversationInv
    <3>3. \A q \in Requests : ~ Running(q)'
      BY <2>3, <2>5 DEF Live, Ended, Running
    <3>. QED BY <3>2, <3>3 DEF ConversationInv, LastIsQuestion
  <2>6. CASE UNCHANGED history /\ (Running(r)' => Running(r))
    BY <2>1, <2>2, <2>6, ConversationKept
  <2>. QED BY <1>1, <2>4, <2>5, <2>6, StepSaves
<1>2. ASSUME Surroundings PROVE ConversationInv'
  <2>1. CASE Delete
    <3>1. Len(history') = 0 /\ ~ exists'
      BY <2>1, EmptySeq DEF Delete
    <3>. QED BY <3>1 DEF ConversationInv, ConversationInTurns, LastIsQuestion
  <2>2. CASE ~ Delete
    <3>1. UNCHANGED history /\ exists' = exists
      BY <1>2, <2>2
      DEF Surroundings, WatchdogScan, WatchdogReset, Administration, CancelCheck, DeleteCheck,
          ArchiveCheck, UnarchiveCheck, Checked, Cancel, Archive, Unarchive, Crash, rowVars
    <3>2. \A r \in Requests : Running(r)' => Running(r)
      BY <1>2, SurroundingsMove DEF Running, Live, Ended
    <3>. QED BY <3>1, <3>2, ConversationKept
  <2>. QED BY <2>1, <2>2
<1>. QED BY <1>1, <1>2 DEF SerialNext

\* If clients wait for their turn, an answer always follows the question of its
\* own request: a run that is cut off, a failed save or a deleted session never
\* puts another question, or nothing, before it.
THEOREM AnswersFollowQuestions == SerialSpec => []ConversationInTurns
<1>1. Init => ConversationInv
  BY EmptySeq DEF Init, ConversationInv, ConversationInTurns, LastIsQuestion, Running
<1>2. TypeOK /\ RunnerFollows /\ TurnInv /\ ConversationInv /\ [SerialNext]_vars
          => ConversationInv'
  <2>1. UNCHANGED vars => (\A r \in Requests : Running(r)' => Running(r))
                          /\ UNCHANGED <<history, exists>>
    BY DEF Running, vars, rowVars, localVars
  <2>2. ConversationInv /\ UNCHANGED vars => ConversationInv'
    BY <2>1, ConversationKept
  <2>. QED BY <2>2, SerialStepConversation
<1>3. ConversationInv => ConversationInTurns
  BY DEF ConversationInv
<1>. QED
  BY <1>1, <1>2, <1>3, SerialImpliesSpec, TypeCorrect, RunnerFollowsPlace, TurnsKept, PTL
  DEF SerialSpec

================================================================================
