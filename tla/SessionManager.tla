----------------------------- MODULE SessionManager -----------------------------
(***************************************************************************)
(* DefaultSessionManager (laffybot/service/session_manager.py) for one     *)
(* session: every request that calls send_message, the watchdog, the       *)
(* administrative calls (cancel, delete, archive, unarchive), clients that *)
(* disconnect, and restarts of the process.                                *)
(*                                                                         *)
(* Steps.  The service runs on one asyncio loop, so a coroutine is atomic  *)
(* from one suspension to the next.  A call of a store is queued to the    *)
(* one SQLite thread when it is made and the queue is served in order, so  *)
(* its effect on the row is ordered by the moment of the call: an action   *)
(* is "resume, run to the next suspension, perform the store call made     *)
(* there".  What the coroutine decides from the answer is decided by the   *)
(* next action, or folded into the new pc when nothing else happens.       *)
(***************************************************************************)
EXTENDS SessionLock, RunnerEvents, FiniteSets

CONSTANTS AdminOps,     \* the administrative calls clients make
          MaxCrashes    \* bound: how often the process restarts

ASSUME AdminOpsAssumption ==
    AdminOps \subseteq {"cancel", "delete", "archive", "unarchive"}
ASSUME MaxCrashesAssumption == MaxCrashes \in Nat

VARIABLES
    \* the row of table sessions
    exists, status, reqId, archived,
    \* the messages of the session, in the order they were saved
    history,
    \* memory of the service
    activeToken,   \* _active_tokens[session]: whose token cancel_request finds
    cancelled,     \* the requests whose CancellationToken is cancelled
    \* per request: local variables of send_message
    pc,            \* where the coroutine is suspended
    runner,        \* what AgentRunner.run_stream will do next
    event,         \* the event being handed to the client
    chunks,        \* the requests whose accumulator holds assistant text
    unsendable,    \* the requests whose context the provider will refuse
    \* the watchdog and the administrative call in progress
    watchdog,      \* "found": a scan returned this session as stuck
    admin,         \* the call whose check passed and whose action is due
    target,        \* the request id that cancel_request read
    crashes

rowVars == <<exists, status, reqId, archived>>
adminVars == <<admin, target>>
localVars == <<runner, event, chunks, unsendable>>
vars == <<rowVars, history, activeToken, cancelled, pc, localVars, lockVars,
          watchdog, adminVars, crashes>>

--------------------------------------------------------------------------------
(* Where send_message can be suspended. *)

Yields  == {"start", "yield", "timeout", "yieldError"}   \* at a yield
Awaits  == {"admit", "lockwait", "claimed", "run", "finish", "unlock"}
Ended   == {"done", "interrupted", "crashed"}
PC      == {"new", "reset"} \cup Yields \cup Awaits \cup Ended

Message == [req : Requests, role : {"user", "assistant"}]

Busy == exists /\ status = "busy"

TypeOK ==
    /\ LockTypeOK
    /\ exists \in BOOLEAN
    /\ status \in {"idle", "busy", "error"}
    /\ reqId \in Requests \cup {NoRequest}
    /\ archived \in BOOLEAN
    /\ history \in Seq(Message)
    /\ activeToken \in Requests \cup {NoRequest}
    /\ cancelled \subseteq Requests
    /\ pc \in [Requests -> PC]
    /\ runner \in [Requests -> RunnerState]
    /\ event \in [Requests -> Event]
    /\ chunks \subseteq Requests
    /\ unsendable \subseteq Requests
    /\ watchdog \in {"idle", "found"}
    /\ admin \in AdminOps \cup {"none"}
    /\ target \in Requests \cup {NoRequest}
    /\ crashes \in 0..MaxCrashes

Init ==
    /\ LockInit
    /\ exists = TRUE /\ status = "idle" /\ reqId = NoRequest /\ archived = FALSE
    /\ history = <<>>
    /\ activeToken = NoRequest
    /\ cancelled = {}
    /\ pc = [r \in Requests |-> "new"]
    /\ runner = [r \in Requests |-> "new"]
    /\ event = [r \in Requests |-> "none"]
    /\ chunks = {}
    /\ unsendable = {}
    /\ watchdog = "idle"
    /\ admin = "none" /\ target = NoRequest
    /\ crashes = 0

--------------------------------------------------------------------------------
(* Helpers *)

Goto(r, l) == pc' = [pc EXCEPT ![r] = l]

\* What only the other actors change.
OtherActors == UNCHANGED <<archived, watchdog, adminVars, crashes>>

Save(r, role) == history' = Append(history, [req |-> r, role |-> role])

\* The event loop of the request is left: its locals are not looked at again.
DropLocals(r) ==
    /\ runner' = [runner EXCEPT ![r] = "ended"]
    /\ event' = [event EXCEPT ![r] = "none"]
    /\ chunks' = chunks \ {r}
    /\ unsendable' = unsendable \ {r}

\* An exception: whatever it is, an error event is handed over next.
Fail(r) == Goto(r, "yieldError") /\ DropLocals(r)

\* An update that resets the row.
ToIdleKeepsId == status' = "idle" /\ UNCHANGED reqId
ToIdle == status' = "idle" /\ reqId' = NoRequest

\* The token to cancel, if one is registered.
TokenUnchecked == {activeToken}
TokenIgnored == {}
RegisteredToken == {activeToken} \ {NoRequest}

\* force_reset_stuck_busy reads the row, and owes a write when it is busy.
AfterCleanupEnded == "done"
AfterCleanup == IF Busy THEN "reset" ELSE "done"

\* The finally block: the token entry of the session, whoever's it is, is
\* dropped and the lock released; then the row is read.
Finally(r) ==
    /\ activeToken' = NoRequest
    /\ ForceUnlock
    /\ Goto(r, AfterCleanup)
    /\ DropLocals(r)
    /\ cancelled' = cancelled \ {r}

\* response_status at the end of a run.
Outcome(r) == IF event[r] = "failed" THEN "error" ELSE "idle"

\* The final status update of a turn, conditional on the row being busy; its
\* SessionStateError ends in the INTERNAL_ERROR event.
FinishStatus(r) ==
    IF Busy
    THEN /\ status' = Outcome(r)
         /\ reqId' = NoRequest
         /\ Goto(r, "unlock")
         /\ DropLocals(r)
    ELSE Fail(r) /\ UNCHANGED <<status, reqId>>

--------------------------------------------------------------------------------
(* send_message, step by step *)

\* The token is registered before anything is checked; then the row is read.
\* A missing row or a busy session leads to the error event.
Send(r) ==
    /\ pc[r] = "new"
    /\ activeToken' = r
    /\ IF exists /\ ~Busy THEN Goto(r, "admit") /\ UNCHANGED localVars ELSE Fail(r)
    /\ OtherActors
    /\ UNCHANGED <<exists, status, reqId, history, cancelled, lockVars>>

\* The status read was not "busy": take the session lock.
Admit(r) ==
    /\ pc[r] = "admit"
    /\ \/ AcquireFree(r) /\ Goto(r, "start")
       \/ Enqueue(r) /\ Goto(r, "lockwait")
    /\ OtherActors
    /\ UNCHANGED <<exists, status, reqId, history, activeToken, cancelled, localVars>>

LockAcquired(r) ==
    /\ pc[r] = "lockwait"
    /\ AcquireWoken(r)
    /\ Goto(r, "start")
    /\ OtherActors
    /\ UNCHANGED <<exists, status, reqId, history, activeToken, cancelled, localVars>>

LockTimeout(r) ==
    /\ pc[r] = "lockwait"
    /\ LeaveQueue(r)
    /\ Fail(r)
    /\ OtherActors
    /\ UNCHANGED <<exists, status, reqId, history, activeToken, cancelled,
                   lockObj, locked, keyOwner>>

\* session_start has been handed over; the optimistic update idle -> busy.
Claim(r) ==
    /\ pc[r] = "start"
    /\ IF exists /\ status = "idle"
       THEN /\ status' = "busy"
            /\ reqId' = r
            /\ Goto(r, "claimed")
            /\ UNCHANGED localVars
       ELSE Fail(r) /\ UNCHANGED <<status, reqId>>
    /\ OtherActors
    /\ UNCHANGED <<exists, history, activeToken, cancelled, lockVars>>

\* The stored conversation followed by the new question is refused by the
\* provider when two messages of one role follow each other.
Alternates ==
    LET roles == [i \in 1..Len(history) |-> history[i].role] \o <<"user">>
    IN  \A i \in 1..Len(history) : roles[i] # roles[i + 1]

\* Provider, model and context are looked up; provider or model may be missing.
Prepare(r) ==
    /\ pc[r] = "claimed"
    /\ \/ /\ Goto(r, "run")
          /\ unsendable' = IF Alternates THEN unsendable ELSE unsendable \cup {r}
          /\ UNCHANGED <<runner, event, chunks>>
       \/ Fail(r)
    /\ OtherActors
    /\ UNCHANGED <<exists, status, reqId, history, activeToken, cancelled, lockVars>>

\* The runner yields its next event.  Before the first one is handed on, the
\* user's message is saved; a row deleted meanwhile makes the save fail.
EveryEvent(r) == TRUE
NoEvent(r) == FALSE
FirstEvent(r) == runner[r] = "new"

RunnerEvent(r) ==
    /\ pc[r] = "run"
    /\ IF FirstEvent(r) THEN exists /\ Save(r, "user") ELSE UNCHANGED history
    /\ \E s \in RunnerSteps :
        /\ s[1] = runner[r]
        /\ s[2] = "cancelled" => r \in cancelled
        /\ runner[r] = "streaming" /\ r \in unsendable => s[3] \in {"failing", "cancelling"}
        /\ event' = [event EXCEPT ![r] = s[2]]
        /\ runner' = [runner EXCEPT ![r] = s[3]]
    /\ Goto(r, "yield")
    /\ OtherActors
    /\ UNCHANGED <<exists, status, reqId, activeToken, cancelled, chunks, unsendable, lockVars>>

\* The save finds no row, or an exception of the provider escapes from the runner.
RunFails(r) ==
    /\ pc[r] = "run"
    /\ IF FirstEvent(r) THEN ~exists ELSE runner[r] \in MayRaise /\ r \notin unsendable
    /\ Fail(r)
    /\ OtherActors
    /\ UNCHANGED <<exists, status, reqId, history, activeToken, cancelled, lockVars>>

\* Awaiting the task that was cancelled after the queue timeout raises asyncio's
\* CancelledError, which no handler catches: the finally block runs at once.
RunLost(r) ==
    /\ pc[r] = "run"
    /\ runner[r] = "lost"
    /\ Finally(r)
    /\ OtherActors
    /\ UNCHANGED <<exists, status, reqId, history, waiters>>

\* An event arrives after the request's deadline: it is dropped, the token is
\* cancelled and a cancelled event is handed over in its place.
DeadlinePasses(r) ==
    /\ pc[r] = "run"
    /\ \E s \in RunnerSteps : s[1] = runner[r]
    /\ cancelled' = cancelled \cup {r}
    /\ Goto(r, "timeout")
    /\ DropLocals(r)
    /\ OtherActors
    /\ UNCHANGED <<exists, status, reqId, history, activeToken, lockVars>>

\* The client took an event that is not done.  What such an event says of
\* response_status is overruled by done, and without done it is never used.
DeliverEvent(r) ==
    /\ pc[r] = "yield"
    /\ event[r] \notin Terminal
    /\ chunks' = IF event[r] = "content" THEN chunks \cup {r} ELSE chunks
    /\ event' = [event EXCEPT ![r] = "none"]
    /\ Goto(r, "run")
    /\ OtherActors
    /\ UNCHANGED <<exists, status, reqId, history, activeToken, cancelled, runner, unsendable, lockVars>>

\* done: the assistant's text, if the outcome is not an error, is saved first.
SavesAssistant(r) == Outcome(r) = "idle" /\ r \in chunks

DeliverDone(r) ==
    /\ pc[r] = "yield"
    /\ event[r] \in Terminal
    /\ IF SavesAssistant(r)
       THEN /\ IF exists THEN Save(r, "assistant") /\ Goto(r, "finish") /\ UNCHANGED localVars
                         ELSE Fail(r) /\ UNCHANGED history
            /\ UNCHANGED <<status, reqId>>
       ELSE FinishStatus(r) /\ UNCHANGED history
    /\ OtherActors
    /\ UNCHANGED <<exists, activeToken, cancelled, lockVars>>

Finish(r) ==
    /\ pc[r] = "finish"
    /\ FinishStatus(r)
    /\ OtherActors
    /\ UNCHANGED <<exists, history, activeToken, cancelled, lockVars>>

\* transition_to_idle; a foreign key is a LockMismatchError.
Unlock(r) ==
    /\ pc[r] \in {"unlock", "timeout"}
    /\ IF MayUnlock(r)
       THEN Finally(r)
       ELSE Fail(r) /\ UNCHANGED <<activeToken, lockObj, locked, keyOwner, cancelled>>
    /\ OtherActors
    /\ UNCHANGED <<exists, status, reqId, history, waiters>>

\* The error event was handed over.
Report(r) ==
    /\ pc[r] = "yieldError"
    /\ Finally(r)
    /\ OtherActors
    /\ UNCHANGED <<exists, status, reqId, history, waiters>>

\* The stream is closed from outside: the client disconnects, or the adapter's
\* 30 s heartbeat wait cancels the generator.
StreamClosed(r) ==
    /\ pc[r] \in Yields \cup Awaits
    /\ IF pc[r] = "lockwait" THEN LeaveQueue(r) ELSE UNCHANGED waiters
    /\ Finally(r)
    /\ OtherActors
    /\ UNCHANGED <<exists, status, reqId, history>>

\* force_reset_stuck_busy: an unconditional write.
Reset(r) ==
    /\ pc[r] = "reset"
    /\ IF exists THEN ToIdle ELSE UNCHANGED <<status, reqId>>
    /\ Goto(r, "done")
    /\ OtherActors
    /\ UNCHANGED <<exists, history, activeToken, cancelled, localVars, lockVars>>

\* The task scope of a disconnected response cancels again at the next await,
\* so the cleanup may be cut short before its write.
Interrupt(r) ==
    /\ pc[r] = "reset"
    /\ Goto(r, "interrupted")
    /\ OtherActors
    /\ UNCHANGED <<exists, status, reqId, history, activeToken, cancelled, localVars,
                   lockVars>>

--------------------------------------------------------------------------------
(* The watchdog, the administrative calls and the process *)

\* The sessions a scan acts on: busy, and unchanged for session_timeout_s.
ListedWithToken == Busy /\ activeToken # NoRequest
Listed == Busy

WatchdogScan ==
    /\ watchdog = "idle"
    /\ Listed
    /\ watchdog' = "found"
    /\ UNCHANGED <<rowVars, history, activeToken, cancelled, pc, localVars, lockVars,
                   adminVars, crashes>>

\* It acts on the listed session: whatever token and lock are registered now,
\* and the row if it is busy now.
WatchdogReset ==
    /\ watchdog = "found"
    /\ cancelled' = cancelled \cup RegisteredToken
    /\ activeToken' = NoRequest
    /\ ForceUnlock
    /\ IF Busy THEN ToIdle ELSE UNCHANGED <<status, reqId>>
    /\ watchdog' = "idle"
    /\ UNCHANGED <<exists, archived, history, pc, localVars, waiters, adminVars, crashes>>

\* Each call reads the row, decides, and acts when it resumes.
Checked(op) ==
    /\ op \in AdminOps
    /\ admin = "none"
    /\ admin' = op
    /\ UNCHANGED <<rowVars, history, activeToken, cancelled, pc, localVars, lockVars,
                   watchdog, crashes>>

CancelCheck    == Busy /\ Checked("cancel") /\ target' = reqId
DeleteCheck    == exists /\ ~Busy /\ Checked("delete") /\ UNCHANGED target
ArchiveCheck   == exists /\ ~archived /\ Checked("archive") /\ UNCHANGED target
UnarchiveCheck == exists /\ ~Busy /\ archived /\ Checked("unarchive") /\ UNCHANGED target

AdminDone(op) ==
    /\ admin = op
    /\ admin' = "none"
    /\ target' = NoRequest
    /\ UNCHANGED <<pc, localVars, lockVars, activeToken, watchdog, crashes>>

Cancel ==
    /\ AdminDone("cancel")
    /\ cancelled' = cancelled \cup RegisteredToken
    /\ UNCHANGED <<rowVars, history>>

\* The messages of the session go with its row.
Delete ==
    /\ AdminDone("delete")
    /\ exists' = FALSE /\ archived' = FALSE /\ ToIdle
    /\ history' = <<>>
    /\ UNCHANGED cancelled

Archive ==
    /\ AdminDone("archive")
    /\ archived' = exists
    /\ UNCHANGED <<exists, status, reqId, history, cancelled>>

Unarchive ==
    /\ AdminDone("unarchive")
    /\ archived' = FALSE
    /\ UNCHANGED <<exists, status, reqId, history, cancelled>>

\* The process stops and is started again: the database stays, every coroutine
\* and everything in memory is gone.  Startup does not touch the sessions.
Crash ==
    /\ crashes < MaxCrashes
    /\ crashes' = crashes + 1
    /\ pc' = [r \in Requests |->
                IF pc[r] \in {"new"} \cup Ended THEN pc[r] ELSE "crashed"]
    /\ LockForgotten
    /\ activeToken' = NoRequest
    /\ watchdog' = "idle" /\ admin' = "none" /\ target' = NoRequest
    /\ cancelled' = {} /\ chunks' = {} /\ unsendable' = {}
    /\ runner' = [r \in Requests |-> IF pc[r] = "new" THEN "new" ELSE "ended"]
    /\ event' = [r \in Requests |-> "none"]
    /\ UNCHANGED <<rowVars, history>>

--------------------------------------------------------------------------------

\* What send_message does by itself once it is sent.
Progress(r) ==
    \/ Admit(r) \/ LockAcquired(r) \/ LockTimeout(r) \/ Claim(r) \/ Prepare(r)
    \/ RunnerEvent(r) \/ RunFails(r) \/ RunLost(r) \/ DeadlinePasses(r)
    \/ DeliverEvent(r) \/ DeliverDone(r) \/ Finish(r)
    \/ Unlock(r) \/ Report(r) \/ Reset(r)

\* Once sent, a request also ends when its stream is closed from outside.
Continues(r) == Progress(r) \/ StreamClosed(r) \/ Interrupt(r)

Administration ==
    \/ CancelCheck \/ Cancel \/ DeleteCheck \/ Delete
    \/ ArchiveCheck \/ Archive \/ UnarchiveCheck \/ Unarchive

Surroundings == WatchdogScan \/ WatchdogReset \/ Administration \/ Crash

Next ==
    \/ \E r \in Requests : Send(r) \/ Continues(r)
    \/ Surroundings

Spec == Init /\ [][Next]_vars

\* A run of the model ends: iterations are bounded, and a silent queue is given
\* up after 120 s.
RunEnds(r) ==
    RunFails(r) \/ RunLost(r) \/ (RunnerEvent(r) /\ event'[r] \in Terminal)

\* The loop schedules ready coroutines, the client reads or goes away, locks
\* time out, the watchdog wakes every minute.
Fairness ==
    /\ \A r \in Requests : WF_vars(Progress(r)) /\ SF_vars(RunEnds(r))
    /\ WF_vars(WatchdogScan \/ WatchdogReset)

FairSpec == Spec /\ Fairness

--------------------------------------------------------------------------------
(* Safety, whatever the clients do *)

\* The requests whose coroutine will still look at the row before it ends.
Owes == {"claimed", "run", "yield", "finish", "timeout", "yieldError", "reset"}

\* A busy row names the request that made it busy, and that request either
\* still has its cleanup ahead of it or was killed before the cleanup's write:
\* no normal or exceptional way through send_message, no lost race for the row
\* and no administrative call leaves a session busy that nobody will reset.
BusyHasOwner ==
    status = "busy" =>
        /\ reqId \in Requests
        /\ pc[reqId] \in Owes \cup {"interrupted", "crashed"}

\* A row that is not busy names no request (cancel_request and the busy error
\* report current_request_id to the client).
IdleNamesNobody == status # "busy" => reqId = NoRequest

\* A request that has not reached its finally block.
Active == Yields \cup Awaits

\* The token entry, the lock object and its key belong to requests that have
\* not reached their finally block.
RemembersActive ==
    /\ activeToken # NoRequest => pc[activeToken] \in Active
    /\ lockObj # NoRequest => pc[lockObj] \in Active
    /\ keyOwner # NoRequest => pc[keyOwner] \in Active

\* The lock object that a new request finds is held.
FoundIsHeld == lockObj # NoRequest => lockObj \in locked

\* What the service remembers for a session never outlives the request that put
\* it there, although any request's cleanup drops anyone's entries and lock
\* objects are abandoned while coroutines queue on them; and nobody queues
\* behind a remembered lock that is free.
NothingLeaks == RemembersActive /\ FoundIsHeld

\* Where r is queued: lock objects with the position in their queue.
Places(r) ==
    UNION {{l} \X {i \in 1..Len(waiters[l]) : waiters[l][i] = r} : l \in Requests}

\* A coroutine waits on at most one lock object, once, and exactly while it is
\* suspended there: abandoned objects do not keep finished requests queued.
QueuedOnce ==
    \A r \in Requests : Cardinality(Places(r)) = IF pc[r] = "lockwait" THEN 1 ELSE 0

Saved(r, role) == {i \in 1..Len(history) : history[i] = [req |-> r, role |-> role]}

\* The conversation holds at most one user and one assistant message of a
\* request, and never an answer without the question before it.
HistoryWellFormed ==
    \A r \in Requests :
        /\ Cardinality(Saved(r, "user")) <= 1
        /\ Cardinality(Saved(r, "assistant")) <= 1
        /\ \A i \in Saved(r, "assistant") : \E j \in Saved(r, "user") : j < i

--------------------------------------------------------------------------------
(* Liveness *)

\* Every request that is sent comes to an end.
RequestsEnd == \A r \in Requests : pc[r] # "new" ~> pc[r] \in Ended

\* A session does not stay busy, not even one left behind by an interrupted
\* cleanup or a restart: the watchdog finds it.
BusyIsCleared == status = "busy" ~> status # "busy"
================================================================================
