------------------------------ MODULE SessionLock ------------------------------
(***************************************************************************)
(* The application lock of one session: LocalSessionLockPort               *)
(* (laffybot/service/local_lock_port.py) over asyncio.Lock.                *)
(*                                                                         *)
(* The port keeps two dictionaries, from session to lock object and from   *)
(* session to the key of the last acquisition.  A lock object is named by  *)
(* the request that created it (a request calls try_lock once, so it       *)
(* creates at most one) and a key by the request that drew it.             *)
(* force_unlock removes the object from the dictionary while coroutines    *)
(* may still be queued on it, so several objects can be alive at once.     *)
(***************************************************************************)
EXTENDS Naturals, Sequences, SequencesExt

CONSTANTS Requests,   \* the requests sent to the session
          NoRequest   \* "no object", "no key", "no token"

ASSUME NoRequestAssumption == NoRequest \notin Requests

VARIABLES
    lockObj,    \* _locks[session]: the lock object new requests find
    locked,     \* the lock objects whose _locked flag is set
    waiters,    \* waiters[l]: the coroutines queued on lock object l
    keyOwner    \* _keys[session]: whose key the port remembers

lockVars == <<lockObj, locked, waiters, keyOwner>>

LockTypeOK ==
    /\ lockObj \in Requests \cup {NoRequest}
    /\ locked \subseteq Requests
    /\ waiters \in [Requests -> Seq(Requests)]
    /\ keyOwner \in Requests \cup {NoRequest}

LockInit ==
    /\ lockObj = NoRequest
    /\ locked = {}
    /\ waiters = [l \in Requests |-> <<>>]
    /\ keyOwner = NoRequest

\* asyncio.Lock.acquire returns at once only when the flag is clear and
\* nobody is queued: a released lock is kept for the waiter it woke.
Contended ==
    /\ lockObj # NoRequest
    /\ lockObj \in locked \/ waiters[lockObj] # <<>>

\* try_lock without suspension: create the object if there is none, take it,
\* and store a fresh key over whatever key was there.
AcquireFree(r) ==
    LET l == IF lockObj = NoRequest THEN r ELSE lockObj IN
    /\ ~Contended
    /\ lockObj' = l
    /\ locked' = locked \cup {l}
    /\ keyOwner' = r
    /\ UNCHANGED waiters

\* try_lock on a contended object: the coroutine is queued and suspends.
Enqueue(r) ==
    /\ Contended
    /\ waiters' = [waiters EXCEPT ![lockObj] = Append(@, r)]
    /\ UNCHANGED <<lockObj, locked, keyOwner>>

\* The woken coroutine resumes inside acquire.  It takes the object it waited
\* on, which may no longer be the one in the dictionary.
AcquireWoken(r) ==
    \E l \in Requests \ locked :
        /\ waiters[l] # <<>>
        /\ Head(waiters[l]) = r
        /\ locked' = locked \cup {l}
        /\ waiters' = [waiters EXCEPT ![l] = Tail(@)]
        /\ keyOwner' = r
        /\ UNCHANGED lockObj

\* Element i taken out of the queue s; the mutant leaves a hole.
RemoveIndexLeavesHole(s, i) == [s EXCEPT ![i] = NoRequest]
RemoveIndex(s, i) == RemoveAt(s, i)

\* A cancelled acquire that stays queued.
LeaveQueueNot(r) == UNCHANGED waiters

\* The 30 s timeout, or a cancellation, takes the coroutine out of its queue.
\* If it had just been woken, acquire wakes the next one: with the flag clear,
\* whoever is at the head is the woken one.
LeaveQueue(r) ==
    \E l \in Requests : \E i \in 1..Len(waiters[l]) :
        /\ waiters[l][i] = r
        /\ waiters' = [waiters EXCEPT ![l] = RemoveIndex(@, i)]

\* force_unlock without _locks.pop, and without release.
ForceUnlockKeepsObject == locked' = locked \ {lockObj} /\ keyOwner' = NoRequest /\ UNCHANGED lockObj
ForceUnlockKeepsHeld == keyOwner' = NoRequest /\ UNCHANGED <<locked, lockObj>>

\* force_unlock: release whoever holds the object, forget object and key.
ForceUnlock ==
    /\ locked' = locked \ {lockObj}
    /\ lockObj' = NoRequest
    /\ keyOwner' = NoRequest

\* A new process starts with empty dictionaries.
LockForgotten ==
    /\ lockObj' = NoRequest
    /\ locked' = {}
    /\ waiters' = [l \in Requests |-> <<>>]
    /\ keyOwner' = NoRequest

\* unlock succeeds only for the key the port remembers (LockMismatchError
\* otherwise).  Every caller goes on to force_unlock in the same step, whose
\* effect includes unlock's.
MayUnlock(r) == keyOwner = r
================================================================================
