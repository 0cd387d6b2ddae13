----------------------------- MODULE SessionClients -----------------------------
(***************************************************************************)
(* SessionManager with clients that follow a rule about when to send, and  *)
(* what the service then owes them.  SessionManager itself lets every      *)
(* request be sent at any time (two browser tabs, a retrying script).      *)
(***************************************************************************)
EXTENDS SessionManager

--------------------------------------------------------------------------------
(* The documented rule (docs/api.md, "concurrency control"): wait until the *)
(* current request is over.  Over means that its coroutine has ended.       *)

NobodyElse(r) == \A q \in Requests \ {r} : pc[q] \in {"new"} \cup Ended

SerialNext ==
    \/ \E r \in Requests : (NobodyElse(r) /\ Send(r)) \/ Continues(r)
    \/ Surroundings

SerialSpec == Init /\ [][SerialNext]_vars

--------------------------------------------------------------------------------
(* The web client (ui/src/hooks/useSseStream.ts): a session stops streaming *)
(* when a done, error or cancelled event arrives or the stream is aborted,  *)
(* and the next message may then be submitted.                              *)

SeenAsOver(q) ==
    \/ pc[q] \notin Active
    \/ pc[q] = "yield" /\ event[q] \in Terminal \cup {"error", "cancelled"}
    \/ pc[q] \in {"finish", "unlock", "timeout", "yieldError"}

UiNext ==
    \/ \E r \in Requests :
        \/ (\A q \in Requests \ {r} : SeenAsOver(q)) /\ Send(r)
        \/ Continues(r)
    \/ Surroundings

UiSpec == Init /\ [][UiNext]_vars

--------------------------------------------------------------------------------
(* Properties under SerialSpec *)

\* From the lock to the end of the turn a request that nobody cancelled is
\* protected: cancel_request finds its token, the port remembers its key, the
\* lock in the dictionary is held, and from the optimistic update until the
\* final one the row is busy with its id.  In particular what earlier requests
\* left behind - an interrupted cleanup, a restart, an old error - and a
\* watchdog acting on a stale scan never take the session away from it
\* silently.
Protected ==
    \A r \in Requests \ cancelled :
        /\ pc[r] \in {"start", "claimed", "run", "yield", "finish", "unlock"} =>
             activeToken = r /\ keyOwner = r /\ lockObj \in locked
        /\ pc[r] \in {"claimed", "run", "yield", "finish"} => Busy /\ reqId = r

\* A client that waits never queues for the lock: every way out of
\* send_message, restarts included, has released it before the next request.
NeverQueues == \A r \in Requests : pc[r] # "lockwait"

\* The stored conversation consists of turns: an answer directly follows the
\* question of the same request, so the context built for the next request
\* never pairs a question with another one's answer.
ConversationInTurns ==
    \A i \in 1..Len(history) :
        history[i].role = "assistant" =>
            i > 1 /\ history[i - 1] = [history[i] EXCEPT !.role = "user"]
================================================================================
