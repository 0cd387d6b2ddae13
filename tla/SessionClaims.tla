----------------------------- MODULE SessionClaims -----------------------------
(***************************************************************************)
(* What the documents of the repository say of a session and the code does *)
(* not keep.  The README tells which instance shows the behaviour of the   *)
(* code that breaks each claim.                                            *)
(***************************************************************************)
EXTENDS SessionClients

InTurn == {"claimed", "run", "yield", "finish"}

\* docs/session-manager.md, 8.3: requests of one session run one after the
\* other, those the watchdog has given up apart.  The cleanup of a rejected
\* request releases the lock of the running one and resets its row, so that a
\* third request is let in.
SerialExecution ==
    \A q, r \in Requests \ cancelled : pc[q] \in InTurn /\ pc[r] \in InTurn => q = r

\* docs/session-manager.md, 9.2: the token lives from the start to the end of
\* send_message.  The cleanup of the request before drops the entry of the one
\* the web client sent next, which then starts to run, alone, and cannot be
\* cancelled.
TokenLivesWithRequest ==
    \A r \in Requests \ cancelled :
        pc[r] = "run" /\ FirstEvent(r) /\ NobodyElse(r) => activeToken = r

\* docs/session-manager.md, 8.1 and 8.2: a session in status error accepts
\* send_message.  The optimistic update expects "idle".
ErrorAcceptsRetry ==
    [][\A r \in Requests :
         pc[r] = "start" /\ exists /\ status = "error" /\ pc'[r] \in {"claimed", "yieldError"}
             => pc'[r] = "claimed"]_vars

\* docs/api.md, archive: archiving a streaming session waits for the stream.
ArchiveWaits == [][~archived /\ archived' => ~Busy]_vars

\* docs/session-manager.md, 9.4: a cancelled run leaves no assistant message.
CancelDiscardsPartial ==
    \A r \in Requests : event[r] = "aborted" => Saved(r, "assistant") = {}

\* docs/session-manager.md, 7.2: the cleanup updates the status whether the
\* request ends normally, by an exception or by a cancellation.
CleanupAlwaysResets ==
    \A r \in Requests : pc[r] = "interrupted" => ~(Busy /\ reqId = r)

\* docs/session-manager.md, 8.1 and 9.4: an idle session accepts a request, and
\* what a cancelled request leaves in the history does not confuse later ones.
\* A question without an answer stays in the history, and the provider refuses
\* a conversation in which the next question follows it.
IdleAcceptsRequest ==
    exists /\ status = "idle" /\ (\A r \in Requests : pc[r] \in {"new"} \cup Ended) => Alternates
================================================================================
