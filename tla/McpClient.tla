------------------------------ MODULE McpClient ------------------------------
(***************************************************************************)
(* McpClient (agent_runtime/tools/mcp/client.py) over one of the three     *)
(* transports of transports.py: requests of several callers, numbered and  *)
(* kept apart by a lock, and a server that answers late or never, sends    *)
(* notifications, noise and requests of its own, or goes away.             *)
(***************************************************************************)
EXTENDS Naturals, Sequences

CONSTANTS Calls,        \* requests that may be made, one by each caller
          Nobody,       \* the lock is free
          Timed,        \* calls under a time limit: tool calls and the handshake;
                        \* a resource read and a prompt have none
          Extras,       \* messages of a server that answer nothing
          MaxExtras,    \* how many of them a server sends
          MaxNoise      \* lines that are not JSON a receive skips (100)

ASSUME ClientAssumption ==
    /\ Nobody \notin Calls
    /\ {"none", "timeout", "lost", "garbled"} \cap (Calls \cup {Nobody}) = {}
    /\ Timed \subseteq Calls
    /\ Extras \subseteq {"notification", "request", "noise", "garbled"}
    /\ MaxExtras \in Nat
    /\ MaxNoise \in Nat \ {0}

VARIABLES kind,         \* the transport
          holder,       \* who holds the lock
          queue,        \* who waits for it
          lastId,       \* _request_id
          pc,           \* [Calls -> ...]: where send_request is
          reqId,        \* [Calls -> Nat]: its number, 0 before it has one
          outcome,      \* [Calls -> ...]: how it ended
          pending,      \* requests the server has and did not answer
          inbox,        \* messages the transport holds
          extras,       \* messages sent that answer nothing
          skipped,      \* lines skipped by the receive under way
          ended         \* has the server gone?

vars == <<kind, holder, queue, lastId, pc, reqId, outcome, pending, inbox,
          extras, skipped, ended>>

\* What a receive looks at, and the call a message answers.
Message == [type : {"answer", "garbled", "end"} \cup Extras, id : Nat,
            caller : Calls \cup {Nobody}]

Pending == [id : Nat, caller : Calls]

TypeOK ==
    /\ kind \in {"stdio", "sse", "http"}
    /\ holder \in Calls \cup {Nobody}
    /\ queue \in Seq(Calls)
    /\ lastId \in Nat
    /\ pc \in [Calls -> {"idle", "queued", "sending", "receiving", "done"}]
    /\ reqId \in [Calls -> Nat]
    /\ outcome \in [Calls -> Calls \cup {Nobody, "none", "timeout", "lost", "garbled"}]
    /\ pending \subseteq Pending
    /\ inbox \in Seq(Message)
    /\ extras \in Nat
    /\ skipped \in Nat
    /\ ended \in BOOLEAN

Init ==
    /\ kind \in {"stdio", "sse", "http"}
    /\ holder = Nobody
    /\ queue = <<>>
    /\ lastId = 0
    /\ pc = [c \in Calls |-> "idle"]
    /\ reqId = [c \in Calls |-> 0]
    /\ outcome = [c \in Calls |-> "none"]
    /\ pending = {}
    /\ inbox = <<>>
    /\ extras = 0
    /\ skipped = 0
    /\ ended = FALSE

-----------------------------------------------------------------------------
(* The lock around a request, and the end of one.                          *)

Locked(c) ==
    /\ holder' = c
    /\ lastId' = lastId + 1
    /\ reqId' = [reqId EXCEPT ![c] = lastId + 1]
    /\ pc' = [pc EXCEPT ![c] = "sending"]

Leaves(c) == SelectSeq(queue, LAMBDA d : d # c)

\* A mistake: a call out of time keeps the lock.
EndsHolding(c, how) ==
    /\ pc' = [pc EXCEPT ![c] = "done"]
    /\ outcome' = [outcome EXCEPT ![c] = how]
    /\ queue' = Leaves(c)
    /\ holder' = IF holder = c /\ how # "timeout" THEN Nobody ELSE holder
    /\ UNCHANGED <<kind, lastId, reqId, extras, ended>>

\* A mistake: a cancelled wait is told from a time limit.
EndsCancelled(c, how) ==
    /\ pc' = [pc EXCEPT ![c] = "done"]
    /\ outcome' = [outcome EXCEPT ![c] = IF pc[c] = "queued" THEN "cancelled" ELSE how]
    /\ queue' = Leaves(c)
    /\ holder' = IF holder = c THEN Nobody ELSE holder
    /\ UNCHANGED <<kind, lastId, reqId, extras, ended>>

Ends(c, how) ==
    /\ pc' = [pc EXCEPT ![c] = "done"]
    /\ outcome' = [outcome EXCEPT ![c] = how]
    /\ queue' = Leaves(c)
    /\ holder' = IF holder = c THEN Nobody ELSE holder
    /\ UNCHANGED <<kind, lastId, reqId, extras, ended>>

Call(c) ==
    /\ pc[c] = "idle"
    /\ IF holder = Nobody /\ queue = <<>>
       THEN Locked(c) /\ UNCHANGED queue
       ELSE /\ pc' = [pc EXCEPT ![c] = "queued"]
            /\ queue' = Append(queue, c)
            /\ UNCHANGED <<holder, lastId, reqId>>
    /\ UNCHANGED <<kind, outcome, pending, inbox, extras, skipped, ended>>

LockAcquired(c) ==
    /\ holder = Nobody
    /\ queue # <<>>
    /\ c = Head(queue)
    /\ Locked(c)
    /\ queue' = Tail(queue)
    /\ UNCHANGED <<kind, outcome, pending, inbox, extras, skipped, ended>>

-----------------------------------------------------------------------------
(* Sending.  A process reads the request from its input, an SSE server gets *)
(* it as a POST whose body may hold the answer, a streamable HTTP server   *)
(* answers in the body of the POST.                                        *)

Asked(c) == [id |-> reqId[c], caller |-> c]

AnswerTo(p) == [type |-> "answer", id |-> p.id, caller |-> p.caller]

Posted(c) ==
    /\ pc[c] = "sending"
    /\ kind # "http"
    /\ pc' = [pc EXCEPT ![c] = "receiving"]
    /\ skipped' = 0
    /\ \/ pending' = pending \cup {Asked(c)} /\ UNCHANGED inbox
       \/ /\ kind = "sse"
          /\ inbox' = Append(inbox, AnswerTo(Asked(c)))
          /\ UNCHANGED pending
    /\ UNCHANGED <<kind, holder, queue, lastId, reqId, outcome, extras, ended>>

Requested(c) ==
    /\ pc[c] = "sending"
    /\ kind = "http"
    /\ Asked(c) \notin pending
    /\ pending' = pending \cup {Asked(c)}
    /\ UNCHANGED <<kind, holder, queue, lastId, pc, reqId, outcome, inbox, extras,
                   skipped, ended>>

\* The body of a POST whose caller has given up is dropped.
Responded(p) ==
    /\ kind = "http"
    /\ p \in pending
    /\ pending' = pending \ {p}
    /\ IF pc[p.caller] = "sending"
       THEN /\ inbox' = Append(inbox, AnswerTo(p))
            /\ pc' = [pc EXCEPT ![p.caller] = "receiving"]
            /\ skipped' = 0
       ELSE UNCHANGED <<inbox, pc, skipped>>
    /\ UNCHANGED <<kind, holder, queue, lastId, reqId, outcome, extras, ended>>

SendFails(c) ==
    /\ pc[c] = "sending"
    /\ Ends(c, "lost")
    /\ UNCHANGED <<pending, inbox, skipped>>

-----------------------------------------------------------------------------
(* The server.                                                             *)

Answers(p) ==
    /\ kind # "http"
    /\ ~ ended
    /\ p \in pending
    /\ pending' = pending \ {p}
    /\ inbox' = Append(inbox, AnswerTo(p))
    /\ UNCHANGED <<kind, holder, queue, lastId, pc, reqId, outcome, extras, skipped, ended>>

\* Requests of a server count from 1 like those of the client; lines that are
\* not JSON are dropped by the reader of an SSE stream.  Over HTTP a message
\* can only come in the body of an answer under way.
SendsExtra(type, n) ==
    /\ ~ ended
    /\ extras < MaxExtras
    /\ ~ (type = "noise" /\ kind = "sse")
    /\ kind = "http" => \E p \in pending : pc[p.caller] = "sending"
    /\ extras' = extras + 1
    /\ inbox' = Append(inbox,
           [type |-> IF type = "noise" /\ kind = "http" THEN "garbled" ELSE type,
            id |-> n, caller |-> Nobody])
    /\ UNCHANGED <<kind, holder, queue, lastId, pc, reqId, outcome, pending, skipped, ended>>

StreamEnds ==
    /\ kind # "http"
    /\ ~ ended
    /\ ended' = TRUE
    /\ inbox' = Append(inbox, [type |-> "end", id |-> 0, caller |-> Nobody])
    /\ UNCHANGED <<kind, holder, queue, lastId, pc, reqId, outcome, pending, extras, skipped>>

-----------------------------------------------------------------------------
(* Receiving: send_request reads messages until one has its number.         *)

\* A mistake: any answer ends the wait.
AnyNumber(m, c) == m.type \in {"answer", "request"}

\* A mistake: the number is looked up after it was raised once more.
NextNumber(m, c) == m.type \in {"answer", "request"} /\ m.id = reqId[c] + 1

Matches(m, c) == m.type \in {"answer", "request"} /\ m.id = reqId[c]

\* Notifications and other numbers are discarded, and lines that are not JSON.
Discards(c) ==
    /\ pc[c] = "receiving"
    /\ inbox # <<>>
    /\ LET m == Head(inbox) IN
       /\ m.type \in {"answer", "request", "notification", "noise"}
       /\ ~ Matches(m, c)
       /\ m.type = "noise" => skipped + 1 < MaxNoise
       /\ skipped' = IF m.type = "noise" THEN skipped + 1 ELSE 0
    /\ inbox' = Tail(inbox)
    /\ UNCHANGED <<kind, holder, queue, lastId, pc, reqId, outcome, pending, extras, ended>>

Receives(c) ==
    /\ pc[c] = "receiving"
    /\ inbox # <<>>
    /\ LET m == Head(inbox) IN
       \/ Matches(m, c) /\ Ends(c, m.caller) /\ inbox' = Tail(inbox)
       \/ m.type = "garbled" /\ Ends(c, "garbled") /\ inbox' = Tail(inbox)
       \/ /\ m.type = "noise"
          /\ skipped + 1 >= MaxNoise
          /\ Ends(c, "lost")
          /\ inbox' = Tail(inbox)
       \/ \* The end of an SSE stream is queued once, that of a pipe stays.
          /\ m.type = "end"
          /\ Ends(c, "lost")
          /\ inbox' = IF kind = "sse" THEN Tail(inbox) ELSE inbox
    /\ UNCHANGED <<pending, skipped>>

\* The time limit of the caller covers the wait for the lock.
TimesOut(c) ==
    /\ c \in Timed
    /\ pc[c] \in {"queued", "sending", "receiving"}
    /\ Ends(c, "timeout")
    /\ UNCHANGED <<pending, inbox, skipped>>

CallStep(c) == LockAcquired(c) \/ Posted(c) \/ Requested(c) \/ Discards(c) \/ Receives(c)

Server ==
    \/ \E p \in pending : Responded(p) \/ Answers(p)
    \/ \E type \in Extras, n \in 0..lastId :
           (type = "request" <=> n > 0) /\ SendsExtra(type, n)
    \/ StreamEnds

Next ==
    \/ \E c \in Calls : Call(c) \/ CallStep(c) \/ SendFails(c) \/ TimesOut(c)
    \/ Server

\* The event loop runs what is ready, time limits pass, and a server that is
\* there answers.
Fairness ==
    /\ \A c \in Calls : WF_vars(CallStep(c)) /\ WF_vars(TimesOut(c))
    /\ WF_vars(\E p \in pending : Responded(p) \/ Answers(p))

Spec == Init /\ [][Next]_vars /\ Fairness

-----------------------------------------------------------------------------
(* A call that returns what the server answered returns what it answered    *)
(* to this request and never the answer to another, after any number of    *)
(* earlier requests that were abandoned and whatever else the server       *)
(* sends, requests of its own included (client.py:105).  With a request of *)
(* the server of the same number a call returns nothing (NeverAmbiguous).  *)
AnswerIsOwn == \A c \in Calls : outcome[c] \in Calls => outcome[c] = c

(* McpClient: "All requests are serialised via an internal lock so that     *)
(* request/response ID pairing is never ambiguous" (client.py:67).  The    *)
(* client offers roots and sampling (client.py:131), so that a server may  *)
(* make requests; one with the number that is waited for is taken for its  *)
(* answer, since nothing looks at its method.                              *)
NeverAmbiguous == \A c \in Calls : outcome[c] # Nobody

(* The lock is held by a request that is being sent or waits for its        *)
(* answer, never by one that ended or timed out (client.py:97).             *)
LockIsUsed == holder # Nobody => pc[holder] \in {"sending", "receiving"}

(* A request without a time limit ends as well, when the server answers     *)
(* what it is asked: nobody keeps it from the lock for ever and no late     *)
(* message takes the place of its answer.  The exception is an SSE stream   *)
(* that has ended, which only one receive is told (transports.py:316).      *)
UntimedCallsEnd ==
    \A c \in Calls \ Timed :
        pc[c] = "queued" \/ pc[c] = "sending" ~>
            pc[c] = "done" \/ (kind = "sse" /\ ended)

=============================================================================
