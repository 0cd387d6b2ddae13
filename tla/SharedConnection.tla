-------------------------- MODULE SharedConnection --------------------------
(***************************************************************************)
(* The stores (db/*.py) on the one SQLite connection that DatabaseManager  *)
(* owns.  A coroutine gives up control after each statement, so statements *)
(* of several operations share whatever transaction is open: a COMMIT or a *)
(* ROLLBACK concerns all of them, and a BEGIN is refused inside one.  A    *)
(* statement that writes opens a transaction when none is open, which a    *)
(* failing statement leaves behind.                                        *)
(***************************************************************************)
EXTENDS FiniteSets, Integers

CONSTANTS Sessions,     \* stored sessions
          Ops,          \* operations of the stores, each made at most once
          Kinds,        \* what an operation may be
          Crashes       \* may the process be killed?

AllKinds == {"save", "update", "setting", "insert", "memory", "delete", "replace"}

ASSUME ConnectionAssumption ==
    /\ Kinds \subseteq AllKinds
    /\ Crashes \in BOOLEAN
    /\ IsFiniteSet(Ops)

VARIABLES work,         \* the database as the connection sees it
          disk,         \* what is committed
          open,         \* is a transaction open?
          op,           \* [Ops -> record]: the operations
          unsaved,      \* operations with statements in the open transaction
          undone,       \* history: operations that lost statements to another's
                        \* rollback
          left          \* history: did an operation that was cancelled or
                        \* refused leave the transaction open?

vars == <<work, disk, open, op, unsaved, undone, left>>

\* A row of sessions with its messages, each known by the operation that wrote
\* it; `rows' are the other rows written.
Database == [there : SUBSET Sessions, messages : [Sessions -> SUBSET Ops],
             count : [Sessions -> Int], rows : SUBSET Ops]

NoOp == [kind |-> "none", on |-> "none", at |-> "none", ids |-> {}]

States == {"none", "begin", "message", "count", "statement", "swap", "commit",
           "missing", "rollback", "ok", "error", "cancelled"}

OpRecord == [kind : AllKinds, on : Sessions, at : States, ids : SUBSET Ops] \cup {NoOp}

TypeOK ==
    /\ work \in Database
    /\ disk \in Database
    /\ open \in BOOLEAN
    /\ op \in [Ops -> OpRecord]
    /\ unsaved \subseteq Ops
    /\ undone \subseteq Ops
    /\ left \in BOOLEAN
    /\ open \/ (work = disk /\ unsaved = {})

Empty == [there |-> Sessions, messages |-> [s \in Sessions |-> {}],
          count |-> [s \in Sessions |-> 0], rows |-> {}]

Init ==
    /\ work = Empty
    /\ disk = Empty
    /\ open = FALSE
    /\ op = [p \in Ops |-> NoOp]
    /\ unsaved = {}
    /\ undone = {}
    /\ left = FALSE

Over(p) == op[p].at \in {"ok", "error", "cancelled"}

UnderWay == {p \in Ops : op[p].at # "none" /\ ~ Over(p)}

GoTo(p, at) == op' = [op EXCEPT ![p].at = at]

-----------------------------------------------------------------------------
(* Statements.                                                             *)

\* A mistake: each statement on its own, without a transaction.
WritesAlone(p, database) ==
    /\ work' = database
    /\ UNCHANGED <<disk, open, unsaved, undone, left>>

\* A statement of p that writes.
Writes(p, database) ==
    /\ work' = database
    /\ open' = TRUE
    /\ unsaved' = unsaved \cup {p}
    /\ UNCHANGED <<disk, undone, left>>

\* A statement of p that fails: what was there stays, and the transaction.
Refused(p) ==
    /\ open' = TRUE
    /\ left' = TRUE
    /\ UNCHANGED <<work, disk, unsaved, undone>>

Commits(p) ==
    /\ disk' = work
    /\ open' = FALSE
    /\ unsaved' = {}
    /\ left' = FALSE
    /\ UNCHANGED <<work, undone>>

RollsBack(p) ==
    /\ work' = disk
    /\ open' = FALSE
    /\ undone' = undone \cup (unsaved \ {p})
    /\ unsaved' = {}
    /\ left' = FALSE
    /\ UNCHANGED disk

-----------------------------------------------------------------------------
(* save_message: BEGIN, INSERT, UPDATE of the count, COMMIT; a session that *)
(* is gone makes the INSERT fail and the transaction roll back.            *)

SaveBegins(p) ==
    /\ op[p].kind = "save" /\ op[p].at = "begin"
    /\ open' = TRUE
    /\ GoTo(p, IF open THEN "error" ELSE "message")
    /\ UNCHANGED <<work, disk, unsaved, undone, left>>

SaveInserts(p) ==
    /\ op[p].kind = "save" /\ op[p].at = "message"
    /\ IF op[p].on \in work.there
       THEN /\ Writes(p, [work EXCEPT !.messages[op[p].on] = @ \cup {p}])
            /\ GoTo(p, "count")
       ELSE /\ open' = TRUE
            /\ GoTo(p, "rollback")
            /\ UNCHANGED <<work, disk, unsaved, undone, left>>

\* A mistake: the count is written from the number of messages there was.
CountsBefore(p) ==
    /\ op[p].kind = "save" /\ op[p].at = "count"
    /\ Writes(p, [work EXCEPT !.count[op[p].on] = Cardinality(disk.messages[op[p].on]) + 1])
    /\ GoTo(p, "commit")

\* An UPDATE that matches no row changes nothing.
SaveCounts(p) ==
    /\ op[p].kind = "save" /\ op[p].at = "count"
    /\ Writes(p, IF op[p].on \in work.there
                 THEN [work EXCEPT !.count[op[p].on] = @ + 1] ELSE work)
    /\ GoTo(p, "commit")

-----------------------------------------------------------------------------
(* One statement and a COMMIT: the update of a row of sessions (its status, *)
(* model, title or archive mark), that of a setting, the INSERT of a       *)
(* provider, a model or a server, which a UNIQUE column may refuse, that   *)
(* of a memory, which needs its session, and the deletion of a session     *)
(* with its messages.                                                      *)

\* A mistake: an UPDATE that finds no row is reported before the COMMIT.
UpdatesUncommitted(p) ==
    /\ op[p].kind = "update" /\ op[p].at = "statement"
    /\ IF op[p].on \in work.there
       THEN Writes(p, [work EXCEPT !.rows = @ \cup {p}]) /\ GoTo(p, "commit")
       ELSE Writes(p, work) /\ GoTo(p, "error")

\* Whether a row was there shows only after the COMMIT.
Updates(p) ==
    /\ op[p].kind = "update" /\ op[p].at = "statement"
    /\ IF op[p].on \in work.there
       THEN Writes(p, [work EXCEPT !.rows = @ \cup {p}]) /\ GoTo(p, "commit")
       ELSE Writes(p, work) /\ GoTo(p, "missing")

SetsSetting(p) ==
    /\ op[p].kind = "setting" /\ op[p].at = "statement"
    /\ Writes(p, [work EXCEPT !.rows = @ \cup {p}])
    /\ GoTo(p, "commit")

Inserts(p) ==
    /\ op[p].kind = "insert" /\ op[p].at = "statement"
    /\ \/ Writes(p, [work EXCEPT !.rows = @ \cup {p}]) /\ GoTo(p, "commit")
       \/ Refused(p) /\ GoTo(p, "error")

SavesMemory(p) ==
    /\ op[p].kind = "memory" /\ op[p].at = "statement"
    /\ IF op[p].on \in work.there
       THEN Writes(p, [work EXCEPT !.rows = @ \cup {p}]) /\ GoTo(p, "commit")
       ELSE Refused(p) /\ GoTo(p, "error")

\* Rows that go with their session.
Belongs(q, s) == op[q].kind \in {"update", "memory"} /\ op[q].on = s

Deletes(p) ==
    /\ op[p].kind = "delete" /\ op[p].at = "statement"
    /\ Writes(p, [work EXCEPT !.there = @ \ {op[p].on}, !.messages[op[p].on] = {},
                              !.count[op[p].on] = 0,
                              !.rows = {q \in @ : ~ Belongs(q, op[p].on)}])
    /\ GoTo(p, IF op[p].on \in work.there THEN "commit" ELSE "missing")

-----------------------------------------------------------------------------
(* replace_compressed_region: its BEGIN is inside the try block, so that a  *)
(* refused BEGIN rolls back the transaction of somebody else.  The count   *)
(* is lowered by the number of messages asked for.                         *)

ReplaceBegins(p) ==
    /\ op[p].kind = "replace" /\ op[p].at = "begin"
    /\ open' = TRUE
    /\ GoTo(p, IF open THEN "rollback" ELSE "statement")
    /\ UNCHANGED <<work, disk, unsaved, undone, left>>

ReplaceDeletes(p) ==
    /\ op[p].kind = "replace" /\ op[p].at = "statement"
    /\ Writes(p, [work EXCEPT !.messages[op[p].on] = @ \ op[p].ids])
    /\ GoTo(p, "swap")

ReplaceInserts(p) ==
    /\ op[p].kind = "replace" /\ op[p].at = "swap"
    /\ IF op[p].on \in work.there
       THEN /\ Writes(p, [work EXCEPT !.messages[op[p].on] = @ \cup {p}])
            /\ GoTo(p, "count")
       ELSE /\ open' = TRUE
            /\ GoTo(p, "rollback")
            /\ UNCHANGED <<work, disk, unsaved, undone, left>>

ReplaceCounts(p) ==
    /\ op[p].kind = "replace" /\ op[p].at = "count"
    /\ Writes(p, IF op[p].on \in work.there
                 THEN [work EXCEPT !.count[op[p].on] = @ - Cardinality(op[p].ids) + 1]
                 ELSE work)
    /\ GoTo(p, "commit")

-----------------------------------------------------------------------------
(* The end of an operation, its cancellation after a statement was handed   *)
(* to the connection, and the end of the process.                          *)

Commit(p) ==
    /\ op[p].at \in {"commit", "missing"}
    /\ Commits(p)
    /\ GoTo(p, IF op[p].at = "commit" THEN "ok" ELSE "error")

\* A mistake: the failure is not raised again after the rollback.
RollbackSwallows(p) ==
    /\ op[p].at = "rollback"
    /\ RollsBack(p)
    /\ GoTo(p, "ok")

Rollback(p) ==
    /\ op[p].at = "rollback"
    /\ RollsBack(p)
    /\ GoTo(p, "error")

Cancelled(p) ==
    /\ op[p].at \in {"message", "count", "swap", "commit", "missing", "rollback"}
    /\ left' = TRUE
    /\ GoTo(p, "cancelled")
    /\ UNCHANGED <<work, disk, open, unsaved, undone>>

Starts(p, kind, s) ==
    /\ op[p] = NoOp
    /\ op' = [op EXCEPT ![p] =
          [kind |-> kind, on |-> s, ids |-> work.messages[s],
           at |-> IF kind \in {"save", "replace"} THEN "begin" ELSE "statement"]]
    /\ kind = "replace" => work.messages[s] # {}
    /\ UNCHANGED <<work, disk, open, unsaved, undone, left>>

\* What is not committed is lost, and so are the coroutines.
Crash ==
    /\ Crashes
    /\ UnderWay # {}
    /\ work' = disk
    /\ open' = FALSE
    /\ unsaved' = {}
    /\ op' = [p \in Ops |-> IF p \in UnderWay THEN [op[p] EXCEPT !.at = "cancelled"]
                            ELSE op[p]]
    /\ left' = FALSE
    /\ UNCHANGED <<disk, undone>>

Step(p) ==
    \/ SaveBegins(p) \/ SaveInserts(p) \/ SaveCounts(p)
    \/ Updates(p) \/ SetsSetting(p) \/ Inserts(p) \/ SavesMemory(p) \/ Deletes(p)
    \/ ReplaceBegins(p) \/ ReplaceDeletes(p) \/ ReplaceInserts(p) \/ ReplaceCounts(p)
    \/ Commit(p) \/ Rollback(p)

Next ==
    \/ \E p \in Ops : Step(p) \/ Cancelled(p)
    \/ \E p \in Ops, kind \in Kinds, s \in Sessions : Starts(p, kind, s)
    \/ Crash

Spec == Init /\ [][Next]_vars

-----------------------------------------------------------------------------
(* What an operation that returned success was to leave behind.            *)
Stored(p) ==
    LET s == op[p].on IN
    CASE op[p].kind = "save" ->
            \/ p \in disk.messages[s]
            \/ s \notin disk.there
            \/ \E q \in Ops : op[q].kind = "replace" /\ p \in op[q].ids
      [] op[p].kind = "delete" -> s \notin disk.there
      [] op[p].kind \in {"update", "memory"} -> p \in disk.rows \/ s \notin disk.there
      [] op[p].kind \in {"setting", "insert"} -> p \in disk.rows
      [] OTHER -> TRUE

(* A store that returns, and so tells its caller that the row or message is *)
(* written, has it on disk from then on, through crashes, failures and     *)
(* cancellations of others: only the rollback of another operation, while  *)
(* its own statements were open, takes it away (session_store.py:547).     *)
AcknowledgedIsStored == \A p \in Ops \ undone : op[p].at = "ok" => Stored(p)

(* No operation sees the transaction of another as its own for good: once   *)
(* everything has returned and nothing was cancelled or refused, no        *)
(* transaction is open and nothing waits to be committed.                  *)
ConnectionFreed ==
    UnderWay = {} /\ ~ left => ~ open /\ work = disk

(* message_count is the number of messages (session-manager.md:443) when no *)
(* operation is under way, unless a rollback of another took one part of a *)
(* save, a save was cut off half-way, or a region was replaced: commits of *)
(* others between its INSERT and its UPDATE do no lasting harm.            *)
CountsRight ==
    \A s \in disk.there :
        (/\ UnderWay = {}
         /\ undone = {}
         /\ \A p \in Ops : ~ (op[p].at = "cancelled" /\ op[p].kind \in {"save", "replace"})
         /\ \A p \in Ops : op[p].kind # "replace")
            => disk.count[s] = Cardinality(disk.messages[s])

(* "save_message: INSERT and update of message_count in the same            *)
(* transaction" (docs/session-manager.md:560): at any moment the database   *)
(* on disk holds both or neither.                                          *)
SaveIsAtomic == \A s \in disk.there : disk.count[s] = Cardinality(disk.messages[s])

(* Neither holds without its exception: a rollback takes what others have   *)
(* acknowledged in the same transaction (session_store.py:664), and a      *)
(* refused INSERT leaves its transaction open (provider_store.py:171).     *)
AcknowledgedAlways == \A p \in Ops : op[p].at = "ok" => Stored(p)
TransactionsEnd == UnderWay = {} => ~ open

=============================================================================
