----------------------- MODULE SharedConnectionProofs ------------------------
(***************************************************************************)
(* Theorems about SharedConnection, for any sessions and any number of     *)
(* operations.                                                             *)
(***************************************************************************)
EXTENDS SharedConnection, FiniteSetTheorems, TLAPS

USE ConnectionAssumption

-----------------------------------------------------------------------------
(* Types                                                                   *)

\* An operation under way goes on and stays the one it is.
LEMMA GoToMoves ==
    ASSUME op \in [Ops -> OpRecord], NEW p \in Ops, op[p].at # "none",
           NEW at \in States, GoTo(p, at)
    PROVE  /\ op' \in [Ops -> OpRecord]
           /\ op'[p] = [op[p] EXCEPT !.at = at]
           /\ \A q \in Ops \ {p} : op'[q] = op[q]
           /\ op[p].kind \in AllKinds /\ op[p].on \in Sessions /\ op[p].ids \subseteq Ops
           /\ op'[p].at = at /\ op'[p].kind = op[p].kind
           /\ op'[p].on = op[p].on /\ op'[p].ids = op[p].ids
<1>1. op[p] \in [kind : AllKinds, on : Sessions, at : States, ids : SUBSET Ops]
  BY DEF OpRecord, NoOp
<1>2. op' = [op EXCEPT ![p] = [op[p] EXCEPT !.at = at]]
  BY DEF GoTo
<1>3. [op[p] EXCEPT !.at = at]
          \in [kind : AllKinds, on : Sessions, at : States, ids : SUBSET Ops]
  BY <1>1
<1>4. op' \in [Ops -> OpRecord]
  BY <1>2, <1>3 DEF OpRecord
<1>5. op'[p] = [op[p] EXCEPT !.at = at]
  BY <1>2
<1>. QED BY <1>1, <1>2, <1>4, <1>5

\* The count of a region replaced stays a number.
LEMMA IdsCount == ASSUME NEW S \in SUBSET Ops PROVE Cardinality(S) \in Int
<1>1. IsFiniteSet(S)
  BY FS_Subset
<1>. QED BY <1>1, FS_CardinalityType

\* What the statements make of a database is one.
LEMMA DatabaseChanges ==
    ASSUME NEW db \in Database, NEW s \in Sessions, NEW p \in Ops
    PROVE  /\ [db EXCEPT !.messages[s] = @ \cup {p}] \in Database
           /\ \A ids \in SUBSET Ops : [db EXCEPT !.messages[s] = @ \ ids] \in Database
           /\ \A n \in Int : [db EXCEPT !.count[s] = n] \in Database
           /\ [db EXCEPT !.rows = @ \cup {p}] \in Database
           /\ \A rows \in SUBSET Ops :
                 [db EXCEPT !.there = @ \ {s}, !.messages[s] = {}, !.count[s] = 0,
                            !.rows = rows] \in Database
<1>2. db.there \in SUBSET Sessions /\ db.messages \in [Sessions -> SUBSET Ops]
      /\ db.count \in [Sessions -> Int] /\ db.rows \in SUBSET Ops
  BY DEF Database
<1>3. \A S \in SUBSET Ops : [db.messages EXCEPT ![s] = S] \in [Sessions -> SUBSET Ops]
  BY <1>2
<1>4. \A n \in Int : [db.count EXCEPT ![s] = n] \in [Sessions -> Int]
  BY <1>2
<1>5. \A S \in SUBSET Ops : [db EXCEPT !.messages[s] = S] \in Database
  BY <1>2, <1>3 DEF Database
<1>6. \A n \in Int : [db EXCEPT !.count[s] = n] \in Database
  BY <1>2, <1>4 DEF Database
<1>7. [db EXCEPT !.rows = @ \cup {p}] \in Database
  BY <1>2 DEF Database
<1>8. db.messages[s] \cup {p} \in SUBSET Ops
      /\ \A ids \in SUBSET Ops : db.messages[s] \ ids \in SUBSET Ops
  BY <1>2
<1>9. ASSUME NEW rows \in SUBSET Ops
      PROVE  [db EXCEPT !.there = @ \ {s}, !.messages[s] = {}, !.count[s] = 0,
                        !.rows = rows] \in Database
  <2>1. [db.messages EXCEPT ![s] = {}] \in [Sessions -> SUBSET Ops]
        /\ [db.count EXCEPT ![s] = 0] \in [Sessions -> Int]
        /\ db.there \ {s} \in SUBSET Sessions
    BY <1>2, <1>3, <1>4
  <2>. QED BY <1>2, <2>1 DEF Database
<1>. QED BY <1>5, <1>6, <1>7, <1>8, <1>9

\* The connection without the operations.
ConnectionOK ==
    /\ work \in Database /\ disk \in Database
    /\ open \in BOOLEAN /\ left \in BOOLEAN
    /\ unsaved \subseteq Ops /\ undone \subseteq Ops
    /\ open \/ (work = disk /\ unsaved = {})

\* Each kind of statement leaves the connection well formed.
LEMMA StatementType ==
    ASSUME ConnectionOK, NEW p \in Ops,
           \/ \E db \in Database : Writes(p, db)
           \/ Refused(p) \/ Commits(p) \/ RollsBack(p)
           \/ open' /\ UNCHANGED <<work, disk, unsaved, undone, left>>
           \/ left' /\ UNCHANGED <<work, disk, open, unsaved, undone>>,
           open' \in BOOLEAN, left' \in BOOLEAN
    PROVE  ConnectionOK'
BY DEF ConnectionOK, Writes, Refused, Commits, RollsBack

\* What one step of an operation is: it moves on to some state, and one statement
\* is executed.
LEMMA StepShape ==
    ASSUME TypeOK, NEW p \in Ops, Step(p) \/ Cancelled(p)
    PROVE  /\ op[p].at # "none"
           /\ \E at \in States : GoTo(p, at)
           /\ ConnectionOK'
<1>0. ConnectionOK
  BY DEF TypeOK, ConnectionOK
<1>1. op[p].at # "none" => op[p].on \in Sessions /\ op[p].ids \in SUBSET Ops
  BY DEF TypeOK, OpRecord, NoOp
<1>. DEFINE s == op[p].on
<1>2. work \in Database
  BY DEF TypeOK
<1>3. CASE SaveBegins(p)
  BY <1>0, <1>3, StatementType DEF SaveBegins, States, ConnectionOK
<1>4. CASE SaveInserts(p)
  <2>1. s \in Sessions /\ op[p].at # "none"
    BY <1>1, <1>4 DEF SaveInserts
  <2>2. CASE s \in work.there
    <3>1. [work EXCEPT !.messages[s] = @ \cup {p}] \in Database
      BY <1>2, <2>1, DatabaseChanges
    <3>. QED BY <1>0, <1>4, <2>1, <2>2, <3>1, StatementType
         DEF SaveInserts, States, Writes, ConnectionOK
  <2>3. CASE s \notin work.there
    BY <1>0, <1>4, <2>1, <2>3, StatementType DEF SaveInserts, States, ConnectionOK
  <2>. QED BY <2>2, <2>3
<1>5. CASE SaveCounts(p)
  <2>1. s \in Sessions /\ op[p].at # "none"
    BY <1>1, <1>5 DEF SaveCounts
  <2>2. work.count[s] + 1 \in Int
    BY <1>2, <2>1 DEF Database
  <2>3. [work EXCEPT !.count[s] = @ + 1] \in Database
    BY <1>2, <2>1, <2>2, DatabaseChanges
  <2>. QED BY <1>0, <1>2, <1>5, <2>1, <2>3, StatementType
       DEF SaveCounts, States, Writes, ConnectionOK
<1>6. CASE Updates(p) \/ SetsSetting(p) \/ Inserts(p) \/ SavesMemory(p)
  <2>1. s \in Sessions /\ op[p].at # "none"
    BY <1>1, <1>6 DEF Updates, SetsSetting, Inserts, SavesMemory
  <2>2. [work EXCEPT !.rows = @ \cup {p}] \in Database
    BY <1>2, <2>1, DatabaseChanges
  <2>3. (\E db \in Database : Writes(p, db)) \/ Refused(p)
    BY <1>2, <1>6, <2>2 DEF Updates, SetsSetting, Inserts, SavesMemory
  <2>4. \E at \in States : GoTo(p, at)
    BY <1>6 DEF Updates, SetsSetting, Inserts, SavesMemory, States
  <2>5. open' \in BOOLEAN /\ left' \in BOOLEAN
    BY <1>0, <2>3 DEF Writes, Refused, ConnectionOK
  <2>. QED BY <1>0, <2>1, <2>3, <2>4, <2>5, StatementType
<1>7. CASE Deletes(p)
  <2>1. s \in Sessions /\ op[p].at # "none"
    BY <1>1, <1>7 DEF Deletes
  <2>2. {q \in work.rows : ~ Belongs(q, s)} \in SUBSET Ops
    BY <1>2 DEF Database
  <2>3. [work EXCEPT !.there = @ \ {s}, !.messages[s] = {}, !.count[s] = 0,
                     !.rows = {q \in @ : ~ Belongs(q, s)}] \in Database
    BY <1>2, <2>1, <2>2, DatabaseChanges
  <2>. QED BY <1>0, <1>7, <2>1, <2>3, StatementType DEF Deletes, States, Writes, ConnectionOK
<1>8. CASE ReplaceBegins(p)
  BY <1>0, <1>8, StatementType DEF ReplaceBegins, States, ConnectionOK
<1>9. CASE ReplaceDeletes(p)
  <2>1. s \in Sessions /\ op[p].at # "none" /\ op[p].ids \in SUBSET Ops
    BY <1>1, <1>9 DEF ReplaceDeletes
  <2>2. [work EXCEPT !.messages[s] = @ \ op[p].ids] \in Database
    BY <1>2, <2>1, DatabaseChanges
  <2>. QED BY <1>0, <1>9, <2>1, <2>2, StatementType
       DEF ReplaceDeletes, States, Writes, ConnectionOK
<1>10. CASE ReplaceInserts(p)
  <2>1. s \in Sessions /\ op[p].at # "none"
    BY <1>1, <1>10 DEF ReplaceInserts
  <2>2. CASE s \in work.there
    <3>1. [work EXCEPT !.messages[s] = @ \cup {p}] \in Database
      BY <1>2, <2>1, DatabaseChanges
    <3>. QED BY <1>0, <1>10, <2>1, <2>2, <3>1, StatementType
         DEF ReplaceInserts, States, Writes, ConnectionOK
  <2>3. CASE s \notin work.there
    BY <1>0, <1>10, <2>1, <2>3, StatementType DEF ReplaceInserts, States, ConnectionOK
  <2>. QED BY <2>2, <2>3
<1>11. CASE ReplaceCounts(p)
  <2>1. s \in Sessions /\ op[p].at # "none" /\ op[p].ids \in SUBSET Ops
    BY <1>1, <1>11 DEF ReplaceCounts
  <2>2. Cardinality(op[p].ids) \in Int
    BY <2>1, IdsCount
  <2>3. work.count[s] - Cardinality(op[p].ids) + 1 \in Int
    BY <1>2, <2>1, <2>2 DEF Database
  <2>4. [work EXCEPT !.count[s] = @ - Cardinality(op[p].ids) + 1] \in Database
    BY <1>2, <2>1, <2>3, DatabaseChanges
  <2>. QED BY <1>0, <1>2, <1>11, <2>1, <2>4, StatementType
       DEF ReplaceCounts, States, Writes, ConnectionOK
<1>12. CASE Commit(p)
  BY <1>0, <1>12, StatementType DEF Commit, Commits, States, ConnectionOK
<1>13. CASE Rollback(p)
  BY <1>0, <1>13, StatementType DEF Rollback, RollsBack, States, ConnectionOK
<1>14. CASE Cancelled(p)
  BY <1>0, <1>14, StatementType DEF Cancelled, States, ConnectionOK
<1>. QED BY <1>3, <1>4, <1>5, <1>6, <1>7, <1>8, <1>9, <1>10, <1>11, <1>12, <1>13,
            <1>14 DEF Step

LEMMA TypeStep == TypeOK /\ [Next]_vars => TypeOK'
<1>. SUFFICES ASSUME TypeOK, [Next]_vars PROVE TypeOK'
  OBVIOUS
<1>1. ASSUME NEW p \in Ops, Step(p) \/ Cancelled(p) PROVE TypeOK'
  <2>1. ConnectionOK' /\ op[p].at # "none"
    BY <1>1, StepShape
  <2>2. PICK at \in States : GoTo(p, at)
    BY <1>1, StepShape
  <2>3. op' \in [Ops -> OpRecord]
    BY <2>1, <2>2, GoToMoves DEF TypeOK
  <2>. QED BY <2>1, <2>3 DEF TypeOK, ConnectionOK
<1>2. ASSUME NEW p \in Ops, NEW kind \in Kinds, NEW s \in Sessions, Starts(p, kind, s)
      PROVE TypeOK'
  <2>. DEFINE new == [kind |-> kind, on |-> s, ids |-> work.messages[s],
                      at |-> IF kind \in {"save", "replace"} THEN "begin" ELSE "statement"]
  <2>1. new \in OpRecord
    BY <1>2 DEF OpRecord, TypeOK, Database, States
  <2>2. op' = [op EXCEPT ![p] = new]
    BY <1>2 DEF Starts
  <2>3. op' \in [Ops -> OpRecord]
    BY <2>1, <2>2 DEF TypeOK
  <2>. QED BY <1>2, <2>3 DEF TypeOK, Starts
<1>3. CASE Crash
  <2>1. ASSUME NEW p \in UnderWay PROVE [op[p] EXCEPT !.at = "cancelled"] \in OpRecord
    BY <2>1 DEF UnderWay, TypeOK, OpRecord, NoOp, States
  <2>2. op' \in [Ops -> OpRecord]
    BY <1>3, <2>1 DEF Crash, TypeOK
  <2>. QED BY <1>3, <2>2 DEF Crash, TypeOK
<1>4. CASE UNCHANGED vars
  BY <1>4 DEF vars, TypeOK
<1>. QED BY <1>1, <1>2, <1>3, <1>4 DEF Next

LEMMA InitType == Init => TypeOK
<1>. SUFFICES ASSUME Init PROVE TypeOK
  OBVIOUS
<1>1. Empty \in Database
  BY DEF Empty, Database
<1>2. NoOp \in OpRecord
  BY DEF OpRecord
<1>. QED BY <1>1, <1>2 DEF Init, TypeOK

(* Every variable keeps its type; outside a transaction the connection sees  *)
(* what is on disk, and nothing waits to be committed.                     *)
THEOREM ConnectionTypeCorrect == Spec => []TypeOK
<1>. QED BY InitType, TypeStep, PTL DEF Spec

-----------------------------------------------------------------------------
(* What is acknowledged is stored                                          *)

\* What p was to leave behind in the database db, when the operations are o.
Kept(o, p, db) ==
    LET s == o[p].on IN
    CASE o[p].kind = "save" ->
            \/ p \in db.messages[s]
            \/ s \notin db.there
            \/ \E q \in Ops : o[q].kind = "replace" /\ p \in o[q].ids
      [] o[p].kind = "delete" -> s \notin db.there
      [] o[p].kind \in {"update", "memory"} -> p \in db.rows \/ s \notin db.there
      [] o[p].kind \in {"setting", "insert"} -> p \in db.rows
      [] OTHER -> TRUE

\* p has executed the statement that leaves it behind.
Written(p) == op[p].at \in {"commit", "ok"} \/ (op[p].kind = "save" /\ op[p].at = "count")

\* It is there for the connection, and on disk unless a transaction with
\* statements of p is open; one that returned has none.
Acknowledged(p) ==
    /\ op[p].at = "ok" => p \notin unsaved
    /\ Written(p) /\ p \notin undone =>
          /\ Kept(op, p, work)
          /\ p \notin unsaved => Kept(op, p, disk)

AckInv == \A p \in Ops : Acknowledged(p)

\* An operation that goes on, or one that starts, changes nothing for the others.
LEMMA KeptLater ==
    ASSUME NEW o, NEW o2, NEW p \in Ops, NEW db, o[p].kind # "none",
           \A q \in Ops : o[q].kind # "none" =>
              o2[q].kind = o[q].kind /\ o2[q].on = o[q].on /\ o2[q].ids = o[q].ids,
           Kept(o, p, db)
    PROVE  Kept(o2, p, db)
<1>1. o2[p].kind = o[p].kind /\ o2[p].on = o[p].on
  OBVIOUS
<1>2. (\E q \in Ops : o[q].kind = "replace" /\ p \in o[q].ids)
        => \E q \in Ops : o2[q].kind = "replace" /\ p \in o2[q].ids
  OBVIOUS
<1>. QED BY <1>1, <1>2 DEF Kept

\* What a statement of p leaves alone of what the others have written.
LEMMA OthersKeep ==
    ASSUME TypeOK, NEW p \in Ops, NEW q \in Ops \ {p}, Acknowledged(q),
           op[p].at # "none", NEW at \in States, GoTo(p, at),
           \/ \E db \in Database :
                 Writes(p, db) /\ (Kept(op, q, work) => Kept(op, q, db))
           \/ Refused(p) \/ Commits(p) \/ RollsBack(p)
           \/ UNCHANGED <<work, disk, unsaved, undone>>
    PROVE  Acknowledged(q)'
<1>1. op'[q] = op[q] /\ op'[p].kind = op[p].kind /\ op'[p].on = op[p].on
      /\ op'[p].ids = op[p].ids /\ \A r \in Ops \ {p} : op'[r] = op[r]
  BY GoToMoves DEF TypeOK
<1>2. Written(q)' => Written(q) /\ op[q].kind # "none"
  BY <1>1 DEF Written, TypeOK, OpRecord, NoOp, AllKinds
<1>3. op[q].at = "ok" => Written(q)
  BY DEF Written
<1>4. ASSUME NEW db, op[q].kind # "none", Kept(op, q, db) PROVE Kept(op', q, db)
  BY <1>1, <1>4, KeptLater
<1>5. CASE \E db \in Database : Writes(p, db) /\ (Kept(op, q, work) => Kept(op, q, db))
  BY <1>1, <1>2, <1>4, <1>5 DEF Acknowledged, Writes
<1>6. CASE Refused(p) \/ UNCHANGED <<work, disk, unsaved, undone>>
  BY <1>1, <1>2, <1>4, <1>6 DEF Acknowledged, Refused
<1>7. CASE Commits(p)
  BY <1>1, <1>2, <1>4, <1>7 DEF Acknowledged, Commits
<1>8. CASE RollsBack(p)
  BY <1>1, <1>2, <1>4, <1>8 DEF Acknowledged, RollsBack
<1>. QED BY <1>5, <1>6, <1>7, <1>8

\* Rows that only come, and messages that do, take nothing away.
LEMMA GrowsKeeps ==
    ASSUME NEW q \in Ops, NEW db, NEW db2, op[q].on \in Sessions,
           Kept(op, q, db), db2.there \subseteq db.there, db.rows \subseteq db2.rows,
           \A s \in Sessions : db.messages[s] \subseteq db2.messages[s]
    PROVE  Kept(op, q, db2)
BY DEF Kept

LEMMA AtMoved ==
    ASSUME TypeOK, NEW p \in Ops, NEW at, GoTo(p, at)
    PROVE  op'[p].at = at
<1>1. op[p] = [kind |-> op[p].kind, on |-> op[p].on, at |-> op[p].at, ids |-> op[p].ids]
  BY DEF TypeOK, OpRecord, NoOp
<1>. QED BY <1>1 DEF TypeOK, GoTo

\* What a statement of p leaves alone of what q has written.
LEMMA StatementKeeps ==
    ASSUME TypeOK, NEW p \in Ops, Step(p), NEW q \in Ops, op[q].on \in Sessions
    PROVE  \/ \E db \in Database :
                 Writes(p, db) /\ (Kept(op, q, work) => Kept(op, q, db))
           \/ Refused(p) \/ Commits(p) \/ RollsBack(p)
           \/ UNCHANGED <<work, disk, unsaved, undone>>
<1>. DEFINE s == op[p].on
<1>1. /\ work.there \in SUBSET Sessions /\ work.messages \in [Sessions -> SUBSET Ops]
      /\ work.count \in [Sessions -> Int] /\ work.rows \in SUBSET Ops
  BY DEF TypeOK, Database
<1>2. op[p].at # "none" => op[p].on \in Sessions /\ op[p].ids \in SUBSET Ops
  BY DEF TypeOK, OpRecord, NoOp
<1>3. work \in Database
  BY DEF TypeOK
<1>4. CASE SaveBegins(p) \/ ReplaceBegins(p)
  BY <1>4 DEF SaveBegins, ReplaceBegins
<1>5. CASE SaveInserts(p) \/ ReplaceInserts(p)
  <2>. DEFINE db == [work EXCEPT !.messages[s] = @ \cup {p}]
  <2>1. s \in Sessions
    BY <1>2, <1>5 DEF SaveInserts, ReplaceInserts
  <2>2. db \in Database
    BY <1>3, <2>1, DatabaseChanges
  <2>3. db.there = work.there /\ db.rows = work.rows
        /\ \A t \in Sessions : work.messages[t] \subseteq db.messages[t]
    BY <1>1, <1>3, <2>1 DEF Database
  <2>5. Kept(op, q, work) => Kept(op, q, db)
    BY <2>3, GrowsKeeps
  <2>4. Writes(p, db) \/ UNCHANGED <<work, disk, unsaved, undone>>
    BY <1>5 DEF SaveInserts, ReplaceInserts
  <2>. QED BY <2>2, <2>4, <2>5
<1>6. CASE SaveCounts(p) \/ ReplaceCounts(p)
  <2>1. s \in Sessions /\ op[p].ids \in SUBSET Ops
    BY <1>2, <1>6 DEF SaveCounts, ReplaceCounts
  <2>2. Cardinality(op[p].ids) \in Int
    BY <2>1, IdsCount
  <2>3. PICK db : /\ Writes(p, db)
                  /\ \/ db = work
                     \/ \E n \in Int : db = [work EXCEPT !.count[s] = n]
    <3>1. work.count[s] + 1 \in Int
          /\ work.count[s] - Cardinality(op[p].ids) + 1 \in Int
      BY <1>1, <2>1, <2>2
    <3>. QED BY <1>6, <3>1 DEF SaveCounts, ReplaceCounts
  <2>4. db \in Database
    <3>1. \A n \in Int : [work EXCEPT !.count[s] = n] \in Database
      BY <1>3, <2>1, DatabaseChanges
    <3>. QED BY <1>3, <2>3, <3>1
  <2>5. db.there = work.there /\ db.rows = work.rows /\ db.messages = work.messages
    BY <1>3, <2>3 DEF Database
  <2>6. Kept(op, q, work) => Kept(op, q, db)
    BY <2>5, GrowsKeeps
  <2>. QED BY <2>3, <2>4, <2>6
<1>7. CASE Updates(p) \/ SetsSetting(p) \/ Inserts(p) \/ SavesMemory(p)
  <2>1. s \in Sessions
    BY <1>2, <1>7 DEF Updates, SetsSetting, Inserts, SavesMemory
  <2>2. ASSUME NEW db, db = [work EXCEPT !.rows = @ \cup {p}] \/ db = work, Writes(p, db)
        PROVE  db \in Database /\ (Kept(op, q, work) => Kept(op, q, db))
    <3>1. db \in Database
      BY <1>3, <2>1, <2>2, DatabaseChanges
    <3>2. db.there = work.there /\ work.rows \subseteq db.rows
          /\ db.messages = work.messages
      BY <1>3, <2>2 DEF Database
    <3>. QED BY <3>1, <3>2, GrowsKeeps
  <2>3. Refused(p) \/ \E db : /\ Writes(p, db)
                              /\ db = [work EXCEPT !.rows = @ \cup {p}] \/ db = work
    BY <1>7 DEF Updates, SetsSetting, Inserts, SavesMemory
  <2>. QED BY <2>2, <2>3
<1>8. CASE Deletes(p)
  <2>. DEFINE db == [work EXCEPT !.there = @ \ {s}, !.messages[s] = {}, !.count[s] = 0,
                                 !.rows = {r \in @ : ~ Belongs(r, s)}]
  <2>1. s \in Sessions /\ Writes(p, db)
    BY <1>2, <1>8 DEF Deletes
  <2>2. {r \in work.rows : ~ Belongs(r, s)} \in SUBSET Ops
    BY <1>1
  <2>3. db \in Database
    BY <1>3, <2>1, <2>2, DatabaseChanges
  <2>4. /\ db.there = work.there \ {s} /\ db.rows = {r \in work.rows : ~ Belongs(r, s)}
        /\ \A t \in Sessions \ {s} : db.messages[t] = work.messages[t]
    BY <1>1, <1>3, <2>1 DEF Database
  <2>5. Kept(op, q, work) => Kept(op, q, db)
    BY <2>4 DEF Kept, Belongs
  <2>. QED BY <2>1, <2>3, <2>5
<1>9. CASE ReplaceDeletes(p)
  <2>. DEFINE db == [work EXCEPT !.messages[s] = @ \ op[p].ids]
  <2>1. s \in Sessions /\ op[p].ids \in SUBSET Ops /\ op[p].kind = "replace" /\ Writes(p, db)
    BY <1>2, <1>9 DEF ReplaceDeletes
  <2>2. db \in Database
    BY <1>3, <2>1, DatabaseChanges
  <2>3. db.there = work.there /\ db.rows = work.rows
        /\ db.messages[s] = work.messages[s] \ op[p].ids
        /\ \A t \in Sessions \ {s} : db.messages[t] = work.messages[t]
    BY <1>1, <1>3, <2>1 DEF Database
  <2>4. Kept(op, q, work) => Kept(op, q, db)
    BY <2>1, <2>3 DEF Kept
  <2>. QED BY <2>1, <2>2, <2>4
<1>10. CASE Commit(p) \/ Rollback(p)
  BY <1>10 DEF Commit, Rollback
<1>. QED BY <1>4, <1>5, <1>6, <1>7, <1>8, <1>9, <1>10 DEF Step

\* What p itself has written when it goes on.
LEMMA OwnKept ==
    ASSUME TypeOK, NEW p \in Ops, Acknowledged(p), Step(p)
    PROVE  Acknowledged(p)'
<1>. DEFINE s == op[p].on
<1>0. op[p].at # "none" /\ \E at \in States : GoTo(p, at)
  BY StepShape
<1>1. op'[p].kind = op[p].kind /\ op'[p].on = op[p].on /\ op[p].on \in Sessions
  BY <1>0, GoToMoves DEF TypeOK
<1>2. /\ work.there \in SUBSET Sessions /\ work.messages \in [Sessions -> SUBSET Ops]
      /\ work.count \in [Sessions -> Int] /\ work.rows \in SUBSET Ops
  BY DEF TypeOK, Database
<1>3. work \in Database
  BY DEF TypeOK
<1>4. CASE SaveBegins(p) \/ ReplaceBegins(p)
  <2>1. op'[p].at \in {"error", "message", "rollback", "statement"}
    BY <1>4, AtMoved DEF SaveBegins, ReplaceBegins
  <2>. QED BY <2>1 DEF Acknowledged, Written
<1>5. CASE SaveInserts(p)
  <2>1. CASE s \in work.there
    <3>1. op'[p].at = "count" /\ p \in unsaved' /\ p \in work'.messages[s]
          /\ op[p].kind = "save"
      BY <1>1, <1>2, <1>3, <1>5, <2>1, AtMoved DEF SaveInserts, Writes, Database
    <3>. QED BY <1>1, <3>1 DEF Acknowledged, Kept
  <2>2. CASE s \notin work.there
    <3>1. op'[p].at = "rollback"
      BY <1>5, <2>2, AtMoved DEF SaveInserts
    <3>. QED BY <3>1 DEF Acknowledged, Written
  <2>. QED BY <2>1, <2>2
<1>6. CASE SaveCounts(p)
  <2>1. op'[p].at = "commit" /\ p \in unsaved' /\ op[p].kind = "save" /\ op[p].at = "count"
        /\ undone' = undone
    BY <1>6, AtMoved DEF SaveCounts, Writes
  <2>2. work'.messages = work.messages /\ work'.there = work.there
    BY <1>3, <1>6 DEF SaveCounts, Writes, Database
  <2>3. Kept(op, p, work) => Kept(op', p, work')
    <3>1. ASSUME NEW q \in Ops, op[q].kind = "replace" PROVE op'[q] = op[q]
      BY <1>0, <2>1, <3>1, GoToMoves DEF TypeOK
    <3>. QED BY <1>1, <2>1, <2>2, <3>1 DEF Kept
  <2>. QED BY <2>1, <2>3 DEF Acknowledged, Written
<1>7. CASE Updates(p) \/ SetsSetting(p) \/ Inserts(p) \/ SavesMemory(p)
  <2>1. op[p].kind \in {"update", "setting", "insert", "memory"}
        /\ op'[p].at \in {"commit", "missing", "error"}
    BY <1>7, AtMoved DEF Updates, SetsSetting, Inserts, SavesMemory
  <2>2. op'[p].at = "commit" => p \in unsaved' /\ p \in work'.rows
    <3>1. Writes(p, [work EXCEPT !.rows = @ \cup {p}]) => p \in unsaved' /\ p \in work'.rows
      BY <1>3 DEF Writes, Database
    <3>. QED BY <1>7, <3>1, AtMoved DEF Updates, SetsSetting, Inserts, SavesMemory
  <2>. QED BY <1>1, <2>1, <2>2 DEF Acknowledged, Written, Kept
<1>8. CASE Deletes(p)
  <2>1. op[p].kind = "delete" /\ op'[p].at \in {"commit", "missing"} /\ p \in unsaved'
    BY <1>8, AtMoved DEF Deletes, Writes
  <2>2. s \notin work'.there
    BY <1>3, <1>8 DEF Deletes, Writes, Database
  <2>. QED BY <1>1, <2>1, <2>2 DEF Acknowledged, Written, Kept
<1>9. CASE ReplaceDeletes(p) \/ ReplaceInserts(p) \/ ReplaceCounts(p)
  <2>1. op[p].kind = "replace" /\ op'[p].at \in {"swap", "count", "rollback", "commit"}
    BY <1>9, AtMoved DEF ReplaceDeletes, ReplaceInserts, ReplaceCounts
  <2>. QED BY <1>1, <2>1 DEF Acknowledged, Kept
<1>10. CASE Commit(p)
  <2>1. op'[p].at \in {"ok", "error"} /\ unsaved' = {} /\ work' = work /\ disk' = work
        /\ undone' = undone /\ (op'[p].at = "ok" => op[p].at = "commit")
    BY <1>10, AtMoved DEF Commit, Commits
  <2>2. ASSUME op[p].at = "commit", Kept(op, p, work) PROVE Kept(op', p, work)
    <3>1. op[p].kind # "none"
      BY <1>0 DEF TypeOK, OpRecord, NoOp, AllKinds
    <3>2. \A q \in Ops : op'[q].kind = op[q].kind /\ op'[q].on = op[q].on
                         /\ op'[q].ids = op[q].ids
      BY <1>0, GoToMoves DEF TypeOK
    <3>. QED BY <2>2, <3>1, <3>2, KeptLater
  <2>. QED BY <2>1, <2>2 DEF Acknowledged, Written
<1>11. CASE Rollback(p)
  <2>1. op'[p].at = "error"
    BY <1>11, AtMoved DEF Rollback
  <2>. QED BY <2>1 DEF Acknowledged, Written
<1>. QED BY <1>4, <1>5, <1>6, <1>7, <1>8, <1>9, <1>10, <1>11 DEF Step

LEMMA AckStep == TypeOK /\ AckInv /\ [Next]_vars => AckInv'
<1>. SUFFICES ASSUME TypeOK, AckInv, [Next]_vars PROVE AckInv'
  OBVIOUS
<1>0. \A q \in Ops : Acknowledged(q)
  BY DEF AckInv
<1>1. ASSUME NEW p \in Ops, Step(p) \/ Cancelled(p), NEW q \in Ops PROVE Acknowledged(q)'
  <2>1. op[p].at # "none" /\ \E at \in States : GoTo(p, at)
    BY <1>1, StepShape
  <2>2. CASE q = p /\ Step(p)
    BY <1>0, <2>2, OwnKept
  <2>3. CASE q = p /\ Cancelled(p)
    <3>1. op'[p].at = "cancelled"
      BY <2>3, AtMoved DEF Cancelled
    <3>. QED BY <2>3, <3>1 DEF Acknowledged, Written
  <2>4. CASE q # p /\ op[q].on \notin Sessions
    <3>1. op'[q] = op[q]
      BY <2>1, <2>4, GoToMoves DEF TypeOK
    <3>2. op[q].at = "none"
      BY <2>4 DEF TypeOK, OpRecord, NoOp
    <3>. QED BY <3>1, <3>2 DEF Acknowledged, Written
  <2>5. CASE q # p /\ op[q].on \in Sessions /\ Step(p)
    <3>1. \/ \E db \in Database :
                Writes(p, db) /\ (Kept(op, q, work) => Kept(op, q, db))
          \/ Refused(p) \/ Commits(p) \/ RollsBack(p)
          \/ UNCHANGED <<work, disk, unsaved, undone>>
      BY <2>5, StatementKeeps
    <3>. QED BY <1>0, <2>1, <2>5, <3>1, OthersKeep
  <2>6. CASE q # p /\ Cancelled(p)
    <3>1. UNCHANGED <<work, disk, unsaved, undone>>
      BY <2>6 DEF Cancelled
    <3>. QED BY <1>0, <2>1, <2>6, <3>1, OthersKeep
  <2>. QED BY <1>1, <2>2, <2>3, <2>4, <2>5, <2>6
<1>2. ASSUME NEW p \in Ops, NEW kind \in Kinds, NEW s \in Sessions, Starts(p, kind, s),
             NEW q \in Ops
      PROVE  Acknowledged(q)'
  <2>1. op'[p].at \in {"begin", "statement"} /\ op[p].kind = "none"
        /\ \A r \in Ops \ {p} : op'[r] = op[r]
    BY <1>2 DEF Starts, TypeOK, NoOp
  <2>2. CASE q = p
    BY <2>1, <2>2 DEF Acknowledged, Written
  <2>3. CASE q # p
    <3>1. Written(q)' => Written(q) /\ op[q].kind # "none"
      BY <2>1, <2>3 DEF Written, TypeOK, OpRecord, NoOp, AllKinds
    <3>2. ASSUME NEW db, op[q].kind # "none", Kept(op, q, db) PROVE Kept(op', q, db)
      BY <2>1, <3>2, KeptLater
    <3>. QED BY <1>0, <1>2, <2>1, <2>3, <3>1, <3>2 DEF Acknowledged, Starts
  <2>. QED BY <2>2, <2>3
<1>3. ASSUME Crash, NEW q \in Ops PROVE Acknowledged(q)'
  <2>1. \A r \in Ops : op'[r] = op[r] \/ (op'[r].at = "cancelled" /\ op'[r].kind = op[r].kind
                        /\ op'[r].on = op[r].on /\ op'[r].ids = op[r].ids)
    <3>1. \A r \in Ops : op[r] = [kind |-> op[r].kind, on |-> op[r].on, at |-> op[r].at,
                                  ids |-> op[r].ids]
      BY DEF TypeOK, OpRecord, NoOp
    <3>. QED BY <1>3, <3>1 DEF Crash
  <2>2. Written(q)' => op[q].at = "ok"
    <3>1. op[q].at # "none" /\ ~ Over(q) => op'[q].at = "cancelled"
      BY <1>3 DEF Crash, UnderWay, TypeOK, OpRecord, NoOp
    <3>2. Written(q)' => op'[q] = op[q]
      BY <2>1 DEF Written
    <3>. QED BY <3>1, <3>2 DEF Written, Over
  <2>3. op[q].at = "ok" => op[q].kind # "none"
    BY DEF TypeOK, OpRecord, NoOp, AllKinds
  <2>4. ASSUME op[q].kind # "none", Kept(op, q, disk) PROVE Kept(op', q, disk)
    <3>1. \A r \in Ops : op'[r].kind = op[r].kind /\ op'[r].on = op[r].on
                         /\ op'[r].ids = op[r].ids
      BY <2>1
    <3>. QED BY <2>4, <3>1, KeptLater
  <2>5. op[q].at = "ok" /\ q \notin undone => Kept(op, q, disk)
    BY <1>0 DEF Acknowledged, Written
  <2>. QED BY <1>3, <2>2, <2>3, <2>4, <2>5 DEF Acknowledged, Crash
<1>4. CASE UNCHANGED vars
  <2>1. \A q \in Ops : Written(q)' <=> Written(q)
    BY <1>4 DEF vars, Written
  <2>. QED BY <1>4, <2>1 DEF vars, AckInv, Acknowledged
<1>. QED BY <1>1, <1>2, <1>3, <1>4 DEF Next, AckInv

(* Whatever happens to others - failures, cancellations, a kill - what a     *)
(* store has acknowledged is on disk, unless another operation's rollback  *)
(* undid its open statements.  Neither the rows on disk nor the moment of  *)
(* the return says that: the invariant follows each write from its         *)
(* statement on, through the commits and rollbacks of others.              *)
THEOREM AcknowledgedStays == Spec => []AcknowledgedIsStored
<1>1. Init => AckInv
  BY DEF Init, AckInv, Acknowledged, Written, NoOp
<1>2. AckInv => AcknowledgedIsStored
  BY DEF AckInv, Acknowledged, Written, Kept, AcknowledgedIsStored, Stored
<1>3. Spec => []AckInv
  BY <1>1, AckStep, ConnectionTypeCorrect, PTL DEF Spec
<1>. QED BY <1>2, <1>3, PTL

-----------------------------------------------------------------------------
(* Transactions end                                                        *)

\* p has a COMMIT or a ROLLBACK ahead of it.
Holds(p) ==
    \/ op[p].at \in {"message", "count", "swap", "commit", "missing", "rollback"}
    \/ op[p].kind = "replace" /\ op[p].at = "statement"

\* An open transaction is that of an operation which will end it, or was left behind.
OpenIsHeld == open => left \/ \E p \in Ops : Holds(p)

LEMMA OpenStep == TypeOK /\ OpenIsHeld /\ [Next]_vars => OpenIsHeld'
<1>. SUFFICES ASSUME TypeOK, OpenIsHeld, [Next]_vars PROVE OpenIsHeld'
  OBVIOUS
<1>1. ASSUME NEW p \in Ops, Step(p) \/ Cancelled(p) PROVE OpenIsHeld'
  <2>1. op[p].at # "none" /\ \E at \in States : GoTo(p, at)
    BY <1>1, StepShape
  <2>2. \A q \in Ops \ {p} : Holds(q) => Holds(q)'
    BY <2>1, GoToMoves DEF TypeOK, Holds
  <2>3. op'[p].kind = op[p].kind
    BY <2>1, GoToMoves DEF TypeOK
  <2>4. CASE ~ Holds(p) /\ UNCHANGED <<open, left>>
    BY <2>2, <2>4 DEF OpenIsHeld
  <2>5. CASE Holds(p)' \/ left' \/ ~ open'
    BY <2>5 DEF OpenIsHeld
  <2>6. ~ (Holds(p)' \/ left' \/ ~ open') => ~ Holds(p) /\ UNCHANGED <<open, left>>
    <3>1. CASE SaveBegins(p) \/ ReplaceBegins(p)
      BY <2>3, <3>1, AtMoved DEF SaveBegins, ReplaceBegins, Holds, TypeOK
    <3>2. CASE SaveInserts(p) \/ ReplaceInserts(p)
      BY <3>2, AtMoved DEF SaveInserts, ReplaceInserts, Holds
    <3>3. CASE SaveCounts(p) \/ ReplaceCounts(p) \/ ReplaceDeletes(p) \/ Deletes(p)
      BY <3>3, AtMoved DEF SaveCounts, ReplaceCounts, ReplaceDeletes, Deletes, Holds
    <3>4. CASE Updates(p) \/ SetsSetting(p) \/ Inserts(p) \/ SavesMemory(p)
      BY <3>4, AtMoved DEF Updates, SetsSetting, Inserts, SavesMemory, Refused, Holds
    <3>5. CASE Commit(p) \/ Rollback(p)
      BY <3>5 DEF Commit, Rollback, Commits, RollsBack
    <3>6. CASE Cancelled(p)
      BY <3>6 DEF Cancelled
    <3>. QED BY <1>1, <3>1, <3>2, <3>3, <3>4, <3>5, <3>6 DEF Step
  <2>. QED BY <2>4, <2>5, <2>6
<1>2. ASSUME NEW p \in Ops, NEW kind \in Kinds, NEW s \in Sessions, Starts(p, kind, s)
      PROVE  OpenIsHeld'
  <2>1. ~ Holds(p) /\ \A q \in Ops \ {p} : op'[q] = op[q]
    BY <1>2 DEF Starts, Holds, NoOp, TypeOK
  <2>. QED BY <1>2, <2>1 DEF OpenIsHeld, Starts, Holds
<1>3. CASE Crash
  BY <1>3 DEF Crash, OpenIsHeld
<1>4. CASE UNCHANGED vars
  BY <1>4 DEF vars, OpenIsHeld, Holds
<1>. QED BY <1>1, <1>2, <1>3, <1>4 DEF Next

(* Operations that return close what they opened: with no operation under    *)
(* way, a transaction is open only after a cancellation or a refused       *)
(* statement (provider_store.py:171), and then and only then something     *)
(* waits for the COMMIT of whoever writes next.                            *)
THEOREM ConnectionIsFreed == Spec => []ConnectionFreed
<1>1. Init => OpenIsHeld
  BY DEF Init, OpenIsHeld
<1>2. TypeOK /\ OpenIsHeld => ConnectionFreed
  BY DEF TypeOK, OpenIsHeld, Holds, ConnectionFreed, UnderWay, Over
<1>3. Spec => []OpenIsHeld
  BY <1>1, OpenStep, ConnectionTypeCorrect, PTL DEF Spec
<1>. QED BY <1>2, <1>3, ConnectionTypeCorrect, PTL

-----------------------------------------------------------------------------
(* The number of messages                                                  *)

\* What CountsRight excepts.
Disturbed ==
    \/ undone # {}
    \/ \E p \in Ops : op[p].kind = "replace" \/ (op[p].kind = "save" /\ op[p].at = "cancelled")

\* The messages that are not yet counted, in work and on disk.
Uncounted == {p \in Ops : op[p].at = "count"}
UncountedOnDisk == {p \in Ops : op[p].at = "count" \/ (op[p].at = "commit" /\ p \in unsaved)}

Counted(db, half) == \A s \in db.there : db.count[s] = Cardinality(db.messages[s] \ half)

\* The messages are those of saves that have inserted them.
SavesIn(db) ==
    \A s \in Sessions : \A p \in db.messages[s] :
        op[p].kind = "save" /\ op[p].on = s /\ op[p].at \in {"count", "commit", "ok"}

CountOK ==
    /\ SavesIn(work) /\ Counted(work, Uncounted)
    /\ SavesIn(disk) /\ Counted(disk, UncountedOnDisk)

CountInv == ~ Disturbed => CountOK

LEMMA DisturbedStays ==
    ASSUME TypeOK, Next, Disturbed
    PROVE  Disturbed'
<1>1. ASSUME NEW p \in Ops, Step(p) \/ Cancelled(p) PROVE Disturbed'
  <2>1. op[p].at # "none" /\ \E at \in States : GoTo(p, at)
    BY <1>1, StepShape
  <2>2. op'[p].kind = op[p].kind /\ \A q \in Ops \ {p} : op'[q] = op[q]
    BY <2>1, GoToMoves DEF TypeOK
  <2>3. undone \subseteq undone'
    BY <1>1 DEF Step, Cancelled, SaveBegins, SaveInserts, SaveCounts, Updates, SetsSetting,
       Inserts, SavesMemory, Deletes, ReplaceBegins, ReplaceDeletes, ReplaceInserts,
       ReplaceCounts, Commit, Rollback, Writes, Refused, Commits, RollsBack
  <2>4. op[p].at # "cancelled"
    BY <1>1 DEF Step, Cancelled, SaveBegins, SaveInserts, SaveCounts, Updates, SetsSetting,
       Inserts, SavesMemory, Deletes, ReplaceBegins, ReplaceDeletes, ReplaceInserts,
       ReplaceCounts, Commit, Rollback
  <2>. QED BY <2>2, <2>3, <2>4 DEF Disturbed
<1>2. ASSUME NEW p \in Ops, NEW kind \in Kinds, NEW s \in Sessions, Starts(p, kind, s)
      PROVE  Disturbed'
  <2>1. op[p].kind = "none" /\ (\A q \in Ops \ {p} : op'[q] = op[q]) /\ undone' = undone
    BY <1>2 DEF Starts, NoOp, TypeOK
  <2>. QED BY <2>1 DEF Disturbed
<1>3. CASE Crash
  <2>1. \A q \in Ops : \/ op'[q] = op[q]
                       \/ op'[q].at = "cancelled" /\ op'[q].kind = op[q].kind
    <3>1. \A q \in Ops : op[q] = [kind |-> op[q].kind, on |-> op[q].on, at |-> op[q].at,
                                  ids |-> op[q].ids]
      BY DEF TypeOK, OpRecord, NoOp
    <3>. QED BY <1>3, <3>1 DEF Crash
  <2>. QED BY <1>3, <2>1 DEF Crash, Disturbed
<1>. QED BY <1>1, <1>2, <1>3 DEF Next

\* The databases agree on what is counted.
LEMMA CountedSame ==
    ASSUME NEW db, NEW half, NEW db2, NEW half2, Counted(db, half), db2.there \subseteq db.there,
           \A s \in db2.there : /\ db2.count[s] = db.count[s]
                                /\ db2.messages[s] \ half2 = db.messages[s] \ half
    PROVE  Counted(db2, half2)
BY DEF Counted

\* Steps of an operation that has no message yet, or is no save: they take away
\* messages with their session, at most.
LEMMA CountElsewhere ==
    ASSUME TypeOK, CountOK, NEW p \in Ops, op[p].kind = "save" => op[p].at \in {"begin", "message"},
           \A q \in Ops \ {p} : op'[q] = op[q],
           unsaved' \ {p} = unsaved \ {p},
           work'.there \subseteq work.there, disk' = disk,
           \A s \in Sessions : work'.messages[s] \subseteq work.messages[s],
           \A s \in work'.there : /\ work'.count[s] = work.count[s]
                                  /\ work'.messages[s] = work.messages[s]
    PROVE  CountOK'
<1>1. /\ work.there \subseteq Sessions /\ disk.there \subseteq Sessions
      /\ \A s \in Sessions : work.messages[s] \subseteq Ops /\ disk.messages[s] \subseteq Ops
  BY DEF TypeOK, Database
<1>2. \A s \in Sessions : p \notin work.messages[s] /\ p \notin disk.messages[s]
  BY DEF CountOK, SavesIn
<1>3. SavesIn(work)' /\ SavesIn(disk)'
  BY <1>1, <1>2 DEF CountOK, SavesIn
<1>4. \A s \in work'.there : work'.messages[s] \ Uncounted' = work.messages[s] \ Uncounted
  BY <1>1, <1>2 DEF Uncounted
<1>5. \A s \in disk.there : disk.messages[s] \ UncountedOnDisk'
                              = disk.messages[s] \ UncountedOnDisk
  BY <1>1, <1>2 DEF UncountedOnDisk
<1>6. Counted(work, Uncounted)'
  BY <1>4, CountedSame DEF CountOK
<1>7. Counted(disk, UncountedOnDisk)'
  BY <1>5, CountedSame DEF CountOK
<1>. QED BY <1>3, <1>6, <1>7 DEF CountOK

\* The INSERT of a save: a message that is not counted.
LEMMA CountInserted ==
    ASSUME TypeOK, CountOK, NEW p \in Ops, SaveInserts(p), op[p].on \in work.there
    PROVE  CountOK'
<1>. DEFINE s == op[p].on
<1>1. /\ work.there \subseteq Sessions /\ disk.there \subseteq Sessions
      /\ \A t \in Sessions : work.messages[t] \subseteq Ops /\ disk.messages[t] \subseteq Ops
      /\ work \in Database
  BY DEF TypeOK, Database
<1>2. \A t \in Sessions : p \notin work.messages[t] /\ p \notin disk.messages[t]
  BY DEF CountOK, SavesIn, SaveInserts
<1>3. op[p].at # "none" /\ GoTo(p, "count") /\ "count" \in States
  BY DEF SaveInserts, States
<1>4. /\ op'[p].at = "count" /\ op'[p].kind = "save" /\ op'[p].on = s
      /\ \A q \in Ops \ {p} : op'[q] = op[q]
  BY <1>3, GoToMoves DEF SaveInserts, TypeOK
<1>5. /\ work'.there = work.there /\ work'.count = work.count
      /\ work'.messages[s] = work.messages[s] \cup {p}
      /\ \A t \in Sessions \ {s} : work'.messages[t] = work.messages[t]
      /\ disk' = disk /\ unsaved' = unsaved \cup {p}
  BY <1>1 DEF SaveInserts, Writes, Database
<1>6. SavesIn(work)' /\ SavesIn(disk)'
  BY <1>1, <1>2, <1>4, <1>5 DEF CountOK, SavesIn
<1>7. \A t \in work'.there : work'.messages[t] \ Uncounted' = work.messages[t] \ Uncounted
  BY <1>1, <1>2, <1>4, <1>5 DEF Uncounted
<1>8. \A t \in disk.there : disk.messages[t] \ UncountedOnDisk'
                              = disk.messages[t] \ UncountedOnDisk
  BY <1>1, <1>2, <1>4, <1>5 DEF UncountedOnDisk
<1>9. Counted(work, Uncounted)'
  BY <1>5, <1>7, CountedSame DEF CountOK
<1>10. Counted(disk, UncountedOnDisk)'
  BY <1>5, <1>8, CountedSame DEF CountOK
<1>. QED BY <1>6, <1>9, <1>10 DEF CountOK

\* Its UPDATE counts that message, which is there if the session is.
LEMMA CountUpdated ==
    ASSUME TypeOK, CountOK, ~ Disturbed, NEW p \in Ops, Acknowledged(p), SaveCounts(p)
    PROVE  CountOK'
<1>. DEFINE s == op[p].on
<1>1. /\ work.there \subseteq Sessions /\ disk.there \subseteq Sessions
      /\ \A t \in Sessions : work.messages[t] \subseteq Ops /\ disk.messages[t] \subseteq Ops
      /\ work.count \in [Sessions -> Int]
      /\ work \in Database
  BY DEF TypeOK, Database
<1>2. op[p].at = "count" /\ op[p].kind = "save" /\ p \in Uncounted /\ s \in Sessions
  BY DEF SaveCounts, Uncounted, TypeOK, OpRecord, NoOp
<1>3. op[p].at # "none" /\ GoTo(p, "commit") /\ "commit" \in States
  BY DEF SaveCounts, States
<1>4. /\ op'[p].at = "commit" /\ op'[p].kind = "save" /\ op'[p].on = s
      /\ \A q \in Ops \ {p} : op'[q] = op[q]
  BY <1>2, <1>3, GoToMoves DEF TypeOK
<1>5. /\ work'.there = work.there /\ work'.messages = work.messages
      /\ disk' = disk /\ unsaved' = unsaved \cup {p}
      /\ \A t \in work.there : work'.count[t] = IF t = s THEN work.count[s] + 1 ELSE work.count[t]
  BY <1>1 DEF SaveCounts, Writes, Database
<1>6. SavesIn(work)' /\ SavesIn(disk)'
  BY <1>1, <1>4, <1>5 DEF CountOK, SavesIn
<1>7. Uncounted' = Uncounted \ {p} /\ UncountedOnDisk' = UncountedOnDisk
  BY <1>2, <1>4, <1>5 DEF Uncounted, UncountedOnDisk
<1>8. \A t \in Sessions \ {s} : p \notin work.messages[t]
  BY DEF CountOK, SavesIn
<1>9. s \in work.there => p \in work.messages[s]
  BY <1>2 DEF Acknowledged, Written, Kept, Disturbed
<1>10. ASSUME NEW t \in work.there
       PROVE  work'.count[t] = Cardinality(work.messages[t] \ (Uncounted \ {p}))
  <2>1. work.count[t] = Cardinality(work.messages[t] \ Uncounted)
    BY DEF CountOK, Counted
  <2>2. CASE t # s
    <3>1. work.messages[t] \ (Uncounted \ {p}) = work.messages[t] \ Uncounted
      BY <1>1, <1>8, <2>2
    <3>. QED BY <1>5, <2>1, <2>2, <3>1
  <2>3. CASE t = s
    <3>. DEFINE C == work.messages[s] \ Uncounted
    <3>1. work.messages[s] \ (Uncounted \ {p}) = C \cup {p} /\ p \notin C
      BY <1>2, <1>9, <2>3
    <3>2. IsFiniteSet(C)
      BY <1>1, <1>2, FS_Subset
    <3>3. Cardinality(C \cup {p}) = Cardinality(C) + 1
      BY <3>1, <3>2, FS_AddElement
    <3>. QED BY <1>5, <2>1, <2>3, <3>1, <3>3
  <2>. QED BY <2>2, <2>3
<1>11. Counted(work, Uncounted)'
  BY <1>5, <1>7, <1>10 DEF Counted
<1>12. Counted(disk, UncountedOnDisk)'
  BY <1>5, <1>7 DEF CountOK, Counted
<1>. QED BY <1>6, <1>11, <1>12 DEF CountOK

\* A COMMIT puts on disk what others have not counted yet.
LEMMA CountCommitted ==
    ASSUME TypeOK, CountOK, NEW p \in Ops, Commit(p)
    PROVE  CountOK'
<1>1. /\ work.there \subseteq Sessions
      /\ \A t \in Sessions : work.messages[t] \subseteq Ops
  BY DEF TypeOK, Database
<1>2. PICK at \in {"ok", "error"} : GoTo(p, at) /\ (at = "error" => op[p].at = "missing")
  BY DEF Commit
<1>3. /\ op'[p].at \in {"ok", "error"} /\ (op'[p].at = "error" => op[p].at = "missing")
      /\ op'[p].kind = op[p].kind /\ op'[p].on = op[p].on
      /\ \A q \in Ops \ {p} : op'[q] = op[q]
      /\ op[p].at \in {"commit", "missing"}
  BY <1>2, GoToMoves DEF Commit, TypeOK, States
<1>4. work' = work /\ disk' = work /\ unsaved' = {}
  BY DEF Commit, Commits
<1>5. SavesIn(work)' /\ SavesIn(disk)'
  BY <1>1, <1>3, <1>4 DEF CountOK, SavesIn
<1>6. Uncounted' = Uncounted /\ UncountedOnDisk' = Uncounted
  BY <1>3, <1>4 DEF Uncounted, UncountedOnDisk
<1>. QED BY <1>4, <1>5, <1>6 DEF CountOK, Counted

\* A ROLLBACK that undoes nothing of others: what is on disk is counted.
LEMMA CountRolledBack ==
    ASSUME TypeOK, CountOK, NEW p \in Ops, Rollback(p), undone' = {}
    PROVE  CountOK'
<1>1. /\ disk.there \subseteq Sessions
      /\ \A t \in Sessions : disk.messages[t] \subseteq Ops
  BY DEF TypeOK, Database
<1>2. /\ op'[p].at = "error" /\ op[p].at = "rollback"
      /\ \A q \in Ops \ {p} : op'[q] = op[q]
  <2>1. op[p].at # "none" /\ "error" \in States /\ GoTo(p, "error") /\ op[p].at = "rollback"
    BY DEF Rollback, States
  <2>. QED BY <2>1, GoToMoves DEF TypeOK
<1>3. work' = disk /\ disk' = disk /\ unsaved' = {} /\ unsaved \subseteq {p}
  BY DEF Rollback, RollsBack
<1>4. \A t \in Sessions : p \notin disk.messages[t]
  BY <1>2 DEF CountOK, SavesIn
<1>5. SavesIn(work)' /\ SavesIn(disk)'
  BY <1>1, <1>2, <1>3, <1>4 DEF CountOK, SavesIn
<1>6. Uncounted' = UncountedOnDisk /\ UncountedOnDisk' = UncountedOnDisk
  BY <1>2, <1>3 DEF Uncounted, UncountedOnDisk
<1>. QED BY <1>3, <1>5, <1>6 DEF CountOK, Counted

LEMMA CountStep == TypeOK /\ AckInv /\ CountInv /\ [Next]_vars => CountInv'
<1>. SUFFICES ASSUME TypeOK, AckInv, CountInv, [Next]_vars, ~ Disturbed' PROVE CountOK'
  BY DEF CountInv
<1>0. CASE UNCHANGED vars
  <2>1. UNCHANGED <<work, disk, op, unsaved, undone>>
    BY <1>0 DEF vars
  <2>2. UNCHANGED <<Disturbed, Uncounted, UncountedOnDisk>>
    BY <2>1 DEF Disturbed, Uncounted, UncountedOnDisk
  <2>3. CountOK
    BY <2>2 DEF CountInv
  <2>. QED BY <2>1, <2>2, <2>3 DEF CountOK, SavesIn, Counted
<1>. SUFFICES ASSUME Next PROVE CountOK'
  BY <1>0
<1>1. CountOK /\ ~ Disturbed
  BY DisturbedStays DEF CountInv
<1>2. ASSUME NEW p \in Ops, Step(p) \/ Cancelled(p) PROVE CountOK'
  <2>1. op[p].at # "none" /\ \E at \in States : GoTo(p, at)
    BY <1>2, StepShape
  <2>2. op'[p].kind = op[p].kind /\ \A q \in Ops \ {p} : op'[q] = op[q]
    BY <2>1, GoToMoves DEF TypeOK
  <2>3. op[p].kind # "replace" /\ op[p].on \in Sessions /\ work \in Database
    BY <1>1, <2>1 DEF Disturbed, TypeOK, OpRecord, NoOp
  <2>4. CASE SaveInserts(p) /\ op[p].on \in work.there
    BY <1>1, <2>4, CountInserted
  <2>5. CASE SaveCounts(p)
    BY <1>1, <2>5, CountUpdated DEF AckInv
  <2>6. CASE Commit(p)
    BY <1>1, <2>6, CountCommitted
  <2>7. CASE Rollback(p)
    BY <1>1, <2>7, CountRolledBack DEF Disturbed
  <2>8. CASE SaveBegins(p) \/ (SaveInserts(p) /\ op[p].on \notin work.there)
    BY <1>1, <2>2, <2>8, CountElsewhere DEF SaveBegins, SaveInserts
  <2>9. CASE Updates(p) \/ SetsSetting(p) \/ Inserts(p) \/ SavesMemory(p) \/ Deletes(p)
    <3>1. op[p].kind # "save" /\ disk' = disk /\ unsaved' \ {p} = unsaved \ {p}
      BY <2>9 DEF Updates, SetsSetting, Inserts, SavesMemory, Deletes, Writes, Refused
    <3>2. /\ work'.there \subseteq work.there
          /\ \A s \in Sessions : work'.messages[s] \subseteq work.messages[s]
          /\ \A s \in work'.there : /\ work'.count[s] = work.count[s]
                                    /\ work'.messages[s] = work.messages[s]
      <4>1. CASE Deletes(p)
        <5>1. work.messages \in [Sessions -> SUBSET Ops] /\ work.count \in [Sessions -> Int]
              /\ work.there \subseteq Sessions
          BY <2>3 DEF Database
        <5>2. /\ work'.there = work.there \ {op[p].on}
              /\ work'.messages = [work.messages EXCEPT ![op[p].on] = {}]
              /\ work'.count = [work.count EXCEPT ![op[p].on] = 0]
          BY <2>3, <4>1 DEF Deletes, Writes, Database
        <5>. QED BY <5>1, <5>2
      <4>2. CASE ~ Deletes(p)
        <5>1. work' = work \/ work' = [work EXCEPT !.rows = @ \cup {p}]
          BY <2>9, <4>2 DEF Updates, SetsSetting, Inserts, SavesMemory, Writes, Refused
        <5>2. work'.there = work.there /\ work'.messages = work.messages
              /\ work'.count = work.count
          BY <2>3, <5>1 DEF Database
        <5>. QED BY <5>2
      <4>. QED BY <4>1, <4>2
    <3>. QED BY <1>1, <2>2, <3>1, <3>2, CountElsewhere
  <2>10. CASE Cancelled(p)
    <3>1. op'[p].at = "cancelled"
      BY <2>10, AtMoved DEF Cancelled
    <3>2. op[p].kind # "save"
      BY <2>2, <3>1 DEF Disturbed
    <3>. QED BY <1>1, <2>2, <2>10, <3>2, CountElsewhere DEF Cancelled
  <2>11. ~ (ReplaceBegins(p) \/ ReplaceDeletes(p) \/ ReplaceInserts(p) \/ ReplaceCounts(p))
    BY <2>3 DEF ReplaceBegins, ReplaceDeletes, ReplaceInserts, ReplaceCounts
  <2>. QED BY <1>2, <2>4, <2>5, <2>6, <2>7, <2>8, <2>9, <2>10, <2>11 DEF Step
<1>3. ASSUME NEW p \in Ops, NEW kind \in Kinds, NEW s \in Sessions, Starts(p, kind, s)
      PROVE  CountOK'
  <2>1. op[p].kind = "none" /\ \A q \in Ops \ {p} : op'[q] = op[q]
    BY <1>3 DEF Starts, NoOp, TypeOK
  <2>. QED BY <1>1, <1>3, <2>1, CountElsewhere DEF Starts
<1>4. CASE Crash
  <2>1. \A q \in Ops : /\ op'[q].kind = op[q].kind /\ op'[q].on = op[q].on
                       /\ op'[q].at = IF q \in UnderWay THEN "cancelled" ELSE op[q].at
    <3>1. \A q \in Ops : op[q] = [kind |-> op[q].kind, on |-> op[q].on, at |-> op[q].at,
                                  ids |-> op[q].ids]
      BY DEF TypeOK, OpRecord, NoOp
    <3>. QED BY <1>4, <3>1 DEF Crash
  <2>2. \A q \in Ops : op[q].kind = "save" => q \notin UnderWay
    BY <2>1 DEF Disturbed
  <2>3. \A t \in Sessions : disk.messages[t] \subseteq Ops
    BY DEF TypeOK, Database
  <2>4. \A t \in Sessions : \A q \in disk.messages[t] : op[q].at = "ok" /\ op'[q].at = "ok"
    BY <1>1, <2>1, <2>2, <2>3 DEF CountOK, SavesIn, UnderWay, Over
  <2>5. work' = disk /\ disk' = disk
    BY <1>4 DEF Crash
  <2>6. SavesIn(work)' /\ SavesIn(disk)'
    BY <1>1, <2>1, <2>3, <2>4, <2>5 DEF CountOK, SavesIn
  <2>7. \A t \in Sessions : /\ disk.messages[t] \ UncountedOnDisk = disk.messages[t]
                            /\ disk.messages[t] \ UncountedOnDisk' = disk.messages[t]
                            /\ disk.messages[t] \ Uncounted' = disk.messages[t]
    BY <2>4 DEF Uncounted, UncountedOnDisk
  <2>8. disk.there \subseteq Sessions
    BY DEF TypeOK, Database
  <2>. QED BY <1>1, <2>5, <2>6, <2>7, <2>8 DEF CountOK, Counted
<1>. QED BY <1>2, <1>3, <1>4 DEF Next

(* message_count is right when nothing is under way, although the COMMIT of  *)
(* anybody makes half of a save durable: each message that is in a database *)
(* and not in its count is that of a save whose UPDATE is still to come, or *)
(* on disk whose UPDATE is in the open transaction, and only a rollback or  *)
(* a kill, which the property excepts, can part the two.                    *)
THEOREM CountsStayRight == Spec => []CountsRight
<1>1. Init => AckInv
  BY DEF Init, AckInv, Acknowledged, Written, NoOp
<1>2. Init => CountInv
  <2>. SUFFICES ASSUME Init PROVE CountOK
    BY DEF CountInv
  <2>1. \A s \in Sessions : Empty.messages[s] = {} /\ Empty.count[s] = 0
    BY DEF Empty
  <2>2. Empty.there = Sessions
    BY DEF Empty
  <2>3. \A half : {} \ half = {} /\ Cardinality({}) = 0
    BY FS_EmptySet
  <2>. QED BY <2>1, <2>2, <2>3 DEF Init, CountOK, SavesIn, Counted
<1>3. TypeOK /\ CountInv => CountsRight
  <2>. SUFFICES ASSUME TypeOK, CountInv, NEW s \in disk.there, UnderWay = {}, undone = {},
                       \A p \in Ops : ~ (op[p].at = "cancelled"
                                         /\ op[p].kind \in {"save", "replace"}),
                       \A p \in Ops : op[p].kind # "replace"
                PROVE  disk.count[s] = Cardinality(disk.messages[s])
    BY DEF CountsRight
  <2>1. CountOK
    BY DEF CountInv, Disturbed
  <2>2. UncountedOnDisk = {}
    BY DEF UncountedOnDisk, UnderWay, Over
  <2>3. disk.messages[s] \ {} = disk.messages[s]
    OBVIOUS
  <2>. QED BY <2>1, <2>2, <2>3 DEF CountOK, Counted
<1>4. Spec => []AckInv
  BY <1>1, AckStep, ConnectionTypeCorrect, PTL DEF Spec
<1>5. Spec => []CountInv
  BY <1>2, <1>4, CountStep, ConnectionTypeCorrect, PTL DEF Spec
<1>. QED BY <1>3, <1>5, ConnectionTypeCorrect, PTL

=============================================================================
