------------------------ MODULE BackgroundTasksProofs ------------------------
(***************************************************************************)
(* Titles, compressions and memories, for any sessions and tasks.          *)
(***************************************************************************)
EXTENDS BackgroundTasks, FiniteSetTheorems, WellFoundedInduction, TLAPS

-----------------------------------------------------------------------------
(* Titles.                                                                 *)

\* A task that has read its session when it had as many user messages as now has a
\* title to write that is due, or there is one that was given for just as many.
Due(t) ==
    t.at \notin {"free", "row", "rename"} =>
        /\ t.users <= row[t.of].users
        /\ t.users = row[t.of].users =>
              TitleDue(row[t.of]) \/ row[t.of].at = row[t.of].users

TitleInv ==
    /\ row \in [Sessions -> Rows]
    /\ TitleTypeOK
    /\ \A i \in TitleSlots : Due(titling[i])

\* What TitleSpacing says of a step and the task in one slot.
Spaced(i) ==
    LET t == titling[i]
        r == row[t.of]
    IN  t.at = "write" /\ titling'[i] = NoTitling /\ row'[t.of] # r =>
          /\ row'[t.of].at = r.users
          /\ t.first => r.title = "none"
          /\ TitleDue(r) \/ r.at = r.users

\* A step that leaves the titles of the sessions alone and their numbers, but for new
\* user messages.
Counted ==
    /\ row' \in [Sessions -> Rows]
    /\ \A s \in Sessions :
          /\ row'[s].title = row[s].title /\ row'[s].at = row[s].at
          /\ row'[s].users >= row[s].users

LEMMA CountedDue ==
    ASSUME TitleInv, Counted, NEW i \in TitleSlots, titling'[i] = titling[i]
    PROVE  Due(titling[i])' /\ Spaced(i)
<1>1. titling[i] = NoTitling \/ (titling[i].of \in Sessions /\ titling[i].users \in Nat)
  BY DEF TitleInv, TitleTypeOK, Titling
<1>2. ASSUME titling[i] = NoTitling PROVE Due(titling[i])'
  BY <1>2 DEF Due, NoTitling
<1>3. ASSUME titling[i].of \in Sessions, titling[i].users \in Nat PROVE Due(titling[i])'
  <2>. DEFINE s == titling[i].of
  <2>1. /\ row[s].users \in Nat /\ row'[s].users \in Nat
        /\ row'[s].users >= row[s].users
        /\ row'[s].title = row[s].title /\ row'[s].at = row[s].at
    BY <1>3 DEF TitleInv, Counted, Rows
  <2>2. Due(titling[i])
    BY DEF TitleInv
  <2>3. titling[i].at \notin {"free", "row", "rename"} =>
           /\ titling[i].users <= row'[s].users
           /\ titling[i].users = row'[s].users => row'[s].users = row[s].users
    BY <1>3, <2>1, <2>2 DEF Due
  <2>4. row'[s].users = row[s].users =>
           (TitleDue(row[s]) \/ row[s].at = row[s].users =>
               TitleDue(row'[s]) \/ row'[s].at = row'[s].users)
    BY <2>1 DEF TitleDue
  <2>. QED BY <2>2, <2>3, <2>4 DEF Due, TitleDue
<1>4. Spaced(i)
  BY DEF Spaced, NoTitling
<1>. QED BY <1>1, <1>2, <1>3, <1>4

LEMMA CountedKeeps ==
    ASSUME TitleInv, Counted, UNCHANGED titling
    PROVE  TitleInv' /\ \A i \in TitleSlots : Spaced(i)
<1>1. \A i \in TitleSlots : Due(titling[i])' /\ Spaced(i)
  BY CountedDue
<1>. QED BY <1>1 DEF TitleInv, Counted, TitleTypeOK

\* A step of a title task or a rename that leaves the sessions alone.
LEMMA TaskKeeps ==
    ASSUME TitleInv, NEW i \in TitleSlots, NEW STATE t, UNCHANGED row,
           titling' = [titling EXCEPT ![i] = t], t \in Titling, Due(t)
    PROVE  TitleInv' /\ \A j \in TitleSlots : Spaced(j)
<1>1. titling' \in [TitleSlots -> Titling] /\ titling'[i] = t
      /\ \A j \in TitleSlots \ {i} : titling'[j] = titling[j]
  BY DEF TitleInv, TitleTypeOK
<1>2. ASSUME NEW j \in TitleSlots PROVE Due(titling[j])'
  <2>1. titling'[j] = t \/ titling'[j] = titling[j]
    BY <1>1
  <2>2. Due(titling'[j])
    BY <2>1 DEF TitleInv
  <2>. QED BY <2>2 DEF Due, TitleDue
<1>3. ASSUME NEW j \in TitleSlots PROVE Spaced(j)
  BY DEF Spaced
<1>. QED BY <1>1, <1>2, <1>3 DEF TitleInv, TitleTypeOK

\* A title is given, by a task or by the user: for the user messages there are.
LEMMA WritesKeeps ==
    ASSUME TitleInv, NEW i \in TitleSlots, NEW author \in {"task", "user"},
           Writes(i, author), titling[i] \in Titling, titling[i].at \in {"write", "rename"},
           row' # row
    PROVE  TitleInv' /\ (titling[i].at = "write" => \A j \in TitleSlots : Spaced(j))
<1>. DEFINE t == titling[i]
            r == row[t.of]
<1>1. /\ t \in [at : {"row", "messages", "model", "fallback", "write", "rename"}, of : Sessions,
                users : Nat, first : BOOLEAN]
      /\ r \in Rows /\ Due(t)
  BY DEF Titling, NoTitling, TitleInv
<1>2. /\ r.users = t.users /\ Titled(t.of) = ~ t.first /\ TitleEnds(i)
      /\ row' = [row EXCEPT ![t.of].title = author, ![t.of].at = t.users]
  BY DEF Writes, GivesTitle, TitleLocks, SetTitle
<1>3. /\ row' \in [Sessions -> Rows]
      /\ \A s \in Sessions \ {t.of} : row'[s] = row[s]
      /\ row'[t.of].at = t.users /\ row'[t.of].users = r.users
  BY <1>1, <1>2 DEF TitleInv, Rows
<1>4. /\ titling' \in [TitleSlots -> Titling] /\ titling'[i] = NoTitling
      /\ \A j \in TitleSlots \ {i} : titling'[j] = titling[j]
  BY <1>2 DEF TitleEnds, TitleInv, TitleTypeOK, Titling
<1>5. ASSUME NEW j \in TitleSlots PROVE Due(titling[j])'
  <2>1. CASE j = i
    BY <1>4, <2>1 DEF Due, NoTitling
  <2>2. CASE j # i /\ titling[j].of # t.of
    <3>1. Due(titling[j]) /\ titling[j] \in Titling /\ titling'[j] = titling[j]
      BY <1>4, <2>2 DEF TitleInv, TitleTypeOK
    <3>2. CASE titling[j] = NoTitling
      BY <3>1, <3>2 DEF Due, NoTitling
    <3>3. CASE titling[j] # NoTitling
      <4>1. row'[titling[j].of] = row[titling[j].of]
        BY <1>3, <2>2, <3>1, <3>3 DEF Titling
      <4>. QED BY <3>1, <4>1 DEF Due, TitleDue
    <3>. QED BY <3>2, <3>3
  <2>3. CASE j # i /\ titling[j].of = t.of
    <3>1. Due(titling[j]) /\ titling'[j] = titling[j]
      BY <1>4, <2>3 DEF TitleInv
    <3>. QED BY <1>2, <1>3, <2>3, <3>1 DEF Due
  <2>. QED BY <2>1, <2>2, <2>3
<1>6. ASSUME NEW j \in TitleSlots, t.at = "write" PROVE Spaced(j)
  <2>1. CASE j # i
    BY <1>4, <2>1 DEF Spaced, NoTitling
  <2>2. CASE j = i
    <3>1. t.first => r.title = "none"
      BY <1>2 DEF Titled
    <3>2. TitleDue(r) \/ r.at = r.users
      BY <1>1, <1>2, <1>6 DEF Due
    <3>. QED BY <1>2, <1>3, <2>2, <3>1, <3>2 DEF Spaced
  <2>. QED BY <2>1, <2>2
<1>. QED BY <1>3, <1>4, <1>5, <1>6 DEF TitleInv, TitleTypeOK

LEMMA TitleStepKeeps ==
    ASSUME TitleInv, NEW i \in TitleSlots, TitleStep(i)
    PROVE  TitleInv' /\ \A j \in TitleSlots : Spaced(j)
<1>. DEFINE t == titling[i]
            r == row[t.of]
<1>1. t \in Titling /\ t.at # "free" /\ Due(t)
  BY DEF TitleInv, TitleTypeOK, TitleStep, TitleReadsRow, TitleReadsMessages, TitleAsks,
         TitleCuts, TitleWrites, RenameWrites, NoTitling
<1>2. /\ t \in [at : {"row", "messages", "model", "fallback", "write", "rename"}, of : Sessions,
                users : Nat, first : BOOLEAN]
      /\ r \in Rows
  BY <1>1 DEF Titling, NoTitling, TitleInv
<1>3. NoTitling \in Titling /\ Due(NoTitling)
  BY DEF Titling, NoTitling, Due
<1>4. CASE TitleEnds(i) /\ UNCHANGED row
  BY <1>3, <1>4, TaskKeeps DEF TitleEnds
<1>5. CASE TitleReadsRow(i) /\ ~ TitleEnds(i)
  <2>. DEFINE at == IF r.title = "none" THEN "messages" ELSE "model"
              new == [t EXCEPT !.users = r.users, !.first = (r.title = "none"), !.at = at]
  <2>1. /\ r.title = "none" \/ r.users - r.at >= TitleEvery
        /\ titling' = [titling EXCEPT ![i] = new] /\ row' = row
    BY <1>5 DEF TitleReadsRow, TitleInv, TitleTypeOK, conversationVars
  <2>2. new \in Titling /\ new.users = r.users /\ new.of = t.of
    BY <1>2 DEF Titling, Rows
  <2>3. r.users \in Nat
    BY <1>2 DEF Rows
  <2>. HIDE DEF new
  <2>4. Due(new)
    BY <2>1, <2>2, <2>3 DEF Due, TitleDue
  <2>. QED BY <2>1, <2>2, <2>4, TaskKeeps
<1>6. CASE (TitleReadsMessages(i) \/ TitleAsks(i) \/ TitleCuts(i)) /\ ~ TitleEnds(i)
  <2>1. PICK at \in {"model", "write", "fallback"} : TitleGoes(i, at) /\ UNCHANGED row
    BY <1>6 DEF TitleReadsMessages, TitleAsks, TitleCuts, conversationVars
  <2>. DEFINE new == [t EXCEPT !.at = at]
  <2>2. titling' = [titling EXCEPT ![i] = new]
    BY <2>1 DEF TitleGoes, TitleInv, TitleTypeOK
  <2>3. new \in Titling /\ new.users = t.users /\ new.of = t.of
    BY <1>2 DEF Titling
  <2>4. t.at \notin {"free", "row", "rename"}
    BY <1>6 DEF TitleReadsMessages, TitleAsks, TitleCuts
  <2>5. Due(new)
    BY <1>1, <2>3, <2>4 DEF Due
  <2>. HIDE DEF new
  <2>. QED BY <2>1, <2>2, <2>3, <2>5, TaskKeeps
<1>7. CASE TitleWrites(i) /\ row' # row
  BY <1>1, <1>7, WritesKeeps DEF TitleWrites
<1>8. CASE RenameWrites(i) /\ row' # row
  <2>1. TitleInv' /\ t.at = "rename" /\ TitleEnds(i)
    BY <1>1, <1>8, WritesKeeps DEF RenameWrites, Writes
  <2>2. ASSUME NEW j \in TitleSlots PROVE Spaced(j)
    <3>1. j = i \/ titling'[j] = titling[j]
      BY <2>1 DEF TitleEnds, TitleInv, TitleTypeOK
    <3>. QED BY <2>1, <3>1 DEF Spaced, NoTitling
  <2>. QED BY <2>1, <2>2
<1>9. CASE (TitleWrites(i) \/ RenameWrites(i)) /\ row' = row
  BY <1>4, <1>9 DEF TitleWrites, RenameWrites, Writes
<1>. QED BY <1>4, <1>5, <1>6, <1>7, <1>8, <1>9
     DEF TitleStep, TitleReadsRow, TitleReadsMessages, TitleAsks, TitleCuts, conversationVars

\* A task is submitted, or the user begins a rename.
LEMMA SubmitKeeps ==
    ASSUME TitleInv, NEW s \in Sessions, NEW at \in {"row", "rename"}, NEW users \in Nat,
           NEW first \in BOOLEAN, TitleBegins(s, at, users, first), Counted
    PROVE  TitleInv' /\ \A i \in TitleSlots : Spaced(i)
<1>. DEFINE new == [at |-> at, of |-> s, users |-> users, first |-> first]
<1>1. PICK free \in TitleSlots : /\ titling' = [titling EXCEPT ![free] = new]
                                /\ titling[free] = NoTitling
  BY DEF TitleBegins, TitleFree
<1>2. new \in Titling /\ new.at \in {"row", "rename"}
  BY DEF Titling
<1>. HIDE DEF new
<1>3. titling' \in [TitleSlots -> Titling] /\ titling'[free] = new
      /\ \A i \in TitleSlots \ {free} : titling'[i] = titling[i]
  BY <1>1, <1>2 DEF TitleInv, TitleTypeOK
<1>4. \A i \in TitleSlots \ {free} : Due(titling[i])' /\ Spaced(i)
  BY <1>3, CountedDue
<1>5. Due(titling[free])' /\ Spaced(free)
  BY <1>1, <1>2, <1>3 DEF Due, Spaced, NoTitling
<1>6. \A i \in TitleSlots : Due(titling[i])' /\ Spaced(i)
  BY <1>4, <1>5
<1>. QED BY <1>3, <1>6 DEF TitleInv, TitleTypeOK, Counted

-----------------------------------------------------------------------------
(* The requests.                                                           *)

\* What becomes of the row of s; the others stay.
LEMMA OneRow ==
    ASSUME row \in [Sessions -> Rows], NEW s \in Sessions, NEW STATE r, r \in Rows,
           row' = [row EXCEPT ![s] = r], r.title = row[s].title, r.at = row[s].at,
           r.users >= row[s].users
    PROVE  Counted
<1>1. row' \in [Sessions -> Rows] /\ row'[s] = r /\ \A k \in Sessions \ {s} : row'[k] = row[k]
  OBVIOUS
<1>2. \A k \in Sessions : row[k].users \in Nat
  BY DEF Rows
<1>. QED BY <1>1, <1>2 DEF Counted

LEMMA SaveCounts ==
    ASSUME row \in [Sessions -> Rows], NEW s \in Sessions, NEW role, Save(s, role)
    PROVE  Counted
<1>. DEFINE n == IF role = "user" THEN row[s].users + 1 ELSE row[s].users
            b == role = "user"
            r == [row[s] EXCEPT !.users = n, !.busy = b]
<1>1. row' = [row EXCEPT ![s] = r]
  BY DEF Save, Rows
<1>2. row[s] \in [there : BOOLEAN, archived : BOOLEAN, users : Nat,
                title : {"none", "task", "user"}, at : Nat, busy : BOOLEAN]
  BY DEF Rows
<1>. b \in BOOLEAN /\ n \in Nat /\ n >= row[s].users
  BY <1>2
<1>. HIDE DEF n, b
<1>3. r \in [there : BOOLEAN, archived : BOOLEAN, users : Nat,
                title : {"none", "task", "user"}, at : Nat, busy : BOOLEAN]
  BY <1>2
<1>4. r.title = row[s].title /\ r.at = row[s].at /\ r.users >= row[s].users
  BY <1>2
<1>. HIDE DEF r
<1>. QED BY <1>1, <1>3, <1>4, OneRow DEF Rows

LEMMA FlagsCount ==
    ASSUME row \in [Sessions -> Rows], NEW s \in Sessions,
           \/ AnswerFails(s) \/ Unarchive(s) \/ DeleteSession(s)
           \/ row' = [row EXCEPT ![s].archived = TRUE]
    PROVE  Counted
<1>1. PICK r \in {[row[s] EXCEPT !.busy = FALSE], [row[s] EXCEPT !.archived = FALSE],
                  [row[s] EXCEPT !.there = FALSE], [row[s] EXCEPT !.archived = TRUE]} :
          row' = [row EXCEPT ![s] = r]
  BY DEF AnswerFails, Unarchive, DeleteSession
<1>2. row[s] \in [there : BOOLEAN, archived : BOOLEAN, users : Nat,
                title : {"none", "task", "user"}, at : Nat, busy : BOOLEAN]
  BY DEF Rows
<1>3. r \in [there : BOOLEAN, archived : BOOLEAN, users : Nat,
                title : {"none", "task", "user"}, at : Nat, busy : BOOLEAN]
  BY <1>2
<1>4. r.title = row[s].title /\ r.at = row[s].at /\ r.users >= row[s].users
  BY <1>2
<1>. QED BY <1>1, <1>3, <1>4, OneRow DEF Rows

\* A step of the requests, or of the other tasks.
LEMMA OthersCount ==
    ASSUME row \in [Sessions -> Rows],
           \/ \E s \in Sessions :
                 \/ RequestBegins(s) \/ RequestAnswered(s) \/ RequestFails(s)
                 \/ Archive(s) \/ AutoArchive(s) \/ Reopens(s) \/ Deleted(s)
           \/ UNCHANGED row
    PROVE  Counted
<1>1. CASE UNCHANGED row
  BY <1>1 DEF Counted, Rows
<1>2. ASSUME NEW s \in Sessions, RequestBegins(s) \/ RequestAnswered(s) PROVE Counted
  BY <1>2, SaveCounts DEF RequestBegins, RequestAnswered, Says
<1>3. ASSUME NEW s \in Sessions, \/ RequestFails(s) \/ Archive(s) \/ AutoArchive(s)
                                 \/ Reopens(s) \/ Deleted(s)
      PROVE  Counted
  BY <1>3, FlagsCount DEF RequestFails, Archive, AutoArchive, Reopens, Deleted
<1>. QED BY <1>1, <1>2, <1>3

\* The steps that are not those of a title task.
LEMMA TasksLeaveRows ==
    ASSUME (\E i \in CompressSlots : CompressStep(i)) \/ MemoryStep \/ Trigger
    PROVE  UNCHANGED row
BY DEF CompressStep, CompressReads, CompressAsks, CompressReplaces, MemoryStep,
       ExtractReadsMessages, ExtractReadsMemories, ExtractAsks, ExtractSaves, MergeReads,
       MergeAsks, MergeWrites, DeleteMemory, Trigger, conversationVars

LEMMA TitleNext ==
    ASSUME TitleInv, [Next]_vars
    PROVE  TitleInv' /\ \A i \in TitleSlots : Spaced(i)
<1>. USE DEF TitleInv
<1>1. CASE UNCHANGED vars
  BY <1>1, OthersCount, CountedKeeps DEF Counted, vars, conversationVars, taskVars
<1>2. ASSUME NEW s \in Sessions, RequestAnswered(s)
      PROVE  TitleInv' /\ \A i \in TitleSlots : Spaced(i)
  <2>1. Counted
    BY <1>2, OthersCount
  <2>. QED BY <1>2, <2>1, SubmitKeeps DEF RequestAnswered, SubmitTitle
<1>3. ASSUME NEW s \in Sessions,
             \/ RequestBegins(s) \/ RequestFails(s) \/ Archive(s) \/ AutoArchive(s)
             \/ Reopens(s) \/ Deleted(s)
      PROVE  TitleInv' /\ \A i \in TitleSlots : Spaced(i)
  <2>1. Counted
    BY <1>3, OthersCount
  <2>2. UNCHANGED titling
    BY <1>3 DEF RequestBegins, RequestFails, Archive, AutoArchive, Reopens, Deleted, taskVars
  <2>. QED BY <2>1, <2>2, CountedKeeps
<1>4. CASE \E i \in TitleSlots : TitleStep(i)
  BY <1>4, TitleStepKeeps
<1>5. CASE /\ (\E i \in CompressSlots : CompressStep(i)) \/ MemoryStep \/ Trigger
           /\ UNCHANGED titling
  <2>1. Counted
    BY <1>5, TasksLeaveRows, OthersCount
  <2>. QED BY <1>5, <2>1, CountedKeeps
<1>6. ASSUME NEW s \in Sessions, Renames(s)
      PROVE  TitleInv' /\ \A i \in TitleSlots : Spaced(i)
  <2>1. UNCHANGED row /\ row[s].users \in Nat /\ (~ Titled(s)) \in BOOLEAN
    BY <1>6 DEF Renames, RenameReads, conversationVars, Rows, Titled
  <2>2. Counted
    BY <2>1, OthersCount
  <2>. QED BY <1>6, <2>1, <2>2, SubmitKeeps DEF Renames, RenameReads
<1>. QED BY <1>1, <1>2, <1>3, <1>4, <1>5, <1>6 DEF Next, Tasks, taskVars

LEMMA TitleStarts == Init => TitleInv
BY DEF Init, ConversationInit, TitleInit, TitleInv, TitleTypeOK, Titling, NoTitling, Rows, Due

\* What a title task has read of its session stays true of it until it is outrun.
THEOREM TitleInvariance == Spec => []TitleInv
BY TitleStarts, TitleNext, PTL DEF Spec

\* However many title tasks and renames overlap, a task gives a title for the user
\* messages the session has then; a first one replaces none, and a later one only one
\* that is due for it, or that was given for just as many (session_store.py:698).
THEOREM TitlesAreSpaced == Spec => TitleSpacing
<1>1. ASSUME TitleInv, [Next]_vars
      PROVE  [\A i \in TitleSlots : Spaced(i)]_<<conversationVars, titling>>
  BY <1>1, TitleNext
<1>2. TitleSpacing <=> [][\A i \in TitleSlots : Spaced(i)]_<<conversationVars, titling>>
  BY DEF TitleSpacing, Spaced
<1>. QED BY <1>1, <1>2, TitleInvariance, PTL DEF Spec

-----------------------------------------------------------------------------
(* Compressions.                                                           *)

\* Ids are handed out in order, one to a message.
IdsInv ==
    /\ lastId \in Nat
    /\ \A m \in message : m.id \in 1..lastId
    /\ \A m, k \in message : m.id = k.id => m = k

IsTask(c) ==
    c \in [at : {"read", "model", "replace"}, of : Sessions, ids : {c.ids}, read : {c.read},
           tail : {c.tail}]

\* The messages a compression will delete are among those it has read: no message
\* gets one of the ids afterwards.
ReadsAll(c) ==
    c = NoCompressing \/
    /\ IsTask(c)
    /\ c.ids \subseteq 1..lastId
    /\ c.at # "read" => WithIds(c.ids) \cap History(c.of) \subseteq c.read

ForgetInv ==
    /\ IdsInv
    /\ DOMAIN compressing = CompressSlots
    /\ \A i \in CompressSlots : ReadsAll(compressing[i])
    /\ said = [s \in Sessions |-> said[s]]
    /\ NothingIsForgotten

\* There are no more messages than ids.
LEMMA HistoryFits ==
    ASSUME IdsInv, NEW s
    PROVE  IsFiniteSet(History(s)) /\ Cardinality(History(s)) \in 0..lastId
<1>. DEFINE f == [m \in History(s) |-> m.id]
<1>1. f \in Injection(History(s), 1..lastId)
  BY DEF IdsInv, History, Injection, IsInjective
<1>2. IsFiniteSet(1..lastId) /\ Cardinality(1..lastId) = lastId
  BY FS_Interval DEF IdsInv
<1>. HIDE DEF f
<1>3. IsFiniteSet(History(s)) /\ Cardinality(History(s)) <= lastId
  BY <1>1, <1>2, FS_Injection
<1>. QED BY <1>3, FS_CardinalityType DEF IdsInv

LEMMA ContextFits ==
    ASSUME IdsInv, NEW s
    PROVE  IsFiniteSet(Context(s)) /\ Cardinality(Context(s)) \in 0..lastId
<1>1. Context(s) \in SUBSET History(s)
  BY DEF Context
<1>2. /\ IsFiniteSet(History(s)) /\ Cardinality(History(s)) \in 0..lastId
  BY HistoryFits
<1>3. IsFiniteSet(Context(s)) /\ Cardinality(Context(s)) <= Cardinality(History(s))
  BY <1>1, <1>2, FS_Subset
<1>. QED BY <1>2, <1>3, FS_CardinalityType DEF IdsInv

\* A step that adds no message with an old id does a task no harm.
LEMMA TaskStays ==
    ASSUME lastId \in Nat, lastId' \in Nat, lastId' >= lastId, NEW c, ReadsAll(c),
           \A m \in message' : m \in message \/ m.id \notin 1..lastId
    PROVE  ReadsAll(c)'
BY DEF ReadsAll, IsTask, WithIds, History

\* A message is added, with the next id; others may go.
LEMMA NextId ==
    ASSUME IdsInv, NEW gone, NEW m, m.id = lastId + 1,
           message' = (message \ gone) \cup {m}, lastId' = lastId + 1
    PROVE  IdsInv' /\ \A k \in message' : k \in message \/ k.id \notin 1..lastId
BY DEF IdsInv

\* A message is said.
LEMMA SaysKeeps ==
    ASSUME ForgetInv, row \in [Sessions -> Rows], NEW s \in Sessions, NEW role, Says(s, role)
    PROVE  /\ IdsInv'
           /\ said' = [k \in Sessions |-> said'[k]]
           /\ NothingIsForgotten'
           /\ \A c : ReadsAll(c) => ReadsAll(c)'
<1>. DEFINE new == Said(s, role)
<1>1. /\ message' = (message \ {}) \cup {new} /\ lastId' = lastId + 1
      /\ new.id = lastId + 1 /\ new.of = s /\ new.covers = {lastId + 1}
      /\ said' = [said EXCEPT ![s] = @ \cup {lastId + 1}]
      /\ \A k \in Sessions : row'[k].there = row[k].there
  BY DEF Says, Save, Said, Rows
<1>. HIDE DEF new
<1>2. IdsInv' /\ \A k \in message' : k \in message \/ k.id \notin 1..lastId
  BY <1>1, NextId DEF ForgetInv
<1>3. \A c : ReadsAll(c) => ReadsAll(c)'
  BY <1>1, <1>2, TaskStays DEF ForgetInv, IdsInv
<1>4. NothingIsForgotten'
  <2>1. SUFFICES ASSUME NEW k \in Sessions, row[k].there, NEW id \in said'[k]
                 PROVE  \E m \in message' : m.of = k /\ id \in m.covers
    BY <1>1 DEF NothingIsForgotten, NothingForgotten, History
  <2>2. CASE id \in said[k]
    BY <1>1, <2>1, <2>2 DEF ForgetInv, NothingIsForgotten, NothingForgotten, History
  <2>3. CASE id \notin said[k]
    BY <1>1, <2>1, <2>3 DEF ForgetInv
  <2>. QED BY <2>2, <2>3
<1>5. said' = [k \in Sessions |-> said'[k]]
  BY <1>1 DEF ForgetInv
<1>. QED BY <1>2, <1>3, <1>4, <1>5

\* A compression is asked for.
LEMMA AskedKeeps ==
    ASSUME ForgetInv, NEW s \in Sessions, SubmitCompress(s), IdsInv', lastId' >= lastId,
           \A c : ReadsAll(c) => ReadsAll(c)'
    PROVE  DOMAIN compressing' = CompressSlots /\ \A i \in CompressSlots : ReadsAll(compressing[i])'
<1>1. PICK free \in CompressSlots : compressing' = [compressing EXCEPT ![free] =
          [at |-> "read", of |-> s, ids |-> Region(s), read |-> {}, tail |-> Tail(s)]]
  BY DEF SubmitCompress, CompressFree
<1>2. Region(s) \subseteq 1..lastId'
  <2>1. Cardinality(Context(s)) \in 0..lastId
    BY ContextFits DEF ForgetInv
  <2>2. Cardinality(Context(s)) - 2 * Pairs <= lastId'
    BY <2>1, PairsAssumption DEF ForgetInv, IdsInv
  <2>. QED BY <2>1, <2>2, PairsAssumption DEF Region, ForgetInv, IdsInv
<1>3. ReadsAll(compressing[free])'
  BY <1>1, <1>2 DEF ReadsAll, IsTask, ForgetInv
<1>4. ASSUME NEW i \in CompressSlots \ {free} PROVE ReadsAll(compressing[i])'
  BY <1>1 DEF ForgetInv
<1>5. \A i \in CompressSlots : ReadsAll(compressing[i])'
  BY <1>3, <1>4
<1>. QED BY <1>1, <1>5 DEF ForgetInv

\* A step of a compression that leaves the messages alone.
LEMMA CompressionGoes ==
    ASSUME ForgetInv, NEW i \in CompressSlots, NEW STATE c, ReadsAll(c),
           compressing' = [compressing EXCEPT ![i] = c], UNCHANGED <<row, message, lastId, said>>
    PROVE  ForgetInv'
<1>1. \A k : ReadsAll(k) => ReadsAll(k)'
  BY DEF ReadsAll, IsTask, WithIds, History
<1>2. compressing'[i] = c /\ \A j \in CompressSlots \ {i} : compressing'[j] = compressing[j]
  BY DEF ForgetInv
<1>3. ASSUME NEW j \in CompressSlots PROVE ReadsAll(compressing[j])'
  <2>1. CASE j = i
    <3>1. PICK k : k = c
      OBVIOUS
    <3>2. ReadsAll(k)'
      BY <1>1, <3>1
    <3>. QED BY <1>2, <2>1, <3>1, <3>2 DEF ReadsAll, IsTask, WithIds, History
  <2>2. CASE j # i
    BY <1>1, <1>2, <2>2 DEF ForgetInv
  <2>. QED BY <2>1, <2>2
<1>. QED BY <1>3 DEF ForgetInv, IdsInv, NothingIsForgotten, NothingForgotten, History

LEMMA CompressStepKeeps ==
    ASSUME ForgetInv, row \in [Sessions -> Rows], NEW i \in CompressSlots, CompressStep(i),
           UNCHANGED said
    PROVE  ForgetInv'
<1>. DEFINE c == compressing[i]
<1>1. IsTask(c) /\ ReadsAll(c)
  BY DEF CompressStep, CompressReads, CompressAsks, CompressReplaces, ForgetInv, ReadsAll,
         NoCompressing
<1>2. ReadsAll(NoCompressing)
  BY DEF ReadsAll
<1>3. CASE CompressEnds(i) /\ UNCHANGED <<row, message, lastId>>
  BY <1>2, <1>3, CompressionGoes DEF CompressEnds
<1>4. CASE CompressReads(i) /\ ~ CompressEnds(i)
  <2>. DEFINE found == WithIds(c.ids) \cap History(c.of)
              new == [c EXCEPT !.at = "model", !.read = found]
  <2>1. compressing' = [compressing EXCEPT ![i] = new] /\ UNCHANGED <<row, message, lastId>>
    BY <1>4 DEF CompressReads, conversationVars
  <2>2. new \in [at : {"model"}, of : {c.of}, ids : {c.ids}, read : {found}, tail : {c.tail}]
    BY <1>1 DEF IsTask
  <2>3. c.at # "free"
    BY <1>1 DEF IsTask
  <2>4. c.ids \subseteq 1..lastId
    BY <1>1, <2>3 DEF ReadsAll, NoCompressing
  <2>. HIDE DEF new
  <2>5. /\ new.at = "model" /\ new.of = c.of /\ new.ids = c.ids /\ new.read = found
        /\ new.tail = c.tail /\ c.of \in Sessions
    BY <1>1, <2>2 DEF IsTask
  <2>6. IsTask(new)
    BY <2>2, <2>5 DEF IsTask
  <2>7. ReadsAll(new)
    BY <2>4, <2>5, <2>6 DEF ReadsAll
  <2>. QED BY <2>1, <2>7, CompressionGoes
<1>5. CASE CompressAsks(i) /\ ~ CompressEnds(i)
  <2>. DEFINE new == [c EXCEPT !.at = "replace"]
  <2>1. compressing' = [compressing EXCEPT ![i] = new] /\ UNCHANGED <<row, message, lastId>>
    BY <1>5 DEF CompressAsks, conversationVars
  <2>2. ReadsAll(new)
    BY <1>1, <1>5 DEF ReadsAll, IsTask, NoCompressing, CompressAsks
  <2>. HIDE DEF new
  <2>. QED BY <2>1, <2>2, CompressionGoes
<1>6. CASE CompressReplaces(i) /\ lastId' # lastId
  <2>. DEFINE gone == WithIds(c.ids) \cap History(c.of)
              new == Summary(c)
  <2>1. /\ c.at = "replace" /\ CompressEnds(i) /\ UNCHANGED row
        /\ message' = (message \ gone) \cup {new} /\ lastId' = lastId + 1
        /\ new.id = lastId + 1 /\ new.of = c.of
    BY <1>6 DEF CompressReplaces, Summary
  <2>2. \A m \in gone : m.of = c.of /\ m.covers \subseteq new.covers
    BY <1>1, <2>1 DEF ReadsAll, NoCompressing, History, Summary
  <2>. HIDE DEF gone, new
  <2>3. IdsInv' /\ \A k \in message' : k \in message \/ k.id \notin 1..lastId
    BY <2>1, NextId DEF ForgetInv
  <2>4. \A k : ReadsAll(k) => ReadsAll(k)'
    BY <2>1, <2>3, TaskStays DEF ForgetInv, IdsInv
  <2>5. DOMAIN compressing' = CompressSlots /\ \A j \in CompressSlots : ReadsAll(compressing[j])'
    BY <1>2, <2>1, <2>4 DEF ForgetInv, CompressEnds, ReadsAll
  <2>6. NothingIsForgotten'
    <3>1. SUFFICES ASSUME NEW k \in Sessions, row[k].there, NEW id \in said[k]
                   PROVE  \E m \in message' : m.of = k /\ id \in m.covers
      BY <2>1 DEF NothingIsForgotten, NothingForgotten, History
    <3>2. PICK m \in message : m.of = k /\ id \in m.covers
      BY <3>1 DEF ForgetInv, NothingIsForgotten, NothingForgotten, History
    <3>. QED BY <2>1, <2>2, <3>2
  <2>. QED BY <2>3, <2>5, <2>6 DEF ForgetInv
<1>7. CASE CompressReplaces(i)
  BY <1>3, <1>6, <1>7 DEF CompressReplaces, ForgetInv, IdsInv
<1>8. CASE CompressReads(i) \/ CompressAsks(i)
  BY <1>3, <1>4, <1>5, <1>8 DEF CompressReads, CompressAsks, conversationVars
<1>. QED BY <1>7, <1>8 DEF CompressStep

\* Messages are left alone.
LEMMA MessagesStay ==
    ASSUME ForgetInv, UNCHANGED <<message, lastId, compressing, said>>,
           \A s \in Sessions : row'[s].there => row[s].there
    PROVE  ForgetInv'
<1>1. \A c : ReadsAll(c) => ReadsAll(c)'
  BY DEF ReadsAll, IsTask, WithIds, History
<1>2. NothingIsForgotten'
  BY DEF ForgetInv, NothingIsForgotten, NothingForgotten, History
<1>3. \A i \in CompressSlots : ReadsAll(compressing[i])'
  BY <1>1 DEF ForgetInv
<1>. QED BY <1>2, <1>3 DEF ForgetInv, IdsInv

LEMMA DeletedKeeps ==
    ASSUME ForgetInv, row \in [Sessions -> Rows], NEW s \in Sessions, Deleted(s)
    PROVE  ForgetInv'
<1>1. /\ message' = message \ History(s)
      /\ UNCHANGED <<lastId, compressing, said>>
      /\ \A k \in Sessions : row'[k].there => k # s /\ row[k].there
  BY DEF Deleted, DeleteSession, taskVars, Rows
<1>2. \A c : ReadsAll(c) => ReadsAll(c)'
  BY <1>1 DEF ReadsAll, IsTask, WithIds, History
<1>3. \A i \in CompressSlots : ReadsAll(compressing[i])'
  BY <1>1, <1>2 DEF ForgetInv
<1>4. NothingIsForgotten'
  <2>1. SUFFICES ASSUME NEW k \in Sessions, k # s, row[k].there, NEW id \in said[k]
                 PROVE  \E m \in message' : m.of = k /\ id \in m.covers
    BY <1>1 DEF NothingIsForgotten, NothingForgotten, History
  <2>2. PICK m \in message : m.of = k /\ id \in m.covers
    BY <2>1 DEF ForgetInv, NothingIsForgotten, NothingForgotten, History
  <2>. QED BY <1>1, <2>1, <2>2 DEF History
<1>. QED BY <1>1, <1>3, <1>4 DEF ForgetInv, IdsInv

\* The rows that are there.
LEMMA ThereStays ==
    ASSUME row \in [Sessions -> Rows],
           \/ \E s \in Sessions : RequestFails(s) \/ Archive(s) \/ AutoArchive(s) \/ Reopens(s)
           \/ \E i \in TitleSlots : TitleStep(i)
           \/ UNCHANGED row
    PROVE  \A k \in Sessions : row'[k].there => row[k].there
<1>1. ASSUME NEW s \in Sessions, RequestFails(s) \/ Archive(s) \/ AutoArchive(s) \/ Reopens(s)
      PROVE  \A k \in Sessions : row'[k].there => row[k].there
  BY <1>1 DEF RequestFails, AnswerFails, Archive, AutoArchive, Reopens, Unarchive, Rows
<1>2. ASSUME NEW i \in TitleSlots, TitleStep(i)
      PROVE  \A k \in Sessions : row'[k].there => row[k].there
  <2>1. UNCHANGED row \/ \E s, n, a : SetTitle(s, n, a)
    BY <1>2 DEF TitleStep, TitleReadsRow, TitleReadsMessages, TitleAsks, TitleCuts, TitleWrites,
                RenameWrites, Writes, GivesTitle, conversationVars
  <2>. QED BY <2>1 DEF SetTitle, Rows
<1>. QED BY <1>1, <1>2

LEMMA ForgetNext ==
    ASSUME ForgetInv, row \in [Sessions -> Rows], [Next]_vars
    PROVE  ForgetInv'
<1>1. CASE UNCHANGED vars
  BY <1>1, MessagesStay DEF vars, conversationVars, taskVars
<1>2. ASSUME NEW s \in Sessions, RequestBegins(s) PROVE ForgetInv'
  <2>1. /\ IdsInv' /\ said' = [k \in Sessions |-> said'[k]] /\ NothingIsForgotten'
        /\ \A c : ReadsAll(c) => ReadsAll(c)'
    BY <1>2, SaysKeeps DEF RequestBegins
  <2>2. CASE UNCHANGED compressing
    <3>1. \A i \in CompressSlots : ReadsAll(compressing[i])'
      BY <2>1, <2>2 DEF ForgetInv
    <3>. QED BY <2>1, <2>2, <3>1 DEF ForgetInv
  <2>3. CASE SubmitCompress(s)
    <3>1. lastId' >= lastId
      BY <1>2 DEF RequestBegins, Says, Save, ForgetInv, IdsInv
    <3>2. /\ DOMAIN compressing' = CompressSlots
          /\ \A i \in CompressSlots : ReadsAll(compressing[i])'
      BY <2>1, <2>3, <3>1, AskedKeeps
    <3>. QED BY <2>1, <3>2 DEF ForgetInv
  <2>. QED BY <1>2, <2>2, <2>3 DEF RequestBegins
<1>3. ASSUME NEW s \in Sessions, RequestAnswered(s) PROVE ForgetInv'
  <2>1. /\ IdsInv' /\ said' = [k \in Sessions |-> said'[k]] /\ NothingIsForgotten'
        /\ \A c : ReadsAll(c) => ReadsAll(c)'
    BY <1>3, SaysKeeps DEF RequestAnswered
  <2>2. UNCHANGED compressing
    BY <1>3 DEF RequestAnswered
  <2>3. \A i \in CompressSlots : ReadsAll(compressing[i])'
    BY <2>1, <2>2 DEF ForgetInv
  <2>. QED BY <2>1, <2>2, <2>3 DEF ForgetInv
<1>4. ASSUME NEW s \in Sessions, RequestFails(s) \/ Archive(s) \/ AutoArchive(s) \/ Reopens(s)
      PROVE  ForgetInv'
  <2>1. UNCHANGED <<message, lastId, compressing, said>>
    BY <1>4 DEF RequestFails, AnswerFails, Archive, AutoArchive, Reopens, Unarchive, taskVars
  <2>. QED BY <1>4, <2>1, ThereStays, MessagesStay
<1>5. ASSUME NEW s \in Sessions, Deleted(s) PROVE ForgetInv'
  BY <1>5, DeletedKeeps
<1>6. ASSUME NEW i \in TitleSlots, TitleStep(i), UNCHANGED <<compressing, said>> PROVE ForgetInv'
  <2>1. UNCHANGED <<message, lastId>>
    BY <1>6 DEF TitleStep, TitleReadsRow, TitleReadsMessages, TitleAsks, TitleCuts, TitleWrites,
                RenameWrites, Writes, conversationVars
  <2>. QED BY <1>6, <2>1, ThereStays, MessagesStay
<1>7. ASSUME NEW i \in CompressSlots, CompressStep(i), UNCHANGED said PROVE ForgetInv'
  BY <1>7, CompressStepKeeps
<1>8. CASE (MemoryStep \/ Trigger) /\ UNCHANGED <<taskVars, said>>
  <2>1. UNCHANGED conversationVars
    BY <1>8 DEF MemoryStep, ExtractReadsMessages, ExtractReadsMemories, ExtractAsks, ExtractSaves,
                MergeReads, MergeAsks, MergeWrites, DeleteMemory, Trigger
  <2>. QED BY <1>8, <2>1, ThereStays, MessagesStay DEF conversationVars, taskVars
<1>9. ASSUME NEW s \in Sessions, Renames(s) PROVE ForgetInv'
  BY <1>9, ThereStays, MessagesStay DEF Renames, RenameReads, conversationVars
<1>. QED BY <1>1, <1>2, <1>3, <1>4, <1>5, <1>6, <1>7, <1>8, <1>9 DEF Next, Tasks

LEMMA ForgetStarts == Init => ForgetInv
<1>1. Init => lastId \in Nat
  BY ConversationAssumption DEF Init, ConversationInit
<1>. QED BY <1>1 DEF Init, ConversationInit, CompressInit, ForgetInv, IdsInv, ReadsAll,
     NothingIsForgotten, NothingForgotten

\* Whatever was said in a session is still a message of it or covered by one, through
\* any number of overlapping compressions: the ids a compression deletes are handed
\* out once, so it has read what it deletes (session_store.py:604).
THEOREM NothingSaidIsLost == Spec => []NothingIsForgotten
<1>1. TitleInv => row \in [Sessions -> Rows]
  BY DEF TitleInv
<1>2. ForgetInv => NothingIsForgotten
  BY DEF ForgetInv
<1>. QED BY <1>1, <1>2, ForgetStarts, ForgetNext, TitleInvariance, PTL DEF Spec

-----------------------------------------------------------------------------
(* The tail of a context.                                                  *)

OneSession == \A s, t \in Sessions : s = t

\* The messages of a session have places of their own, none beyond its message's id.
PlacesInv ==
    /\ \A m \in message : m.of \in Sessions /\ m.at \in 1..m.id
    /\ \A m, k \in message : m.of = k.of /\ m.at = k.at => m = k

\* What a compression reads, or has read, is not of its tail.
SparesTail(c) ==
    c = NoCompressing \/
    /\ IsTask(c)
    /\ c.at = "read" => \A m \in c.tail : m.id \notin c.ids
    /\ c.at # "read" => c.read \cap c.tail = {}

TailInv ==
    /\ IdsInv
    /\ PlacesInv
    /\ DOMAIN compressing = CompressSlots
    /\ \A i \in CompressSlots : SparesTail(compressing[i])

\* The summary of messages comes in the place of one of them.
LEMMA LatestIsOne ==
    ASSUME IdsInv, PlacesInv, NEW M \in SUBSET message, M # {}
    PROVE  Latest(M) \in {m.at : m \in M}
<1>. DEFINE T == {lastId - m.at : m \in M}
<1>1. \A m \in M : lastId - m.at \in Nat /\ m.at \in Nat
  BY DEF IdsInv, PlacesInv
<1>2. T \subseteq Nat /\ T # {}
  BY <1>1
<1>. HIDE DEF T
<1>3. PICK n \in T : \A k \in T : ~ (<<k, n>> \in OpToRel(<, Nat))
  BY <1>2, WFMin, NatLessThanWellFounded, Zenon
<1>4. \A k \in T : ~ (k < n)
  BY <1>2, <1>3, Zenon DEF OpToRel
<1>5. PICK m \in M : n = lastId - m.at
  BY <1>3 DEF T
<1>6. ASSUME NEW k \in M PROVE k.at <= m.at
  <2>1. lastId - k.at \in T
    BY DEF T
  <2>2. ~ (lastId - k.at < lastId - m.at)
    BY <1>4, <1>5, <2>1
  <2>. QED BY <1>1, <2>2 DEF IdsInv
<1>. QED BY <1>6 DEF Latest

\* In a single session a summary comes in the place of one of its messages.
LEMMA AloneOwnPlace ==
    ASSUME IdsInv, PlacesInv, OneSession, NEW c, c.of \in Sessions
    PROVE  OwnPlace(c)
<1>. DEFINE found == WithIds(c.ids)
<1>1. found \in SUBSET message /\ found = found \cap History(c.of)
  BY DEF PlacesInv, OneSession, WithIds, History
<1>. HIDE DEF found
<1>2. found # {} => Latest(found) \in {m.at : m \in found}
  BY <1>1, LatestIsOne
<1>. QED BY <1>1, <1>2 DEF OwnPlace, found

\* A summary in the place of one of its messages gets a place that becomes free.
LEMMA SummaryPlace ==
    ASSUME IdsInv, PlacesInv, NEW c, OwnPlace(c)
    PROVE  /\ Summary(c).at \in 1..Summary(c).id
           /\ \A m \in message \ (WithIds(c.ids) \cap History(c.of)) :
                 m.of = c.of => m.at # Summary(c).at
<1>. DEFINE found == WithIds(c.ids)
<1>1. Summary(c).at = Latest(found) /\ Summary(c).id = lastId + 1
  BY DEF Summary
<1>2. CASE found = {}
  <2>1. Latest(found) = lastId + 1
    BY <1>2 DEF Latest
  <2>2. \A m \in message : m.at \in Nat /\ m.at <= lastId
    BY DEF IdsInv, PlacesInv
  <2>. QED BY <1>1, <2>1, <2>2 DEF IdsInv
<1>3. CASE found # {}
  <2>1. PICK m \in found \cap History(c.of) : m.at = Latest(found)
    BY <1>3 DEF OwnPlace
  <2>2. m \in message /\ m.of = c.of
    BY <2>1 DEF History
  <2>3. m.at \in 1..(lastId + 1)
    <3>1. m.at \in 1..m.id /\ m.id \in 1..lastId /\ lastId \in Nat
      BY <2>2 DEF IdsInv, PlacesInv
    <3>. QED BY <3>1
  <2>4. \A k \in message \ (found \cap History(c.of)) : k.of = c.of => k.at # m.at
    BY <2>1, <2>2 DEF PlacesInv
  <2>. QED BY <1>1, <2>1, <2>3, <2>4
<1>. QED BY <1>2, <1>3

\* The message before which there are n others has an id beyond n.
LEMMA TailIsBeyond ==
    ASSUME IdsInv, PlacesInv, NEW s, NEW m \in Tail(s)
    PROVE  m.id \notin Region(s)
<1>. DEFINE C == Context(s)
            A == {k \in C : After(k, m)}
            B == C \ A
<1>1. /\ IsFiniteSet(C) /\ Cardinality(C) \in Nat
      /\ m \in C /\ m \in message /\ C \subseteq message
  <2>1. IsFiniteSet(C) /\ Cardinality(C) \in Nat
    BY ContextFits, FS_CardinalityType
  <2>2. m \in C /\ C \subseteq message
    BY DEF Tail, Context, History
  <2>. QED BY <2>1, <2>2
<1>2. Cardinality(A) < 2 * Pairs /\ A \in SUBSET C
  BY DEF Tail
<1>3. IsFiniteSet(A) /\ Cardinality(A) \in Nat
  BY <1>1, <1>2, FS_Subset, FS_CardinalityType
<1>4. Cardinality(B) = Cardinality(C) - Cardinality(A)
  <2>1. C \cap A = A
    BY <1>2
  <2>2. Cardinality(C \ A) = Cardinality(C) - Cardinality(C \cap A)
    BY <1>1, FS_Difference
  <2>. QED BY <2>1, <2>2
<1>5. m.at \in Nat /\ m.id \in Nat /\ m.at <= m.id
  BY <1>1 DEF IdsInv, PlacesInv
<1>6. Cardinality(B) <= m.at
  <2>. DEFINE f == [k \in B |-> k.at]
  <2>1. ASSUME NEW k \in B PROVE k.at \in 1..m.at
    <3>1. k \in message /\ k.at \in 1..k.id /\ k.id \in Nat /\ ~ After(k, m)
      BY <1>1 DEF IdsInv, PlacesInv
    <3>. QED BY <1>5, <3>1 DEF After
  <2>2. \A k, l \in B : k.at = l.at => k = l
    BY <1>1 DEF PlacesInv, Context, History
  <2>. HIDE DEF B
  <2>3. f \in Injection(B, 1..m.at)
    BY <2>1, <2>2 DEF Injection, IsInjective
  <2>4. IsFiniteSet(1..m.at) /\ Cardinality(1..m.at) = m.at
    <3>1. PICK n \in Nat : n = m.at
      BY <1>5
    <3>2. 1 \in Int /\ n \in Int
      BY <3>1
    <3>3. IsFiniteSet(1..n) /\ Cardinality(1..n) = IF 1 > n THEN 0 ELSE n - 1 + 1
      BY <3>2, FS_Interval, Zenon
    <3>. QED BY <3>1, <3>3
  <2>. HIDE DEF f
  <2>. QED BY <2>3, <2>4, FS_Injection
<1>. HIDE DEF A, B
<1>7. Cardinality(C) - 2 * Pairs < m.id
  BY <1>1, <1>2, <1>3, <1>4, <1>5, <1>6, PairsAssumption
<1>. HIDE DEF C
<1>. QED BY <1>1, <1>5, <1>7, PairsAssumption DEF Region, C

\* The steps that leave the tasks alone.
LEMMA TailSaid ==
    ASSUME TailInv, NEW s \in Sessions, NEW role, Says(s, role)
    PROVE  IdsInv' /\ PlacesInv'
<1>. DEFINE new == Said(s, role)
<1>1. /\ message' = (message \ {}) \cup {new} /\ lastId' = lastId + 1
      /\ new.id = lastId + 1 /\ new.of = s /\ new.at = lastId + 1
  BY DEF Says, Save, Said
<1>. HIDE DEF new
<1>2. IdsInv'
  BY <1>1, NextId DEF TailInv
<1>3. \A m \in message : m.at <= lastId /\ m.at \in Nat
  BY DEF TailInv, IdsInv, PlacesInv
<1>4. PlacesInv'
  BY <1>1, <1>3 DEF TailInv, IdsInv, PlacesInv
<1>. QED BY <1>2, <1>4

LEMMA TailLess ==
    ASSUME TailInv, UNCHANGED <<lastId, compressing>>, message' \subseteq message
    PROVE  TailInv'
<1>1. \A i \in CompressSlots : SparesTail(compressing[i])'
  BY DEF TailInv, SparesTail, IsTask
<1>. QED BY <1>1 DEF TailInv, IdsInv, PlacesInv

\* One of the tasks goes on.
LEMMA TailGoes ==
    ASSUME TailInv, NEW i \in CompressSlots, NEW STATE c, SparesTail(c),
           compressing' = [compressing EXCEPT ![i] = c], IdsInv', PlacesInv'
    PROVE  TailInv'
<1>1. compressing'[i] = c /\ \A j \in CompressSlots \ {i} : compressing'[j] = compressing[j]
  BY DEF TailInv
<1>2. ASSUME NEW j \in CompressSlots PROVE SparesTail(compressing[j])'
  BY <1>1 DEF TailInv, SparesTail, IsTask
<1>. QED BY <1>2 DEF TailInv

LEMMA TailAsked ==
    ASSUME TailInv, NEW s \in Sessions, SubmitCompress(s), IdsInv', PlacesInv'
    PROVE  TailInv'
<1>. DEFINE new == [at |-> "read", of |-> s, ids |-> Region(s), read |-> {}, tail |-> Tail(s)]
<1>1. PICK free \in CompressSlots : compressing' = [compressing EXCEPT ![free] = new]
  BY DEF SubmitCompress, CompressFree
<1>2. \A m \in Tail(s) : m.id \notin Region(s)
  BY TailIsBeyond DEF TailInv
<1>3. SparesTail(new)
  BY <1>2 DEF SparesTail, IsTask
<1>. HIDE DEF new
<1>. QED BY <1>1, <1>3, TailGoes

LEMMA TailStep ==
    ASSUME TailInv, NEW i \in CompressSlots, CompressStep(i),
           CompressReplaces(i) => OwnPlace(compressing[i])
    PROVE  TailInv'
<1>. DEFINE c == compressing[i]
<1>1. IsTask(c) /\ SparesTail(c) /\ c.at # "free"
  BY DEF CompressStep, CompressReads, CompressAsks, CompressReplaces, TailInv, SparesTail,
         NoCompressing
<1>2. SparesTail(NoCompressing)
  BY DEF SparesTail
<1>3. CASE CompressEnds(i) /\ UNCHANGED <<message, lastId>>
  <2>1. IdsInv' /\ PlacesInv'
    BY <1>3 DEF TailInv, IdsInv, PlacesInv
  <2>. QED BY <1>2, <1>3, <2>1, TailGoes DEF CompressEnds
<1>4. CASE CompressReads(i) /\ ~ CompressEnds(i)
  <2>. DEFINE found == WithIds(c.ids) \cap History(c.of)
              new == [c EXCEPT !.at = "model", !.read = found]
  <2>1. /\ compressing' = [compressing EXCEPT ![i] = new] /\ UNCHANGED <<message, lastId>>
        /\ c.at = "read"
    BY <1>4 DEF CompressReads, conversationVars
  <2>2. new \in [at : {"model"}, of : {c.of}, ids : {c.ids}, read : {found}, tail : {c.tail}]
    BY <1>1 DEF IsTask
  <2>3. found \cap c.tail = {}
    BY <1>1, <2>1 DEF SparesTail, NoCompressing, WithIds
  <2>4. c.of \in Sessions
    BY <1>1 DEF IsTask
  <2>. HIDE DEF new, found
  <2>5. IsTask(new) /\ new.read = found /\ new.tail = c.tail /\ new.at = "model"
    BY <2>2, <2>4 DEF IsTask
  <2>6. SparesTail(new)
    BY <2>3, <2>5 DEF SparesTail
  <2>7. IdsInv' /\ PlacesInv'
    BY <2>1 DEF TailInv, IdsInv, PlacesInv
  <2>. QED BY <2>1, <2>6, <2>7, TailGoes
<1>5. CASE CompressAsks(i) /\ ~ CompressEnds(i)
  <2>. DEFINE new == [c EXCEPT !.at = "replace"]
  <2>1. /\ compressing' = [compressing EXCEPT ![i] = new] /\ UNCHANGED <<message, lastId>>
        /\ c.at = "model"
    BY <1>5 DEF CompressAsks, conversationVars
  <2>2. SparesTail(new)
    BY <1>1, <2>1 DEF SparesTail, IsTask, NoCompressing
  <2>. HIDE DEF new
  <2>3. IdsInv' /\ PlacesInv'
    BY <2>1 DEF TailInv, IdsInv, PlacesInv
  <2>. QED BY <2>1, <2>2, <2>3, TailGoes
<1>6. CASE CompressReplaces(i) /\ lastId' # lastId
  <2>. DEFINE gone == WithIds(c.ids) \cap History(c.of)
              new == Summary(c)
  <2>1. /\ CompressEnds(i) /\ lastId' = lastId + 1
        /\ message' = (message \ gone) \cup {new}
        /\ new.id = lastId + 1 /\ new.of = c.of /\ c.of \in Sessions
    BY <1>1, <1>6 DEF CompressReplaces, Summary, IsTask
  <2>2. new.at \in 1..new.id /\ \A m \in message \ gone : m.of = c.of => m.at # new.at
    BY <1>6, SummaryPlace DEF TailInv
  <2>. HIDE DEF gone, new
  <2>3. IdsInv'
    BY <2>1, NextId DEF TailInv
  <2>4. PlacesInv'
    BY <2>1, <2>2 DEF TailInv, PlacesInv
  <2>. QED BY <1>2, <2>1, <2>3, <2>4, TailGoes DEF CompressEnds
<1>7. CASE CompressReplaces(i)
  BY <1>3, <1>6, <1>7 DEF CompressReplaces, TailInv, IdsInv
<1>8. CASE CompressReads(i) \/ CompressAsks(i)
  BY <1>3, <1>4, <1>5, <1>8 DEF CompressReads, CompressAsks, conversationVars
<1>. QED BY <1>7, <1>8 DEF CompressStep

\* Every summary that is stored comes in the place of one of its messages.
OwnPlaces == \A i \in CompressSlots : CompressReplaces(i) => OwnPlace(compressing[i])

LEMMA TailNext ==
    ASSUME TailInv, OwnPlaces, [Next]_vars
    PROVE  TailInv'
<1>1. CASE UNCHANGED <<message, lastId, compressing>>
  BY <1>1, TailLess
<1>2. ASSUME NEW s \in Sessions, RequestBegins(s) \/ RequestAnswered(s) PROVE TailInv'
  <2>1. IdsInv' /\ PlacesInv'
    BY <1>2, TailSaid DEF RequestBegins, RequestAnswered
  <2>2. CASE UNCHANGED compressing
    <3>1. \A i \in CompressSlots : SparesTail(compressing[i])'
      BY <2>2 DEF TailInv, SparesTail, IsTask
    <3>. QED BY <2>1, <2>2, <3>1 DEF TailInv
  <2>3. CASE SubmitCompress(s)
    BY <2>1, <2>3, TailAsked
  <2>. QED BY <1>2, <2>2, <2>3 DEF RequestBegins, RequestAnswered
<1>3. ASSUME NEW s \in Sessions, \/ RequestFails(s) \/ Archive(s) \/ AutoArchive(s)
                                 \/ Reopens(s)
      PROVE  TailInv'
  BY <1>1, <1>3 DEF RequestFails, AnswerFails, Archive, AutoArchive, Reopens, Unarchive, taskVars
<1>4. ASSUME NEW s \in Sessions, Deleted(s) PROVE TailInv'
  BY <1>4, TailLess DEF Deleted, DeleteSession, taskVars
<1>5. ASSUME NEW i \in TitleSlots, TitleStep(i), UNCHANGED compressing PROVE TailInv'
  BY <1>1, <1>5 DEF TitleStep, TitleReadsRow, TitleReadsMessages, TitleAsks, TitleCuts,
                    TitleWrites, RenameWrites, Writes, conversationVars
<1>6. ASSUME NEW i \in CompressSlots, CompressStep(i) PROVE TailInv'
  BY <1>6, TailStep DEF OwnPlaces
<1>7. CASE (MemoryStep \/ Trigger) /\ UNCHANGED taskVars
  <2>1. UNCHANGED conversationVars
    BY <1>7 DEF MemoryStep, ExtractReadsMessages, ExtractReadsMemories, ExtractAsks, ExtractSaves,
                MergeReads, MergeAsks, MergeWrites, DeleteMemory, Trigger
  <2>. QED BY <1>1, <1>7, <2>1 DEF conversationVars, taskVars
<1>8. CASE UNCHANGED vars
  BY <1>1, <1>8 DEF vars, conversationVars, taskVars
<1>9. ASSUME NEW s \in Sessions, Renames(s) PROVE TailInv'
  BY <1>1, <1>9 DEF Renames, RenameReads, conversationVars
<1>. QED BY <1>2, <1>3, <1>4, <1>5, <1>6, <1>7, <1>8, <1>9 DEF Next, Tasks

LEMMA TailStarts == Init => TailInv
<1>1. Init => lastId \in Nat
  BY ConversationAssumption DEF Init, ConversationInit
<1>. QED BY <1>1 DEF Init, ConversationInit, CompressInit, TailInv, IdsInv, PlacesInv, SparesTail

LEMMA TailFromInv == TailInv => TailKept
BY DEF TailInv, TailKept, SparesTail, NoCompressing

\* The most recent messages of a context are spared by the compression asked for then,
\* although positions are handed over for ids (context/types.py:69, compressor.py:130),
\* of any number of sessions, in every run in which no summary takes the place of
\* another session's message.  The service does not see to that; it is what makes
\* TailKept false.
THEOREM TailStays == Spec /\ [][OwnPlaces]_vars => []TailKept
<1>1. TailInv /\ [Next]_vars /\ [OwnPlaces]_vars => TailInv'
  <2>1. CASE UNCHANGED vars
    BY <2>1, TailLess DEF vars, conversationVars, taskVars
  <2>. QED BY <2>1, TailNext
<1>. QED BY <1>1, TailFromInv, TailStarts, PTL DEF Spec

\* So it is with one session.
THEOREM TailStaysAlone == OneSession => (Spec => []TailKept)
<1>1. ASSUME OneSession PROVE Spec => []TailKept
  <2>1. TailInv /\ [Next]_vars => TailInv'
    <3>1. SUFFICES ASSUME TailInv, [Next]_vars PROVE TailInv'
      OBVIOUS
    <3>2. ASSUME NEW i \in CompressSlots, CompressReplaces(i) PROVE OwnPlace(compressing[i])
      <4>1. compressing[i].of \in Sessions
        BY <3>1, <3>2 DEF TailInv, SparesTail, IsTask, CompressReplaces, NoCompressing
      <4>. QED BY <1>1, <3>1, <4>1, AloneOwnPlace DEF TailInv
    <3>. QED BY <3>1, <3>2, TailNext DEF OwnPlaces
  <2>. QED BY <2>1, TailFromInv, TailStarts, PTL DEF Spec
<1>. QED BY <1>1

\* A message of a context that has n others with smaller ids has an id above n.
LEMMA NewestIsBeyond ==
    ASSUME IdsInv, NEW s, NEW m \in Newest(s)
    PROVE  m.id \notin Region(s)
<1>. DEFINE C == Context(s)
            A == {k \in C : k.id > m.id}
            B == C \ A
<1>1. /\ IsFiniteSet(C) /\ Cardinality(C) \in Nat
      /\ m \in message /\ C \subseteq message
  <2>1. IsFiniteSet(C) /\ Cardinality(C) \in Nat
    BY ContextFits, FS_CardinalityType
  <2>2. m \in C /\ C \subseteq message
    BY DEF Newest, Context, History
  <2>. QED BY <2>1, <2>2
<1>2. Cardinality(A) < 2 * Pairs /\ A \in SUBSET C
  BY DEF Newest
<1>3. IsFiniteSet(A) /\ Cardinality(A) \in Nat
  BY <1>1, <1>2, FS_Subset, FS_CardinalityType
<1>4. Cardinality(B) = Cardinality(C) - Cardinality(A)
  <2>1. C \cap A = A
    BY <1>2
  <2>2. Cardinality(C \ A) = Cardinality(C) - Cardinality(C \cap A)
    BY <1>1, FS_Difference
  <2>. QED BY <2>1, <2>2
<1>5. m.id \in Nat
  BY <1>1 DEF IdsInv
<1>6. Cardinality(B) <= m.id
  <2>. DEFINE f == [k \in B |-> k.id]
  <2>1. ASSUME NEW k \in B PROVE k.id \in 1..m.id
    BY <1>1, <1>5 DEF IdsInv
  <2>2. \A k, l \in B : k.id = l.id => k = l
    BY <1>1 DEF IdsInv
  <2>. HIDE DEF B
  <2>3. f \in Injection(B, 1..m.id)
    BY <2>1, <2>2 DEF Injection, IsInjective
  <2>4. IsFiniteSet(1..m.id) /\ Cardinality(1..m.id) = m.id
    <3>1. PICK n \in Nat : n = m.id
      BY <1>5
    <3>2. 1 \in Int /\ n \in Int
      BY <3>1
    <3>3. IsFiniteSet(1..n) /\ Cardinality(1..n) = IF 1 > n THEN 0 ELSE n - 1 + 1
      BY <3>2, FS_Interval, Zenon
    <3>. QED BY <3>1, <3>3
  <2>. HIDE DEF f
  <2>. QED BY <2>3, <2>4, FS_Injection
<1>. HIDE DEF A, B
<1>7. Cardinality(C) - 2 * Pairs < m.id
  BY <1>1, <1>2, <1>3, <1>4, <1>5, <1>6, PairsAssumption
<1>. HIDE DEF C
<1>. QED BY <1>1, <1>5, <1>7, PairsAssumption DEF Region, C

\* Whatever the sessions do, a compression leaves the 2 * Pairs messages of its context
\* that were saved last: ids are handed out once and in order (compressor.py:130).
THEOREM NewestStay == Spec => []RegionSparesNewest
<1>1. ForgetInv => RegionSparesNewest
  BY NewestIsBeyond DEF ForgetInv, RegionSparesNewest
<1>2. TitleInv => row \in [Sessions -> Rows]
  BY DEF TitleInv
<1>. QED BY <1>1, <1>2, ForgetStarts, ForgetNext, TitleInvariance, PTL DEF Spec

-----------------------------------------------------------------------------
(* Memories.                                                               *)

\* What is on record is what was merged, and the merge that holds the lock has read
\* the record as it still is.
MergeInv ==
    /\ \A m \in MemoryIds : merged[m] \in {0, 1} /\ (merged[m] = 1 <=> m \in sources)
    /\ \/ merging = NoMerge
       \/ /\ merging \in [at : {"sources", "model", "write"}, old : {merging.old},
                          batch : {merging.batch}]
          /\ merging.at # "sources" =>
                merging.old = sources /\ merging.batch \cap sources = {}

LEMMA NoMergeStays ==
    ASSUME MergeInv, UNCHANGED <<merging, sources, merged>>
    PROVE  MergeInv'
BY DEF MergeInv

LEMMA TryKeeps ==
    ASSUME MergeInv, TryConsolidate, UNCHANGED <<sources, merged>>
    PROVE  MergeInv'
<1>1. CASE merging = NoMerge
  <2>. DEFINE new == [at |-> "sources", old |-> {}, batch |-> {}]
  <2>1. merging' = new
    BY <1>1 DEF TryConsolidate
  <2>. QED BY <2>1 DEF MergeInv
<1>2. CASE merging # NoMerge
  BY <1>2, NoMergeStays DEF TryConsolidate
<1>. QED BY <1>1, <1>2

LEMMA MergeReadsKeeps == ASSUME MergeInv, MergeReads PROVE MergeInv'
<1>1. PICK batch \in SUBSET ({m.id : m \in memory} \ sources) :
          merging' = IF TableThere /\ Cardinality(batch) >= TriggerCount
                     THEN [at |-> "model", old |-> sources, batch |-> batch]
                     ELSE NoMerge
  BY DEF MergeReads
<1>2. UNCHANGED <<sources, merged>>
  BY DEF MergeReads
<1>3. CASE merging' = NoMerge
  BY <1>2, <1>3 DEF MergeInv
<1>4. CASE merging' = [at |-> "model", old |-> sources, batch |-> batch]
  <2>1. batch \cap sources = {}
    BY <1>1
  <2>. QED BY <1>2, <1>4, <2>1 DEF MergeInv
<1>. QED BY <1>1, <1>3, <1>4

LEMMA MergeAsksKeeps == ASSUME MergeInv, MergeAsks PROVE MergeInv'
<1>1. UNCHANGED <<sources, merged>>
  BY DEF MergeAsks
<1>2. CASE merging' = NoMerge
  BY <1>1, <1>2 DEF MergeInv
<1>3. CASE merging' = [merging EXCEPT !.at = "write"]
  <2>1. /\ merging \in [at : {"sources", "model", "write"}, old : {merging.old},
                        batch : {merging.batch}]
        /\ merging.old = sources /\ merging.batch \cap sources = {}
    BY DEF MergeInv, MergeAsks, NoMerge
  <2>2. merging' \in [at : {"write"}, old : {merging.old}, batch : {merging.batch}]
    BY <1>3, <2>1
  <2>3. merging'.at = "write" /\ merging'.old = merging.old /\ merging'.batch = merging.batch
    BY <2>2
  <2>4. merging' \in [at : {"sources", "model", "write"}, old : {merging'.old},
                      batch : {merging'.batch}]
    BY <2>2, <2>3
  <2>. QED BY <1>1, <2>1, <2>3, <2>4 DEF MergeInv
<1>. QED BY <1>2, <1>3 DEF MergeAsks

LEMMA MergeWritesKeeps == ASSUME MergeInv, MergeWrites PROVE MergeInv'
<1>1. merging.old = sources /\ merging.batch \cap sources = {}
  BY DEF MergeInv, MergeWrites, NoMerge
<1>2. sources' = sources \cup merging.batch /\ merging' = NoMerge
  BY <1>1 DEF MergeWrites
<1>3. ASSUME NEW m \in MemoryIds
      PROVE  merged'[m] \in {0, 1} /\ (merged'[m] = 1 <=> m \in sources')
  <2>1. /\ merged[m] \in {0, 1} /\ (merged[m] = 1 <=> m \in sources)
        /\ merged'[m] = merged[m] + IF m \in merging.batch THEN 1 ELSE 0
    BY DEF MergeInv, MergeWrites
  <2>2. CASE m \in merging.batch
    BY <1>1, <1>2, <2>1, <2>2
  <2>3. CASE m \notin merging.batch
    BY <1>2, <2>1, <2>3
  <2>. QED BY <2>2, <2>3
<1>. QED BY <1>2, <1>3 DEF MergeInv, MemoryIds

LEMMA MergeNext == ASSUME MergeInv, [Next]_vars PROVE MergeInv'
<1>1. CASE UNCHANGED <<merging, sources, merged>>
  BY <1>1, NoMergeStays
<1>2. CASE MergeReads \/ MergeAsks \/ MergeWrites
  BY <1>2, MergeReadsKeeps, MergeAsksKeeps, MergeWritesKeeps
<1>3. ASSUME NEW i \in ExtractSlots,
             ExtractReadsMessages(i) \/ ExtractReadsMemories(i) \/ ExtractAsks(i) \/ ExtractSaves(i)
      PROVE  MergeInv'
  BY <1>3, <1>1, TryKeeps
     DEF ExtractReadsMessages, ExtractReadsMemories, ExtractAsks, ExtractSaves
<1>4. CASE Trigger
  BY <1>4, TryKeeps DEF Trigger
<1>5. ASSUME NEW s \in Sessions,
             \/ RequestBegins(s) \/ RequestAnswered(s) \/ RequestFails(s)
             \/ Archive(s) \/ AutoArchive(s) \/ Reopens(s) \/ Deleted(s) \/ Renames(s)
      PROVE  MergeInv'
  BY <1>5, <1>1 DEF RequestBegins, RequestAnswered, RequestFails, Archive, AutoArchive, Reopens,
                    Deleted, Renames, memoryVars
<1>. QED BY <1>1, <1>2, <1>3, <1>4, <1>5
     DEF Next, Tasks, MemoryStep, DeleteMemory, memoryVars, vars

\* A memory is merged at most once, and is then on record: the merge that holds the
\* lock has read the record as it still is (consolidator.py:49).
THEOREM MemoriesMergeOnce == Spec => []MergedOnce
<1>1. Init => MergeInv
  BY DEF Init, MemoryInit, MergeInv
<1>2. MergeInv => MergedOnce
  BY DEF MergeInv, MergedOnce
<1>. QED BY <1>1, <1>2, MergeNext, PTL DEF Spec

=============================================================================
