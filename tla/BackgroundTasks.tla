--------------------------- MODULE BackgroundTasks ---------------------------
(***************************************************************************)
(* The background tasks of AsyncEventProcessor (service/async_events.py)   *)
(* together with the requests that submit them and the user who renames,   *)
(* archives and deletes the sessions under them.                           *)
(***************************************************************************)
EXTENDS TitleTask, CompressionTask, MemoryTasks

CONSTANTS MaxTasks,     \* bound: tasks, renames and merges at a time
          MaxSaid       \* bound: messages said

VARIABLE said           \* history: [Sessions -> ids of the messages saved]

taskVars == <<titling, compressing>>
vars == <<conversationVars, taskVars, memoryVars, said>>

TypeOK ==
    /\ ConversationTypeOK
    /\ TitleTypeOK
    /\ CompressTypeOK
    /\ MemoryTypeOK
    /\ said \in [Sessions -> SUBSET Ids]

Init ==
    /\ ConversationInit
    /\ TitleInit
    /\ CompressInit
    /\ MemoryInit
    /\ said = [s \in Sessions |-> {}]

Running ==
    Cardinality(TitleSlots \ TitleFree) + Cardinality(CompressSlots \ CompressFree)
    + Cardinality(ExtractSlots \ ExtractFree) + IF merging = NoMerge THEN 0 ELSE 1

Says(s, role) ==
    /\ Save(s, role)
    /\ Cardinality(UNION {said[k] : k \in Sessions}) < MaxSaid
    /\ said' = [said EXCEPT ![s] = @ \cup {lastId + 1}]

\* A request begins: the context is built from the history, perhaps too long,
\* and the user's message is saved.
RequestBegins(s) ==
    /\ Says(s, "user")
    /\ \/ UNCHANGED compressing
       \/ Running < MaxTasks /\ SubmitCompress(s)
    /\ UNCHANGED <<titling, memoryVars>>

\* The answer is saved and a title task submitted.
RequestAnswered(s) ==
    /\ Says(s, "assistant")
    /\ Running < MaxTasks
    /\ SubmitTitle(s)
    /\ UNCHANGED <<compressing, memoryVars>>

RequestFails(s) ==
    /\ AnswerFails(s)
    /\ UNCHANGED <<taskVars, memoryVars, said>>

\* archive_session, also of a busy session.
Archive(s) ==
    /\ row[s].there /\ ~ row[s].archived
    /\ row' = [row EXCEPT ![s].archived = TRUE]
    /\ Running < MaxTasks
    /\ SubmitExtract(s)
    /\ UNCHANGED <<message, lastId, config, taskVars, memory, lastMemory, merging, sources, wired,
                   merged, said>>

\* _do_auto_archive, which a new session submits: no memory is extracted.
AutoArchive(s) ==
    /\ row[s].there /\ ~ row[s].archived
    /\ row' = [row EXCEPT ![s].archived = TRUE]
    /\ UNCHANGED <<message, lastId, config, taskVars, memoryVars, said>>

Reopens(s) ==
    /\ Unarchive(s)
    /\ UNCHANGED <<taskVars, memoryVars, said>>

\* The memories of a session go with it.
Deleted(s) ==
    /\ DeleteSession(s)
    /\ memory' = {m \in memory : m.of # s}
    /\ UNCHANGED <<taskVars, lastMemory, extracting, merging, sources, wired, merged, said>>

\* update_session_title of the session manager, first half.
Renames(s) ==
    /\ RenameReads(s)
    /\ Running < MaxTasks
    /\ UNCHANGED <<compressing, memoryVars, said>>

Tasks ==
    \/ \E i \in TitleSlots : TitleStep(i) /\ UNCHANGED <<compressing, memoryVars, said>>
    \/ \E i \in CompressSlots : CompressStep(i) /\ UNCHANGED <<titling, memoryVars, said>>
    \/ MemoryStep /\ UNCHANGED <<taskVars, said>>
    \/ Trigger /\ Running < MaxTasks /\ UNCHANGED <<taskVars, said>>

Next ==
    \/ \E s \in Sessions :
           \/ RequestBegins(s) \/ RequestAnswered(s) \/ RequestFails(s)
           \/ Archive(s) \/ AutoArchive(s) \/ Reopens(s) \/ Deleted(s)
           \/ Renames(s)
    \/ Tasks

Spec == Init /\ [][Next]_vars

NothingIsForgotten == NothingForgotten(said)

=============================================================================
