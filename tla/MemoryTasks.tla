----------------------------- MODULE MemoryTasks -----------------------------
(***************************************************************************)
(* Memories (memory/manager.py, memory/consolidator.py, db/memory_store.py *)
(* and db/consolidated_store.py): archiving a session has a model extract  *)
(* a memory from it; enough memories are merged by a model into a single   *)
(* consolidated one, a lock keeping the merges apart.                      *)
(***************************************************************************)
EXTENDS Conversation

CONSTANTS ExtractSlots,         \* bound: extractions at a time
          MaxMemories,          \* bound: memories saved
          TriggerCount,         \* consolidation_trigger_count
          MaxSource,            \* max_source_memories
          TableThere            \* was the table of the consolidated memory made?

ASSUME MemoryAssumption ==
    /\ TriggerCount \in Nat \ {0}
    /\ MaxSource \in Nat \ {0}
    /\ TableThere \in BOOLEAN

VARIABLES memory,       \* the rows of memories
          lastMemory,   \* memory ids handed out
          extracting,   \* [ExtractSlots -> record]: the extractions
          merging,      \* the holder of the consolidator's lock
          sources,      \* source_memory_ids of the consolidated memory
          wired,        \* was the consolidator made?
          merged        \* history: [memory ids -> Nat]: times merged

memoryVars == <<memory, lastMemory, extracting, merging, sources, wired, merged>>

MemoryIds == 1..MaxMemories

NoExtract == [at |-> "free"]

NoMerge == [at |-> "unlocked"]

MemoryTypeOK ==
    /\ memory \subseteq [id : MemoryIds, of : Sessions]
    /\ lastMemory \in 0..MaxMemories
    /\ extracting \in [ExtractSlots ->
           [at : {"messages", "memories", "model", "save"}, of : Sessions, talk : BOOLEAN]
               \cup {NoExtract}]
    /\ merging \in [at : {"sources", "model", "write"}, old : SUBSET MemoryIds,
                    batch : SUBSET MemoryIds] \cup {NoMerge}
    /\ sources \subseteq MemoryIds
    /\ wired \in BOOLEAN
    /\ merged \in [MemoryIds -> Nat]

MemoryInit ==
    /\ memory = {}
    /\ lastMemory = 0
    /\ extracting = [i \in ExtractSlots |-> NoExtract]
    /\ merging = NoMerge
    /\ sources = {}
    /\ wired = FALSE
    /\ merged = [m \in MemoryIds |-> 0]

-----------------------------------------------------------------------------
(* Extraction.                                                             *)

ExtractFree == {i \in ExtractSlots : extracting[i] = NoExtract}

\* submit_memory_extract.
SubmitExtract(s) ==
    /\ ExtractFree # {}
    /\ extracting' = [extracting EXCEPT ![CHOOSE i \in ExtractFree : TRUE] =
          [at |-> "messages", of |-> s, talk |-> FALSE]]

ExtractGoes(i, at) == extracting' = [extracting EXCEPT ![i].at = at]

ExtractEnds(i) == extracting' = [extracting EXCEPT ![i] = NoExtract]

\* The messages; without a model for extractions nothing follows.
ExtractReadsMessages(i) ==
    /\ extracting[i].at = "messages"
    /\ LET roles == {m.role : m \in History(extracting[i].of)} IN
       IF "extract" \in config /\ roles # {}
       THEN extracting' = [extracting EXCEPT ![i].at = "memories",
                                             ![i].talk = roles = {"user", "assistant"}]
       ELSE ExtractEnds(i)
    /\ UNCHANGED <<conversationVars, memory, lastMemory, merging, sources, wired, merged>>

\* At most one memory for a session, and one needs an exchange.
ExtractReadsMemories(i) ==
    /\ extracting[i].at = "memories"
    /\ IF extracting[i].talk /\ ~ \E m \in memory : m.of = extracting[i].of
       THEN ExtractGoes(i, "model")
       ELSE ExtractEnds(i)
    /\ UNCHANGED <<conversationVars, memory, lastMemory, merging, sources, wired, merged>>

\* The model finds something to remember, or nothing, or fails.
ExtractAsks(i) ==
    /\ extracting[i].at = "model"
    /\ ExtractGoes(i, "save") \/ ExtractEnds(i)
    /\ UNCHANGED <<conversationVars, memory, lastMemory, merging, sources, wired, merged>>

-----------------------------------------------------------------------------
(* Consolidation.  A task that finds the lock taken gives up.              *)

\* A mistake: the lock is not looked at.
TryConsolidateUnlocked ==
    merging' = [at |-> "sources", old |-> {}, batch |-> {}]

TryConsolidate ==
    merging' = IF merging = NoMerge THEN [at |-> "sources", old |-> {}, batch |-> {}]
               ELSE merging

\* The memory is saved, unless its session is gone, and then a consolidation
\* is tried; the first one makes the consolidator.
ExtractSaves(i) ==
    /\ extracting[i].at = "save"
    /\ IF row[extracting[i].of].there
       THEN /\ lastMemory < MaxMemories
            /\ memory' = memory \cup {[id |-> lastMemory + 1, of |-> extracting[i].of]}
            /\ lastMemory' = lastMemory + 1
            /\ wired' = TRUE
            /\ TryConsolidate
       ELSE UNCHANGED <<memory, lastMemory, wired, merging>>
    /\ ExtractEnds(i)
    /\ UNCHANGED <<conversationVars, sources, merged>>

\* trigger_consolidation.
Trigger ==
    /\ wired /\ merging = NoMerge
    /\ TryConsolidate
    /\ UNCHANGED <<conversationVars, memory, lastMemory, extracting, sources, wired, merged>>

\* A mistake: the memories merged before are not left out.
MergeReadsAll ==
    /\ merging.at = "sources"
    /\ LET new == {m.id : m \in memory} IN
       \E batch \in SUBSET new :
          /\ Cardinality(batch) = IF Cardinality(new) < MaxSource
                                  THEN Cardinality(new) ELSE MaxSource
          /\ merging' = IF TableThere /\ Cardinality(batch) >= TriggerCount
                        THEN [at |-> "model", old |-> sources, batch |-> batch]
                        ELSE NoMerge
    /\ UNCHANGED <<conversationVars, memory, lastMemory, extracting, sources, wired, merged>>

\* Memories not merged yet, the most used ones first, if there are enough.
MergeReads ==
    /\ merging.at = "sources"
    /\ LET new == {m.id : m \in memory} \ sources IN
       \E batch \in SUBSET new :
          /\ Cardinality(batch) = IF Cardinality(new) < MaxSource
                                  THEN Cardinality(new) ELSE MaxSource
          /\ merging' = IF TableThere /\ Cardinality(batch) >= TriggerCount
                        THEN [at |-> "model", old |-> sources, batch |-> batch]
                        ELSE NoMerge
    /\ UNCHANGED <<conversationVars, memory, lastMemory, extracting, sources, wired, merged>>

MergeAsks ==
    /\ merging.at = "model"
    /\ merging' = [merging EXCEPT !.at = "write"] \/ merging' = NoMerge
    /\ UNCHANGED <<conversationVars, memory, lastMemory, extracting, sources, wired, merged>>

MergeWrites ==
    /\ merging.at = "write"
    /\ sources' = merging.old \cup merging.batch
    /\ merged' = [m \in MemoryIds |-> merged[m] + IF m \in merging.batch THEN 1 ELSE 0]
    /\ merging' = NoMerge
    /\ UNCHANGED <<conversationVars, memory, lastMemory, extracting, wired>>

DeleteMemory(m) ==
    /\ m \in memory
    /\ memory' = memory \ {m}
    /\ UNCHANGED <<conversationVars, lastMemory, extracting, merging, sources, wired, merged>>

MemoryStep ==
    \/ \E i \in ExtractSlots :
           ExtractReadsMessages(i) \/ ExtractReadsMemories(i) \/ ExtractAsks(i) \/ ExtractSaves(i)
    \/ MergeReads \/ MergeAsks \/ MergeWrites
    \/ \E m \in memory : DeleteMemory(m)

(* A memory enters the consolidated memory once, and what entered is on     *)
(* record, although extractions, the user's trigger and deletions overlap  *)
(* with a merge that waits for its model (consolidator.py:49).             *)
MergedOnce ==
    \A m \in MemoryIds : merged[m] <= 1 /\ (merged[m] = 1 <=> m \in sources)

(* "At most one memory for each session"                                    *)
(* (docs/archive/memory-extraction-timing-fix-2026-05-16.md:24).           *)
OneMemoryEach == \A m, k \in memory : m.of = k.of => m = k

=============================================================================
