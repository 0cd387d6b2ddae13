--------------------------- MODULE CompressionTask ---------------------------
(***************************************************************************)
(* Compression of a session's history (service/context/compressor.py and   *)
(* builder.py, service/async_events.py): a request finds that the history  *)
(* fills the context, a task has the old messages summarized by a model    *)
(* and puts the summary in their place.  The detector names the messages   *)
(* by their positions in the context, the store takes these for ids.       *)
(***************************************************************************)
EXTENDS Conversation

CONSTANTS CompressSlots,        \* bound: compressions at a time
          Pairs,                \* compress_preserve_pairs
          MaxContext            \* messages a request reads of its session (50)

ASSUME PairsAssumption == Pairs \in Nat \ {0} /\ MaxContext \in Nat

VARIABLE compressing            \* [CompressSlots -> record]: the tasks

NoCompressing == [at |-> "free"]

Compressing == [at : {"read", "model", "replace"}, of : Sessions, ids : SUBSET Nat,
                read : SUBSET Messages, tail : SUBSET Messages] \cup {NoCompressing}

CompressTypeOK == compressing \in [CompressSlots -> Compressing]

CompressInit == compressing = [i \in CompressSlots |-> NoCompressing]

CompressFree == {i \in CompressSlots : compressing[i] = NoCompressing}

After(m, k) == m.at > k.at \/ (m.at = k.at /\ m.id > k.id)

\* What a request reads of its session: the oldest messages.
Context(s) == {m \in History(s) : Cardinality({k \in History(s) : After(m, k)}) < MaxContext}

\* The messages that are to stay as they are.
Tail(s) == {m \in Context(s) : Cardinality({k \in Context(s) : After(k, m)}) < 2 * Pairs}

\* A mistake: the region reaches one message too far.
RegionOneMore(s) == 1..(Cardinality(Context(s)) - 2 * Pairs + 1)

\* detect: the context is the system prompt, what was read and the new message; the
\* positions between the system prompt and the tail.
Region(s) == 1..(Cardinality(Context(s)) - 2 * Pairs)

MayCompress(s) == "limit" \in config /\ Cardinality(Context(s)) > 2 * Pairs

\* A request whose context is nearly full submits the task.
SubmitCompress(s) ==
    /\ MayCompress(s) /\ CompressFree # {}
    /\ compressing' = [compressing EXCEPT ![CHOOSE i \in CompressFree : TRUE] =
          [at |-> "read", of |-> s, ids |-> Region(s), read |-> {}, tail |-> Tail(s)]]

CompressEnds(i) == compressing' = [compressing EXCEPT ![i] = NoCompressing]

\* get_messages_by_ids.
CompressReads(i) ==
    /\ compressing[i].at = "read"
    /\ LET c == compressing[i]
           found == WithIds(c.ids) \cap History(c.of)
       IN  IF found = {} THEN CompressEnds(i)
           ELSE compressing' = [compressing EXCEPT ![i].at = "model", ![i].read = found]
    /\ UNCHANGED conversationVars

CompressAsks(i) ==
    /\ compressing[i].at = "model"
    /\ \/ compressing' = [compressing EXCEPT ![i].at = "replace"]
       \/ CompressEnds(i)
    /\ UNCHANGED conversationVars

Latest(messages) ==
    IF messages = {} THEN lastId + 1
    ELSE CHOOSE n \in {m.at : m \in messages} : \A m \in messages : m.at <= n

Summary(c) ==
    [id |-> lastId + 1, of |-> c.of, role |-> "assistant", at |-> Latest(WithIds(c.ids)),
     covers |-> UNION {m.covers : m \in c.read}]

\* A mistake: as many of the oldest messages as were read are deleted.
ReplacesOldest(i) ==
    /\ compressing[i].at = "replace"
    /\ LET c == compressing[i]
           n == Cardinality(c.read)
           gone == {m \in History(c.of) :
                       Cardinality({k \in History(c.of) : After(m, k)}) < n}
       IN  IF row[c.of].there /\ lastId < MaxId
           THEN /\ message' = (message \ gone) \cup {Summary(c)}
                /\ lastId' = lastId + 1
           ELSE UNCHANGED <<message, lastId>>
    /\ CompressEnds(i)
    /\ UNCHANGED <<row, config>>

\* replace_compressed_region; without the session its INSERT fails.
CompressReplaces(i) ==
    /\ compressing[i].at = "replace"
    /\ LET c == compressing[i]
       IN  IF row[c.of].there /\ lastId < MaxId
           THEN /\ message' = (message \ (WithIds(c.ids) \cap History(c.of))) \cup {Summary(c)}
                /\ lastId' = lastId + 1
           ELSE UNCHANGED <<message, lastId>>
    /\ CompressEnds(i)
    /\ UNCHANGED <<row, config>>

CompressStep(i) == CompressReads(i) \/ CompressAsks(i) \/ CompressReplaces(i)

(* Nothing said in a session is forgotten: every message is still there or  *)
(* is covered, through any number of compressions, by a summary that is,   *)
(* also when two compressions of the same region overlap or the session    *)
(* grows while a summary is made.                                          *)
NothingForgotten(said) ==
    \A s \in Sessions : row[s].there =>
        said[s] \subseteq UNION {m.covers : m \in History(s)}

(* "Number of recent user-assistant pairs to preserve during compression"   *)
(* (context/types.py:69): the messages that were the most recent of the    *)
(* context when a compression was asked for are not compressed by it.  The *)
(* detector hands over positions for ids; that a message never has an id   *)
(* below its position in the history is what keeps the recent ones safe.   *)
(* That is true as long as every summary takes a place of its own session  *)
(* (OwnPlace), so of a service with one session; compressions of several   *)
(* sessions can undo it (README).                                          *)
TailKept ==
    \A i \in CompressSlots :
        compressing[i].at = "replace" => compressing[i].read \cap compressing[i].tail = {}

\* A summary comes in the place of a message it stands for.  The query for the
\* latest time asks for the ids in every session (session_store.py:615).
OwnPlace(c) ==
    LET found == WithIds(c.ids)
    IN  found = {} \/ \E m \in found \cap History(c.of) : m.at = Latest(found)

\* The messages of a context that were saved last.
Newest(s) == {m \in Context(s) : Cardinality({k \in Context(s) : k.id > m.id}) < 2 * Pairs}

(* A compression asked for at any time leaves as many messages as it is to  *)
(* preserve, namely those saved last, whatever other sessions do: a context *)
(* of n messages has 2 * Pairs with an id above n - 2 * Pairs              *)
(* (compressor.py:130).  A summary among them may cover older ones.        *)
RegionSparesNewest ==
    \A s \in Sessions : \A m \in Newest(s) : m.id \notin Region(s)

(* The messages of the region are those that are compressed: it does not    *)
(* hold, since the positions are ids only in the first session (README).   *)
RegionIsRead ==
    \A i \in CompressSlots :
        compressing[i].at = "replace" =>
            Cardinality(compressing[i].read) = Cardinality(compressing[i].ids)

=============================================================================
