----------------------------- MODULE RingBuffer -----------------------------
(***************************************************************************)
(* SSERingBuffer of service/ring_buffer.py for one session: the frames the *)
(* session's responses sent last.  The empty sequence stands for the       *)
(* absent buffer too, which a push makes anew.                             *)
(***************************************************************************)
EXTENDS Naturals, Sequences

CONSTANTS Capacity      \* frames kept

ASSUME CapacityAssumption == Capacity \in Nat \ {0}

VARIABLE buffer         \* Seq of frames, each a record with a field id

BufferInit == buffer = << >>

Push(frame) ==
    buffer' = IF Len(buffer) < Capacity THEN Append(buffer, frame)
              ELSE Append(Tail(buffer), frame)

DropSession == buffer' = << >>

\* The places of the frames with that id.
Having(id) == {i \in DOMAIN buffer : buffer[i].id = id}
First(id) == CHOOSE i \in Having(id) : \A j \in Having(id) : i <= j

\* A mistake: the frame the client has seen is sent again.
MissedFrom(id) ==
    IF Having(id) = {} THEN << >> ELSE SubSeq(buffer, First(id), Len(buffer))

\* get_missed_events: what follows the first frame with that id.
Missed(id) ==
    IF Having(id) = {} THEN << >> ELSE SubSeq(buffer, First(id) + 1, Len(buffer))

=============================================================================
