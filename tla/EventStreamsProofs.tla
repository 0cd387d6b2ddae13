------------------------- MODULE EventStreamsProofs -------------------------
(***************************************************************************)
(* What the streams promise, for any responses, subscribers and frames.    *)
(***************************************************************************)
EXTENDS EventStreams, SequenceTheorems, WellFoundedInduction, TLAPS

LEMMA Bounds == MaxEvents \in Nat /\ MaxPublished \in Nat /\ MaxIndex \in Nat
                /\ MaxLast \in Nat /\ MaxLast <= MaxIndex /\ Capacity \in Nat \ {0}
  BY StreamsAssumption, CapacityAssumption DEF MaxIndex, MaxLast

-----------------------------------------------------------------------------
(* Types.                                                                  *)

LEMMA FirstIsThere ==
    ASSUME buffer \in Seq(Frame), NEW id, Having(id) # {}
    PROVE  First(id) \in Having(id)
<1>1. Having(id) \subseteq Nat
  BY DEF Having
<1>2. PICK i \in Having(id) : \A j \in Having(id) : ~ (<<j, i>> \in OpToRel(<, Nat))
  BY <1>1, WFMin, NatLessThanWellFounded, Zenon
<1>3. \A j \in Having(id) : ~ (j < i)
  BY <1>1, <1>2, Zenon DEF OpToRel
<1>4. \A j \in Having(id) : i <= j
  BY <1>1, <1>3
<1>. QED BY <1>2, <1>4 DEF First

\* What is replayed are the frames after one with the number that was named.
LEMMA MissedFrames ==
    ASSUME buffer \in Seq(Frame), NEW id
    PROVE  /\ Missed(id) \in Seq(Frame)
           /\ Missed(id) # << >> =>
                \E k \in Having(id) :
                    /\ Len(Missed(id)) = Len(buffer) - k
                    /\ \A i \in DOMAIN Missed(id) : Missed(id)[i] = buffer[k + i]
<1>1. CASE Having(id) = {}
  BY <1>1 DEF Missed
<1>2. CASE Having(id) # {}
  <2>. DEFINE k == First(id)
  <2>1. k \in Having(id)
    BY <1>2, FirstIsThere
  <2>2. k \in 1..Len(buffer) /\ Len(buffer) \in Nat
    BY <2>1, LenProperties DEF Having
  <2>3. \A i \in (k + 1)..Len(buffer) : buffer[i] \in Frame
    BY <2>2, ElementOfSeq
  <2>4. Missed(id) = SubSeq(buffer, k + 1, Len(buffer))
    BY <1>2 DEF Missed
  <2>. HIDE DEF k
  <2>5. /\ Missed(id) \in Seq(Frame)
        /\ Len(Missed(id)) = Len(buffer) - k
        /\ \A i \in 1..(Len(buffer) - k) : Missed(id)[i] = buffer[k + i]
    BY <2>2, <2>3, <2>4, SubSeqProperties
  <2>6. DOMAIN Missed(id) = 1..(Len(buffer) - k)
    BY <2>5, LenProperties
  <2>. QED BY <2>1, <2>5, <2>6
<1>. QED BY <1>1, <1>2

LEMMA PushTypes ==
    ASSUME buffer \in Seq(Frame), Len(buffer) <= Capacity, NEW frame \in Frame, Push(frame)
    PROVE  buffer' \in Seq(Frame) /\ Len(buffer') <= Capacity
<1>1. CASE Len(buffer) < Capacity
  BY <1>1, Bounds, AppendProperties DEF Push
<1>2. CASE ~ (Len(buffer) < Capacity)
  <2>1. buffer # << >>
    BY <1>2, Bounds, EmptySeq
  <2>2. Tail(buffer) \in Seq(Frame) /\ Len(Tail(buffer)) = Len(buffer) - 1
    BY <2>1, HeadTailProperties
  <2>. QED BY <1>2, <2>2, Bounds, AppendProperties, LenProperties DEF Push
<1>. QED BY <1>1, <1>2

LEMMA PutTypes ==
    ASSUME queue \in [Subscribers -> Seq(0..MaxPublished)], NEW event \in 0..MaxPublished,
           Put(event)
    PROVE  queue' \in [Subscribers -> Seq(0..MaxPublished)]
  BY AppendProperties DEF Put

-----------------------------------------------------------------------------
(* Where the connections are.                                              *)

\* Only a response streams or is silenced, and it has something to replay just
\* when it replays.
Placed(c, new) ==
    /\ new.at \in {"live", "silent", "replay"} => c \in Responses
    /\ new.at = "replay" => new.todo # << >>
    /\ new.at \in {"new", "live", "silent"} => new.todo = << >>
    /\ new.at = "global" => c \in Subscribers

StreamInv == TypeOK /\ BufferHasStream /\ \A c \in Clients : Placed(c, client[c])

\* A step that changes one connection and leaves the buffer empty, or the buffer
\* alone and the connection as able to stream as before, keeps the invariant.
LEMMA OneConnection ==
    ASSUME StreamInv, NEW c \in Clients, NEW STATE new, new \in Connection, Placed(c, new),
           client' = [client EXCEPT ![c] = new],
           buffer' \in Seq(Frame), Len(buffer') <= Capacity, BusTypeOK', stopping' \in BOOLEAN,
           \/ buffer' = << >>
           \/ new.at \in {"live", "silent"}
           \/ buffer' = buffer /\ client[c].at \notin {"live", "silent"}
    PROVE  StreamInv'
<1>1. client' \in [Clients -> Connection] /\ client'[c] = new
      /\ \A d \in Clients \ {c} : client'[d] = client[d]
  BY DEF StreamInv, TypeOK
<1>2. BufferHasStream'
  BY <1>1 DEF StreamInv, BufferHasStream, Clients, Placed
<1>3. \A d \in Clients : Placed(d, client'[d])
  BY <1>1 DEF StreamInv
<1>. QED BY <1>1, <1>2, <1>3 DEF StreamInv, TypeOK

LEMMA StreamStep == StreamInv /\ [Next]_vars => StreamInv'
<1>. SUFFICES ASSUME StreamInv, [Next]_vars PROVE StreamInv'
  OBVIOUS
<1>. USE Bounds
<1>1. /\ \A c \in Clients : client[c] \in Connection /\ Placed(c, client[c])
      /\ client \in [Clients -> Connection]
      /\ buffer \in Seq(Frame) /\ Len(buffer) <= Capacity
      /\ BusTypeOK /\ stopping \in BOOLEAN
  BY DEF StreamInv, TypeOK
<1>2. << >> \in Seq(Frame) /\ Len(<< >>) = 0 /\ << >> \in Seq(0..MaxPublished)
  BY EmptySeq
<1>3. ASSUME UNCHANGED busVars PROVE BusTypeOK'
  BY <1>1, <1>3 DEF BusTypeOK, busVars
<1>4. ASSUME NEW c \in Clients, RemoveSubscriber(c), c \in Subscribers PROVE BusTypeOK'
  BY <1>1, <1>2, <1>4 DEF BusTypeOK, RemoveSubscriber
<1>5. ASSUME NEW c \in Clients, client' = [client EXCEPT ![c] = [@ EXCEPT !.at = "closed"]],
             DropSession \/ (buffer' = buffer /\ client[c].at \notin {"live", "silent"}),
             BusTypeOK', stopping' = stopping
      PROVE  StreamInv'
  <2>. DEFINE new == [client[c] EXCEPT !.at = "closed"]
  <2>1. new \in Connection /\ Placed(c, new)
    BY <1>1 DEF Connection, Placed
  <2>2. client' = [client EXCEPT ![c] = new]
    BY <1>5
  <2>3. CASE DropSession
    <3>1. buffer' = << >> /\ buffer' \in Seq(Frame) /\ Len(buffer') <= Capacity
      BY <1>2, <2>3 DEF DropSession
    <3>. HIDE DEF new
    <3>. QED BY <1>1, <1>5, <2>1, <2>2, <3>1, OneConnection
  <2>4. CASE buffer' = buffer /\ client[c].at \notin {"live", "silent"}
    <3>. HIDE DEF new
    <3>. QED BY <1>1, <1>5, <2>1, <2>2, <2>4, OneConnection
  <2>. QED BY <1>5, <2>3, <2>4
<1>6. ASSUME NEW c \in Responses, Leaves(c) PROVE StreamInv'
  <2>1. c \in Clients /\ client[c] \in Connection
    BY <1>1 DEF Clients
  <2>2. client' = [client EXCEPT ![c] = [@ EXCEPT !.at = "closed"]]
    BY <1>6, <2>1 DEF Leaves, Connection
  <2>3. DropSession \/ (buffer' = buffer /\ client[c].at \notin {"live", "silent"})
    BY <1>6 DEF Leaves
  <2>4. BusTypeOK' /\ stopping' = stopping
    BY <1>3, <1>6 DEF Leaves
  <2>. QED BY <1>5, <2>1, <2>2, <2>3, <2>4
<1>7. ASSUME NEW c \in Subscribers, Unsubscribes(c) PROVE StreamInv'
  BY <1>1, <1>4, <1>5, <1>7 DEF Unsubscribes, Clients, Connection
<1>8. ASSUME NEW c \in Clients, Ends(c) PROVE StreamInv'
  <2>1. client' = [client EXCEPT ![c] = [@ EXCEPT !.at = "closed"]]
    BY <1>1, <1>8 DEF Ends, Connection
  <2>2. DropSession /\ BusTypeOK' /\ stopping' = stopping
    BY <1>3, <1>8 DEF Ends
  <2>. QED BY <1>5, <2>1, <2>2
<1>9. ASSUME NEW c \in Responses, NEW last \in 0..MaxLast, Opens(c, last) PROVE StreamInv'
  <2>. DEFINE kept == {j \in DOMAIN buffer : \E i \in Having(last) : i <= j}
              from == {buffer[j].of : j \in kept}
              at == IF Missed(last) = << >> THEN "live" ELSE "replay"
              index == IF Missed(last) = << >> THEN last ELSE Missed(last)[Len(Missed(last))].id
              new == [client[c] EXCEPT !.at = at, !.todo = Missed(last), !.last = last,
                                       !.from = from, !.index = index]
  <2>1. client' = [client EXCEPT ![c] = new]
    BY <1>9 DEF Opens
  <2>2. Missed(last) \in Seq(Frame)
    BY <1>1, MissedFrames
  <2>3. from \in SUBSET Responses
    <3>1. \A j \in DOMAIN buffer : buffer[j] \in Frame
      BY <1>1, LenProperties, ElementOfSeq
    <3>. QED BY <3>1 DEF Frame
  <2>4. index \in 0..MaxIndex
    <3>1. CASE Missed(last) # << >>
      <4>1. Len(Missed(last)) \in 1..Len(Missed(last))
        BY <2>2, <3>1, EmptySeq
      <4>2. Missed(last)[Len(Missed(last))] \in Frame
        BY <2>2, <4>1, ElementOfSeq
      <4>. QED BY <4>2, <3>1 DEF Frame
    <3>2. CASE Missed(last) = << >>
      BY <3>2
    <3>. QED BY <3>1, <3>2
  <2>5. at \in {"live", "replay"} /\ (at = "live" <=> Missed(last) = << >>)
    OBVIOUS
  <2>. HIDE DEF kept, from, index, at
  <2>6. c \in Clients /\ new \in Connection
    <3>1. c \in Clients /\ client[c] \in Connection
      BY <1>1 DEF Clients
    <3>. HIDE DEF Missed
    <3>. QED BY <2>2, <2>3, <2>4, <2>5, <3>1 DEF Connection
  <2>8. Placed(c, new)
    BY <1>1, <2>5, <2>6 DEF Connection, Placed
  <2>7. client[c].at \notin {"live", "silent"} /\ UNCHANGED <<buffer, busVars, stopping>>
    BY <1>9 DEF Opens
  <2>. HIDE DEF new
  <2>. QED BY <1>1, <1>3, <2>1, <2>6, <2>7, <2>8, OneConnection
<1>10. ASSUME NEW c \in Subscribers, Subscribes(c) PROVE StreamInv'
  <2>. DEFINE new == [client[c] EXCEPT !.at = "global"]
  <2>1. c \in Clients /\ new \in Connection /\ Placed(c, new)
    BY <1>1, <1>10 DEF Connection, Placed, Clients
  <2>2. client' = [client EXCEPT ![c] = new] /\ client[c].at = "new"
        /\ UNCHANGED <<buffer, stopping>>
    BY <1>1, <1>10, <2>1 DEF Subscribes, Connection
  <2>3. BusTypeOK'
    BY <1>1, <1>10 DEF Subscribes, AddSubscriber, BusTypeOK
  <2>. HIDE DEF new
  <2>. QED BY <1>1, <2>1, <2>2, <2>3, OneConnection
<1>11. ASSUME NEW c \in Clients, Replays(c) PROVE StreamInv'
  <2>. DEFINE at == IF Len(client[c].todo) = 1 THEN "live" ELSE "replay"
              new == [client[c] EXCEPT
                        !.sent = Append(client[c].sent, Head(client[c].todo).id),
                        !.todo = Tail(client[c].todo), !.at = at]
  <2>1. client' = [client EXCEPT ![c] = new]
    BY <1>1, <1>11 DEF Replays, Connection
  <2>2. /\ client[c].todo \in Seq(Frame) /\ client[c].todo # << >> /\ c \in Responses
        /\ client[c].sent \in Seq(Nat)
    BY <1>1, <1>11 DEF Replays, Connection, Placed
  <2>3. /\ Head(client[c].todo) \in Frame /\ Tail(client[c].todo) \in Seq(Frame)
        /\ Len(Tail(client[c].todo)) = Len(client[c].todo) - 1
        /\ Len(client[c].todo) \in Nat
    BY <2>2, HeadTailProperties, LenProperties
  <2>4. Append(client[c].sent, Head(client[c].todo).id) \in Seq(Nat)
    BY <2>2, <2>3, AppendProperties DEF Frame
  <2>5. at \in {"live", "replay"} /\ (at = "live" <=> Tail(client[c].todo) = << >>)
    <3>1. Tail(client[c].todo) = << >> <=> Len(Tail(client[c].todo)) = 0
      BY <2>3, EmptySeq
    <3>. QED BY <2>3, <3>1
  <2>. HIDE DEF at
  <2>6. new \in Connection /\ Placed(c, new)
    BY <1>1, <2>2, <2>3, <2>4, <2>5 DEF Connection, Placed
  <2>. HIDE DEF new
  <2>7. client[c].at \notin {"live", "silent"} /\ UNCHANGED <<buffer, busVars, stopping>>
    BY <1>11 DEF Replays
  <2>. QED BY <1>1, <1>3, <2>1, <2>6, <2>7, OneConnection
<1>12. ASSUME NEW c \in Clients, Streams(c) PROVE StreamInv'
  <2>. DEFINE frame == [id |-> client[c].index + 1, of |-> c, event |-> client[c].event + 1]
              sent == Append(client[c].sent, client[c].index + 1)
              new == [client[c] EXCEPT
                        !.index = client[c].index + 1, !.event = client[c].event + 1,
                        !.sent = sent]
  <2>1. client' = [client EXCEPT ![c] = new] /\ client[c].at = "live"
        /\ UNCHANGED <<busVars, stopping>> /\ Push(frame)
    BY <1>1, <1>12 DEF Streams, Connection
  <2>2. client[c].index + 1 \in 1..MaxIndex /\ client[c].event + 1 \in 1..MaxEvents
        /\ c \in Responses
    BY SMTT(30), <1>1, <1>12 DEF Streams, Connection, Placed
  <2>3. sent \in Seq(Nat)
    BY <1>1, <2>2, AppendProperties DEF Connection
  <2>. HIDE DEF sent
  <2>4. new \in Connection /\ Placed(c, new) /\ new.at = "live"
    <3>1. client[c] \in Connection /\ Placed(c, client[c]) /\ client[c].at = "live"
      BY <1>1, <2>1
    <3>2. client[c].index + 1 \in 0..MaxIndex /\ client[c].event + 1 \in 0..MaxEvents
      BY <2>2
    <3>. QED BY <2>3, <3>1, <3>2 DEF Connection, Placed
  <2>5. buffer' \in Seq(Frame) /\ Len(buffer') <= Capacity
    BY <1>1, <2>1, <2>2, PushTypes DEF Frame
  <2>. HIDE DEF new, frame
  <2>. QED BY <1>1, <1>3, <2>1, <2>4, <2>5, OneConnection
<1>13. ASSUME NEW c \in Clients, Pings(c) PROVE StreamInv'
  <2>. DEFINE sent == Append(client[c].sent, client[c].index + 1)
              new == [client[c] EXCEPT
                        !.index = client[c].index + 1, !.at = "silent", !.sent = sent]
  <2>1. client' = [client EXCEPT ![c] = new] /\ client[c].at = "live"
        /\ UNCHANGED <<buffer, busVars, stopping>>
    BY <1>1, <1>13 DEF Pings, Connection
  <2>2. client[c].index + 1 \in 1..MaxIndex
    BY <1>1, <1>13 DEF Pings, Connection
  <2>3. sent \in Seq(Nat)
    BY <1>1, <2>2, AppendProperties DEF Connection
  <2>. HIDE DEF sent
  <2>4. new \in Connection /\ Placed(c, new) /\ new.at = "silent"
    <3>1. client[c] \in Connection /\ Placed(c, client[c]) /\ client[c].at = "live"
      BY <1>1, <2>1
    <3>2. client[c].index + 1 \in 0..MaxIndex
      BY <2>2
    <3>. QED BY <2>3, <3>1, <3>2 DEF Connection, Placed
  <2>. HIDE DEF new
  <2>. QED BY <1>1, <1>3, <2>1, <2>4, OneConnection
<1>14. ASSUME NEW c \in Clients, Takes(c) PROVE StreamInv'
  <2>1. /\ client[c].at = "global" /\ queue[c] # << >> /\ UNCHANGED <<buffer, stopping>>
        /\ c \in Subscribers
    BY <1>1, <1>14 DEF Takes, Placed
  <2>2. queue[c] \in Seq(0..MaxPublished)
    BY <1>1, <2>1 DEF BusTypeOK
  <2>3. Head(queue[c]) \in 0..MaxPublished /\ Tail(queue[c]) \in Seq(0..MaxPublished)
    BY <2>1, <2>2, HeadTailProperties
  <2>4. CASE Head(queue[c]) = 0
    BY <1>1, <1>4, <1>5, <1>14, <2>1, <2>4 DEF Takes, Connection
  <2>5. CASE Head(queue[c]) # 0
    <3>. DEFINE new == [client[c] EXCEPT !.sent = Append(client[c].sent, Head(queue[c]))]
    <3>1. client' = [client EXCEPT ![c] = new] /\ BusTypeOK'
      BY <1>1, <1>14, <2>3, <2>5 DEF Takes, BusTypeOK, Connection
    <3>2. Append(client[c].sent, Head(queue[c])) \in Seq(Nat)
      BY <1>1, <2>3, AppendProperties DEF Connection
    <3>3. new \in Connection /\ Placed(c, new)
      BY <1>1, <2>1, <3>2 DEF Connection, Placed
    <3>. HIDE DEF new
    <3>. QED BY <1>1, <2>1, <3>1, <3>3, OneConnection
  <2>. QED BY <2>4, <2>5
<1>15. ASSUME Announces \/ Stops PROVE StreamInv'
  <2>1. UNCHANGED <<buffer, client>> /\ stopping' \in BOOLEAN
    BY <1>1, <1>15 DEF Announces, Stops
  <2>2. BusTypeOK'
    BY <1>1, <1>15, PutTypes
    DEF Announces, Stops, Publish, ShutdownBus, BusTypeOK
  <2>. QED BY <2>1, <2>2 DEF StreamInv, TypeOK, BufferHasStream
<1>16. CASE UNCHANGED vars
  BY <1>16 DEF vars, busVars, StreamInv, TypeOK, BusTypeOK, BufferHasStream
<1>. QED
  BY <1>6, <1>7, <1>8, <1>9, <1>10, <1>11, <1>12, <1>13, <1>14, <1>15, <1>16
  DEF Next, Step

LEMMA StreamStart == Init => StreamInv
<1>. SUFFICES ASSUME Init PROVE StreamInv
  OBVIOUS
<1>1. << >> \in Seq(Frame) /\ Len(<< >>) = 0 /\ << >> \in Seq(Nat)
      /\ << >> \in Seq(0..MaxPublished)
  BY EmptySeq
<1>2. NewClient \in Connection
  BY <1>1, Bounds DEF NewClient, Connection
<1>3. \A c \in Clients : Placed(c, NewClient)
  BY DEF NewClient, Placed
<1>4. BusTypeOK
  BY <1>1, Bounds DEF Init, BusInit, BusTypeOK
<1>5. buffer \in Seq(Frame) /\ Len(buffer) <= Capacity /\ BufferHasStream
  BY <1>1, Bounds DEF Init, BufferInit, BufferHasStream
<1>. QED BY <1>2, <1>3, <1>4, <1>5 DEF Init, StreamInv, TypeOK

\* Every variable keeps its type: frames keep their numbers in the bounds, and
\* the ring buffer its capacity (ring_buffer.py:26).
THEOREM StreamTypes == Spec => []TypeOK
<1>1. StreamInv => TypeOK
  BY DEF StreamInv
<1>. QED BY <1>1, StreamStart, StreamStep, PTL DEF Spec

\* The ring buffer is gone with the last response of its session
\* (sse_adapter.py:93), for any number of responses, streams and frames.
THEOREM BufferIsReleased == Spec => []BufferHasStream
<1>1. StreamInv => BufferHasStream
  BY DEF StreamInv
<1>. QED BY <1>1, StreamStart, StreamStep, PTL DEF Spec

-----------------------------------------------------------------------------
(* Sequences that are taken from at one end and put to at the other.       *)

LEMMA AppendLast ==
    ASSUME NEW s \in Seq(Nat), NEW t \in Seq(Nat), NEW n \in Nat
    PROVE  s \o Append(t, n) = Append(s \o t, n)
<1>1. Append(t, n) \in Seq(Nat) /\ Len(Append(t, n)) = Len(t) + 1
      /\ s \o t \in Seq(Nat) /\ Len(s \o t) = Len(s) + Len(t)
      /\ Len(s) \in Nat /\ Len(t) \in Nat
  BY AppendProperties, ConcatProperties, LenProperties
<1>2. s \o Append(t, n) \in Seq(Nat) /\ Append(s \o t, n) \in Seq(Nat)
      /\ Len(s \o Append(t, n)) = Len(s) + Len(t) + 1
      /\ Len(Append(s \o t, n)) = Len(s) + Len(t) + 1
  BY <1>1, AppendProperties, ConcatProperties
<1>3. ASSUME NEW i \in 1..(Len(s) + Len(t) + 1)
      PROVE  (s \o Append(t, n))[i] = Append(s \o t, n)[i]
  <2>. DEFINE u == Append(t, n)
  <2>a. u \in Seq(Nat) /\ i \in 1..(Len(s) + Len(u))
    BY <1>1
  <2>. HIDE DEF u
  <2>b. (s \o u)[i] = IF i <= Len(s) THEN s[i] ELSE u[i - Len(s)]
    BY <2>a, ConcatProperties
  <2>1. (s \o Append(t, n))[i] = IF i <= Len(s) THEN s[i] ELSE Append(t, n)[i - Len(s)]
    BY <2>b DEF u
  <2>2. i <= Len(s) + Len(t) => Append(s \o t, n)[i] = (s \o t)[i]
    BY <1>1, AppendProperties
  <2>3. i = Len(s) + Len(t) + 1 => Append(s \o t, n)[i] = n
    BY <1>1, AppendProperties
  <2>4. i <= Len(s) + Len(t) =>
            (s \o t)[i] = IF i <= Len(s) THEN s[i] ELSE t[i - Len(s)]
    BY <1>1, ConcatProperties
  <2>5. \A j \in 1..Len(t) : Append(t, n)[j] = t[j]
    BY AppendProperties
  <2>6. Append(t, n)[Len(t) + 1] = n
    BY AppendProperties
  <2>. QED BY SMTT(30), <1>1, <2>1, <2>2, <2>3, <2>4, <2>5, <2>6
<1>. QED BY <1>1, <1>2, <1>3, SeqEqual

LEMMA HeadMoves ==
    ASSUME NEW s \in Seq(Nat), NEW t \in Seq(Nat), t # << >>
    PROVE  Append(s, Head(t)) \o Tail(t) = s \o t
<1>1. /\ Head(t) \in Nat /\ Tail(t) \in Seq(Nat) /\ Len(Tail(t)) = Len(t) - 1
      /\ \A i \in 1..Len(Tail(t)) : Tail(t)[i] = t[i + 1]
      /\ Len(s) \in Nat /\ Len(t) \in Nat \ {0}
  BY HeadTailProperties, LenProperties, EmptySeq
<1>2. /\ Append(s, Head(t)) \in Seq(Nat) /\ Len(Append(s, Head(t))) = Len(s) + 1
      /\ \A i \in 1..Len(s) : Append(s, Head(t))[i] = s[i]
      /\ Append(s, Head(t))[Len(s) + 1] = t[1]
  BY <1>1, AppendProperties, LenProperties
<1>3. /\ Append(s, Head(t)) \o Tail(t) \in Seq(Nat) /\ s \o t \in Seq(Nat)
      /\ Len(Append(s, Head(t)) \o Tail(t)) = Len(s) + Len(t)
      /\ Len(s \o t) = Len(s) + Len(t)
  BY <1>1, <1>2, ConcatProperties
<1>4. ASSUME NEW i \in 1..(Len(s) + Len(t))
      PROVE  (Append(s, Head(t)) \o Tail(t))[i] = (s \o t)[i]
  <2>1. (s \o t)[i] = IF i <= Len(s) THEN s[i] ELSE t[i - Len(s)]
    BY <1>1, ConcatProperties
  <2>2. (Append(s, Head(t)) \o Tail(t))[i] =
            IF i <= Len(s) + 1 THEN Append(s, Head(t))[i] ELSE Tail(t)[i - (Len(s) + 1)]
    BY <1>1, <1>2, ConcatProperties
  <2>3. CASE i <= Len(s)
    BY <1>1, <1>2, <2>1, <2>2, <2>3
  <2>4. CASE i = Len(s) + 1
    BY <1>1, <1>2, <2>1, <2>2, <2>4
  <2>5. CASE i > Len(s) + 1
    <3>1. Tail(t)[i - (Len(s) + 1)] = t[i - Len(s)]
      BY <1>1, <2>5
    <3>. QED BY <1>1, <2>1, <2>2, <2>5, <3>1
  <2>. QED BY <1>1, <2>3, <2>4, <2>5
<1>. QED BY <1>3, <1>4, SeqEqual

-----------------------------------------------------------------------------
(* Streams of the global events.                                           *)

\* Nobody is queued events for before it subscribes, or after it has gone.
Subscription(c) ==
    /\ c \in subscribed => client[c].at = "global"
    /\ c \notin subscribed => queue[c] = << >>
    /\ client[c].at = "new" => client[c].sent = << >>
    /\ since[c] <= published

Expected(c) == [i \in 1..(published - since[c]) |-> since[c] + i]

GlobalInv == GlobalComplete /\ \A c \in Subscribers : Subscription(c)

LEMMA ExpectedNext ==
    ASSUME NEW a \in Nat, NEW b \in Nat, b <= a
    PROVE  /\ [i \in 1..(a - b) |-> b + i] \in Seq(Nat)
           /\ [i \in 1..(a + 1 - b) |-> b + i] = Append([i \in 1..(a - b) |-> b + i], a + 1)
<1>. DEFINE now == [i \in 1..(a - b) |-> b + i]
            next == [i \in 1..(a + 1 - b) |-> b + i]
<1>1. now \in Seq(Nat) /\ next \in Seq(Nat) /\ Len(now) = a - b /\ Len(next) = a + 1 - b
  OBVIOUS
<1>2. Append(now, a + 1) \in Seq(Nat) /\ Len(Append(now, a + 1)) = a + 1 - b
  BY <1>1, AppendProperties
<1>3. ASSUME NEW i \in 1..(a + 1 - b) PROVE next[i] = Append(now, a + 1)[i]
  <2>1. next[i] = b + i
    OBVIOUS
  <2>2. CASE i = a + 1 - b
    BY <1>1, <2>1, <2>2, AppendProperties
  <2>3. CASE i # a + 1 - b
    <3>1. i \in 1..Len(now) /\ now[i] = b + i
      BY <1>1, <2>3
    <3>2. Append(now, a + 1)[i] = now[i]
      BY <1>1, <3>1, AppendProperties
    <3>. QED BY <2>1, <3>1, <3>2
  <2>. QED BY <2>2, <2>3
<1>. HIDE DEF now, next
<1>4. next = Append(now, a + 1)
  BY <1>1, <1>2, <1>3, SeqEqual
<1>. QED BY <1>1, <1>4 DEF now, next

\* A step that leaves the bus alone and changes no subscriber's connection.
LEMMA BusAlone ==
    ASSUME StreamInv, GlobalInv, UNCHANGED <<busVars, stopping>>, NEW d,
           \A c \in Subscribers : c # d => client'[c] = client[c],
           d \notin Subscribers
    PROVE  GlobalInv'
  BY DEF StreamInv, TypeOK, BusTypeOK, GlobalInv, GlobalComplete, Subscription, busVars

LEMMA Unsubscribed ==
    ASSUME StreamInv, GlobalInv, NEW c \in Subscribers, RemoveSubscriber(c),
           client' = [client EXCEPT ![c].at = "closed"], UNCHANGED stopping
    PROVE  GlobalInv'
<1>1. /\ subscribed' = subscribed \ {c} /\ published' = published /\ since' = since
      /\ queue'[c] = << >> /\ \A d \in Subscribers : d # c => queue'[d] = queue[d]
  BY DEF StreamInv, TypeOK, BusTypeOK, RemoveSubscriber
<1>2. c \in Clients /\ client[c] \in Connection
  BY DEF StreamInv, TypeOK, Clients
<1>3. client'[c].at = "closed" /\ \A d \in Clients : d # c => client'[d] = client[d]
  BY <1>2 DEF StreamInv, TypeOK, Connection
<1>4. subscribed \subseteq Subscribers /\ Subscribers \subseteq Clients
  BY DEF StreamInv, TypeOK, BusTypeOK, Clients
<1>5. ASSUME NEW d \in Subscribers PROVE Subscription(d)'
  BY <1>1, <1>3, <1>4 DEF GlobalInv, Subscription
<1>6. GlobalComplete'
  BY <1>1, <1>3, <1>4 DEF GlobalInv, GlobalComplete
<1>. QED BY <1>5, <1>6 DEF GlobalInv

\* All that subscribe are given an event.
LEMMA Puts ==
    ASSUME StreamInv, GlobalInv, NEW event \in 0..MaxPublished, Put(event),
           UNCHANGED <<client, subscribed, since>>, published' \in Nat, published <= published',
           \A c \in subscribed :
               (IF stopping' THEN Append(Expected(c)', 0) ELSE Expected(c)') =
                   Append(IF stopping THEN Append(Expected(c), 0) ELSE Expected(c), event)
    PROVE  GlobalInv'
<1>. USE DEF StreamInv, TypeOK, BusTypeOK
<1>1. subscribed \subseteq Subscribers /\ Subscribers \subseteq Clients
  BY DEF Clients
<1>2. \A c \in Subscribers :
          queue'[c] = IF c \in subscribed THEN Append(queue[c], event) ELSE queue[c]
  BY DEF Put
<1>3. ASSUME NEW c \in Subscribers PROVE Subscription(c)'
  BY <1>2 DEF GlobalInv, Subscription
<1>4. ASSUME NEW c \in subscribed
      PROVE  client'[c].sent \o queue'[c] =
                 IF stopping' THEN Append(Expected(c)', 0) ELSE Expected(c)'
  <2>1. client[c].sent \in Seq(Nat) /\ queue[c] \in Seq(Nat) /\ event \in Nat
    <3>1. queue[c] \in Seq(0..MaxPublished) /\ 0..MaxPublished \subseteq Nat
      BY <1>1, Bounds
    <3>. QED BY <1>1, <3>1, SeqMonotonic DEF Connection
  <2>2. client'[c].sent \o queue'[c] = Append(client[c].sent \o queue[c], event)
    <3>. HIDE DEF StreamInv, TypeOK, BusTypeOK
    <3>1. queue'[c] = Append(queue[c], event) /\ client'[c].sent = client[c].sent
      BY <1>1, <1>2
    <3>2. client[c].sent \o Append(queue[c], event) = Append(client[c].sent \o queue[c], event)
      BY <2>1, AppendLast
    <3>. QED BY <3>1, <3>2
  <2>3. client[c].sent \o queue[c] = IF stopping THEN Append(Expected(c), 0) ELSE Expected(c)
    BY DEF GlobalInv, GlobalComplete, Expected
  <2>. QED BY <2>2, <2>3
<1>5. GlobalComplete'
  BY <1>4 DEF GlobalComplete, Expected
<1>. QED BY <1>3, <1>5 DEF GlobalInv

LEMMA GlobalStart == Init => GlobalInv
  BY DEF Init, BusInit, GlobalInv, GlobalComplete, Subscription, NewClient, Clients

LEMMA GlobalStep == StreamInv /\ GlobalInv /\ [Next]_vars => GlobalInv'
<1>. SUFFICES ASSUME StreamInv, GlobalInv, [Next]_vars PROVE GlobalInv'
  OBVIOUS
<1>1. /\ client \in [Clients -> Connection] /\ subscribed \subseteq Subscribers
      /\ \A c \in Clients : Placed(c, client[c]) /\ client[c] \in Connection
      /\ queue \in [Subscribers -> Seq(0..MaxPublished)] /\ published \in 0..MaxPublished
      /\ since \in [Subscribers -> 0..MaxPublished]
  BY DEF StreamInv, TypeOK, BusTypeOK
<1>2. Responses \cap Subscribers = {} /\ Clients = Responses \cup Subscribers
      /\ MaxPublished \in Nat
  BY StreamsAssumption DEF Clients
<1>3. ASSUME NEW c \in Responses, Leaves(c) \/ \E last \in 0..MaxLast : Opens(c, last)
      PROVE  GlobalInv'
  <2>1. UNCHANGED <<busVars, stopping>> /\ \A d \in Subscribers : d # c => client'[d] = client[d]
    BY <1>1, <1>2, <1>3 DEF Leaves, Opens
  <2>. QED BY <1>2, <2>1, BusAlone
<1>4. ASSUME NEW c \in Clients, Replays(c) \/ Streams(c) \/ Pings(c) \/ Ends(c)
      PROVE  GlobalInv'
  <2>1. UNCHANGED <<busVars, stopping>> /\ \A d \in Subscribers : d # c => client'[d] = client[d]
    BY <1>1, <1>2, <1>4 DEF Replays, Streams, Pings, Ends
  <2>2. c \in Responses
    BY <1>1, <1>4 DEF Replays, Streams, Pings, Ends, Placed
  <2>. QED BY <1>2, <2>1, <2>2, BusAlone
<1>5. ASSUME NEW c \in Subscribers, Subscribes(c) PROVE GlobalInv'
  <2>1. /\ client[c].at = "new" /\ ~ stopping /\ UNCHANGED <<queue, published, stopping>>
        /\ subscribed' = subscribed \cup {c}
        /\ since'[c] = published /\ \A d \in Subscribers : d # c => since'[d] = since[d]
        /\ client'[c].at = "global" /\ client'[c].sent = client[c].sent
        /\ \A d \in Clients : d # c => client'[d] = client[d]
    BY <1>1, <1>2, <1>5 DEF Subscribes, AddSubscriber, Connection
  <2>2. queue[c] = << >> /\ client[c].sent = << >>
    BY <2>1 DEF GlobalInv, Subscription
  <2>3. ASSUME NEW d \in Subscribers PROVE Subscription(d)'
    BY <1>1, <1>2, <2>1 DEF GlobalInv, Subscription
  <2>4. ASSUME NEW d \in subscribed'
        PROVE  client'[d].sent \o queue'[d] =
                   IF stopping' THEN Append(Expected(d)', 0) ELSE Expected(d)'
    <3>1. CASE d = c
      <4>1. Expected(c)' = << >>
        BY <1>1, <2>1 DEF Expected
      <4>2. client'[c].sent \o queue'[c] = << >>
        BY <2>1, <2>2
      <4>. QED BY <2>1, <3>1, <4>1, <4>2
    <3>2. CASE d # c
      BY <1>1, <1>2, <2>1, <3>2 DEF GlobalInv, GlobalComplete, Expected
    <3>. QED BY <3>1, <3>2
  <2>. QED BY <2>3, <2>4 DEF GlobalInv, GlobalComplete, Expected
<1>6. ASSUME NEW c \in Subscribers, Unsubscribes(c) PROVE GlobalInv'
  BY <1>6, Unsubscribed DEF Unsubscribes
<1>7. ASSUME NEW c \in Clients, Takes(c) PROVE GlobalInv'
  <2>1. c \in Subscribers /\ queue[c] # << >> /\ stopping' = stopping
    BY <1>1, <1>7 DEF Takes, Placed
  <2>2. CASE Head(queue[c]) = 0
    BY <1>7, <2>1, <2>2, Unsubscribed DEF Takes
  <2>3. CASE Head(queue[c]) # 0
    <3>1. queue[c] \in Seq(Nat) /\ client[c].sent \in Seq(Nat)
      <4>1. queue[c] \in Seq(0..MaxPublished) /\ 0..MaxPublished \subseteq Nat
        BY <1>1, <1>2, <2>1
      <4>. QED BY <1>1, <4>1, SeqMonotonic DEF Connection
    <3>2. /\ UNCHANGED <<subscribed, published, since>>
          /\ queue'[c] = Tail(queue[c]) /\ \A d \in Subscribers : d # c => queue'[d] = queue[d]
          /\ client'[c].at = client[c].at
          /\ client'[c].sent = Append(client[c].sent, Head(queue[c]))
          /\ \A d \in Clients : d # c => client'[d] = client[d]
      BY <1>1, <1>7, <2>1, <2>3 DEF Takes, Connection
    <3>3. client'[c].sent \o queue'[c] = client[c].sent \o queue[c]
      BY <2>1, <3>1, <3>2, HeadMoves
    <3>4. client[c].at = "global" /\ c \in subscribed
      BY <1>7, <2>1 DEF Takes, GlobalInv, Subscription
    <3>5. ASSUME NEW d \in Subscribers PROVE Subscription(d)'
      BY <1>2, <3>2, <3>4 DEF GlobalInv, Subscription
    <3>6. ASSUME NEW d \in subscribed'
          PROVE  client'[d].sent \o queue'[d] =
                     IF stopping' THEN Append(Expected(d)', 0) ELSE Expected(d)'
      <4>1. client'[d].sent \o queue'[d] = client[d].sent \o queue[d]
        BY <1>1, <1>2, <3>2, <3>3
      <4>2. client[d].sent \o queue[d] = IF stopping THEN Append(Expected(d), 0) ELSE Expected(d)
        BY <3>2 DEF GlobalInv, GlobalComplete, Expected
      <4>3. Expected(d)' = Expected(d)
        BY <3>2 DEF Expected
      <4>. QED BY <2>1, <4>1, <4>2, <4>3
    <3>7. GlobalComplete'
      BY <3>6 DEF GlobalComplete, Expected
    <3>. QED BY <3>5, <3>7 DEF GlobalInv
  <2>. QED BY <2>2, <2>3
<1>8. ASSUME Announces PROVE GlobalInv'
  <2>1. /\ published' = published + 1 /\ Put(published + 1) /\ ~ stopping /\ ~ stopping'
        /\ UNCHANGED <<client, subscribed, since>> /\ published + 1 \in 0..MaxPublished
    BY <1>1, <1>2, <1>8 DEF Announces, Publish
  <2>2. ASSUME NEW c \in subscribed PROVE Expected(c)' = Append(Expected(c), published + 1)
    <3>1. since[c] \in Nat /\ published \in Nat /\ since[c] <= published
      BY <1>1, <1>2 DEF GlobalInv, Subscription
    <3>. QED BY <2>1, <3>1, ExpectedNext DEF Expected
  <2>3. published' \in Nat /\ published <= published'
    BY <1>1, <1>2, <2>1
  <2>. QED BY <2>1, <2>2, <2>3, Puts
<1>9. ASSUME Stops PROVE GlobalInv'
  <2>1. /\ Put(0) /\ ~ stopping /\ stopping' /\ 0 \in 0..MaxPublished
        /\ UNCHANGED <<client, subscribed, since, published>>
    BY <1>2, <1>9 DEF Stops, ShutdownBus
  <2>2. \A c \in subscribed : Expected(c)' = Expected(c)
    BY <2>1 DEF Expected
  <2>3. published' \in Nat /\ published <= published'
    BY <1>1, <1>2, <2>1
  <2>. QED BY <2>1, <2>2, <2>3, Puts
<1>10. CASE UNCHANGED vars
  BY <1>10 DEF vars, busVars, GlobalInv, GlobalComplete, Subscription
<1>. QED BY <1>3, <1>4, <1>5, <1>6, <1>7, <1>8, <1>9, <1>10 DEF Next, Step

\* A subscriber is passed on every event of its time, once and in order, however
\* the publishing, the reading and the shutdown overlap (sse_adapter.py:108).
THEOREM SubscribersMissNothing == Spec => []GlobalComplete
<1>1. GlobalInv => GlobalComplete
  BY DEF GlobalInv
<1>. QED BY <1>1, StreamStart, StreamStep, GlobalStart, GlobalStep, PTL DEF Spec

-----------------------------------------------------------------------------
(* The numbers of a response.                                              *)

Ids(frames) == [i \in 1..Len(frames) |-> frames[i].id]

\* What the client of a response has seen, and what it is still to see again.
Seen(c) == << client[c].last >> \o client[c].sent
Numbers(c) == Seen(c) \o Ids(client[c].todo)

Increasing(s) == \A i, j \in DOMAIN s : i < j => s[i] < s[j]

\* The numbers increase up to the index of the response.
Counted(c) == Increasing(Numbers(c)) /\ Numbers(c)[Len(Numbers(c))] = client[c].index

\* Of each response the buffer keeps frames in their order, and none that the
\* response has not sent; a new one has none in it.
BufferInOrder ==
    /\ \A i \in DOMAIN buffer : buffer[i].id <= client[buffer[i].of].index
    /\ \A i, j \in DOMAIN buffer :
           i < j /\ buffer[i].of = buffer[j].of => buffer[i].id < buffer[j].id

NumberInv ==
    /\ BufferInOrder
    /\ \A c \in Responses :
           /\ client[c].at = "new" => client[c].index = 0 /\ client[c].sent = << >>
           /\ OneSource(c) => Counted(c)

LEMMA IdsOf ==
    ASSUME NEW frames \in Seq(Frame)
    PROVE  /\ Ids(frames) \in Seq(Nat) /\ Len(Ids(frames)) = Len(frames)
           /\ frames # << >> =>
                  /\ Ids(frames) # << >> /\ Head(Ids(frames)) = Head(frames).id
                  /\ Tail(Ids(frames)) = Ids(Tail(frames))
           /\ frames = << >> => Ids(frames) = << >>
<1>. USE Bounds
<1>1. Len(frames) \in Nat /\ \A i \in 1..Len(frames) : frames[i].id \in Nat
  <2>1. Len(frames) \in Nat /\ \A i \in 1..Len(frames) : frames[i] \in Frame
    BY ElementOfSeq, LenProperties
  <2>. QED BY <2>1 DEF Frame
<1>2. Ids(frames) \in Seq(Nat) /\ Len(Ids(frames)) = Len(frames)
  BY <1>1 DEF Ids
<1>3. frames = << >> => Ids(frames) = << >>
  BY <1>2, EmptySeq
<1>4. ASSUME frames # << >>
      PROVE  /\ Ids(frames) # << >> /\ Head(Ids(frames)) = Head(frames).id
             /\ Tail(Ids(frames)) = Ids(Tail(frames))
  <2>1. Len(frames) \in Nat \ {0} /\ Ids(frames) # << >>
    BY <1>2, <1>4, EmptySeq
  <2>2. /\ Tail(frames) \in Seq(Frame) /\ Len(Tail(frames)) = Len(frames) - 1
        /\ \A i \in 1..Len(Tail(frames)) : Tail(frames)[i] = frames[i + 1]
    BY <1>4, HeadTailProperties
  <2>3. /\ Tail(Ids(frames)) \in Seq(Nat) /\ Len(Tail(Ids(frames))) = Len(frames) - 1
        /\ \A i \in 1..(Len(frames) - 1) : Tail(Ids(frames))[i] = Ids(frames)[i + 1]
    BY <1>2, <2>1, HeadTailProperties
  <2>4. Ids(Tail(frames)) \in Seq(Nat) /\ Len(Ids(Tail(frames))) = Len(frames) - 1
    <3>1. \A i \in 1..Len(Tail(frames)) : Tail(frames)[i].id \in Nat
      BY <1>1, <2>1, <2>2
    <3>. QED BY <1>1, <2>1, <2>2, <3>1 DEF Ids
  <2>5. \A i \in 1..(Len(frames) - 1) : Tail(Ids(frames))[i] = Ids(Tail(frames))[i]
    BY <1>1, <2>1, <2>2, <2>3 DEF Ids
  <2>6. Tail(Ids(frames)) = Ids(Tail(frames))
    BY <2>3, <2>4, <2>5, SeqEqual
  <2>7. Head(Ids(frames)) = Head(frames).id
    BY <1>1, <2>1 DEF Ids
  <2>. QED BY <2>1, <2>6, <2>7
<1>. QED BY <1>2, <1>3, <1>4

\* A higher number at the end.
LEMMA OneMore ==
    ASSUME NEW s \in Seq(Nat), s # << >>, NEW n \in Nat, Increasing(s), s[Len(s)] < n
    PROVE  Increasing(Append(s, n)) /\ Append(s, n)[Len(Append(s, n))] = n
<1>1. /\ Append(s, n) \in Seq(Nat) /\ Len(Append(s, n)) = Len(s) + 1
      /\ \A i \in 1..Len(s) : Append(s, n)[i] = s[i]
      /\ Append(s, n)[Len(s) + 1] = n
      /\ Len(s) \in Nat \ {0} /\ DOMAIN s = 1..Len(s)
      /\ DOMAIN Append(s, n) = 1..(Len(s) + 1)
      /\ \A i \in 1..Len(s) : s[i] \in Nat
  BY AppendProperties, EmptySeq, LenProperties, ElementOfSeq
<1>2. \A i \in 1..Len(s) : s[i] <= s[Len(s)]
  BY <1>1 DEF Increasing
<1>3. ASSUME NEW i \in 1..(Len(s) + 1), NEW j \in 1..(Len(s) + 1), i < j
      PROVE  Append(s, n)[i] < Append(s, n)[j]
  <2>1. CASE j = Len(s) + 1
    BY <1>1, <1>2, <1>3, <2>1
  <2>2. CASE j # Len(s) + 1
    BY <1>1, <1>3, <2>2 DEF Increasing
  <2>. QED BY <2>1, <2>2
<1>. QED BY <1>1, <1>3 DEF Increasing

\* The types of the numbers of a response.
LEMMA NumberTypes ==
    ASSUME StreamInv, NEW c \in Clients
    PROVE  /\ client[c].index \in Nat /\ client[c].last \in Nat
           /\ client[c].sent \in Seq(Nat) /\ client[c].todo \in Seq(Frame)
           /\ << client[c].last >> \in Seq(Nat) /\ Len(<< client[c].last >>) = 1
           /\ Seen(c) \in Seq(Nat) /\ Seen(c) # << >>
           /\ client[c].todo = << >> => Numbers(c) = Seen(c)
<1>1. client[c] \in Connection
  BY DEF StreamInv, TypeOK
<1>2. client[c].index \in Nat /\ client[c].last \in Nat /\ client[c].sent \in Seq(Nat)
      /\ client[c].todo \in Seq(Frame)
  BY <1>1, Bounds DEF Connection
<1>3. << client[c].last >> \in Seq(Nat) /\ Len(<< client[c].last >>) = 1
  BY <1>2
<1>4. Seen(c) \in Seq(Nat) /\ Len(Seen(c)) = 1 + Len(client[c].sent)
  BY <1>2, <1>3, ConcatProperties DEF Seen
<1>5. Seen(c) # << >>
  BY <1>2, <1>4, EmptySeq, LenProperties
<1>6. client[c].todo = << >> => Numbers(c) = Seen(c)
  BY <1>2, <1>4, IdsOf, ConcatEmptySeq DEF Numbers
<1>. QED BY <1>2, <1>3, <1>4, <1>5, <1>6

LEMMA NumberStart == Init => NumberInv
<1>. SUFFICES ASSUME Init PROVE NumberInv
  OBVIOUS
<1>1. StreamInv
  BY StreamStart
<1>2. BufferInOrder
  BY DEF Init, BufferInit, BufferInOrder
<1>3. ASSUME NEW c \in Responses
      PROVE  client[c].index = 0 /\ client[c].sent = << >> /\ Counted(c)
  <2>1. c \in Clients /\ client[c] = NewClient
    BY DEF Init, Clients
  <2>2. Numbers(c) = << 0 >> \o << >>
    <3>1. client[c].todo = << >> /\ client[c].last = 0 /\ client[c].sent = << >>
      BY <2>1 DEF NewClient
    <3>2. Numbers(c) = Seen(c)
      BY <1>1, <2>1, <3>1, NumberTypes
    <3>. QED BY <3>1, <3>2 DEF Seen
  <2>3. Numbers(c) = << 0 >>
    BY <2>2
  <2>. QED BY <2>1, <2>3 DEF Counted, Increasing, NewClient
<1>. QED BY <1>2, <1>3 DEF NumberInv

SameNumbers(c) ==
    /\ client'[c].index = client[c].index /\ client'[c].last = client[c].last
    /\ client'[c].from = client[c].from /\ client'[c].sent = client[c].sent
    /\ client'[c].todo = client[c].todo
    /\ client'[c].at = "new" => client[c].at = "new"

\* A step that moves at most one response and keeps the numbers of the others.
LEMMA OneResponse ==
    ASSUME NumberInv, BufferInOrder', NEW c,
           \A d \in Responses \ {c} : SameNumbers(d),
           c \in Responses => client'[c].at # "new" /\ (OneSource(c)' => Counted(c)')
    PROVE  NumberInv'
<1>1. ASSUME NEW d \in Responses, d # c
      PROVE  /\ client'[d].at = "new" => client'[d].index = 0 /\ client'[d].sent = << >>
             /\ OneSource(d)' => Counted(d)'
  <2>1. SameNumbers(d) /\ Numbers(d)' = Numbers(d)
    BY <1>1 DEF SameNumbers, Numbers, Seen
  <2>. QED BY <1>1, <2>1 DEF NumberInv, SameNumbers, OneSource, Counted
<1>. QED BY <1>1 DEF NumberInv

\* A step that changes no number, and keeps the buffer or drops it.
LEMMA NumbersAlone ==
    ASSUME StreamInv, NumberInv, DropSession \/ buffer' = buffer,
           \A c \in Responses : SameNumbers(c)
    PROVE  NumberInv'
<1>1. BufferInOrder'
  <2>1. CASE DropSession
    BY <2>1 DEF DropSession, BufferInOrder
  <2>2. CASE buffer' = buffer
    <3>1. \A i \in DOMAIN buffer : buffer[i].of \in Responses
      <4>1. \A i \in DOMAIN buffer : buffer[i] \in Frame
        BY ElementOfSeq, LenProperties DEF StreamInv, TypeOK
      <4>. QED BY <4>1 DEF Frame
    <3>. QED BY <2>2, <3>1 DEF NumberInv, BufferInOrder, SameNumbers
  <2>. QED BY <2>1, <2>2
<1>. QED
  <2>1. ASSUME NEW d \in Responses
        PROVE  /\ client'[d].at = "new" => client'[d].index = 0 /\ client'[d].sent = << >>
               /\ OneSource(d)' => Counted(d)'
    <3>1. SameNumbers(d) /\ Numbers(d)' = Numbers(d)
      BY DEF SameNumbers, Numbers, Seen
    <3>. QED BY <3>1 DEF NumberInv, SameNumbers, OneSource, Counted
  <2>. QED BY <1>1, <2>1 DEF NumberInv

\* What is replayed to a client goes on from the frame it has named.
LEMMA Resumes ==
    ASSUME StreamInv, NumberInv, NEW c \in Responses, NEW last \in 0..MaxLast, Opens(c, last),
           OneSource(c)'
    PROVE  Counted(c)'
<1>. DEFINE kept == {j \in DOMAIN buffer : \E i \in Having(last) : i <= j}
            missed == Missed(last)
            index == IF missed = << >> THEN last ELSE missed[Len(missed)].id
<1>. USE Bounds
<1>1. /\ c \in Clients /\ client[c] \in Connection /\ client[c].sent = << >>
      /\ client \in [Clients -> Connection]
  BY DEF StreamInv, TypeOK, Clients, NumberInv, Opens
<1>2. /\ client'[c].last = last /\ client'[c].sent = << >> /\ client'[c].todo = missed
      /\ client'[c].from = {buffer[j].of : j \in kept} /\ client'[c].index = index
  BY <1>1 DEF Opens, Connection
<1>3. buffer \in Seq(Frame) /\ missed \in Seq(Frame) /\ last \in Nat
  BY MissedFrames DEF StreamInv, TypeOK
<1>4. Seen(c)' = << last >> /\ << last >> \in Seq(Nat) /\ Len(<< last >>) = 1
  BY <1>2, <1>3 DEF Seen
<1>5. Numbers(c)' = << last >> \o Ids(missed)
  BY <1>2, <1>4 DEF Numbers
<1>. HIDE DEF kept, missed, index
<1>6. Ids(missed) \in Seq(Nat) /\ Len(Ids(missed)) = Len(missed)
  BY <1>3, IdsOf
<1>7. /\ Numbers(c)' \in Seq(Nat) /\ Len(Numbers(c)') = 1 + Len(missed)
      /\ Len(missed) \in Nat
      /\ \A i \in 1..(1 + Len(missed)) :
             Numbers(c)'[i] = IF i <= 1 THEN << last >>[i] ELSE Ids(missed)[i - 1]
  BY <1>3, <1>4, <1>5, <1>6, ConcatProperties, LenProperties
<1>8. Numbers(c)'[1] = last /\ \A i \in 1..Len(missed) : Numbers(c)'[i + 1] = missed[i].id
  <2>1. << last >>[1] = last
    OBVIOUS
  <2>2. ASSUME NEW i \in 1..Len(missed) PROVE Numbers(c)'[i + 1] = missed[i].id
    <3>1. i + 1 \in 1..(1 + Len(missed)) /\ ~ (i + 1 <= 1) /\ (i + 1) - 1 = i
      BY <1>7
    <3>2. Numbers(c)'[i + 1] = Ids(missed)[i]
      BY <1>7, <3>1
    <3>. QED BY <1>7, <3>2 DEF Ids
  <2>. QED BY <1>7, <2>1, <2>2
<1>9. DOMAIN Numbers(c)' = 1..(1 + Len(missed))
  BY <1>7, LenProperties
<1>10. CASE missed = << >>
  <2>1. Len(missed) = 0 /\ index = last
    BY <1>10, EmptySeq DEF index
  <2>. QED BY <1>2, <1>7, <1>8, <1>9, <2>1 DEF Counted, Increasing
<1>11. CASE missed # << >>
  <2>1. PICK k \in Having(last) :
            /\ Len(missed) = Len(buffer) - k
            /\ \A i \in DOMAIN missed : missed[i] = buffer[k + i]
    BY <1>3, <1>11, MissedFrames DEF missed
  <2>2. /\ k \in 1..Len(buffer) /\ buffer[k].id = last /\ Len(buffer) \in Nat
        /\ DOMAIN buffer = 1..Len(buffer) /\ DOMAIN missed = 1..Len(missed)
        /\ Len(missed) \in Nat \ {0}
    BY <1>3, <1>11, LenProperties, EmptySeq DEF Having
  <2>3. \A i \in 1..(1 + Len(missed)) : Numbers(c)'[i] = buffer[k + i - 1].id
    <3>1. ASSUME NEW i \in 1..(1 + Len(missed)), i # 1
          PROVE  Numbers(c)'[i] = buffer[k + i - 1].id
      <4>1. i - 1 \in 1..Len(missed) /\ (i - 1) + 1 = i /\ k + (i - 1) = k + i - 1
        BY <2>2, <3>1
      <4>2. Numbers(c)'[(i - 1) + 1] = missed[i - 1].id
        BY <1>8, <4>1
      <4>. QED BY <2>1, <2>2, <4>1, <4>2
    <3>2. Numbers(c)'[1] = buffer[k + 1 - 1].id
      BY <1>8, <2>2
    <3>. QED BY <3>1, <3>2
  <2>4. \A i, j \in k..Len(buffer) : buffer[i].of = buffer[j].of
    <3>1. k..Len(buffer) \subseteq kept
      BY <2>2 DEF kept
    <3>. QED BY <1>2, <3>1 DEF OneSource
  <2>5. \A i, j \in k..Len(buffer) : i < j => buffer[i].id < buffer[j].id
    BY <2>2, <2>4 DEF NumberInv, BufferInOrder
  <2>6. ASSUME NEW i \in 1..(1 + Len(missed)), NEW j \in 1..(1 + Len(missed)), i < j
        PROVE  Numbers(c)'[i] < Numbers(c)'[j]
    <3>1. k + i - 1 \in k..Len(buffer) /\ k + j - 1 \in k..Len(buffer) /\ k + i - 1 < k + j - 1
      BY <2>1, <2>2, <2>6
    <3>. QED BY <2>3, <2>5, <3>1
  <2>7. Numbers(c)'[1 + Len(missed)] = index
    BY <1>8, <1>11, <2>2 DEF index
  <2>. QED BY <1>2, <1>7, <1>9, <2>6, <2>7 DEF Counted, Increasing
<1>. QED BY <1>10, <1>11

LEMMA Replayed ==
    ASSUME StreamInv, NEW c \in Clients, Replays(c), Counted(c)
    PROVE  Counted(c)'
<1>. DEFINE head == Head(client[c].todo)
<1>1. /\ client[c] \in Connection /\ client[c].todo # << >>
      /\ client \in [Clients -> Connection]
  BY DEF StreamInv, TypeOK, Placed, Replays
<1>2. /\ client'[c].last = client[c].last /\ client'[c].index = client[c].index
      /\ client'[c].sent = Append(client[c].sent, head.id)
      /\ client'[c].todo = Tail(client[c].todo)
  BY <1>1 DEF Replays, Connection
<1>3. /\ client[c].sent \in Seq(Nat) /\ client[c].todo \in Seq(Frame)
      /\ << client[c].last >> \in Seq(Nat) /\ Seen(c) \in Seq(Nat)
  BY NumberTypes
<1>4. /\ Ids(client[c].todo) \in Seq(Nat) /\ Ids(client[c].todo) # << >>
      /\ Head(Ids(client[c].todo)) = head.id
      /\ Tail(Ids(client[c].todo)) = Ids(Tail(client[c].todo))
  BY <1>1, <1>3, IdsOf
<1>5. head.id \in Nat
  BY <1>4, HeadTailProperties
<1>6. Seen(c)' = Append(Seen(c), head.id)
  BY <1>2, <1>3, <1>5, AppendLast DEF Seen
<1>7. Numbers(c)' = Numbers(c)
  <2>1. Append(Seen(c), head.id) \o Ids(Tail(client[c].todo)) = Seen(c) \o Ids(client[c].todo)
    BY <1>3, <1>4, HeadMoves
  <2>. QED BY <1>2, <1>6, <2>1 DEF Numbers
<1>. QED BY <1>2, <1>7 DEF Counted

LEMMA SendsNext ==
    ASSUME StreamInv, NEW c \in Clients, Streams(c) \/ Pings(c), Counted(c)
    PROVE  Counted(c)'
<1>1. /\ client[c] \in Connection /\ client[c].todo = << >>
      /\ client \in [Clients -> Connection]
  BY DEF StreamInv, TypeOK, Placed, Streams, Pings
<1>2. /\ client'[c].last = client[c].last /\ client'[c].index = client[c].index + 1
      /\ client'[c].sent = Append(client[c].sent, client[c].index + 1)
      /\ client'[c].todo = << >>
  <2>1. /\ client[c].index \in Int
        /\ client[c] = [at |-> client[c].at, index |-> client[c].index, event |-> client[c].event,
                        last |-> client[c].last, todo |-> client[c].todo,
                        from |-> client[c].from, sent |-> client[c].sent]
    BY <1>1 DEF Connection
  <2>2. CASE Streams(c)
    BY <1>1, <2>1, <2>2 DEF Streams
  <2>3. CASE Pings(c)
    BY <1>1, <2>1, <2>3 DEF Pings
  <2>. QED BY <2>2, <2>3
<1>3. /\ client[c].sent \in Seq(Nat) /\ << client[c].last >> \in Seq(Nat)
      /\ client[c].index \in Nat /\ Seen(c) \in Seq(Nat) /\ Seen(c) # << >>
      /\ Numbers(c) = Seen(c)
  BY <1>1, NumberTypes
<1>4. Seen(c)' = Append(Seen(c), client[c].index + 1)
  <2>1. << client[c].last >> \o Append(client[c].sent, client[c].index + 1)
            = Append(<< client[c].last >> \o client[c].sent, client[c].index + 1)
    <3>1. client[c].index + 1 \in Nat
      BY <1>3
    <3>. QED BY <1>3, <3>1, AppendLast
  <2>. QED BY <1>2, <2>1 DEF Seen
<1>5. Seen(c)' \in Seq(Nat) /\ Numbers(c)' = Seen(c)'
  <2>1. Seen(c)' \in Seq(Nat)
    BY <1>3, <1>4, AppendProperties
  <2>2. Ids(client'[c].todo) = << >>
    BY <1>2, IdsOf, EmptySeq
  <2>. QED BY <2>1, <2>2, ConcatEmptySeq DEF Numbers
<1>6. Increasing(Seen(c)) /\ Seen(c)[Len(Seen(c))] < client[c].index + 1
  BY <1>3 DEF Counted
<1>. QED BY <1>2, <1>3, <1>4, <1>5, <1>6, OneMore DEF Counted

\* The frame that is kept has the highest number of its response.
LEMMA KeptInOrder ==
    ASSUME StreamInv, NumberInv, NEW c \in Responses, Streams(c)
    PROVE  BufferInOrder'
<1>. DEFINE frame == [id |-> client[c].index + 1, of |-> c, event |-> client[c].event + 1]
<1>. USE Bounds
<1>1. /\ client \in [Clients -> Connection] /\ c \in Clients /\ client[c] \in Connection
      /\ buffer \in Seq(Frame)
  BY DEF StreamInv, TypeOK, Clients
<1>2. /\ client'[c].index = client[c].index + 1 /\ client[c].index \in Nat
      /\ \A d \in Clients : d # c => client'[d] = client[d]
      /\ frame \in Frame /\ Push(frame)
  BY SMTT(30), <1>1 DEF Streams, Connection, Frame
<1>3. \A i \in DOMAIN buffer : buffer[i].of \in Responses /\ buffer[i].id \in Nat
  <2>1. \A i \in DOMAIN buffer : buffer[i] \in Frame
    BY <1>1, ElementOfSeq, LenProperties
  <2>. QED BY <2>1 DEF Frame
\* The frames of before, or those but the first, and the new one.
<1>4. \E skip \in 0..1 :
         /\ Len(buffer') = Len(buffer) - skip + 1 /\ buffer' \in Seq(Frame)
         /\ \A i \in 1..(Len(buffer) - skip) : buffer'[i] = buffer[i + skip]
         /\ buffer'[Len(buffer) - skip + 1] = frame
         /\ Len(buffer) - skip \in Nat
  <2>. HIDE DEF frame
  <2>1. CASE Len(buffer) < Capacity
    <3>1. buffer' = Append(buffer, frame) /\ Len(buffer) \in Nat
      BY <1>1, <1>2, <2>1, LenProperties DEF Push
    <3>2. /\ buffer' \in Seq(Frame) /\ Len(buffer') = Len(buffer) + 1
          /\ \A i \in 1..Len(buffer) : buffer'[i] = buffer[i]
          /\ buffer'[Len(buffer) + 1] = frame
      BY <1>1, <1>2, <3>1, AppendProperties
    <3>. QED BY <3>1, <3>2
  <2>2. CASE ~ (Len(buffer) < Capacity)
    <3>1. buffer' = Append(Tail(buffer), frame) /\ buffer # << >> /\ Len(buffer) \in Nat \ {0}
      BY <1>1, <1>2, <2>2, EmptySeq DEF Push
    <3>2. /\ Tail(buffer) \in Seq(Frame) /\ Len(Tail(buffer)) = Len(buffer) - 1
          /\ \A i \in 1..Len(Tail(buffer)) : Tail(buffer)[i] = buffer[i + 1]
      BY <1>1, <3>1, HeadTailProperties
    <3>3. /\ buffer' \in Seq(Frame) /\ Len(buffer') = Len(buffer) - 1 + 1
          /\ \A i \in 1..(Len(buffer) - 1) : buffer'[i] = buffer[i + 1]
          /\ buffer'[Len(buffer) - 1 + 1] = frame
      BY <1>2, <3>1, <3>2, AppendProperties
    <3>4. Len(buffer) - 1 \in Nat /\ 1 \in 0..1
      BY <3>1
    <3>. QED BY <3>3, <3>4
  <2>. QED BY <2>1, <2>2
<1>5. PICK skip \in 0..1 :
         /\ Len(buffer') = Len(buffer) - skip + 1 /\ buffer' \in Seq(Frame)
         /\ \A i \in 1..(Len(buffer) - skip) : buffer'[i] = buffer[i + skip]
         /\ buffer'[Len(buffer) - skip + 1] = frame
         /\ Len(buffer) - skip \in Nat
  BY <1>4
<1>6. DOMAIN buffer' = 1..(Len(buffer) - skip + 1) /\ DOMAIN buffer = 1..Len(buffer)
      /\ Len(buffer) \in Nat
  BY <1>1, <1>5, LenProperties
<1>7. ASSUME NEW i \in DOMAIN buffer', i # Len(buffer) - skip + 1
      PROVE  /\ i \in 1..(Len(buffer) - skip) /\ i + skip \in DOMAIN buffer
             /\ buffer'[i] = buffer[i + skip]
  <2>1. i \in 1..(Len(buffer) - skip)
    BY <1>5, <1>6, <1>7
  <2>2. i + skip \in 1..Len(buffer)
    BY <1>5, <1>6, <2>1
  <2>. QED BY <1>5, <1>6, <2>1, <2>2
<1>8. frame.id = client[c].index + 1 /\ frame.of = c
  OBVIOUS
<1>. HIDE DEF frame
<1>9. ASSUME NEW i \in DOMAIN buffer' PROVE buffer'[i].id <= client'[buffer'[i].of].index
  <2>1. CASE i = Len(buffer) - skip + 1
    BY <1>2, <1>5, <1>8, <2>1
  <2>2. CASE i # Len(buffer) - skip + 1
    <3>1. buffer[i + skip].id <= client[buffer[i + skip].of].index
          /\ buffer[i + skip].of \in Clients
      BY <1>3, <1>7, <2>2 DEF NumberInv, BufferInOrder, Clients
    <3>. QED BY <1>2, <1>3, <1>7, <2>2, <3>1
  <2>. QED BY <2>1, <2>2
<1>10. ASSUME NEW i \in DOMAIN buffer', NEW j \in DOMAIN buffer', i < j,
              buffer'[i].of = buffer'[j].of
       PROVE  buffer'[i].id < buffer'[j].id
  <2>1. i # Len(buffer) - skip + 1 /\ i \in Nat /\ j \in Nat
    BY <1>5, <1>6, <1>10
  <2>2. CASE j = Len(buffer) - skip + 1
    <3>1. buffer[i + skip].of = c
      BY <1>5, <1>7, <1>8, <1>10, <2>1, <2>2
    <3>2. buffer[i + skip].id <= client[c].index
      BY <1>7, <2>1, <3>1 DEF NumberInv, BufferInOrder
    <3>3. buffer'[j].id = client[c].index + 1
      BY <1>5, <1>8, <2>2
    <3>4. buffer'[i].id = buffer[i + skip].id /\ buffer[i + skip].id \in Nat
      BY <1>3, <1>7, <2>1
    <3>. QED BY <1>2, <3>2, <3>3, <3>4
  <2>3. CASE j # Len(buffer) - skip + 1
    <3>1. i + skip < j + skip /\ buffer[i + skip].of = buffer[j + skip].of
      BY <1>7, <1>10, <2>1, <2>3
    <3>. QED BY <1>7, <2>1, <2>3, <3>1 DEF NumberInv, BufferInOrder
  <2>. QED BY <2>2, <2>3
<1>. QED BY <1>9, <1>10 DEF BufferInOrder

LEMMA NumberStep == StreamInv /\ NumberInv /\ [Next]_vars => NumberInv'
<1>. SUFFICES ASSUME StreamInv, NumberInv, [Next]_vars PROVE NumberInv'
  OBVIOUS
<1>1. /\ client \in [Clients -> Connection]
      /\ \A c \in Clients : client[c] \in Connection /\ Placed(c, client[c])
      /\ \A i \in DOMAIN buffer : buffer[i].of \in Responses /\ buffer[i].id \in Nat \ {0}
  <2>1. buffer \in Seq(Frame)
    BY DEF StreamInv, TypeOK
  <2>2. \A i \in DOMAIN buffer : buffer[i] \in Frame
    BY <2>1, ElementOfSeq, LenProperties
  <2>. QED BY <2>2, Bounds DEF StreamInv, TypeOK, Frame
<1>2. Responses \subseteq Clients /\ Responses \cap Subscribers = {}
  BY StreamsAssumption DEF Clients
<1>3. ASSUME NEW c \in Clients,
             Leaves(c) \/ Ends(c) \/ Subscribes(c) \/ Unsubscribes(c) \/ Takes(c)
      PROVE  NumberInv'
  <2>1. ASSUME NEW d \in Responses, client'[d] = [client[d] EXCEPT !.at = "closed"]
        PROVE  SameNumbers(d)
    BY <1>1, <1>2, <2>1 DEF SameNumbers, Connection
  <2>2. CASE Leaves(c) \/ Ends(c)
    <3>1. \A d \in Responses : client'[d] = client[d]
                                \/ client'[d] = [client[d] EXCEPT !.at = "closed"]
      BY <1>1, <1>2, <2>2 DEF Leaves, Ends
    <3>2. \A d \in Responses : SameNumbers(d)
      BY <2>1, <3>1 DEF SameNumbers
    <3>3. DropSession \/ buffer' = buffer
      BY <2>2 DEF Leaves, Ends
    <3>. QED BY <3>2, <3>3, NumbersAlone
  <2>3. CASE Takes(c)
    <3>1. c \in Subscribers
      BY <1>1, <2>3 DEF Takes, Placed
    <3>2. \A d \in Responses : client'[d] = client[d]
      BY <1>1, <1>2, <2>3, <3>1 DEF Takes
    <3>. QED BY <2>3, <3>2, NumbersAlone DEF Takes, SameNumbers
  <2>4. CASE Subscribes(c) \/ Unsubscribes(c)
    <3>1. \A d \in Clients \ {c} : client'[d] = client[d]
      BY <1>1, <2>4 DEF Subscribes, Unsubscribes
    <3>2. client'[c] = [client[c] EXCEPT !.at = "global"]
          \/ client'[c] = [client[c] EXCEPT !.at = "closed"]
      BY <1>1, <2>4 DEF Subscribes, Unsubscribes
    <3>3. SameNumbers(c)
      BY <1>1, <3>2 DEF SameNumbers, Connection
    <3>4. \A d \in Responses : SameNumbers(d)
      BY <1>2, <3>1, <3>3 DEF SameNumbers
    <3>5. buffer' = buffer
      BY <2>4 DEF Subscribes, Unsubscribes
    <3>. QED BY <3>4, <3>5, NumbersAlone
  <2>. QED BY <1>3, <2>2, <2>3, <2>4
<1>4. ASSUME NEW c \in Responses, NEW last \in 0..MaxLast, Opens(c, last) PROVE NumberInv'
  <2>1. /\ \A d \in Clients \ {c} : client'[d] = client[d]
        /\ buffer' = buffer /\ client'[c].at # "new"
    BY <1>1, <1>2, <1>4 DEF Opens, Connection
  <2>2. \A i \in DOMAIN buffer : buffer[i].of # c
    <3>1. client[c].index = 0
      BY <1>4 DEF Opens, NumberInv
    <3>. QED BY <1>1, <3>1 DEF NumberInv, BufferInOrder
  <2>3. BufferInOrder'
    BY <1>1, <1>2, <2>1, <2>2 DEF NumberInv, BufferInOrder
  <2>4. \A d \in Responses \ {c} : SameNumbers(d)
    BY <1>2, <2>1 DEF SameNumbers
  <2>. QED BY <1>4, <2>1, <2>3, <2>4, Resumes, OneResponse
<1>5. ASSUME NEW c \in Clients, Replays(c) PROVE NumberInv'
  <2>1. /\ \A d \in Clients \ {c} : client'[d] = client[d]
        /\ buffer' = buffer /\ client'[c].at # "new"
        /\ client'[c].from = client[c].from /\ client'[c].index = client[c].index
    BY <1>1, <1>5 DEF Replays, Connection
  <2>2. BufferInOrder'
    BY <1>1, <1>2, <2>1 DEF NumberInv, BufferInOrder
  <2>3. \A d \in Responses \ {c} : SameNumbers(d)
    BY <1>2, <2>1 DEF SameNumbers
  <2>4. c \in Responses /\ OneSource(c)' => Counted(c)'
    BY <1>5, <2>1, Replayed DEF NumberInv, OneSource
  <2>. QED BY <2>1, <2>2, <2>3, <2>4, OneResponse
<1>6. ASSUME NEW c \in Clients, Streams(c) \/ Pings(c) PROVE NumberInv'
  <2>1. /\ \A d \in Clients \ {c} : client'[d] = client[d]
        /\ c \in Responses /\ client'[c].at # "new"
        /\ client'[c].from = client[c].from /\ client'[c].index = client[c].index + 1
        /\ client[c].index \in Nat
    <3>1. client[c].index \in Nat /\ c \in Responses
      BY <1>1, <1>6, Bounds DEF Streams, Pings, Connection, Placed
    <3>2. CASE Streams(c)
      BY <1>1, <3>1, <3>2 DEF Streams, Connection
    <3>3. CASE Pings(c)
      BY <1>1, <3>1, <3>3 DEF Pings, Connection
    <3>. QED BY <1>6, <3>2, <3>3
  <2>2. BufferInOrder'
    <3>1. CASE Streams(c)
      BY <2>1, <3>1, KeptInOrder
    <3>2. CASE Pings(c)
      <4>1. buffer' = buffer
        BY <3>2 DEF Pings
      <4>2. ASSUME NEW i \in DOMAIN buffer PROVE buffer[i].id <= client'[buffer[i].of].index
        <5>1. buffer[i].id <= client[buffer[i].of].index /\ buffer[i].of \in Clients
              /\ buffer[i].id \in Nat
          BY <1>1, <1>2 DEF NumberInv, BufferInOrder
        <5>. QED BY <2>1, <5>1
      <4>. QED BY <4>1, <4>2 DEF NumberInv, BufferInOrder
    <3>. QED BY <1>6, <3>1, <3>2
  <2>3. \A d \in Responses \ {c} : SameNumbers(d)
    BY <1>2, <2>1 DEF SameNumbers
  <2>4. OneSource(c)' => Counted(c)'
    BY <1>6, <2>1, SendsNext DEF NumberInv, OneSource
  <2>. QED BY <2>1, <2>2, <2>3, <2>4, OneResponse
<1>7. CASE Announces \/ Stops \/ UNCHANGED vars
  BY <1>7, NumbersAlone DEF Announces, Stops, vars, SameNumbers
<1>. QED BY <1>2, <1>3, <1>4, <1>5, <1>6, <1>7 DEF Next, Step, Clients

\* However many responses of a session are open, resumed or silent at once: a
\* client whose response goes on from one other response is sent no number
\* twice, nor one below another (sse_adapter.py:51).
THEOREM NumbersGoUp == Spec => []NumbersIncrease
<1>1. StreamInv /\ NumberInv => NumbersIncrease
  <2>. SUFFICES ASSUME StreamInv, NumberInv, NEW c \in Responses, OneSource(c),
                       NEW i \in DOMAIN Seen(c), NEW j \in DOMAIN Seen(c), i < j
                PROVE  Seen(c)[i] < Seen(c)[j]
    BY DEF NumbersIncrease, Seen
  <2>1. /\ Seen(c) \in Seq(Nat) /\ Ids(client[c].todo) \in Seq(Nat)
        /\ Len(Seen(c)) \in Nat /\ DOMAIN Seen(c) = 1..Len(Seen(c))
        /\ Len(Ids(client[c].todo)) \in Nat
    BY NumberTypes, IdsOf, LenProperties DEF Clients
  <2>2. /\ \A k \in DOMAIN Seen(c) : Numbers(c)[k] = Seen(c)[k]
        /\ DOMAIN Seen(c) \subseteq DOMAIN Numbers(c)
    BY <2>1, ConcatProperties, LenProperties DEF Numbers
  <2>3. Increasing(Numbers(c))
    BY DEF NumberInv, Counted
  <2>. QED BY <2>2, <2>3 DEF Increasing
<1>. QED BY <1>1, StreamStart, StreamStep, NumberStart, NumberStep, PTL DEF Spec

=============================================================================
