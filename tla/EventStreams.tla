---------------------------- MODULE EventStreams ----------------------------
(***************************************************************************)
(* The event streams of the HTTP API (api/sse_adapter.py and               *)
(* api/routes/sessions.py): responses to messages of one session, which    *)
(* share its ring buffer, and streams of the global events.  The events of *)
(* a response are its request's, numbered; a silence of one heartbeat      *)
(* interval makes a ping and, for a response, ends its request: wait_for   *)
(* cancels the generator it was waiting for.                               *)
(***************************************************************************)
EXTENDS RingBuffer, EventBus

CONSTANTS Responses,            \* connections that send the session a message
          MaxEvents             \* bound: events of a request

\* A connection is to one of the two routes.
ASSUME StreamsAssumption ==
    /\ MaxEvents \in Nat /\ MaxPublished \in Nat
    /\ Responses \cap Subscribers = {}

VARIABLES client,               \* [Clients -> record]: the connections
          stopping              \* has the application begun to shut down?

vars == <<buffer, busVars, client, stopping>>

\* The subscribers of the bus are the connections to the global events.
Clients == Responses \cup Subscribers

\* Bounds: the numbers of frames, and those a client may resume from.
MaxIndex == 2 * MaxEvents
MaxLast == MaxEvents

Frame == [id : 1..MaxIndex, of : Responses, event : 1..MaxEvents]

\* index counts the frames, the pings among them; todo is still to be
\* replayed; last and sent are the number the client named and those it was
\* sent since, from the responses whose frames were kept from that number on;
\* silent says that the request was cancelled by a ping.
NewClient == [at |-> "new", index |-> 0, event |-> 0, todo |-> << >>, last |-> 0,
              from |-> {}, sent |-> << >>]

Connection ==
    [at : {"new", "replay", "live", "silent", "global", "closed"}, index : 0..MaxIndex,
     event : 0..MaxEvents, last : 0..MaxLast, todo : Seq(Frame), from : SUBSET Responses,
     sent : Seq(Nat)]

TypeOK ==
    /\ buffer \in Seq(Frame) /\ Len(buffer) <= Capacity
    /\ BusTypeOK
    /\ client \in [Clients -> Connection]
    /\ stopping \in BOOLEAN

Init ==
    /\ BufferInit
    /\ BusInit
    /\ client = [c \in Clients |-> NewClient]
    /\ stopping = FALSE

-----------------------------------------------------------------------------
(* Responses to messages.                                                  *)

\* The route, with or without Last-Event-ID: what the buffer has after that
\* event is sent first, and the numbering goes on from there.  (A client that
\* names none is as one that names 0, which no frame has.)
Opens(c, last) ==
    /\ client[c].at = "new" /\ ~ stopping
    /\ LET missed == Missed(last)
           kept == {j \in DOMAIN buffer : \E i \in Having(last) : i <= j}
       IN  client' = [client EXCEPT ![c] =
               [@ EXCEPT !.at = IF missed = << >> THEN "live" ELSE "replay",
                         !.todo = missed, !.last = last,
                         !.from = {buffer[j].of : j \in kept},
                         !.index = IF missed = << >> THEN last
                                   ELSE missed[Len(missed)].id]]
    /\ UNCHANGED <<buffer, busVars, stopping>>

Replays(c) ==
    /\ client[c].at = "replay"
    /\ client' = [client EXCEPT
           ![c].sent = Append(@, Head(client[c].todo).id),
           ![c].todo = Tail(@),
           ![c].at = IF Len(client[c].todo) = 1 THEN "live" ELSE "replay"]
    /\ UNCHANGED <<buffer, busVars, stopping>>

\* The request yields its next event.
Streams(c) ==
    /\ client[c].at = "live"
    /\ client[c].event < MaxEvents /\ client[c].index < MaxIndex
    /\ Push([id |-> client[c].index + 1, of |-> c, event |-> client[c].event + 1])
    /\ client' = [client EXCEPT ![c].index = @ + 1, ![c].event = @ + 1,
                                ![c].sent = Append(@, client[c].index + 1)]
    /\ UNCHANGED <<busVars, stopping>>

\* A ping counts as a frame but is not kept.
Pings(c) ==
    /\ client[c].at = "live" /\ client[c].index < MaxIndex
    /\ client' = [client EXCEPT ![c].index = @ + 1, ![c].at = "silent",
                                ![c].sent = Append(@, client[c].index + 1)]
    /\ UNCHANGED <<buffer, busVars, stopping>>

\* The request is over, or was cancelled by the ping before.
Ends(c) ==
    /\ client[c].at \in {"live", "silent"}
    /\ DropSession
    /\ client' = [client EXCEPT ![c].at = "closed"]
    /\ UNCHANGED <<busVars, stopping>>

\* A mistake: the buffer is only dropped at the regular end.
LeavesBuffer(c) ==
    /\ client[c].at \in {"replay", "live", "silent"}
    /\ client' = [client EXCEPT ![c].at = "closed"]
    /\ UNCHANGED <<buffer, busVars, stopping>>

\* The client goes; a replay has nothing to release yet.
Leaves(c) ==
    /\ client[c].at \in {"replay", "live", "silent"}
    /\ IF client[c].at = "replay" THEN UNCHANGED buffer ELSE DropSession
    /\ client' = [client EXCEPT ![c].at = "closed"]
    /\ UNCHANGED <<busVars, stopping>>

-----------------------------------------------------------------------------
(* Streams of the global events.                                           *)

Subscribes(c) ==
    /\ client[c].at = "new" /\ ~ stopping
    /\ AddSubscriber(c)
    /\ client' = [client EXCEPT ![c].at = "global"]
    /\ UNCHANGED <<buffer, stopping>>

\* The next event is sent on, or the stream ends at the None of the shutdown.
\* (A ping takes nothing from the queue.)
Takes(c) ==
    /\ client[c].at = "global" /\ queue[c] # << >>
    /\ IF Head(queue[c]) = 0
       THEN RemoveSubscriber(c) /\ client' = [client EXCEPT ![c].at = "closed"]
       ELSE /\ queue' = [queue EXCEPT ![c] = Tail(@)]
            /\ client' = [client EXCEPT ![c].sent = Append(@, Head(queue[c]))]
            /\ UNCHANGED <<subscribed, published, since>>
    /\ UNCHANGED <<buffer, stopping>>

Unsubscribes(c) ==
    /\ client[c].at = "global"
    /\ RemoveSubscriber(c)
    /\ client' = [client EXCEPT ![c].at = "closed"]
    /\ UNCHANGED <<buffer, stopping>>

\* A title was written (update of a session's title in the background).
Announces ==
    /\ ~ stopping
    /\ Publish
    /\ UNCHANGED <<buffer, client, stopping>>

\* The shutdown of the application, after the background tasks have ended.
Stops ==
    /\ ~ stopping
    /\ stopping' = TRUE
    /\ ShutdownBus
    /\ UNCHANGED <<buffer, client>>

-----------------------------------------------------------------------------

Step(c) == Replays(c) \/ Streams(c) \/ Pings(c) \/ Ends(c) \/ Takes(c)

Next ==
    \/ \E c \in Responses : Leaves(c) \/ \E last \in 0..MaxLast : Opens(c, last)
    \/ \E c \in Subscribers : Subscribes(c) \/ Unsubscribes(c)
    \/ \E c \in Clients : Step(c)
    \/ Announces \/ Stops

Spec == Init /\ [][Next]_vars

\* A request that yields nothing is silent, so each response moves; so does a
\* stream whose queue is not empty.
FairSpec == Spec /\ \A c \in Clients : WF_vars(Step(c))

-----------------------------------------------------------------------------
(* The ring buffer of a session lives as long as its responses: when the    *)
(* last one is over, by its end, a ping or the client's leaving, the buffer *)
(* is gone, whichever response filled or dropped it before                 *)
(* (sse_adapter.py:93).                                                    *)
BufferHasStream ==
    buffer # << >> => \E c \in Responses : client[c].at \in {"live", "silent"}

(* A response that resumes another one's numbering sends each number once   *)
(* and none that its client has seen, if one response only has frames kept  *)
(* from the one its client names on (sse_adapter.py:51); two responses that *)
(* are open at once share numbers, and a client that resumes after both    *)
(* meets some twice (README).                                              *)
OneSource(c) == \A d, e \in client[c].from : d = e

NumbersIncrease ==
    \A c \in Responses :
        LET seen == << client[c].last >> \o client[c].sent IN
        OneSource(c) => \A i, j \in DOMAIN seen : i < j => seen[i] < seen[j]

\* The same of every response: it does not hold of three (sse_adapter.py:88).
NumbersAlwaysIncrease ==
    \A c \in Responses :
        LET seen == << client[c].last >> \o client[c].sent IN
        \A i, j \in DOMAIN seen : i < j => seen[i] < seen[j]

(* A global stream passes on every event published while it is subscribed,  *)
(* once and in order, however often it pings between them, and then the end *)
(* of the shutdown: what it has sent and what is in its queue make up just *)
(* that (sse_adapter.py:108).                                              *)
GlobalComplete ==
    \A c \in subscribed :
        LET events == [i \in 1..(published - since[c]) |-> since[c] + i] IN
        client[c].sent \o queue[c] = IF stopping THEN Append(events, 0) ELSE events

(* When the application stops, the streams that are open come to their end: *)
(* the global ones are told by the bus, the responses end with their       *)
(* requests or their first silence.                                        *)
StreamsEnd ==
    stopping ~> \A c \in Clients : client[c].at \in {"new", "closed"}

=============================================================================
