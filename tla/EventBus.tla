------------------------------ MODULE EventBus ------------------------------
(***************************************************************************)
(* EventBus of eventbus/bus.py: a queue without bound for each subscriber  *)
(* (api/routes/sessions.py, global_events).  Nothing is awaited while its  *)
(* lock is held, so each operation is one step.                            *)
(***************************************************************************)
EXTENDS Naturals, Sequences

CONSTANTS Subscribers,
          MaxPublished          \* bound: events published

VARIABLES subscribed,           \* the queues in _subscribers
          queue,                \* [Subscribers -> Seq of event numbers, 0 for None]
          published,            \* events published so far
          since                 \* history: [Subscribers -> published when subscribing]

busVars == <<subscribed, queue, published, since>>

BusTypeOK ==
    /\ subscribed \subseteq Subscribers
    /\ queue \in [Subscribers -> Seq(0..MaxPublished)]
    /\ published \in 0..MaxPublished
    /\ since \in [Subscribers -> 0..MaxPublished]

BusInit ==
    /\ subscribed = {}
    /\ queue = [c \in Subscribers |-> << >>]
    /\ published = 0
    /\ since = [c \in Subscribers |-> 0]

AddSubscriber(c) ==
    /\ subscribed' = subscribed \cup {c}
    /\ since' = [since EXCEPT ![c] = published]
    /\ UNCHANGED <<queue, published>>

RemoveSubscriber(c) ==
    /\ subscribed' = subscribed \ {c}
    /\ queue' = [queue EXCEPT ![c] = << >>]
    /\ UNCHANGED <<published, since>>

Put(event) ==
    queue' = [c \in Subscribers |-> IF c \in subscribed THEN Append(queue[c], event)
                                    ELSE queue[c]]

\* A mistake: only subscribers that wait for an event are given it.
PublishToWaiting ==
    /\ published < MaxPublished
    /\ published' = published + 1
    /\ queue' = [c \in Subscribers |->
          IF c \in subscribed /\ queue[c] = << >> THEN << published + 1 >> ELSE queue[c]]
    /\ UNCHANGED <<subscribed, since>>

Publish ==
    /\ published < MaxPublished
    /\ published' = published + 1
    /\ Put(published + 1)
    /\ UNCHANGED <<subscribed, since>>

\* A mistake: the bus is shut down by forgetting its subscribers.
ForgetSubscribers ==
    /\ subscribed' = {}
    /\ UNCHANGED <<queue, published, since>>

ShutdownBus ==
    /\ Put(0)
    /\ UNCHANGED <<subscribed, published, since>>

=============================================================================
