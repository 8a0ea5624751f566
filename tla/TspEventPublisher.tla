-------------------------- MODULE TspEventPublisher --------------------------
(***************************************************************************)
(* tsp_event_publisher.cpp: the queue between the MQTT callback and the    *)
(* worker that pushes EVENT envelopes to the subscribed clients.           *)
(*                                                                         *)
(* mutex_ guards queue_ and service_count_.  running_ is an atomic that    *)
(* start() and stop() write without the mutex, so stop() can fall between  *)
(* the worker's test of running_ and its wait: the place "tested", in      *)
(* which the worker still holds the mutex.                                 *)
(*                                                                         *)
(* Events are numbered in the order in which they are accepted.            *)
(***************************************************************************)
EXTENDS Naturals, Sequences, FiniteSets

CONSTANTS
    Services,        \* the keys of service_count_
    queue_capacity,  \* events per service
    MaxEvents,       \* bound: events accepted
    NoEvent

Event == [service: Services, seq: Nat]

ASSUME PublisherAssumption ==
    /\ queue_capacity \in Nat \ {0}
    /\ MaxEvents \in Nat
    /\ NoEvent \notin Event

VARIABLES
    queue,          \* queue_
    service_count,  \* service_count_
    running,        \* running_
    worker,         \* where the worker thread is
    held,           \* the event the worker has taken from the queue
    stop,           \* the progress of stop()
    accepted,       \* history: number of events accepted
    handled         \* history: number of events pushed, or given up with a log

pubVars == <<queue, service_count, running, worker, held, stop, accepted,
             handled>>

PubTypeOK ==
    /\ queue \in Seq(Event)
    /\ service_count \in [Services -> Nat]
    /\ running \in BOOLEAN
    /\ worker \in {"none", "test", "tested", "waiting", "push", "exited"}
    /\ held \in Event \cup {NoEvent}
    /\ stop \in {"idle", "notify", "join"}
    /\ accepted \in Nat /\ handled \in Nat

PubInit ==
    /\ queue = <<>>
    /\ service_count = [s \in Services |-> 0]
    /\ running = FALSE
    /\ worker = "none"
    /\ held = NoEvent
    /\ stop = "idle"
    /\ accepted = 0 /\ handled = 0

-----------------------------------------------------------------------------
(* publish_vehicle_message, on the thread of the caller.  A full queue only  *)
(* changes what the caller is told: kReject returns false, kDrop and         *)
(* kDisconnect return true; the event is lost in either case.                *)

mutex_free == worker # "tested"

Enqueue(s) ==
    /\ accepted < MaxEvents
    /\ queue' = Append(queue, [service |-> s, seq |-> accepted + 1])
    /\ service_count' = [service_count EXCEPT ![s] = @ + 1]
    /\ accepted' = accepted + 1
    /\ UNCHANGED <<running, worker, held, stop, handled>>

(* Mutant: the event is appended without the mutex. *)
PublishEnqueues_unlocked(s) == service_count[s] < queue_capacity /\ Enqueue(s)

(* Mutant: the queue may hold one event more. *)
PublishEnqueues_overfull(s) ==
    mutex_free /\ service_count[s] <= queue_capacity /\ Enqueue(s)

PublishEnqueues(s) ==
    /\ mutex_free
    /\ service_count[s] < queue_capacity
    /\ Enqueue(s)

PublishFull(s) ==
    /\ mutex_free
    /\ service_count[s] >= queue_capacity
    /\ UNCHANGED pubVars

(* cv_.notify_one() and cv_.notify_all(): only a worker that waits hears it. *)
Notified == IF worker = "waiting" THEN "test" ELSE worker

PublishNotifies ==
    /\ worker' = Notified
    /\ UNCHANGED <<queue, service_count, running, held, stop, accepted,
                   handled>>

-----------------------------------------------------------------------------
(* worker_loop *)

Taken(e, rest) ==
    /\ worker = "test" /\ queue # <<>>
    /\ held' = e
    /\ queue' = rest
    /\ service_count' = [service_count EXCEPT
          ![e.service] = IF @ > 0 THEN @ - 1 ELSE @]
    /\ worker' = "push"
    /\ UNCHANGED <<running, stop, accepted, handled>>

(* Mutant: the newest event is taken first. *)
WorkerTakes_newest ==
    Taken(queue[Len(queue)], SubSeq(queue, 1, Len(queue) - 1))

(* The predicate of the wait holds, at once or after a wakeup. *)
WorkerTakes == Taken(Head(queue), Tail(queue))

WorkerExits ==
    /\ worker = "test"
    /\ queue = <<>> /\ ~running
    /\ worker' = "exited"
    /\ UNCHANGED <<queue, service_count, running, held, stop, accepted,
                   handled>>

(* The predicate is false: the worker still holds the mutex, then waits. *)
WorkerSleeps ==
    /\ \/ /\ worker = "test" /\ queue = <<>> /\ running
          /\ worker' = "tested"
       \/ worker = "tested" /\ worker' = "waiting"
    /\ UNCHANGED <<queue, service_count, running, held, stop, accepted,
                   handled>>

(* A condition variable may wake without a notification. *)
SpuriousWakeup ==
    /\ worker = "waiting"
    /\ worker' = "test"
    /\ UNCHANGED <<queue, service_count, running, held, stop, accepted,
                   handled>>

(* push_fn_ sends the event or fails, which is only logged. *)
WorkerPushes ==
    /\ worker = "push"
    /\ handled' = handled + 1
    /\ held' = NoEvent
    /\ worker' = "test"
    /\ UNCHANGED <<queue, service_count, running, stop, accepted>>

Worker == WorkerTakes \/ WorkerExits \/ WorkerSleeps \/ WorkerPushes

-----------------------------------------------------------------------------
(* start() and stop() *)

PublisherStarts ==
    /\ ~running
    /\ worker = "none"
    /\ running' = TRUE
    /\ worker' = "test"
    /\ UNCHANGED <<queue, service_count, held, stop, accepted, handled>>

StopClearsRunning ==
    /\ running /\ stop = "idle"
    /\ running' = FALSE
    /\ stop' = "notify"
    /\ UNCHANGED <<queue, service_count, worker, held, accepted, handled>>

(* Mutant: stop() does not wake the worker. *)
StopNotifies_silent ==
    /\ stop = "notify"
    /\ stop' = "join"
    /\ UNCHANGED <<queue, service_count, running, worker, held, accepted,
                   handled>>

StopNotifies ==
    /\ stop = "notify"
    /\ stop' = "join"
    /\ worker' = Notified
    /\ UNCHANGED <<queue, service_count, running, held, accepted, handled>>

StopJoins ==
    /\ stop = "join"
    /\ worker = "exited"
    /\ stop' = "idle"
    /\ UNCHANGED <<queue, service_count, running, worker, held, accepted,
                   handled>>

StopPublisher == StopClearsRunning \/ StopNotifies \/ StopJoins

(* A later stop() finds running_ false and returns at once. *)
publisher_stopped == ~running /\ stop = "idle"

PubNext ==
    \/ \E s \in Services : PublishEnqueues(s) \/ PublishFull(s)
    \/ PublishNotifies
    \/ Worker \/ SpuriousWakeup
    \/ PublisherStarts \/ StopPublisher

PubSpec == PubInit /\ [][PubNext]_pubVars

-----------------------------------------------------------------------------
InHand == IF held = NoEvent THEN 0 ELSE 1

(* Every accepted event is in the queue, in the hands of the worker or       *)
(* handled, exactly once, and events leave in the order of their acceptance, *)
(* whatever service they belong to (publish_vehicle_message, worker_loop).   *)
EventsConserved ==
    /\ accepted = handled + InHand + Len(queue)
    /\ held # NoEvent => held.seq = handled + 1
    /\ \A i \in DOMAIN queue : queue[i].seq = handled + InHand + i

(* service_count_ is the number of queued events of each service, so the     *)
(* bound holds per service and a service whose events are taken can always   *)
(* publish again.                                                            *)
CountMatchesQueue ==
    \A s \in Services :
       /\ service_count[s] = Cardinality({i \in DOMAIN queue : queue[i].service = s})
       /\ service_count[s] <= queue_capacity

(* The wakeup stop() loses: notify_all came between the test of running_ and *)
(* the wait, and the worker goes on to wait.                                 *)
MissedNotify == worker = "tested" /\ stop = "join"
=============================================================================
