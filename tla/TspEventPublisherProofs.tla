----------------------- MODULE TspEventPublisherProofs -----------------------
(***************************************************************************)
(* The event queue loses, repeats and reorders nothing, for any services,  *)
(* capacity and number of events.                                          *)
(*                                                                         *)
(* EventsConserved and CountMatchesQueue are inductive once it is known    *)
(* that the worker holds an event exactly while it pushes it, without the  *)
(* mutex; the count needs the positions of a service in the queue before   *)
(* and after an Append and a Tail.                                         *)
(***************************************************************************)
EXTENDS TspEventPublisher, FiniteSetTheorems, SequenceTheorems, TLAPS

HeldWhilePushing == held # NoEvent <=> worker = "push"

PubInv == PubTypeOK /\ HeldWhilePushing /\ EventsConserved /\ CountMatchesQueue

(* The places of a service in a queue. *)
Places(q, s) == {i \in DOMAIN q : q[i].service = s}

-----------------------------------------------------------------------------
(* The places of a service are finitely many, and none exceeds the length. *)
LEMMA PlacesFinite ==
    ASSUME NEW q \in Seq(Event), NEW s
    PROVE  /\ IsFiniteSet(Places(q, s)) /\ Cardinality(Places(q, s)) \in Nat
           /\ Places(q, s) \in SUBSET (1 .. Len(q))
<1>1. Places(q, s) \in SUBSET (1 .. Len(q))
  BY DEF Places
<1>2. Len(q) \in Nat /\ IsFiniteSet(1 .. Len(q))
  BY FS_Interval
<1>3. IsFiniteSet(Places(q, s))
  BY <1>1, <1>2, FS_Subset
<1>. QED
  BY <1>1, <1>3, FS_CardinalityType

(* An event that is appended adds a place to its service only. *)
LEMMA PlacesAppend ==
    ASSUME NEW q \in Seq(Event), NEW e \in Event, NEW s
    PROVE  Cardinality(Places(Append(q, e), s)) =
             IF e.service = s THEN Cardinality(Places(q, s)) + 1 ELSE Cardinality(Places(q, s))
<1>. DEFINE n == Len(q) + 1
            p == Append(q, e)
<1>1. /\ p \in Seq(Event) /\ Len(p) = n /\ Len(q) \in Nat /\ p[n] = e
      /\ \A i \in 1 .. Len(q) : p[i] = q[i]
  BY AppendProperties
<1>2. DOMAIN p = 1 .. n /\ DOMAIN q = 1 .. Len(q)
  BY <1>1
<1>. HIDE DEF p
<1>3. CASE e.service = s
  <2>1. \A i : i \in Places(p, s) <=> i \in Places(q, s) \/ i = n
    BY <1>1, <1>2, <1>3 DEF Places
  <2>2. n \notin Places(q, s)
    BY <1>1, <1>2 DEF Places
  <2>3. Places(p, s) = Places(q, s) \cup {n}
    BY <2>1
  <2>4. IsFiniteSet(Places(q, s))
    BY PlacesFinite
  <2>5. Cardinality(Places(q, s) \cup {n}) = Cardinality(Places(q, s)) + 1
    BY <2>2, <2>4, FS_AddElement, Zenon
  <2>. QED
    BY <1>3, <2>3, <2>5, Zenon DEF p
<1>4. CASE e.service # s
  <2>1. Places(p, s) = Places(q, s)
    BY <1>1, <1>2, <1>4 DEF Places
  <2>. QED
    BY <1>4, <2>1 DEF p
<1>. QED
  BY <1>3, <1>4

(* The event that is taken takes a place from its service only. *)
LEMMA PlacesTail ==
    ASSUME NEW q \in Seq(Event), q # <<>>, NEW s
    PROVE  /\ Cardinality(Places(Tail(q), s)) =
                IF Head(q).service = s THEN Cardinality(Places(q, s)) - 1
                ELSE Cardinality(Places(q, s))
           /\ Head(q).service = s => Cardinality(Places(q, s)) > 0
<1>. DEFINE p == Tail(q)
            A == Places(p, s)
            B == Places(q, s) \ {1}
            f == [i \in A |-> i + 1]
<1>1. /\ p \in Seq(Event) /\ Len(p) = Len(q) - 1 /\ Len(q) \in Nat /\ Len(q) > 0
      /\ \A i \in 1 .. Len(p) : p[i] = q[i + 1]
  BY HeadTailProperties, EmptySeq
<1>2. DOMAIN p = 1 .. (Len(q) - 1) /\ DOMAIN q = 1 .. Len(q) /\ Head(q) = q[1]
  BY <1>1
<1>. HIDE DEF p
<1>3. \A i \in A : i \in 1 .. (Len(q) - 1) /\ i + 1 \in B
  BY <1>1, <1>2 DEF Places
<1>4. \A j \in B : j - 1 \in A /\ j \in Nat /\ f[j - 1] = j
  BY <1>1, <1>2 DEF Places
<1>5. f \in Bijection(A, B)
  <2>1. f \in [A -> B]
    BY <1>3
  <2>2. \A i, j \in A : f[i] = f[j] => i = j
    BY <1>1, <1>3
  <2>3. \A j \in B : \E i \in A : f[i] = j
    BY <1>4
  <2>. HIDE DEF f, A, B
  <2>. QED
    BY <2>1, <2>2, <2>3 DEF Bijection, Injection, Surjection, IsInjective
<1>6. IsFiniteSet(A)
  BY <1>1, PlacesFinite
<1>7. Cardinality(B) = Cardinality(A)
  <2>. HIDE DEF f, A, B
  <2>. QED
    BY <1>5, <1>6, FS_Bijection DEF ExistsBijection
<1>8. 1 \in Places(q, s) <=> Head(q).service = s
  BY <1>1, <1>2 DEF Places
<1>9. Cardinality(B) = IF 1 \in Places(q, s) THEN Cardinality(Places(q, s)) - 1
                       ELSE Cardinality(Places(q, s))
  BY PlacesFinite, FS_RemoveElement
<1>10. 1 \in Places(q, s) => Cardinality(Places(q, s)) > 0
  <2>1. IsFiniteSet(Places(q, s)) /\ Cardinality(Places(q, s)) \in Nat
    BY PlacesFinite
  <2>. QED
    BY <2>1, FS_EmptySet
<1>. HIDE DEF A, B
<1>. QED
  BY <1>7, <1>8, <1>9, <1>10 DEF A, p

-----------------------------------------------------------------------------
(* The invariant when the queue and the counters are left alone. *)
LEMMA PubQuiet ==
    ASSUME PubInv, UNCHANGED <<queue, service_count, held, accepted, handled>>,
           running' \in BOOLEAN, stop' \in {"idle", "notify", "join"},
           worker' \in {"none", "test", "tested", "waiting", "push", "exited"},
           worker' = "push" <=> worker = "push"
    PROVE  PubInv'
  BY DEF PubInv, PubTypeOK, HeldWhilePushing, EventsConserved, CountMatchesQueue, InHand

(* publish_vehicle_message queues behind everything accepted before. *)
LEMMA PubEnqueues ==
    ASSUME PubInv, NEW s \in Services, PublishEnqueues(s)
    PROVE  PubInv'
<1>. DEFINE e == [service |-> s, seq |-> accepted + 1]
<1>. USE DEF PubInv
<1>1. /\ queue' = Append(queue, e) /\ service_count' = [service_count EXCEPT ![s] = @ + 1]
      /\ accepted' = accepted + 1 /\ service_count[s] < queue_capacity
      /\ UNCHANGED <<running, worker, held, stop, handled>>
  BY DEF PublishEnqueues, Enqueue
<1>2. accepted \in Nat /\ queue \in Seq(Event) /\ e \in Event /\ e.service = s /\ e.seq = accepted + 1
  BY DEF PubTypeOK, Event
<1>. HIDE DEF e
<1>3. /\ queue' \in Seq(Event) /\ Len(queue') = Len(queue) + 1 /\ Len(queue) \in Nat
      /\ \A i \in 1 .. Len(queue) : queue'[i] = queue[i]
      /\ queue'[Len(queue) + 1] = e
  BY <1>1, <1>2, AppendProperties
<1>4. PubTypeOK' /\ HeldWhilePushing'
  BY <1>1, <1>3 DEF PubTypeOK, HeldWhilePushing
<1>5. EventsConserved'
  <2>1. InHand \in {0, 1} /\ InHand' = InHand /\ handled' = handled /\ handled \in Nat
    BY <1>1 DEF InHand, PubTypeOK
  <2>2. accepted' = handled' + InHand' + Len(queue')
    BY <1>1, <1>3, <2>1 DEF EventsConserved
  <2>3. held' # NoEvent => held'.seq = handled' + 1
    BY <1>1 DEF EventsConserved
  <2>4. DOMAIN queue = 1 .. Len(queue) /\ DOMAIN queue' = 1 .. (Len(queue) + 1)
    BY <1>2, <1>3
  <2>5. ASSUME NEW i \in DOMAIN queue' PROVE queue'[i].seq = handled' + InHand' + i
    <3>1. CASE i \in 1 .. Len(queue)
      BY <1>3, <2>1, <2>4, <3>1 DEF EventsConserved
    <3>2. CASE i = Len(queue) + 1
      BY <1>2, <1>3, <2>1, <3>2 DEF EventsConserved
    <3>. QED
      BY <1>3, <2>4, <3>1, <3>2
  <2>. QED
    BY <2>2, <2>3, <2>5 DEF EventsConserved
<1>6. CountMatchesQueue'
  <2>. SUFFICES ASSUME NEW t \in Services
                PROVE  /\ service_count'[t] = Cardinality(Places(queue', t))
                       /\ service_count'[t] <= queue_capacity
    BY DEF CountMatchesQueue, Places
  <2>1. service_count[t] = Cardinality(Places(queue, t)) /\ service_count[t] <= queue_capacity
    BY DEF CountMatchesQueue, Places
  <2>2. Cardinality(Places(queue', t)) = IF s = t THEN Cardinality(Places(queue, t)) + 1
                                         ELSE Cardinality(Places(queue, t))
    BY <1>1, <1>2, PlacesAppend
  <2>3. service_count'[t] = IF s = t THEN service_count[t] + 1 ELSE service_count[t]
    BY <1>1 DEF PubTypeOK
  <2>4. service_count[t] \in Nat /\ queue_capacity \in Nat
    BY PublisherAssumption DEF PubTypeOK
  <2>. QED
    BY <1>1, <2>1, <2>2, <2>3, <2>4
<1>. QED
  BY <1>4, <1>5, <1>6

(* worker_loop takes the oldest event and gives back its place. *)
LEMMA PubTakes == ASSUME PubInv, WorkerTakes PROVE PubInv'
<1>. USE DEF PubInv
<1>1. /\ worker = "test" /\ queue # <<>> /\ held' = Head(queue) /\ queue' = Tail(queue)
      /\ service_count' = [service_count EXCEPT
             ![Head(queue).service] = IF @ > 0 THEN @ - 1 ELSE @]
      /\ worker' = "push" /\ UNCHANGED <<running, stop, accepted, handled>>
  BY DEF WorkerTakes, Taken
<1>2. /\ queue \in Seq(Event) /\ Head(queue) \in Event /\ Head(queue) = queue[1]
      /\ queue' \in Seq(Event) /\ Len(queue') = Len(queue) - 1
      /\ \A i \in 1 .. Len(queue') : queue'[i] = queue[i + 1]
  BY <1>1, HeadTailProperties DEF PubTypeOK
<1>3. /\ Len(queue) \in Nat /\ Len(queue) > 0
      /\ DOMAIN queue = 1 .. Len(queue) /\ DOMAIN queue' = 1 .. Len(queue')
  BY <1>1, <1>2, EmptySeq
<1>4. held = NoEvent /\ held' # NoEvent
  BY <1>1, <1>2, PublisherAssumption DEF HeldWhilePushing
<1>5. PubTypeOK' /\ HeldWhilePushing'
  <2>1. service_count' \in [Services -> Nat]
    BY <1>1, <1>2 DEF PubTypeOK, Event
  <2>. QED
    BY <1>1, <1>2, <1>4, <2>1 DEF PubTypeOK, HeldWhilePushing
<1>6. EventsConserved'
  <2>1. InHand = 0 /\ InHand' = 1 /\ handled' = handled /\ accepted' = accepted
    BY <1>1, <1>4 DEF InHand
  <2>2. handled \in Nat /\ accepted \in Nat
    BY DEF PubTypeOK
  <2>3. accepted' = handled' + InHand' + Len(queue')
    BY <1>2, <1>3, <2>1, <2>2 DEF EventsConserved
  <2>4. held'.seq = handled' + 1
    BY <1>1, <1>2, <1>3, <2>1, <2>2 DEF EventsConserved
  <2>5. ASSUME NEW i \in DOMAIN queue' PROVE queue'[i].seq = handled' + InHand' + i
    <3>1. i \in 1 .. Len(queue') /\ i \in Nat /\ i + 1 \in DOMAIN queue
      BY <1>2, <1>3
    <3>2. queue[i + 1].seq = handled + 0 + (i + 1)
      BY <2>1, <3>1, Zenon DEF EventsConserved
    <3>3. queue'[i] = queue[i + 1]
      BY <1>2, <3>1
    <3>. QED
      BY <2>1, <2>2, <3>1, <3>2, <3>3
  <2>. QED
    BY <2>3, <2>4, <2>5 DEF EventsConserved
<1>7. CountMatchesQueue'
  <2>. SUFFICES ASSUME NEW t \in Services
                PROVE  /\ service_count'[t] = Cardinality(Places(queue', t))
                       /\ service_count'[t] <= queue_capacity
    BY DEF CountMatchesQueue, Places
  <2>1. service_count[t] = Cardinality(Places(queue, t)) /\ service_count[t] <= queue_capacity
    BY DEF CountMatchesQueue, Places
  <2>2. /\ Cardinality(Places(queue', t)) = IF Head(queue).service = t
                                            THEN Cardinality(Places(queue, t)) - 1
                                            ELSE Cardinality(Places(queue, t))
        /\ Head(queue).service = t => Cardinality(Places(queue, t)) > 0
    BY <1>1, <1>2, PlacesTail
  <2>3. service_count'[t] = IF Head(queue).service = t
                            THEN IF service_count[t] > 0 THEN service_count[t] - 1
                                                         ELSE service_count[t]
                            ELSE service_count[t]
    BY <1>1 DEF PubTypeOK
  <2>4. service_count[t] \in Nat /\ queue_capacity \in Nat
    BY PublisherAssumption DEF PubTypeOK
  <2>. QED
    BY <2>1, <2>2, <2>3, <2>4
<1>. QED
  BY <1>5, <1>6, <1>7

(* The event in hand is handled and let go. *)
LEMMA PubPushes == ASSUME PubInv, WorkerPushes PROVE PubInv'
<1>. USE DEF PubInv
<1>1. /\ worker = "push" /\ handled' = handled + 1 /\ held' = NoEvent /\ worker' = "test"
      /\ UNCHANGED <<queue, service_count, running, stop, accepted>>
  BY DEF WorkerPushes
<1>2. PubTypeOK' /\ HeldWhilePushing' /\ CountMatchesQueue'
  <2>1. PubTypeOK' /\ HeldWhilePushing'
    BY <1>1 DEF PubTypeOK, HeldWhilePushing
  <2>2. CountMatchesQueue'
    BY <1>1, Zenon DEF CountMatchesQueue
  <2>. QED
    BY <2>1, <2>2
<1>3. EventsConserved'
  <2>1. InHand = 1 /\ InHand' = 0
    BY <1>1 DEF InHand, HeldWhilePushing
  <2>2. handled \in Nat /\ Len(queue) \in Nat /\ DOMAIN queue = 1 .. Len(queue)
    BY DEF PubTypeOK
  <2>. QED
    BY <1>1, <2>1, <2>2 DEF EventsConserved
<1>. QED
  BY <1>2, <1>3

(* No step of a publisher, the worker or stop() breaks the invariant. *)
LEMMA PubStep == ASSUME PubInv, [PubNext]_pubVars PROVE PubInv'
<1>1. ASSUME NEW s \in Services, PublishFull(s) PROVE PubInv'
  BY <1>1, PubQuiet DEF PublishFull, pubVars, PubInv, PubTypeOK
<1>2. CASE PublishNotifies
  BY <1>2, PubQuiet DEF PublishNotifies, Notified, PubInv, PubTypeOK
<1>3. CASE WorkerExits \/ WorkerSleeps \/ SpuriousWakeup
  BY <1>3, PubQuiet DEF WorkerExits, WorkerSleeps, SpuriousWakeup, PubInv, PubTypeOK
<1>4. CASE PublisherStarts
  BY <1>4, PubQuiet DEF PublisherStarts, PubInv, PubTypeOK
<1>5. CASE StopPublisher
  BY <1>5, PubQuiet DEF StopPublisher, StopClearsRunning, StopNotifies, StopJoins,
     Notified, PubInv, PubTypeOK
<1>6. CASE UNCHANGED pubVars
  BY <1>6, PubQuiet DEF pubVars, PubInv, PubTypeOK
<1>. QED
  BY <1>1, <1>2, <1>3, <1>4, <1>5, <1>6, PubEnqueues, PubTakes, PubPushes
     DEF PubNext, Worker

LEMMA PubStart == ASSUME PubInit PROVE PubInv
<1>. USE DEF PubInit
<1>1. PubTypeOK /\ HeldWhilePushing
  BY EmptySeq DEF PubTypeOK, HeldWhilePushing
<1>2. Len(queue) = 0 /\ DOMAIN queue = {}
  BY EmptySeq
<1>3. EventsConserved
  BY <1>2 DEF EventsConserved, InHand
<1>4. CountMatchesQueue
  BY <1>2, FS_EmptySet, PublisherAssumption DEF CountMatchesQueue
<1>. QED
  BY <1>1, <1>3, <1>4 DEF PubInv

(* THEOREM.  However publishers, the worker, notifications and stop()        *)
(* interleave, the publisher of tsp_event_publisher.cpp keeps its events.    *)
THEOREM PublisherInvariance == PubSpec => []PubInv
  BY PubStart, PubStep, PTL DEF PubSpec

=============================================================================
