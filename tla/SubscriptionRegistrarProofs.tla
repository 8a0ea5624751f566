-------------------- MODULE SubscriptionRegistrarProofs --------------------
(***************************************************************************)
(* A generation names one content, for every catalogue and any number of   *)
(* changes, restarts and lost answers.                                     *)
(*                                                                         *)
(* GenerationNamesDigest is not inductive: that the next generation is new *)
(* to the daemon follows from where the generations it knows come from.    *)
(* StoreInv says so: with a working store what runs is what is stored, a   *)
(* change between submission and save has the generation after it, and all *)
(* else the daemon took, or the registrar remembers as accepted, is not    *)
(* newer than the store, unless the process died before the save.          *)
(***************************************************************************)
EXTENDS SubscriptionRegistrar, TLAPS

(* What runs is what is stored, and what is pending comes next. *)
RunsStored ==
    /\ up => cur = stored
    /\ pending # None => up /\ pending.gen = stored.gen + 1

(* Where the snapshots come from that the daemon has accepted. *)
Known(a) == a \in lost \/ a.gen <= stored.gen \/ (pending # None /\ a = pending)
TookKnown ==
    \A a \in took : Known(a) /\ (a.gen = stored.gen => a = stored \/ a \in lost)

AcceptedKnown == acc.gen <= stored.gen \/ (pending # None /\ acc = pending)

StoreInv == ready => RunsStored /\ TookKnown /\ AcceptedKnown /\ GenerationNamesDigest

RegistrarInv == TypeOK /\ StoreInv

-----------------------------------------------------------------------------
(* What the builder makes of a catalogue is a snapshot: the one it started   *)
(* from, or one with the next generation.                                    *)
LEMMA Built ==
    ASSUME NEW d \in Digests, NEW s \in Snapshot
    PROVE  /\ build(d, s) \in Snapshot /\ build(d, s) # None
           /\ build(d, s).digest = d
           /\ build(d, s) = s \/ build(d, s).gen = s.gen + 1
           /\ d # s.digest => build(d, s).gen = s.gen + 1
  BY RegistrarAssumption DEF build, Snapshot, None

LEMMA NoneType == None \in Snapshot
  BY DEF None, Snapshot

(* What a submission of s may do, whatever the answer. *)
LEMMA Submitted ==
    ASSUME NEW s \in Snapshot, NEW a \in Snapshot, NEW r \in Results,
           daemon \in Snapshot, submit_snapshot_locked(s, a, r)
    PROVE  /\ state' \in States /\ acc' \in {a, s} /\ daemon' \in {daemon, s}
           /\ took' \in {took, took \cup {s}}
           /\ r = "REJECTED" => took' = took /\ acc' = a
  BY DEF submit_snapshot_locked, replaceSubscriptionSnapshot, Takes, Leaves, Results, States

-----------------------------------------------------------------------------
(* Every step of the registrar, the daemon and the environment keeps every   *)
(* variable in its domain.                                                   *)
LEMMA TypeStep == ASSUME TypeOK, [Next]_vars PROVE TypeOK'
<1>. USE NoneType DEF TypeOK, tsp, env, Polls
<1>l. load \in Snapshot
  BY DEF load
<1>1. CASE start
  <2>. DEFINE s == build(config, load)
  <2>1. s \in Snapshot /\ s # None
    BY <1>l, Built
  <2>2. PICK r \in Results : submit_snapshot_locked(s, None, r) /\ schedule_retry(r)
    BY <1>1 DEF start
  <2>3. /\ cur' = s /\ stored' \in {s, stored} /\ up' = TRUE /\ poll' = "idle"
        /\ last' = connected /\ UNCHANGED <<pending, lost, restarts, changes, ready, config, connected>>
    BY <1>1 DEF start, save
  <2>4. due' \in BOOLEAN
    BY <2>2 DEF schedule_retry
  <2>. HIDE DEF s
  <2>5. state' \in States /\ acc' \in Snapshot /\ daemon' \in Snapshot /\ took' \subseteq Snapshot
    BY <2>1, <2>2, Submitted
  <2>. QED
    BY <2>1, <2>3, <2>4, <2>5
<1>2. CASE PollReads
  BY <1>2 DEF PollReads
<1>3. CASE PollCompares
  BY <1>3 DEF PollCompares, States
<1>4. CASE PollSubmits
  <2>1. PICK r \in Results : submit_snapshot_locked(cur, acc, r) /\ schedule_retry(r)
    BY <1>4 DEF PollSubmits
  <2>2. poll' = "idle" /\ UNCHANGED <<up, stored, pending, lost, cur, last, restarts, changes, ready, config, connected>>
    BY <1>4 DEF PollSubmits
  <2>3. due' \in BOOLEAN
    BY <2>1 DEF schedule_retry
  <2>4. state' \in States /\ acc' \in Snapshot /\ daemon' \in Snapshot /\ took' \subseteq Snapshot
    BY <2>1, Submitted
  <2>. QED
    BY <2>2, <2>3, <2>4
<1>5. CASE PollEnds
  BY <1>5 DEF PollEnds
<1>6. ASSUME NEW d \in Digests, ApplySubmits(d) PROVE TypeOK'
  <2>. DEFINE s == build(d, load)
  <2>1. s \in Snapshot
    BY <1>l, Built
  <2>2. PICK r \in Results : /\ submit_snapshot_locked(s, acc, r) /\ schedule_retry(r)
                             /\ pending' \in {None, s}
    BY <1>6 DEF ApplySubmits
  <2>3. /\ changes < MaxChanges /\ changes' = changes + 1
        /\ UNCHANGED <<up, restarts, ready, config, connected, stored, poll, lost, cur, last>>
    BY <1>6 DEF ApplySubmits
  <2>4. due' \in BOOLEAN
    BY <2>2 DEF schedule_retry
  <2>5. changes' \in 0..MaxChanges
    BY <2>3, RegistrarAssumption
  <2>. HIDE DEF s
  <2>6. state' \in States /\ acc' \in Snapshot /\ daemon' \in Snapshot /\ took' \subseteq Snapshot
    BY <2>1, <2>2, Submitted
  <2>. QED
    BY <2>1, <2>2, <2>3, <2>4, <2>5, <2>6
<1>7. CASE ApplySaves
  <2>1. /\ cur' = pending /\ pending # None /\ stored' \in {stored, pending} /\ pending' = None
        /\ UNCHANGED <<up, poll, acc, state, due, last, daemon, took, lost,
                       restarts, changes, ready, config, connected>>
    BY <1>7 DEF ApplySaves, save
  <2>. QED
    BY <2>1
<1>8. CASE BackoffPasses
  BY <1>8 DEF BackoffPasses
<1>9. CASE Ends
  <2>1. restarts' \in 0..MaxRestarts
    BY <1>9, RegistrarAssumption DEF Ends
  <2>2. lost' \subseteq Snapshot
    BY <1>9 DEF Ends
  <2>. QED
    BY <1>9, <2>1, <2>2 DEF Ends, States
<1>10. CASE ConfigChanges
  BY <1>10 DEF ConfigChanges
<1>11. CASE Disconnect
  BY <1>11 DEF Disconnect
<1>12. CASE Connect
  BY <1>12 DEF Connect
<1>13. CASE UNCHANGED vars
  BY <1>13 DEF vars
<1>. QED
  BY <1>1, <1>2, <1>3, <1>4, <1>5, <1>6, <1>7, <1>8, <1>9, <1>10, <1>11, <1>12, <1>13
     DEF Next, Poll

(* A submission of the stored snapshot, which start() has just saved or the  *)
(* monitor repeats, tells the daemon nothing that could collide.             *)
LEMMA SubmitStored ==
    ASSUME TypeOK, ready, TookKnown, GenerationNamesDigest, pending = None,
           NEW s \in Snapshot, s = stored \/ s.gen = stored.gen + 1,
           stored' = s, took' \in {took, took \cup {s}}, UNCHANGED <<lost, pending, ready>>
    PROVE  TookKnown' /\ GenerationNamesDigest'
<1>. USE DEF TypeOK, Snapshot
<1>1. stored.gen \in Nat /\ s.gen \in Nat /\ stored.gen <= s.gen
  OBVIOUS
<1>2. ASSUME NEW a \in took PROVE a.gen \in Nat /\ (a \in lost \/ a.gen <= stored.gen)
  BY DEF TookKnown, Known
<1>3. ASSUME NEW a \in took, a.gen = s.gen PROVE a = s \/ a \in lost
  BY <1>1, <1>2, <1>3 DEF TookKnown
<1>4. TookKnown'
  BY <1>1, <1>2, <1>3 DEF TookKnown, Known
<1>5. GenerationNamesDigest'
  BY <1>3 DEF GenerationNamesDigest
<1>. QED
  BY <1>4, <1>5

(* Every step keeps the store ahead of the daemon. *)
LEMMA StoreStep == ASSUME RegistrarInv, [Next]_vars PROVE StoreInv'
<1>. USE DEF RegistrarInv, StoreInv, tsp, env
<1>. SUFFICES ASSUME ready' PROVE RunsStored' /\ TookKnown' /\ AcceptedKnown' /\ GenerationNamesDigest'
  OBVIOUS
<1>r. ready
  BY DEF Next, Poll, start, PollReads, PollCompares, PollSubmits, PollEnds, ApplySubmits,
     ApplySaves, BackoffPasses, Ends, ConfigChanges, Disconnect, Connect, vars
<1>l. load = stored /\ stored \in Snapshot /\ acc \in Snapshot /\ cur \in Snapshot /\ daemon \in Snapshot
      /\ pending \in Snapshot
  BY <1>r DEF load, TypeOK
<1>n. stored.gen \in Nat /\ acc.gen \in Nat /\ pending.gen \in Nat
  BY <1>l DEF Snapshot
<1>0. ASSUME UNCHANGED <<up, cur, stored, pending, took, lost, acc>>
      PROVE  RunsStored' /\ TookKnown' /\ AcceptedKnown' /\ GenerationNamesDigest'
  BY <1>0, <1>r DEF RunsStored, TookKnown, Known, AcceptedKnown, GenerationNamesDigest
<1>1. CASE start
  <2>. DEFINE s == build(config, load)
  <2>1. s \in Snapshot /\ (s = stored \/ s.gen = stored.gen + 1)
    BY <1>l, Built DEF TypeOK
  <2>2. PICK r \in Results : submit_snapshot_locked(s, None, r)
    BY <1>1 DEF start
  <2>3. cur' = s /\ stored' = s /\ ~up /\ UNCHANGED <<pending, lost, ready>>
    BY <1>1, <1>r DEF start, save
  <2>. HIDE DEF s
  <2>4. took' \in {took, took \cup {s}} /\ acc' \in {None, s}
    BY <2>1, <2>2, <1>l, NoneType, Submitted
  <2>5. pending = None
    BY <2>3, <1>r DEF RunsStored
  <2>6. TookKnown' /\ GenerationNamesDigest'
    BY <1>r, <2>1, <2>3, <2>4, <2>5, SubmitStored
  <2>7. AcceptedKnown'
    BY <2>1, <2>3, <2>4 DEF AcceptedKnown, None, Snapshot
  <2>. QED
    BY <2>3, <2>5, <2>6, <2>7 DEF RunsStored
<1>2. CASE PollReads \/ PollCompares \/ PollEnds
  BY <1>0, <1>2 DEF PollReads, PollCompares, PollEnds
<1>3. CASE PollSubmits
  <2>1. PICK r \in Results : submit_snapshot_locked(cur, acc, r)
    BY <1>3 DEF PollSubmits
  <2>2. /\ up /\ pending = None
        /\ UNCHANGED <<up, stored, pending, lost, cur, ready>>
    BY <1>3 DEF PollSubmits, lock_free
  <2>3. cur = stored
    BY <1>r, <2>2 DEF RunsStored
  <2>4. took' \in {took, took \cup {stored}} /\ acc' \in {acc, stored}
    BY <2>1, <2>3, <1>l, Submitted
  <2>5. TookKnown' /\ GenerationNamesDigest'
    BY <1>l, <1>r, <2>2, <2>4, SubmitStored
  <2>6. AcceptedKnown'
    BY <1>n, <1>r, <2>2, <2>4 DEF AcceptedKnown
  <2>. QED
    BY <1>r, <2>2, <2>3, <2>5, <2>6 DEF RunsStored
<1>4. ASSUME NEW d \in Digests, ApplySubmits(d)
      PROVE  RunsStored' /\ TookKnown' /\ AcceptedKnown' /\ GenerationNamesDigest'
  <2>. DEFINE s == build(d, load)
  <2>1. up /\ pending = None /\ d # cur.digest /\ cur = stored
    BY <1>4, <1>r DEF ApplySubmits, lock_free, RunsStored
  <2>2. s \in Snapshot /\ s # None /\ s.gen = stored.gen + 1
    BY <1>l, <2>1, Built
  <2>3. PICK r \in Results : /\ submit_snapshot_locked(s, acc, r)
                             /\ pending' = IF r = "REJECTED" THEN None ELSE s
    BY <1>4 DEF ApplySubmits
  <2>4. UNCHANGED <<up, ready, stored, lost, cur>>
    BY <1>4 DEF ApplySubmits
  <2>. HIDE DEF s
  <2>5. CASE r = "REJECTED"
    <3>1. took' = took /\ acc' = acc /\ pending' = pending
      BY <2>1, <2>2, <2>3, <2>5, <1>l, Submitted
    <3>. QED
      BY <3>1, <2>4, <1>0
  <2>6. CASE r # "REJECTED"
    <3>1. took' \in {took, took \cup {s}} /\ acc' \in {acc, s} /\ pending' = s
      BY <2>2, <2>3, <2>6, <1>l, Submitted
    <3>2. RunsStored' /\ AcceptedKnown'
      BY <1>r, <2>1, <2>2, <2>4, <3>1 DEF RunsStored, AcceptedKnown
    <3>3. ASSUME NEW a \in took PROVE a.gen \in Nat /\ (a.gen = s.gen => a \in lost)
      BY <1>r, <1>n, <2>1, <2>2 DEF TookKnown, Known, TypeOK, Snapshot
    <3>4. TookKnown'
      BY <1>n, <1>r, <2>1, <2>2, <2>4, <3>1, <3>3 DEF TookKnown, Known
    <3>5. GenerationNamesDigest'
      BY <1>r, <2>4, <3>1, <3>3 DEF GenerationNamesDigest
    <3>. QED
      BY <3>2, <3>4, <3>5
  <2>. QED
    BY <2>5, <2>6
<1>5. CASE ApplySaves
  <2>1. /\ up /\ pending # None /\ cur' = pending /\ stored' = pending /\ pending' = None
        /\ UNCHANGED <<up, acc, took, lost, ready>>
    BY <1>5, <1>r DEF ApplySaves, save
  <2>2. pending.gen = stored.gen + 1
    BY <1>r, <2>1 DEF RunsStored
  <2>3. RunsStored' /\ AcceptedKnown'
    BY <1>n, <1>r, <2>1, <2>2 DEF RunsStored, AcceptedKnown
  <2>4. ASSUME NEW a \in took
        PROVE  a \in lost \/ a = pending \/ (a.gen \in Nat /\ a.gen <= stored.gen)
    BY <1>r DEF TookKnown, Known, TypeOK, Snapshot
  <2>5. TookKnown'
    BY <1>n, <2>1, <2>2, <2>4 DEF TookKnown, Known
  <2>6. GenerationNamesDigest'
    BY <1>r, <2>1 DEF GenerationNamesDigest
  <2>. QED
    BY <2>3, <2>5, <2>6
<1>6. CASE Ends
  <2>1. /\ up' = FALSE /\ pending' = None /\ acc' = None
        /\ lost' = lost \cup ({pending} \ {None}) /\ UNCHANGED <<stored, took, ready>>
    BY <1>6 DEF Ends
  <2>2. RunsStored' /\ AcceptedKnown'
    BY <1>n, <2>1 DEF RunsStored, AcceptedKnown, None
  <2>3. TookKnown'
    BY <1>r, <2>1 DEF TookKnown, Known
  <2>4. GenerationNamesDigest'
    BY <1>r, <2>1 DEF GenerationNamesDigest
  <2>. QED
    BY <2>2, <2>3, <2>4
<1>7. CASE BackoffPasses \/ ConfigChanges \/ Disconnect \/ Connect
  BY <1>0, <1>7 DEF BackoffPasses, ConfigChanges, Disconnect, Connect
<1>8. CASE UNCHANGED vars
  BY <1>0, <1>8 DEF vars
<1>. QED
  BY <1>1, <1>2, <1>3, <1>4, <1>5, <1>6, <1>7, <1>8 DEF Next, Poll

-----------------------------------------------------------------------------
(* THEOREM.  No order of polls, changes, answers, restarts and lost          *)
(* connections takes the registrar of subscription_registrar.cpp out of its  *)
(* domains or lets the store fall behind what the daemon was given.          *)
THEOREM RegistrarInvariance == Spec => []RegistrarInv
<1>1. Init => RegistrarInv
  <2>1. Init => TypeOK
    <3>. SUFFICES ASSUME Init PROVE TypeOK
      OBVIOUS
    <3>1. restarts \in 0..MaxRestarts /\ changes \in 0..MaxChanges
      BY RegistrarAssumption DEF Init
    <3>2. /\ stored \in Snapshot /\ cur \in Snapshot /\ acc \in Snapshot
          /\ pending \in Snapshot /\ daemon \in Snapshot
      BY NoneType DEF Init
    <3>. QED
      BY <3>1, <3>2, Zenon DEF Init, TypeOK, States, Polls
  <2>2. Init => StoreInv
    BY DEF Init, StoreInv, RunsStored, TookKnown, AcceptedKnown, GenerationNamesDigest, None
  <2>. QED
    BY <2>1, <2>2 DEF RegistrarInv
<1>2. RegistrarInv /\ [Next]_vars => RegistrarInv'
  BY TypeStep, StoreStep DEF RegistrarInv
<1>. QED
  BY <1>1, <1>2, PTL DEF Spec

(* The type invariant of the registrar; in particular start() leaves a       *)
(* snapshot for the monitor to submit.                                       *)
THEOREM RegistrarTyped == Spec => []TypeOK
  BY RegistrarInvariance, PTL DEF RegistrarInv

(* With a working store the daemon never accepts two contents under one      *)
(* generation, except one that was submitted when the process died.          *)
THEOREM GenerationIdentity == Spec => []GenerationNamesDigest
<1>1. RegistrarInv => GenerationNamesDigest
  BY DEF RegistrarInv, StoreInv, GenerationNamesDigest
<1>. QED
  BY <1>1, RegistrarInvariance, PTL

(* With a working store apply_catalog_change never meets a digest conflict   *)
(* with what was accepted before: the generation it builds is a new one.     *)
THEOREM ChangesSubmittable == Spec => []ChangeSubmittable
<1>1. RegistrarInv => ChangeSubmittable
  <2>. SUFFICES ASSUME RegistrarInv, up, lock_free, ready, NEW d \in Digests, d # cur.digest
                PROVE  ~digest_conflict(build(d, load), acc)
    BY DEF ChangeSubmittable
  <2>1. load = stored /\ cur = stored /\ pending = None /\ acc.gen <= stored.gen
    BY DEF load, RegistrarInv, StoreInv, RunsStored, AcceptedKnown, lock_free
  <2>2. stored \in Snapshot /\ acc \in Snapshot
    BY DEF RegistrarInv, TypeOK
  <2>3. build(d, load).gen = stored.gen + 1
    BY <2>1, <2>2, Built
  <2>. QED
    BY <2>1, <2>2, <2>3 DEF digest_conflict, Snapshot
<1>. QED
  BY <1>1, RegistrarInvariance, PTL

=============================================================================
