------------------------ MODULE KeyProvisioningProofs ------------------------
(***************************************************************************)
(* Proofs about the key provisioning coordinator, for every value of the   *)
(* constants: type correctness, with the limits of the budget ledger.      *)
(*                                                                         *)
(* TypeOK is not inductive.  A step that charges the ledger relies on the  *)
(* check an earlier step of the same handler made (CallInv), a restart     *)
(* relies on the store agreeing with memory about the attempt              *)
(* (AttemptInv), and the request ids stay within Rids because each costs   *)
(* a charge on the recovery chain (ChainInv).                              *)
(***************************************************************************)
EXTENDS KeyProvisioning, TLAPS

(* What the function that runs next may rely on. *)
CallInv ==
    /\ pc = "requested" => mem.req < ReqLimit
    /\ pc = "acked" => mem.ack < AckLimit
    /\ pc \in {"sec", "remote"} => reg \in {"tick"} \cup Statuses
    /\ pc = "create" /\ mem.succ = NoId => mem.fp = NoFp

(* What identifies the attempt is written whenever it changes. *)
AttemptInv ==
    /\ disk.rid = mem.rid /\ disk.succ = mem.succ /\ disk.fp = mem.fp
    /\ disk.chain = mem.chain /\ disk.req = mem.req
    /\ mem.rid = NoId => mem.fp = NoFp

(* Every id after the first is paid for by the recovery chain; the first    *)
(* attempt of a device with a legacy record may be its second id.           *)
ChainInv ==
    /\ lastId <= mem.chain + (IF mem.fp = NoFp THEN 1 ELSE 2)
    /\ mem.state = "SUPERSEDED_REMOTE" => mem.succ # NoId
    /\ disk.state = "SUPERSEDED_REMOTE" => disk.succ # NoId

TypeInv == TypeOK /\ CallInv /\ AttemptInv /\ ChainInv

-----------------------------------------------------------------------------
(* Most steps leave the attempt alone.  For them the invariant follows from *)
(* four facts about the step, which each lemma below establishes.           *)

SameAttempt ==
    /\ mem'.rid = mem.rid /\ mem'.succ = mem.succ /\ mem'.fp = mem.fp
    /\ mem'.chain = mem.chain /\ mem'.req = mem.req
    /\ mem'.state = "SUPERSEDED_REMOTE" => mem.state = "SUPERSEDED_REMOTE"

Passes ==
    /\ pc' \in Functions /\ reg' \in Arguments
    /\ CallInv'
    /\ disk' \in {disk, mem'}
    /\ lastId' = lastId

Surroundings ==
    /\ sec' \in [Rids -> Entries] /\ cloud' \in [Rids -> Batches]
    /\ answers' \subseteq Rids \X Statuses
    /\ sent' \subseteq Messages
    /\ input' \in 0 .. MaxInput
    /\ link' \in BOOLEAN
    /\ clk' \in Clocks
    /\ sends' \in Nat /\ faults' \in 0 .. MaxFaults /\ crashes' \in 0 .. MaxCrashes

USE DEF NoId, NoFp, persist, persist_unless_suppressed, Return, Call, memVars,
        Functions, Arguments, States, ReconcileStates, AwaitStates, Resolutions

(* A step that keeps the attempt and the types keeps the invariant. *)
LEMMA Quiet ==
    ASSUME TypeInv, mem' \in Record, SameAttempt, vol' \in Volatile, Passes,
           Surroundings
    PROVE  TypeInv'
BY DEF TypeInv, TypeOK, SameAttempt, Passes, Surroundings, AttemptInv, ChainInv

(* The record of a fresh store. *)
LEMMA NewRecordType == NewRecord \in Record
  BY LimitsAssumption, SMTT(30) DEF NewRecord, Record, Fingerprints

(* invalidate_identity_locked keeps the type of the volatile members. *)
LEMMA InvalidatedType ==
    ASSUME NEW v \in Volatile
    PROVE  invalidate_identity(v) \in Volatile
BY DEF invalidate_identity, Volatile

(* So does refresh_sec_readiness_locked, whichever epoch it adopts. *)
LEMMA RefreshedType ==
    ASSUME NEW v \in Volatile
    PROVE  refresh_sec_readiness(v) \in Volatile
<1> DEFINE e == IF SnapshotEpoch # 0 THEN SnapshotEpoch
                ELSE IF v.contract = "unknown" THEN v.epoch + 1
                ELSE v.epoch
<1>1. v.epoch \in Nat BY DEF Volatile
<1>2. e \in Nat BY <1>1, LimitsAssumption
<1>3. refresh_sec_readiness(v) = [v EXCEPT !.contract = "ready", !.epoch = e]
    BY DEF refresh_sec_readiness
<1> HIDE DEF e
<1> QED BY <1>2, <1>3 DEF Volatile

(* An answer of SEC that closes the gate keeps the type, and changes nothing *)
(* but the contract and its epoch.                                           *)
LEMMA NotReadyType ==
    ASSUME vol \in Volatile, NEW v \in SecNotReady
    PROVE  /\ v \in Volatile
           /\ v.pend = vol.pend /\ v.acks = vol.acks /\ v.first = vol.first
<1>1. PICK c \in {"unknown", "incomplete"}, e \in Nat :
         v = [vol EXCEPT !.contract = c, !.epoch = e]
  <2>1. CASE v = [vol EXCEPT !.contract = "unknown"]
    <3>1. vol.epoch \in Nat /\ v = [vol EXCEPT !.contract = "unknown", !.epoch = vol.epoch]
        BY <2>1 DEF Volatile
    <3> QED BY <3>1
  <2>2. CASE v = [refresh_sec_readiness(vol) EXCEPT !.contract = "incomplete"]
    <3>1. refresh_sec_readiness(vol).epoch \in Nat BY RefreshedType DEF Volatile
    <3>2. v = [vol EXCEPT !.contract = "incomplete",
                          !.epoch = refresh_sec_readiness(vol).epoch]
        BY <2>2 DEF refresh_sec_readiness, Volatile
    <3> QED BY <3>1, <3>2
  <2>3. CASE v = [vol EXCEPT !.contract = "unknown",
                    !.epoch = IF SnapshotEpoch # 0 THEN SnapshotEpoch ELSE @ + 1]
    <3> DEFINE e == IF SnapshotEpoch # 0 THEN SnapshotEpoch ELSE vol.epoch + 1
    <3>1. vol.epoch \in Nat BY DEF Volatile
    <3>2. e \in Nat BY <3>1, LimitsAssumption
    <3>3. v = [vol EXCEPT !.contract = "unknown", !.epoch = e] BY <2>3
    <3> QED BY <3>2, <3>3
  <2> QED BY <2>1, <2>2, <2>3 DEF SecNotReady
<1> QED BY <1>1 DEF Volatile

(* And the start of every tick that passes the gate. *)
LEMMA TickVolType ==
    ASSUME vol \in Volatile
    PROVE  TickVol \in Volatile
<1>1. refresh_sec_readiness(vol) \in Volatile BY RefreshedType
<1> QED BY <1>1 DEF TickVol, Volatile

(* The fault budget is respected. *)
LEMMA FaultsCounted ==
    ASSUME TypeInv, NoFault \/ \E k \in FaultKinds : Blame(k)
    PROVE  faults' \in 0 .. MaxFaults
BY BoundsAssumption DEF TypeInv, TypeOK, NoFault, Blame

(* A step of the coordinator that says nothing to SEC or VMD. *)
LEMMA Moves ==
    ASSUME TypeInv, mem' \in Record, SameAttempt, vol' \in Volatile,
           pc' \in Functions, reg' \in Arguments, CallInv', disk' \in {disk, mem'},
           Outside, NoFault \/ \E k \in FaultKinds : Blame(k)
    PROVE  TypeInv'
<1>1. Passes BY DEF Passes, Outside
<1>2. Surroundings BY FaultsCounted DEF TypeInv, TypeOK, Surroundings, Outside
<1> QED BY <1>1, <1>2, Quiet

(* A step that ends its handler by settling in a state. *)
LEMMA Settles ==
    ASSUME TypeInv, NEW st \in States \ {"SUPERSEDED_REMOTE"}, NEW v \in Volatile,
           Settle(st, v), Outside, NoFault \/ \E k \in FaultKinds : Blame(k)
    PROVE  TypeInv'
<1>m. mem \in Record BY DEF TypeInv, TypeOK
<1>1. mem' \in Record /\ SameAttempt BY <1>m DEF Settle, SameAttempt, Record
<1>2. vol' \in Volatile /\ pc' = "idle" /\ reg' = "none" /\ disk' = mem' BY DEF Settle
<1>3. CallInv' BY <1>2 DEF CallInv
<1> QED BY <1>1, <1>2, <1>3, Moves

(* So does a step that parks the attempt in RECONCILE_OLD_ATTEMPT. *)
LEMMA Reconciles ==
    ASSUME TypeInv, NEW v \in Volatile, enter_reconcile_old_attempt(v), Outside,
           NoFault \/ \E k \in FaultKinds : Blame(k)
    PROVE  TypeInv'
<1>1. [v EXCEPT !.deadline = "none", !.recSent = FALSE] \in Volatile BY DEF Volatile
<1> QED BY <1>1, Settles DEF enter_reconcile_old_attempt

(* So does a rejected publish. *)
LEMMA Rejects == ASSUME TypeInv, publish_rejected PROVE TypeInv'
<1>v. vol \in Volatile BY DEF TypeInv, TypeOK
<1>i. invalidate_identity(vol) \in Volatile BY <1>v, InvalidatedType
<1>e. [invalidate_identity(vol) EXCEPT !.event = TRUE] \in Volatile BY <1>i DEF Volatile
<1>f. \E k \in FaultKinds : Blame(k) BY DEF publish_rejected, FaultKinds
<1> QED BY <1>v, <1>i, <1>e, <1>f, Settles DEF publish_rejected

-----------------------------------------------------------------------------
(* One lemma per action: it preserves TypeInv. *)

(* TickNoCloud keeps the invariant. *)
LEMMA Type_TickNoCloud == ASSUME TypeInv, TickNoCloud PROVE TypeInv'
<1>v. vol \in Volatile BY DEF TypeInv, TypeOK
<1>1. mem' \in Record /\ SameAttempt
    BY DEF TypeInv, TypeOK, SameAttempt, Record, TickNoCloud, GateClosed
<1>2. vol' \in Volatile
  <2>1. refresh_sec_readiness(vol) \in Volatile BY <1>v, RefreshedType
  <2>2. invalidate_identity(refresh_sec_readiness(vol)) \in Volatile
      BY <2>1, <1>v, InvalidatedType
  <2>3. [refresh_sec_readiness(vol) EXCEPT !.deadline = "none"] \in Volatile
      BY <2>1, <2>2, <1>v DEF Volatile
  <2>4. [invalidate_identity(refresh_sec_readiness(vol)) EXCEPT !.deadline = "none"]
      \in Volatile
      BY <2>1, <2>2, <2>3, <1>v DEF Volatile
  <2> QED BY <1>v, <2>1, <2>2, <2>3, <2>4 DEF TickNoCloud, GateClosed
<1>3. pc' \in Functions /\ reg' \in Arguments /\ CallInv' /\ disk' \in {disk, mem'}
    BY DEF TypeInv, TypeOK, CallInv, AttemptInv, ChainInv, Record, TickNoCloud,
        GateClosed
<1>4. Outside /\ (NoFault \/ \E k \in FaultKinds : Blame(k))
    BY DEF TickNoCloud, GateClosed, FaultKinds, GateClosed
<1> QED BY <1>1, <1>2, <1>3, <1>4, Moves

(* TickNoSec keeps the invariant. *)
LEMMA Type_TickNoSec == ASSUME TypeInv, TickNoSec PROVE TypeInv'
<1>v. vol \in Volatile BY DEF TypeInv, TypeOK
<1>1. mem' \in Record /\ SameAttempt
    BY DEF TypeInv, TypeOK, SameAttempt, Record, TickNoSec, GateClosed
<1>2. vol' \in Volatile
  <2>1. PICK v \in SecNotReady : GateClosed(v) BY DEF TickNoSec
  <2>2. v \in Volatile BY <1>v, NotReadyType
  <2>3. invalidate_identity(v) \in Volatile BY <2>2, InvalidatedType
  <2>4. /\ [v EXCEPT !.deadline = "none"] \in Volatile
        /\ [invalidate_identity(v) EXCEPT !.deadline = "none"] \in Volatile
      BY <2>2, <2>3 DEF Volatile
  <2> QED BY <2>1, <2>2, <2>3, <2>4 DEF GateClosed
<1>3. pc' \in Functions /\ reg' \in Arguments /\ CallInv' /\ disk' \in {disk, mem'}
    BY DEF TypeInv, TypeOK, CallInv, AttemptInv, ChainInv, Record, TickNoSec,
        GateClosed
<1>4. Outside /\ (NoFault \/ \E k \in FaultKinds : Blame(k))
    BY DEF TickNoSec, GateClosed, FaultKinds, GateClosed
<1> QED BY <1>1, <1>2, <1>3, <1>4, Moves

(* TickClockNotSynced keeps the invariant. *)
LEMMA Type_TickClockNotSynced ==
    ASSUME TypeInv, TickClockNotSynced
    PROVE  TypeInv'
<1>v. vol \in Volatile BY DEF TypeInv, TypeOK
<1>t. TickVol \in Volatile BY <1>v, TickVolType
<1>1. mem' \in Record /\ SameAttempt
    BY DEF TypeInv, TypeOK, SameAttempt, Record, TickClockNotSynced, Tick
<1>2. vol' \in Volatile BY <1>v, <1>t DEF TickClockNotSynced, Tick
<1>3. pc' \in Functions /\ reg' \in Arguments /\ CallInv' /\ disk' \in {disk, mem'}
    BY DEF TypeInv, TypeOK, CallInv, AttemptInv, ChainInv, Record,
        TickClockNotSynced, Tick
<1>4. Outside /\ (NoFault \/ \E k \in FaultKinds : Blame(k))
    BY DEF TickClockNotSynced, Tick, FaultKinds
<1> QED BY <1>1, <1>2, <1>3, <1>4, Moves

(* TickCheck keeps the invariant. *)
LEMMA Type_TickCheck == ASSUME TypeInv, TickCheck PROVE TypeInv'
<1>v. vol \in Volatile BY DEF TypeInv, TypeOK
<1>t. TickVol \in Volatile BY <1>v, TickVolType
<1>1. mem' \in Record /\ SameAttempt
    BY DEF TypeInv, TypeOK, SameAttempt, Record, TickCheck, Tick
<1>2. vol' \in Volatile
  <2>1. [TickVol EXCEPT !.event = IF mem.state = "BLOCKED" THEN FALSE ELSE @] \in
      Volatile
      BY <1>t DEF Volatile
  <2> QED BY <1>v, <1>t, <2>1 DEF TickCheck, Tick
<1>3. pc' \in Functions /\ reg' \in Arguments /\ CallInv' /\ disk' \in {disk, mem'}
    BY DEF TypeInv, TypeOK, CallInv, AttemptInv, ChainInv, Record, TickCheck, Tick
<1>4. Outside /\ (NoFault \/ \E k \in FaultKinds : Blame(k))
    BY DEF TickCheck, Tick, FaultKinds
<1> QED BY <1>1, <1>2, <1>3, <1>4, Moves

(* TickCall keeps the invariant. *)
LEMMA Type_TickCall == ASSUME TypeInv, TickCall PROVE TypeInv'
<1>v. vol \in Volatile BY DEF TypeInv, TypeOK
<1>t. TickVol \in Volatile BY <1>v, TickVolType
<1>1. mem' \in Record /\ SameAttempt
    BY DEF TypeInv, TypeOK, SameAttempt, Record, TickCall, Tick
<1>2. vol' \in Volatile BY <1>v, <1>t DEF TickCall, Tick
<1>3. pc' \in Functions /\ reg' \in Arguments /\ CallInv' /\ disk' \in {disk, mem'}
    BY DEF TypeInv, TypeOK, CallInv, AttemptInv, ChainInv, Record, TickCall, Tick
<1>4. Outside /\ (NoFault \/ \E k \in FaultKinds : Blame(k))
    BY DEF TickCall, Tick, FaultKinds
<1> QED BY <1>1, <1>2, <1>3, <1>4, Moves

(* on_response_timeout keeps the invariant. *)
LEMMA Type_on_response_timeout ==
    ASSUME TypeInv, on_response_timeout
    PROVE  TypeInv'
<1>v. vol \in Volatile BY DEF TypeInv, TypeOK
<1>t. TickVol \in Volatile BY <1>v, TickVolType
<1> QED BY <1>v, <1>t, Settles, Reconciles DEF on_response_timeout, Tick, FaultKinds

(* do_import keeps the invariant. *)
LEMMA Type_do_import == ASSUME TypeInv, do_import PROVE TypeInv'
<1>m. mem \in Record BY DEF TypeInv, TypeOK
<1>v. vol \in Volatile BY DEF TypeInv, TypeOK
<1>t. TickVol \in Volatile BY <1>v, TickVolType
<1>1. mem' \in Record /\ SameAttempt
  <2>1. [mem EXCEPT !.inv = TRUE, !.res = "UNRESOLVED"] \in Record BY <1>m DEF Record
  <2>8. mem' \in Record BY <1>m, <2>1 DEF do_import, Tick
  <2>9. SameAttempt BY <1>m DEF Record, SameAttempt, do_import, Tick
  <2> QED BY <2>8, <2>9
<1>2. vol' \in Volatile BY <1>v, <1>t DEF do_import, Tick
<1>3. pc' \in Functions /\ reg' \in Arguments /\ CallInv' /\ disk' \in {disk, mem'}
    BY DEF TypeInv, TypeOK, CallInv, AttemptInv, ChainInv, Record, do_import, Tick
<1>4. Outside /\ (NoFault \/ \E k \in FaultKinds : Blame(k))
    BY DEF do_import, Tick, FaultKinds
<1> QED BY <1>1, <1>2, <1>3, <1>4, Moves

(* TickWaits keeps the invariant. *)
LEMMA Type_TickWaits == ASSUME TypeInv, TickWaits PROVE TypeInv'
<1>v. vol \in Volatile BY DEF TypeInv, TypeOK
<1>t. TickVol \in Volatile BY <1>v, TickVolType
<1>1. mem' \in Record /\ SameAttempt
    BY DEF TypeInv, TypeOK, SameAttempt, Record, TickWaits, Tick
<1>2. vol' \in Volatile BY <1>v, <1>t DEF TickWaits, Tick
<1>3. pc' \in Functions /\ reg' \in Arguments /\ CallInv' /\ disk' \in {disk, mem'}
    BY DEF TypeInv, TypeOK, CallInv, AttemptInv, ChainInv, Record, TickWaits, Tick
<1>4. Outside /\ (NoFault \/ \E k \in FaultKinds : Blame(k))
    BY DEF TickWaits, Tick, FaultKinds
<1> QED BY <1>1, <1>2, <1>3, <1>4, Moves

(* do_check_active keeps the invariant. *)
LEMMA Type_do_check_active == ASSUME TypeInv, do_check_active PROVE TypeInv'
<1>v. vol \in Volatile BY DEF TypeInv, TypeOK
<1>1. mem' \in Record /\ SameAttempt
    BY DEF TypeInv, TypeOK, SameAttempt, Record, do_check_active, Settle
<1>2. vol' \in Volatile
  <2>1. [vol EXCEPT !.recAck = FALSE, !.ackSent = FALSE] \in Volatile
      BY <1>v DEF Volatile
  <2> QED BY <1>v, <2>1 DEF do_check_active, Settle
<1>3. pc' \in Functions /\ reg' \in Arguments /\ CallInv' /\ disk' \in {disk, mem'}
    BY DEF TypeInv, TypeOK, CallInv, AttemptInv, ChainInv, Record, do_check_active,
        Settle
<1>4. Outside /\ (NoFault \/ \E k \in FaultKinds : Blame(k))
    BY DEF do_check_active, Settle, FaultKinds
<1> QED BY <1>1, <1>2, <1>3, <1>4, Moves

(* do_check_sec_error keeps the invariant. *)
LEMMA Type_do_check_sec_error ==
    ASSUME TypeInv, do_check_sec_error
    PROVE  TypeInv'
<1>v. vol \in Volatile BY DEF TypeInv, TypeOK
<1> QED BY <1>v, Settles DEF do_check_sec_error, FaultKinds

(* do_check_incomplete keeps the invariant. *)
LEMMA Type_do_check_incomplete ==
    ASSUME TypeInv, do_check_incomplete
    PROVE  TypeInv'
<1>m. mem \in Record BY DEF TypeInv, TypeOK
<1>v. vol \in Volatile BY DEF TypeInv, TypeOK
<1>1. mem' \in Record /\ SameAttempt
  <2>1. [mem EXCEPT !.state = "RECONCILE_OLD_ATTEMPT"] \in Record BY <1>m DEF Record
  <2>2. [mem EXCEPT !.state = "REQUESTING"] \in Record BY <1>m DEF Record
  <2>8. mem' \in Record
      BY <1>m, <2>1, <2>2 DEF do_check_incomplete, Settle,
          enter_reconcile_old_attempt
  <2>9. SameAttempt
      BY <1>m DEF Record, SameAttempt, do_check_incomplete, Settle,
          enter_reconcile_old_attempt
  <2> QED BY <2>8, <2>9
<1>2. vol' \in Volatile
  <2>1. [vol EXCEPT !.deadline = "none", !.recSent = FALSE] \in Volatile
      BY <1>v DEF Volatile
  <2> QED BY <1>v, <2>1 DEF do_check_incomplete, Settle, enter_reconcile_old_attempt
<1>3. pc' \in Functions /\ reg' \in Arguments /\ CallInv' /\ disk' \in {disk, mem'}
    BY DEF TypeInv, TypeOK, CallInv, AttemptInv, ChainInv, Record,
        do_check_incomplete, Settle, enter_reconcile_old_attempt
<1>4. Outside /\ (NoFault \/ \E k \in FaultKinds : Blame(k))
    BY DEF do_check_incomplete, Settle, enter_reconcile_old_attempt, FaultKinds
<1> QED BY <1>1, <1>2, <1>3, <1>4, Moves

(* build_candidate_fails keeps the invariant. *)
LEMMA Type_build_candidate_fails ==
    ASSUME TypeInv, build_candidate_fails
    PROVE  TypeInv'
<1>v. vol \in Volatile BY DEF TypeInv, TypeOK
<1> QED BY <1>v, Settles DEF build_candidate_fails, FaultKinds

(* create_new_attempt_refused keeps the invariant. *)
LEMMA Type_create_new_attempt_refused ==
    ASSUME TypeInv, create_new_attempt_refused
    PROVE  TypeInv'
<1>v. vol \in Volatile BY DEF TypeInv, TypeOK
<1> QED BY <1>v, Settles DEF create_new_attempt_refused, FaultKinds

(* do_request_blocked keeps the invariant. *)
LEMMA Type_do_request_blocked ==
    ASSUME TypeInv, do_request_blocked
    PROVE  TypeInv'
<1>v. vol \in Volatile BY DEF TypeInv, TypeOK
<1> QED BY <1>v, Reconciles DEF do_request_blocked, FaultKinds

(* do_request keeps the invariant. *)
LEMMA Type_do_request == ASSUME TypeInv, do_request PROVE TypeInv'
<1>1. mem' \in Record /\ SameAttempt
    BY DEF TypeInv, TypeOK, SameAttempt, Record, do_request, do_request_admitted
<1>2. vol' \in Volatile BY DEF TypeInv, TypeOK, do_request, do_request_admitted
<1>3. Passes
    BY DEF TypeInv, TypeOK, CallInv, Passes, Record, NoFault, request_ok,
        do_request, do_request_admitted
<1>6. Surroundings
    BY BoundsAssumption DEF TypeInv, TypeOK, Surroundings, NoFault, Messages,
        Record, do_request, do_request_admitted
<1> QED BY <1>1, <1>2, <1>3, <1>6, Quiet

(* do_request_rejected keeps the invariant. *)
LEMMA Type_do_request_rejected ==
    ASSUME TypeInv, do_request_rejected
    PROVE  TypeInv'
BY Rejects DEF do_request_rejected

(* do_import_lease_too_short keeps the invariant. *)
LEMMA Type_do_import_lease_too_short ==
    ASSUME TypeInv, do_import_lease_too_short
    PROVE  TypeInv'
<1>v. vol \in Volatile BY DEF TypeInv, TypeOK
<1> QED BY <1>v, Reconciles DEF do_import_lease_too_short, FaultKinds

(* do_import_unsupported keeps the invariant. *)
LEMMA Type_do_import_unsupported ==
    ASSUME TypeInv, do_import_unsupported
    PROVE  TypeInv'
<1>v. vol \in Volatile BY DEF TypeInv, TypeOK
<1> QED BY <1>v, Settles DEF do_import_unsupported, FaultKinds

(* handle_import_committed keeps the invariant. *)
LEMMA Type_handle_import_committed ==
    ASSUME TypeInv, handle_import_committed
    PROVE  TypeInv'
<1>v. vol \in Volatile BY DEF TypeInv, TypeOK
<1>1. mem' \in Record /\ SameAttempt
    BY DEF TypeInv, TypeOK, SameAttempt, Record, handle_import_committed
<1>2. vol' \in Volatile
  <2>1. [vol EXCEPT !.pend = FALSE, !.acks = TRUE, !.ackSent = FALSE, !.statusSent =
      FALSE] \in Volatile
      BY <1>v DEF Volatile
  <2> QED BY <1>v, <2>1 DEF handle_import_committed
<1>3. pc' \in Functions /\ reg' \in Arguments /\ CallInv' /\ disk' \in {disk, mem'}
    BY DEF TypeInv, TypeOK, CallInv, AttemptInv, ChainInv, Record,
        handle_import_committed
<1>4. Outside /\ (NoFault \/ \E k \in FaultKinds : Blame(k))
    BY DEF handle_import_committed, FaultKinds
<1> QED BY <1>1, <1>2, <1>3, <1>4, Moves

(* handle_import_other keeps the invariant. *)
LEMMA Type_handle_import_other ==
    ASSUME TypeInv, handle_import_other
    PROVE  TypeInv'
<1>v. vol \in Volatile BY DEF TypeInv, TypeOK
<1>1. [vol EXCEPT !.pend = FALSE] \in Volatile BY <1>v DEF Volatile
<1>2. [[vol EXCEPT !.pend = FALSE] EXCEPT !.tried = FALSE] \in Volatile
    BY <1>v DEF Volatile
<1> QED BY <1>v, <1>1, <1>2, Settles DEF handle_import_other, FaultKinds

(* do_ack_proof_unavailable keeps the invariant. *)
LEMMA Type_do_ack_proof_unavailable ==
    ASSUME TypeInv, do_ack_proof_unavailable
    PROVE  TypeInv'
<1>v. vol \in Volatile BY DEF TypeInv, TypeOK
<1> QED BY <1>v, Settles DEF do_ack_proof_unavailable, FaultKinds

(* do_ack_proof keeps the invariant. *)
LEMMA Type_do_ack_proof == ASSUME TypeInv, do_ack_proof PROVE TypeInv'
<1>1. mem' \in Record /\ SameAttempt
    BY DEF TypeInv, TypeOK, SameAttempt, Record, do_ack_proof
<1>2. vol' \in Volatile BY DEF TypeInv, TypeOK, Volatile, do_ack_proof
<1>3. pc' \in Functions /\ reg' \in Arguments /\ CallInv' /\ disk' \in {disk, mem'}
    BY DEF TypeInv, TypeOK, CallInv, AttemptInv, ChainInv, Record, do_ack_proof
<1>4. Outside /\ (NoFault \/ \E k \in FaultKinds : Blame(k))
    BY DEF do_ack_proof, FaultKinds
<1> QED BY <1>1, <1>2, <1>3, <1>4, Moves

(* do_ack_wait keeps the invariant. *)
LEMMA Type_do_ack_wait == ASSUME TypeInv, do_ack_wait PROVE TypeInv'
<1>1. mem' \in Record /\ SameAttempt
    BY DEF TypeInv, TypeOK, SameAttempt, Record, do_ack_wait, ack_waiting
<1>2. vol' \in Volatile BY DEF TypeInv, TypeOK, do_ack_wait, ack_waiting
<1>3. pc' \in Functions /\ reg' \in Arguments /\ CallInv' /\ disk' \in {disk, mem'}
    BY DEF TypeInv, TypeOK, CallInv, AttemptInv, ChainInv, Record, do_ack_wait,
        ack_waiting
<1>4. Outside /\ (NoFault \/ \E k \in FaultKinds : Blame(k))
    BY DEF do_ack_wait, ack_waiting, FaultKinds
<1> QED BY <1>1, <1>2, <1>3, <1>4, Moves

(* do_ack_exhausted keeps the invariant. *)
LEMMA Type_do_ack_exhausted == ASSUME TypeInv, do_ack_exhausted PROVE TypeInv'
<1>1. mem' \in Record /\ SameAttempt
    BY DEF TypeInv, TypeOK, SameAttempt, Record, do_ack_exhausted, ack_ok,
        ack_waiting
<1>2. vol' \in Volatile BY DEF TypeInv, TypeOK, do_ack_exhausted, ack_ok, ack_waiting
<1>3. pc' \in Functions /\ reg' \in Arguments /\ CallInv' /\ disk' \in {disk, mem'}
    BY DEF TypeInv, TypeOK, CallInv, AttemptInv, ChainInv, Record, do_ack_exhausted,
        ack_ok, ack_waiting
<1>4. Outside /\ (NoFault \/ \E k \in FaultKinds : Blame(k))
    BY DEF do_ack_exhausted, ack_ok, ack_waiting, FaultKinds
<1> QED BY <1>1, <1>2, <1>3, <1>4, Moves

(* do_ack_encode_fails keeps the invariant. *)
LEMMA Type_do_ack_encode_fails ==
    ASSUME TypeInv, do_ack_encode_fails
    PROVE  TypeInv'
<1>1. mem' \in Record /\ SameAttempt
    BY DEF TypeInv, TypeOK, SameAttempt, Record, do_ack_encode_fails,
        ack_asks_status, do_ack_admitted, ack_ok, ack_waiting, Settle
<1>2. vol' \in Volatile
    BY DEF TypeInv, TypeOK, do_ack_encode_fails, ack_asks_status, do_ack_admitted,
        ack_ok, ack_waiting, Settle
<1>3. pc' \in Functions /\ reg' \in Arguments /\ CallInv' /\ disk' \in {disk, mem'}
    BY DEF TypeInv, TypeOK, CallInv, AttemptInv, ChainInv, Record,
        do_ack_encode_fails, ack_asks_status, do_ack_admitted, ack_ok, ack_waiting,
        Settle
<1>4. Outside /\ (NoFault \/ \E k \in FaultKinds : Blame(k))
    BY DEF do_ack_encode_fails, ack_asks_status, do_ack_admitted, ack_ok,
        ack_waiting, Settle, FaultKinds
<1> QED BY <1>1, <1>2, <1>3, <1>4, Moves

(* do_ack_status keeps the invariant. *)
LEMMA Type_do_ack_status == ASSUME TypeInv, do_ack_status PROVE TypeInv'
<1>1. mem' \in Record /\ SameAttempt
    BY DEF TypeInv, TypeOK, SameAttempt, Record, do_ack_status, ack_asks_status,
        do_ack_admitted, ack_ok, ack_waiting
<1>2. vol' \in Volatile
    BY DEF TypeInv, TypeOK, Volatile, do_ack_status, ack_asks_status,
        do_ack_admitted, ack_ok, ack_waiting
<1>3. Passes
    BY DEF TypeInv, TypeOK, CallInv, Passes, Record, NoFault, do_ack_status,
        ack_asks_status, do_ack_admitted, ack_ok, ack_waiting
<1>6. Surroundings
    BY BoundsAssumption DEF TypeInv, TypeOK, Surroundings, NoFault, Messages,
        Record, do_ack_status, ack_asks_status, do_ack_admitted, ack_ok, ack_waiting
<1> QED BY <1>1, <1>2, <1>3, <1>6, Quiet

(* do_ack keeps the invariant. *)
LEMMA Type_do_ack == ASSUME TypeInv, do_ack PROVE TypeInv'
<1>1. mem' \in Record /\ SameAttempt
    BY DEF TypeInv, TypeOK, SameAttempt, Record, do_ack, ack_asks_status,
        do_ack_admitted, ack_ok, ack_waiting
<1>2. vol' \in Volatile
    BY DEF TypeInv, TypeOK, do_ack, ack_asks_status, do_ack_admitted, ack_ok,
        ack_waiting
<1>3. Passes
    BY DEF TypeInv, TypeOK, CallInv, Passes, Record, NoFault, do_ack,
        ack_asks_status, do_ack_admitted, ack_ok, ack_waiting
<1>6. Surroundings
    BY BoundsAssumption DEF TypeInv, TypeOK, Surroundings, NoFault, Messages,
        Record, do_ack, ack_asks_status, do_ack_admitted, ack_ok, ack_waiting
<1> QED BY <1>1, <1>2, <1>3, <1>6, Quiet

(* do_ack_rejected keeps the invariant. *)
LEMMA Type_do_ack_rejected == ASSUME TypeInv, do_ack_rejected PROVE TypeInv'
BY Rejects DEF do_ack_rejected

(* do_ack_sent keeps the invariant, by the check do_ack made (CallInv). *)
LEMMA Type_do_ack_sent == ASSUME TypeInv, do_ack_sent PROVE TypeInv'
<1>m. mem \in Record BY DEF TypeInv, TypeOK
<1>v. vol \in Volatile BY DEF TypeInv, TypeOK
<1>1. mem' \in Record /\ SameAttempt
  <2>a. mem.ack + 1 \in 0 .. AckLimit
      BY <1>m, LimitsAssumption DEF TypeInv, CallInv, do_ack_sent, Record
  <2>b. AtMost(mem.att + 1, AlertAfter) \in 0 .. AlertAfter
      BY <1>m, LimitsAssumption DEF AtMost, Record
  <2>1. [mem EXCEPT !.ack = @ + 1, !.att = AtMost(@ + 1, AlertAfter)] \in Record
      BY <1>m, <2>a, <2>b DEF Record
  <2>8. mem' \in Record BY <1>m, <2>1 DEF do_ack_sent
  <2>9. SameAttempt BY <1>m DEF Record, SameAttempt, do_ack_sent
  <2> QED BY <2>8, <2>9
<1>2. vol' \in Volatile
  <2>1. [vol EXCEPT !.ackSent = TRUE, !.deadline = "running", !.burnt = @ \/
      ~mem.lease] \in Volatile
      BY <1>v DEF Volatile
  <2> QED BY <1>v, <2>1 DEF do_ack_sent
<1>3. pc' \in Functions /\ reg' \in Arguments /\ CallInv' /\ disk' \in {disk, mem'}
    BY DEF TypeInv, TypeOK, CallInv, AttemptInv, ChainInv, Record, do_ack_sent
<1>4. Outside /\ (NoFault \/ \E k \in FaultKinds : Blame(k))
    BY DEF do_ack_sent, FaultKinds
<1> QED BY <1>1, <1>2, <1>3, <1>4, Moves

(* sec_committed keeps the invariant. *)
LEMMA Type_sec_committed == ASSUME TypeInv, sec_committed PROVE TypeInv'
<1>m. mem \in Record BY DEF TypeInv, TypeOK
<1>v. vol \in Volatile BY DEF TypeInv, TypeOK
<1>r. ResetNotFound(mem) \in Record BY <1>m, LimitsAssumption DEF ResetNotFound, Record
<1>1. mem' \in Record /\ SameAttempt
  <2>1. [ResetNotFound(mem) EXCEPT !.state = "ACK_PENDING", !.res = "UNRESOLVED"]
      \in Record
      BY <1>r DEF Record
  <2>8. mem' \in Record BY <1>m, <2>1 DEF sec_committed, ResetNotFound
  <2>9. SameAttempt BY <1>m DEF Record, SameAttempt, sec_committed, ResetNotFound
  <2> QED BY <2>8, <2>9
<1>2. vol' \in Volatile
  <2>1. [vol EXCEPT !.acks = TRUE, !.unknown = FALSE, !.first = "none", !.ackSent =
      FALSE, !.statusSent = FALSE, !.recAck = FALSE] \in Volatile
      BY <1>v DEF Volatile
  <2> QED BY <1>v, <2>1 DEF sec_committed, ResetNotFound
<1>3. pc' \in Functions /\ reg' \in Arguments /\ CallInv' /\ disk' \in {disk, mem'}
    BY DEF TypeInv, TypeOK, CallInv, AttemptInv, ChainInv, Record, sec_committed,
        ResetNotFound
<1>4. Outside /\ (NoFault \/ \E k \in FaultKinds : Blame(k))
    BY DEF sec_committed, ResetNotFound, FaultKinds
<1> QED BY <1>1, <1>2, <1>3, <1>4, Moves

(* sec_committed_incomplete keeps the invariant. *)
LEMMA Type_sec_committed_incomplete ==
    ASSUME TypeInv, sec_committed_incomplete
    PROVE  TypeInv'
<1>v. vol \in Volatile BY DEF TypeInv, TypeOK
<1>1. PICK items \in BOOLEAN :
         Settle("RECONCILE_OLD_ATTEMPT", [vol EXCEPT !.unknown = TRUE, !.acks = items])
    BY DEF sec_committed_incomplete
<1>2. [vol EXCEPT !.unknown = TRUE, !.acks = items] \in Volatile BY <1>v DEF Volatile
<1> QED BY <1>1, <1>2, Settles DEF sec_committed_incomplete, FaultKinds

(* sec_not_found_weak keeps the invariant. *)
LEMMA Type_sec_not_found_weak ==
    ASSUME TypeInv, sec_not_found_weak
    PROVE  TypeInv'
<1>m. mem \in Record BY DEF TypeInv, TypeOK
<1>v. vol \in Volatile BY DEF TypeInv, TypeOK
<1>r. ResetNotFound(mem) \in Record BY <1>m, LimitsAssumption DEF ResetNotFound, Record
<1>1. mem' \in Record /\ SameAttempt
  <2>1. [ResetNotFound(mem) EXCEPT !.state = IF @ = "HARD_BLOCKED" THEN @ ELSE
      "RECONCILE_EVIDENCE"] \in Record
      BY <1>r DEF Record
  <2>8. mem' \in Record
      BY <1>m, <2>1 DEF sec_not_found_weak, ResetNotFound, NotFoundSeen
  <2>9. SameAttempt
      BY <1>m DEF Record, SameAttempt, sec_not_found_weak, ResetNotFound,
          NotFoundSeen
  <2> QED BY <2>8, <2>9
<1>2. vol' \in Volatile
    BY DEF TypeInv, TypeOK, Volatile, sec_not_found_weak, ResetNotFound,
        NotFoundSeen
<1>3. pc' \in Functions /\ reg' \in Arguments /\ CallInv' /\ disk' \in {disk, mem'}
    BY DEF TypeInv, TypeOK, CallInv, AttemptInv, ChainInv, Record,
        sec_not_found_weak, ResetNotFound, NotFoundSeen
<1>4. Outside /\ (NoFault \/ \E k \in FaultKinds : Blame(k))
    BY DEF sec_not_found_weak, ResetNotFound, NotFoundSeen, FaultKinds
<1> QED BY <1>1, <1>2, <1>3, <1>4, Moves

(* sec_not_found_proven keeps the invariant. *)
LEMMA Type_sec_not_found_proven ==
    ASSUME TypeInv, sec_not_found_proven
    PROVE  TypeInv'
<1>1. mem' \in Record /\ SameAttempt
    BY DEF TypeInv, TypeOK, SameAttempt, Record, sec_not_found_proven, NotFoundSeen
<1>2. vol' \in Volatile
    BY DEF TypeInv, TypeOK, Volatile, sec_not_found_proven, NotFoundSeen
<1>3. pc' \in Functions /\ reg' \in Arguments /\ CallInv' /\ disk' \in {disk, mem'}
    BY DEF TypeInv, TypeOK, CallInv, AttemptInv, ChainInv, Record,
        sec_not_found_proven, NotFoundSeen
<1>4. Outside /\ (NoFault \/ \E k \in FaultKinds : Blame(k))
    BY DEF sec_not_found_proven, NotFoundSeen, FaultKinds
<1> QED BY <1>1, <1>2, <1>3, <1>4, Moves

(* sec_not_found_hard keeps the invariant. *)
LEMMA Type_sec_not_found_hard ==
    ASSUME TypeInv, sec_not_found_hard
    PROVE  TypeInv'
<1>1. mem' \in Record /\ SameAttempt
    BY DEF TypeInv, TypeOK, SameAttempt, Record, sec_not_found_hard, NotFoundSeen
<1>2. vol' \in Volatile
    BY DEF TypeInv, TypeOK, Volatile, sec_not_found_hard, NotFoundSeen
<1>3. pc' \in Functions /\ reg' \in Arguments /\ CallInv' /\ disk' \in {disk, mem'}
    BY DEF TypeInv, TypeOK, CallInv, AttemptInv, ChainInv, Record,
        sec_not_found_hard, NotFoundSeen
<1>4. Outside /\ (NoFault \/ \E k \in FaultKinds : Blame(k))
    BY DEF sec_not_found_hard, NotFoundSeen, FaultKinds
<1> QED BY <1>1, <1>2, <1>3, <1>4, Moves

(* sec_not_found_observe keeps the invariant. *)
LEMMA Type_sec_not_found_observe ==
    ASSUME TypeInv, sec_not_found_observe
    PROVE  TypeInv'
<1>m. mem \in Record BY DEF TypeInv, TypeOK
<1>v. vol \in Volatile BY DEF TypeInv, TypeOK
<1>1. mem' \in Record /\ SameAttempt
  <2>a. Observed \in 0 .. NotFoundN /\ vol.epoch \in Nat
      BY <1>m, <1>v, LimitsAssumption DEF Record, Volatile, Observed, AtMost,
          observe_restarts
  <2>b. PICK st \in States, rs \in Resolutions :
          mem' = [mem EXCEPT !.nf = Observed, !.nfEpoch = vol.epoch, !.res = rs,
                             !.state = st]
      BY <1>m DEF Record, sec_not_found_observe
  <2>c. mem' \in Record BY <1>m, <2>a, <2>b DEF Record
  <2>d. SameAttempt BY <1>m DEF Record, SameAttempt, sec_not_found_observe
  <2> QED BY <2>c, <2>d
<1>2. vol' \in Volatile
  <2>0. ObservedFirst \in {"none", "running", "elapsed"}
      BY <1>v DEF Volatile, ObservedFirst
  <2>1. [vol EXCEPT !.first = ObservedFirst, !.unknown = FALSE] \in Volatile
      BY <1>v, <2>0, ZenonT(60) DEF Volatile
  <2> QED BY <1>v, <2>1 DEF sec_not_found_observe, NotFoundSeen
<1>3. pc' \in Functions /\ reg' \in Arguments /\ CallInv' /\ disk' \in {disk, mem'}
    BY DEF TypeInv, TypeOK, CallInv, AttemptInv, ChainInv, Record,
        sec_not_found_observe, NotFoundSeen
<1>4. Outside /\ (NoFault \/ \E k \in FaultKinds : Blame(k))
    BY DEF sec_not_found_observe, NotFoundSeen, FaultKinds
<1> QED BY <1>1, <1>2, <1>3, <1>4, Moves

(* enter_hard_blocked keeps the invariant. *)
LEMMA Type_enter_hard_blocked ==
    ASSUME TypeInv, enter_hard_blocked
    PROVE  TypeInv'
<1>m. mem \in Record BY DEF TypeInv, TypeOK
<1>v. vol \in Volatile BY DEF TypeInv, TypeOK
<1>1. mem' \in Record /\ SameAttempt
  <2>1. [mem EXCEPT !.state = "HARD_BLOCKED", !.res = "HARD_CONFLICT"] \in Record
      BY <1>m DEF Record
  <2>8. mem' \in Record BY <1>m, <2>1 DEF enter_hard_blocked
  <2>9. SameAttempt BY <1>m DEF Record, SameAttempt, enter_hard_blocked
  <2> QED BY <2>8, <2>9
<1>2. vol' \in Volatile BY DEF TypeInv, TypeOK, enter_hard_blocked
<1>3. pc' \in Functions /\ reg' \in Arguments /\ CallInv' /\ disk' \in {disk, mem'}
    BY DEF TypeInv, TypeOK, CallInv, AttemptInv, ChainInv, Record,
        enter_hard_blocked
<1>4. Outside /\ (NoFault \/ \E k \in FaultKinds : Blame(k))
    BY DEF enter_hard_blocked, FaultKinds, SecContrary
<1> QED BY <1>1, <1>2, <1>3, <1>4, Moves

(* sec_contrary keeps the invariant. *)
LEMMA Type_sec_contrary == ASSUME TypeInv, sec_contrary PROVE TypeInv'
<1>m. mem \in Record BY DEF TypeInv, TypeOK
<1>v. vol \in Volatile BY DEF TypeInv, TypeOK
<1>r. ResetNotFound(mem) \in Record BY <1>m, LimitsAssumption DEF ResetNotFound, Record
<1>1. mem' \in Record /\ SameAttempt
  <2>1. [ResetNotFound(mem) EXCEPT
                          !.state = IF @ = "LEGACY_SNAPSHOT_UNKNOWN" THEN @
                                    ELSE "RECONCILE_OLD_ATTEMPT"] \in Record
      BY <1>r DEF Record
  <2>8. mem' \in Record BY <1>m, <2>1 DEF sec_contrary, ResetNotFound
  <2>9. SameAttempt BY <1>m DEF Record, SameAttempt, sec_contrary, ResetNotFound
  <2> QED BY <2>8, <2>9
<1>2. vol' \in Volatile
  <2>1. [vol EXCEPT !.first = "none", !.unknown = TRUE] \in Volatile
      BY <1>v DEF Volatile
  <2> QED BY <1>v, <2>1 DEF sec_contrary, ResetNotFound
<1>3. pc' \in Functions /\ reg' \in Arguments /\ CallInv' /\ disk' \in {disk, mem'}
    BY DEF TypeInv, TypeOK, CallInv, AttemptInv, ChainInv, Record, sec_contrary,
        ResetNotFound
<1>4. Outside /\ (NoFault \/ \E k \in FaultKinds : Blame(k))
    BY DEF sec_contrary, ResetNotFound, FaultKinds, SecContrary
<1> QED BY <1>1, <1>2, <1>3, <1>4, Moves

(* do_reconcile_status keeps the invariant. *)
LEMMA Type_do_reconcile_status ==
    ASSUME TypeInv, do_reconcile_status
    PROVE  TypeInv'
<1>v. vol \in Volatile BY DEF TypeInv, TypeOK
<1>1. mem' \in Record /\ SameAttempt
    BY DEF TypeInv, TypeOK, SameAttempt, Record, do_reconcile_status,
        status_timeout, Proven
<1>2. vol' \in Volatile
  <2>1. [vol EXCEPT !.recSent = FALSE] \in Volatile BY <1>v DEF Volatile
  <2> QED BY <1>v, <2>1 DEF do_reconcile_status, status_timeout, Proven
<1>3. pc' \in Functions /\ reg' \in Arguments /\ CallInv' /\ disk' \in {disk, mem'}
    BY DEF TypeInv, TypeOK, CallInv, AttemptInv, ChainInv, Record,
        do_reconcile_status, status_timeout, Proven
<1>4. Outside /\ (NoFault \/ \E k \in FaultKinds : Blame(k))
    BY DEF do_reconcile_status, status_timeout, Proven, FaultKinds
<1> QED BY <1>1, <1>2, <1>3, <1>4, Moves

(* handle_reconcile_status keeps the invariant. *)
LEMMA Type_handle_reconcile_status ==
    ASSUME TypeInv, handle_reconcile_status
    PROVE  TypeInv'
<1>v. vol \in Volatile BY DEF TypeInv, TypeOK
<1>1. mem' \in Record /\ SameAttempt
    BY DEF TypeInv, TypeOK, SameAttempt, Record, handle_reconcile_status, Proven
<1>2. vol' \in Volatile
  <2>1. [vol EXCEPT !.cached = reg] \in Volatile
      BY <1>v DEF Volatile, TypeInv, CallInv, handle_reconcile_status
  <2> QED BY <1>v, <2>1 DEF handle_reconcile_status, Proven
<1>3. pc' \in Functions /\ reg' \in Arguments /\ CallInv' /\ disk' \in {disk, mem'}
    BY DEF TypeInv, TypeOK, CallInv, AttemptInv, ChainInv, Record,
        handle_reconcile_status, Proven
<1>4. Outside /\ (NoFault \/ \E k \in FaultKinds : Blame(k))
    BY DEF handle_reconcile_status, Proven, FaultKinds
<1> QED BY <1>1, <1>2, <1>3, <1>4, Moves

(* apply_cloud_matrix keeps the invariant. *)
LEMMA Type_apply_cloud_matrix ==
    ASSUME TypeInv, apply_cloud_matrix
    PROVE  TypeInv'
<1>1. mem' \in Record /\ SameAttempt
    BY DEF TypeInv, TypeOK, SameAttempt, Record, apply_cloud_matrix, Matrix
<1>2. vol' \in Volatile BY DEF TypeInv, TypeOK, apply_cloud_matrix, Matrix
<1>3. pc' \in Functions /\ reg' \in Arguments /\ CallInv' /\ disk' \in {disk, mem'}
    BY DEF TypeInv, TypeOK, CallInv, AttemptInv, ChainInv, Record,
        apply_cloud_matrix, Matrix
<1>4. Outside /\ (NoFault \/ \E k \in FaultKinds : Blame(k))
    BY DEF apply_cloud_matrix, Matrix, FaultKinds
<1> QED BY <1>1, <1>2, <1>3, <1>4, Moves

(* supersede_remote_exhausted keeps the invariant. *)
LEMMA Type_supersede_remote_exhausted ==
    ASSUME TypeInv, supersede_remote_exhausted
    PROVE  TypeInv'
<1>v. vol \in Volatile BY DEF TypeInv, TypeOK
<1> QED BY <1>v, Settles DEF supersede_remote_exhausted, chain_ok, FaultKinds

(* send_status_request_skipped keeps the invariant. *)
LEMMA Type_send_status_request_skipped ==
    ASSUME TypeInv, send_status_request_skipped
    PROVE  TypeInv'
<1>1. mem' \in Record /\ SameAttempt
    BY DEF TypeInv, TypeOK, SameAttempt, Record, send_status_request_skipped
<1>2. vol' \in Volatile BY DEF TypeInv, TypeOK, send_status_request_skipped
<1>3. pc' \in Functions /\ reg' \in Arguments /\ CallInv' /\ disk' \in {disk, mem'}
    BY DEF TypeInv, TypeOK, CallInv, AttemptInv, ChainInv, Record,
        send_status_request_skipped
<1>4. Outside /\ (NoFault \/ \E k \in FaultKinds : Blame(k))
    BY DEF send_status_request_skipped, FaultKinds
<1> QED BY <1>1, <1>2, <1>3, <1>4, Moves

(* send_status_request keeps the invariant. *)
LEMMA Type_send_status_request ==
    ASSUME TypeInv, send_status_request
    PROVE  TypeInv'
<1>1. mem' \in Record /\ SameAttempt
    BY DEF TypeInv, TypeOK, SameAttempt, Record, send_status_request
<1>2. vol' \in Volatile BY DEF TypeInv, TypeOK, Volatile, send_status_request
<1>3. Passes
    BY DEF TypeInv, TypeOK, CallInv, Passes, Record, NoFault, send_status_request
<1>6. Surroundings
    BY BoundsAssumption DEF TypeInv, TypeOK, Surroundings, NoFault, Messages,
        Record, send_status_request
<1> QED BY <1>1, <1>2, <1>3, <1>6, Quiet

(* send_status_request_rejected keeps the invariant. *)
LEMMA Type_send_status_request_rejected ==
    ASSUME TypeInv, send_status_request_rejected
    PROVE  TypeInv'
BY Rejects DEF send_status_request_rejected

(* A readiness event keeps the invariant. *)
LEMMA Type_ReadinessEvent ==
    ASSUME TypeInv, NEW v \in Volatile, ReadinessEvent(v), link' \in BOOLEAN,
           NoFault \/ \E k \in FaultKinds : Blame(k)
    PROVE  TypeInv'
<1>1. mem' \in Record /\ SameAttempt
    BY DEF TypeInv, TypeOK, SameAttempt, Record, ReadinessEvent
<1>2. vol' \in Volatile BY DEF Volatile, ReadinessEvent
<1>3. Passes BY DEF TypeInv, TypeOK, CallInv, Passes, Record, ReadinessEvent
<1>4. Surroundings BY FaultsCounted DEF TypeInv, TypeOK, Surroundings, ReadinessEvent
<1> QED BY <1>1, <1>2, <1>3, <1>4, Quiet

(* So do the three kinds of event there are. *)
LEMMA Type_Readiness ==
    ASSUME TypeInv, ReadinessLost \/ ReadinessReturns \/ ReadinessRepeated
    PROVE  TypeInv'
<1>v. vol \in Volatile BY DEF TypeInv, TypeOK
<1>i. invalidate_identity(vol) \in Volatile BY <1>v, InvalidatedType
<1>f. NoFault \/ \E k \in FaultKinds : Blame(k)
    BY DEF ReadinessLost, ReadinessReturns, ReadinessRepeated, FaultKinds
<1>l. link' \in BOOLEAN
    BY DEF ReadinessLost, ReadinessReturns, ReadinessRepeated, TypeInv, TypeOK
<1>1. \E v \in {vol, invalidate_identity(vol)} : ReadinessEvent(v)
    BY DEF ReadinessLost, ReadinessReturns, ReadinessRepeated
<1> QED BY <1>v, <1>i, <1>f, <1>l, <1>1, Type_ReadinessEvent

(* ClockSync keeps the invariant. *)
LEMMA Type_ClockSync == ASSUME TypeInv, ClockSync PROVE TypeInv'
<1>1. mem' \in Record /\ SameAttempt /\ vol' \in Volatile
    BY DEF TypeInv, TypeOK, SameAttempt, ClockSync
<1>2. Passes BY DEF TypeInv, TypeOK, CallInv, Passes, ClockSync
<1>3. clk' \in Clocks BY DEF TypeInv, TypeOK, Clocks, ClockSync
<1>4. faults' \in 0 .. MaxFaults BY FaultsCounted DEF ClockSync, FaultKinds
<1>5. Surroundings BY <1>3, <1>4 DEF TypeInv, TypeOK, Surroundings, ClockSync
<1> QED BY <1>1, <1>2, <1>5, Quiet

(* DeadlinePasses keeps the invariant. *)
LEMMA Type_DeadlinePasses == ASSUME TypeInv, DeadlinePasses PROVE TypeInv'
<1>1. mem' \in Record /\ SameAttempt
    BY DEF TypeInv, TypeOK, SameAttempt, Record, DeadlinePasses, NoFault
<1>2. vol' \in Volatile BY DEF TypeInv, TypeOK, Volatile, DeadlinePasses, NoFault
<1>3. pc' \in Functions /\ reg' \in Arguments /\ CallInv' /\ disk' \in {disk, mem'}
    BY DEF TypeInv, TypeOK, CallInv, AttemptInv, ChainInv, Record, DeadlinePasses,
        NoFault
<1>4. Outside /\ (NoFault \/ \E k \in FaultKinds : Blame(k))
    BY DEF DeadlinePasses, NoFault, FaultKinds
<1> QED BY <1>1, <1>2, <1>3, <1>4, Moves

(* WindowElapses keeps the invariant. *)
LEMMA Type_WindowElapses == ASSUME TypeInv, WindowElapses PROVE TypeInv'
<1>1. mem' \in Record /\ SameAttempt
    BY DEF TypeInv, TypeOK, SameAttempt, Record, WindowElapses, NoFault
<1>2. vol' \in Volatile BY DEF TypeInv, TypeOK, Volatile, WindowElapses, NoFault
<1>3. pc' \in Functions /\ reg' \in Arguments /\ CallInv' /\ disk' \in {disk, mem'}
    BY DEF TypeInv, TypeOK, CallInv, AttemptInv, ChainInv, Record, WindowElapses,
        NoFault
<1>4. Outside /\ (NoFault \/ \E k \in FaultKinds : Blame(k))
    BY DEF WindowElapses, NoFault, FaultKinds
<1> QED BY <1>1, <1>2, <1>3, <1>4, Moves

(* InputChanges keeps the invariant. *)
LEMMA Type_InputChanges == ASSUME TypeInv, InputChanges PROVE TypeInv'
<1>1. mem' \in Record /\ SameAttempt
    BY DEF TypeInv, TypeOK, SameAttempt, Record, InputChanges
<1>2. vol' \in Volatile BY DEF TypeInv, TypeOK, InputChanges
<1>3. Passes BY DEF TypeInv, TypeOK, CallInv, Passes, Record, NoFault, InputChanges
<1>6. Surroundings
    BY BoundsAssumption DEF TypeInv, TypeOK, Surroundings, NoFault, Messages,
        Record, Blame, InputChanges
<1> QED BY <1>1, <1>2, <1>3, <1>6, Quiet

(* ResponseRefused keeps the invariant. *)
LEMMA Type_ResponseRefused == ASSUME TypeInv, ResponseRefused PROVE TypeInv'
<1>v. vol \in Volatile BY DEF TypeInv, TypeOK
<1> QED BY <1>v, Settles, Reconciles DEF ResponseRefused, Downlink, FaultKinds

(* ResponseTooLate keeps the invariant. *)
LEMMA Type_ResponseTooLate == ASSUME TypeInv, ResponseTooLate PROVE TypeInv'
<1>v. vol \in Volatile BY DEF TypeInv, TypeOK
<1> QED BY <1>v, Reconciles DEF ResponseTooLate, Downlink, FaultKinds

(* AckConfirmed keeps the invariant. *)
LEMMA Type_AckConfirmed == ASSUME TypeInv, AckConfirmed PROVE TypeInv'
<1>v. vol \in Volatile BY DEF TypeInv, TypeOK
<1>1. [vol EXCEPT !.tried = FALSE, !.recAck = FALSE] \in Volatile BY <1>v DEF Volatile
<1> QED BY <1>v, <1>1, Settles DEF AckConfirmed, Downlink, FaultKinds

(* AckRefused keeps the invariant. *)
LEMMA Type_AckRefused == ASSUME TypeInv, AckRefused PROVE TypeInv'
<1>v. vol \in Volatile BY DEF TypeInv, TypeOK
<1> QED BY <1>v, Settles DEF AckRefused, Downlink, FaultKinds

(* AckConflict keeps the invariant. *)
LEMMA Type_AckConflict == ASSUME TypeInv, AckConflict PROVE TypeInv'
<1>v. vol \in Volatile BY DEF TypeInv, TypeOK
<1> QED BY <1>v, Reconciles DEF AckConflict, Downlink, FaultKinds

(* StatusConflict keeps the invariant. *)
LEMMA Type_StatusConflict == ASSUME TypeInv, StatusConflict PROVE TypeInv'
<1>v. vol \in Volatile BY DEF TypeInv, TypeOK
<1>1. [vol EXCEPT !.recSent = FALSE] \in Volatile BY <1>v DEF Volatile
<1> QED BY <1>v, <1>1, Settles, Reconciles DEF StatusConflict, Downlink, FaultKinds

(* ResponseAccepted keeps the invariant. *)
LEMMA Type_ResponseAccepted ==
    ASSUME TypeInv, NEW leased \in BOOLEAN, ResponseAccepted(leased)
    PROVE  TypeInv'
<1>m. mem \in Record BY DEF TypeInv, TypeOK
<1>v. vol \in Volatile BY DEF TypeInv, TypeOK
<1>1. mem' \in Record /\ SameAttempt
  <2>0. (mem.lease \/ leased) \in BOOLEAN OBVIOUS
  <2>1. [mem EXCEPT !.state = "IMPORTING", !.lease = @ \/ leased] \in Record
      BY <1>m, <2>0, ZenonT(60) DEF Record
  <2>8. mem' \in Record BY <1>m, <2>1 DEF ResponseAccepted, Downlink
  <2>9. SameAttempt BY <1>m DEF Record, SameAttempt, ResponseAccepted, Downlink
  <2> QED BY <2>8, <2>9
<1>2. vol' \in Volatile
  <2>1. [vol EXCEPT !.pend = TRUE, !.tried = FALSE, !.burnt = IF leased THEN FALSE
      ELSE @] \in Volatile
      BY <1>v DEF Volatile
  <2> QED BY <1>v, <2>1 DEF ResponseAccepted, Downlink
<1>3. Passes
    BY DEF TypeInv, TypeOK, CallInv, Passes, Record, NoFault, ResponseAccepted,
        Downlink
<1>4. clk' \in Clocks /\ faults' = faults
    BY DEF TypeInv, TypeOK, Clocks, ResponseAccepted
<1>6. Surroundings BY <1>4 DEF TypeInv, TypeOK, Surroundings, ResponseAccepted
<1> QED BY <1>1, <1>2, <1>3, <1>6, Quiet

(* StatusWhileReconciling keeps the invariant. *)
LEMMA Type_StatusWhileReconciling ==
    ASSUME TypeInv, NEW s \in Statuses, StatusWhileReconciling(s)
    PROVE  TypeInv'
<1>v. vol \in Volatile BY DEF TypeInv, TypeOK
<1>1. mem' \in Record /\ SameAttempt
    BY DEF TypeInv, TypeOK, SameAttempt, Record, StatusWhileReconciling, Downlink
<1>2. vol' \in Volatile
  <2>1. [vol EXCEPT !.recSent = FALSE] \in Volatile BY <1>v DEF Volatile
  <2> QED BY <1>v, <2>1 DEF StatusWhileReconciling, Downlink
<1>3. pc' \in Functions /\ reg' \in Arguments /\ CallInv' /\ disk' \in {disk, mem'}
    BY DEF TypeInv, TypeOK, CallInv, AttemptInv, ChainInv, Record,
        StatusWhileReconciling, Downlink
<1>4. Outside /\ (NoFault \/ \E k \in FaultKinds : Blame(k))
    BY DEF StatusWhileReconciling, Downlink, FaultKinds
<1> QED BY <1>1, <1>2, <1>3, <1>4, Moves

(* StatusWhileWaiting keeps the invariant. *)
LEMMA Type_StatusWhileWaiting ==
    ASSUME TypeInv, NEW s \in Statuses, StatusWhileWaiting(s)
    PROVE  TypeInv'
<1>v. vol \in Volatile BY DEF TypeInv, TypeOK
<1>1. [vol EXCEPT !.ackSent = FALSE] \in Volatile BY <1>v DEF Volatile
<1> QED BY <1>v, <1>1, Settles DEF StatusWhileWaiting, Downlink, FaultKinds

(* SecResolves keeps the invariant. *)
LEMMA Type_SecResolves ==
    ASSUME TypeInv, NEW r \in Rids, SecResolves(r)
    PROVE  TypeInv'
<1>1. mem' \in Record /\ SameAttempt
    BY DEF TypeInv, TypeOK, SameAttempt, Record, SecResolves
<1>2. vol' \in Volatile BY DEF TypeInv, TypeOK, SecResolves
<1>3. Passes BY DEF TypeInv, TypeOK, CallInv, Passes, Record, NoFault, SecResolves
<1>6. Surroundings
    BY BoundsAssumption DEF TypeInv, TypeOK, Surroundings, NoFault, Messages,
        Record, Entries, SecResolves
<1> QED BY <1>1, <1>2, <1>3, <1>6, Quiet

(* VmdIssues keeps the invariant. *)
LEMMA Type_VmdIssues ==
    ASSUME TypeInv, NEW r \in Rids, VmdIssues(r)
    PROVE  TypeInv'
<1>1. mem' \in Record /\ SameAttempt
    BY DEF TypeInv, TypeOK, SameAttempt, Record, VmdIssues, VmdMoves
<1>2. vol' \in Volatile BY DEF TypeInv, TypeOK, VmdIssues, VmdMoves
<1>3. Passes
    BY DEF TypeInv, TypeOK, CallInv, Passes, Record, NoFault, VmdIssues, VmdMoves
<1>6. Surroundings
    BY BoundsAssumption DEF TypeInv, TypeOK, Surroundings, NoFault, Batches,
        VmdIssues, VmdMoves
<1> QED BY <1>1, <1>2, <1>3, <1>6, Quiet

(* VmdActivates keeps the invariant. *)
LEMMA Type_VmdActivates ==
    ASSUME TypeInv, NEW r \in Rids, VmdActivates(r)
    PROVE  TypeInv'
<1>1. mem' \in Record /\ SameAttempt
    BY DEF TypeInv, TypeOK, SameAttempt, Record, VmdActivates, VmdMoves
<1>2. vol' \in Volatile BY DEF TypeInv, TypeOK, VmdActivates, VmdMoves
<1>3. Passes
    BY DEF TypeInv, TypeOK, CallInv, Passes, Record, NoFault, VmdActivates, VmdMoves
<1>6. Surroundings
    BY BoundsAssumption DEF TypeInv, TypeOK, Surroundings, NoFault, Batches,
        VmdActivates, VmdMoves
<1> QED BY <1>1, <1>2, <1>3, <1>6, Quiet

(* VmdTerminates keeps the invariant. *)
LEMMA Type_VmdTerminates ==
    ASSUME TypeInv, NEW r \in Rids, VmdTerminates(r)
    PROVE  TypeInv'
<1>1. mem' \in Record /\ SameAttempt
    BY DEF TypeInv, TypeOK, SameAttempt, Record, VmdTerminates, VmdMoves
<1>2. vol' \in Volatile BY DEF TypeInv, TypeOK, VmdTerminates, VmdMoves
<1>3. Passes
    BY DEF TypeInv, TypeOK, CallInv, Passes, Record, NoFault, VmdTerminates,
        VmdMoves
<1>6. Surroundings
    BY BoundsAssumption DEF TypeInv, TypeOK, Surroundings, NoFault, Batches, Blame,
        VmdTerminates, VmdMoves
<1> QED BY <1>1, <1>2, <1>3, <1>6, Quiet

(* VmdAnswers keeps the invariant. *)
LEMMA Type_VmdAnswers ==
    ASSUME TypeInv, NEW r \in Rids, NEW s \in Statuses, VmdAnswers(r, s)
    PROVE  TypeInv'
<1>1. mem' \in Record /\ SameAttempt
    BY DEF TypeInv, TypeOK, SameAttempt, Record, VmdAnswers, StatusOf
<1>2. vol' \in Volatile BY DEF TypeInv, TypeOK, VmdAnswers, StatusOf
<1>3. Passes
    BY DEF TypeInv, TypeOK, CallInv, Passes, Record, NoFault, VmdAnswers, StatusOf
<1>6. Surroundings
    BY BoundsAssumption DEF TypeInv, TypeOK, Surroundings, NoFault, Batches, Blame,
        VmdAnswers, StatusOf
<1> QED BY <1>1, <1>2, <1>3, <1>6, Quiet

-----------------------------------------------------------------------------
(* The steps that charge the ledger, start an attempt or restart. *)

USE DEF Outside, NoFault, Blame

(* do_import_call keeps the invariant. *)
LEMMA Type_do_import_call ==
    ASSUME TypeInv, do_import_call
    PROVE  TypeInv'
<1>1. mem' \in Record /\ SameAttempt
    BY DEF TypeInv, TypeOK, SameAttempt, do_import_call
<1>v. vol \in Volatile BY DEF TypeInv, TypeOK
<1>2. vol' \in Volatile
  <2>1. [vol EXCEPT !.tried = TRUE] \in Volatile BY <1>v DEF Volatile
  <2> QED BY <2>1 DEF do_import_call
<1>3. PICK result \in ImportResults, entry \in Entries :
        /\ SecImport(mem.rid, result, entry)
        /\ sec' = [sec EXCEPT ![mem.rid] = entry]
        /\ pc' = "imported" /\ reg' = result
    BY DEF do_import_call
<1>4. faults' \in 0 .. MaxFaults
    BY <1>3, BoundsAssumption DEF TypeInv, TypeOK, SecImport
<1>5. Passes
    BY <1>3 DEF TypeInv, TypeOK, CallInv, Passes, do_import_call
<1>6. Surroundings
    BY <1>3, <1>4 DEF TypeInv, TypeOK, Surroundings, do_import_call
<1> QED BY <1>1, <1>2, <1>5, <1>6, Quiet

(* TimePasses keeps the invariant. *)
LEMMA Type_TimePasses ==
    ASSUME TypeInv, TimePasses
    PROVE  TypeInv'
<1>c. clk \in Clocks BY DEF TypeInv, TypeOK
<1>1. clk' \in Clocks
  <2>1. CASE clk.age < 3 /\ clk' = [clk EXCEPT !.age = @ + 1]
    <3>1. clk.age + 1 \in 0 .. 3 BY <1>c, <2>1 DEF Clocks
    <3> QED BY <1>c, <2>1, <3>1 DEF Clocks
  <2>2. CASE clk' = [clk EXCEPT !.request = TRUE] BY <1>c, <2>2 DEF Clocks
  <2>3. CASE clk' = [clk EXCEPT !.chain = TRUE] BY <1>c, <2>3 DEF Clocks
  <2> QED BY <2>1, <2>2, <2>3 DEF TimePasses
<1>2. mem' \in Record /\ SameAttempt /\ vol' \in Volatile
    BY DEF TypeInv, TypeOK, SameAttempt, TimePasses
<1>3. Passes BY DEF TypeInv, TypeOK, CallInv, Passes, TimePasses
<1>4. Surroundings BY <1>1 DEF TypeInv, TypeOK, Surroundings, TimePasses
<1> QED BY <1>2, <1>3, <1>4, Quiet

(* maybe_freshen keeps the invariant: it charges only below the limit. *)
LEMMA FreshenType ==
    ASSUME TypeInv, NEW v \in Volatile, maybe_freshen(v), NoFault, Outside
    PROVE  TypeInv'
<1> USE DEF maybe_freshen, maybe_freshen_applies, request_ok
<1>m. mem \in Record BY DEF TypeInv, TypeOK
<1>1. mem.req + 1 \in 0 .. ReqLimit BY <1>m, LimitsAssumption DEF Record
<1>2. disk' \in Record BY <1>m, <1>1, ZenonT(60) DEF Record
<1>3. mem' \in Record BY <1>2, ZenonT(60) DEF Record
<1>4. /\ mem'.rid = mem.rid /\ mem'.succ = mem.succ /\ mem'.fp = mem.fp
      /\ mem'.chain = mem.chain /\ mem'.state = "REQUESTING"
      /\ disk'.rid = mem.rid /\ disk'.succ = mem.succ /\ disk'.fp = mem.fp
      /\ disk'.chain = mem.chain /\ disk'.state = mem.state /\ disk'.req = mem'.req
    BY <1>m DEF Record
<1>5. TypeOK' BY <1>2, <1>3 DEF TypeInv, TypeOK
<1>6. CallInv' BY DEF CallInv
<1>7. AttemptInv' /\ ChainInv' BY <1>4 DEF TypeInv, AttemptInv, ChainInv
<1> QED BY <1>5, <1>6, <1>7 DEF TypeInv

(* TickAwait keeps the invariant. *)
LEMMA Type_TickAwait ==
    ASSUME TypeInv, TickAwait
    PROVE  TypeInv'
<1>v. vol \in Volatile BY DEF TypeInv, TypeOK
<1>t. TickVol \in Volatile BY <1>v, TickVolType
<1>1. CASE maybe_freshen(TickVol) BY <1>1, <1>t, FreshenType DEF TickAwait
<1>2. CASE ~maybe_freshen(TickVol)
  <2>1. mem' = mem /\ disk' \in {disk, mem'} /\ lastId' = lastId
      BY <1>2 DEF TickAwait, status_timeout
  <2>2. vol' \in Volatile
    <3>1. [TickVol EXCEPT !.recSent = FALSE] \in Volatile BY <1>t DEF Volatile
    <3> QED BY <1>2, <1>t, <3>1 DEF TickAwait, status_timeout
  <2>3. pc' \in {"idle", "status"} /\ reg' = "none"
      BY <1>2 DEF TickAwait, status_timeout
  <2>4. Surroundings BY DEF TypeInv, TypeOK, Surroundings, TickAwait
  <2>5. mem' \in Record /\ SameAttempt BY <2>1 DEF TypeInv, TypeOK, SameAttempt
  <2>6. Passes BY <2>1, <2>3 DEF CallInv, Passes
  <2> QED BY <2>2, <2>4, <2>5, <2>6, Quiet
<1> QED BY <1>1, <1>2

(* do_reconcile_cached keeps the invariant. *)
LEMMA Type_do_reconcile_cached ==
    ASSUME TypeInv, do_reconcile_cached
    PROVE  TypeInv'
<1>v. vol \in Volatile BY DEF TypeInv, TypeOK
<1>1. CASE maybe_freshen(vol) BY <1>1, <1>v, FreshenType DEF do_reconcile_cached
<1>2. CASE ~maybe_freshen(vol)
  <2>1. UNCHANGED <<mem, vol, disk>> /\ pc' = "matrix" /\ reg' = "tick"
      BY <1>2 DEF do_reconcile_cached
  <2>2. mem' \in Record /\ SameAttempt /\ vol' \in Volatile
      BY <2>1 DEF TypeInv, TypeOK, SameAttempt
  <2>3. Passes BY <2>1 DEF do_reconcile_cached, CallInv, Passes
  <2>4. Surroundings BY DEF TypeInv, TypeOK, Surroundings, do_reconcile_cached
  <2> QED BY <2>2, <2>3, <2>4, Quiet
<1> QED BY <1>1, <1>2

(* do_request_sent keeps the invariant, by the check do_request made (CallInv). *)
LEMMA Type_do_request_sent ==
    ASSUME TypeInv, do_request_sent
    PROVE  TypeInv'
<1>m. mem \in Record BY DEF TypeInv, TypeOK
<1>v. vol \in Volatile BY DEF TypeInv, TypeOK
<1>1. mem.req + 1 \in 0 .. ReqLimit
    BY <1>m, LimitsAssumption DEF TypeInv, CallInv, do_request_sent, Record
<1>2. AtMost(mem.att + 1, AlertAfter) \in 0 .. AlertAfter
    BY <1>m, LimitsAssumption DEF AtMost, Record
<1>3. mem' \in Record BY <1>m, <1>1, <1>2 DEF do_request_sent, Record
<1>4. /\ mem'.rid = mem.rid /\ mem'.succ = mem.succ /\ mem'.fp = mem.fp
      /\ mem'.chain = mem.chain /\ mem'.state = "WAIT_RESPONSE"
    BY <1>m DEF do_request_sent, Record
<1>5. vol' \in Volatile
  <2>1. [vol EXCEPT !.deadline = "running"] \in Volatile BY <1>v DEF Volatile
  <2> QED BY <2>1 DEF do_request_sent
<1>6. TypeOK' BY <1>3, <1>5 DEF TypeInv, TypeOK, do_request_sent
<1>7. CallInv' BY DEF CallInv, do_request_sent
<1>8. AttemptInv' /\ ChainInv'
    BY <1>4 DEF TypeInv, AttemptInv, ChainInv, do_request_sent
<1> QED BY <1>6, <1>7, <1>8 DEF TypeInv

(* The candidate of an attempt is a fingerprint. *)
LEMMA CandidateType ==
    ASSUME TypeOK
    PROVE  Candidate \in Fingerprints /\ Candidate # NoFp
<1>1. Committed \in SUBSET Rids BY DEF Committed
<1>2. Candidate \in (0 .. MaxInput) \X SUBSET Rids BY <1>1 DEF TypeOK, Candidate
<1>3. Candidate # <<>> BY DEF Candidate
<1> QED BY <1>2, <1>3 DEF Fingerprints

(* With "no id", the request ids are an interval of numbers. *)
LEMMA IdRange == Rids \cup {NoId} = 0 .. (ChainIds + 2)
BY LimitsAssumption DEF Rids

(* A new attempt keeps the invariant: the chain pays for its id (ChainInv). *)
LEMMA Type_create_new_attempt ==
    ASSUME TypeInv, create_new_attempt
    PROVE  TypeInv'
<1>m. mem \in Record BY DEF TypeInv, TypeOK
<1>v. vol \in Volatile BY DEF TypeInv, TypeOK
<1>f. Candidate \in Fingerprints /\ Candidate # NoFp BY CandidateType DEF TypeInv
<1>c. mem.chain \in 0 .. ChainIds /\ mem.succ \in Rids \cup {NoId} BY <1>m DEF Record
<1>l. lastId \in 0 .. (ChainIds + 2) BY IdRange DEF TypeInv, TypeOK
<1>1. lastId' \in 0 .. (ChainIds + 2) /\ lastId' <= mem.chain + 2
  <2>1. CASE mem.succ = NoId
    <3>1. lastId' = lastId + 1 BY <2>1 DEF create_new_attempt
    <3>2. lastId <= mem.chain + 1
        BY <2>1 DEF TypeInv, CallInv, ChainInv, create_new_attempt
    <3> QED BY <3>1, <3>2, <1>c, <1>l, LimitsAssumption
  <2>2. CASE mem.succ # NoId
    <3>1. lastId' = lastId BY <2>2 DEF create_new_attempt
    <3>2. lastId <= mem.chain + 1 \/ lastId <= mem.chain + 2 BY DEF TypeInv, ChainInv
    <3> QED BY <3>1, <3>2, <1>c, <1>l, LimitsAssumption
  <2> QED BY <2>1, <2>2
<1>r. (IF mem.succ = NoId THEN lastId' ELSE mem.succ) \in Rids
  <2>1. CASE mem.succ = NoId
    <3>1. lastId' = lastId + 1 BY <2>1 DEF create_new_attempt
    <3> QED BY <2>1, <3>1, <1>1, <1>l, LimitsAssumption DEF Rids
  <2> QED BY <2>1, <1>c
<1>2. NewRecord \in Record BY NewRecordType
<1>3. mem' \in Record
    BY <1>2, <1>m, <1>f, <1>r, ZenonT(60) DEF create_new_attempt, Record
<1>4. /\ mem'.rid # NoId /\ mem'.fp # NoFp /\ mem'.chain = mem.chain
      /\ mem'.state = "REQUESTING"
    BY <1>2, <1>m, <1>f, <1>r DEF create_new_attempt, Record, Rids
<1>5. vol' \in Volatile BY <1>v, ZenonT(60) DEF create_new_attempt, Volatile
<1>k. clk \in Clocks BY DEF TypeInv, TypeOK
<1>6. clk' \in Clocks
  <2>1. clk' = [clk EXCEPT !.age = 0, !.request = FALSE] BY DEF create_new_attempt
  <2>2. 0 \in 0 .. 3 OBVIOUS
  <2> QED BY <1>k, <2>1, <2>2 DEF Clocks
<1>7. TypeOK'
    BY IdRange, <1>1, <1>3, <1>5, <1>6
    DEF TypeInv, TypeOK, create_new_attempt
<1>8. CallInv' BY DEF CallInv, create_new_attempt
<1>9. AttemptInv' /\ ChainInv'
    BY <1>1, <1>4 DEF AttemptInv, ChainInv, create_new_attempt
<1> QED BY <1>7, <1>8, <1>9 DEF TypeInv

(* So does a successor. *)
LEMMA Type_supersede_remote_once ==
    ASSUME TypeInv, supersede_remote_once
    PROVE  TypeInv'
<1>m. mem \in Record BY DEF TypeInv, TypeOK
<1>v. vol \in Volatile BY DEF TypeInv, TypeOK
<1> DEFINE next == IF mem.succ = NoId THEN lastId' ELSE mem.succ
           charge == IF mem.succ = NoId THEN mem.chain + 1 ELSE mem.chain
<1>1. charge \in 0 .. ChainIds
    BY <1>m, LimitsAssumption DEF Record, supersede_remote_once, chain_ok
<1>c. mem.chain \in 0 .. ChainIds /\ mem.succ \in Rids \cup {NoId} BY <1>m DEF Record
<1>l. lastId \in 0 .. (ChainIds + 2) BY IdRange DEF TypeInv, TypeOK
<1> DEFINE base == IF mem.fp = NoFp THEN 1 ELSE 2
<1>b. base \in 1 .. 2 /\ lastId <= mem.chain + base BY DEF TypeInv, ChainInv
<1> HIDE DEF base
<1>2. lastId' \in 0 .. (ChainIds + 2) /\ lastId' <= charge + base
  <2>1. CASE mem.succ = NoId
    <3>1. lastId' = lastId + 1 BY <2>1 DEF supersede_remote_once
    <3> QED BY <2>1, <3>1, <1>1, <1>b, <1>c, <1>l, LimitsAssumption
  <2>2. CASE mem.succ # NoId
    <3>1. lastId' = lastId BY <2>2 DEF supersede_remote_once
    <3> QED BY <2>2, <3>1, <1>b, <1>l
  <2> QED BY <2>1, <2>2
<1>3. next \in Rids
  <2>1. CASE mem.succ = NoId
    <3>1. lastId' = lastId + 1 BY <2>1 DEF supersede_remote_once
    <3> QED BY <2>1, <3>1, <1>2, <1>l, LimitsAssumption DEF Rids
  <2> QED BY <2>1, <1>c
<1>4. mem' = [mem EXCEPT !.state = "SUPERSEDED_REMOTE", !.succ = next, !.chain = charge]
    BY <1>m DEF supersede_remote_once, Record
<1> HIDE DEF next, charge
<1>5. mem' \in Record BY <1>m, <1>1, <1>3, <1>4 DEF Record
<1>6. /\ mem'.rid = mem.rid /\ mem'.fp = mem.fp /\ mem'.chain = charge
      /\ mem'.succ # NoId
    BY <1>m, <1>3, <1>4 DEF Record, Rids
<1>7. vol' \in Volatile
  <2>1. [vol EXCEPT !.cached = "none"] \in Volatile BY <1>v DEF Volatile
  <2> QED BY <2>1 DEF supersede_remote_once
<1>8. TypeOK'
    BY IdRange, <1>2, <1>5, <1>7
    DEF TypeInv, TypeOK, supersede_remote_once
<1>9. CallInv' BY <1>6 DEF CallInv, supersede_remote_once
<1>10. AttemptInv' /\ ChainInv'
    BY <1>2, <1>6 DEF TypeInv, AttemptInv, ChainInv, supersede_remote_once, base
<1> QED BY <1>8, <1>9, <1>10 DEF TypeInv

(* What a restart reads back is typed, and keeps what names the attempt. *)
LEMMA RestoredType ==
    ASSUME NEW d \in Record
    PROVE  /\ Restore(d) \in Record /\ RestoreVolatile(d) \in Volatile
           /\ Restore(d).rid = d.rid /\ Restore(d).succ = d.succ
           /\ Restore(d).fp = d.fp /\ Restore(d).chain = d.chain
           /\ Restore(d).req = d.req
           /\ Restore(d).state = "SUPERSEDED_REMOTE" => d.state = "SUPERSEDED_REMOTE"
<1>1. RestoredState(d) \in States
    BY DEF RestoredState, Record
<1>2. RestoredState(d) = "SUPERSEDED_REMOTE" => d.state = "SUPERSEDED_REMOTE"
    BY DEF RestoredState
<1>3. Restore(d) \in Record BY <1>1 DEF Restore, Record
<1>4. NewVolatile \in Volatile BY DEF NewVolatile, Volatile
<1>5. (d.saved /\ d.fp # NoFp /\ d.state = "ACK_PENDING") \in BOOLEAN OBVIOUS
<1>6. RestoreVolatile(d) \in Volatile
  <2>1. ASSUME NEW b \in BOOLEAN PROVE [NewVolatile EXCEPT !.recAck = b] \in Volatile
      BY <1>4 DEF Volatile
  <2> QED BY <1>5, <2>1 DEF RestoreVolatile
<1> QED BY <1>2, <1>3, <1>6 DEF Restore, Record

(* A restart keeps the invariant: the store agrees with memory (AttemptInv). *)
LEMMA Type_Crash ==
    ASSUME TypeInv, Crash
    PROVE  TypeInv'
<1>d. disk \in Record BY DEF TypeInv, TypeOK
<1>1. mem' = Restore(disk) /\ vol' = RestoreVolatile(disk) /\ disk' = disk BY DEF Crash
<1>2. /\ mem' \in Record /\ vol' \in Volatile
      /\ mem'.rid = disk.rid /\ mem'.succ = disk.succ
      /\ mem'.fp = disk.fp /\ mem'.chain = disk.chain /\ mem'.req = disk.req
      /\ mem'.state = "SUPERSEDED_REMOTE" => disk.state = "SUPERSEDED_REMOTE"
    BY <1>d, <1>1, RestoredType
<1>3. crashes' \in 0 .. MaxCrashes BY BoundsAssumption DEF TypeInv, TypeOK, Crash
<1>4. TypeOK'
    BY <1>1, <1>2, <1>3 DEF TypeInv, TypeOK, Crash
<1>5. CallInv' BY DEF CallInv, Crash
<1>6. AttemptInv' /\ ChainInv' BY <1>1, <1>2 DEF TypeInv, AttemptInv, ChainInv, Crash
<1> QED BY <1>4, <1>5, <1>6 DEF TypeInv

-----------------------------------------------------------------------------
(* The initial states satisfy the invariant. *)
LEMMA TypeInit == ASSUME Init PROVE TypeInv
<1>1. NewRecord \in Record BY NewRecordType
<1>2. 1 \in Rids BY LimitsAssumption DEF Rids
<1>3. EmptyStore \in Record /\ LegacyRecord \in Record
  <2>1. EmptyStore \in Record BY <1>1 DEF EmptyStore, Record
  <2>2. LegacyRecord \in Record BY <1>1, <1>2, ZenonT(60) DEF LegacyRecord, Record
  <2> QED BY <2>1, <2>2
<1>4. disk \in Record BY <1>3 DEF Init
<1>5. /\ disk.fp = NoFp /\ disk.succ = NoId /\ disk.chain = 0 /\ disk.rid \in {0, 1}
      /\ disk.state # "SUPERSEDED_REMOTE"
    BY <1>1, ZenonT(60) DEF Init, EmptyStore, LegacyRecord, NewRecord
<1>6. /\ mem \in Record /\ vol \in Volatile
      /\ mem.rid = disk.rid /\ mem.succ = disk.succ /\ mem.fp = disk.fp
      /\ mem.chain = disk.chain /\ mem.req = disk.req
      /\ mem.state = "SUPERSEDED_REMOTE" => disk.state = "SUPERSEDED_REMOTE"
    BY <1>4, RestoredType DEF Init
<1>7. sec \in [Rids -> Entries] /\ cloud \in [Rids -> Batches]
    BY DEF Init, Entries, Batches
<1>8. sent \subseteq Messages /\ answers = {} BY <1>4 DEF Init, Messages, Record
<1>9. clk \in Clocks
  <2>1. PICK b \in BOOLEAN :
           clk = [age |-> 0, request |-> FALSE, chain |-> FALSE, synced |-> b]
      BY DEF Init
  <2> QED BY <2>1 DEF Clocks
<1>10. TypeOK
    BY <1>2, <1>4, <1>5, <1>6, <1>7, <1>8, <1>9, BoundsAssumption
    DEF Init, TypeOK
<1>11. CallInv BY DEF Init, CallInv
<1>12. AttemptInv /\ ChainInv BY <1>5, <1>6 DEF Init, AttemptInv, ChainInv
<1> QED BY <1>10, <1>11, <1>12 DEF TypeInv

(* Every step preserves it. *)
LEMMA TypeNext == ASSUME TypeInv, [Next]_vars PROVE TypeInv'
<1>1. CASE Ticks
    BY <1>1, Type_TickNoCloud, Type_TickNoSec, Type_TickClockNotSynced,
        Type_TickCheck, Type_TickCall, Type_on_response_timeout, Type_TickAwait,
        Type_do_import, Type_TickWaits DEF Ticks
<1>2. CASE Steps
    BY <1>2, Type_do_check_active, Type_do_check_sec_error,
        Type_do_check_incomplete, Type_build_candidate_fails,
        Type_create_new_attempt_refused, Type_create_new_attempt,
        Type_do_request_blocked, Type_do_request, Type_do_request_rejected,
        Type_do_request_sent, Type_do_import_lease_too_short,
        Type_do_import_unsupported, Type_do_import_call,
        Type_handle_import_committed, Type_handle_import_other,
        Type_do_ack_proof_unavailable, Type_do_ack_proof, Type_do_ack_wait,
        Type_do_ack_exhausted, Type_do_ack_encode_fails, Type_do_ack_status,
        Type_do_ack, Type_do_ack_rejected, Type_do_ack_sent, Type_sec_committed,
        Type_sec_committed_incomplete, Type_sec_not_found_weak, Type_sec_not_found_proven, Type_sec_not_found_hard,
        Type_sec_not_found_observe, Type_enter_hard_blocked, Type_sec_contrary,
        Type_do_reconcile_cached, Type_do_reconcile_status,
        Type_handle_reconcile_status, Type_apply_cloud_matrix,
        Type_supersede_remote_exhausted, Type_supersede_remote_once,
        Type_send_status_request_skipped, Type_send_status_request,
        Type_send_status_request_rejected DEF Steps
<1>3. CASE Downlinks
    BY <1>3, Type_ResponseRefused, Type_ResponseTooLate, Type_ResponseAccepted,
        Type_AckConfirmed, Type_AckRefused, Type_AckConflict,
        Type_StatusWhileReconciling, Type_StatusWhileWaiting, Type_StatusConflict
        DEF Downlinks
<1>4. CASE Environment
    BY <1>4, Type_Readiness, Type_ClockSync, Type_DeadlinePasses, Type_WindowElapses,
        Type_TimePasses, Type_InputChanges, Type_SecResolves, Type_VmdIssues,
        Type_VmdActivates, Type_VmdTerminates, Type_VmdAnswers DEF Environment
<1>5. CASE Crash BY <1>5, Type_Crash
<1>6. CASE UNCHANGED vars
    BY <1>6 DEF vars, TypeInv, TypeOK, CallInv, AttemptInv, ChainInv
<1> QED BY <1>1, <1>2, <1>3, <1>4, <1>5, <1>6 DEF Next

(* The inductive invariant holds in every reachable state. *)
THEOREM TypeInvariance == Spec => []TypeInv
<1>1. Init => TypeInv BY TypeInit
<1>2. TypeInv /\ [Next]_vars => TypeInv' BY TypeNext
<1> QED BY <1>1, <1>2, PTL DEF Spec

(* Type correctness: whatever faults, restarts and interleavings occur, the *)
(* ledger counters stay within kl1_request_limit, kl1_ack_limit and         *)
(* kl1_chain_ids, and every request id in use was generated.                *)
THEOREM TypeCorrect == Spec => []TypeOK
<1>1. TypeInv => TypeOK BY DEF TypeInv
<1> QED BY <1>1, TypeInvariance, PTL

=============================================================================
