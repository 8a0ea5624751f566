------------------------ MODULE KeyProvRecoveryProofs ------------------------
(***************************************************************************)
(* What a restart can rely on, for every value of the constants: the store *)
(* knows of every import SEC may have, names a successor before it exists, *)
(* and bounds the Requests and the request ids; a hard conflict is not     *)
(* left by a restart or a replacement.                                     *)
(*                                                                         *)
(* The properties are about the store, or about one step.  They follow     *)
(* from what memory and store agree on at every moment (IntentInv,         *)
(* HardInv), from the order of the request ids, of which SEC has seen none *)
(* beyond the current one (IdInv), and from the step in which a Request is *)
(* published and not yet charged (SendInv).                                *)
(*                                                                         *)
(* The second part is about the proof that an import had no side effect,   *)
(* on which an attempt is replaced: it is sound while one Request was      *)
(* charged to the attempt, and afterwards until one step spoils it, which  *)
(* is named (NoBundleAgainstEvidence).                                     *)
(*                                                                         *)
(* The third part relates the coordinator to the decision table: what the  *)
(* table decides for every record of facts, and that an attempt is         *)
(* replaced or freshened only where the table says so.                     *)
(***************************************************************************)
EXTENDS KeyProvisioningProofs, KeyProvDecisions, WellFoundedInduction

(* Request ids grow; SEC knows of no id that the coordinator has not used. *)
IdInv ==
    /\ mem.rid <= lastId /\ mem.succ <= lastId
    /\ mem.succ # NoId => mem.rid < mem.succ
    /\ \A r \in Rids : mem.rid < r => sec[r] = "none"

(* The intent to import is in the store before SEC is called. *)
IntentInv ==
    /\ disk.inv = mem.inv
    /\ pc = "import" => mem.inv
    /\ mem.rid # NoId /\ sec[mem.rid] # "none" => mem.inv \/ mem.fp = NoFp

(* A Request that is not charged is the one being published, or was          *)
(* followed by a crash.                                                      *)
SendInv == sends <= mem.req + crashes + (IF pc = "requested" THEN 1 ELSE 0)

(* No function that may replace the attempt runs under a hard conflict. *)
HardInv ==
    /\ disk.res = mem.res
    /\ mem.state = "SUPERSEDED_REMOTE" => mem.res # "HARD_CONFLICT"
    /\ disk.state = "SUPERSEDED_REMOTE" => disk.res # "HARD_CONFLICT"
    /\ pc \in {"remote", "matrix", "supersede"} => mem.res # "HARD_CONFLICT"
    /\ pc = "create" => mem.res # "HARD_CONFLICT" \/ mem.fp = NoFp

RecoveryInv == IdInv /\ IntentInv /\ SendInv /\ HardInv

(* From an empty store every id but the first is a successor. *)
ChainBound == lastId <= mem.chain + (IF mem.fp = NoFp THEN 0 ELSE 1)

-----------------------------------------------------------------------------
(* No bundle comes but by a Response, and a stabilization window goes on, is *)
(* dropped, or elapses.                                                      *)
WindowKept ==
    /\ vol'.pend => vol.pend \/ (pc = "idle" /\ mem.state = "WAIT_RESPONSE")
    /\ vol'.first \in {vol.first, "none"} \/ WindowElapses

(* A lease belongs to an attempt with a snapshot. *)
HasSnapshot == mem.fp # NoFp \/ mem.lease

(* Most steps keep the attempt, its evidence and what SEC knows, charge at   *)
(* most the Request that was published, wait for a Response only after such  *)
(* a charge, and move on to functions that may replace the attempt only      *)
(* without a hard conflict and on a proof.                                   *)
Ordinary ==
    /\ mem'.rid = mem.rid /\ mem'.succ = mem.succ /\ mem'.fp = mem.fp
    /\ mem'.chain = mem.chain /\ mem'.inv = mem.inv /\ mem'.res = mem.res
    /\ mem'.req \in {mem.req, mem.req + 1}
    /\ pc = "requested" => pc' = "requested" \/ mem'.req = mem.req + 1
    /\ mem'.state = "SUPERSEDED_REMOTE" => mem.state = "SUPERSEDED_REMOTE"
    /\ mem'.state = "REQUESTING" => mem.state = "REQUESTING" \/ HasSnapshot
    /\ mem'.state = "WAIT_RESPONSE" =>
          mem.state = "WAIT_RESPONSE" \/ (pc = "requested" /\ mem'.req = mem.req + 1)
    /\ mem'.state = "IMPORTING" => mem.state \in {"IMPORTING", "WAIT_RESPONSE"}
    /\ mem'.lease => mem.lease \/ mem.state = "WAIT_RESPONSE"
    /\ \/ disk' = disk
       \/ disk' = mem'
       \/ /\ disk'.inv = mem.inv /\ disk'.res = mem.res
          /\ disk'.state = mem.state /\ disk'.lease = mem.lease
    /\ WindowKept
    /\ pc' = "request" => pc = "request" \/ mem.state = "REQUESTING" \/ HasSnapshot
    /\ pc' \in {"import", "imported", "requested"} => pc' = pc
    /\ pc \in {"import", "imported"} => pc' = pc \/ mem'.state # "IMPORTING"
    /\ pc' \in {"remote", "matrix", "supersede"} =>
          pc \in {"remote", "matrix", "supersede"} \/ mem.res # "HARD_CONFLICT"
    /\ pc' \in {"matrix", "supersede"} => pc \in {"matrix", "supersede"} \/ Proven
    /\ pc' = "create" =>
          pc \in {"create", "supersede"} \/ mem.state = "SUPERSEDED_REMOTE" \/ mem.fp = NoFp
    /\ UNCHANGED <<sec, lastId, sends, crashes>>

USE DEF NoId, NoFp, persist, persist_unless_suppressed, Return, Call, Settle,
        Outside, NoFault, Blame, memVars, enter_reconcile_old_attempt

(* Such a step preserves the invariants. *)
LEMMA OrdinaryKeeps ==
    ASSUME TypeInv, TypeInv', RecoveryInv, Ordinary
    PROVE  RecoveryInv' /\ (ChainBound => ChainBound')
<1>1. mem.req \in Nat /\ mem'.req \in Nat /\ sends \in Nat /\ crashes \in Nat
    BY LimitsAssumption, BoundsAssumption DEF TypeInv, TypeOK, Record
<1>2. IdInv' BY DEF RecoveryInv, IdInv, Ordinary
<1>3. IntentInv' BY DEF RecoveryInv, IntentInv, Ordinary
<1>4. SendInv'
  <2>1. /\ mem'.req \in {mem.req, mem.req + 1} /\ UNCHANGED <<sends, crashes>>
        /\ pc = "requested" => pc' = "requested" \/ mem'.req = mem.req + 1
      BY DEF Ordinary
  <2> QED BY <1>1, <2>1 DEF RecoveryInv, SendInv
<1>5. HardInv' BY DEF RecoveryInv, HardInv, Ordinary
<1>6. ChainBound => ChainBound' BY DEF ChainBound, Ordinary
<1> QED BY <1>2, <1>3, <1>4, <1>5, <1>6 DEF RecoveryInv

(* A tick and a lost session leave the stabilization window alone, and open  *)
(* no bundle.                                                                *)
LEMMA SameWindow ==
    ASSUME NEW v \in Volatile
    PROVE  /\ refresh_sec_readiness(v) \in Volatile
           /\ refresh_sec_readiness(v).pend = v.pend
           /\ refresh_sec_readiness(v).first = v.first
           /\ invalidate_identity(v) \in Volatile
           /\ ~invalidate_identity(v).pend /\ invalidate_identity(v).first = v.first
<1>1. refresh_sec_readiness(v) \in Volatile /\ invalidate_identity(v) \in Volatile
    BY RefreshedType, InvalidatedType
<1>2. /\ refresh_sec_readiness(v).pend = v.pend
      /\ refresh_sec_readiness(v).first = v.first
    BY DEF refresh_sec_readiness, Volatile
<1>3. ~invalidate_identity(v).pend /\ invalidate_identity(v).first = v.first
    BY DEF invalidate_identity, Volatile
<1> QED BY <1>1, <1>2, <1>3

LEMMA TickWindow ==
    ASSUME vol \in Volatile
    PROVE  TickVol \in Volatile /\ TickVol.pend = vol.pend /\ TickVol.first = vol.first
<1>1. /\ refresh_sec_readiness(vol) \in Volatile
      /\ refresh_sec_readiness(vol).pend = vol.pend
      /\ refresh_sec_readiness(vol).first = vol.first
    BY SameWindow
<1> QED BY <1>1 DEF TickVol, Volatile

(* maybe_freshen_locked charges a Request in the store before it sends it. *)
LEMMA OrdinaryFreshen ==
    ASSUME TypeInv, NEW v, maybe_freshen(v), Outside, pc \in {"idle", "remote"},
           v.pend = vol.pend, v.first = vol.first
    PROVE  Ordinary
<1>m. mem \in Record /\ vol \in Volatile BY DEF TypeInv, TypeOK
<1>1. /\ mem'.rid = mem.rid /\ mem'.succ = mem.succ /\ mem'.fp = mem.fp
      /\ mem'.chain = mem.chain /\ mem'.inv = mem.inv /\ mem'.res = mem.res
      /\ mem'.lease = mem.lease
    BY <1>m DEF maybe_freshen, Record
<1>2. mem'.req = mem.req + 1 /\ mem'.state = "REQUESTING" BY <1>m DEF maybe_freshen, Record
<1>3. /\ disk'.inv = mem.inv /\ disk'.res = mem.res /\ disk'.state = mem.state
      /\ disk'.lease = mem.lease
    BY <1>m DEF maybe_freshen, Record
<1>4. pc' = "request" /\ UNCHANGED <<sec, lastId, sends, crashes>> BY DEF maybe_freshen
<1>5. HasSnapshot BY DEF maybe_freshen, maybe_freshen_applies, HasSnapshot
<1>6. WindowKept BY DEF maybe_freshen, WindowKept
<1> QED BY <1>1, <1>2, <1>3, <1>4, <1>5, <1>6 DEF Ordinary

(* The ticks, but for the one that imports. *)
LEMMA OrdinaryTicks ==
    ASSUME TypeInv,
           \/ TickNoCloud \/ TickNoSec \/ TickClockNotSynced \/ TickCheck
           \/ TickCall \/ on_response_timeout \/ TickAwait \/ TickWaits
    PROVE  Ordinary
<1>m. mem \in Record /\ vol \in Volatile BY DEF TypeInv, TypeOK
<1>1. CASE TickNoCloud
  <2>1. WindowKept BY <1>m, <1>1, SameWindow DEF WindowKept, Volatile, TickNoCloud, GateClosed
  <2> QED BY <1>m, <1>1, <2>1 DEF Ordinary, Record, TickNoCloud, GateClosed
<1>2. CASE TickNoSec
  <2>1. PICK v \in SecNotReady : GateClosed(v) BY <1>2 DEF TickNoSec
  <2>2. v \in Volatile /\ v.pend = vol.pend /\ v.first = vol.first BY <1>m, NotReadyType
  <2>3. WindowKept BY <2>1, <2>2, SameWindow DEF WindowKept, Volatile, GateClosed
  <2>4. pc = "idle" BY <1>2 DEF TickNoSec
  <2> QED BY <1>m, <2>1, <2>3, <2>4 DEF Ordinary, Record, GateClosed
<1>3. CASE TickClockNotSynced
  <2>1. WindowKept BY <1>m, <1>3, TickWindow DEF WindowKept, Volatile, TickClockNotSynced, Tick
  <2> QED BY <1>m, <1>3, <2>1 DEF Ordinary, Record, TickClockNotSynced, Tick
<1>4. CASE TickCheck
  <2>1. WindowKept BY <1>m, <1>4, TickWindow DEF WindowKept, Volatile, TickCheck, Tick
  <2> QED BY <1>m, <1>4, <2>1 DEF Ordinary, Record, TickCheck, Tick
<1>5. CASE TickCall
  <2>1. WindowKept BY <1>m, <1>5, TickWindow DEF WindowKept, Volatile, TickCall, Tick
  <2> QED BY <1>m, <1>5, <2>1 DEF Ordinary, Record, TickCall, Tick
<1>6. CASE on_response_timeout
  <2>1. TickVol \in Volatile /\ TickVol.pend = vol.pend /\ TickVol.first = vol.first
      BY <1>m, TickWindow
  <2>2. vol' = TickVol \/ vol' = [TickVol EXCEPT !.deadline = "none", !.recSent = FALSE]
      BY <1>6 DEF on_response_timeout
  <2>3. WindowKept BY <2>1, <2>2 DEF WindowKept, Volatile
  <2> QED BY <1>m, <1>6, <2>3 DEF Ordinary, Record, on_response_timeout, Tick
<1>7. CASE TickAwait
  <2>1. CASE maybe_freshen(TickVol)
      BY <1>m, <1>7, <2>1, TickWindow, OrdinaryFreshen DEF TickAwait, Tick
  <2>2. CASE ~maybe_freshen(TickVol)
    <3>1. WindowKept
        BY <1>m, <1>7, <2>2, TickWindow DEF WindowKept, Volatile, TickAwait, status_timeout
    <3> QED BY <1>m, <1>7, <2>2, <3>1 DEF Ordinary, Record, TickAwait, Tick, status_timeout
  <2> QED BY <2>1, <2>2
<1>8. CASE TickWaits
  <2>1. WindowKept BY <1>m, <1>8, TickWindow DEF WindowKept, Volatile, TickWaits, Tick
  <2> QED BY <1>m, <1>8, <2>1 DEF Ordinary, Record, TickWaits, Tick
<1> QED BY <1>1, <1>2, <1>3, <1>4, <1>5, <1>6, <1>7, <1>8

(* The steps of the check, the Request and the import. *)
LEMMA OrdinarySteps ==
    ASSUME TypeInv,
           \/ do_check_active \/ do_check_sec_error \/ do_check_incomplete
           \/ build_candidate_fails \/ create_new_attempt_refused
           \/ do_request_blocked \/ do_request_rejected \/ do_request_sent
           \/ do_import_lease_too_short \/ do_import_unsupported
           \/ handle_import_committed \/ handle_import_other
    PROVE  Ordinary
<1>m. mem \in Record /\ vol \in Volatile BY DEF TypeInv, TypeOK
<1>1. CASE do_check_active
  <2>1. WindowKept BY <1>m, <1>1 DEF WindowKept, Volatile, do_check_active
  <2> QED BY <1>m, <1>1, <2>1 DEF Ordinary, Record, do_check_active
<1>2. CASE do_check_sec_error
    BY <1>m, <1>2 DEF Ordinary, WindowKept, Record, do_check_sec_error
<1>3. CASE do_check_incomplete
  <2>1. mem.rid = NoId => mem.fp = NoFp BY DEF TypeInv, AttemptInv
  <2>2. WindowKept BY <1>m, <1>3 DEF WindowKept, Volatile, do_check_incomplete
  <2> QED BY <1>m, <1>3, <2>1, <2>2 DEF Ordinary, HasSnapshot, Record, do_check_incomplete
<1>4. CASE build_candidate_fails
    BY <1>m, <1>4 DEF Ordinary, WindowKept, Record, build_candidate_fails
<1>5. CASE create_new_attempt_refused
    BY <1>m, <1>5 DEF Ordinary, WindowKept, Record, create_new_attempt_refused
<1>6. CASE do_request_blocked
    BY <1>m, <1>6 DEF Ordinary, WindowKept, Record, do_request_blocked
<1>7. CASE do_request_rejected
  <2>1. WindowKept
      BY <1>m, <1>7, SameWindow
      DEF WindowKept, Volatile, do_request_rejected, do_request_admitted, publish_rejected
  <2> QED
      BY <1>m, <1>7, <2>1
      DEF Ordinary, Record, do_request_rejected, do_request_admitted, publish_rejected
<1>8. CASE do_request_sent
    BY <1>m, <1>8 DEF Ordinary, WindowKept, Record, do_request_sent
<1>9. CASE do_import_lease_too_short
    BY <1>m, <1>9 DEF Ordinary, WindowKept, Record, do_import_lease_too_short
<1>10. CASE do_import_unsupported
    BY <1>m, <1>10 DEF Ordinary, WindowKept, Record, do_import_unsupported
<1>11. CASE handle_import_committed
    BY <1>m, <1>11 DEF Ordinary, WindowKept, Record, handle_import_committed
<1>12. CASE handle_import_other
  <2>1. WindowKept BY <1>m, <1>12 DEF WindowKept, Volatile, handle_import_other
  <2> QED BY <1>m, <1>12, <2>1 DEF Ordinary, Record, handle_import_other
<1> QED BY <1>1, <1>2, <1>3, <1>4, <1>5, <1>6, <1>7, <1>8, <1>9, <1>10, <1>11,
           <1>12

(* The steps of the ACK. *)
LEMMA OrdinaryAcks ==
    ASSUME TypeInv,
           \/ do_ack_proof_unavailable \/ do_ack_proof \/ do_ack_wait
           \/ do_ack_exhausted \/ do_ack_encode_fails \/ do_ack_status
           \/ do_ack \/ do_ack_rejected \/ do_ack_sent
    PROVE  Ordinary
<1>m. mem \in Record /\ vol \in Volatile BY DEF TypeInv, TypeOK
<1>1. CASE do_ack_proof_unavailable
    BY <1>m, <1>1 DEF Ordinary, WindowKept, Record, do_ack_proof_unavailable
<1>2. CASE do_ack_proof
    BY <1>m, <1>2 DEF Ordinary, WindowKept, Record, do_ack_proof
<1>3. CASE do_ack_wait
    BY <1>m, <1>3 DEF Ordinary, WindowKept, Record, do_ack_wait
<1>4. CASE do_ack_exhausted
    BY <1>m, <1>4 DEF Ordinary, WindowKept, Record, do_ack_exhausted
<1>5. CASE do_ack_encode_fails
    BY <1>m, <1>5 DEF Ordinary, WindowKept, Record, do_ack_encode_fails, do_ack_admitted
<1>6. CASE do_ack_status
    BY <1>m, <1>6 DEF Ordinary, WindowKept, Record, do_ack_status, do_ack_admitted
<1>7. CASE do_ack
    BY <1>m, <1>7 DEF Ordinary, WindowKept, Record, do_ack, do_ack_admitted
<1>8. CASE do_ack_rejected
  <2>1. WindowKept
      BY <1>m, <1>8, SameWindow
      DEF WindowKept, Volatile, do_ack_rejected, do_ack_admitted, publish_rejected
  <2> QED
      BY <1>m, <1>8, <2>1
      DEF Ordinary, Record, do_ack_rejected, do_ack_admitted, publish_rejected
<1>9. CASE do_ack_sent
    BY <1>m, <1>9 DEF Ordinary, WindowKept, Record, do_ack_sent
<1> QED BY <1>1, <1>2, <1>3, <1>4, <1>5, <1>6, <1>7, <1>8, <1>9

(* The steps of the reconciliation that change no evidence. *)
LEMMA OrdinaryReconciles ==
    ASSUME TypeInv,
           \/ sec_committed_incomplete \/ sec_not_found_weak \/ sec_not_found_proven
           \/ sec_not_found_hard \/ sec_contrary \/ do_reconcile_cached
           \/ do_reconcile_status \/ handle_reconcile_status
           \/ apply_cloud_matrix \/ supersede_remote_exhausted
           \/ send_status_request_skipped \/ send_status_request
           \/ send_status_request_rejected
    PROVE  Ordinary
<1>m. mem \in Record /\ vol \in Volatile BY DEF TypeInv, TypeOK
<1>1. CASE sec_not_found_weak
    BY <1>m, <1>1 DEF Ordinary, WindowKept, Record, sec_not_found_weak, ResetNotFound
<1>2. CASE sec_not_found_proven
    BY <1>m, <1>2 DEF Ordinary, WindowKept, Record, sec_not_found_proven
<1>3. CASE sec_not_found_hard
    BY <1>m, <1>3 DEF Ordinary, WindowKept, Record, sec_not_found_hard
<1>4. CASE sec_contrary
  <2>1. WindowKept BY <1>m, <1>4 DEF WindowKept, Volatile, sec_contrary, ResetNotFound
  <2> QED BY <1>m, <1>4, <2>1 DEF Ordinary, Record, sec_contrary, ResetNotFound
<1>5. CASE do_reconcile_cached
  <2>1. CASE maybe_freshen(vol) BY <1>5, <2>1, OrdinaryFreshen DEF do_reconcile_cached
  <2>2. CASE ~maybe_freshen(vol)
      BY <1>m, <1>5, <2>2 DEF Ordinary, WindowKept, Record, do_reconcile_cached
  <2> QED BY <2>1, <2>2
<1>6. CASE do_reconcile_status
  <2>1. WindowKept BY <1>m, <1>6 DEF WindowKept, Volatile, do_reconcile_status, status_timeout
  <2> QED BY <1>m, <1>6, <2>1 DEF Ordinary, Record, do_reconcile_status, status_timeout
<1>7. CASE handle_reconcile_status
    BY <1>m, <1>7 DEF Ordinary, WindowKept, Record, handle_reconcile_status
<1>8. CASE apply_cloud_matrix
    BY <1>m, <1>8 DEF Ordinary, WindowKept, Record, apply_cloud_matrix, Matrix
<1>9. CASE supersede_remote_exhausted
    BY <1>m, <1>9 DEF Ordinary, WindowKept, Record, supersede_remote_exhausted
<1>10. CASE send_status_request_skipped
    BY <1>m, <1>10 DEF Ordinary, WindowKept, Record, send_status_request_skipped
<1>11. CASE send_status_request
    BY <1>m, <1>11 DEF Ordinary, WindowKept, Record, send_status_request
<1>12. CASE send_status_request_rejected
  <2>1. WindowKept
      BY <1>m, <1>12, SameWindow
      DEF WindowKept, Volatile, send_status_request_rejected, publish_rejected
  <2> QED
      BY <1>m, <1>12, <2>1
      DEF Ordinary, Record, send_status_request_rejected, publish_rejected
<1>13. CASE sec_committed_incomplete
  <2>1. WindowKept BY <1>m, <1>13 DEF WindowKept, Volatile, sec_committed_incomplete
  <2> QED BY <1>m, <1>13, <2>1 DEF Ordinary, Record, sec_committed_incomplete
<1> QED BY <1>1, <1>2, <1>3, <1>4, <1>5, <1>6, <1>7, <1>8, <1>9, <1>10, <1>11,
           <1>12, <1>13

(* The downlinks. *)
LEMMA OrdinaryDownlinks ==
    ASSUME TypeInv,
           \/ ResponseRefused \/ ResponseTooLate
           \/ (\E leased \in BOOLEAN : ResponseAccepted(leased))
           \/ AckConfirmed \/ AckRefused \/ AckConflict
           \/ (\E s \in Statuses : StatusWhileReconciling(s))
           \/ (\E s \in Statuses : StatusWhileWaiting(s)) \/ StatusConflict
    PROVE  Ordinary
<1>m. mem \in Record /\ vol \in Volatile BY DEF TypeInv, TypeOK
<1>1. CASE ResponseRefused
  <2>1. WindowKept BY <1>m, <1>1 DEF WindowKept, Volatile, ResponseRefused, Downlink
  <2> QED BY <1>m, <1>1, <2>1 DEF Ordinary, Record, ResponseRefused, Downlink
<1>2. CASE ResponseTooLate
    BY <1>m, <1>2 DEF Ordinary, WindowKept, Record, ResponseTooLate, Downlink
<1>3. CASE \E leased \in BOOLEAN : ResponseAccepted(leased)
  <2>1. PICK leased \in BOOLEAN : ResponseAccepted(leased) BY <1>3
  <2>2. /\ pc = "idle" /\ pc' = pc /\ disk' = mem'
        /\ mem' = [mem EXCEPT !.state = "IMPORTING", !.lease = @ \/ leased]
        /\ mem.state = "WAIT_RESPONSE" /\ vol'.first = vol.first
        /\ UNCHANGED <<sec, lastId, sends, crashes>>
      BY <1>m, <2>1 DEF ResponseAccepted, Downlink, Volatile
  <2> QED BY <1>m, <2>2 DEF Ordinary, WindowKept, Record
<1>4. CASE AckConfirmed
    BY <1>m, <1>4 DEF Ordinary, WindowKept, Record, AckConfirmed, Downlink
<1>5. CASE AckRefused
    BY <1>m, <1>5 DEF Ordinary, WindowKept, Record, AckRefused, Downlink
<1>6. CASE AckConflict
    BY <1>m, <1>6 DEF Ordinary, WindowKept, Record, AckConflict, Downlink
<1>7. CASE \E s \in Statuses : StatusWhileReconciling(s)
    BY <1>m, <1>7 DEF Ordinary, WindowKept, Record, StatusWhileReconciling, Downlink
<1>8. CASE \E s \in Statuses : StatusWhileWaiting(s)
  <2>1. WindowKept BY <1>m, <1>8 DEF WindowKept, Volatile, StatusWhileWaiting, Downlink
  <2> QED BY <1>m, <1>8, <2>1 DEF Ordinary, Record, StatusWhileWaiting, Downlink
<1>9. CASE StatusConflict
  <2>1. WindowKept BY <1>m, <1>9 DEF WindowKept, Volatile, StatusConflict, Downlink
  <2> QED BY <1>m, <1>9, <2>1 DEF Ordinary, Record, StatusConflict, Downlink
<1> QED BY <1>1, <1>2, <1>3, <1>4, <1>5, <1>6, <1>7, <1>8, <1>9

(* The session, the timers, VMD. *)
LEMMA OrdinaryEnvironment ==
    ASSUME TypeInv,
           \/ ReadinessLost \/ ReadinessReturns \/ ReadinessRepeated \/ ClockSync
           \/ DeadlinePasses \/ WindowElapses \/ TimePasses
           \/ InputChanges \/ (\E r \in Rids : VmdIssues(r))
           \/ (\E r \in Rids : VmdActivates(r))
           \/ (\E r \in Rids : VmdTerminates(r))
           \/ (\E r \in Rids, s \in Statuses : VmdAnswers(r, s))
    PROVE  Ordinary
<1>m. mem \in Record /\ vol \in Volatile BY DEF TypeInv, TypeOK
<1>1. CASE ReadinessLost \/ ReadinessReturns \/ ReadinessRepeated
  <2>1. PICK v \in {vol, invalidate_identity(vol)} : ReadinessEvent(v)
      BY <1>1 DEF ReadinessLost, ReadinessReturns, ReadinessRepeated
  <2>2. v \in Volatile /\ v.first = vol.first /\ (v.pend => vol.pend)
      BY <1>m, SameWindow
  <2>3. WindowKept BY <2>1, <2>2 DEF WindowKept, Volatile, ReadinessEvent
  <2> QED BY <1>m, <2>1, <2>3 DEF Ordinary, Record, ReadinessEvent
<1>2. CASE DeadlinePasses
    BY <1>m, <1>2 DEF Ordinary, WindowKept, Record, DeadlinePasses
<1>3. CASE WindowElapses
    BY <1>m, <1>3 DEF Ordinary, WindowKept, Record, WindowElapses
<1>4. CASE TimePasses
    BY <1>m, <1>4 DEF Ordinary, WindowKept, Record, TimePasses
<1>5. CASE InputChanges
    BY <1>m, <1>5 DEF Ordinary, WindowKept, Record, InputChanges
<1>6. CASE \E r \in Rids : VmdIssues(r)
    BY <1>m, <1>6 DEF Ordinary, WindowKept, Record, VmdIssues, VmdMoves
<1>7. CASE \E r \in Rids : VmdActivates(r)
    BY <1>m, <1>7 DEF Ordinary, WindowKept, Record, VmdActivates, VmdMoves
<1>8. CASE \E r \in Rids : VmdTerminates(r)
    BY <1>m, <1>8 DEF Ordinary, WindowKept, Record, VmdTerminates, VmdMoves
<1>9. CASE \E r \in Rids, s \in Statuses : VmdAnswers(r, s)
    BY <1>m, <1>9 DEF Ordinary, WindowKept, Record, VmdAnswers
<1>10. CASE ClockSync
    BY <1>m, <1>10 DEF Ordinary, WindowKept, Record, ClockSync
<1> QED BY <1>1, <1>2, <1>3, <1>4, <1>5, <1>6, <1>7, <1>8, <1>9, <1>10

-----------------------------------------------------------------------------
(* The others: they publish a Request, touch SEC or the evidence about it,   *)
(* or give the attempt another id.                                           *)
Evidence == do_import \/ sec_committed \/ sec_not_found_observe \/ enter_hard_blocked
SecMoves == do_import_call \/ \E r \in Rids : SecResolves(r)
Special ==
    do_request \/ Evidence \/ SecMoves \/ supersede_remote_once \/ create_new_attempt \/ Crash

LEMMA OrdinaryOrSpecial ==
    ASSUME TypeInv, [Next]_vars
    PROVE  Ordinary \/ Special
<1>1. CASE Ticks BY <1>1, OrdinaryTicks DEF Ticks, Special, Evidence
<1>2. CASE Steps
    BY <1>2, OrdinarySteps, OrdinaryAcks, OrdinaryReconciles
    DEF Steps, Special, Evidence, SecMoves
<1>3. CASE Downlinks BY <1>3, OrdinaryDownlinks DEF Downlinks
<1>4. CASE Environment BY <1>4, OrdinaryEnvironment DEF Environment, Special, SecMoves
<1>5. CASE Crash BY <1>5 DEF Special
<1>6. CASE UNCHANGED vars BY <1>6 DEF vars, Ordinary, WindowKept
<1> QED BY <1>1, <1>2, <1>3, <1>4, <1>5, <1>6 DEF Next

(* do_request_locked publishes before the ledger is charged. *)
LEMMA Rec_do_request ==
    ASSUME TypeInv, RecoveryInv, do_request
    PROVE  RecoveryInv' /\ (ChainBound => ChainBound')
<1>1. /\ UNCHANGED <<mem, disk, sec, lastId, crashes>>
      /\ pc = "request" /\ pc' = "requested" /\ sends' = sends + 1
    BY DEF do_request, do_request_admitted
<1>2. mem.req \in Nat /\ sends \in Nat /\ crashes \in Nat
    BY LimitsAssumption, BoundsAssumption DEF TypeInv, TypeOK, Record
<1>3. SendInv' BY <1>1, <1>2 DEF RecoveryInv, SendInv
<1>4. IdInv' /\ IntentInv' /\ HardInv' /\ (ChainBound => ChainBound')
    BY <1>1 DEF RecoveryInv, IdInv, IntentInv, HardInv, ChainBound
<1> QED BY <1>3, <1>4 DEF RecoveryInv

(* What the steps that change the evidence have in common. *)
LEMMA EvidenceFacts ==
    ASSUME TypeInv, RecoveryInv, Evidence
    PROVE  /\ mem'.rid = mem.rid /\ mem'.succ = mem.succ /\ mem'.fp = mem.fp
           /\ mem'.chain = mem.chain /\ mem'.req = mem.req
           /\ mem.inv => mem'.inv
           /\ disk'.inv = mem'.inv /\ disk'.res = mem'.res
           /\ mem'.state # "SUPERSEDED_REMOTE"
           /\ disk'.state # "SUPERSEDED_REMOTE" \/ disk'.res # "HARD_CONFLICT"
           /\ pc # "requested" /\ pc' \notin {"requested", "create", "matrix", "supersede"}
           /\ pc' = "import" => mem'.inv
           /\ pc' = "remote" => mem'.res # "HARD_CONFLICT"
           /\ \/ mem.res # "HARD_CONFLICT" \/ mem'.res = "HARD_CONFLICT"
              \/ sec[mem.rid] = "committed" \/ (mem'.inv /\ ~mem.inv)
           /\ UNCHANGED <<sec, lastId, sends, crashes>>
<1>m. mem \in Record /\ disk \in Record BY DEF TypeInv, TypeOK
<1>1. CASE do_import
  <2>1. CASE mem.inv
      BY <1>1, <2>1 DEF do_import, Tick, RecoveryInv, IntentInv, HardInv
  <2>2. CASE ~mem.inv
      BY <1>m, <1>1, <2>2 DEF do_import, Tick, Record
  <2> QED BY <2>1, <2>2
<1>2. CASE sec_committed BY <1>m, <1>2 DEF sec_committed, ResetNotFound, Record
<1>3. CASE sec_not_found_observe BY <1>m, <1>3 DEF sec_not_found_observe, Record
<1>4. CASE enter_hard_blocked BY <1>m, <1>4 DEF enter_hard_blocked, Record
<1> QED BY <1>1, <1>2, <1>3, <1>4 DEF Evidence

LEMMA Rec_Evidence ==
    ASSUME TypeInv, RecoveryInv, Evidence
    PROVE  RecoveryInv' /\ (ChainBound => ChainBound')
<1>1. IdInv' BY EvidenceFacts DEF RecoveryInv, IdInv
<1>2. IntentInv' BY EvidenceFacts DEF RecoveryInv, IntentInv
<1>3. SendInv' BY EvidenceFacts DEF RecoveryInv, SendInv
<1>4. HardInv' BY EvidenceFacts DEF HardInv
<1>5. ChainBound => ChainBound' BY EvidenceFacts DEF ChainBound
<1> QED BY <1>1, <1>2, <1>3, <1>4, <1>5 DEF RecoveryInv

(* SEC is called for the current id only, and after the intent was written;  *)
(* it resolves an entry it has.                                              *)
LEMMA Rec_SecMoves ==
    ASSUME TypeInv, RecoveryInv, SecMoves
    PROVE  RecoveryInv' /\ (ChainBound => ChainBound')
<1>t. sec \in [Rids -> Entries] /\ mem \in Record BY DEF TypeInv, TypeOK
<1>1. UNCHANGED <<mem, disk, lastId, sends, crashes>>
    BY DEF SecMoves, do_import_call, SecResolves
<1>2. \/ pc = "import" /\ pc' = "imported"
      \/ pc' = pc
    BY DEF SecMoves, do_import_call, SecResolves
<1>3. \A r \in Rids : sec'[r] # sec[r] => sec[r] # "none" \/ (r = mem.rid /\ pc = "import")
    BY <1>t DEF SecMoves, do_import_call, SecResolves
<1>4. IdInv'
  <2>1. \A r \in Rids : mem.rid < r => sec'[r] = "none"
    <3> SUFFICES ASSUME NEW r \in Rids, mem.rid < r PROVE sec'[r] = "none"
        OBVIOUS
    <3>1. sec[r] = "none" BY DEF RecoveryInv, IdInv
    <3>2. r # mem.rid BY <1>t, LimitsAssumption DEF Record, Rids
    <3> QED BY <1>3, <3>1, <3>2
  <2> QED BY <1>1, <2>1 DEF RecoveryInv, IdInv
<1>5. IntentInv'
  <2>1. ASSUME mem.rid # NoId, sec'[mem.rid] # "none" PROVE mem.inv \/ mem.fp = NoFp
    <3>1. mem.rid \in Rids BY <1>t, <2>1 DEF Record
    <3> QED BY <1>3, <2>1, <3>1 DEF RecoveryInv, IntentInv
  <2> QED BY <1>1, <1>2, <2>1 DEF RecoveryInv, IntentInv
<1>6. SendInv' /\ HardInv' /\ (ChainBound => ChainBound')
    BY <1>1, <1>2 DEF RecoveryInv, SendInv, HardInv, ChainBound
<1> QED BY <1>4, <1>5, <1>6 DEF RecoveryInv

(* supersede_remote_once_locked announces a new id, or the announced one. *)
LEMMA Rec_supersede ==
    ASSUME TypeInv, RecoveryInv, supersede_remote_once
    PROVE  RecoveryInv' /\ (ChainBound => ChainBound')
<1>t. mem \in Record /\ lastId \in Nat
    BY LimitsAssumption DEF TypeInv, TypeOK, Rids
<1>n. mem.rid \in Nat /\ mem.succ \in Nat /\ mem.chain \in Nat
    BY <1>t, LimitsAssumption DEF Record, Rids
<1>1. /\ mem'.rid = mem.rid /\ mem'.fp = mem.fp /\ mem'.inv = mem.inv
      /\ mem'.res = mem.res /\ mem'.req = mem.req
    BY <1>t DEF supersede_remote_once, Record
<1>2. \/ /\ mem.succ = NoId /\ lastId' = lastId + 1 /\ mem'.succ = lastId + 1
         /\ mem'.chain = mem.chain + 1
      \/ mem.succ # NoId /\ lastId' = lastId /\ mem'.succ = mem.succ /\ mem'.chain = mem.chain
    BY <1>t DEF supersede_remote_once, Record
<1>3. /\ pc = "supersede" /\ pc' = "create" /\ disk' = mem'
      /\ UNCHANGED <<sec, sends, crashes>>
    BY DEF supersede_remote_once
<1>4. IdInv' BY <1>t, <1>n, <1>1, <1>2, <1>3 DEF RecoveryInv, IdInv
<1>5. IntentInv' BY <1>1, <1>3 DEF RecoveryInv, IntentInv
<1>6. SendInv' BY <1>1, <1>3 DEF RecoveryInv, SendInv
<1>7. HardInv' BY <1>1, <1>3 DEF RecoveryInv, HardInv
<1>8. ChainBound => ChainBound' BY <1>t, <1>n, <1>1, <1>2 DEF ChainBound
<1> QED BY <1>4, <1>5, <1>6, <1>7, <1>8 DEF RecoveryInv

(* The id of a new attempt is the announced one, or follows all the others. *)
LEMMA NewAttempt ==
    ASSUME TypeInv, RecoveryInv, create_new_attempt
    PROVE  /\ mem.rid < mem'.rid /\ mem'.rid <= lastId'
           /\ mem.fp # NoFp => mem.succ # NoId /\ mem'.rid = mem.succ /\ mem.res # "HARD_CONFLICT"
<1>t. mem \in Record /\ lastId \in Nat
    BY LimitsAssumption DEF TypeInv, TypeOK, Rids
<1>n. mem.rid \in Nat /\ mem.succ \in Nat
    BY <1>t, LimitsAssumption DEF Record, Rids
<1>1. /\ lastId' = IF mem.succ = NoId THEN lastId + 1 ELSE lastId
      /\ mem'.rid = IF mem.succ = NoId THEN lastId' ELSE mem.succ
      /\ pc = "create"
    BY DEF create_new_attempt, NewRecord
<1>2. mem.rid < mem'.rid /\ mem'.rid <= lastId'
    BY <1>t, <1>n, <1>1 DEF RecoveryInv, IdInv
<1>3. mem.fp # NoFp => mem.succ # NoId /\ mem.res # "HARD_CONFLICT"
    BY <1>1 DEF TypeInv, CallInv, RecoveryInv, HardInv
<1> QED BY <1>1, <1>2, <1>3

LEMMA Rec_create ==
    ASSUME TypeInv, TypeInv', RecoveryInv, create_new_attempt
    PROVE  RecoveryInv' /\ (ChainBound => ChainBound')
<1>t. mem \in Record /\ lastId \in Nat
    BY LimitsAssumption DEF TypeInv, TypeOK, Rids
<1>n. mem.rid \in Nat /\ mem'.rid \in Rids \cup {NoId} /\ mem.chain \in Nat /\ crashes \in Nat
  <2>1. mem.rid \in Nat /\ mem.chain \in Nat BY <1>t, LimitsAssumption DEF Record, Rids
  <2>2. mem' \in Record BY DEF TypeInv, TypeOK
  <2>3. mem'.rid \in Rids \cup {NoId} BY <2>2 DEF Record
  <2>4. crashes \in Nat BY BoundsAssumption DEF TypeInv, TypeOK
  <2> QED BY <2>1, <2>3, <2>4
<1>1. /\ mem'.succ = NoId /\ mem'.fp = Candidate /\ mem'.inv = FALSE
      /\ mem'.res = "NO_SIDE_EFFECT_PROVEN" /\ mem'.state = "REQUESTING"
      /\ mem'.chain = mem.chain /\ mem'.req = 0
    BY DEF create_new_attempt, NewRecord
<1>2. disk' = mem' /\ pc' = "request" /\ sends' = 0 /\ UNCHANGED <<sec, crashes>>
    BY DEF create_new_attempt
<1>3. mem.rid < mem'.rid /\ mem'.rid <= lastId' BY NewAttempt
<1>4. \A r \in Rids : mem'.rid <= r => sec[r] = "none"
    BY <1>n, <1>3, LimitsAssumption DEF RecoveryInv, IdInv, Rids
<1>5. mem'.rid \in Rids BY <1>n, <1>3, LimitsAssumption DEF Rids
<1>6. IdInv'
  <2>1. 0 <= lastId' BY <1>n, <1>3, <1>5, LimitsAssumption DEF TypeInv, TypeOK, Rids
  <2>2. \A r \in Rids : mem'.rid < r => sec'[r] = "none"
      BY <1>2, <1>4, <1>5, LimitsAssumption DEF Rids
  <2> QED BY <1>1, <1>3, <2>1, <2>2 DEF IdInv
<1>7. IntentInv'
  <2>1. sec'[mem'.rid] = "none" BY <1>2, <1>4, <1>5, LimitsAssumption DEF Rids
  <2> QED BY <1>2, <2>1 DEF IntentInv
<1>8. SendInv' BY <1>n, <1>1, <1>2 DEF SendInv
<1>9. HardInv' BY <1>1, <1>2 DEF HardInv
<1>10. ChainBound => ChainBound'
  <2>1. mem.succ = NoId => mem.fp = NoFp BY DEF TypeInv, CallInv, create_new_attempt
  <2>2. Candidate # NoFp BY DEF Candidate
  <2>3. lastId' = IF mem.succ = NoId THEN lastId + 1 ELSE lastId BY DEF create_new_attempt
  <2> QED BY <1>t, <1>n, <1>1, <2>1, <2>2, <2>3 DEF ChainBound
<1> QED BY <1>6, <1>7, <1>8, <1>9, <1>10 DEF RecoveryInv

(* A restart reads the attempt back. *)
LEMMA Restored ==
    ASSUME TypeInv, Crash
    PROVE  /\ mem'.rid = disk.rid /\ mem'.succ = disk.succ /\ mem'.fp = disk.fp
           /\ mem'.chain = disk.chain /\ mem'.req = disk.req
           /\ mem'.inv = disk.inv /\ mem'.res = disk.res
           /\ mem'.state = "SUPERSEDED_REMOTE" => disk.state = "SUPERSEDED_REMOTE"
<1>d. disk \in Record BY DEF TypeInv, TypeOK
<1>1. RestoredState(disk) = "SUPERSEDED_REMOTE" => disk.state = "SUPERSEDED_REMOTE"
    BY DEF RestoredState
<1> HIDE DEF NoId, NoFp
<1> QED BY <1>d, <1>1 DEF Crash, Restore, Record

LEMMA Rec_Crash ==
    ASSUME TypeInv, RecoveryInv, Crash
    PROVE  RecoveryInv' /\ (ChainBound => ChainBound')
<1>1. /\ disk.rid = mem.rid /\ disk.succ = mem.succ /\ disk.fp = mem.fp
      /\ disk.chain = mem.chain /\ disk.req = mem.req
    BY DEF TypeInv, AttemptInv
<1>2. disk.inv = mem.inv /\ disk.res = mem.res BY DEF RecoveryInv, IntentInv, HardInv
<1>3. /\ UNCHANGED <<disk, sec, lastId, sends>>
      /\ pc' = "idle" /\ crashes' = crashes + 1
    BY DEF Crash
<1>4. mem.req \in Nat /\ sends \in Nat /\ crashes \in Nat
    BY LimitsAssumption, BoundsAssumption DEF TypeInv, TypeOK, Record
<1>5. IdInv' BY <1>1, <1>3, Restored DEF RecoveryInv, IdInv
<1>6. IntentInv' BY <1>1, <1>2, <1>3, Restored DEF RecoveryInv, IntentInv
<1>7. SendInv' BY <1>1, <1>3, <1>4, Restored DEF RecoveryInv, SendInv
<1>8. HardInv' BY <1>2, <1>3, Restored DEF RecoveryInv, HardInv
<1>9. ChainBound => ChainBound' BY <1>1, <1>3, Restored DEF ChainBound
<1> QED BY <1>5, <1>6, <1>7, <1>8, <1>9 DEF RecoveryInv

-----------------------------------------------------------------------------
LEMMA RecoveryNext ==
    ASSUME TypeInv, TypeInv', RecoveryInv, [Next]_vars
    PROVE  RecoveryInv' /\ (ChainBound => ChainBound')
<1>1. CASE Ordinary BY <1>1, OrdinaryKeeps
<1>2. CASE Special
    BY <1>2, Rec_do_request, Rec_Evidence, Rec_SecMoves, Rec_supersede, Rec_create, Rec_Crash
    DEF Special
<1> QED BY <1>1, <1>2, OrdinaryOrSpecial

(* At the start SEC knows at most of the attempt of a legacy record. *)
LEMMA RecoveryInit ==
    ASSUME Init
    PROVE  RecoveryInv /\ (StartRecords = {"empty"} => ChainBound)
<1>1. disk \in {EmptyStore, LegacyRecord} BY DEF Init
<1>2. /\ mem.rid = disk.rid /\ mem.succ = NoId /\ mem.fp = NoFp /\ mem.chain = 0
      /\ mem.req = 0 /\ mem.inv = FALSE /\ disk.inv = FALSE
      /\ mem.res = "UNRESOLVED" /\ disk.res = "UNRESOLVED"
      /\ disk.rid \in {0, 1} /\ disk.fp = NoFp
  <2>1. mem = [disk EXCEPT !.saved = TRUE, !.state = RestoredState(disk)]
      BY DEF Init, Restore
  <2>2. CASE disk = EmptyStore BY <2>1, <2>2 DEF EmptyStore, NewRecord
  <2>3. CASE disk = LegacyRecord BY <2>1, <2>3 DEF LegacyRecord, NewRecord
  <2> QED BY <1>1, <2>2, <2>3
<1>3. pc = "idle" /\ lastId = disk.rid /\ sends = 0 /\ crashes = 0 BY DEF Init
<1>4. IdInv
  <2>1. ASSUME NEW r \in Rids, mem.rid < r PROVE sec[r] = "none"
    <3>1. r # disk.rid BY <1>2, <2>1
    <3> QED BY <3>1 DEF Init
  <2> QED BY <1>2, <1>3, <2>1 DEF IdInv
<1>5. IntentInv /\ HardInv BY <1>2, <1>3 DEF IntentInv, HardInv
<1>6. SendInv BY <1>2, <1>3 DEF SendInv
<1>7. ASSUME StartRecords = {"empty"} PROVE ChainBound
  <2>1. disk.rid = 0 BY <1>1, <1>7 DEF Init, EmptyStore, LegacyRecord, NewRecord
  <2> QED BY <1>2, <1>3, <2>1 DEF ChainBound
<1> QED BY <1>4, <1>5, <1>6, <1>7 DEF RecoveryInv

(* Memory and store agree on the intent and on the evidence; SEC knows of no *)
(* id beyond the current one; at most one Request per crash is uncharged.    *)
THEOREM RecoveryInvariance == Spec => []RecoveryInv
<1>1. Init => RecoveryInv BY RecoveryInit
<1>2. TypeInv /\ TypeInv' /\ RecoveryInv /\ [Next]_vars => RecoveryInv' BY RecoveryNext
<1> QED BY <1>1, <1>2, TypeInvariance, PTL DEF Spec

(* do_import_locked: whenever the process dies, the store says that the      *)
(* import was invoked if SEC may know of it.                                 *)
THEOREM IntentDurability == Spec => []ImportIntentDurable
<1>1. TypeInv /\ RecoveryInv => ImportIntentDurable
    BY DEF TypeInv, AttemptInv, RecoveryInv, IntentInv, ImportIntentDurable
<1> QED BY <1>1, TypeInvariance, RecoveryInvariance, PTL

(* do_request_locked sends no more Requests under one id than the limit      *)
(* allows, and one for each crash.                                           *)
THEOREM RequestBound == Spec => []RequestOvershootByCrash
<1>1. TypeInv /\ RecoveryInv => RequestOvershootByCrash
  <2> SUFFICES ASSUME TypeInv, RecoveryInv PROVE sends <= ReqLimit + crashes
      BY DEF RequestOvershootByCrash
  <2>1. mem.req \in 0 .. ReqLimit /\ sends \in Nat /\ crashes \in Nat /\ ReqLimit \in Nat
      BY LimitsAssumption, BoundsAssumption DEF TypeInv, TypeOK, Record
  <2>2. pc = "requested" => mem.req < ReqLimit BY DEF TypeInv, CallInv
  <2> QED BY <2>1, <2>2 DEF RecoveryInv, SendInv
<1> QED BY <1>1, TypeInvariance, RecoveryInvariance, PTL

(* supersede_remote_once_locked: a device that starts without a record never *)
(* uses more than ChainIds successors of its first attempt.                  *)
THEOREM SuccessorBound == StartRecords = {"empty"} => (Spec => []SuccessorsWithinChain)
<1> SUFFICES ASSUME StartRecords = {"empty"} PROVE Spec => []SuccessorsWithinChain
    OBVIOUS
<1>1. Init => ChainBound BY RecoveryInit
<1>2. TypeInv /\ TypeInv' /\ RecoveryInv /\ ChainBound /\ [Next]_vars => ChainBound'
    BY RecoveryNext
<1>3. TypeInv /\ ChainBound => SuccessorsWithinChain
  <2> SUFFICES ASSUME TypeInv, ChainBound PROVE lastId <= ChainIds + 1
      BY DEF SuccessorsWithinChain
  <2>1. mem.chain \in 0 .. ChainIds /\ lastId \in Nat /\ ChainIds \in Nat
      BY LimitsAssumption DEF TypeInv, TypeOK, Record, Rids
  <2> QED BY <2>1 DEF ChainBound
<1> QED BY <1>1, <1>2, <1>3, TypeInvariance, RecoveryInvariance, PTL DEF Spec

(* The store moves to a new request id only if it has named it as successor, *)
(* so that a restart in a supersede continues with the announced id.         *)
THEOREM SupersedeDurability == Spec => SupersedePersistedFirst
<1>1. TypeInv /\ TypeInv' /\ RecoveryInv /\ [Next]_vars
        => [disk'.rid # disk.rid =>
               /\ disk'.rid > disk.rid
               /\ disk.fp # NoFp => disk.succ = disk'.rid]_vars
  <2> SUFFICES ASSUME TypeInv, TypeInv', RecoveryInv, [Next]_vars, disk'.rid # disk.rid
               PROVE  disk'.rid > disk.rid /\ (disk.fp # NoFp => disk.succ = disk'.rid)
      OBVIOUS
  <2>1. /\ disk.rid = mem.rid /\ disk.succ = mem.succ /\ disk.fp = mem.fp
        /\ disk'.rid = mem'.rid
      BY DEF TypeInv, AttemptInv
  <2>2. create_new_attempt
    <3>1. CASE Ordinary BY <2>1, <3>1 DEF Ordinary
    <3>2. CASE do_request BY <3>2 DEF do_request
    <3>3. CASE Evidence BY <2>1, <3>3, EvidenceFacts
    <3>4. CASE SecMoves BY <3>4 DEF SecMoves, do_import_call, SecResolves
    <3>5. CASE supersede_remote_once
      <4>1. mem \in Record BY DEF TypeInv, TypeOK
      <4> QED BY <2>1, <3>5, <4>1 DEF supersede_remote_once, Record
    <3>6. CASE Crash BY <3>6 DEF Crash
    <3> QED BY <3>1, <3>2, <3>3, <3>4, <3>5, <3>6, OrdinaryOrSpecial DEF Special
  <2>3. mem.rid < mem'.rid /\ (mem.fp # NoFp => mem'.rid = mem.succ)
      BY <2>2, NewAttempt
  <2> QED BY <2>1, <2>3
<1> QED BY <1>1, TypeInvariance, RecoveryInvariance, PTL DEF Spec, SupersedePersistedFirst

(* enter_hard_blocked_locked: an attempt under HARD_CONFLICT is not replaced *)
(* and keeps its verdict, over restarts and whatever VMD answers, but for a  *)
(* committed import or the first import of the attempt.                      *)
THEOREM HardConflictSafety == Spec => HardConflictHolds
<1>1. TypeInv /\ RecoveryInv /\ [Next]_vars
        => [mem.res = "HARD_CONFLICT" /\ mem.fp # NoFp =>
               /\ mem'.rid = mem.rid
               /\ \/ mem'.res = "HARD_CONFLICT"
                  \/ sec[mem.rid] = "committed"
                  \/ mem'.inv /\ ~mem.inv]_vars
  <2> SUFFICES ASSUME TypeInv, RecoveryInv, [Next]_vars, mem.res = "HARD_CONFLICT",
                      mem.fp # NoFp
               PROVE  /\ mem'.rid = mem.rid
                      /\ \/ mem'.res = "HARD_CONFLICT"
                         \/ sec[mem.rid] = "committed"
                         \/ mem'.inv /\ ~mem.inv
      OBVIOUS
  <2>1. CASE Ordinary BY <2>1 DEF Ordinary
  <2>2. CASE do_request BY <2>2 DEF do_request
  <2>3. CASE Evidence BY <2>3, EvidenceFacts
  <2>4. CASE SecMoves BY <2>4 DEF SecMoves, do_import_call, SecResolves
  <2>5. CASE supersede_remote_once BY <2>5 DEF supersede_remote_once, RecoveryInv, HardInv
  <2>6. CASE create_new_attempt BY <2>6, NewAttempt
  <2>7. CASE Crash
      BY <2>7, Restored DEF TypeInv, AttemptInv, RecoveryInv, HardInv
  <2> QED BY <2>1, <2>2, <2>3, <2>4, <2>5, <2>6, <2>7, OrdinaryOrSpecial DEF Special
<1> QED BY <1>1, TypeInvariance, RecoveryInvariance, PTL DEF Spec, HardConflictHolds

-----------------------------------------------------------------------------
(* What SEC has under the current id.  A proof that there is no side effect  *)
(* is only as good as the promise that no import follows it.  An import      *)
(* needs a bundle, a bundle a wait for it, and a wait a charged Request.     *)

(* An attempt without snapshot is not requested. *)
SnapshotInv ==
    mem.fp = NoFp =>
       /\ mem.state \notin {"REQUESTING", "WAIT_RESPONSE", "IMPORTING"}
       /\ pc \notin {"request", "requested", "import", "imported"}
       /\ ~mem.inv /\ ~mem.lease /\ ~disk.lease

(* Who waits for a Response, or has imported one, was charged a Request. *)
ChargeInv ==
    /\ mem.state \in {"WAIT_RESPONSE", "IMPORTING"} => mem.req >= 1
    /\ disk.fp # NoFp /\ disk.state \in {"WAIT_RESPONSE", "IMPORTING"} => mem.req >= 1
    /\ mem.inv => mem.req >= 1

(* There is something to stabilize only after an import. *)
UnresolvedInv ==
    /\ mem.res = "UNRESOLVED" => mem.inv \/ mem.fp = NoFp
    /\ vol.first # "none" => mem.inv \/ mem.fp = NoFp

ImportInv == SnapshotInv /\ ChargeInv /\ UnresolvedInv

(* A bundle is taken against the evidence when the attempt has imported one  *)
(* before, and that import is found absent, or its window is open:           *)
(* do_import_locked then imports again, and leaves the finding as it is.     *)
AgainstEvidence ==
    /\ mem.state = "WAIT_RESPONSE" /\ mem'.state = "IMPORTING"
    /\ mem.inv /\ (Proven \/ vol.first # "none")

(* Who holds a bundle has no proof, and no window. *)
BundleSound ==
    mem.state = "IMPORTING" /\ mem.inv /\ vol.pend => vol.first = "none" /\ ~Proven

(* The import is called before the window opens; a window that has elapsed,  *)
(* and a proof, say what SEC has.                                            *)
ProofSound ==
    /\ pc = "import" /\ vol.pend => vol.first = "none" /\ ~Proven
    /\ mem.rid # NoId /\ vol.first = "elapsed" => sec[mem.rid] # "pending"
    /\ mem.rid # NoId /\ Proven => sec[mem.rid] = "none"

Sound == BundleSound /\ ProofSound

(* With one Request charged nobody waits for a Response after the import, in *)
(* memory or in the store.                                                   *)
LastImport ==
    mem.inv => mem.state # "WAIT_RESPONSE" /\ disk.state # "WAIT_RESPONSE"

FirstRequest == mem.req <= 1 => LastImport /\ Sound

(* Most steps keep the evidence, and with it what is said of it. *)
LEMMA OrdinaryKeepsImport ==
    ASSUME TypeInv, TypeInv', RecoveryInv, ImportInv, Ordinary
    PROVE  /\ ImportInv'
           /\ Sound /\ ~AgainstEvidence => Sound'
           /\ mem'.req <= 1 => mem.req <= 1 /\ (LastImport => LastImport')
<1>1. /\ mem.req \in Nat /\ mem'.req \in Nat /\ disk.fp = mem.fp /\ disk'.fp = mem'.fp
      /\ mem'.fp = mem.fp /\ mem'.rid = mem.rid /\ mem'.inv = mem.inv /\ mem'.res = mem.res
      /\ mem.req <= mem'.req
  <2>1. mem.req \in Nat /\ mem'.req \in Nat BY LimitsAssumption DEF TypeInv, TypeOK, Record
  <2>2. disk.fp = mem.fp /\ disk'.fp = mem'.fp BY DEF TypeInv, AttemptInv
  <2>3. /\ mem'.fp = mem.fp /\ mem'.rid = mem.rid /\ mem'.inv = mem.inv
        /\ mem'.res = mem.res /\ mem'.req \in {mem.req, mem.req + 1}
      BY DEF Ordinary
  <2> QED BY <2>1, <2>2, <2>3
<1>2. SnapshotInv'
    BY <1>1 DEF ImportInv, SnapshotInv, Ordinary, HasSnapshot
<1>3. ChargeInv'
  <2>1. mem'.state \in {"WAIT_RESPONSE", "IMPORTING"} => mem'.req >= 1
      BY <1>1 DEF ImportInv, ChargeInv, Ordinary
  <2>2. disk'.fp # NoFp /\ disk'.state \in {"WAIT_RESPONSE", "IMPORTING"} => mem'.req >= 1
      BY <1>1, <2>1 DEF ImportInv, ChargeInv, Ordinary
  <2>3. mem'.inv => mem'.req >= 1 BY <1>1 DEF ImportInv, ChargeInv
  <2> QED BY <2>1, <2>2, <2>3 DEF ChargeInv
<1>w. vol'.first # "none" => vol.first # "none"
    BY DEF Ordinary, WindowKept, WindowElapses
<1>4. UnresolvedInv' BY <1>1, <1>w DEF ImportInv, UnresolvedInv
<1>5. ASSUME Sound, ~AgainstEvidence PROVE Sound'
  <2>1. BundleSound'
    <3> SUFFICES ASSUME mem'.state = "IMPORTING", mem.inv, vol'.pend
                 PROVE  vol'.first = "none" /\ ~Proven'
        BY <1>1 DEF BundleSound
    <3>1. vol.first = "none" /\ ~Proven
      <4>1. CASE mem.state = "WAIT_RESPONSE" BY <1>5, <4>1 DEF AgainstEvidence
      <4>2. CASE mem.state # "WAIT_RESPONSE"
        <5>1. mem.state = "IMPORTING" BY <4>2 DEF Ordinary
        <5>2. vol.pend BY <4>2 DEF Ordinary, WindowKept
        <5> QED BY <1>5, <5>1, <5>2 DEF Sound, BundleSound
      <4> QED BY <4>1, <4>2
    <3> QED BY <1>1, <1>w, <3>1 DEF Proven
  <2>2. pc' = "import" /\ vol'.pend => vol'.first = "none" /\ ~Proven'
      BY <1>1, <1>w, <1>5 DEF Sound, ProofSound, Proven, Ordinary, WindowKept
  <2>3. mem.rid # NoId /\ vol'.first = "elapsed" => sec[mem.rid] # "pending"
      BY <1>5 DEF Sound, ProofSound, Ordinary, WindowKept, WindowElapses
  <2>4. mem.rid # NoId /\ Proven' => sec[mem.rid] = "none"
      BY <1>1, <1>5 DEF Sound, ProofSound, Proven
  <2>5. sec' = sec BY DEF Ordinary
  <2> QED BY <1>1, <2>1, <2>2, <2>3, <2>4, <2>5 DEF Sound, ProofSound
<1>6. ASSUME mem'.req <= 1, LastImport PROVE LastImport'
  <2> SUFFICES ASSUME mem.inv
               PROVE  mem'.state # "WAIT_RESPONSE" /\ disk'.state # "WAIT_RESPONSE"
      BY <1>1 DEF LastImport
  <2>1. mem.req = 1 BY <1>1, <1>6 DEF ImportInv, ChargeInv
  <2>2. mem'.state # "WAIT_RESPONSE" BY <1>1, <1>6, <2>1 DEF LastImport, Ordinary
  <2>3. disk'.state # "WAIT_RESPONSE" BY <1>6, <2>2 DEF LastImport, Ordinary
  <2> QED BY <2>2, <2>3
<1> QED BY <1>1, <1>2, <1>3, <1>4, <1>5, <1>6 DEF ImportInv

(* A Request that is published is not charged yet. *)
LEMMA Imp_do_request ==
    ASSUME TypeInv, ImportInv, do_request
    PROVE  /\ ImportInv' /\ mem'.req = mem.req
           /\ Sound => Sound'
           /\ LastImport => LastImport'
<1>1. UNCHANGED <<mem, vol, disk, sec>> /\ pc = "request" /\ pc' = "requested"
    BY DEF do_request, do_request_admitted
<1>2. ImportInv'
    BY <1>1 DEF ImportInv, SnapshotInv, ChargeInv, UnresolvedInv
<1>3. (Sound => Sound') /\ (LastImport => LastImport')
    BY <1>1 DEF Sound, BundleSound, ProofSound, LastImport, Proven
<1> QED BY <1>1, <1>2, <1>3

(* do_import_locked: the first import takes the proof back; a bundle that is *)
(* imported later was taken without one.                                     *)
LEMMA Imp_do_import ==
    ASSUME TypeInv, RecoveryInv, ImportInv, do_import
    PROVE  /\ ImportInv' /\ mem'.req = mem.req
           /\ Sound => Sound'
           /\ LastImport => LastImport'
<1>t. mem \in Record /\ vol \in Volatile BY DEF TypeInv, TypeOK
<1>0. disk.fp = mem.fp BY DEF TypeInv, AttemptInv
<1>1. /\ mem.state = "IMPORTING" /\ pc = "idle" /\ pc' = "import" /\ sec' = sec
      /\ vol'.pend = vol.pend /\ vol'.first = vol.first
    BY <1>t, TickWindow DEF do_import, Tick
<1>2. /\ mem'.rid = mem.rid /\ mem'.fp = mem.fp /\ mem'.req = mem.req /\ mem'.inv
      /\ mem'.state = "IMPORTING" /\ mem'.lease = mem.lease
      /\ mem.inv => mem'.res = mem.res /\ disk' = disk
      /\ ~mem.inv => mem'.res = "UNRESOLVED" /\ disk' = mem'
    BY <1>t, <1>1 DEF do_import, Record
<1>3. mem.fp # NoFp /\ mem.req >= 1 BY <1>1 DEF ImportInv, SnapshotInv, ChargeInv
<1>4. ImportInv'
    BY <1>2, <1>3 DEF ImportInv, SnapshotInv, ChargeInv, UnresolvedInv
<1>5. ASSUME Sound PROVE Sound'
  <2>1. vol.pend => vol.first = "none" /\ mem'.res # "NO_SIDE_EFFECT_PROVEN"
    <3>1. CASE mem.inv BY <1>1, <1>2, <1>5, <3>1 DEF Sound, BundleSound, Proven
    <3>2. CASE ~mem.inv BY <1>2, <1>3, <3>2 DEF ImportInv, UnresolvedInv
    <3> QED BY <3>1, <3>2
  <2>2. mem'.res = "NO_SIDE_EFFECT_PROVEN" => Proven BY <1>2 DEF Proven
  <2> QED BY <1>1, <1>2, <1>5, <2>1, <2>2 DEF Sound, BundleSound, ProofSound, Proven
<1>6. LastImport => LastImport' BY <1>1, <1>2 DEF LastImport
<1> QED BY <1>2, <1>4, <1>5, <1>6

(* The journal of SEC, as the reconciliation reads it: a commit ends it, an  *)
(* entry that never came is proof once the window has elapsed, and a         *)
(* contrary answer after a proof is a hard conflict.                         *)
LEMMA Imp_Journal ==
    ASSUME TypeInv, RecoveryInv, ImportInv,
           sec_committed \/ sec_not_found_observe \/ enter_hard_blocked
    PROVE  /\ ImportInv' /\ mem'.req = mem.req
           /\ Sound => Sound'
           /\ LastImport => LastImport'
<1>t. mem \in Record /\ vol \in Volatile BY DEF TypeInv, TypeOK
<1>1. /\ mem'.rid = mem.rid /\ mem'.fp = mem.fp /\ mem'.req = mem.req /\ mem'.inv = mem.inv
      /\ mem'.lease = mem.lease /\ disk' = mem' /\ sec' = sec /\ vol'.pend = vol.pend
      /\ mem'.state \in {"ACK_PENDING", "RECONCILE_REMOTE", "LEGACY_SNAPSHOT_UNKNOWN",
                         "STABILIZING_NOT_FOUND", "HARD_BLOCKED"}
      /\ pc = "sec" /\ pc' \in {"ack", "remote", "idle"}
  <2>1. CASE sec_committed BY <1>t, <2>1 DEF sec_committed, ResetNotFound, Record, Volatile
  <2>2. CASE sec_not_found_observe BY <1>t, <2>2 DEF sec_not_found_observe, Record, Volatile
  <2>3. CASE enter_hard_blocked BY <1>t, <2>3 DEF enter_hard_blocked, Record
  <2> QED BY <2>1, <2>2, <2>3
<1>2. /\ mem'.res = "UNRESOLVED" => mem.inv \/ mem.fp = NoFp
      /\ vol'.first # "none" => vol.first # "none" \/ mem.res = "UNRESOLVED"
  <2>1. CASE sec_committed
    <3>1. mem'.res = "UNRESOLVED" /\ vol'.first = "none" /\ sec[mem.rid] = "committed"
        BY <1>t, <2>1 DEF sec_committed, ResetNotFound, Record, Volatile
    <3>2. CASE mem.rid = NoId BY <3>1, <3>2 DEF TypeInv, AttemptInv
    <3>3. CASE mem.rid # NoId BY <3>1, <3>3 DEF RecoveryInv, IntentInv
    <3> QED BY <3>1, <3>2, <3>3
  <2>2. CASE sec_not_found_observe
      BY <1>t, <2>2 DEF sec_not_found_observe, ImportInv, UnresolvedInv
  <2>3. CASE enter_hard_blocked
      BY <1>t, <2>3 DEF enter_hard_blocked, Record
  <2> QED BY <2>1, <2>2, <2>3
<1>3. SnapshotInv' BY <1>1 DEF ImportInv, SnapshotInv
<1>4. ChargeInv' BY <1>1 DEF ImportInv, ChargeInv
<1>5. UnresolvedInv' BY <1>1, <1>2 DEF ImportInv, UnresolvedInv
<1>6. LastImport' BY <1>1 DEF LastImport
<1>7. ASSUME Sound PROVE Sound'
  <2>1. BundleSound' BY <1>1 DEF BundleSound
  <2>2. vol'.first = "elapsed" => vol.first = "elapsed"
    <3>1. CASE sec_committed BY <1>t, <3>1 DEF sec_committed, Volatile
    <3>2. CASE sec_not_found_observe
        BY <1>t, <3>2 DEF sec_not_found_observe, ObservedFirst, Volatile
    <3>3. CASE enter_hard_blocked BY <3>3 DEF enter_hard_blocked
    <3> QED BY <3>1, <3>2, <3>3
  <2>3. mem.rid # NoId /\ Proven' => sec[mem.rid] = "none"
    <3> SUFFICES ASSUME mem.rid # NoId, mem'.res = "NO_SIDE_EFFECT_PROVEN"
                 PROVE  sec[mem.rid] = "none"
        BY DEF Proven
    <3>1. sec_not_found_observe /\ not_found_stable
      <4>1. ~sec_committed BY <1>t DEF sec_committed, ResetNotFound, Record
      <4>2. ~enter_hard_blocked BY <1>t DEF enter_hard_blocked, Record
      <4>3. sec_not_found_observe BY <4>1, <4>2
      <4> QED BY <1>t, <4>3 DEF sec_not_found_observe, Record
    <3>2. vol.first = "elapsed" /\ sec[mem.rid] \in {"none", "pending"}
        BY <3>1 DEF sec_not_found_observe, not_found_stable, ObservedFirst, NotFoundSeen
    <3> QED BY <1>7, <3>2 DEF Sound, ProofSound
  <2>4. ProofSound' BY <1>1, <1>7, <2>2, <2>3 DEF Sound, ProofSound
  <2> QED BY <2>1, <2>4 DEF Sound
<1> QED BY <1>1, <1>3, <1>4, <1>5, <1>6, <1>7 DEF ImportInv

(* SEC commits what it was given a bundle for, and nothing else. *)
LEMMA Imp_SecMoves ==
    ASSUME TypeInv, RecoveryInv, ImportInv, SecMoves
    PROVE  /\ ImportInv' /\ mem'.req = mem.req
           /\ Sound => Sound'
           /\ LastImport => LastImport'
<1>t. sec \in [Rids -> Entries] /\ mem \in Record /\ vol \in Volatile BY DEF TypeInv, TypeOK
<1>1. UNCHANGED <<mem, disk>> /\ vol'.pend = vol.pend /\ vol'.first = vol.first
    BY <1>t DEF SecMoves, do_import_call, SecResolves, Volatile
<1>2. (pc = "import" /\ pc' = "imported") \/ pc' = pc
    BY DEF SecMoves, do_import_call, SecResolves
<1>3. ASSUME mem.rid \in Rids
      PROVE  \/ sec'[mem.rid] = sec[mem.rid]
             \/ sec[mem.rid] = "pending" /\ sec'[mem.rid] # "pending"
             \/ pc = "import" /\ pc' = "imported" /\ vol.pend
  <2>1. CASE do_import_call
    <3>1. PICK result \in ImportResults, entry \in Entries :
              /\ SecImport(mem.rid, result, entry)
              /\ sec' = [sec EXCEPT ![mem.rid] = entry]
              /\ Call("imported", result)
        BY <2>1 DEF do_import_call
    <3>2. sec'[mem.rid] = entry BY <1>t, <1>3, <3>1
    <3>3. vol.pend \/ entry = sec[mem.rid] BY <3>1 DEF SecImport
    <3> QED BY <2>1, <3>1, <3>2, <3>3 DEF do_import_call
  <2>2. CASE \E r \in Rids : SecResolves(r) BY <1>t, <1>3, <2>2 DEF SecResolves
  <2> QED BY <2>1, <2>2 DEF SecMoves
<1>4. ImportInv'
    BY <1>1, <1>2 DEF ImportInv, SnapshotInv, ChargeInv, UnresolvedInv
<1>5. ASSUME Sound PROVE Sound'
  <2>1. BundleSound' BY <1>1, <1>5 DEF Sound, BundleSound, Proven
  <2>2. pc' = "import" /\ vol.pend => vol.first = "none" /\ ~Proven
      BY <1>2, <1>5 DEF Sound, ProofSound
  <2>3. ASSUME mem.rid # NoId
        PROVE  /\ vol.first = "elapsed" => sec'[mem.rid] # "pending"
               /\ Proven => sec'[mem.rid] = "none"
    <3>1. mem.rid \in Rids BY <1>t, <2>3 DEF Record
    <3> QED BY <1>3, <1>5, <2>3, <3>1 DEF Sound, ProofSound
  <2> QED BY <1>1, <2>1, <2>2, <2>3 DEF Sound, ProofSound, Proven
<1>6. LastImport => LastImport' BY <1>1 DEF LastImport
<1> QED BY <1>1, <1>4, <1>5, <1>6

(* The announcement of a successor leaves the evidence alone. *)
LEMMA Imp_supersede ==
    ASSUME TypeInv, ImportInv, supersede_remote_once
    PROVE  /\ ImportInv' /\ mem'.req = mem.req
           /\ Sound => Sound'
           /\ LastImport => LastImport'
<1>t. mem \in Record /\ vol \in Volatile BY DEF TypeInv, TypeOK
<1>1. /\ mem'.rid = mem.rid /\ mem'.fp = mem.fp /\ mem'.req = mem.req /\ mem'.inv = mem.inv
      /\ mem'.lease = mem.lease /\ mem'.res = mem.res /\ mem'.state = "SUPERSEDED_REMOTE"
    BY <1>t DEF supersede_remote_once, Record
<1>2. /\ disk' = mem' /\ sec' = sec /\ pc' = "create"
      /\ vol'.pend = vol.pend /\ vol'.first = vol.first
    BY <1>t DEF supersede_remote_once, Volatile
<1>3. ImportInv'
    BY <1>1, <1>2 DEF ImportInv, SnapshotInv, ChargeInv, UnresolvedInv
<1>4. (Sound => Sound') /\ (LastImport => LastImport')
    BY <1>1, <1>2 DEF Sound, BundleSound, ProofSound, LastImport, Proven
<1> QED BY <1>1, <1>3, <1>4

(* A new attempt starts without an entry in SEC. *)
LEMMA Imp_create ==
    ASSUME TypeInv, RecoveryInv', create_new_attempt
    PROVE  ImportInv' /\ Sound' /\ LastImport'
<1>t. vol \in Volatile BY DEF TypeInv, TypeOK
<1>1. /\ mem'.fp # NoFp /\ mem'.inv = FALSE /\ mem'.res = "NO_SIDE_EFFECT_PROVEN"
      /\ mem'.state = "REQUESTING" /\ disk' = mem' /\ pc' = "request"
    BY DEF create_new_attempt, NewRecord, Candidate
<1>2. vol'.first = "none" BY <1>t DEF create_new_attempt, Volatile
<1>3. mem'.rid # NoId => sec'[mem'.rid] = "none" BY <1>1 DEF RecoveryInv, IntentInv
<1>4. ImportInv'
    BY <1>1, <1>2 DEF ImportInv, SnapshotInv, ChargeInv, UnresolvedInv
<1>5. Sound' /\ LastImport'
    BY <1>1, <1>2, <1>3 DEF Sound, BundleSound, ProofSound, LastImport
<1> QED BY <1>4, <1>5

(* A restart drops the bundle and the window, and waits for a Response only  *)
(* if the store says so.                                                     *)
LEMMA Imp_Crash ==
    ASSUME TypeInv, RecoveryInv, ImportInv, Crash
    PROVE  /\ ImportInv' /\ mem'.req = mem.req
           /\ Sound => Sound'
           /\ LastImport => LastImport'
<1>1. disk.rid = mem.rid /\ disk.fp = mem.fp /\ disk.req = mem.req
    BY DEF TypeInv, AttemptInv
<1>2. disk.inv = mem.inv /\ disk.res = mem.res BY DEF RecoveryInv, IntentInv, HardInv
<1>3. mem'.lease = disk.lease /\ mem'.state = RestoredState(disk)
  <2>1. disk \in Record BY DEF TypeInv, TypeOK
  <2> HIDE DEF NoId, NoFp
  <2> QED BY <2>1 DEF Crash, Restore, Record
<1>4. \A st \in {"REQUESTING", "WAIT_RESPONSE", "IMPORTING"} :
          mem'.state = st => disk.state = st /\ disk.fp # NoFp
    BY <1>3 DEF RestoredState
<1>5. UNCHANGED <<disk, sec>> /\ pc' = "idle" /\ ~vol'.pend /\ vol'.first = "none"
    BY DEF Crash, RestoreVolatile, NewVolatile
<1>6. SnapshotInv' BY <1>1, <1>2, <1>3, <1>4, <1>5, Restored DEF ImportInv, SnapshotInv
<1>7. ChargeInv' BY <1>1, <1>2, <1>4, <1>5, Restored DEF ImportInv, ChargeInv
<1>8. UnresolvedInv' BY <1>1, <1>2, <1>5, Restored DEF ImportInv, UnresolvedInv
<1>9. Sound => Sound'
    BY <1>1, <1>2, <1>5, Restored DEF Sound, BundleSound, ProofSound, Proven
<1>10. LastImport => LastImport' BY <1>2, <1>4, <1>5, Restored DEF LastImport
<1> QED BY <1>1, <1>6, <1>7, <1>8, <1>9, <1>10, Restored DEF ImportInv

LEMMA ImportInit ==
    ASSUME Init
    PROVE  ImportInv /\ Sound /\ LastImport
<1>1. disk \in {EmptyStore, LegacyRecord} BY DEF Init
<1>2. mem = [disk EXCEPT !.saved = TRUE, !.state = RestoredState(disk)]
    BY DEF Init, Restore
<1>3. /\ mem.fp = NoFp /\ disk.fp = NoFp /\ ~mem.inv /\ ~mem.lease /\ ~disk.lease
      /\ mem.res = "UNRESOLVED" /\ mem.state \in {"WAIT_CLOUD", "LEGACY_SNAPSHOT_UNKNOWN"}
  <2>1. CASE disk = EmptyStore BY <1>2, <2>1 DEF EmptyStore, NewRecord, RestoredState
  <2>2. CASE disk = LegacyRecord BY <1>2, <2>2 DEF LegacyRecord, NewRecord, RestoredState
  <2> QED BY <1>1, <2>1, <2>2
<1>4. pc = "idle" /\ vol.first = "none" BY DEF Init, RestoreVolatile, NewVolatile
<1>5. ImportInv BY <1>3, <1>4 DEF ImportInv, SnapshotInv, ChargeInv, UnresolvedInv
<1>6. Sound /\ LastImport
    BY <1>3, <1>4 DEF Sound, BundleSound, ProofSound, LastImport, Proven
<1> QED BY <1>5, <1>6

(* A step keeps the evidence sound unless it takes a bundle against it, and  *)
(* with one Request charged it does not.                                     *)
LEMMA ImportNext ==
    ASSUME TypeInv, TypeInv', RecoveryInv, RecoveryInv', ImportInv, [Next]_vars
    PROVE  /\ ImportInv'
           /\ Sound /\ ~AgainstEvidence => Sound'
           /\ FirstRequest => FirstRequest'
<1>1. LastImport => ~AgainstEvidence BY DEF LastImport, AgainstEvidence
<1>2. CASE Ordinary BY <1>1, <1>2, OrdinaryKeepsImport DEF FirstRequest
<1>3. CASE create_new_attempt BY <1>3, Imp_create DEF FirstRequest
<1>4. CASE Special /\ ~create_new_attempt
  <2>1. /\ ImportInv' /\ mem'.req = mem.req
        /\ Sound => Sound'
        /\ LastImport => LastImport'
      BY <1>4, Imp_do_request, Imp_do_import, Imp_Journal, Imp_SecMoves, Imp_supersede,
         Imp_Crash
      DEF Special, Evidence
  <2> QED BY <2>1 DEF FirstRequest
<1> QED BY <1>2, <1>3, <1>4, OrdinaryOrSpecial

(* Who waits for a Response or imports was charged a Request, and an         *)
(* attempt that was charged one imports no more than once, over any number   *)
(* of restarts.                                                              *)
THEOREM ImportInvariance == Spec => [](ImportInv /\ FirstRequest)
<1>1. Init => ImportInv /\ FirstRequest BY ImportInit DEF FirstRequest
<1>2. TypeInv /\ TypeInv' /\ RecoveryInv /\ RecoveryInv' /\ ImportInv /\ FirstRequest
        /\ [Next]_vars => ImportInv' /\ FirstRequest'
    BY ImportNext
<1> QED BY <1>1, <1>2, TypeInvariance, RecoveryInvariance, PTL DEF Spec

LEMMA ProofHolds == Sound => ProofOfNoSideEffect
BY DEF Sound, ProofSound, Proven, ProofOfNoSideEffect

(* NO_SIDE_EFFECT_PROVEN is true of SEC as long as one Request was charged   *)
(* to the attempt (preconsume_request), whatever fails or restarts.          *)
THEOREM ProofUnderOneRequest == Spec => [](mem.req <= 1 => ProofOfNoSideEffect)
<1>1. ImportInv /\ FirstRequest => (mem.req <= 1 => ProofOfNoSideEffect)
    BY ProofHolds DEF FirstRequest
<1> QED BY <1>1, ImportInvariance, PTL

(* What can spoil it later, under any limit, is one step: do_import_locked   *)
(* resets the resolution on the first import of an attempt only, so that a   *)
(* bundle which a further Request brings is imported under a proof, or under *)
(* an open window, that is about the import before.                          *)
NoBundleAgainstEvidence == [][~AgainstEvidence]_vars

LEMMA SoundWithout == Spec /\ NoBundleAgainstEvidence => []Sound
<1>1. Init => Sound BY ImportInit
<1>2. TypeInv /\ TypeInv' /\ RecoveryInv /\ RecoveryInv' /\ ImportInv /\ Sound
        /\ [Next]_vars /\ [~AgainstEvidence]_vars => Sound'
  <2>1. vars' = vars => ~AgainstEvidence BY DEF vars, AgainstEvidence
  <2> QED BY <2>1, ImportNext
<1> QED BY <1>1, <1>2, TypeInvariance, RecoveryInvariance, ImportInvariance, PTL
        DEF Spec, NoBundleAgainstEvidence

(* So the proof is true of SEC at every moment, for any kl1_request_limit,   *)
(* any number of Requests, freshens, crashes and late results, if no such    *)
(* bundle is taken.                                                          *)
THEOREM SideEffectProof == Spec /\ NoBundleAgainstEvidence => []ProofOfNoSideEffect
BY SoundWithout, ProofHolds, PTL

-----------------------------------------------------------------------------
(* The attempt that is replaced.                                             *)

(* The functions that replace an attempt run on a proof, and so does a       *)
(* restart that finds a successor announced.                                 *)
ReplaceInv ==
    /\ "SUPERSEDED_REMOTE" \in {mem.state, disk.state} => Proven
    /\ pc \in {"matrix", "supersede"} => Proven
    /\ pc = "create" => Proven \/ mem.fp = NoFp

LEMMA ReplaceNext ==
    ASSUME TypeInv, RecoveryInv, ReplaceInv, [Next]_vars
    PROVE  ReplaceInv'
<1>t. mem \in Record BY DEF TypeInv, TypeOK
<1>r. disk.res = mem.res BY DEF RecoveryInv, HardInv
<1>1. CASE Ordinary BY <1>1 DEF Ordinary, ReplaceInv, Proven
<1>2. CASE do_request BY <1>2 DEF do_request, ReplaceInv, Proven
<1>3. CASE do_import
  <2>1. mem.state = "IMPORTING" /\ pc' = "import" BY <1>3 DEF do_import
  <2>2. CASE mem.inv
    <3>1. UNCHANGED memVars BY <1>3, <2>2 DEF do_import
    <3> QED BY <2>1, <3>1 DEF ReplaceInv, Proven
  <2>3. CASE ~mem.inv
    <3>1. disk' = mem' /\ mem' = [mem EXCEPT !.inv = TRUE, !.res = "UNRESOLVED"]
        BY <1>3, <2>3 DEF do_import
    <3>2. mem'.state = mem.state BY <1>t, <3>1 DEF Record
    <3> QED BY <2>1, <3>1, <3>2 DEF ReplaceInv
  <2> QED BY <2>2, <2>3
<1>4. CASE sec_committed \/ sec_not_found_observe \/ enter_hard_blocked
  <2>1. mem'.state # "SUPERSEDED_REMOTE" /\ pc' \notin {"create", "matrix", "supersede"}
      BY <1>4, EvidenceFacts DEF Evidence
  <2>2. disk' = mem' BY <1>4 DEF sec_committed, sec_not_found_observe, enter_hard_blocked
  <2> QED BY <2>1, <2>2 DEF ReplaceInv
<1>5. CASE SecMoves BY <1>5 DEF SecMoves, do_import_call, SecResolves, ReplaceInv, Proven
<1>6. CASE supersede_remote_once
  <2>1. mem'.res = mem.res /\ pc = "supersede"
      BY <1>t, <1>6 DEF supersede_remote_once, Record
  <2> QED BY <2>1 DEF ReplaceInv, Proven
<1>7. CASE create_new_attempt
    BY <1>7 DEF create_new_attempt, NewRecord, ReplaceInv
<1>8. CASE Crash BY <1>r, <1>8, Restored DEF Crash, ReplaceInv, Proven
<1> QED BY <1>1, <1>2, <1>3, <1>4, <1>5, <1>6, <1>7, <1>8, OrdinaryOrSpecial
        DEF Special, Evidence

(* The request id of a legacy record, if the store may hold one: an attempt  *)
(* without snapshot, which is replaced without a look at SEC.                *)
LegacyIds == IF "legacy" \in StartRecords THEN {LegacyRecord.rid} ELSE {}

FirstAttempt == mem.fp = NoFp => mem.rid \in {NoId} \cup LegacyIds

(* No attempt that was replaced left anything in SEC, but for a legacy one. *)
OrphansAreLegacy ==
    \A r \in Rids \ LegacyIds : r < mem.rid => sec[r] \notin {"pending", "committed"}

LEMMA OrphanNext ==
    ASSUME TypeInv, RecoveryInv, Sound, ReplaceInv,
           FirstAttempt, OrphansAreLegacy, [Next]_vars
    PROVE  FirstAttempt' /\ OrphansAreLegacy'
<1>t. mem \in Record /\ sec \in [Rids -> Entries] BY DEF TypeInv, TypeOK
<1>n. mem.rid \in Nat /\ Rids \subseteq Nat BY <1>t, LimitsAssumption DEF Record, Rids
<1>1. CASE create_new_attempt
  <2>1. mem'.fp # NoFp BY <1>1 DEF create_new_attempt, NewRecord, Candidate
  <2>2. mem.rid \notin {NoId} \cup LegacyIds => sec[mem.rid] = "none"
    <3> SUFFICES ASSUME mem.rid \notin {NoId} \cup LegacyIds PROVE sec[mem.rid] = "none"
        OBVIOUS
    <3>1. Proven BY <1>1 DEF FirstAttempt, ReplaceInv, create_new_attempt
    <3> QED BY <3>1 DEF Sound, ProofSound
  <2>3. ASSUME NEW r \in Rids \ LegacyIds PROVE sec[r] \notin {"pending", "committed"}
    <3>1. CASE r < mem.rid BY <3>1 DEF OrphansAreLegacy
    <3>2. CASE r = mem.rid
      <4>1. r # NoId BY LimitsAssumption DEF Rids
      <4> QED BY <2>2, <3>2, <4>1
    <3>3. CASE mem.rid < r BY <3>3 DEF RecoveryInv, IdInv
    <3> QED BY <1>n, <3>1, <3>2, <3>3
  <2>4. sec' = sec BY <1>1 DEF create_new_attempt
  <2> QED BY <2>1, <2>3, <2>4 DEF FirstAttempt, OrphansAreLegacy
<1>2. CASE SecMoves
  <2>1. UNCHANGED mem BY <1>2 DEF SecMoves, do_import_call, SecResolves
  <2>2. ASSUME NEW r \in Rids, sec'[r] # sec[r] PROVE sec[r] = "pending" \/ r = mem.rid
      BY <1>t, <1>2, <2>2 DEF SecMoves, do_import_call, SecResolves
  <2>3. ASSUME NEW r \in Rids \ LegacyIds, r < mem.rid
        PROVE  sec'[r] \notin {"pending", "committed"}
    <3>1. sec[r] \notin {"pending", "committed"} /\ r # mem.rid
        BY <1>n, <2>3 DEF OrphansAreLegacy
    <3> QED BY <2>2, <3>1
  <2> QED BY <2>1, <2>3 DEF FirstAttempt, OrphansAreLegacy
<1>3. CASE ~create_new_attempt /\ ~SecMoves
  <2>1. mem'.rid = mem.rid /\ mem'.fp = mem.fp /\ sec' = sec
    <3>1. CASE Ordinary BY <3>1 DEF Ordinary
    <3>2. CASE do_request BY <3>2 DEF do_request
    <3>3. CASE Evidence BY <3>3, EvidenceFacts
    <3>4. CASE supersede_remote_once BY <1>t, <3>4 DEF supersede_remote_once, Record
    <3>5. CASE Crash BY <3>5, Restored DEF Crash, TypeInv, AttemptInv
    <3> QED BY <1>3, <3>1, <3>2, <3>3, <3>4, <3>5, OrdinaryOrSpecial DEF Special
  <2> QED BY <2>1 DEF FirstAttempt, OrphansAreLegacy
<1> QED BY <1>1, <1>2, <1>3

LEMMA OrphanInit ==
    ASSUME Init
    PROVE  ReplaceInv /\ FirstAttempt /\ OrphansAreLegacy
<1>1. disk \in {EmptyStore, LegacyRecord} BY DEF Init
<1>2. /\ mem.rid = disk.rid /\ mem.fp = NoFp
      /\ mem.state # "SUPERSEDED_REMOTE" /\ disk.state # "SUPERSEDED_REMOTE"
  <2>1. mem = [disk EXCEPT !.saved = TRUE, !.state = RestoredState(disk)]
      BY DEF Init, Restore
  <2>2. CASE disk = EmptyStore BY <2>1, <2>2 DEF EmptyStore, NewRecord, RestoredState
  <2>3. CASE disk = LegacyRecord BY <2>1, <2>3 DEF LegacyRecord, NewRecord, RestoredState
  <2> QED BY <1>1, <2>2, <2>3
<1>3. pc = "idle" BY DEF Init
<1>4. disk.rid = NoId \/ (disk.rid = LegacyRecord.rid /\ "legacy" \in StartRecords)
  <2>1. CASE disk = EmptyStore BY <2>1 DEF EmptyStore, NewRecord
  <2>2. CASE disk = LegacyRecord
    <3>1. disk.saved BY <2>2 DEF LegacyRecord, NewRecord
    <3> QED BY <2>2, <3>1 DEF Init
  <2> QED BY <1>1, <2>1, <2>2
<1>5. disk.rid \in {0, 1} BY <1>1 DEF EmptyStore, LegacyRecord, NewRecord
<1>6. ReplaceInv BY <1>2, <1>3 DEF ReplaceInv
<1>7. FirstAttempt BY <1>2, <1>4 DEF FirstAttempt, LegacyIds
<1>8. \A r \in Rids : ~(r < mem.rid) BY <1>2, <1>5, LimitsAssumption DEF Rids
<1> QED BY <1>6, <1>7, <1>8 DEF OrphansAreLegacy

(* supersede_remote_once_locked: under the same condition, and under any     *)
(* limits, an attempt that left something in SEC, or that SEC may still      *)
(* commit, is never replaced, unless it is the attempt of a legacy record.   *)
THEOREM OnlyLegacyOrphans == Spec /\ NoBundleAgainstEvidence => []OrphansAreLegacy
<1>1. Init => ReplaceInv /\ FirstAttempt /\ OrphansAreLegacy BY OrphanInit
<1>2. /\ TypeInv /\ RecoveryInv /\ Sound
      /\ ReplaceInv /\ FirstAttempt /\ OrphansAreLegacy /\ [Next]_vars
      => (ReplaceInv /\ FirstAttempt /\ OrphansAreLegacy)'
    BY ReplaceNext, OrphanNext
<1> QED BY <1>1, <1>2, TypeInvariance, RecoveryInvariance, SoundWithout, PTL DEF Spec

(* A device that does not start with a legacy record never does. *)
THEOREM OrphanSafety ==
    "legacy" \notin StartRecords => (Spec /\ NoBundleAgainstEvidence => []NoOrphanImport)
<1> SUFFICES ASSUME "legacy" \notin StartRecords
             PROVE  Spec /\ NoBundleAgainstEvidence => []NoOrphanImport
    OBVIOUS
<1>1. OrphansAreLegacy => NoOrphanImport
    BY DEF OrphansAreLegacy, NoOrphanImport, LegacyIds
<1> QED BY <1>1, OnlyLegacyOrphans, PTL

-----------------------------------------------------------------------------
(* keyprov_lifecycle_decide, for every input.  The rules are tried by        *)
(* falling priority, so what a decision implies is its own guard and the     *)
(* failure of all the guards above it.                                       *)

(* The first rule that applies is the only one the CHOOSE can name. *)
LEMMA FirstRule ==
    ASSUME NEW R, DOMAIN R \subseteq Nat \ {0}, NEW k \in DOMAIN R, R[k][1],
           \A j \in 1 .. (k - 1) : ~R[j][1]
    PROVE  (CHOOSE i \in DOMAIN R : R[i][1] /\ \A j \in 1 .. (i - 1) : ~R[j][1]) = k
<1> DEFINE First(i) == R[i][1] /\ \A j \in 1 .. (i - 1) : ~R[j][1]
<1>1. First(k) OBVIOUS
<1>2. ASSUME NEW i \in DOMAIN R, First(i) PROVE i = k
  <2>1. ~(i < k) BY <1>2
  <2>2. ~(k < i) BY <1>2
  <2> QED BY <2>1, <2>2
<1> QED BY <1>1, <1>2

LEMMA DecidesBy ==
    ASSUME NEW f, NEW k \in 1 .. 22, Lifecycle!Rules(f)[k][1],
           \A j \in 1 .. (k - 1) : ~Lifecycle!Rules(f)[j][1]
    PROVE  Lifecycle!decide(f) = Lifecycle!Rules(f)[k][2]
<1> DEFINE R == Lifecycle!Rules(f)
<1>1. DOMAIN R = 1 .. 22 BY DEF Lifecycle!Rules
<1>2. Lifecycle!decide(f)
        = R[CHOOSE i \in DOMAIN R : R[i][1] /\ \A j \in 1 .. (i - 1) : ~R[j][1]][2]
    BY DEF Lifecycle!decide
<1>3. R[k][1] /\ \A j \in 1 .. (k - 1) : ~R[j][1] OBVIOUS
<1> HIDE DEF R
<1>4. (CHOOSE i \in DOMAIN R : R[i][1] /\ \A j \in 1 .. (i - 1) : ~R[j][1]) = k
    BY <1>1, <1>3, FirstRule
<1>5. Lifecycle!decide(f) = R[k][2] BY <1>2, <1>4
<1> QED BY <1>5 DEF R

(* A set of natural numbers has a least element. *)
LEMMA LeastElement ==
    ASSUME NEW S \in SUBSET Nat, S # {}
    PROVE  \E k \in S : \A m \in S : k <= m
<1> DEFINE Less == {ss \in Nat \X Nat : ss[1] < ss[2]}
<1>1. IsWellFoundedOn(Less, Nat) BY NatLessThanWellFounded DEF OpToRel
<1>2. \A m, k \in Nat : m < k => <<m, k>> \in Less OBVIOUS
<1> HIDE DEF Less
<1>3. PICK k \in S : \A m \in S : ~(<<m, k>> \in Less) BY <1>1, WFMin
<1>4. ASSUME NEW m \in S PROVE k <= m
  <2>1. ~(m < k) BY <1>2, <1>3
  <2> QED BY <2>1
<1> QED BY <1>4

(* The last rule always applies, so some rule is the first that does. *)
LEMMA SomeRuleDecides ==
    ASSUME NEW f
    PROVE  \E k \in 1 .. 22 :
              /\ Lifecycle!Rules(f)[k][1]
              /\ \A j \in 1 .. (k - 1) : ~Lifecycle!Rules(f)[j][1]
              /\ Lifecycle!decide(f) = Lifecycle!Rules(f)[k][2]
<1> DEFINE R == Lifecycle!Rules(f)
           S == {i \in 1 .. 22 : R[i][1]}
<1>1. R[22][1] BY DEF Lifecycle!Rules
<1> HIDE DEF R
<1>2. 22 \in S /\ S \in SUBSET Nat BY <1>1
<1>3. PICK k \in S : \A m \in S : k <= m BY <1>2, LeastElement
<1>4. k \in 1 .. 22 /\ R[k][1] OBVIOUS
<1>5. ASSUME NEW j \in 1 .. (k - 1) PROVE ~R[j][1] BY <1>3, <1>4
<1>6. Lifecycle!decide(f) = R[k][2] BY <1>4, <1>5, DecidesBy DEF R
<1> QED BY <1>4, <1>5, <1>6 DEF R

(* What has to be in order before anything else is decided: the attempt, the *)
(* clock, the contract and the journal of SEC, the payload.                  *)
InOrder(f) ==
    /\ f.attempt_valid /\ f.binding_match /\ ~f.terminalized /\ ~f.idempotency_conflict
    /\ Lifecycle!clock_healthy(f.clock) /\ f.clock.trusted
    /\ f.contract_ready /\ ~f.sec_contract_unknown /\ ~f.sec_unknown
    /\ f.payload_present => f.envelope_fresh /\ f.payload_fresh

LEMMA InOrderRules ==
    ASSUME NEW f
    PROVE  InOrder(f) <=> \A j \in 1 .. 6 : ~Lifecycle!Rules(f)[j][1]
<1> DEFINE R == Lifecycle!Rules(f)
<1>1. R[1][1] <=> ~f.attempt_valid \/ ~f.binding_match \/ f.terminalized
    BY DEF Lifecycle!Rules
<1>2. R[2][1] <=> f.idempotency_conflict BY DEF Lifecycle!Rules
<1>3. R[3][1] <=> ~Lifecycle!clock_healthy(f.clock) \/ ~f.clock.trusted
    BY DEF Lifecycle!Rules
<1>4. R[4][1] <=> f.sec_contract_unknown \/ ~f.contract_ready BY DEF Lifecycle!Rules
<1>5. R[5][1] <=> f.sec_unknown BY DEF Lifecycle!Rules
<1>6. R[6][1] <=> f.payload_present /\ (~f.envelope_fresh \/ ~f.payload_fresh)
    BY DEF Lifecycle!Rules
<1> HIDE DEF R
<1>7. (\A j \in 1 .. 6 : ~R[j][1])
        <=> ~R[1][1] /\ ~R[2][1] /\ ~R[3][1] /\ ~R[4][1] /\ ~R[5][1] /\ ~R[6][1]
    BY SMT
<1> QED BY <1>1, <1>2, <1>3, <1>4, <1>5, <1>6, <1>7 DEF InOrder, R

(* What lets a successor in: the import is proven absent, the cloud has      *)
(* terminated the batch, and SEC does not contradict it.                     *)
MayReplace(f) ==
    /\ InOrder(f)
    /\ f.no_side_effect_proven /\ f.cloud \in {"FAILED", "NOT_FOUND"} /\ f.chain_ok
    /\ ~(f.sec_committed /\ f.cloud = "FAILED")

MayFreshen(f) ==
    /\ InOrder(f)
    /\ f.no_side_effect_proven /\ f.cloud = "ACK_PENDING" /\ ~f.sec_committed
    /\ f.payload_present /\ Lifecycle!expired_or_too_short(f)
    /\ f.deliverable /\ ~f.freshen_used /\ f.request_budget_ok

(* The rules that lead to a successor, and the one that leads to a freshen. *)
LEMMA RuleOf ==
    ASSUME NEW f, NEW k \in 1 .. 22
    PROVE  /\ Lifecycle!Rules(f)[k][2] \in {"SUPERSEDE_CAS", "RESTORE_SUCCESSOR"} => k = 11
           /\ Lifecycle!Rules(f)[k][2] = "FRESHEN_SAME_ID" => k = 13
<1> DEFINE R == Lifecycle!Rules(f)
<1>1. k \in 1 .. 10 => R[k][2] \in {"LATE_RESPONSE", "CONFLICT_806095", "TIME_UNTRUSTED",
          "READONLY", "CONTRACT_UNKNOWN", "QUERY_STATUS_OR_SEC", "BLOCKED", "REJECT",
          "ACTIVE", "RESTORE_ORIGINAL_ACK"}
    BY DEF Lifecycle!Rules
<1>2. R[11][2] \in {"BLOCKED", "RESTORE_SUCCESSOR", "SUPERSEDE_CAS"} BY DEF Lifecycle!Rules
<1>3. R[12][2] = "READONLY" /\ R[13][2] = "FRESHEN_SAME_ID" BY DEF Lifecycle!Rules
<1>4. k \in 14 .. 22 => R[k][2] \in {"READONLY", "RESPONSE_EXPIRED", "LEASE_TOO_SHORT",
          "IMPORT", "BOUNDED_RETRY", "ACTIVE", "WAIT_READY", "QUERY_STATUS_OR_SEC",
          "BLOCKED", "SEND_REQUEST"}
    BY DEF Lifecycle!Rules
<1> HIDE DEF R
<1>5. k \in 1 .. 10 \/ k = 11 \/ k = 12 \/ k = 13 \/ k \in 14 .. 22 OBVIOUS
<1>6. R[k][2] \in {"SUPERSEDE_CAS", "RESTORE_SUCCESSOR"} => k = 11
    BY <1>1, <1>2, <1>3, <1>4, <1>5
<1>7. R[k][2] = "FRESHEN_SAME_ID" => k = 13
    BY <1>1, <1>2, <1>3, <1>4, <1>5
<1> QED BY <1>6, <1>7 DEF R

(* The guards on what SEC and the cloud say, the middle of the table. *)
LEMMA EvidenceRules ==
    ASSUME NEW f
    PROVE  /\ Lifecycle!Rules(f)[7][1] <=> f.cloud = "ACTIVE" /\ f.sec_committed
                                             /\ f.purposes_complete
           /\ Lifecycle!Rules(f)[8][1] <=> f.sec_committed /\ f.cloud = "FAILED"
           /\ Lifecycle!Rules(f)[9][1] <=> f.sec_not_found_proven /\ f.cloud = "ACTIVE"
           /\ Lifecycle!Rules(f)[10][1] <=> f.sec_committed /\ f.cloud = "ACK_PENDING"
           /\ Lifecycle!Rules(f)[11][1] <=> f.no_side_effect_proven
                                             /\ f.cloud \in {"FAILED", "NOT_FOUND"}
           /\ Lifecycle!Rules(f)[12][1] <=> f.no_side_effect_proven
                                             /\ f.cloud \in {"UNSPECIFIED", "NOT_FOUND"}
           /\ Lifecycle!Rules(f)[13][1] <=>
                 /\ Lifecycle!expired_or_too_short(f) /\ ~f.freshen_used
                 /\ f.cloud = "ACK_PENDING" /\ f.no_side_effect_proven
                 /\ f.deliverable /\ f.request_budget_ok
BY DEF Lifecycle!Rules, Lifecycle!cloud_terminal, Lifecycle!cloud_unspecified

(* A successor, new or restored, is decided exactly when the facts above     *)
(* hold: no other rule leads there, and none before it is in the way.        *)
THEOREM ReplacementDecision ==
    ASSUME NEW f
    PROVE  Lifecycle!decide(f) \in {"SUPERSEDE_CAS", "RESTORE_SUCCESSOR"} <=> MayReplace(f)
<1> DEFINE R == Lifecycle!Rules(f)
<1>1. R[11][2] \in {"SUPERSEDE_CAS", "RESTORE_SUCCESSOR"} <=> f.chain_ok
    BY DEF Lifecycle!Rules
<1>2. ASSUME MayReplace(f)
      PROVE  Lifecycle!decide(f) \in {"SUPERSEDE_CAS", "RESTORE_SUCCESSOR"}
  <2>1. \A j \in 1 .. 6 : ~R[j][1] BY <1>2, InOrderRules DEF MayReplace
  <2>2. ~R[7][1] /\ ~R[8][1] /\ ~R[9][1] /\ ~R[10][1] /\ R[11][1]
      BY <1>2, EvidenceRules DEF MayReplace
  <2>3. f.chain_ok BY <1>2 DEF MayReplace
  <2> HIDE DEF R
  <2>4. \A j \in 1 .. (11 - 1) : ~R[j][1] BY <2>1, <2>2
  <2>5. Lifecycle!decide(f) = R[11][2] BY <2>2, <2>4, DecidesBy DEF R
  <2> QED BY <1>1, <2>3, <2>5
<1>3. ASSUME Lifecycle!decide(f) \in {"SUPERSEDE_CAS", "RESTORE_SUCCESSOR"}
      PROVE  MayReplace(f)
  <2>1. PICK k \in 1 .. 22 : /\ R[k][1] /\ Lifecycle!decide(f) = R[k][2]
                             /\ \A j \in 1 .. (k - 1) : ~R[j][1]
      BY SomeRuleDecides
  <2>2. k = 11 BY <1>3, <2>1, RuleOf
  <2>3. f.chain_ok /\ R[11][1] BY <1>1, <1>3, <2>1, <2>2
  <2> HIDE DEF R
  <2>4. (\A j \in 1 .. 6 : ~R[j][1]) /\ ~R[8][1] BY <2>1, <2>2
  <2>5. InOrder(f) BY <2>4, InOrderRules DEF R
  <2>6. /\ f.no_side_effect_proven /\ f.cloud \in {"FAILED", "NOT_FOUND"}
        /\ ~(f.sec_committed /\ f.cloud = "FAILED")
      BY <2>3, <2>4, EvidenceRules DEF R
  <2> QED BY <2>3, <2>5, <2>6 DEF MayReplace
<1> QED BY <1>2, <1>3

(* The only freshen is spent exactly when an ACK is pending in the cloud     *)
(* that SEC cannot make good: nothing was imported and the lease is over.    *)
THEOREM FreshenDecision ==
    ASSUME NEW f
    PROVE  Lifecycle!decide(f) = "FRESHEN_SAME_ID" <=> MayFreshen(f)
<1> DEFINE R == Lifecycle!Rules(f)
<1>1. R[13][2] = "FRESHEN_SAME_ID" BY DEF Lifecycle!Rules
<1>p. Lifecycle!expired_or_too_short(f) => f.payload_present
    BY DEF Lifecycle!expired_or_too_short
<1>2. ASSUME MayFreshen(f) PROVE Lifecycle!decide(f) = "FRESHEN_SAME_ID"
  <2>1. \A j \in 1 .. 6 : ~R[j][1] BY <1>2, InOrderRules DEF MayFreshen
  <2>2. /\ ~R[7][1] /\ ~R[8][1] /\ ~R[9][1] /\ ~R[10][1] /\ ~R[11][1] /\ ~R[12][1]
        /\ R[13][1]
      BY <1>2, EvidenceRules DEF MayFreshen
  <2> HIDE DEF R
  <2>3. \A j \in 1 .. (13 - 1) : ~R[j][1] BY <2>1, <2>2
  <2>4. Lifecycle!decide(f) = R[13][2] BY <2>2, <2>3, DecidesBy DEF R
  <2> QED BY <1>1, <2>4
<1>3. ASSUME Lifecycle!decide(f) = "FRESHEN_SAME_ID" PROVE MayFreshen(f)
  <2>1. PICK k \in 1 .. 22 : /\ R[k][1] /\ Lifecycle!decide(f) = R[k][2]
                             /\ \A j \in 1 .. (k - 1) : ~R[j][1]
      BY SomeRuleDecides
  <2>2. k = 13 BY <1>3, <2>1, RuleOf
  <2> HIDE DEF R
  <2>3. (\A j \in 1 .. 6 : ~R[j][1]) /\ ~R[10][1] /\ R[13][1] BY <2>1, <2>2
  <2>4. InOrder(f) BY <2>3, InOrderRules DEF R
  <2>5. /\ f.no_side_effect_proven /\ f.cloud = "ACK_PENDING" /\ ~f.sec_committed
        /\ Lifecycle!expired_or_too_short(f)
        /\ f.deliverable /\ ~f.freshen_used /\ f.request_budget_ok
      BY <2>3, EvidenceRules DEF R
  <2> QED BY <1>p, <2>4, <2>5 DEF MayFreshen
<1> QED BY <1>2, <1>3

-----------------------------------------------------------------------------
(* The coordinator decides as the table does.  What apply_cloud_matrix and   *)
(* supersede_remote_once_locked rest on was looked up by earlier calls of    *)
(* the handler, and still holds when they run.                               *)
ReconcileCalls == {"sec", "remote", "matrix", "supersede"}

DecisionInv ==
    /\ pc \in ReconcileCalls =>
          mem.rid # NoId /\ mem.state \in ReconcileStates \cup AwaitStates
    /\ pc \in ReconcileCalls /\ reg = "tick" => clk.synced /\ vol.contract = "ready"
    /\ pc = "supersede" => vol.cached \in {"FAILED", "NOT_FOUND"} /\ ~vol.unknown
    /\ RestoredState(disk) = "SUPERSEDED_REMOTE" => mem.state = "SUPERSEDED_REMOTE"
    /\ disk.fresh = mem.fresh

(* Only an announced successor is restored as one. *)
LEMMA RestoredSuccessor ==
    ASSUME NEW d, RestoredState(d) = "SUPERSEDED_REMOTE"
    PROVE  d.state = "SUPERSEDED_REMOTE"
BY DEF RestoredState

(* Most steps reconcile nothing, spend no freshen, and write the store when  *)
(* they drop an announced successor.                                         *)
Aside ==
    /\ pc' \notin ReconcileCalls
    /\ mem'.fresh => mem.fresh
    /\ \/ disk' = mem'
       \/ /\ disk' = disk /\ mem'.fresh = mem.fresh
          /\ mem'.state = mem.state \/ mem.state # "SUPERSEDED_REMOTE"

LEMMA AsideDecides ==
    ASSUME DecisionInv, Aside
    PROVE  DecisionInv' /\ ~Freshens
BY RestoredSuccessor DEF DecisionInv, Aside, ReconcileCalls, Freshens

(* A freshen is part of a tick, which has tested the clock and asked SEC for *)
(* its contract.                                                             *)
FreshensInTick ==
    /\ maybe_freshen_applies
    /\ clk.synced /\ vol'.contract = "ready"
    /\ vol'.cached = vol.cached /\ vol'.unknown = vol.unknown

(* The freshen is written before it is spent. *)
LEMMA FreshenDecides ==
    ASSUME TypeInv, NEW v, maybe_freshen(v), mem.state # "SUPERSEDED_REMOTE",
           clk.synced, v.contract = "ready", v.cached = vol.cached, v.unknown = vol.unknown
    PROVE  DecisionInv' /\ FreshensInTick
<1>m. mem \in Record BY DEF TypeInv, TypeOK
<1>1. disk'.state = mem.state /\ mem'.fresh /\ disk'.fresh
    BY <1>m DEF maybe_freshen, Record
<1>2. RestoredState(disk') # "SUPERSEDED_REMOTE" BY <1>1, RestoredSuccessor
<1>3. DecisionInv' BY <1>1, <1>2 DEF maybe_freshen, DecisionInv, ReconcileCalls
<1> QED BY <1>3 DEF maybe_freshen, FreshensInTick

(* What the capability answer of a tick leaves of the memory. *)
LEMMA TickContract ==
    ASSUME vol \in Volatile
    PROVE  /\ TickVol.contract = "ready"
           /\ TickVol.cached = vol.cached /\ TickVol.unknown = vol.unknown
<1>1. /\ refresh_sec_readiness(vol).contract = "ready"
      /\ refresh_sec_readiness(vol).cached = vol.cached
      /\ refresh_sec_readiness(vol).unknown = vol.unknown
    BY DEF refresh_sec_readiness, Volatile
<1>2. refresh_sec_readiness(vol) \in Volatile BY RefreshedType
<1> QED BY <1>1, <1>2 DEF TickVol, Volatile

(* The ticks that do not start a reconciliation. *)
LEMMA AsideTicks ==
    ASSUME TypeInv,
           \/ TickNoCloud \/ TickNoSec \/ TickClockNotSynced \/ TickCheck
           \/ on_response_timeout \/ do_import \/ TickWaits
           \/ (TickAwait /\ ~maybe_freshen(TickVol))
    PROVE  Aside
<1>m. mem \in Record BY DEF TypeInv, TypeOK
<1>1. CASE TickNoCloud
    BY <1>m, <1>1 DEF Aside, ReconcileCalls, Record, TickNoCloud, GateClosed
<1>2. CASE TickNoSec
    BY <1>m, <1>2 DEF Aside, ReconcileCalls, Record, TickNoSec, GateClosed
<1>3. CASE TickClockNotSynced
    BY <1>m, <1>3 DEF Aside, ReconcileCalls, Record, TickClockNotSynced, Tick
<1>4. CASE TickCheck BY <1>m, <1>4 DEF Aside, ReconcileCalls, Record, TickCheck
<1>5. CASE on_response_timeout
    BY <1>m, <1>5
    DEF Aside, ReconcileCalls, Record, on_response_timeout
<1>6. CASE TickAwait /\ ~maybe_freshen(TickVol)
  <2>1. mem.state # "SUPERSEDED_REMOTE" BY <1>6 DEF TickAwait, AwaitStates
  <2> QED BY <1>m, <1>6, <2>1
          DEF Aside, ReconcileCalls, Record, TickAwait, Tick, status_timeout
<1>7. CASE do_import BY <1>m, <1>7 DEF Aside, ReconcileCalls, Record, do_import
<1>8. CASE TickWaits BY <1>m, <1>8 DEF Aside, ReconcileCalls, Record, TickWaits, Tick
<1> QED BY <1>1, <1>2, <1>3, <1>4, <1>5, <1>6, <1>7, <1>8

(* The steps of the check, the Request, the import and the ACK, and of the   *)
(* reconciliation those that end it.                                         *)
LEMMA AsideSteps ==
    ASSUME TypeInv, DecisionInv,
           \/ do_check_active \/ do_check_sec_error \/ do_check_incomplete
           \/ build_candidate_fails \/ create_new_attempt_refused \/ create_new_attempt
           \/ do_request_blocked \/ do_request \/ do_request_rejected \/ do_request_sent
           \/ do_import_lease_too_short \/ do_import_unsupported \/ do_import_call
           \/ handle_import_committed \/ handle_import_other
           \/ do_ack_proof_unavailable \/ do_ack_proof \/ do_ack_wait
           \/ do_ack_exhausted \/ do_ack_encode_fails \/ do_ack_status \/ do_ack
           \/ do_ack_rejected \/ do_ack_sent
           \/ sec_committed \/ sec_committed_incomplete \/ sec_not_found_weak
           \/ sec_not_found_hard \/ enter_hard_blocked
           \/ do_reconcile_status \/ (handle_reconcile_status /\ pc' # "matrix")
           \/ supersede_remote_exhausted \/ supersede_remote_once
           \/ send_status_request_skipped \/ send_status_request
           \/ send_status_request_rejected
    PROVE  Aside
<1>m. mem \in Record BY DEF TypeInv, TypeOK
<1>s. pc \in ReconcileCalls => mem.state # "SUPERSEDED_REMOTE"
    BY DEF DecisionInv, ReconcileStates, AwaitStates
<1>1. CASE do_check_active
    BY <1>m, <1>1
    DEF Aside, ReconcileCalls, Record, do_check_active
<1>2. CASE do_check_sec_error
    BY <1>m, <1>2
    DEF Aside, ReconcileCalls, Record, do_check_sec_error
<1>3. CASE do_check_incomplete
    BY <1>m, <1>3
    DEF Aside, ReconcileCalls, Record, do_check_incomplete
<1>4. CASE build_candidate_fails \/ create_new_attempt_refused \/ create_new_attempt
  <2>1. CASE create_new_attempt
    <3>1. mem'.fresh = FALSE BY <2>1 DEF create_new_attempt, NewRecord
    <3> QED BY <2>1, <3>1 DEF Aside, ReconcileCalls, create_new_attempt
  <2>2. CASE build_candidate_fails \/ create_new_attempt_refused
      BY <1>m, <2>2
      DEF Aside, ReconcileCalls, Record, build_candidate_fails, create_new_attempt_refused
  <2> QED BY <1>4, <2>1, <2>2
<1>5. CASE do_request_blocked \/ do_request \/ do_request_sent
    BY <1>m, <1>5
    DEF Aside, ReconcileCalls, Record, do_request_blocked, do_request,
        do_request_sent, do_request_admitted
<1>6. CASE do_request_rejected \/ do_ack_rejected \/ send_status_request_rejected
  <2>1. publish_rejected
      BY <1>6 DEF do_request_rejected, do_ack_rejected, send_status_request_rejected
  <2>2. mem'.fresh = mem.fresh BY <1>m, <2>1 DEF publish_rejected, Record
  <2>3. disk' = mem' /\ pc' = "idle" BY <2>1 DEF publish_rejected
  <2> QED BY <2>2, <2>3 DEF Aside, ReconcileCalls
<1>7. CASE do_import_lease_too_short \/ do_import_unsupported \/ do_import_call
    BY <1>m, <1>7
    DEF Aside, ReconcileCalls, Record, do_import_lease_too_short,
        do_import_unsupported, do_import_call
<1>8. CASE handle_import_committed \/ handle_import_other
    BY <1>m, <1>8
    DEF Aside, ReconcileCalls, Record, handle_import_committed, handle_import_other
<1>9. CASE do_ack_proof_unavailable \/ do_ack_proof \/ do_ack_wait
    BY <1>m, <1>9
    DEF Aside, ReconcileCalls, Record, do_ack_proof_unavailable, do_ack_proof,
        do_ack_wait
<1>10. CASE do_ack_exhausted \/ do_ack_encode_fails
    BY <1>m, <1>10
    DEF Aside, ReconcileCalls, Record, do_ack_exhausted, do_ack_encode_fails,
        do_ack_admitted
<1>11. CASE do_ack_status \/ do_ack \/ do_ack_sent
    BY <1>m, <1>11
    DEF Aside, ReconcileCalls, Record, do_ack_status, do_ack, do_ack_sent,
        do_ack_admitted
<1>12. CASE sec_committed \/ sec_not_found_weak \/ sec_not_found_hard \/ enter_hard_blocked
    BY <1>m, <1>12
    DEF Aside, ReconcileCalls, Record, sec_committed, sec_not_found_weak,
        sec_not_found_hard, enter_hard_blocked, ResetNotFound
<1>13. CASE do_reconcile_status \/ (handle_reconcile_status /\ pc' # "matrix")
    BY <1>m, <1>s, <1>13
    DEF Aside, ReconcileCalls, Record, do_reconcile_status, status_timeout,
        handle_reconcile_status
<1>14. CASE supersede_remote_exhausted \/ supersede_remote_once
    BY <1>m, <1>14
    DEF Aside, ReconcileCalls, Record, supersede_remote_exhausted,
        supersede_remote_once
<1>15. CASE send_status_request_skipped \/ send_status_request
    BY <1>m, <1>15
    DEF Aside, ReconcileCalls, Record, send_status_request_skipped,
        send_status_request
<1>16. CASE sec_committed_incomplete
    BY <1>m, <1>16 DEF Aside, ReconcileCalls, Record, sec_committed_incomplete
<1> QED BY <1>1, <1>2, <1>3, <1>4, <1>5, <1>6, <1>7, <1>8, <1>9, <1>10, <1>11, <1>12,
           <1>13, <1>14, <1>15, <1>16

(* The downlinks that are not a status to reconcile with. *)
LEMMA AsideDownlinks ==
    ASSUME TypeInv,
           \/ ResponseRefused \/ ResponseTooLate
           \/ (\E leased \in BOOLEAN : ResponseAccepted(leased))
           \/ AckConfirmed \/ AckRefused \/ AckConflict
           \/ (\E s \in Statuses : StatusWhileWaiting(s)) \/ StatusConflict
    PROVE  Aside
<1>m. mem \in Record BY DEF TypeInv, TypeOK
<1>1. CASE ResponseRefused \/ ResponseTooLate
    BY <1>m, <1>1 DEF Aside, ReconcileCalls, Record, ResponseRefused, ResponseTooLate
<1>2. CASE \E leased \in BOOLEAN : ResponseAccepted(leased)
    BY <1>m, <1>2 DEF Aside, ReconcileCalls, Record, ResponseAccepted, Downlink
<1>3. CASE AckConfirmed \/ AckRefused \/ AckConflict
    BY <1>m, <1>3
    DEF Aside, ReconcileCalls, Record, AckConfirmed, AckRefused, AckConflict
<1>4. CASE \E s \in Statuses : StatusWhileWaiting(s)
    BY <1>m, <1>4 DEF Aside, ReconcileCalls, Record, StatusWhileWaiting
<1>5. CASE StatusConflict
  <2>1. mem'.fresh = mem.fresh BY <1>m, <1>5 DEF StatusConflict, Record
  <2>2. disk' = mem' /\ pc' = "idle" BY <1>5 DEF StatusConflict
  <2> QED BY <2>1, <2>2 DEF Aside, ReconcileCalls
<1> QED BY <1>1, <1>2, <1>3, <1>4, <1>5

(* The tick and the StatusResponse that start a reconciliation, and the      *)
(* steps that carry it on.                                                   *)
LEMMA ReconcileDecides ==
    ASSUME TypeInv, DecisionInv,
           \/ TickCall \/ (\E s \in Statuses : StatusWhileReconciling(s))
           \/ sec_not_found_proven \/ sec_not_found_observe \/ sec_contrary
           \/ do_reconcile_cached \/ (handle_reconcile_status /\ pc' = "matrix")
           \/ apply_cloud_matrix
    PROVE  DecisionInv' /\ (Freshens => FreshensInTick)
<1>m. mem \in Record /\ vol \in Volatile BY DEF TypeInv, TypeOK
<1>1. CASE TickCall
  <2>1. /\ UNCHANGED <<mem, disk, clk>> /\ clk.synced /\ pc = "idle"
        /\ vol'.contract = "ready"
        /\ pc' \in ReconcileCalls => mem.rid # NoId /\ mem.state \in ReconcileStates
        /\ pc' # "supersede"
      BY <1>m, <1>1, TickContract DEF TickCall, Tick, ReconcileCalls
  <2> QED BY <2>1 DEF DecisionInv, Freshens
<1>2. CASE \E s \in Statuses : StatusWhileReconciling(s)
  <2>1. PICK s \in Statuses : StatusWhileReconciling(s) BY <1>2
  <2>2. /\ UNCHANGED memVars /\ pc' = "sec" /\ reg' # "tick" /\ mem.rid # NoId
        /\ mem.state \in ReconcileStates \cup AwaitStates
      BY <2>1 DEF StatusWhileReconciling, Downlink, Statuses
  <2> QED BY <2>2 DEF DecisionInv, Freshens
<1>3. CASE sec_not_found_proven \/ sec_not_found_observe
  <2>1. /\ mem'.rid = mem.rid /\ mem'.fresh = mem.fresh
        /\ mem'.state \in ReconcileStates \cup AwaitStates
    <3>1. CASE sec_not_found_proven
        BY <1>m, <3>1 DEF sec_not_found_proven, Record, ReconcileStates, AwaitStates
    <3>2. CASE sec_not_found_observe
        BY <1>m, <3>2 DEF sec_not_found_observe, Record, ReconcileStates
    <3> QED BY <1>3, <3>1, <3>2
  <2>2. /\ disk' = mem' /\ pc = "sec" /\ pc' = "remote" /\ reg' = reg
        /\ clk' = clk /\ vol'.contract = vol.contract
      BY <1>m, <1>3 DEF sec_not_found_proven, sec_not_found_observe, Volatile
  <2> QED BY <2>1, <2>2, RestoredSuccessor DEF DecisionInv, ReconcileCalls, Freshens
<1>4. CASE sec_contrary
  <2>1. /\ pc = "sec" /\ disk' \in {disk, mem'} /\ clk' = clk /\ vol'.contract = vol.contract
        /\ pc' = "idle" \/ (pc' = "remote" /\ reg' = reg)
      BY <1>m, <1>4 DEF sec_contrary, Volatile
  <2>2. /\ mem'.rid = mem.rid /\ mem'.fresh = mem.fresh
        /\ mem'.state \in ReconcileStates \cup AwaitStates
      BY <1>m, <1>4, <2>1
      DEF sec_contrary, DecisionInv, ReconcileCalls, ResetNotFound, Record,
          ReconcileStates
  <2>3. mem.state # "SUPERSEDED_REMOTE"
      BY <2>1 DEF DecisionInv, ReconcileCalls, ReconcileStates, AwaitStates
  <2> QED BY <2>1, <2>2, <2>3, RestoredSuccessor
          DEF DecisionInv, ReconcileCalls, Freshens
<1>5. CASE do_reconcile_cached
  <2>1. pc = "remote" /\ reg = "tick" /\ clk' = clk BY <1>5 DEF do_reconcile_cached
  <2>2. /\ mem.state # "SUPERSEDED_REMOTE" /\ mem.rid # NoId
        /\ mem.state \in ReconcileStates \cup AwaitStates
        /\ clk.synced /\ vol.contract = "ready"
      BY <2>1 DEF DecisionInv, ReconcileCalls, ReconcileStates, AwaitStates
  <2>3. CASE maybe_freshen(vol) BY <2>2, <2>3, FreshenDecides
  <2>4. CASE ~maybe_freshen(vol)
    <3>1. UNCHANGED <<mem, vol, disk>> /\ pc' = "matrix"
        BY <1>5, <2>4 DEF do_reconcile_cached
    <3> QED BY <2>1, <2>2, <3>1 DEF DecisionInv, Freshens
  <2> QED BY <2>3, <2>4
<1>6. CASE handle_reconcile_status /\ pc' = "matrix"
  <2>1. /\ pc = "remote" /\ reg # "tick" /\ reg' = reg /\ UNCHANGED memVars
      BY <1>6 DEF handle_reconcile_status
  <2> QED BY <1>6, <2>1 DEF DecisionInv, ReconcileCalls, Freshens
<1>7. CASE apply_cloud_matrix
  <2>1. pc = "matrix" /\ UNCHANGED <<vol, clk>> BY <1>7 DEF apply_cloud_matrix, Matrix
  <2>2. mem.state # "SUPERSEDED_REMOTE"
      BY <2>1 DEF DecisionInv, ReconcileCalls, ReconcileStates, AwaitStates
  <2>3. \/ /\ pc' = "idle" /\ disk' \in {disk, mem'}
           /\ mem'.fresh = mem.fresh
        \/ /\ pc' = "supersede" /\ UNCHANGED memVars /\ reg' = reg
           /\ vol.cached \in {"FAILED", "NOT_FOUND"} /\ ~vol.unknown
      BY <1>m, <1>7 DEF apply_cloud_matrix, Matrix, Record
  <2> QED BY <2>1, <2>2, <2>3, RestoredSuccessor
          DEF DecisionInv, ReconcileCalls, Freshens
<1> QED BY <1>1, <1>2, <1>3, <1>4, <1>5, <1>6, <1>7

(* Whatever happens meanwhile outside: no handler runs, or none is moved. *)
LEMMA EnvironmentDecides ==
    ASSUME TypeInv, DecisionInv, Environment \/ UNCHANGED vars
    PROVE  DecisionInv' /\ (Freshens => FreshensInTick)
<1>1. /\ UNCHANGED <<mem, disk, pc, reg>>
      /\ pc = "idle" \/ (vol' = vol /\ clk'.synced = clk.synced)
  <2>1. CASE \/ ReadinessLost \/ ReadinessReturns \/ ReadinessRepeated \/ ClockSync
             \/ DeadlinePasses \/ WindowElapses
      BY <2>1
      DEF ReadinessLost, ReadinessReturns, ReadinessRepeated, ReadinessEvent, ClockSync,
          DeadlinePasses, WindowElapses
  <2>2. CASE TimePasses \/ InputChanges
    <3>1. clk \in Clocks BY DEF TypeInv, TypeOK
    <3> QED BY <2>2, <3>1 DEF TimePasses, InputChanges, Clocks
  <2>3. CASE \E r \in Rids : \/ SecResolves(r) \/ VmdIssues(r) \/ VmdActivates(r)
                             \/ VmdTerminates(r)
      BY <2>3 DEF SecResolves, VmdIssues, VmdActivates, VmdTerminates, VmdMoves
  <2>4. CASE \E r \in Rids, s \in Statuses : VmdAnswers(r, s) BY <2>4 DEF VmdAnswers
  <2>5. CASE UNCHANGED vars BY <2>5 DEF vars
  <2> QED BY <2>1, <2>2, <2>3, <2>4, <2>5 DEF Environment
<1> QED BY <1>1 DEF DecisionInv, ReconcileCalls, Freshens

(* A restart ends the handler and takes up an announced successor. *)
LEMMA CrashDecides ==
    ASSUME TypeInv, DecisionInv, Crash
    PROVE  DecisionInv' /\ (Freshens => FreshensInTick)
<1>d. disk \in Record BY DEF TypeInv, TypeOK
<1>1. pc' = "idle" /\ disk' = disk BY DEF Crash
<1>2. mem'.state = RestoredState(disk) /\ mem'.fresh = disk.fresh
    BY <1>d DEF Crash, Restore, Record
<1> QED BY <1>1, <1>2 DEF DecisionInv, ReconcileCalls, Freshens

LEMMA DecisionNext ==
    ASSUME TypeInv, DecisionInv, [Next]_vars
    PROVE  DecisionInv' /\ (Freshens => FreshensInTick)
<1> DEFINE Goal == DecisionInv' /\ (Freshens => FreshensInTick)
<1>1. CASE Ticks
  <2>1. CASE TickAwait /\ maybe_freshen(TickVol)
    <3>1. mem.state # "SUPERSEDED_REMOTE" /\ clk.synced
        BY <2>1 DEF TickAwait, Tick, AwaitStates
    <3>2. vol \in Volatile BY DEF TypeInv, TypeOK
    <3> QED BY <2>1, <3>1, <3>2, TickContract, FreshenDecides
  <2>2. CASE TickCall BY <2>2, ReconcileDecides
  <2>3. Aside \/ Goal BY <1>1, <2>1, <2>2, AsideTicks DEF Ticks
  <2> QED BY <2>3, AsideDecides
<1>2. CASE Steps
  <2>1. CASE handle_reconcile_status
    <3>1. CASE pc' = "matrix" BY <2>1, <3>1, ReconcileDecides
    <3>2. CASE pc' # "matrix" BY <2>1, <3>2, AsideSteps, AsideDecides
    <3> QED BY <3>1, <3>2
  <2>2. CASE \/ sec_not_found_proven \/ sec_not_found_observe \/ sec_contrary
             \/ do_reconcile_cached \/ apply_cloud_matrix
      BY <2>2, ReconcileDecides
  <2>3. Aside \/ Goal BY <1>2, <2>1, <2>2, AsideSteps DEF Steps
  <2> QED BY <2>3, AsideDecides
<1>3. CASE Downlinks
  <2>1. CASE \E s \in Statuses : StatusWhileReconciling(s) BY <2>1, ReconcileDecides
  <2>2. Aside \/ Goal BY <1>3, <2>1, AsideDownlinks DEF Downlinks
  <2> QED BY <2>2, AsideDecides
<1>4. CASE Environment \/ UNCHANGED vars BY <1>4, EnvironmentDecides
<1>5. CASE Crash BY <1>5, CrashDecides
<1> QED BY <1>1, <1>2, <1>3, <1>4, <1>5 DEF Next

LEMMA DecisionInit == ASSUME Init PROVE DecisionInv
<1>1. disk \in {EmptyStore, LegacyRecord} BY DEF Init
<1>2. RestoredState(disk) # "SUPERSEDED_REMOTE"
    BY <1>1, RestoredSuccessor DEF EmptyStore, LegacyRecord, NewRecord
<1>3. pc = "idle" BY DEF Init
<1>4. mem.fresh = disk.fresh
    BY <1>1 DEF Init, Restore, EmptyStore, LegacyRecord, NewRecord
<1> QED BY <1>2, <1>3, <1>4 DEF DecisionInv, ReconcileCalls

(* What a step of the reconciliation acts on was true when it was read and   *)
(* is still true.                                                            *)
THEOREM DecisionInvariance == Spec => []DecisionInv
<1>1. Init => DecisionInv BY DecisionInit
<1>2. TypeInv /\ DecisionInv /\ [Next]_vars => DecisionInv' BY DecisionNext
<1> QED BY <1>1, <1>2, TypeInvariance, PTL DEF Spec

(* The facts of the table that the coordinator has established by the time   *)
(* it supersedes or freshens.                                                *)
LEMMA ClockInOrder ==
    ASSUME NEW t
    PROVE  Lifecycle!clock_healthy([rollback_detected |-> FALSE, uncertainty |-> 0,
                                    sample_age |-> 0, skew |-> 0, trusted |-> t])
BY DEF Lifecycle!clock_healthy, Lifecycle!MaxUncertainty, Lifecycle!MaxSampleAge,
       Lifecycle!MaxSkew

LEMMA FactsInOrder ==
    ASSUME NEW v, mem.rid # NoId, ~v.unknown, clk.synced, v.contract = "ready"
    PROVE  InOrder(Facts(v))
<1>1. /\ Facts(v).attempt_valid /\ Facts(v).binding_match
      /\ ~Facts(v).terminalized /\ ~Facts(v).idempotency_conflict
      /\ Facts(v).contract_ready /\ ~Facts(v).sec_contract_unknown /\ ~Facts(v).sec_unknown
      /\ Facts(v).envelope_fresh /\ Facts(v).payload_fresh
    BY DEF Facts
<1>2. Facts(v).clock = [rollback_detected |-> FALSE, uncertainty |-> 0, sample_age |-> 0,
                        skew |-> 0, trusted |-> clk.synced]
    BY DEF Facts
<1>3. Lifecycle!clock_healthy(Facts(v).clock) /\ Facts(v).clock.trusted
    BY <1>2, ClockInOrder
<1> QED BY <1>1, <1>3 DEF InOrder

LEMMA FactsEvidence ==
    ASSUME NEW v
    PROVE  /\ Facts(v).no_side_effect_proven <=> NoSideEffect
           /\ Facts(v).cloud = v.cached
           /\ Facts(v).sec_committed <=> mem.rid # NoId /\ sec[mem.rid] = "committed"
           /\ Facts(v).chain_ok <=> chain_ok
           /\ Facts(v).payload_present = mem.lease /\ Facts(v).freshen_used = mem.fresh
           /\ Facts(v).deliverable /\ (Facts(v).request_budget_ok <=> request_ok)
           /\ Facts(v).U = UpperUtc /\ Facts(v).E = LeaseEnd
BY DEF Facts

(* What a tick has tested before counts as tested for a StatusResponse. *)
LEMMA BehindGate ==
    /\ mem.rid # NoId /\ ~vol.unknown => InOrder(FactsBehindGate)
    /\ FactsBehindGate.no_side_effect_proven = Facts(vol).no_side_effect_proven
    /\ FactsBehindGate.cloud = Facts(vol).cloud
    /\ FactsBehindGate.sec_committed = Facts(vol).sec_committed
    /\ FactsBehindGate.chain_ok = Facts(vol).chain_ok
<1>1. /\ FactsBehindGate.attempt_valid <=> mem.rid # NoId
      /\ FactsBehindGate.binding_match
      /\ ~FactsBehindGate.terminalized /\ ~FactsBehindGate.idempotency_conflict
      /\ FactsBehindGate.contract_ready /\ ~FactsBehindGate.sec_contract_unknown
      /\ FactsBehindGate.sec_unknown = vol.unknown
      /\ FactsBehindGate.envelope_fresh /\ FactsBehindGate.payload_fresh
    BY DEF FactsBehindGate, Facts
<1>2. FactsBehindGate.clock = [rollback_detected |-> FALSE, uncertainty |-> 0,
                               sample_age |-> 0, skew |-> 0, trusted |-> TRUE]
    BY DEF FactsBehindGate, Facts
<1>3. Lifecycle!clock_healthy(FactsBehindGate.clock) /\ FactsBehindGate.clock.trusted
    BY <1>2, ClockInOrder
<1>4. mem.rid # NoId /\ ~vol.unknown => InOrder(FactsBehindGate)
    BY <1>1, <1>3 DEF InOrder
<1> QED BY <1>4 DEF FactsBehindGate, Facts

LEMMA SupersedesAsDecided ==
    ASSUME TypeInv, DecisionInv, NoSideEffect, supersede_remote_once
    PROVE  Lifecycle!decide(SupersedeFacts) \in {"SUPERSEDE_CAS", "RESTORE_SUCCESSOR"}
<1>1. pc = "supersede" /\ chain_ok BY DEF supersede_remote_once
<1>2. mem.rid # NoId /\ vol.cached \in {"FAILED", "NOT_FOUND"} /\ ~vol.unknown
    BY <1>1 DEF DecisionInv, ReconcileCalls
<1>3. sec[mem.rid] # "committed" BY <1>2 DEF NoSideEffect
<1>4. CASE reg = "tick"
  <2>1. clk.synced /\ vol.contract = "ready" BY <1>1, <1>4 DEF DecisionInv, ReconcileCalls
  <2>2. InOrder(Facts(vol)) BY <1>2, <2>1, FactsInOrder
  <2>3. MayReplace(Facts(vol)) BY <1>1, <1>2, <1>3, <2>2, FactsEvidence DEF MayReplace
  <2> QED BY <1>4, <2>3, ReplacementDecision DEF SupersedeFacts
<1>5. CASE reg # "tick"
  <2>1. MayReplace(FactsBehindGate)
      BY <1>1, <1>2, <1>3, BehindGate, FactsEvidence DEF MayReplace
  <2> QED BY <1>5, <2>1, ReplacementDecision DEF SupersedeFacts
<1> QED BY <1>4, <1>5

LEMMA FreshensAsDecided ==
    ASSUME TypeInv, ImportInv, NoSideEffect, FreshensInTick
    PROVE  Lifecycle!decide(Facts(vol')) = "FRESHEN_SAME_ID"
<1>1. /\ Proven /\ ~vol'.unknown /\ vol'.cached = "ACK_PENDING"
      /\ mem.lease /\ ~mem.fresh /\ request_ok /\ clk.age >= 2
      /\ clk.synced /\ vol'.contract = "ready"
    BY DEF FreshensInTick, maybe_freshen_applies, Proven, lease_expired
<1>2. mem.rid # NoId BY <1>1 DEF TypeInv, AttemptInv, ImportInv, SnapshotInv
<1>3. UpperUtc >= LeaseEnd
  <2>1. clk.age \in 0 .. 3 BY DEF TypeInv, TypeOK, Clocks
  <2>2. clk.age = 2 \/ clk.age = 3 BY <1>1, <2>1
  <2> QED BY <2>2 DEF UpperUtc, LeaseEnd, SafeDeadline
<1> DEFINE v == vol'
<1>4. v.cached = "ACK_PENDING" /\ InOrder(Facts(v)) BY <1>1, <1>2, FactsInOrder
<1>5. sec[mem.rid] # "committed" BY <1>2 DEF NoSideEffect
<1> HIDE DEF v
<1>6. Lifecycle!expired_or_too_short(Facts(v))
    BY <1>1, <1>3, FactsEvidence
    DEF Lifecycle!expired_or_too_short, Lifecycle!lease_expired
<1>7. MayFreshen(Facts(v))
    BY <1>1, <1>4, <1>5, <1>6, FactsEvidence DEF MayFreshen
<1>8. Lifecycle!decide(Facts(v)) = "FRESHEN_SAME_ID" BY <1>7, FreshenDecision
<1> QED BY <1>8 DEF v

LEMMA StepAsDecided ==
    ASSUME TypeInv, RecoveryInv, ImportInv, ReplaceInv, DecisionInv,
           Proven => NoSideEffect, [Next]_vars
    PROVE  /\ Supersedes => Lifecycle!decide(SupersedeFacts)
                               \in {"SUPERSEDE_CAS", "RESTORE_SUCCESSOR"}
           /\ Freshens => Lifecycle!decide(Facts(vol')) = "FRESHEN_SAME_ID"
<1>1. Supersedes => supersede_remote_once
  <2> SUFFICES ASSUME Supersedes, ~supersede_remote_once PROVE FALSE
      OBVIOUS
  <2>1. mem.state # "SUPERSEDED_REMOTE" /\ mem'.state = "SUPERSEDED_REMOTE"
      BY DEF Supersedes
  <2>2. CASE Ordinary BY <2>1, <2>2 DEF Ordinary
  <2>3. CASE do_request \/ SecMoves
      BY <2>1, <2>3 DEF do_request, SecMoves, do_import_call, SecResolves
  <2>4. CASE Evidence BY <2>1, <2>4, EvidenceFacts
  <2>5. CASE create_new_attempt BY <2>1, <2>5 DEF create_new_attempt, NewRecord
  <2>6. CASE Crash
    <3>1. disk \in Record BY DEF TypeInv, TypeOK
    <3>2. mem'.state = RestoredState(disk) BY <2>6, <3>1 DEF Crash, Restore, Record
    <3> QED BY <2>1, <3>2 DEF DecisionInv
  <2> QED BY <2>2, <2>3, <2>4, <2>5, <2>6, OrdinaryOrSpecial DEF Special
<1>2. Freshens => FreshensInTick BY DecisionNext
<1>3. supersede_remote_once \/ FreshensInTick => Proven
    BY DEF supersede_remote_once, FreshensInTick, maybe_freshen_applies, ReplaceInv, Proven
<1> QED BY <1>1, <1>2, <1>3, SupersedesAsDecided, FreshensAsDecided

(* Neither step is taken but on a proof, and a sound proof is true of SEC. *)
LEMMA ProvenNoSideEffect ==
    ASSUME Sound, Proven
    PROVE  NoSideEffect
BY DEF Sound, ProofSound, NoSideEffect

LEMMA ReplaceInvariance == Spec => []ReplaceInv
<1>1. Init => ReplaceInv BY OrphanInit
<1>2. TypeInv /\ RecoveryInv /\ ReplaceInv /\ [Next]_vars => ReplaceInv'
    BY ReplaceNext
<1> QED BY <1>1, <1>2, TypeInvariance, RecoveryInvariance, PTL DEF Spec

(* Whenever SEC really has nothing of the attempt, which one charged Request *)
(* is enough for, a successor is announced and the freshen is spent only     *)
(* where keyprov_lifecycle_decide says so, given the journal of SEC, the     *)
(* clock, the budgets, and what SEC and VMD last said: whatever was read by  *)
(* earlier ticks and messages, lost in restarts or delayed.  A StatusResponse *)
(* that supersedes is held to the rules below the clock and the contract.    *)
THEOREM RecoveryDecisions ==
    Spec => [][NoSideEffect \/ mem.req <= 1 =>
                 /\ Supersedes => Lifecycle!decide(SupersedeFacts)
                                     \in {"SUPERSEDE_CAS", "RESTORE_SUCCESSOR"}
                 /\ Freshens => Lifecycle!decide(Facts(vol')) = "FRESHEN_SAME_ID"]_vars
<1>1. TypeInv /\ RecoveryInv /\ ImportInv /\ FirstRequest /\ ReplaceInv /\ DecisionInv
        /\ [Next]_vars
        => [NoSideEffect \/ mem.req <= 1 =>
              /\ Supersedes => Lifecycle!decide(SupersedeFacts)
                                  \in {"SUPERSEDE_CAS", "RESTORE_SUCCESSOR"}
              /\ Freshens => Lifecycle!decide(Facts(vol')) = "FRESHEN_SAME_ID"]_vars
    BY ProvenNoSideEffect, StepAsDecided DEF FirstRequest
<1> QED BY <1>1, TypeInvariance, RecoveryInvariance, ImportInvariance,
           ReplaceInvariance, DecisionInvariance, PTL
        DEF Spec

(* And SEC has nothing of an attempt that is found absent as long as no      *)
(* bundle is taken against the evidence: under any limits the coordinator    *)
(* then decides as the table does.                                           *)
THEOREM RecoveryAsDecided == Spec /\ NoBundleAgainstEvidence => RecoversAsDecided
<1>1. TypeInv /\ RecoveryInv /\ ImportInv /\ Sound /\ ReplaceInv /\ DecisionInv
        /\ [Next]_vars
        => [/\ Supersedes => Lifecycle!decide(SupersedeFacts)
                                \in {"SUPERSEDE_CAS", "RESTORE_SUCCESSOR"}
            /\ Freshens => Lifecycle!decide(Facts(vol')) = "FRESHEN_SAME_ID"]_vars
    BY ProvenNoSideEffect, StepAsDecided
<1> QED BY <1>1, TypeInvariance, RecoveryInvariance, ImportInvariance, SoundWithout,
           ReplaceInvariance, DecisionInvariance, PTL
        DEF Spec, RecoversAsDecided

=============================================================================
