-------------------------- MODULE KeyProvAckProofs --------------------------
(***************************************************************************)
(* The acknowledgement is safe, for every value of the constants: an ACK   *)
(* is only ever sent for a batch SEC has committed, and the coordinator    *)
(* reports ACTIVE only over a complete set of keys.                        *)
(*                                                                         *)
(* AckAttested is not inductive.  do_ack_locked sends on the strength of   *)
(* ack_items_, which is a claim about SEC made by an earlier step          *)
(* (ProofInv); and ACTIVE may rest on what VMD says, which rests on an     *)
(* earlier ACK (CloudInv).                                                 *)
(*                                                                         *)
(* The second half proves that the ACK is not skipped either: until the    *)
(* first ACK, a committed import is in one of four places between          *)
(* IMPORTING and the ACK, in memory and in the store alike (OnTheWay).     *)
(***************************************************************************)
EXTENDS KeyProvisioningProofs

(* A proof in memory, or on its way there, is about a committed import. *)
ProofInv ==
    /\ vol.acks /\ mem.rid # NoId => sec[mem.rid] = "committed"
    /\ pc = "imported" /\ reg = "COMMITTED" /\ mem.rid # NoId =>
          sec[mem.rid] = "committed"

(* VMD activates a batch, and says so, only after its ACK. *)
CloudInv ==
    /\ \A r \in Rids : cloud[r] = "active" => <<"ack", r>> \in sent
    /\ \A r \in Rids : <<r, "ACTIVE">> \in answers => cloud[r] = "active"

AckInv == ProofInv /\ CloudInv /\ AckAttested /\ ActiveHasKeys

(* Most steps keep the attempt and gain no proof. *)
KeepsProof ==
    /\ mem'.rid = mem.rid /\ vol'.acks \in {vol.acks, FALSE}
    /\ pc' = "imported" => pc = "imported" /\ reg' = reg
    /\ mem'.state = "ACTIVE" => mem.state = "ACTIVE"
    /\ UNCHANGED <<sec, cloud, answers, sent>>

USE DEF NoId, NoFp, persist, persist_unless_suppressed, Return, Call, Settle,
        Outside, NoFault, Blame, memVars, enter_reconcile_old_attempt

(* Such a step preserves the invariant. *)
LEMMA AckQuiet == ASSUME AckInv, KeepsProof PROVE AckInv'
BY DEF AckInv, ProofInv, CloudInv, AckAttested, ActiveHasKeys, KeepsProof,
       purposes_complete, Committed

(* The proof survives what the handlers do to the rest of the memory. *)
LEMMA AcksKept ==
    ASSUME NEW v \in Volatile
    PROVE  /\ refresh_sec_readiness(v).acks = v.acks
           /\ invalidate_identity(v).acks = v.acks
           /\ [invalidate_identity(v) EXCEPT !.event = TRUE].acks = v.acks
           /\ [v EXCEPT !.identity = TRUE].acks = v.acks
           /\ [v EXCEPT !.deadline = "none", !.recSent = FALSE].acks = v.acks
<1>2. refresh_sec_readiness(v).acks = v.acks BY DEF refresh_sec_readiness, Volatile
<1>3. invalidate_identity(v).acks = v.acks BY DEF invalidate_identity, Volatile
<1>4. [invalidate_identity(v) EXCEPT !.event = TRUE].acks = v.acks
    BY DEF invalidate_identity, Volatile
<1>5. [v EXCEPT !.identity = TRUE].acks = v.acks BY DEF Volatile
<1>6. [v EXCEPT !.deadline = "none", !.recSent = FALSE].acks = v.acks BY DEF Volatile
<1> QED BY <1>2, <1>3, <1>4, <1>5, <1>6

(* A handler that settles in a state other than ACTIVE gains no proof. *)
LEMMA SettleKeeps ==
    ASSUME TypeInv, NEW s, s # "ACTIVE", NEW v, v.acks = vol.acks, Settle(s, v), Outside
    PROVE  KeepsProof
<1>m. mem \in Record BY DEF TypeInv, TypeOK
<1>1. mem'.rid = mem.rid /\ mem'.state = s BY <1>m DEF Record
<1>2. vol'.acks = vol.acks /\ pc' # "imported" OBVIOUS
<1> QED BY <1>1, <1>2 DEF KeepsProof

LEMMA ReconcileKeeps ==
    ASSUME TypeInv, NEW v \in Volatile, v.acks = vol.acks,
           enter_reconcile_old_attempt(v), Outside
    PROVE  KeepsProof
<1> DEFINE w == [v EXCEPT !.deadline = "none", !.recSent = FALSE]
<1>1. w.acks = vol.acks BY AcksKept
<1>2. Settle("RECONCILE_OLD_ATTEMPT", w) BY DEF enter_reconcile_old_attempt
<1> HIDE DEF w
<1> QED BY <1>1, <1>2, SettleKeeps

(* A rejected publish, whatever the reason, keeps the proof. *)
LEMMA RejectKeeps == ASSUME TypeInv, publish_rejected PROVE KeepsProof
<1>v. vol \in Volatile BY DEF TypeInv, TypeOK
<1>1. PICK s \in {"WAIT_CLOUD", "BLOCKED", "RETRY_WAIT"},
           v \in {vol, invalidate_identity(vol), [invalidate_identity(vol) EXCEPT !.event = TRUE]} :
              Settle(s, v)
    BY Zenon DEF publish_rejected
<1>2. v.acks = vol.acks BY <1>v, <1>1, AcksKept
<1>3. Outside BY DEF publish_rejected
<1> QED BY <1>1, <1>2, <1>3, SettleKeeps

(* A closed gate invalidates the identity and keeps the proof. *)
LEMMA Ack_GateClosed ==
    ASSUME TypeInv, NEW v \in Volatile, v.acks = vol.acks, pc = "idle", GateClosed(v)
    PROVE  KeepsProof
<1>m. mem \in Record BY DEF TypeInv, TypeOK
<1>w. PICK w \in {v, invalidate_identity(v)} : vol' \in {w, [w EXCEPT !.deadline = "none"]}
    BY DEF GateClosed
<1>i. invalidate_identity(v) \in Volatile BY InvalidatedType
<1>j. invalidate_identity(v).acks = v.acks BY DEF invalidate_identity, Volatile
<1>1. w \in Volatile /\ w.acks = vol.acks BY <1>w, <1>i, <1>j
<1>2. [w EXCEPT !.deadline = "none"].acks = w.acks BY <1>1 DEF Volatile
<1>3. vol'.acks = vol.acks BY <1>w, <1>1, <1>2
<1>4. mem'.rid = mem.rid /\ (mem'.state = "ACTIVE" => mem.state = "ACTIVE")
    BY <1>m DEF GateClosed, Record
<1>5. pc' = "idle" /\ UNCHANGED <<sec, cloud, answers, sent>> BY DEF GateClosed
<1> QED BY <1>3, <1>4, <1>5 DEF KeepsProof

(* Freshening goes back to REQUESTING with the same request id. *)
LEMMA Ack_maybe_freshen ==
    ASSUME TypeInv, NEW v \in Volatile, v.acks = vol.acks, maybe_freshen(v), Outside
    PROVE  KeepsProof
<1>m. mem \in Record BY DEF TypeInv, TypeOK
<1>1. mem'.rid = mem.rid /\ mem'.state = "REQUESTING" BY <1>m DEF maybe_freshen, Record
<1> QED BY <1>1 DEF KeepsProof, maybe_freshen

(* The gate is closed because MQTT is not ready. *)
LEMMA Ack_TickNoCloud == ASSUME TypeInv, TickNoCloud PROVE KeepsProof
<1>v. vol \in Volatile BY DEF TypeInv, TypeOK
<1>1. /\ refresh_sec_readiness(vol) \in Volatile
      /\ refresh_sec_readiness(vol).acks = vol.acks
    BY <1>v, RefreshedType, AcksKept
<1> QED BY <1>1, Ack_GateClosed DEF TickNoCloud

(* The gate is closed because SEC does not answer, or is not ready. *)
LEMMA Ack_TickNoSec == ASSUME TypeInv, TickNoSec PROVE KeepsProof
<1>v. vol \in Volatile BY DEF TypeInv, TypeOK
<1>1. PICK v \in SecNotReady : GateClosed(v) BY DEF TickNoSec
<1>2. v \in Volatile /\ v.acks = vol.acks BY <1>v, NotReadyType
<1> QED BY <1>1, <1>2, Ack_GateClosed DEF TickNoSec

(* Waiting for the cloud may freshen, ask again, or time out. *)
LEMMA Ack_TickAwait == ASSUME TypeInv, TickAwait PROVE KeepsProof
<1>v. vol \in Volatile BY DEF TypeInv, TypeOK
<1>1. TickVol \in Volatile BY <1>v, TickVolType
<1>2. TickVol.acks = vol.acks BY <1>v DEF TickVol, refresh_sec_readiness, Volatile
<1>3. CASE maybe_freshen(TickVol) BY <1>1, <1>2, <1>3, Ack_maybe_freshen DEF TickAwait
<1>4. CASE ~maybe_freshen(TickVol)
  <2>1. [TickVol EXCEPT !.recSent = FALSE].acks = TickVol.acks BY <1>1 DEF Volatile
  <2> QED BY <1>2, <1>4, <2>1 DEF KeepsProof, TickAwait, status_timeout
<1> QED BY <1>3, <1>4

(* A cached status freshens or is decided on. *)
LEMMA Ack_do_reconcile_cached == ASSUME TypeInv, do_reconcile_cached PROVE KeepsProof
<1>v. vol \in Volatile BY DEF TypeInv, TypeOK
<1>1. CASE maybe_freshen(vol) BY <1>v, <1>1, Ack_maybe_freshen DEF do_reconcile_cached
<1>2. CASE ~maybe_freshen(vol) BY <1>2 DEF KeepsProof, do_reconcile_cached
<1> QED BY <1>1, <1>2

(* The ticks neither gain nor lose a proof of import. *)
LEMMA QuietTicks ==
    ASSUME TypeInv,
           \/ TickNoCloud \/ TickNoSec \/ TickClockNotSynced \/ TickCheck
           \/ TickCall \/ on_response_timeout \/ TickAwait \/ do_import
           \/ TickWaits
    PROVE  KeepsProof
<1>1. CASE TickNoCloud BY <1>1, Ack_TickNoCloud
<1>2. CASE TickNoSec BY <1>2, Ack_TickNoSec
<1>3. CASE TickClockNotSynced
    BY <1>3 DEF TypeInv, TypeOK, KeepsProof, Record, Volatile, TickClockNotSynced,
        TickVol, refresh_sec_readiness, Tick
<1>4. CASE TickCheck
    BY <1>4 DEF TypeInv, TypeOK, KeepsProof, Record, Volatile, TickCheck, TickVol,
        refresh_sec_readiness, Tick
<1>5. CASE TickCall
    BY <1>5 DEF TypeInv, TypeOK, KeepsProof, Record, Volatile, TickCall, TickVol,
        refresh_sec_readiness, Tick
<1>6. CASE on_response_timeout
  <2>v. vol \in Volatile BY DEF TypeInv, TypeOK
  <2>1. TickVol \in Volatile /\ TickVol.acks = vol.acks
      BY <2>v, TickVolType, RefreshedType, AcksKept DEF TickVol
  <2>2. \/ Settle("RETRY_WAIT", TickVol)
        \/ enter_reconcile_old_attempt(TickVol)
      BY <1>6 DEF on_response_timeout
  <2>3. Outside BY <1>6 DEF on_response_timeout
  <2> QED BY <2>1, <2>2, <2>3, SettleKeeps, ReconcileKeeps
<1>7. CASE TickAwait BY <1>7, Ack_TickAwait
<1>8. CASE do_import
    BY <1>8 DEF TypeInv, TypeOK, KeepsProof, Record, Volatile, do_import, TickVol,
        refresh_sec_readiness, Tick
<1>9. CASE TickWaits
    BY <1>9 DEF TypeInv, TypeOK, KeepsProof, Record, Volatile, TickWaits, TickVol,
        refresh_sec_readiness, Tick
<1> QED BY <1>1, <1>2, <1>3, <1>4, <1>5, <1>6, <1>7, <1>8, <1>9

(* Nor do the steps of a handler that do not talk to SEC or acknowledge. *)
LEMMA QuietSteps ==
    ASSUME TypeInv,
           \/ do_check_sec_error \/ do_check_incomplete
           \/ build_candidate_fails \/ create_new_attempt_refused
           \/ do_request_blocked \/ do_request_rejected \/ do_request_sent
           \/ do_import_lease_too_short \/ do_import_unsupported
           \/ handle_import_other \/ do_ack_proof_unavailable \/ do_ack_wait
           \/ do_ack_exhausted \/ do_ack_encode_fails \/ do_ack_rejected
           \/ do_ack_sent \/ sec_not_found_weak \/ sec_not_found_proven
           \/ sec_not_found_hard \/ sec_not_found_observe
           \/ enter_hard_blocked \/ sec_contrary \/ do_reconcile_cached
           \/ do_reconcile_status \/ handle_reconcile_status
           \/ apply_cloud_matrix \/ supersede_remote_exhausted
           \/ supersede_remote_once \/ send_status_request_skipped
           \/ send_status_request_rejected
    PROVE  KeepsProof
<1>1. CASE do_check_sec_error
    BY <1>1 DEF TypeInv, TypeOK, KeepsProof, Record, Volatile, do_check_sec_error
<1>2. CASE do_check_incomplete
    BY <1>2 DEF TypeInv, TypeOK, KeepsProof, Record, Volatile, do_check_incomplete
<1>3. CASE build_candidate_fails
    BY <1>3 DEF TypeInv, TypeOK, KeepsProof, Record, Volatile,
        build_candidate_fails
<1>4. CASE create_new_attempt_refused
    BY <1>4 DEF TypeInv, TypeOK, KeepsProof, Record, Volatile,
        create_new_attempt_refused
<1>5. CASE do_request_blocked
    BY <1>5 DEF TypeInv, TypeOK, KeepsProof, Record, Volatile, do_request_blocked
<1>6. CASE do_request_rejected
    BY <1>6, RejectKeeps DEF do_request_rejected
<1>7. CASE do_request_sent
    BY <1>7 DEF TypeInv, TypeOK, KeepsProof, Record, Volatile, do_request_sent
<1>8. CASE do_import_lease_too_short
    BY <1>8 DEF TypeInv, TypeOK, KeepsProof, Record, Volatile,
        do_import_lease_too_short
<1>9. CASE do_import_unsupported
    BY <1>9 DEF TypeInv, TypeOK, KeepsProof, Record, Volatile,
        do_import_unsupported
<1>10. CASE handle_import_other
    BY <1>10 DEF TypeInv, TypeOK, KeepsProof, Record, Volatile,
        handle_import_other
<1>11. CASE do_ack_proof_unavailable
    BY <1>11 DEF TypeInv, TypeOK, KeepsProof, Record, Volatile,
        do_ack_proof_unavailable
<1>12. CASE do_ack_wait
    BY <1>12 DEF TypeInv, TypeOK, KeepsProof, Record, Volatile, do_ack_wait,
        ack_waiting
<1>13. CASE do_ack_exhausted
    BY <1>13 DEF TypeInv, TypeOK, KeepsProof, Record, Volatile, do_ack_exhausted,
        ack_ok, ack_waiting
<1>14. CASE do_ack_encode_fails
    BY <1>14 DEF TypeInv, TypeOK, KeepsProof, Record, Volatile,
        do_ack_encode_fails, ack_asks_status, do_ack_admitted, ack_ok,
        ack_waiting
<1>15. CASE do_ack_rejected
    BY <1>15, RejectKeeps DEF do_ack_rejected
<1>16. CASE do_ack_sent
    BY <1>16 DEF TypeInv, TypeOK, KeepsProof, Record, Volatile, do_ack_sent
<1>17. CASE sec_not_found_weak
    BY <1>17 DEF TypeInv, TypeOK, KeepsProof, Record, Volatile,
        sec_not_found_weak, ResetNotFound, NotFoundSeen
<1>18. CASE sec_not_found_proven
    BY <1>18 DEF TypeInv, TypeOK, KeepsProof, Record, Volatile,
        sec_not_found_proven, NotFoundSeen
<1>19. CASE sec_not_found_hard
    BY <1>19 DEF TypeInv, TypeOK, KeepsProof, Record, Volatile,
        sec_not_found_hard, NotFoundSeen
<1>20. CASE sec_not_found_observe
    BY <1>20 DEF TypeInv, TypeOK, KeepsProof, Record, Volatile,
        sec_not_found_observe, NotFoundSeen
<1>21. CASE enter_hard_blocked
    BY <1>21 DEF TypeInv, TypeOK, KeepsProof, Record, Volatile, enter_hard_blocked
<1>22. CASE sec_contrary
  <2>m. mem \in Record /\ vol \in Volatile BY DEF TypeInv, TypeOK
  <2>1. mem'.rid = mem.rid /\ (mem'.state = "ACTIVE" => mem.state = "ACTIVE")
      BY <1>22, <2>m DEF sec_contrary, ResetNotFound, Record
  <2>2. vol'.acks = vol.acks BY <1>22, <2>m DEF sec_contrary, Volatile
  <2>3. pc' # "imported" /\ UNCHANGED <<sec, cloud, answers, sent>>
      BY <1>22 DEF sec_contrary
  <2> QED BY <2>1, <2>2, <2>3 DEF KeepsProof
<1>23. CASE do_reconcile_cached BY <1>23, Ack_do_reconcile_cached
<1>24. CASE do_reconcile_status
    BY <1>24 DEF TypeInv, TypeOK, KeepsProof, Record, Volatile,
        do_reconcile_status, status_timeout, Proven
<1>25. CASE handle_reconcile_status
    BY <1>25 DEF TypeInv, TypeOK, KeepsProof, Record, Volatile,
        handle_reconcile_status, Proven
<1>26. CASE apply_cloud_matrix
    BY <1>26 DEF TypeInv, TypeOK, KeepsProof, Record, Volatile,
        apply_cloud_matrix, Matrix
<1>27. CASE supersede_remote_exhausted
    BY <1>27 DEF TypeInv, TypeOK, KeepsProof, Record, Volatile,
        supersede_remote_exhausted, chain_ok
<1>28. CASE supersede_remote_once
    BY <1>28 DEF TypeInv, TypeOK, KeepsProof, Record, Volatile,
        supersede_remote_once, chain_ok
<1>29. CASE send_status_request_skipped
    BY <1>29 DEF TypeInv, TypeOK, KeepsProof, Record, Volatile,
        send_status_request_skipped
<1>30. CASE send_status_request_rejected
    BY <1>30, RejectKeeps DEF send_status_request_rejected
<1> QED BY <1>1, <1>2, <1>3, <1>4, <1>5, <1>6, <1>7, <1>8, <1>9, <1>10, <1>11,
    <1>12, <1>13, <1>14, <1>15, <1>16, <1>17, <1>18, <1>19, <1>20, <1>21,
    <1>22, <1>23, <1>24, <1>25, <1>26, <1>27, <1>28, <1>29, <1>30

(* Nor do the downlinks that confirm nothing, the timers and the session. *)
LEMMA QuietEvents ==
    ASSUME TypeInv,
           \/ ResponseRefused \/ ResponseTooLate \/ AckRefused \/ AckConflict
           \/ StatusConflict \/ ReadinessLost \/ ReadinessReturns
           \/ ReadinessRepeated \/ ClockSync \/ DeadlinePasses \/ WindowElapses
           \/ TimePasses \/ InputChanges
           \/ (\E leased \in BOOLEAN : ResponseAccepted(leased))
           \/ (\E s \in Statuses : StatusWhileReconciling(s))
    PROVE  KeepsProof
<1>1. CASE ResponseRefused
  <2>v. vol \in Volatile BY DEF TypeInv, TypeOK
  <2>1. \/ enter_reconcile_old_attempt(vol)
        \/ Settle("RETRY_WAIT", vol) \/ Settle("BLOCKED", vol)
      BY <1>1 DEF ResponseRefused
  <2>2. Outside BY <1>1 DEF ResponseRefused
  <2> QED BY <2>v, <2>1, <2>2, SettleKeeps, ReconcileKeeps
<1>2. CASE ResponseTooLate
    BY <1>2 DEF TypeInv, TypeOK, KeepsProof, Record, Volatile, ResponseTooLate,
        Downlink
<1>3. CASE AckRefused
    BY <1>3 DEF TypeInv, TypeOK, KeepsProof, Record, Volatile, AckRefused,
        Downlink
<1>4. CASE AckConflict
    BY <1>4 DEF TypeInv, TypeOK, KeepsProof, Record, Volatile, AckConflict,
        Downlink
<1>5. CASE StatusConflict
    BY <1>5 DEF TypeInv, TypeOK, KeepsProof, Record, Volatile, StatusConflict,
        Downlink
<1>6. CASE ReadinessLost \/ ReadinessReturns \/ ReadinessRepeated \/ ClockSync
  <2>v. vol \in Volatile BY DEF TypeInv, TypeOK
  <2>1. CASE ClockSync BY <2>1 DEF KeepsProof, ClockSync
  <2>2. CASE ~ClockSync
    <3>1. PICK v \in {vol, invalidate_identity(vol)} : ReadinessEvent(v)
        BY <1>6, <2>2 DEF ReadinessLost, ReadinessReturns, ReadinessRepeated
    <3>2. v \in Volatile /\ v.acks = vol.acks
        BY <2>v, <3>1, InvalidatedType, AcksKept
    <3>3. vol'.acks = vol.acks BY <3>1, <3>2 DEF ReadinessEvent, Volatile
    <3>4. pc = "idle" BY <3>1 DEF ReadinessEvent
    <3>5. UNCHANGED <<mem, pc, reg, sec, cloud, answers, sent>>
        BY <3>1 DEF ReadinessEvent
    <3> QED BY <3>3, <3>4, <3>5 DEF KeepsProof
  <2> QED BY <2>1, <2>2
<1>7. CASE DeadlinePasses
    BY <1>7 DEF TypeInv, TypeOK, KeepsProof, Record, Volatile, DeadlinePasses
<1>8. CASE WindowElapses
    BY <1>8 DEF TypeInv, TypeOK, KeepsProof, Record, Volatile, WindowElapses
<1>9. CASE TimePasses
    BY <1>9 DEF TypeInv, TypeOK, KeepsProof, Record, Volatile, TimePasses
<1>10. CASE InputChanges
    BY <1>10 DEF TypeInv, TypeOK, KeepsProof, Record, Volatile, InputChanges
<1>11. CASE \E leased \in BOOLEAN : ResponseAccepted(leased)
    BY <1>11 DEF TypeInv, TypeOK, KeepsProof, Record, Volatile, ResponseAccepted,
        Downlink
<1>12. CASE \E s \in Statuses : StatusWhileReconciling(s)
    BY <1>12 DEF TypeInv, TypeOK, KeepsProof, Record, Volatile,
        StatusWhileReconciling, Downlink
<1> QED BY <1>1, <1>2, <1>3, <1>4, <1>5, <1>6, <1>7, <1>8, <1>9, <1>10, <1>11,
    <1>12


(* Publishing a Request or a StatusRequest sends no ACK. *)
LEMMA Ack_sends ==
    ASSUME TypeInv, AckInv, do_request \/ do_ack_status \/ send_status_request
    PROVE  AckInv'
<1>1. UNCHANGED <<mem, sec, cloud, answers>> /\ pc' # "imported"
    BY DEF do_request, do_ack_status, send_status_request
<1>2. vol'.acks = vol.acks
    BY DEF TypeInv, TypeOK, Volatile, do_request, do_ack_status, send_status_request
<1>3. \A r \in Rids : <<"ack", r>> \in sent' <=> <<"ack", r>> \in sent
    BY DEF do_request, do_ack_status, send_status_request
<1> QED BY <1>1, <1>2, <1>3
    DEF AckInv, ProofInv, CloudInv, AckAttested, ActiveHasKeys, purposes_complete,
        Committed

(* do_ack_locked sends an ACK only with a proof in memory. *)
LEMMA Ack_do_ack == ASSUME TypeInv, AckInv, do_ack PROVE AckInv'
<1>1. UNCHANGED <<mem, vol, sec, cloud, answers>> /\ pc' = "acked" BY DEF do_ack
<1>2. vol.acks BY DEF do_ack, do_ack_admitted
<1>3. \A r \in Rids : <<"ack", r>> \in sent' => <<"ack", r>> \in sent \/ r = mem.rid
    BY DEF do_ack
<1>4. mem.rid # NoId => sec[mem.rid] = "committed" BY <1>2 DEF AckInv, ProofInv
<1>5. AckAttested'
    BY <1>1, <1>3, <1>4, LimitsAssumption DEF AckInv, AckAttested, Rids
<1>6. CloudInv' BY <1>1 DEF AckInv, CloudInv, do_ack
<1>7. ProofInv' /\ ActiveHasKeys'
    BY <1>1 DEF AckInv, ProofInv, ActiveHasKeys, purposes_complete, Committed
<1> QED BY <1>5, <1>6, <1>7 DEF AckInv

(* The ways to obtain the proof all read it from SEC. *)
LEMMA Ack_gains ==
    ASSUME TypeInv, AckInv,
           \/ handle_import_committed \/ do_ack_proof \/ sec_committed
           \/ sec_committed_incomplete
    PROVE  AckInv'
<1>m. mem \in Record BY DEF TypeInv, TypeOK
<1>1. UNCHANGED <<sec, cloud, answers, sent>> /\ pc' # "imported"
    BY DEF handle_import_committed, do_ack_proof, sec_committed, sec_committed_incomplete
<1>2. mem'.rid = mem.rid /\ (mem'.state = "ACTIVE" => mem.state = "ACTIVE")
    BY <1>m DEF handle_import_committed, do_ack_proof, sec_committed,
                sec_committed_incomplete, ResetNotFound, Record
<1>3. mem.rid # NoId => sec[mem.rid] = "committed"
    BY DEF AckInv, ProofInv, handle_import_committed, do_ack_proof, sec_committed,
           sec_committed_incomplete
<1> QED BY <1>1, <1>2, <1>3
    DEF AckInv, ProofInv, CloudInv, AckAttested, ActiveHasKeys, purposes_complete,
        Committed

(* do_check_locked settles in ACTIVE when SEC reports all purposes. *)
LEMMA Ack_do_check_active == ASSUME TypeInv, AckInv, do_check_active PROVE AckInv'
<1>m. mem \in Record /\ vol \in Volatile BY DEF TypeInv, TypeOK
<1>1. UNCHANGED <<sec, cloud, answers, sent>> /\ pc' # "imported" /\ purposes_complete
    BY DEF do_check_active
<1>2. mem'.rid = mem.rid /\ vol'.acks = vol.acks
    BY <1>m DEF do_check_active, Record, Volatile
<1> QED BY <1>1, <1>2
    DEF AckInv, ProofInv, CloudInv, AckAttested, ActiveHasKeys, purposes_complete,
        Committed

(* SEC never takes back a commit, whether an import is called or resolved. *)
LEMMA Ack_imports ==
    ASSUME TypeInv, AckInv,
           do_import_call \/ \E r \in Rids : SecResolves(r)
    PROVE  AckInv'
<1>s. sec \in [Rids -> Entries] /\ mem \in Record /\ vol \in Volatile
    BY DEF TypeInv, TypeOK
<1>1. UNCHANGED <<mem, cloud, answers, sent>> BY DEF do_import_call, SecResolves
<1>2. vol'.acks = vol.acks BY <1>s DEF do_import_call, SecResolves, Volatile
<1>3. \A r \in Rids : sec[r] = "committed" => sec'[r] = "committed"
  <2>1. CASE \E r \in Rids : SecResolves(r) BY <1>s, <2>1 DEF SecResolves
  <2>2. CASE do_import_call
    <3>1. PICK result \in ImportResults, entry \in Entries :
            SecImport(mem.rid, result, entry) /\ sec' = [sec EXCEPT ![mem.rid] = entry]
        BY <2>2 DEF do_import_call
    <3>2. sec[mem.rid] = "committed" => entry = "committed" BY <3>1 DEF SecImport
    <3> QED BY <1>s, <3>1, <3>2
  <2> QED BY <2>1, <2>2
<1>4. ASSUME pc' = "imported", reg' = "COMMITTED", mem.rid # NoId
      PROVE  sec'[mem.rid] = "committed"
  <2>r. mem.rid \in Rids BY <1>s, <1>4 DEF Record
  <2>1. CASE \E r \in Rids : SecResolves(r)
      BY <1>3, <1>4, <2>1, <2>r DEF AckInv, ProofInv, SecResolves
  <2>2. CASE do_import_call
    <3>1. PICK result \in ImportResults, entry \in Entries :
            /\ SecImport(mem.rid, result, entry)
            /\ sec' = [sec EXCEPT ![mem.rid] = entry] /\ reg' = result
        BY <2>2 DEF do_import_call
    <3>2. entry = "committed" BY <1>4, <3>1 DEF SecImport
    <3> QED BY <1>s, <2>r, <3>1, <3>2
  <2> QED BY <2>1, <2>2
<1>5. vol.acks /\ mem.rid # NoId => sec'[mem.rid] = "committed"
    BY <1>s, <1>3 DEF AckInv, ProofInv, Record
<1>6. ProofInv' BY <1>1, <1>2, <1>4, <1>5 DEF ProofInv
<1>7. CloudInv' BY <1>1 DEF AckInv, CloudInv
<1>8. AckAttested' /\ ActiveHasKeys'
    BY <1>1, <1>3 DEF AckInv, AckAttested, ActiveHasKeys, purposes_complete, Committed
<1> QED BY <1>6, <1>7, <1>8 DEF AckInv

(* A new attempt starts without a proof. *)
LEMMA Ack_create_new_attempt ==
    ASSUME TypeInv, AckInv, create_new_attempt
    PROVE  AckInv'
<1>1. UNCHANGED <<sec, cloud, answers, sent>> /\ pc' = "request" BY DEF create_new_attempt
<1>2. vol'.acks = FALSE BY DEF TypeInv, TypeOK, create_new_attempt, Volatile
<1>3. mem'.state = "REQUESTING" BY DEF create_new_attempt, NewRecord
<1> QED BY <1>1, <1>2, <1>3
    DEF AckInv, ProofInv, CloudInv, AckAttested, ActiveHasKeys

(* A restart forgets the proof and never resumes in ACTIVE. *)
LEMMA Ack_Crash == ASSUME TypeInv, AckInv, Crash PROVE AckInv'
<1>d. disk \in Record BY DEF TypeInv, TypeOK
<1>1. UNCHANGED <<sec, cloud, answers, sent>> /\ pc' = "idle" BY DEF Crash
<1>2. vol'.acks = FALSE BY DEF Crash, RestoreVolatile, NewVolatile
<1>3. RestoredState(disk) # "ACTIVE" BY <1>d DEF RestoredState
<1>4. mem'.state # "ACTIVE" BY <1>d, <1>3 DEF Crash, Restore, Record
<1> QED BY <1>1, <1>2, <1>4
    DEF AckInv, ProofInv, CloudInv, AckAttested, ActiveHasKeys

(* Confirmation by VMD presupposes an ACK, hence a committed import. *)
LEMMA Ack_confirmed ==
    ASSUME TypeInv, AckInv,
           AckConfirmed \/ \E s \in Statuses : StatusWhileWaiting(s)
    PROVE  AckInv'
<1>m. mem \in Record /\ vol \in Volatile BY DEF TypeInv, TypeOK
<1>1. UNCHANGED <<sec, cloud, answers, sent>> /\ pc' = "idle"
    BY DEF AckConfirmed, StatusWhileWaiting
<1>2. mem'.rid = mem.rid /\ vol'.acks = vol.acks
    BY <1>m DEF AckConfirmed, StatusWhileWaiting, Record, Volatile
<1>r. mem.rid \in Rids
    BY <1>m DEF AckConfirmed, StatusWhileWaiting, Downlink, Record
<1>3. ASSUME mem'.state = "ACTIVE" PROVE sec[mem.rid] = "committed"
  <2>1. cloud[mem.rid] = "active"
    <3>1. CASE AckConfirmed BY <3>1 DEF AckConfirmed
    <3>2. CASE \E s \in Statuses : StatusWhileWaiting(s)
      <4>1. PICK s \in Statuses : StatusWhileWaiting(s) BY <3>2
      <4>2. s = "ACTIVE" BY <1>m, <1>3, <4>1 DEF StatusWhileWaiting, Record
      <4> QED BY <1>r, <4>1, <4>2 DEF AckInv, CloudInv, StatusWhileWaiting
    <3> QED BY <3>1, <3>2
  <2> QED BY <1>r, <2>1 DEF AckInv, CloudInv, AckAttested
<1>4. ActiveHasKeys' BY <1>1, <1>3, <1>r DEF ActiveHasKeys, purposes_complete, Committed
<1> QED BY <1>1, <1>2, <1>4 DEF AckInv, ProofInv, CloudInv, AckAttested

(* VMD activates a batch only on an ACK. *)
LEMMA Ack_vmd ==
    ASSUME TypeInv, AckInv, NEW r \in Rids,
           \/ VmdIssues(r) \/ VmdActivates(r) \/ VmdTerminates(r)
           \/ \E s \in Statuses : VmdAnswers(r, s)
    PROVE  AckInv'
<1>c. cloud \in [Rids -> Batches] BY DEF TypeInv, TypeOK
<1>1. UNCHANGED <<mem, vol, pc, reg, sec, sent>>
    BY DEF VmdIssues, VmdActivates, VmdTerminates, VmdAnswers, VmdMoves
<1>2. CloudInv'
  <2>1. CASE \E s \in Statuses : VmdAnswers(r, s)
    <3>1. PICK s \in Statuses : VmdAnswers(r, s) BY <2>1
    <3>2. s = "ACTIVE" => cloud[r] = "active"
        BY <1>c, <3>1 DEF VmdAnswers, StatusOf, Batches
    <3> QED BY <3>1, <3>2 DEF AckInv, CloudInv, VmdAnswers
  <2>2. CASE VmdIssues(r) BY <1>c, <2>2 DEF AckInv, CloudInv, VmdIssues, VmdMoves
  <2>3. CASE VmdActivates(r) BY <1>c, <2>3 DEF AckInv, CloudInv, VmdActivates, VmdMoves
  <2>4. CASE VmdTerminates(r) BY <1>c, <2>4 DEF AckInv, CloudInv, VmdTerminates, VmdMoves
  <2> QED BY <2>1, <2>2, <2>3, <2>4
<1>3. ProofInv' /\ AckAttested' /\ ActiveHasKeys'
    BY <1>1 DEF AckInv, ProofInv, AckAttested, ActiveHasKeys, purposes_complete, Committed
<1> QED BY <1>2, <1>3 DEF AckInv

-----------------------------------------------------------------------------
(* The initial states: nothing is acknowledged. *)
LEMMA AckInit == ASSUME Init PROVE AckInv
<1>1. disk \in {EmptyStore, LegacyRecord} BY DEF Init
<1>2. disk.fp = NoFp BY <1>1 DEF EmptyStore, LegacyRecord, NewRecord
<1>3. mem.state # "ACTIVE"
  <2>1. RestoredState(disk) # "ACTIVE" BY <1>2 DEF RestoredState
  <2> QED BY <1>1, <2>1 DEF Init, Restore, EmptyStore, LegacyRecord, NewRecord
<1>4. vol.acks = FALSE BY DEF Init, RestoreVolatile, NewVolatile
<1>5. \A r \in Rids : <<"ack", r>> \notin sent BY DEF Init
<1>6. \A r \in Rids : cloud[r] # "active" BY DEF Init
<1> QED BY <1>3, <1>4, <1>5, <1>6
    DEF Init, AckInv, ProofInv, CloudInv, AckAttested, ActiveHasKeys

(* Every step preserves the invariant. *)
LEMMA AckNext == ASSUME TypeInv, AckInv, [Next]_vars PROVE AckInv'
<1>1. CASE Ticks BY <1>1, QuietTicks, AckQuiet DEF Ticks
<1>2. CASE Steps
    BY <1>2, QuietSteps, AckQuiet, Ack_sends, Ack_do_ack, Ack_gains,
       Ack_do_check_active, Ack_imports, Ack_create_new_attempt DEF Steps
<1>3. CASE Downlinks BY <1>3, QuietEvents, AckQuiet, Ack_confirmed DEF Downlinks
<1>4. CASE Environment
    BY <1>4, QuietEvents, AckQuiet, Ack_imports, Ack_vmd DEF Environment
<1>5. CASE Crash BY <1>5, Ack_Crash
<1>6. CASE UNCHANGED vars
    BY <1>6 DEF vars, AckInv, ProofInv, CloudInv, AckAttested, ActiveHasKeys,
                purposes_complete, Committed
<1> QED BY <1>1, <1>2, <1>3, <1>4, <1>5, <1>6 DEF Next

(* The inductive invariant holds in every reachable state. *)
THEOREM AckInvariance == Spec => []AckInv
<1>1. Init => AckInv BY AckInit
<1>2. TypeInv /\ AckInv /\ [Next]_vars => AckInv' BY AckNext
<1> QED BY <1>1, <1>2, TypeInvariance, PTL DEF Spec

(* do_ack_locked never acknowledges to VMD a batch SEC has not committed,   *)
(* over any number of restarts, retries, replays, timeouts and successors.  *)
THEOREM AckSafety == Spec => []AckAttested
<1>1. AckInv => AckAttested BY DEF AckInv
<1> QED BY <1>1, AckInvariance, PTL

(* Whatever path leads to ACTIVE (the local check, an AckResult, a          *)
(* StatusResponse), SEC then holds a complete set of business keys.         *)
THEOREM ActiveSafety == Spec => []ActiveHasKeys
<1>1. AckInv => ActiveHasKeys BY DEF AckInv
<1> QED BY <1>1, AckInvariance, PTL

-----------------------------------------------------------------------------
(* The ACK is not skipped.  ActiveImpliesAckSent is about the time before    *)
(* the first ACK, so its invariant is too.  An import SEC has committed then *)
(* has one place to be: on the way from IMPORTING to the ACK, in memory and  *)
(* in the store, so that a restart resumes the way where it was left.        *)
(*                                                                           *)
(* The way is only this narrow while the vehicle's own side works.  A lost   *)
(* session, a rejected publish or an error of SEC between the import and the *)
(* ACK each leave it with tried_ in memory as the only trace, which a        *)
(* restart forgets; a lease that runs out, or no ACK budget, closes it; and  *)
(* a legacy record is not on it at all.  What VMD does is left open: it may  *)
(* refuse, terminate or conflict at any time.                                *)
LossFree ==
    /\ Faults \cap {"link", "publish", "sec"} = {}
    /\ "lease" \notin Timers /\ "legacy" \notin StartRecords
    /\ AckLimit # 0

NotAcknowledged == \A r \in Rids : <<"ack", r>> \notin sent

Undisturbed ==
    /\ link /\ clk.age = 0
    /\ \A r \in Rids : sec[r] \in {"none", "committed"}

(* No ACK has been charged or is waited for. *)
NoAckYet ==
    /\ mem.ack = 0 /\ disk.ack = 0 /\ ~vol.ackSent /\ ~vol.burnt
    /\ pc # "acked" /\ mem.state # "ACTIVE"

(* An attempt with an id has a snapshot, and only such an attempt is         *)
(* imported or acknowledged.                                                 *)
Identified ==
    /\ mem.saved /\ (mem.rid # NoId => mem.fp # NoFp)
    /\ \/ pc \in {"import", "imported", "ack", "sec"}
       \/ mem.state \in {"IMPORTING", "ACK_PENDING"}
       => mem.rid # NoId

(* The store says IMPORTING as long as memory does, which is from the        *)
(* Response to the result of the import.                                     *)
Importing ==
    /\ mem.state = "IMPORTING" =>
          disk.saved /\ disk.state = "IMPORTING" /\ pc \in {"idle", "import", "imported"}
    /\ pc \in {"import", "imported"} => mem.state = "IMPORTING"
    /\ pc \in {"import", "check"} => vol.identity

OnTheWay ==
    /\ mem.rid # NoId /\ sec[mem.rid] = "committed" /\ disk.saved
    /\ \/ mem.state = "IMPORTING" /\ (pc = "imported" => reg = "COMMITTED" /\ vol.identity)
       \/ /\ disk.state = "ACK_PENDING"
          /\ \/ mem.state = "ACK_PENDING" /\ pc = "ack" /\ vol.identity
             \/ mem.state = "WAIT_CLOUD" /\ pc = "idle" /\ vol.recAck
             \/ mem.state = "CHECKING" /\ pc = "check" /\ vol.recAck

BeforeAck ==
    /\ Undisturbed /\ NoAckYet /\ Identified /\ Importing
    /\ purposes_complete => OnTheWay

WayInv == NotAcknowledged => BeforeAck

(* What these hypotheses rule out: nothing fails, nothing expires, and VMD   *)
(* answers no ACK.                                                           *)
LEMMA RuledOut ==
    ASSUME LossFree, TypeInv, AckInv, NotAcknowledged, BeforeAck,
           \/ TickNoCloud \/ TickNoSec \/ do_check_sec_error \/ do_request_rejected
           \/ do_import_lease_too_short \/ do_import_unsupported
           \/ do_ack_wait \/ do_ack_exhausted \/ do_ack_status \/ do_ack_rejected
           \/ do_ack_sent \/ sec_committed \/ sec_committed_incomplete
           \/ sec_not_found_weak
           \/ send_status_request_rejected \/ ResponseTooLate
           \/ AckConfirmed \/ AckRefused \/ AckConflict
           \/ ReadinessLost \/ ReadinessReturns
           \/ \E r \in Rids : SecResolves(r)
    PROVE  FALSE
<1>r. mem.rid # NoId => mem.rid \in Rids BY DEF TypeInv, TypeOK, Record
<1>b. ~Blame("link") /\ ~Blame("publish") /\ ~Blame("sec")
    BY DEF LossFree
<1>l. link /\ clk.age = 0 BY DEF BeforeAck, Undisturbed
<1>a. mem.ack = 0 /\ ~vol.ackSent /\ ~vol.burnt /\ pc # "acked" BY DEF BeforeAck, NoAckYet
<1>1. CASE TickNoCloud \/ ReadinessLost \/ ReadinessReturns
    BY <1>l, <1>b, <1>1 DEF TickNoCloud, ReadinessLost, ReadinessReturns
<1>2. CASE \/ TickNoSec \/ do_check_sec_error \/ do_import_unsupported
           \/ sec_committed_incomplete \/ sec_not_found_weak
    BY <1>b, <1>2
    DEF TickNoSec, do_check_sec_error, do_import_unsupported,
        sec_committed_incomplete, sec_not_found_weak
<1>3. CASE do_request_rejected \/ do_ack_rejected \/ send_status_request_rejected
    BY <1>b, <1>3
    DEF do_request_rejected, do_ack_rejected, send_status_request_rejected,
        publish_rejected
<1>4. CASE AckRefused \/ AckConflict
    BY <1>r, <1>4 DEF AckRefused, AckConflict, Downlink, NotAcknowledged
<1>5. CASE do_import_lease_too_short \/ ResponseTooLate
    BY <1>l, <1>5
    DEF do_import_lease_too_short, ResponseTooLate, lease_acceptable, LossFree
<1>6. CASE do_ack_wait \/ do_ack_status \/ do_ack_sent
    BY <1>a, <1>6 DEF do_ack_wait, do_ack_status, do_ack_sent, ack_waiting, ack_asks_status
<1>7. CASE do_ack_exhausted
  <2>1. ack_ok BY <1>a, <1>l, LimitsAssumption DEF ack_ok, AfterD, LossFree
  <2> QED BY <1>l, <1>7, <2>1 DEF do_ack_exhausted, AfterD
<1>8. CASE sec_committed
  <2>1. mem.rid \in Rids BY <1>r, <1>8 DEF sec_committed, BeforeAck, Identified
  <2>2. purposes_complete BY <1>8, <2>1 DEF sec_committed, purposes_complete, Committed
  <2>3. OnTheWay BY <2>2 DEF BeforeAck
  <2>4. mem.state # "IMPORTING" BY <1>8 DEF sec_committed, BeforeAck, Importing
  <2> QED BY <1>8, <2>3, <2>4 DEF sec_committed, OnTheWay
<1>9. CASE AckConfirmed
  <2>1. mem.rid \in Rids /\ cloud[mem.rid] = "active"
      BY <1>r, <1>9 DEF AckConfirmed, Downlink
  <2> QED BY <2>1 DEF AckInv, CloudInv, NotAcknowledged
<1>10. CASE \E r \in Rids : SecResolves(r)
    BY <1>10 DEF SecResolves, BeforeAck, Undisturbed
<1> QED BY <1>1, <1>2, <1>3, <1>4, <1>5, <1>6, <1>7, <1>8, <1>9, <1>10

(* Steps that are possible only off the way.  They gain no import and charge *)
(* no ACK.                                                                   *)
Detour ==
    /\ ~OnTheWay
    /\ UNCHANGED <<link, sec>> /\ clk'.age = clk.age
    /\ mem'.saved = mem.saved /\ mem'.rid = mem.rid /\ mem'.fp = mem.fp
    /\ mem'.ack = mem.ack /\ disk'.ack \in {disk.ack, mem.ack}
    /\ vol'.ackSent \in {vol.ackSent, FALSE} /\ vol'.burnt = vol.burnt
    /\ mem'.state \notin {"ACTIVE", "IMPORTING"}
    /\ pc' \notin {"check", "import", "imported", "acked"}
    /\ pc' \in {"ack", "sec"} \/ mem'.state = "ACK_PENDING" =>
          pc \in {"ack", "sec"} \/ mem.state = "ACK_PENDING" \/ mem.rid # NoId

LEMMA DetourKeeps == ASSUME BeforeAck, Detour PROVE BeforeAck'
<1>1. ~purposes_complete BY DEF BeforeAck, Detour
<1>2. ~purposes_complete' BY <1>1 DEF Detour, purposes_complete, Committed
<1>3. Undisturbed' BY DEF BeforeAck, Undisturbed, Detour
<1>4. NoAckYet' BY DEF BeforeAck, NoAckYet, Detour
<1>5. Identified' BY DEF BeforeAck, Identified, Detour
<1>6. Importing' BY DEF Importing, Detour
<1> QED BY <1>2, <1>3, <1>4, <1>5, <1>6 DEF BeforeAck

(* The place a state leaves on the way. *)
LEMMA OffTheWay ==
    ASSUME Importing,
           \/ pc \notin {"idle", "import", "imported", "ack", "check"}
           \/ pc = "idle" /\ mem.state \notin {"IMPORTING", "WAIT_CLOUD"}
           \/ pc = "ack" /\ ~vol.identity
           \/ sec[mem.rid] # "committed"
    PROVE  ~OnTheWay
BY DEF Importing, OnTheWay

(* What the members in memory keep of the start of a tick. *)
LEMMA TickVolKeeps ==
    ASSUME vol \in Volatile
    PROVE  /\ TickVol \in Volatile /\ TickVol.identity
           /\ TickVol.ackSent = vol.ackSent /\ TickVol.burnt = vol.burnt
           /\ TickVol.recAck = vol.recAck
<1>1. refresh_sec_readiness(vol) \in Volatile BY RefreshedType
<1>2. /\ refresh_sec_readiness(vol).ackSent = vol.ackSent
      /\ refresh_sec_readiness(vol).burnt = vol.burnt
      /\ refresh_sec_readiness(vol).recAck = vol.recAck
    BY DEF refresh_sec_readiness, Volatile
<1> QED BY <1>1, <1>2 DEF TickVol, Volatile

(* The handlers that reconcile, request or wait for a Response are all off   *)
(* the way.                                                                  *)
LEMMA DetourTicks ==
    ASSUME TypeInv, BeforeAck, TickCall \/ on_response_timeout \/ TickAwait
    PROVE  Detour
<1>t. mem \in Record /\ vol \in Volatile BY DEF TypeInv, TypeOK
<1>v. TickVol \in Volatile /\ TickVol.ackSent = vol.ackSent /\ TickVol.burnt = vol.burnt
    BY <1>t, TickVolKeeps
<1>i. Importing /\ mem.state # "ACTIVE" BY DEF BeforeAck, NoAckYet
<1>w. ~OnTheWay
    BY <1>i, OffTheWay, Zenon
    DEF TickCall, on_response_timeout, TickAwait, Tick, ReconcileStates, AwaitStates
<1>1. CASE TickCall
    BY <1>i, <1>w, <1>v, <1>1 DEF Detour, TickCall, Tick, ReconcileStates
<1>2. CASE on_response_timeout
  <2>1. /\ mem'.saved = mem.saved /\ mem'.rid = mem.rid /\ mem'.fp = mem.fp
        /\ mem'.ack = mem.ack /\ mem'.state \in {"RETRY_WAIT", "RECONCILE_OLD_ATTEMPT"}
        /\ disk' = mem' /\ pc' = "idle"
      BY <1>t, <1>2 DEF on_response_timeout, Record
  <2>2. vol'.ackSent = vol.ackSent /\ vol'.burnt = vol.burnt
      BY <1>v, <1>2 DEF on_response_timeout, Volatile
  <2> QED BY <1>w, <1>2, <2>1, <2>2 DEF Detour, on_response_timeout
<1>3. CASE TickAwait
  <2>1. /\ mem'.saved = mem.saved /\ mem'.rid = mem.rid /\ mem'.fp = mem.fp
        /\ mem'.ack = mem.ack /\ disk'.ack \in {disk.ack, mem.ack}
        /\ mem'.state \in {"REQUESTING", mem.state}
    <3>1. CASE maybe_freshen(TickVol)
        BY <1>t, <1>3, <3>1 DEF maybe_freshen, Record
    <3>2. CASE ~maybe_freshen(TickVol)
        BY <1>3, <3>2 DEF TickAwait, status_timeout
    <3> QED BY <3>1, <3>2
  <2>2. vol'.ackSent = vol.ackSent /\ vol'.burnt = vol.burnt
      BY <1>v, <1>3 DEF TickAwait, maybe_freshen, status_timeout, Volatile
  <2>3. pc' \in {"idle", "request", "status"} /\ UNCHANGED <<link, sec, clk>>
      BY <1>3 DEF TickAwait, maybe_freshen, status_timeout
  <2> QED BY <1>w, <1>3, <2>1, <2>2, <2>3 DEF Detour, TickAwait, AwaitStates
<1> QED BY <1>1, <1>2, <1>3

(* The check that finds no keys, and the Request. *)
LEMMA DetourRequests ==
    ASSUME TypeInv, BeforeAck,
           \/ do_check_incomplete \/ build_candidate_fails
           \/ create_new_attempt_refused \/ do_request_blocked \/ do_request
           \/ do_request_sent
    PROVE  Detour
<1>t. mem \in Record /\ vol \in Volatile BY DEF TypeInv, TypeOK
<1>i. Importing /\ mem.state # "ACTIVE" BY DEF BeforeAck, NoAckYet
<1>w. ~OnTheWay
  <2>1. CASE do_check_incomplete
    <3>1. mem.rid # NoId => sec[mem.rid] # "committed"
        BY <1>t, <2>1 DEF do_check_incomplete, purposes_complete, Committed, Record
    <3> QED BY <3>1 DEF OnTheWay
  <2>2. CASE ~do_check_incomplete
    <3>1. pc \in {"create", "request", "requested"}
        BY <2>2
        DEF build_candidate_fails, create_new_attempt_refused, do_request_blocked,
            do_request, do_request_admitted, do_request_sent
    <3> QED BY <1>i, <3>1, OffTheWay
  <2> QED BY <2>1, <2>2
<1>s. mem.state # "IMPORTING"
    BY <1>i
    DEF Importing, do_check_incomplete, build_candidate_fails,
        create_new_attempt_refused, do_request_blocked, do_request,
        do_request_admitted, do_request_sent
<1>1. CASE do_check_incomplete
  <2>1. /\ mem'.saved = mem.saved /\ mem'.rid = mem.rid /\ mem'.fp = mem.fp
        /\ mem'.ack = mem.ack /\ disk' \in {disk, mem'}
        /\ \/ mem'.state \in {"RECONCILE_OLD_ATTEMPT", "REQUESTING"}
           \/ mem'.state = mem.state /\ pc' = "create"
      BY <1>t, <1>1 DEF do_check_incomplete, Record
  <2>2. vol'.ackSent = vol.ackSent /\ vol'.burnt = vol.burnt
      BY <1>t, <1>1 DEF do_check_incomplete, Volatile
  <2>3. pc' \in {"idle", "create", "request"} /\ UNCHANGED <<link, sec, clk>>
      BY <1>1 DEF do_check_incomplete
  <2> QED BY <1>i, <1>s, <1>w, <2>1, <2>2, <2>3 DEF Detour
<1>2. CASE build_candidate_fails
    BY <1>t, <1>w, <1>2 DEF Detour, build_candidate_fails, Record
<1>3. CASE create_new_attempt_refused
    BY <1>t, <1>w, <1>3 DEF Detour, create_new_attempt_refused, Record
<1>4. CASE do_request_blocked
    BY <1>t, <1>w, <1>4 DEF Detour, do_request_blocked, Record, Volatile
<1>5. CASE do_request
    BY <1>i, <1>w, <1>s, <1>5 DEF Detour, do_request, do_request_admitted
<1>6. CASE do_request_sent
    BY <1>t, <1>w, <1>6 DEF Detour, do_request_sent, Record, Volatile
<1> QED BY <1>1, <1>2, <1>3, <1>4, <1>5, <1>6

(* An import that is not committed, and an ACK without a proof or an         *)
(* identity.                                                                 *)
LEMMA DetourAcks ==
    ASSUME LossFree, TypeInv, BeforeAck,
           handle_import_other \/ do_ack_proof_unavailable \/ do_ack_encode_fails
    PROVE  Detour
<1>t. mem \in Record /\ vol \in Volatile BY DEF TypeInv, TypeOK
<1>i. Importing /\ ~vol.ackSent BY DEF BeforeAck, NoAckYet
<1>1. CASE handle_import_other
  <2>1. ~OnTheWay BY <1>i, <1>1 DEF handle_import_other, Importing, OnTheWay
  <2>2. /\ mem'.saved = mem.saved /\ mem'.rid = mem.rid /\ mem'.fp = mem.fp
        /\ mem'.ack = mem.ack /\ disk' = mem' /\ pc' = "idle"
        /\ mem'.state \in {"BLOCKED", "RECONCILE_EVIDENCE", "RETRY_WAIT"}
      BY <1>t, <1>1 DEF handle_import_other, Record
  <2>3. vol'.ackSent = vol.ackSent /\ vol'.burnt = vol.burnt
      BY <1>t, <1>1 DEF handle_import_other, Volatile
  <2> QED BY <1>1, <2>1, <2>2, <2>3 DEF Detour, handle_import_other
<1>2. CASE do_ack_proof_unavailable
  <2>1. sec[mem.rid] # "committed" BY <1>2 DEF do_ack_proof_unavailable, LossFree
  <2>2. ~OnTheWay BY <1>i, <2>1, OffTheWay
  <2> QED BY <1>t, <1>2, <2>2 DEF Detour, do_ack_proof_unavailable, Record
<1>3. CASE do_ack_encode_fails
  <2>1. ~OnTheWay
      BY <1>i, <1>3, OffTheWay DEF do_ack_encode_fails, do_ack_admitted
  <2>2. Settle("RETRY_WAIT", vol)
      BY <1>i, <1>3 DEF do_ack_encode_fails, ack_asks_status
  <2> QED BY <1>t, <1>3, <2>1, <2>2 DEF Detour, do_ack_encode_fails, Record
<1> QED BY <1>1, <1>2, <1>3

(* The reconciliation, from the SEC journal to the successor. *)
LEMMA DetourReconciles ==
    ASSUME TypeInv, BeforeAck,
           \/ sec_not_found_proven \/ sec_not_found_hard \/ sec_not_found_observe
           \/ enter_hard_blocked \/ sec_contrary
           \/ do_reconcile_cached \/ do_reconcile_status \/ handle_reconcile_status
           \/ apply_cloud_matrix \/ supersede_remote_exhausted \/ supersede_remote_once
           \/ send_status_request_skipped \/ send_status_request
    PROVE  Detour
<1>t. mem \in Record /\ vol \in Volatile BY DEF TypeInv, TypeOK
<1>p. pc \in {"sec", "remote", "matrix", "supersede", "status"}
    BY DEF sec_not_found_proven, sec_not_found_hard, sec_not_found_observe,
           enter_hard_blocked, sec_contrary, do_reconcile_cached,
           do_reconcile_status, handle_reconcile_status, apply_cloud_matrix,
           supersede_remote_exhausted, supersede_remote_once,
           send_status_request_skipped, send_status_request
<1>i. /\ Importing /\ mem.state \notin {"ACTIVE", "IMPORTING"}
      /\ mem.state = "ACK_PENDING" => mem.rid # NoId
    BY <1>p DEF BeforeAck, NoAckYet, Importing, Identified
<1>w. ~OnTheWay BY <1>p, <1>i, OffTheWay
<1>1. CASE sec_not_found_proven
    BY <1>t, <1>i, <1>w, <1>1 DEF Detour, sec_not_found_proven, Record, Volatile
<1>2. CASE sec_not_found_hard
    BY <1>t, <1>i, <1>w, <1>2 DEF Detour, sec_not_found_hard, Volatile
<1>3. CASE sec_not_found_observe
    BY <1>t, <1>i, <1>w, <1>3 DEF Detour, sec_not_found_observe, Record, Volatile
<1>4. CASE enter_hard_blocked
    BY <1>t, <1>w, <1>4 DEF Detour, enter_hard_blocked, Record
<1>5. CASE sec_contrary
  <2>1. /\ mem'.saved = mem.saved /\ mem'.rid = mem.rid /\ mem'.fp = mem.fp
        /\ mem'.ack = mem.ack /\ disk' \in {disk, mem'}
        /\ mem'.state \in {mem.state, "RECONCILE_OLD_ATTEMPT"}
      BY <1>t, <1>5 DEF sec_contrary, ResetNotFound, Record
  <2>2. vol'.ackSent = vol.ackSent /\ vol'.burnt = vol.burnt
      BY <1>t, <1>5 DEF sec_contrary, Volatile
  <2>3. pc' \in {"idle", "remote"} /\ UNCHANGED <<link, sec, clk>>
      BY <1>5 DEF sec_contrary
  <2> QED BY <1>i, <1>w, <2>1, <2>2, <2>3 DEF Detour
<1>6. CASE do_reconcile_cached
  <2>1. /\ mem'.saved = mem.saved /\ mem'.rid = mem.rid /\ mem'.fp = mem.fp
        /\ mem'.ack = mem.ack /\ disk'.ack \in {disk.ack, mem.ack}
        /\ mem'.state \in {"REQUESTING", mem.state}
    <3>1. CASE maybe_freshen(vol) BY <1>t, <3>1 DEF maybe_freshen, Record
    <3>2. CASE ~maybe_freshen(vol) BY <1>6, <3>2 DEF do_reconcile_cached
    <3> QED BY <3>1, <3>2
  <2> QED BY <1>i, <1>w, <1>6, <2>1 DEF Detour, do_reconcile_cached, maybe_freshen
<1>7. CASE do_reconcile_status
    BY <1>t, <1>i, <1>w, <1>7 DEF Detour, do_reconcile_status, status_timeout, Volatile
<1>8. CASE handle_reconcile_status
  <2>1. /\ mem'.saved = mem.saved /\ mem'.rid = mem.rid /\ mem'.fp = mem.fp
        /\ mem'.ack = mem.ack /\ disk' \in {disk, mem'}
        /\ mem'.state \in {mem.state, "AWAIT_REMOTE_REPAIR", "RECONCILE_EVIDENCE"}
      BY <1>t, <1>8 DEF handle_reconcile_status, Record
  <2>2. vol'.ackSent = vol.ackSent /\ vol'.burnt = vol.burnt
      BY <1>t, <1>8 DEF handle_reconcile_status, Volatile
  <2> QED BY <1>i, <1>w, <1>8, <2>1, <2>2 DEF Detour, handle_reconcile_status
<1>9. CASE apply_cloud_matrix
  <2>1. /\ mem'.saved = mem.saved /\ mem'.rid = mem.rid /\ mem'.fp = mem.fp
        /\ mem'.ack = mem.ack /\ disk' \in {disk, mem'}
        /\ mem'.state \in {mem.state, "BLOCKED_AWAIT_CLOUD_TERMINATION",
                           "AWAIT_REMOTE_REPAIR", "RECONCILE_REMOTE"}
      BY <1>t, <1>9 DEF apply_cloud_matrix, Matrix, Record
  <2>2. UNCHANGED <<vol, link, sec, clk>> /\ pc' \in {"idle", "supersede"}
      BY <1>9 DEF apply_cloud_matrix, Matrix
  <2> QED BY <1>i, <1>w, <2>1, <2>2 DEF Detour
<1>10. CASE supersede_remote_exhausted
    BY <1>t, <1>w, <1>10 DEF Detour, supersede_remote_exhausted, Record
<1>11. CASE supersede_remote_once
    BY <1>t, <1>w, <1>11 DEF Detour, supersede_remote_once, Record, Volatile
<1>12. CASE send_status_request_skipped
    BY <1>i, <1>w, <1>12 DEF Detour, send_status_request_skipped
<1>13. CASE send_status_request
    BY <1>t, <1>i, <1>w, <1>13 DEF Detour, send_status_request, Volatile
<1> QED BY <1>1, <1>2, <1>3, <1>4, <1>5, <1>6, <1>7, <1>8, <1>9, <1>10, <1>11,
    <1>12, <1>13

(* A refused Request and a conflict: VMD may say no, but not on the way. *)
LEMMA DetourRefusals ==
    ASSUME TypeInv, BeforeAck, ResponseRefused \/ StatusConflict
    PROVE  Detour
<1>t. mem \in Record /\ vol \in Volatile BY DEF TypeInv, TypeOK
<1>i. Importing BY DEF BeforeAck
<1>1. pc = "idle" /\ mem.state \notin {"IMPORTING", "WAIT_CLOUD"}
    BY DEF ResponseRefused, StatusConflict, Downlink, ReconcileStates, AwaitStates
<1>2. ~OnTheWay BY <1>i, <1>1, OffTheWay
<1>3. PICK st \in {"RETRY_WAIT", "BLOCKED", "RECONCILE_OLD_ATTEMPT",
                   "BLOCKED_AWAIT_CLOUD_TERMINATION"},
           v \in {vol, [vol EXCEPT !.recSent = FALSE],
                  [vol EXCEPT !.deadline = "none", !.recSent = FALSE]} : Settle(st, v)
    BY Zenon DEF ResponseRefused, StatusConflict
<1>4. v.ackSent = vol.ackSent /\ v.burnt = vol.burnt BY <1>t, <1>3 DEF Volatile
<1>5. UNCHANGED <<link, sec, clk>> BY DEF ResponseRefused, StatusConflict
<1> QED BY <1>t, <1>2, <1>3, <1>4, <1>5 DEF Detour, Record

(* What VMD answers before an ACK: nothing that leads to ACTIVE. *)
LEMMA DetourAnswers ==
    ASSUME TypeInv, AckInv, NotAcknowledged, BeforeAck, NEW s \in Statuses,
           StatusWhileReconciling(s) \/ StatusWhileWaiting(s)
    PROVE  Detour
<1>t. mem \in Record /\ vol \in Volatile BY DEF TypeInv, TypeOK
<1>i. Importing BY DEF BeforeAck
<1>1. CASE StatusWhileReconciling(s)
  <2>1. mem.rid # NoId /\ mem.state \notin {"ACTIVE", "IMPORTING", "WAIT_CLOUD"}
      BY <1>1 DEF StatusWhileReconciling, Downlink, ReconcileStates, AwaitStates
  <2>2. ~OnTheWay BY <1>i, <1>1, <2>1, OffTheWay DEF StatusWhileReconciling, Downlink
  <2> QED BY <1>t, <1>1, <2>1, <2>2 DEF Detour, StatusWhileReconciling, Volatile
<1>2. CASE StatusWhileWaiting(s)
  <2>1. ~OnTheWay BY <1>i, <1>2, OffTheWay DEF StatusWhileWaiting, Downlink
  <2>2. s # "ACTIVE"
    <3>1. mem.rid \in Rids BY <1>t, <1>2 DEF StatusWhileWaiting, Downlink, Record
    <3> QED BY <1>2, <3>1 DEF StatusWhileWaiting, AckInv, CloudInv, NotAcknowledged
  <2>3. Settle("RETRY_WAIT", vol) BY <1>2, <2>2 DEF StatusWhileWaiting
  <2> QED BY <1>t, <1>2, <2>1, <2>3 DEF Detour, StatusWhileWaiting, Record
<1> QED BY <1>1, <1>2

(* Steps that leave an import where it is on the way: ticks that wait, the   *)
(* timers, and VMD.                                                          *)
Stays ==
    /\ UNCHANGED <<disk, pc, reg, link, sec>> /\ clk'.age = clk.age
    /\ mem'.saved = mem.saved /\ mem'.rid = mem.rid /\ mem'.fp = mem.fp
    /\ mem'.ack = mem.ack
    /\ \/ mem'.state = mem.state
       \/ mem.state = "REQUESTING" /\ mem'.state = "WAIT_CLOUD"
    /\ vol'.ackSent = vol.ackSent /\ vol'.burnt = vol.burnt
    /\ vol'.recAck = vol.recAck /\ (vol.identity => vol'.identity)

LEMMA StaysKeeps == ASSUME BeforeAck, Stays PROVE BeforeAck'
<1>1. purposes_complete' <=> purposes_complete
    BY DEF Stays, purposes_complete, Committed
<1>2. Undisturbed' /\ NoAckYet' BY DEF BeforeAck, Undisturbed, NoAckYet, Stays
<1>3. Identified' BY DEF BeforeAck, Identified, Stays
<1>4. Importing' BY DEF BeforeAck, Importing, Stays
<1>5. OnTheWay => OnTheWay' BY DEF OnTheWay, Stays
<1> QED BY <1>1, <1>2, <1>3, <1>4, <1>5 DEF BeforeAck

LEMMA StayingSteps ==
    ASSUME LossFree, TypeInv,
           \/ TickClockNotSynced \/ TickWaits \/ DeadlinePasses \/ WindowElapses
           \/ TimePasses \/ InputChanges \/ ReadinessRepeated \/ ClockSync
           \/ \E r \in Rids : VmdIssues(r) \/ VmdActivates(r) \/ VmdTerminates(r)
           \/ \E r \in Rids, s \in Statuses : VmdAnswers(r, s)
    PROVE  Stays
<1>t. mem \in Record /\ vol \in Volatile /\ clk \in Clocks BY DEF TypeInv, TypeOK
<1>v. /\ TickVol.ackSent = vol.ackSent /\ TickVol.burnt = vol.burnt
      /\ TickVol.recAck = vol.recAck /\ TickVol.identity
    BY <1>t, TickVolKeeps
<1>1. CASE TickClockNotSynced
    BY <1>t, <1>v, <1>1 DEF Stays, TickClockNotSynced, Record
<1>2. CASE TickWaits BY <1>v, <1>2 DEF Stays, TickWaits
<1>3. CASE DeadlinePasses \/ WindowElapses
    BY <1>t, <1>3 DEF Stays, DeadlinePasses, WindowElapses, Volatile
<1>4. CASE TimePasses BY <1>t, <1>4 DEF Stays, TimePasses, LossFree, Clocks
<1>5. CASE InputChanges BY <1>5 DEF Stays, InputChanges
<1>6. CASE \/ \E r \in Rids : VmdIssues(r) \/ VmdActivates(r) \/ VmdTerminates(r)
           \/ \E r \in Rids, s \in Statuses : VmdAnswers(r, s)
    BY <1>6 DEF Stays, VmdIssues, VmdActivates, VmdTerminates, VmdAnswers, VmdMoves
<1>7. CASE ReadinessRepeated
    BY <1>t, <1>7 DEF Stays, ReadinessRepeated, ReadinessEvent, Volatile
<1>8. CASE ClockSync BY <1>t, <1>8 DEF Stays, ClockSync, Clocks
<1> QED BY <1>1, <1>2, <1>3, <1>4, <1>5, <1>6, <1>7, <1>8

(* A Response puts an attempt on the way, before SEC knows of it. *)
LEMMA Way_ResponseAccepted ==
    ASSUME TypeInv, BeforeAck, NEW leased \in BOOLEAN, ResponseAccepted(leased)
    PROVE  BeforeAck'
<1>t. mem \in Record /\ vol \in Volatile /\ clk \in Clocks BY DEF TypeInv, TypeOK
<1>i. Importing BY DEF BeforeAck
<1>1. /\ mem'.saved = mem.saved /\ mem'.rid = mem.rid /\ mem'.fp = mem.fp
      /\ mem'.ack = mem.ack /\ mem'.state = "IMPORTING" /\ disk' = mem'
    BY <1>t DEF ResponseAccepted, Record
<1>2. vol'.ackSent = vol.ackSent /\ vol'.burnt \in {vol.burnt, FALSE}
    BY <1>t DEF ResponseAccepted, Volatile
<1>3. clk'.age \in {clk.age, 0} BY <1>t DEF ResponseAccepted, Clocks
<1>4. pc = "idle" /\ pc' = "idle" /\ mem.rid # NoId /\ UNCHANGED <<link, sec>>
    BY DEF ResponseAccepted, Downlink
<1>5. ~OnTheWay BY <1>i, OffTheWay DEF ResponseAccepted, Downlink
<1>6. ~purposes_complete' BY <1>4, <1>5 DEF BeforeAck, purposes_complete, Committed
<1>7. Undisturbed' /\ NoAckYet'
    BY <1>1, <1>2, <1>3, <1>4 DEF BeforeAck, Undisturbed, NoAckYet
<1>8. Identified' /\ Importing' BY <1>1, <1>4 DEF BeforeAck, Identified, Importing
<1> QED BY <1>6, <1>7, <1>8 DEF BeforeAck

(* do_import_locked: the bundle is in memory or it is not.  Without it SEC   *)
(* can only repeat what it has committed before.                             *)
LEMMA Way_do_import == ASSUME TypeInv, BeforeAck, do_import PROVE BeforeAck'
<1>t. mem \in Record /\ vol \in Volatile BY DEF TypeInv, TypeOK
<1>i. Importing /\ Identified BY DEF BeforeAck
<1>v. /\ TickVol.ackSent = vol.ackSent /\ TickVol.burnt = vol.burnt
      /\ TickVol.recAck = vol.recAck /\ TickVol.identity
    BY <1>t, TickVolKeeps
<1>1. /\ mem'.saved = mem.saved /\ mem'.rid = mem.rid /\ mem'.fp = mem.fp
      /\ mem'.ack = mem.ack /\ mem'.state = "IMPORTING" /\ mem.state = "IMPORTING"
      /\ disk' \in {disk, mem'}
    BY <1>t DEF do_import, Record
<1>2. vol' = TickVol /\ pc' = "import" /\ UNCHANGED <<link, sec, clk>> BY DEF do_import
<1>3. Undisturbed' /\ NoAckYet'
    BY <1>1, <1>2, <1>v DEF BeforeAck, Undisturbed, NoAckYet
<1>4. Identified' BY <1>1, <1>2, <1>i DEF Identified
<1>5. disk'.saved /\ disk'.state = "IMPORTING" BY <1>1, <1>i DEF Importing, Identified
<1>6. Importing' BY <1>1, <1>2, <1>5, <1>v DEF Importing
<1>7. OnTheWay => OnTheWay' BY <1>1, <1>2, <1>5 DEF OnTheWay
<1>8. purposes_complete' <=> purposes_complete
    BY <1>2 DEF purposes_complete, Committed
<1> QED BY <1>3, <1>4, <1>6, <1>7, <1>8 DEF BeforeAck

LEMMA Way_do_import_call ==
    ASSUME LossFree, TypeInv, BeforeAck, do_import_call
    PROVE  BeforeAck'
<1>t. mem \in Record /\ vol \in Volatile /\ sec \in [Rids -> Entries]
    BY DEF TypeInv, TypeOK
<1>p. pc = "import" BY DEF do_import_call
<1>i. mem.state = "IMPORTING" /\ disk.saved /\ disk.state = "IMPORTING" /\ vol.identity
    BY <1>p DEF BeforeAck, Importing
<1>r. mem.rid \in Rids BY <1>t, <1>p DEF BeforeAck, Identified, Record
<1>1. PICK result \in ImportResults, entry \in Entries :
         /\ SecImport(mem.rid, result, entry)
         /\ sec' = [sec EXCEPT ![mem.rid] = entry] /\ reg' = result
    BY DEF do_import_call
<1>2. \/ result = "COMMITTED" /\ entry = "committed"
      \/ sec[mem.rid] # "committed" /\ entry = sec[mem.rid]
    BY <1>1 DEF SecImport, LossFree
<1>3. /\ vol'.ackSent = vol.ackSent /\ vol'.burnt = vol.burnt
      /\ vol'.identity = vol.identity
    BY <1>t DEF do_import_call, Volatile
<1>4. pc' = "imported" /\ UNCHANGED <<mem, disk, link, clk>> BY DEF do_import_call
<1>5. Undisturbed'
    BY <1>t, <1>1, <1>2, <1>4, <1>r DEF BeforeAck, Undisturbed
<1>6. NoAckYet' BY <1>3, <1>4 DEF BeforeAck, NoAckYet
<1>7. Identified' BY <1>4, <1>p DEF BeforeAck, Identified
<1>8. Importing' BY <1>4, <1>i DEF Importing
<1>9. ASSUME purposes_complete' PROVE OnTheWay'
  <2>1. CASE entry = "committed" /\ result = "COMMITTED"
    <3>1. sec'[mem'.rid] = "committed" /\ mem'.rid # NoId
        BY <1>t, <1>1, <1>4, <1>r, <2>1 DEF Rids
    <3>2. vol'.identity /\ reg' = "COMMITTED" BY <1>1, <1>3, <1>i, <2>1
    <3>3. mem'.state = "IMPORTING" /\ disk'.saved BY <1>4, <1>i
    <3> QED BY <3>1, <3>2, <3>3 DEF OnTheWay
  <2>2. CASE sec[mem.rid] # "committed" /\ entry = sec[mem.rid]
    <3>1. sec' = sec BY <1>t, <1>1, <1>r, <2>2
    <3>2. purposes_complete BY <1>9, <3>1 DEF purposes_complete, Committed
    <3> QED BY <2>2, <3>2 DEF BeforeAck, OnTheWay
  <2> QED BY <1>2, <2>1, <2>2
<1> QED BY <1>5, <1>6, <1>7, <1>8, <1>9 DEF BeforeAck

(* The result of the import, and recovering_ack_ after a restart, lead to    *)
(* do_ack_locked in the same handler.                                        *)
LEMMA Way_to_ack ==
    ASSUME TypeInv, BeforeAck,
           handle_import_committed \/ do_check_active \/ do_ack_proof
    PROVE  BeforeAck'
<1>t. mem \in Record /\ vol \in Volatile BY DEF TypeInv, TypeOK
<1>i. Importing /\ Identified BY DEF BeforeAck
<1>u. UNCHANGED <<link, sec, clk>>
    BY DEF handle_import_committed, do_check_active, do_ack_proof
<1>d. do_check_active => OnTheWay /\ vol.recAck /\ vol.identity
  <2> SUFFICES ASSUME do_check_active PROVE OnTheWay /\ vol.recAck /\ vol.identity
      OBVIOUS
  <2>1. pc = "check" /\ purposes_complete BY DEF do_check_active
  <2>2. OnTheWay BY <2>1 DEF BeforeAck
  <2>3. mem.state # "IMPORTING" BY <2>1, <1>i DEF Importing
  <2> QED BY <2>1, <2>2, <2>3, <1>i DEF OnTheWay, Importing
<1>n. mem.rid # NoId
    BY <1>d, <1>i DEF OnTheWay, Identified, handle_import_committed, do_ack_proof
<1>1. /\ mem'.saved = mem.saved /\ mem'.rid = mem.rid /\ mem'.fp = mem.fp
      /\ mem'.ack = mem.ack
      /\ \/ mem'.state = "ACK_PENDING" /\ disk' = mem'
         \/ pc = "ack" /\ UNCHANGED <<mem, disk>>
    BY <1>t, <1>d DEF handle_import_committed, do_check_active, do_ack_proof, Record
<1>2. /\ vol'.ackSent \in {vol.ackSent, FALSE} /\ vol'.burnt = vol.burnt
      /\ vol'.identity = vol.identity
    BY <1>t, <1>d DEF handle_import_committed, do_check_active, do_ack_proof, Volatile
<1>3. pc' = "ack" BY <1>d DEF handle_import_committed, do_check_active, do_ack_proof
<1>4. Undisturbed' /\ NoAckYet'
    BY <1>1, <1>2, <1>3, <1>u DEF BeforeAck, Undisturbed, NoAckYet
<1>5. Identified' BY <1>1, <1>3, <1>i, <1>n DEF Identified
<1>6. Importing' BY <1>1, <1>3, <1>i DEF Importing
<1>7. ASSUME OnTheWay PROVE OnTheWay'
  <2>1. vol.identity
      BY <1>7, <1>d, <1>i DEF OnTheWay, handle_import_committed, do_ack_proof, Importing
  <2>2. disk'.state = "ACK_PENDING" /\ mem'.state = "ACK_PENDING" /\ disk'.saved
      BY <1>1, <1>7, <1>i DEF OnTheWay, Importing, Identified
  <2> QED BY <1>1, <1>2, <1>3, <1>7, <1>u, <2>1, <2>2 DEF OnTheWay
<1>8. purposes_complete' <=> purposes_complete BY <1>u DEF purposes_complete, Committed
<1> QED BY <1>4, <1>5, <1>6, <1>7, <1>8 DEF BeforeAck

(* Messages are never taken back. *)
LEMMA SentGrows == ASSUME TypeInv, [Next]_vars PROVE sent \subseteq sent'
<1>1. CASE Ticks BY <1>1, QuietTicks DEF Ticks, KeepsProof
<1>2. CASE Steps
  <2>1. CASE do_request \/ do_ack_status \/ do_ack \/ send_status_request
      BY <2>1 DEF do_request, do_ack_status, do_ack, send_status_request
  <2>2. CASE \/ do_check_active \/ create_new_attempt \/ do_import_call
             \/ handle_import_committed \/ do_ack_proof \/ sec_committed
             \/ sec_committed_incomplete
      BY <2>2
      DEF do_check_active, create_new_attempt, do_import_call,
          handle_import_committed, do_ack_proof, sec_committed, sec_committed_incomplete
  <2> QED BY <1>2, <2>1, <2>2, QuietSteps DEF Steps, KeepsProof
<1>3. CASE Downlinks
  <2>1. CASE AckConfirmed \/ \E s \in Statuses : StatusWhileWaiting(s)
      BY <2>1 DEF AckConfirmed, StatusWhileWaiting
  <2> QED BY <1>3, <2>1, QuietEvents DEF Downlinks, KeepsProof
<1>4. CASE Environment
  <2>1. CASE \E r \in Rids : SecResolves(r) \/ VmdIssues(r) \/ VmdActivates(r) \/ VmdTerminates(r)
      BY <2>1 DEF SecResolves, VmdIssues, VmdActivates, VmdTerminates, VmdMoves
  <2>2. CASE \E r \in Rids, s \in Statuses : VmdAnswers(r, s)
      BY <2>2 DEF VmdAnswers
  <2> QED BY <1>4, <2>1, <2>2, QuietEvents DEF Environment, KeepsProof
<1>5. CASE Crash BY <1>5 DEF Crash
<1>6. CASE UNCHANGED vars BY <1>6 DEF vars
<1> QED BY <1>1, <1>2, <1>3, <1>4, <1>5, <1>6 DEF Next

(* A new attempt is created off the way, and starts from nothing. *)
LEMMA Way_create_new_attempt ==
    ASSUME TypeInv, BeforeAck, create_new_attempt
    PROVE  BeforeAck'
<1>t. mem \in Record /\ vol \in Volatile /\ clk \in Clocks /\ Candidate # NoFp
    BY CandidateType DEF TypeInv, TypeOK
<1>1. /\ mem'.saved /\ mem'.fp # NoFp /\ mem'.ack = 0 /\ mem'.state = "REQUESTING"
      /\ disk' = mem' /\ pc' = "request" /\ clk'.age = 0
      /\ UNCHANGED <<link, sec>>
    BY <1>t DEF create_new_attempt, NewRecord, Clocks
<1>2. ~vol'.ackSent /\ ~vol'.burnt BY <1>t DEF create_new_attempt, Volatile
<1>3. ~OnTheWay BY OffTheWay DEF create_new_attempt, BeforeAck
<1>4. ~purposes_complete' BY <1>1, <1>3 DEF BeforeAck, purposes_complete, Committed
<1>5. Undisturbed' /\ NoAckYet' BY <1>1, <1>2 DEF BeforeAck, Undisturbed, NoAckYet
<1>6. Identified' /\ Importing' BY <1>1 DEF Identified, Importing
<1> QED BY <1>4, <1>5, <1>6 DEF BeforeAck

(* The local check starts where a restart left an ACK. *)
LEMMA Way_TickCheck == ASSUME TypeInv, BeforeAck, TickCheck PROVE BeforeAck'
<1>t. mem \in Record /\ vol \in Volatile BY DEF TypeInv, TypeOK
<1>i. Importing /\ Identified BY DEF BeforeAck
<1>v. /\ TickVol \in Volatile /\ TickVol.ackSent = vol.ackSent
      /\ TickVol.burnt = vol.burnt /\ TickVol.recAck = vol.recAck /\ TickVol.identity
    BY <1>t, TickVolKeeps
<1>1. /\ mem'.saved = mem.saved /\ mem'.rid = mem.rid /\ mem'.fp = mem.fp
      /\ mem'.ack = mem.ack /\ mem'.state = "CHECKING" /\ mem.state # "IMPORTING"
    BY <1>t DEF TickCheck, Record
<1>2. /\ vol'.ackSent = vol.ackSent /\ vol'.burnt = vol.burnt
      /\ vol'.recAck = vol.recAck /\ vol'.identity
    BY <1>v DEF TickCheck, Volatile
<1>3. pc = "idle" /\ pc' = "check" /\ UNCHANGED <<disk, link, sec, clk>>
    BY DEF TickCheck, Tick
<1>4. Undisturbed' /\ NoAckYet'
    BY <1>1, <1>2, <1>3 DEF BeforeAck, Undisturbed, NoAckYet
<1>5. Identified' /\ Importing' BY <1>1, <1>2, <1>3, <1>i DEF Identified, Importing
<1>6. OnTheWay => OnTheWay' BY <1>1, <1>2, <1>3 DEF OnTheWay
<1>7. purposes_complete' <=> purposes_complete
    BY <1>3 DEF purposes_complete, Committed
<1> QED BY <1>4, <1>5, <1>6, <1>7 DEF BeforeAck

(* initialize resumes the import, or the ACK (recovering_ack_). *)
LEMMA Way_Crash == ASSUME TypeInv, BeforeAck, Crash PROVE BeforeAck'
<1>t. disk \in Record /\ mem \in Record BY DEF TypeInv, TypeOK
<1>a. disk.rid = mem.rid /\ disk.fp = mem.fp BY DEF TypeInv, AttemptInv
<1>i. /\ Importing /\ disk.ack = 0
      /\ mem.rid # NoId => mem.fp # NoFp
      /\ mem.rid = NoId => mem.fp = NoFp
    BY DEF BeforeAck, NoAckYet, Identified, TypeInv, AttemptInv
<1>1. /\ mem'.saved /\ mem'.rid = disk.rid /\ mem'.fp = disk.fp /\ mem'.ack = disk.ack
      /\ mem'.state = RestoredState(disk)
    BY <1>t DEF Crash, Restore, Record
<1>2. /\ ~vol'.ackSent /\ ~vol'.burnt
      /\ vol'.recAck <=> disk.saved /\ disk.fp # NoFp /\ disk.state = "ACK_PENDING"
    BY DEF Crash, RestoreVolatile, NewVolatile
<1>3. pc' = "idle" /\ UNCHANGED <<disk, link, sec, clk>> BY DEF Crash
<1>4. RestoredState(disk) \notin {"ACTIVE", "ACK_PENDING"} BY DEF RestoredState
<1>5. RestoredState(disk) = "IMPORTING" =>
         disk.saved /\ disk.fp # NoFp /\ disk.state = "IMPORTING"
    BY DEF RestoredState
<1>6. Undisturbed' /\ NoAckYet'
    BY <1>1, <1>2, <1>3, <1>4, <1>i DEF BeforeAck, Undisturbed, NoAckYet
<1>7. Identified' BY <1>1, <1>3, <1>4, <1>5, <1>a, <1>i DEF Identified
<1>8. Importing' BY <1>1, <1>3, <1>5 DEF Importing
<1>9. ASSUME OnTheWay PROVE OnTheWay'
  <2>1. /\ disk.saved /\ disk.fp # NoFp /\ mem.rid # NoId
        /\ sec[mem.rid] = "committed"
        /\ disk.state \in {"IMPORTING", "ACK_PENDING"}
      BY <1>9, <1>a, <1>i DEF OnTheWay, Importing
  <2>2. CASE disk.state = "IMPORTING"
    <3>1. RestoredState(disk) = "IMPORTING" BY <2>1, <2>2 DEF RestoredState
    <3> QED BY <1>1, <1>3, <1>a, <2>1, <3>1 DEF OnTheWay
  <2>3. CASE disk.state = "ACK_PENDING"
    <3>1. RestoredState(disk) = "WAIT_CLOUD" BY <2>1, <2>3 DEF RestoredState
    <3>2. vol'.recAck BY <1>2, <2>1, <2>3
    <3> QED BY <1>1, <1>3, <1>a, <2>1, <2>3, <3>1, <3>2 DEF OnTheWay
  <2> QED BY <2>1, <2>2, <2>3
<1>10. purposes_complete' <=> purposes_complete
    BY <1>3 DEF purposes_complete, Committed
<1> QED BY <1>6, <1>7, <1>8, <1>9, <1>10 DEF BeforeAck

(* A device that starts from an empty store has imported nothing. *)
LEMMA WayInit == ASSUME LossFree, Init PROVE WayInv
<1>1. disk = EmptyStore
  <2>1. LegacyRecord.saved BY DEF LegacyRecord, NewRecord
  <2> QED BY <2>1 DEF Init, LossFree
<1>2. /\ disk.saved = FALSE /\ disk.rid = NoId /\ disk.ack = 0
      /\ disk.state = "WAIT_CLOUD"
    BY <1>1 DEF EmptyStore, NewRecord
<1>3. RestoredState(disk) = "WAIT_CLOUD" BY <1>2 DEF RestoredState
<1>4. /\ mem.saved /\ mem.rid = NoId /\ mem.ack = 0 /\ mem.state = "WAIT_CLOUD"
    BY <1>1, <1>3 DEF Init, Restore, EmptyStore, NewRecord
<1>5. ~vol.ackSent /\ ~vol.burnt BY DEF Init, RestoreVolatile, NewVolatile
<1>6. \A r \in Rids : sec[r] = "none"
    BY <1>2, LimitsAssumption DEF Init, Rids
<1>7. pc = "idle" /\ link /\ clk.age = 0 BY DEF Init
<1>8. Undisturbed /\ NoAckYet BY <1>2, <1>4, <1>5, <1>6, <1>7 DEF Undisturbed, NoAckYet
<1>9. Identified /\ Importing BY <1>4, <1>7 DEF Identified, Importing
<1>10. ~purposes_complete BY <1>6 DEF purposes_complete, Committed
<1> QED BY <1>8, <1>9, <1>10 DEF WayInv, BeforeAck

(* The first ACK ends what the invariant says; before it, every step stays   *)
(* on the way, is off it, or is ruled out.                                   *)
LEMMA WayNext ==
    ASSUME LossFree, TypeInv, AckInv, WayInv, [Next]_vars
    PROVE  WayInv'
<1> SUFFICES ASSUME NotAcknowledged' PROVE BeforeAck'
    BY DEF WayInv
<1>1. CASE NotAcknowledged
  <2>b. BeforeAck BY <1>1 DEF WayInv
  <2>1. CASE Ticks
      BY <1>1, <2>b, <2>1, RuledOut, DetourTicks, DetourKeeps, StayingSteps,
         StaysKeeps, Way_TickCheck, Way_do_import DEF Ticks
  <2>2. CASE Steps
    <3>1. CASE do_ack
      <4>1. mem.rid \in Rids
          BY <2>b, <3>1
          DEF TypeInv, TypeOK, Record, do_ack, do_ack_admitted, BeforeAck, Identified
      <4> QED BY <3>1, <4>1 DEF do_ack, NotAcknowledged
    <3>2. CASE ~do_ack
        BY <1>1, <2>b, <2>2, <3>2, RuledOut, DetourRequests, DetourAcks,
           DetourReconciles, DetourKeeps, Way_create_new_attempt,
           Way_do_import_call, Way_to_ack DEF Steps
    <3> QED BY <3>1, <3>2
  <2>3. CASE Downlinks
      BY <1>1, <2>b, <2>3, RuledOut, DetourAnswers, DetourRefusals,
         DetourKeeps, Way_ResponseAccepted DEF Downlinks
  <2>4. CASE Environment
      BY <1>1, <2>b, <2>4, RuledOut, StayingSteps, StaysKeeps DEF Environment
  <2>5. CASE Crash BY <2>b, <2>5, Way_Crash
  <2>6. CASE UNCHANGED vars
    <3>1. Stays BY <2>6 DEF vars, Stays
    <3> QED BY <2>b, <3>1, StaysKeeps
  <2> QED BY <2>1, <2>2, <2>3, <2>4, <2>5, <2>6 DEF Next
<1>2. CASE ~NotAcknowledged
  <2>1. sent \subseteq sent' BY SentGrows
  <2> QED BY <1>2, <2>1 DEF NotAcknowledged
<1> QED BY <1>1, <1>2

(* recovering_ack_ and the ACK_PENDING in the store are enough: while the    *)
(* session, the publishes and SEC work and the lease lasts, some ACK         *)
(* precedes ACTIVE however often and wherever the process is restarted,      *)
(* whatever VMD refuses, terminates or contradicts, and with a clock that is *)
(* not synced or a changed identity.                                         *)
THEOREM AckNotSkipped == LossFree => (Spec => []ActiveImpliesAckSent)
<1> SUFFICES ASSUME LossFree PROVE Spec => []ActiveImpliesAckSent
    OBVIOUS
<1>1. Init => WayInv BY WayInit
<1>2. TypeInv /\ AckInv /\ WayInv /\ [Next]_vars => WayInv' BY WayNext
<1>3. WayInv => ActiveImpliesAckSent
    BY DEF WayInv, BeforeAck, NoAckYet, NotAcknowledged, ActiveImpliesAckSent
<1> QED BY <1>1, <1>2, <1>3, TypeInvariance, AckInvariance, PTL DEF Spec

=============================================================================
