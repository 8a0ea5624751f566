-------------------------- MODULE KeyProvLifecycle --------------------------
(***************************************************************************)
(* keyprov_lifecycle.cpp: the central decision on what the device may do   *)
(* next in a provisioning attempt, a pure function of the facts about the  *)
(* clock, the SEC contract, the cloud, the SEC journal and the budgets.    *)
(*                                                                         *)
(* f is the record of the facts (KeyprovLifecycleInput).  f.U is the upper *)
(* bound of the trusted UTC time, f.E the end of the lease, f.D the last   *)
(* moment for an ACK.  f.cloud is "none" when no status was observed, and  *)
(* "NOT_FOUND" for UNSPECIFIED with the releasable error quadruple.        *)
(***************************************************************************)
EXTENDS Integers, Sequences

CONSTANT ImportMin   \* import_min_ms

MaxUncertainty == 1000
MaxSampleAge == 300000
MaxSkew == 2000

clock_healthy(c) ==
    /\ ~c.rollback_detected
    /\ c.uncertainty <= MaxUncertainty
    /\ c.sample_age <= MaxSampleAge
    /\ c.skew <= MaxSkew

lease_expired(f) == f.U >= f.E
lease_acceptable(f) == f.E - f.U >= ImportMin

expired_or_too_short(f) ==
    /\ f.payload_present
    /\ lease_expired(f) \/ ~lease_acceptable(f) \/ ~f.payload_fresh

cloud_terminal(f) == f.cloud \in {"FAILED", "NOT_FOUND"}
cloud_unspecified(f) == f.cloud \in {"UNSPECIFIED", "NOT_FOUND"}
readonly_ok(f) == f.status_budget_ok /\ f.sec_query_budget_ok

(* The rules of keyprov_lifecycle_decide, by falling priority: the guard and *)
(* the action it leads to.                                                   *)
Rules(f) == <<
    <<~f.attempt_valid \/ ~f.binding_match \/ f.terminalized, "LATE_RESPONSE">>,
    <<f.idempotency_conflict, "CONFLICT_806095">>,
    <<~clock_healthy(f.clock) \/ ~f.clock.trusted, "TIME_UNTRUSTED">>,
    <<f.sec_contract_unknown \/ ~f.contract_ready,
      IF f.cloud # "none" THEN "READONLY" ELSE "CONTRACT_UNKNOWN">>,
    <<f.sec_unknown, IF readonly_ok(f) THEN "QUERY_STATUS_OR_SEC" ELSE "BLOCKED">>,
    <<f.payload_present /\ (~f.envelope_fresh \/ ~f.payload_fresh), "REJECT">>,
    <<f.cloud = "ACTIVE" /\ f.sec_committed /\ f.purposes_complete, "ACTIVE">>,
    <<f.sec_committed /\ f.cloud = "FAILED", "BLOCKED">>,
    <<f.sec_not_found_proven /\ f.cloud = "ACTIVE", "BLOCKED">>,
    <<f.sec_committed /\ f.cloud = "ACK_PENDING",
      IF f.ack_budget_ok /\ f.U < f.D THEN "RESTORE_ORIGINAL_ACK" ELSE "READONLY">>,
    <<f.no_side_effect_proven /\ cloud_terminal(f),
      IF ~f.chain_ok THEN "BLOCKED"
      ELSE IF f.successor_preexisting THEN "RESTORE_SUCCESSOR" ELSE "SUPERSEDE_CAS">>,
    <<f.no_side_effect_proven /\ cloud_unspecified(f), "READONLY">>,
    <<expired_or_too_short(f) /\ ~f.freshen_used /\ f.cloud = "ACK_PENDING"
        /\ f.no_side_effect_proven /\ f.deliverable /\ f.request_budget_ok,
      "FRESHEN_SAME_ID">>,
    <<expired_or_too_short(f),
      IF f.freshen_used THEN "READONLY"
      ELSE IF lease_expired(f) THEN "RESPONSE_EXPIRED" ELSE "LEASE_TOO_SHORT">>,
    <<f.payload_present /\ f.payload_fresh /\ f.envelope_fresh
        /\ f.response_binding_valid /\ f.contract_ready /\ f.epoch_known
        /\ ~f.import_already /\ ~f.inflight /\ lease_acceptable(f),
      "IMPORT">>,
    <<f.transport_fault /\ f.request_budget_ok, "BOUNDED_RETRY">>,
    <<f.purposes_complete, "ACTIVE">>,
    <<f.inflight, "WAIT_READY">>,
    <<f.reconciliation_pending,
      IF readonly_ok(f) THEN "QUERY_STATUS_OR_SEC" ELSE "BLOCKED">>,
    <<f.request_budget_ok, "SEND_REQUEST">>,
    <<f.status_budget_ok \/ f.sec_query_budget_ok, "READONLY">>,
    <<TRUE, "BLOCKED">> >>

decide(f) ==
    LET R == Rules(f)
        first == CHOOSE i \in DOMAIN R : R[i][1] /\ \A j \in 1 .. (i - 1) : ~R[j][1]
    IN  R[first][2]
=============================================================================
