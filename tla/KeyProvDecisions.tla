-------------------------- MODULE KeyProvDecisions --------------------------
(***************************************************************************)
(* The coordinator against the central decision table.  The two steps that *)
(* cannot be taken back, starting a successor and spending the only        *)
(* freshen, are decided twice in the code: by the guards along             *)
(* v2c_key_provisioning_coordinator.cpp, which run, and by                 *)
(* keyprov_lifecycle_decide, which states the rules.                       *)
(***************************************************************************)
EXTENDS KeyProvisioning

Lifecycle == INSTANCE KeyProvLifecycle WITH ImportMin <- 15000

(* The end of the lease, D, and a time on each side of the comparisons that  *)
(* clk.age stands for: acceptable, too short, expired, after D.              *)
LeaseEnd == 60000
SafeDeadline == LeaseEnd + 30000 - 2000
UpperUtc == CASE clk.age = 0 -> 0
              [] clk.age = 1 -> LeaseEnd - 15000 + 1
              [] clk.age = 2 -> LeaseEnd
              [] clk.age = 3 -> SafeDeadline

(* No import under the current id can have had, or can still have, an effect. *)
NoSideEffect == mem.rid # NoId => sec[mem.rid] \in {"none", "failed"}

(* The facts of the table (KeyprovLifecycleInput).  The SEC journal, the     *)
(* clock and the ledger are as they are, whatever the coordinator believes   *)
(* of them; the contract and the cloud are observations, as the table has    *)
(* them: what SEC last answered, and what VMD last said, since v.            *)
(* Read-only budgets are never charged.                                      *)
Facts(v) ==
    [attempt_valid |-> mem.rid # NoId, binding_match |-> TRUE, terminalized |-> FALSE,
     idempotency_conflict |-> FALSE,
     clock |-> [rollback_detected |-> FALSE, uncertainty |-> 0, sample_age |-> 0,
                skew |-> 0, trusted |-> clk.synced],
     contract_ready |-> v.contract = "ready", sec_contract_unknown |-> FALSE,
     sec_unknown |-> v.unknown,
     payload_present |-> mem.lease, envelope_fresh |-> TRUE, payload_fresh |-> TRUE,
     response_binding_valid |-> TRUE, deliverable |-> TRUE,
     U |-> UpperUtc, E |-> LeaseEnd, D |-> SafeDeadline,
     cloud |-> v.cached,
     sec_committed |-> mem.rid # NoId /\ sec[mem.rid] = "committed",
     sec_not_found_proven |-> NoSideEffect, no_side_effect_proven |-> NoSideEffect,
     purposes_complete |-> purposes_complete,
     chain_ok |-> chain_ok, successor_preexisting |-> mem.succ # NoId,
     freshen_used |-> mem.fresh, request_budget_ok |-> request_ok,
     ack_budget_ok |-> ack_ok, status_budget_ok |-> TRUE, sec_query_budget_ok |-> TRUE,
     epoch_known |-> v.epoch # 0, import_already |-> v.tried,
     inflight |-> v.deadline = "running", transport_fault |-> FALSE,
     reconciliation_pending |-> mem.state \in ReconcileStates \cup AwaitStates]

(* The two rules of the table that only a tick enforces, before it reaches   *)
(* the reconciliation: a trusted clock, a contract that SEC has stated.  A   *)
(* StatusResponse goes from handle_routed_downlink through                   *)
(* handle_reconcile_status_locked and apply_cloud_matrix_locked to the       *)
(* supersede and tests neither, against rules 1 and 2 of                     *)
(* keyprov_lifecycle_decide.                                                 *)
FactsBehindGate ==
    [Facts(vol) EXCEPT !.clock.trusted = TRUE, !.contract_ready = TRUE]

Supersedes == mem.state # "SUPERSEDED_REMOTE" /\ mem'.state = "SUPERSEDED_REMOTE"
Freshens == ~mem.fresh /\ mem'.fresh

SupersedeFacts == IF reg = "tick" THEN Facts(vol) ELSE FactsBehindGate

(* Whenever the coordinator announces a successor or spends the freshen, on  *)
(* evidence gathered over several ticks, messages and restarts, the decision *)
(* table allows it: applied to the journal SEC really holds, the budgets and *)
(* the last word of VMD, and for all that a tick does, to the clock and the  *)
(* contract too.  (TickAwait asks SEC for its contract in the step in which  *)
(* it freshens.)                                                             *)
RecoversAsDecided ==
    [][/\ Supersedes => Lifecycle!decide(SupersedeFacts) \in {"SUPERSEDE_CAS", "RESTORE_SUCCESSOR"}
       /\ Freshens => Lifecycle!decide(Facts(vol')) = "FRESHEN_SAME_ID"]_vars
=============================================================================
