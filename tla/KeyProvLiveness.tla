--------------------------- MODULE KeyProvLiveness ---------------------------
(***************************************************************************)
(* What the coordinator must eventually do, under the fairness its         *)
(* scheduling gives it.  The worker thread ticks for ever and gets the     *)
(* mutex whenever it is released again and again; a handler that has       *)
(* started runs to its end; clocks advance; SEC finishes an import.  No    *)
(* fairness is assumed of the network or of VMD: answers may never come.   *)
(***************************************************************************)
EXTENDS KeyProvisioning

TickWorks ==
    TickNoCloud \/ TickCheck \/ TickCall \/ on_response_timeout \/ TickAwait \/ do_import

Fairness ==
    /\ SF_vars(TickWorks)
    /\ WF_vars(Steps)
    /\ SF_vars(DeadlinePasses)
    /\ SF_vars(WindowElapses)
    /\ WF_vars(ReadinessReturns)
    /\ \A r \in Rids : WF_vars(SecResolves(r))

FairSpec == Spec /\ Fairness

(* Deliveries and VMD are fair too: nothing is lost for ever. *)
Delivery ==
    /\ SF_vars(\E leased \in BOOLEAN : NoFault /\ ResponseAccepted(leased))
    /\ SF_vars(AckConfirmed)
    /\ SF_vars(\E s \in Statuses : StatusWhileReconciling(s))
    /\ \A r \in Rids : WF_vars(VmdIssues(r)) /\ WF_vars(VmdActivates(r))
    /\ \A r \in Rids : WF_vars(\E s \in Statuses : VmdAnswers(r, s))
LossFreeSpec == FairSpec /\ Delivery

(* A Request that VMD does not answer does not hold the coordinator: the    *)
(* deadline, or the loss of the identity that drops the deadline, takes it  *)
(* out of WAIT_RESPONSE.                                                    *)
Waiting == mem.state = "WAIT_RESPONSE"
WaitResponseLeft == Waiting ~> ~Waiting

(* A StatusRequest of the reconciliation that nobody answers is sent again  *)
(* once its deadline passes, unless the loss of the identity drops that     *)
(* deadline (invalidate_identity_locked) or a restart drops both.           *)
StatusAwaited ==
    /\ mem.state \in (ReconcileStates \cup AwaitStates) \ {"HARD_BLOCKED"}
    /\ vol.recSent /\ vol.deadline # "none"
StatusRetried == StatusAwaited ~> ~StatusAwaited

(* The stabilization of NOT_FOUND ends, unless a restart drops the start of *)
(* its window or a key bundle still in memory speaks against it             *)
(* (contrary_local_evidence_locked).                                        *)
Stabilizing == mem.state = "STABILIZING_NOT_FOUND" /\ ~vol.pend
WindowOpen == Stabilizing /\ vol.first # "none"
StabilizationEnds == WindowOpen ~> ~WindowOpen

(* With SEC, VMD and the network working, provisioning comes to rest: the   *)
(* keys are active, or the coordinator waits for people or for VMD.         *)
Settled == mem.state \in {"ACTIVE", "BLOCKED", "HARD_BLOCKED"} \cup AwaitStates
EventuallySettled == <>[]Settled

(* Keys that SEC holds are eventually reported ACTIVE, wherever a restart   *)
(* interrupts the way from the import to the confirmation by VMD.           *)
ImportedBecomesActive == (\E r \in Rids : sec[r] = "committed") ~> mem.state = "ACTIVE"
=============================================================================
