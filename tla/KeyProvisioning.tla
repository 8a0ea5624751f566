--------------------------- MODULE KeyProvisioning ---------------------------
(***************************************************************************)
(* The coordinator composed with what it talks to: VMD in the cloud, the   *)
(* MQTT session, the SEC import journal, the clocks, and the process that  *)
(* dies and restarts from the store.                                       *)
(*                                                                         *)
(* Messages are never removed from sent and answers: a message may be      *)
(* lost (nobody ever handles it), delayed, reordered and delivered more    *)
(* than once, as MQTT QoS 1 and the retries of both ends allow.            *)
(***************************************************************************)
EXTENDS KeyProvCoordinator

CONSTANTS
    Timers,        \* the clocks that may run out: "lease", "request", "chain"
    StartRecords   \* what the store holds at first: "empty", "legacy"

ASSUME EnvironmentAssumption ==
    /\ Timers \subseteq {"lease", "request", "chain"}
    /\ StartRecords \subseteq {"empty", "legacy"}

-----------------------------------------------------------------------------
(* initialize: the store is read, the state it names is mapped to the state  *)
(* the coordinator resumes in.                                               *)

LegacyRecord == [NewRecord EXCEPT !.rid = 1, !.state = "WAIT_RESPONSE"]
EmptyStore == [NewRecord EXCEPT !.saved = FALSE]

RestoredState(d) ==
    IF ~d.saved THEN "WAIT_CLOUD"
    ELSE IF d.fp = NoFp THEN "LEGACY_SNAPSHOT_UNKNOWN"
    ELSE IF d.state \in {"ACTIVE", "ACK_PENDING", "WAIT_CLOUD", "CHECKING", "RETRY_WAIT"}
         THEN "WAIT_CLOUD"
    ELSE IF d.state = "BLOCKED" /\ d.res = "HARD_CONFLICT" THEN "HARD_BLOCKED"
    ELSE IF /\ d.state \in {"BLOCKED", "RECONCILE_OLD_ATTEMPT"}
            /\ d.res = "NO_SIDE_EFFECT_PROVEN" THEN "RECONCILE_REMOTE"
    ELSE d.state

Restore(d) == [d EXCEPT !.saved = TRUE, !.state = RestoredState(d)]

(* Mutant: an interrupted ACK is not resumed. *)
RestoreVolatile_forgets(d) == NewVolatile

RestoreVolatile(d) ==
    [NewVolatile EXCEPT !.recAck = d.saved /\ d.fp # NoFp /\ d.state = "ACK_PENDING"]

Init ==
    /\ disk \in {d \in {EmptyStore, LegacyRecord} :
                   (IF d.saved THEN "legacy" ELSE "empty") \in StartRecords}
    /\ mem = Restore(disk)
    /\ vol = RestoreVolatile(disk)
    /\ pc = "idle" /\ reg = "none"
    /\ sec \in [Rids -> {"none", "pending", "committed"}]
    /\ \A r \in Rids : sec[r] # "none" => disk.rid = r
    /\ cloud \in [Rids -> {"none", "issued"}]
    /\ \A r \in Rids : cloud[r] # "none" <=> disk.rid = r
    /\ answers = {}
    /\ sent = {<<"request", r>> : r \in {disk.rid} \ {NoId}}
    /\ input = 0
    /\ link = TRUE
    /\ clk \in [age: {0}, request: {FALSE}, chain: {FALSE},
                synced: {b \in BOOLEAN : b \/ "clock" \in Faults}]
    /\ lastId = disk.rid
    /\ sends = 0 /\ faults = 0 /\ crashes = 0

(* The process dies at any point and comes back from the store. *)
Crash ==
    /\ crashes < MaxCrashes
    /\ crashes' = crashes + 1
    /\ mem' = Restore(disk)
    /\ vol' = RestoreVolatile(disk)
    /\ pc' = "idle" /\ reg' = "none"
    /\ UNCHANGED <<disk, sec, cloud, answers, sent, input, link, clk, lastId,
                   sends, faults>>

-----------------------------------------------------------------------------
(* handle_routed_downlink.  A message whose request id is not the current    *)
(* one is rejected without effect, so only the others are steps.             *)

Downlink == pc = "idle" /\ mem.rid # NoId

(* Error results: idempotency conflict, retryable error, any other error, a  *)
(* bundle that keyprov_response_valid_locked refuses.                        *)
ResponseRefused ==
    /\ Downlink
    /\ mem.state = "WAIT_RESPONSE"
    /\ <<"request", mem.rid>> \in sent
    /\ Blame("cloud")
    /\ \/ enter_reconcile_old_attempt(vol)
       \/ IF request_ok THEN Settle("RETRY_WAIT", vol)
          ELSE enter_reconcile_old_attempt(vol)
       \/ Settle("BLOCKED", vol)
    /\ Outside

(* The lease has expired or is too short to import under. *)
ResponseTooLate ==
    /\ Downlink
    /\ mem.state = "WAIT_RESPONSE"
    /\ cloud[mem.rid] # "none"
    /\ "lease" \in Timers
    /\ enter_reconcile_old_attempt(vol)
    /\ NoFault /\ Outside

(* An accepted bundle; leased is FALSE when VMD sends no expire_at_ms. *)
ResponseAccepted(leased) ==
    /\ Downlink
    /\ mem.state = "WAIT_RESPONSE"
    /\ cloud[mem.rid] # "none"
    /\ mem' = [mem EXCEPT !.state = "IMPORTING", !.lease = @ \/ leased]
    /\ vol' = [vol EXCEPT !.pend = TRUE, !.tried = FALSE,
                          !.burnt = IF leased THEN FALSE ELSE @]
    /\ clk' = IF leased THEN [clk EXCEPT !.age = 0] ELSE clk
    /\ persist
    /\ UNCHANGED <<pc, reg, sec, cloud, answers, sent, input, link, lastId,
                   sends, faults, crashes>>

(* Mutant: an AckResult counts only while the ACK is marked as sent. *)
AckConfirmed_if_sent ==
    /\ Downlink
    /\ mem.state = "ACK_PENDING"
    /\ vol.ackSent
    /\ cloud[mem.rid] = "active"
    /\ Settle("ACTIVE", [vol EXCEPT !.tried = FALSE, !.recAck = FALSE])
    /\ NoFault /\ Outside

AckConfirmed ==
    /\ Downlink
    /\ mem.state = "ACK_PENDING"
    /\ cloud[mem.rid] = "active"
    /\ Settle("ACTIVE", [vol EXCEPT !.tried = FALSE, !.recAck = FALSE])
    /\ NoFault /\ Outside

AckRefused ==
    /\ Downlink
    /\ <<"ack", mem.rid>> \in sent
    /\ \/ cloud[mem.rid] = "failed" /\ NoFault
       \/ Blame("cloud")
    /\ mem.state = "ACK_PENDING"
    /\ Settle("RETRY_WAIT", vol)
    /\ Outside

(* A conflict AckResult is acted on in every state. *)
AckConflict ==
    /\ Downlink
    /\ <<"ack", mem.rid>> \in sent
    /\ Blame("cloud")
    /\ enter_reconcile_old_attempt(vol)
    /\ Outside

StatusWhileReconciling(s) ==
    /\ Downlink
    /\ mem.state \in ReconcileStates \cup AwaitStates
    /\ <<mem.rid, s>> \in answers
    /\ vol' = [vol EXCEPT !.recSent = FALSE]
    /\ Call("sec", s)
    /\ UNCHANGED memVars
    /\ NoFault /\ Outside

StatusWhileWaiting(s) ==
    /\ Downlink
    /\ mem.state \in {"ACK_PENDING", "WAIT_RESPONSE"}
    /\ <<mem.rid, s>> \in answers
    /\ IF s = "ACTIVE"
       THEN IF vol.acks \/ vol.tried
            THEN Settle("ACK_PENDING", [vol EXCEPT !.ackSent = FALSE])
            ELSE Settle("ACTIVE", vol)
       ELSE Settle("RETRY_WAIT", vol)
    /\ NoFault /\ Outside

StatusConflict ==
    /\ Downlink
    /\ <<"status", mem.rid>> \in sent
    /\ Blame("cloud")
    /\ \/ /\ mem.state \in ReconcileStates \cup AwaitStates
          /\ Settle("BLOCKED_AWAIT_CLOUD_TERMINATION", [vol EXCEPT !.recSent = FALSE])
       \/ /\ mem.state \in {"ACK_PENDING", "WAIT_RESPONSE"}
          /\ enter_reconcile_old_attempt(vol)
    /\ Outside

-----------------------------------------------------------------------------
(* on_cloud_readiness and on_capability_readiness: the session or the        *)
(* capability is lost, or replaced by a new one; it returns; an event        *)
(* repeats what is known.  Only a loss or a change invalidates the identity. *)
ReadinessEvent(v) ==
    /\ pc = "idle"
    /\ vol' = [v EXCEPT !.event = TRUE]
    /\ UNCHANGED <<mem, disk, pc, reg, sec, cloud, answers, sent, input, clk,
                   lastId, sends, crashes>>

ReadinessLost ==
    link /\ link' \in BOOLEAN /\ Blame("link") /\ ReadinessEvent(invalidate_identity(vol))

ReadinessReturns ==
    /\ ~link /\ link' = TRUE /\ NoFault
    /\ \E v \in {vol, invalidate_identity(vol)} : ReadinessEvent(v)

ReadinessRepeated == UNCHANGED link /\ NoFault /\ ReadinessEvent(vol)

(* What clock_check_ok finds: the clock loses its synchronisation, or gets   *)
(* it, between two handlers.                                                 *)
ClockSync ==
    /\ pc = "idle"
    /\ \/ clk.synced /\ Blame("clock")
       \/ ~clk.synced /\ NoFault
    /\ clk' = [clk EXCEPT !.synced = ~@]
    /\ UNCHANGED <<mem, vol, disk, pc, reg, sec, cloud, answers, sent, input,
                   link, lastId, sends, crashes>>

(* A deadline_ms_ passes. *)
DeadlinePasses ==
    /\ pc = "idle"
    /\ vol.deadline = "running"
    /\ vol' = [vol EXCEPT !.deadline = "passed"]
    /\ UNCHANGED <<mem, disk, pc, reg, faults>> /\ Outside

(* The stabilization window is longer than SEC's import deadline plus its    *)
(* grace for late callbacks: it does not elapse over a pending import.       *)
WindowElapses ==
    /\ pc = "idle"
    /\ vol.first = "running"
    /\ mem.rid # NoId => sec[mem.rid] # "pending"
    /\ vol' = [vol EXCEPT !.first = "elapsed"]
    /\ UNCHANGED <<mem, disk, pc, reg, faults>> /\ Outside

(* Wall clock: U passes E - import_min, E and D in turn; the Request and     *)
(* chain windows close once they are anchored.                               *)
TimePasses ==
    /\ \/ "lease" \in Timers /\ mem.lease /\ clk.age < 3
          /\ clk' = [clk EXCEPT !.age = @ + 1]
       \/ "request" \in Timers /\ mem.req > 0 /\ ~clk.request
          /\ clk' = [clk EXCEPT !.request = TRUE]
       \/ "chain" \in Timers /\ mem.chain > 0 /\ ~clk.chain
          /\ clk' = [clk EXCEPT !.chain = TRUE]
    /\ UNCHANGED <<mem, vol, disk, pc, reg, sec, cloud, answers, sent, input,
                   link, lastId, sends, faults, crashes>>

(* Certificate renewal, a changed identity: another candidate fingerprint. *)
InputChanges ==
    /\ input < MaxInput
    /\ Blame("input")
    /\ input' = input + 1
    /\ UNCHANGED <<mem, vol, disk, pc, reg, sec, cloud, answers, sent, link,
                   clk, lastId, sends, crashes>>

-----------------------------------------------------------------------------
(* SEC (external): a pending import commits, fails, or leaves no trace. *)
SecResolves(r) ==
    /\ sec[r] = "pending"
    /\ \/ sec' = [sec EXCEPT ![r] = "committed"]
       \/ sec' = [sec EXCEPT ![r] = "failed"]
       \/ sec' = [sec EXCEPT ![r] = "none"]
    /\ UNCHANGED <<mem, vol, disk, pc, reg, cloud, answers, sent, input, link,
                   clk, lastId, sends, faults, crashes>>

(* VMD (external): a Request opens a batch, an ACK completes it, operations  *)
(* terminates it; a StatusRequest is answered from the batch.                *)
VmdMoves(r, from, to) ==
    /\ cloud[r] = from
    /\ cloud' = [cloud EXCEPT ![r] = to]
    /\ UNCHANGED <<mem, vol, disk, pc, reg, sec, answers, sent, input, link,
                   clk, lastId, sends, crashes>>

VmdIssues(r) == <<"request", r>> \in sent /\ VmdMoves(r, "none", "issued") /\ NoFault
VmdActivates(r) == <<"ack", r>> \in sent /\ VmdMoves(r, "issued", "active") /\ NoFault
VmdTerminates(r) == VmdMoves(r, "issued", "failed") /\ Blame("terminate")

StatusOf(c) ==
    CASE c = "none" -> {"NOT_FOUND"}
      [] c = "issued" -> {"OPEN", "ACK_PENDING"}
      [] c = "active" -> {"ACTIVE"}
      [] c = "failed" -> {"FAILED"}

VmdAnswers(r, s) ==
    /\ <<"status", r>> \in sent
    /\ \/ s \in StatusOf(cloud[r]) /\ NoFault
       \/ s \in {"UNSPECIFIED", "UNKNOWN"} /\ Blame("cloud")
    /\ <<r, s>> \notin answers
    /\ answers' = answers \cup {<<r, s>>}
    /\ UNCHANGED <<mem, vol, disk, pc, reg, sec, cloud, sent, input, link, clk,
                   lastId, sends, crashes>>

-----------------------------------------------------------------------------
Ticks ==
    \/ TickNoCloud \/ TickNoSec \/ TickClockNotSynced
    \/ TickCheck \/ TickCall \/ on_response_timeout \/ TickAwait \/ do_import
    \/ TickWaits

Steps ==
    \/ do_check_active \/ do_check_sec_error \/ do_check_incomplete
    \/ build_candidate_fails \/ create_new_attempt_refused \/ create_new_attempt
    \/ do_request_blocked \/ do_request \/ do_request_rejected \/ do_request_sent
    \/ do_import_lease_too_short \/ do_import_unsupported \/ do_import_call
    \/ handle_import_committed \/ handle_import_other
    \/ do_ack_proof_unavailable \/ do_ack_proof \/ do_ack_wait
    \/ do_ack_exhausted \/ do_ack_encode_fails \/ do_ack_status \/ do_ack
    \/ do_ack_rejected \/ do_ack_sent
    \/ sec_committed \/ sec_committed_incomplete \/ sec_not_found_weak
    \/ sec_not_found_proven \/ sec_not_found_hard \/ sec_not_found_observe \/ enter_hard_blocked
    \/ sec_contrary
    \/ do_reconcile_cached \/ do_reconcile_status \/ handle_reconcile_status
    \/ apply_cloud_matrix \/ supersede_remote_exhausted \/ supersede_remote_once
    \/ send_status_request_skipped \/ send_status_request
    \/ send_status_request_rejected

Downlinks ==
    \/ ResponseRefused \/ ResponseTooLate
    \/ \E leased \in BOOLEAN : NoFault /\ ResponseAccepted(leased)
    \/ AckConfirmed \/ AckRefused \/ AckConflict
    \/ \E s \in Statuses : StatusWhileReconciling(s) \/ StatusWhileWaiting(s)
    \/ StatusConflict

Environment ==
    \/ ReadinessLost \/ ReadinessReturns \/ ReadinessRepeated \/ ClockSync
    \/ DeadlinePasses \/ WindowElapses \/ TimePasses \/ InputChanges
    \/ \E r \in Rids : SecResolves(r) \/ VmdIssues(r) \/ VmdActivates(r) \/ VmdTerminates(r)
    \/ \E r \in Rids, s \in Statuses : VmdAnswers(r, s)

Next == Ticks \/ Steps \/ Downlinks \/ Environment \/ Crash

Spec == Init /\ [][Next]_vars

-----------------------------------------------------------------------------
(* Every variable stays in its domain: in particular the counters of the    *)
(* budget ledger never pass their limits, and a request id is always one    *)
(* that generate_request_id_locked has produced.                            *)
TypeOK ==
    /\ mem \in Record /\ disk \in Record /\ vol \in Volatile
    /\ pc \in Functions /\ reg \in Arguments
    /\ sec \in [Rids -> Entries] /\ cloud \in [Rids -> Batches]
    /\ answers \subseteq Rids \X Statuses
    /\ sent \subseteq Messages
    /\ input \in 0 .. MaxInput
    /\ link \in BOOLEAN
    /\ clk \in Clocks
    /\ lastId \in Rids \cup {NoId}
    /\ sends \in Nat /\ faults \in 0 .. MaxFaults /\ crashes \in 0 .. MaxCrashes

-----------------------------------------------------------------------------
(* Safety *)

(* do_ack_locked tells VMD that a batch is imported only if SEC has         *)
(* committed that batch, whatever was restarted, replayed or timed out      *)
(* between the import and the ACK.                                          *)
AckAttested == \A r \in Rids : <<"ack", r>> \in sent => sec[r] = "committed"

(* The coordinator reports ACTIVE (by its own check, an AckResult or a      *)
(* StatusResponse) only while SEC holds a complete set of business keys.    *)
ActiveHasKeys == mem.state = "ACTIVE" => purposes_complete

(* Once SEC may know of the current attempt, the store says that the import *)
(* was invoked (do_import_locked writes before it calls): a restart cannot  *)
(* forget a side effect.  A legacy record predates that field.              *)
ImportIntentDurable ==
    disk.rid # NoId /\ sec[disk.rid] # "none" => disk.inv \/ disk.fp = NoFp

(* NO_SIDE_EFFECT_PROVEN, which lets supersede_remote_once_locked replace   *)
(* the attempt, is never recorded while SEC may still commit it.            *)
ProofOfNoSideEffect ==
    mem.res = "NO_SIDE_EFFECT_PROVEN" /\ mem.rid # NoId =>
        \/ sec[mem.rid] \in {"none", "failed"}
        \/ mem.state = "ACK_PENDING" \/ mem.state = "ACTIVE"

(* An attempt that was replaced by a successor left nothing in SEC. *)
NoOrphanImport ==
    \A r \in Rids : r < mem.rid => sec[r] \notin {"pending", "committed"}

(* Requests published under one request id stay within kl1_request_limit,   *)
(* but for the restarts: do_request_locked charges the ledger after the     *)
(* publish, so each of them may cost one Request beyond the limit.          *)
RequestOvershootByCrash == sends <= ReqLimit + crashes

(* A recovery chain has the first attempt and ChainIds successors. *)
SuccessorsWithinChain == lastId <= ChainIds + 1

(* The store never moves to another request id unless it already names it   *)
(* as the successor: a restart between the two writes of a supersede        *)
(* continues with the id that was announced.  A legacy record has no        *)
(* snapshot, and do_check_locked creates an attempt over it like a first    *)
(* one.                                                                     *)
SupersedePersistedFirst ==
    [][disk'.rid # disk.rid =>
          /\ disk'.rid > disk.rid
          /\ disk.fp # NoFp => disk.succ = disk'.rid]_vars

(* HARD_CONFLICT is for people to resolve: an attempt is not replaced under  *)
(* it, and only a committed import in SEC clears it.  It does not stop a     *)
(* first import of the attempt, which a conflict reported by VMD and a       *)
(* rejected publish lead back to; a legacy record is exempt as above.        *)
HardConflictHolds ==
    [][mem.res = "HARD_CONFLICT" /\ mem.fp # NoFp =>
          /\ mem'.rid = mem.rid
          /\ \/ mem'.res = "HARD_CONFLICT"
             \/ sec[mem.rid] = "committed"
             \/ mem'.inv /\ ~mem.inv]_vars

(* Wherever a restart interrupts the way from the import to ACTIVE, the ACK *)
(* is not skipped (recovering_ack_): some batch was acknowledged to VMD     *)
(* before the coordinator reports ACTIVE.  A session lost in ACK_PENDING    *)
(* before the restart defeats it.                                           *)
ActiveImpliesAckSent ==
    mem.state = "ACTIVE" => \E r \in Rids : <<"ack", r>> \in sent
=============================================================================
