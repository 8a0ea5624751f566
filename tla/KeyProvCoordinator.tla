------------------------- MODULE KeyProvCoordinator -------------------------
(***************************************************************************)
(* The V2C key provisioning coordinator of the TSP service                 *)
(* (v2c_key_provisioning_coordinator.cpp), with the persistent record it   *)
(* keeps (v2c_key_provisioning_store.cpp) and the KL1 budget ledger        *)
(* (keyprov_lifecycle.cpp).                                                *)
(*                                                                         *)
(* Every handler runs under one mutex.  A handler is a chain of calls      *)
(* (tick -> do_check -> create_new_attempt -> do_request -> publish), and  *)
(* the process may die between any two of them, so the chain is modelled   *)
(* step by step: pc names the function that runs next, "idle" means that   *)
(* the mutex is free, and only an idle coordinator starts a handler.       *)
(*                                                                         *)
(* Time is abstracted to the comparisons the code makes.  A back-off that  *)
(* has not elapsed is a tick that does nothing, so next_retry_ms_ is not   *)
(* represented; deadline_ms_, the lease, the stabilization window and the  *)
(* budget windows keep the side of the comparison they are on.             *)
(***************************************************************************)
EXTENDS Integers, FiniteSets

CONSTANTS
    NotFoundN,      \* not_found_stabilization_count
    ReqLimit,       \* kl1_request_limit
    AckLimit,       \* kl1_ack_limit
    ChainIds,       \* kl1_chain_ids
    AlertAfter,     \* max_attempts_before_alert
    SnapshotEpoch,  \* capability_epoch of the SEC contract snapshot, 0: none
    MaxInput,       \* bound on the changes of the business input
    Faults,         \* the kinds of fault the environment may inject
    MaxFaults,      \* bound on the injected faults
    MaxCrashes      \* bound on the process restarts

FaultKinds == {"link", "publish", "sec", "cloud", "terminate", "clock", "input"}

ASSUME LimitsAssumption ==
    /\ NotFoundN \in Nat \ {0}
    /\ ReqLimit \in Nat \ {0}
    /\ AckLimit \in Nat
    /\ ChainIds \in Nat
    /\ AlertAfter \in Nat \ {0}
    /\ SnapshotEpoch \in Nat
ASSUME BoundsAssumption ==
    /\ MaxInput \in Nat
    /\ Faults \subseteq FaultKinds
    /\ MaxFaults \in Nat
    /\ MaxCrashes \in Nat

VARIABLES
    mem,      \* the members persist_locked() copies into record_
    vol,      \* the members that live in memory only
    disk,     \* the record in the store
    pc,       \* the function of the running handler that runs next
    reg,      \* the argument it runs with
    sec,      \* the import journal of SEC, per request id
    cloud,    \* the batch status at VMD, per request id
    answers,  \* the StatusResponses VMD has sent
    sent,     \* the messages published to VMD
    input,    \* version of the current business input (identity, certificate)
    link,     \* MQTT reports cloud and capability ready
    clk,      \* the clock: synchronised or not, and the sides of the lease
              \* and budget-window comparisons
    lastId,   \* request ids generated so far
    sends,    \* Requests published for the current attempt
    faults,   \* faults injected so far
    crashes   \* restarts so far

memVars == <<mem, disk>>
vars == <<mem, vol, disk, pc, reg, sec, cloud, answers, sent, input, link,
          clk, lastId, sends, faults, crashes>>

-----------------------------------------------------------------------------
(* Data *)

NoId == 0
Rids == 1 .. (ChainIds + 2)
NoFp == <<>>

ReconcileStates == {"RECONCILE_OLD_ATTEMPT", "LEGACY_SNAPSHOT_UNKNOWN",
                    "RECONCILE_EVIDENCE", "STABILIZING_NOT_FOUND",
                    "RECONCILE_REMOTE", "HARD_BLOCKED"}
AwaitStates == {"BLOCKED_AWAIT_CLOUD_TERMINATION", "AWAIT_REMOTE_REPAIR"}
States == {"WAIT_CLOUD", "CHECKING", "REQUESTING", "WAIT_RESPONSE",
           "IMPORTING", "ACK_PENDING", "ACTIVE", "RETRY_WAIT", "BLOCKED",
           "SUPERSEDED_REMOTE"} \cup ReconcileStates \cup AwaitStates

Resolutions == {"UNRESOLVED", "NO_SIDE_EFFECT_PROVEN", "HARD_CONFLICT"}

(* What a StatusResponse can say.  NOT_FOUND is UNSPECIFIED with the        *)
(* releasable error quadruple, UNSPECIFIED any other error, OPEN stands for *)
(* REQUESTED and ISSUED.                                                    *)
Statuses == {"NOT_FOUND", "UNSPECIFIED", "OPEN", "ACK_PENDING", "ACTIVE",
             "FAILED", "UNKNOWN"}

ImportResults == {"COMMITTED", "UNBINDABLE", "NOT_FOUND", "UNKNOWN",
                  "NOT_READY", "FAILED", "ERROR"}

Fingerprints == {NoFp} \cup ((0 .. MaxInput) \X SUBSET Rids)

Record == [saved: BOOLEAN, state: States, rid: Rids \cup {NoId},
           succ: Rids \cup {NoId}, fp: Fingerprints, res: Resolutions,
           inv: BOOLEAN, nf: 0 .. NotFoundN, nfEpoch: Nat,
           req: 0 .. ReqLimit, ack: 0 .. AckLimit, chain: 0 .. ChainIds,
           fresh: BOOLEAN, lease: BOOLEAN, att: 0 .. AlertAfter]

Volatile == [identity: BOOLEAN, event: BOOLEAN, pend: BOOLEAN,
             acks: BOOLEAN, tried: BOOLEAN, ackSent: BOOLEAN,
             statusSent: BOOLEAN, recSent: BOOLEAN, recAck: BOOLEAN,
             unknown: BOOLEAN, cached: Statuses \cup {"none"},
             deadline: {"none", "running", "passed"},
             first: {"none", "running", "elapsed"},
             epoch: Nat, contract: {"unknown", "incomplete", "ready"},
             burnt: BOOLEAN]

Clocks == [age: 0 .. 3, request: BOOLEAN, chain: BOOLEAN, synced: BOOLEAN]
Entries == {"none", "pending", "committed", "failed"}
Batches == {"none", "issued", "active", "failed"}
Functions == {"idle", "check", "create", "request", "requested", "import",
              "imported", "ack", "acked", "sec", "remote", "matrix",
              "supersede", "status"}
Arguments == {"none", "tick"} \cup Statuses \cup ImportResults

Messages == {"request", "ack", "status"} \X (Rids \cup {NoId})

NewRecord ==
    [saved |-> TRUE, state |-> "WAIT_CLOUD", rid |-> NoId, succ |-> NoId,
     fp |-> NoFp, res |-> "UNRESOLVED", inv |-> FALSE, nf |-> 0,
     nfEpoch |-> 0, req |-> 0, ack |-> 0, chain |-> 0, fresh |-> FALSE,
     lease |-> FALSE, att |-> 0]

NewVolatile ==
    [identity |-> FALSE, event |-> TRUE, pend |-> FALSE, acks |-> FALSE,
     tried |-> FALSE, ackSent |-> FALSE, statusSent |-> FALSE,
     recSent |-> FALSE, recAck |-> FALSE, unknown |-> FALSE,
     cached |-> "none", deadline |-> "none", first |-> "none", epoch |-> 0,
     contract |-> "unknown", burnt |-> FALSE]

-----------------------------------------------------------------------------
(* Helpers *)

Blame(k) == k \in Faults /\ faults < MaxFaults /\ faults' = faults + 1
NoFault == UNCHANGED faults

(* What a step of the coordinator leaves alone unless it says otherwise. *)
Outside == UNCHANGED <<sec, cloud, answers, sent, input, link, clk, lastId,
                       sends, crashes>>

Return == pc' = "idle" /\ reg' = "none"
Call(f, a) == pc' = f /\ reg' = a

persist == disk' = mem'
(* reconcile_obs_suppressed_locked: a repeated observation is not written. *)
(* The last observation is not kept: either outcome is possible.           *)
persist_unless_suppressed == disk' \in {disk, mem'}

(* Assign state_, persist, and leave the handler. *)
Settle(st, v) ==
    /\ mem' = [mem EXCEPT !.state = st]
    /\ vol' = v
    /\ persist
    /\ Return

AtMost(n, limit) == IF n < limit THEN n ELSE limit

request_ok == mem.req < ReqLimit /\ ~clk.request
AfterD == mem.lease /\ clk.age = 3
ack_ok == mem.ack < AckLimit /\ ~vol.burnt /\ ~AfterD
chain_ok == mem.chain < ChainIds /\ ~clk.chain
lease_acceptable == clk.age = 0
lease_expired == clk.age >= 2

Committed == {r \in Rids : sec[r] = "committed"}
purposes_complete == Committed # {}
(* The fingerprint of the snapshot build_candidate_locked would freeze: the *)
(* identity and certificate, and the business key versions SEC holds.       *)
Candidate == <<input, Committed>>

invalidate_identity(v) ==
    [v EXCEPT !.identity = FALSE, !.pend = FALSE, !.deadline = "none"]

enter_reconcile_old_attempt(v) ==
    Settle("RECONCILE_OLD_ATTEMPT",
           [v EXCEPT !.deadline = "none", !.recSent = FALSE])

(* publish_keyprov_locked, a rejected publish: stale, required, unsupported *)
(* session context, invalid identity, any other reason.                     *)
publish_rejected ==
    /\ Blame("publish")
    /\ \/ Settle("WAIT_CLOUD", [invalidate_identity(vol) EXCEPT !.event = TRUE])
       \/ Settle("BLOCKED", vol)
       \/ Settle("WAIT_CLOUD", vol)
       \/ Settle("BLOCKED", invalidate_identity(vol))
       \/ Settle("RETRY_WAIT", vol)
    /\ Outside

-----------------------------------------------------------------------------
(* tick_locked *)

(* refresh_sec_readiness_locked with a complete capability answer from SEC.  *)
(* An answer after none, or of another contract, begins a new epoch.         *)
refresh_sec_readiness(v) ==
    [v EXCEPT !.contract = "ready",
              !.epoch = IF SnapshotEpoch # 0 THEN SnapshotEpoch
                        ELSE IF v.contract = "unknown" THEN v.epoch + 1
                        ELSE v.epoch]

(* The answers of SEC that close the gate: none, one that lacks some of the  *)
(* readiness flags, one of another contract version.                         *)
SecNotReady ==
    {[vol EXCEPT !.contract = "unknown"],
     [refresh_sec_readiness(vol) EXCEPT !.contract = "incomplete"],
     [vol EXCEPT !.contract = "unknown",
                 !.epoch = IF SnapshotEpoch # 0 THEN SnapshotEpoch ELSE @ + 1]}

TickVol == [refresh_sec_readiness(vol) EXCEPT !.identity = TRUE]

GateClosed(v) ==
    LET w == IF v.identity THEN invalidate_identity(v) ELSE v IN
    /\ IF mem.state \in {"REQUESTING", "WAIT_RESPONSE", "IMPORTING", "ACK_PENDING"}
       THEN /\ mem' = [mem EXCEPT !.state = "WAIT_CLOUD"]
            /\ vol' = [w EXCEPT !.deadline = "none"]
            /\ persist
       ELSE /\ mem' = [mem EXCEPT !.state = IF @ = "RETRY_WAIT" THEN "WAIT_CLOUD"
                                            ELSE @]
            /\ vol' = w
            /\ UNCHANGED disk
    /\ UNCHANGED <<pc, reg>>
    /\ Outside

TickNoCloud == pc = "idle" /\ ~link /\ NoFault /\ GateClosed(refresh_sec_readiness(vol))

TickNoSec ==
    pc = "idle" /\ Blame("sec") /\ \E v \in SecNotReady : GateClosed(v)

Tick == pc = "idle" /\ link /\ clk.synced

TickClockNotSynced ==
    /\ pc = "idle" /\ link /\ ~clk.synced
    /\ NoFault
    /\ mem' = [mem EXCEPT !.state = IF @ = "REQUESTING" THEN "WAIT_CLOUD" ELSE @]
    /\ vol' = TickVol
    /\ UNCHANGED <<disk, pc, reg>>
    /\ Outside

(* A back-off has not elapsed, or the state waits for somebody else: the    *)
(* gate is evaluated and nothing more.                                      *)
TickWaits ==
    /\ Tick
    /\ mem.state \notin {"REQUESTING", "IMPORTING", "ACK_PENDING", "SUPERSEDED_REMOTE"}
    /\ vol' = TickVol
    /\ UNCHANGED <<mem, disk, pc, reg>>
    /\ NoFault /\ Outside

(* Mutant: a WAIT_RESPONSE whose deadline was dropped is not rechecked. *)
TickCheck_keeps_waiting ==
    /\ Tick
    /\ mem.state \in {"WAIT_CLOUD", "RETRY_WAIT"} \/ (mem.state = "BLOCKED" /\ vol.event)
    /\ mem' = [mem EXCEPT !.state = "CHECKING"]
    /\ vol' = [TickVol EXCEPT !.event = IF mem.state = "BLOCKED" THEN FALSE ELSE @]
    /\ Call("check", "none")
    /\ UNCHANGED disk
    /\ NoFault /\ Outside

TickCheck ==
    /\ Tick
    /\ \/ mem.state \in {"WAIT_CLOUD", "RETRY_WAIT"}
       \/ mem.state = "WAIT_RESPONSE" /\ vol.deadline = "none"
       \/ mem.state = "BLOCKED" /\ vol.event
    /\ mem' = [mem EXCEPT !.state = "CHECKING"]
    /\ vol' = [TickVol EXCEPT !.event = IF mem.state = "BLOCKED" THEN FALSE ELSE @]
    /\ Call("check", "none")
    /\ UNCHANGED disk
    /\ NoFault /\ Outside

(* The states whose case of the switch is one call. *)
TickCall ==
    /\ Tick
    /\ \/ mem.state = "REQUESTING" /\ Call("request", "none")
       \/ mem.state = "ACK_PENDING" /\ Call("ack", "none")
       \/ mem.state = "SUPERSEDED_REMOTE" /\ Call("create", "none")
       \/ mem.state \in ReconcileStates /\ mem.rid # NoId /\ Call("sec", "tick")
    /\ vol' = TickVol
    /\ UNCHANGED memVars
    /\ NoFault /\ Outside

on_response_timeout ==
    /\ Tick
    /\ mem.state = "WAIT_RESPONSE" /\ vol.deadline = "passed"
    /\ IF request_ok
       THEN Settle("RETRY_WAIT", TickVol)
       ELSE enter_reconcile_old_attempt(TickVol)
    /\ NoFault /\ Outside

maybe_freshen_applies ==
    /\ mem.res = "NO_SIDE_EFFECT_PROVEN" /\ ~vol.unknown
    /\ vol.cached = "ACK_PENDING"
    /\ mem.lease /\ lease_expired
    /\ ~mem.fresh /\ request_ok

(* The budget is persisted before state_ becomes REQUESTING. *)
maybe_freshen(v) ==
    /\ maybe_freshen_applies
    /\ disk' = [mem EXCEPT !.fresh = TRUE, !.req = @ + 1]
    /\ mem' = [disk' EXCEPT !.state = "REQUESTING"]
    /\ vol' = v
    /\ Call("request", "none")

(* Mutant: the deadline passes and the request still counts as sent. *)
status_timeout_ignored(v) ==
    /\ vol.recSent /\ vol.deadline = "passed"
    /\ vol' = v
    /\ UNCHANGED mem
    /\ persist
    /\ Return

(* A status request that was sent and is not answered in time. *)
status_timeout(v) ==
    /\ vol.recSent /\ vol.deadline = "passed"
    /\ vol' = [v EXCEPT !.recSent = FALSE]
    /\ UNCHANGED mem
    /\ persist
    /\ Return

TickAwait ==
    /\ Tick
    /\ mem.state \in AwaitStates
    /\ LET mayFreshen == /\ mem.state = "BLOCKED_AWAIT_CLOUD_TERMINATION"
                         /\ maybe_freshen_applies
       IN  \/ mayFreshen /\ maybe_freshen(TickVol)
           \/ /\ ~mayFreshen /\ ~vol.recSent
              /\ vol' = TickVol
              /\ Call("status", "none")
              /\ UNCHANGED memVars
           \/ ~mayFreshen /\ status_timeout(TickVol)
    /\ NoFault /\ Outside

-----------------------------------------------------------------------------
(* do_check_locked, create_new_attempt_locked, do_request_locked *)

(* Mutant: the query succeeds, whichever purposes it reports. *)
do_check_active_incomplete ==
    /\ pc = "check"
    /\ IF vol.recAck \/ vol.tried
       THEN /\ mem' = [mem EXCEPT !.state = "ACK_PENDING"]
            /\ vol' = [vol EXCEPT !.recAck = FALSE, !.ackSent = FALSE]
            /\ persist
            /\ Call("ack", "none")
       ELSE Settle("ACTIVE", vol)
    /\ NoFault /\ Outside

do_check_active ==
    /\ pc = "check"
    /\ purposes_complete
    /\ IF vol.recAck \/ vol.tried
       THEN /\ mem' = [mem EXCEPT !.state = "ACK_PENDING"]
            /\ vol' = [vol EXCEPT !.recAck = FALSE, !.ackSent = FALSE]
            /\ persist
            /\ Call("ack", "none")
       ELSE Settle("ACTIVE", vol)
    /\ NoFault /\ Outside

(* SEC not ready or unsupported; SEC unavailable. *)
do_check_sec_error ==
    /\ pc = "check"
    /\ Blame("sec")
    /\ \/ Settle("BLOCKED", vol)
       \/ Settle("RETRY_WAIT", vol)
    /\ Outside

do_check_incomplete ==
    /\ pc = "check"
    /\ ~purposes_complete
    /\ \/ /\ mem.fp = NoFp \/ mem.rid = NoId
          /\ Call("create", "none")
          /\ UNCHANGED <<mem, vol, disk>>
       \/ /\ mem.fp # NoFp /\ mem.rid # NoId /\ mem.fp # Candidate
          /\ enter_reconcile_old_attempt(vol)
       \/ /\ mem.fp # NoFp /\ mem.rid # NoId /\ mem.fp = Candidate
          /\ mem' = [mem EXCEPT !.state = "REQUESTING"]
          /\ persist
          /\ Call("request", "none")
          /\ UNCHANGED vol
    /\ NoFault /\ Outside

(* build_candidate_locked fails: no identity, or SEC does not answer. *)
build_candidate_fails ==
    /\ pc \in {"create", "request"}
    /\ pc = "create" => ~vol.unknown
    /\ \/ ~vol.identity /\ NoFault
       \/ vol.identity /\ Blame("sec")
    /\ Settle("RETRY_WAIT", vol)
    /\ Outside

create_new_attempt_refused ==
    /\ pc = "create"
    /\ vol.unknown
    /\ Settle("RECONCILE_OLD_ATTEMPT", vol)
    /\ NoFault /\ Outside

(* Mutant: the charge on the recovery chain is reset with the ledger. *)
create_new_attempt_resets_chain ==
    /\ pc = "create"
    /\ ~vol.unknown
    /\ vol.identity
    /\ lastId' = IF mem.succ = NoId THEN lastId + 1 ELSE lastId
    /\ mem' = [NewRecord EXCEPT !.state = "REQUESTING",
                  !.rid = IF mem.succ = NoId THEN lastId' ELSE mem.succ,
                  !.fp = Candidate, !.res = "NO_SIDE_EFFECT_PROVEN"]
    /\ vol' = [NewVolatile EXCEPT !.identity = TRUE, !.epoch = vol.epoch]
    /\ persist
    /\ clk' = [clk EXCEPT !.age = 0, !.request = FALSE]
    /\ sends' = 0
    /\ Call("request", "none")
    /\ NoFault
    /\ UNCHANGED <<sec, cloud, answers, sent, input, link, crashes>>

create_new_attempt ==
    /\ pc = "create"
    /\ ~vol.unknown /\ vol.identity
    /\ lastId' = IF mem.succ = NoId THEN lastId + 1 ELSE lastId
    /\ mem' = [NewRecord EXCEPT
                  !.state = "REQUESTING",
                  !.rid = IF mem.succ = NoId THEN lastId' ELSE mem.succ,
                  !.fp = Candidate,
                  !.res = "NO_SIDE_EFFECT_PROVEN",
                  !.chain = mem.chain]
    /\ vol' = [vol EXCEPT !.tried = FALSE, !.ackSent = FALSE,
                  !.statusSent = FALSE, !.recAck = FALSE, !.pend = FALSE,
                  !.acks = FALSE, !.cached = "none", !.first = "none",
                  !.burnt = FALSE]
    /\ persist
    /\ clk' = [clk EXCEPT !.age = 0, !.request = FALSE]
    /\ sends' = 0
    /\ Call("request", "none")
    /\ NoFault
    /\ UNCHANGED <<sec, cloud, answers, sent, input, link, crashes>>

do_request_blocked ==
    /\ pc = "request"
    /\ vol.identity
    /\ ~request_ok \/ (mem.fp # NoFp /\ mem.fp # Candidate)
    /\ enter_reconcile_old_attempt(vol)
    /\ NoFault /\ Outside

do_request_admitted ==
    /\ pc = "request"
    /\ vol.identity
    /\ request_ok
    /\ mem.fp = NoFp \/ mem.fp = Candidate

do_request ==
    /\ do_request_admitted
    /\ sent' = sent \cup {<<"request", mem.rid>>}
    /\ sends' = sends + 1
    /\ Call("requested", "none")
    /\ NoFault
    /\ UNCHANGED <<mem, vol, disk, sec, cloud, answers, input, link, clk,
                   lastId, crashes>>

do_request_rejected == do_request_admitted /\ publish_rejected

(* Mutant: the Request is not charged to the ledger. *)
do_request_sent_free ==
    /\ pc = "requested"
    /\ mem' = [mem EXCEPT !.state = "WAIT_RESPONSE", !.att = AtMost(@ + 1, AlertAfter)]
    /\ vol' = [vol EXCEPT !.deadline = "running"]
    /\ persist
    /\ Return
    /\ NoFault /\ Outside

(* The ledger is charged and persisted once the publish has returned. *)
do_request_sent ==
    /\ pc = "requested"
    /\ mem' = [mem EXCEPT !.state = "WAIT_RESPONSE", !.req = @ + 1,
                          !.att = AtMost(@ + 1, AlertAfter)]
    /\ vol' = [vol EXCEPT !.deadline = "running"]
    /\ persist
    /\ Return
    /\ NoFault /\ Outside

-----------------------------------------------------------------------------
(* do_import_locked and handle_import_result_locked *)

(* Mutant: the intent to import stays in memory. *)
do_import_not_persisted ==
    /\ Tick
    /\ mem.state = "IMPORTING"
    /\ mem' = [mem EXCEPT !.inv = TRUE, !.res = "UNRESOLVED"]
    /\ UNCHANGED disk
    /\ vol' = TickVol
    /\ Call("import", "none")
    /\ NoFault /\ Outside

(* Mutant: the resolution stays as it was before the import. *)
do_import_keeps_proof ==
    /\ Tick
    /\ mem.state = "IMPORTING"
    /\ mem' = [mem EXCEPT !.inv = TRUE]
    /\ disk' = IF mem.inv THEN disk ELSE mem'
    /\ vol' = TickVol
    /\ Call("import", "none")
    /\ NoFault /\ Outside

(* The intent to import is persisted before SEC is called. *)
do_import ==
    /\ Tick
    /\ mem.state = "IMPORTING"
    /\ mem' = IF mem.inv THEN mem
              ELSE [mem EXCEPT !.inv = TRUE, !.res = "UNRESOLVED"]
    /\ disk' = IF mem.inv THEN disk ELSE mem'
    /\ vol' = TickVol
    /\ Call("import", "none")
    /\ NoFault /\ Outside

do_import_lease_too_short ==
    /\ pc = "import"
    /\ mem.lease /\ ~lease_acceptable
    /\ enter_reconcile_old_attempt(vol)
    /\ NoFault /\ Outside

(* SEC offers the contract snapshot but no lease admission. *)
do_import_unsupported ==
    /\ pc = "import"
    /\ mem.lease => lease_acceptable
    /\ Blame("sec")
    /\ Settle("BLOCKED", vol)
    /\ Outside

(* What import_wrapped_business_keys may return, and the journal entry it   *)
(* leaves behind (external).  "pending" is an import whose outcome the call *)
(* did not wait for: SEC may still commit it.  Without a bundle the call    *)
(* only asks SEC for the outcome of the earlier one.                        *)
SecImport(r, result, entry) ==
    \/ result = "COMMITTED" /\ entry = "committed" /\ vol.pend /\ NoFault
    \/ result = "COMMITTED" /\ entry = "committed" /\ sec[r] = "committed" /\ NoFault
    \/ /\ ~vol.pend /\ sec[r] # "committed"
       /\ result = "FAILED" /\ entry = sec[r]
       /\ NoFault
    \/ /\ result \in {"UNKNOWN", "NOT_READY", "ERROR"} /\ entry = sec[r]
       /\ Blame("sec")
    \/ /\ vol.pend /\ sec[r] # "committed"
       /\ \/ result = "UNBINDABLE" /\ entry = "committed"
          \/ result = "NOT_FOUND" /\ entry \in {sec[r], "pending"}
          \/ result \in {"UNKNOWN", "ERROR"} /\ entry = "pending"
          \/ result = "FAILED" /\ entry = "failed"
       /\ Blame("sec")

do_import_call ==
    /\ pc = "import"
    /\ mem.lease => lease_acceptable
    /\ \E result \in ImportResults, entry \in Entries :
          /\ SecImport(mem.rid, result, entry)
          /\ sec' = [sec EXCEPT ![mem.rid] = entry]
          /\ Call("imported", result)
    /\ vol' = [vol EXCEPT !.tried = TRUE]
    /\ UNCHANGED <<mem, disk, cloud, answers, sent, input, link, clk, lastId,
                   sends, crashes>>

handle_import_committed ==
    /\ pc = "imported" /\ reg = "COMMITTED"
    /\ mem' = [mem EXCEPT !.state = "ACK_PENDING"]
    /\ vol' = [vol EXCEPT !.pend = FALSE, !.acks = TRUE, !.ackSent = FALSE,
                          !.statusSent = FALSE]
    /\ persist
    /\ Call("ack", "none")
    /\ NoFault /\ Outside

handle_import_other ==
    /\ pc = "imported"
    /\ LET v == [vol EXCEPT !.pend = FALSE] IN
       \/ reg \in {"UNBINDABLE", "NOT_READY"} /\ Settle("BLOCKED", v)
       \/ reg = "NOT_FOUND" /\ Settle("RECONCILE_EVIDENCE", v)
       \/ reg \in {"UNKNOWN", "ERROR"} /\ Settle("RETRY_WAIT", v)
       \/ reg = "FAILED" /\ Settle("RETRY_WAIT", [v EXCEPT !.tried = FALSE])
    /\ NoFault /\ Outside

-----------------------------------------------------------------------------
(* do_ack_locked *)

(* The proof is read back from SEC when it is not in memory. *)
do_ack_proof_unavailable ==
    /\ pc = "ack"
    /\ ~vol.acks
    /\ \/ sec[mem.rid] # "committed" /\ NoFault
       \/ sec[mem.rid] = "committed" /\ Blame("sec")
    /\ Settle("RETRY_WAIT", vol)
    /\ Outside

do_ack_proof ==
    /\ pc = "ack"
    /\ ~vol.acks
    /\ sec[mem.rid] = "committed"
    /\ vol' = [vol EXCEPT !.acks = TRUE]
    /\ UNCHANGED <<mem, disk, pc, reg>>
    /\ NoFault /\ Outside

ack_waiting == vol.ackSent /\ vol.deadline = "running"

do_ack_wait ==
    /\ pc = "ack" /\ vol.acks
    /\ ack_waiting
    /\ Return
    /\ UNCHANGED <<mem, vol, disk>>
    /\ NoFault /\ Outside

(* After D or with the ACK budget spent only StatusRequests go out. *)
do_ack_exhausted ==
    /\ pc = "ack" /\ vol.acks
    /\ ~ack_waiting /\ (AfterD \/ ~ack_ok)
    /\ IF vol.statusSent THEN Return ELSE Call("status", "none")
    /\ UNCHANGED <<mem, vol>>
    /\ persist
    /\ NoFault /\ Outside

(* Mutant: the budget is not asked for. *)
do_ack_admitted_unlimited == pc = "ack" /\ vol.acks /\ ~ack_waiting /\ ~AfterD

do_ack_admitted == pc = "ack" /\ vol.acks /\ ~ack_waiting /\ ~AfterD /\ ack_ok
(* An unanswered ACK past the alert threshold becomes a status query. *)
ack_asks_status == vol.ackSent /\ mem.att >= AlertAfter /\ ~vol.statusSent

(* build_keyprov_*_envelope refuses an empty identity. *)
do_ack_encode_fails ==
    /\ do_ack_admitted
    /\ ~vol.identity
    /\ IF ack_asks_status THEN Return /\ UNCHANGED <<mem, vol, disk>>
       ELSE Settle("RETRY_WAIT", vol)
    /\ NoFault /\ Outside

do_ack_status ==
    /\ do_ack_admitted
    /\ vol.identity /\ ack_asks_status
    /\ sent' = sent \cup {<<"status", mem.rid>>}
    /\ vol' = [vol EXCEPT !.statusSent = TRUE, !.deadline = "running"]
    /\ UNCHANGED mem
    /\ persist
    /\ Return
    /\ NoFault
    /\ UNCHANGED <<sec, cloud, answers, input, link, clk, lastId, sends, crashes>>

do_ack ==
    /\ do_ack_admitted
    /\ vol.identity /\ ~ack_asks_status
    /\ sent' = sent \cup {<<"ack", mem.rid>>}
    /\ Call("acked", "none")
    /\ NoFault
    /\ UNCHANGED <<mem, vol, disk, sec, cloud, answers, input, link, clk,
                   lastId, sends, crashes>>

do_ack_rejected == do_ack_admitted /\ vol.identity /\ publish_rejected

(* Charged after the publish; without a lease preconsume_ack leaves the      *)
(* ledger's D at "now", which persist_locked overwrites on disk only.        *)
do_ack_sent ==
    /\ pc = "acked"
    /\ mem' = [mem EXCEPT !.ack = @ + 1, !.att = AtMost(@ + 1, AlertAfter)]
    /\ vol' = [vol EXCEPT !.ackSent = TRUE, !.deadline = "running",
                          !.burnt = @ \/ ~mem.lease]
    /\ persist
    /\ Return
    /\ NoFault /\ Outside

-----------------------------------------------------------------------------
(* reconcile_sec_journal_locked: reg is "tick" when do_reconcile_locked calls *)
(* it, and the reported status when handle_reconcile_status_locked does.      *)

ResetNotFound(m) == [m EXCEPT !.nf = 0]

(* Mutant: an import in progress is taken for a committed one. *)
sec_committed_or_pending ==
    /\ pc = "sec"
    /\ sec[mem.rid] \in {"committed", "pending"}
    /\ mem' = [ResetNotFound(mem) EXCEPT !.state = "ACK_PENDING",
                                         !.res = "UNRESOLVED"]
    /\ vol' = [vol EXCEPT !.acks = TRUE, !.unknown = FALSE, !.first = "none",
                          !.ackSent = FALSE, !.statusSent = FALSE,
                          !.recAck = FALSE]
    /\ persist
    /\ Call("ack", "none")
    /\ NoFault /\ Outside

sec_committed ==
    /\ pc = "sec"
    /\ sec[mem.rid] = "committed"
    /\ mem' = [ResetNotFound(mem) EXCEPT !.state = "ACK_PENDING",
                                         !.res = "UNRESOLVED"]
    /\ vol' = [vol EXCEPT !.acks = TRUE, !.unknown = FALSE, !.first = "none",
                          !.ackSent = FALSE, !.statusSent = FALSE,
                          !.recAck = FALSE]
    /\ persist
    /\ Call("ack", "none")
    /\ NoFault /\ Outside

(* A committed import with incomplete items counts as unknown; the items it  *)
(* lists are kept.                                                           *)
sec_committed_incomplete ==
    /\ pc = "sec"
    /\ sec[mem.rid] = "committed"
    /\ Blame("sec")
    /\ \E items \in BOOLEAN :
          Settle("RECONCILE_OLD_ATTEMPT", [vol EXCEPT !.unknown = TRUE, !.acks = items])
    /\ Outside

(* SEC has no entry, or none yet. *)
NotFoundSeen == sec[mem.rid] \in {"none", "pending"}

(* NOT_FOUND under a contract that does not promise "no residue". *)
sec_not_found_weak ==
    /\ pc = "sec"
    /\ NotFoundSeen
    /\ Blame("sec")
    /\ mem' = [ResetNotFound(mem) EXCEPT
                  !.state = IF @ = "HARD_BLOCKED" THEN @ ELSE "RECONCILE_EVIDENCE"]
    /\ vol' = [vol EXCEPT !.first = "none", !.unknown = TRUE]
    /\ persist
    /\ Return
    /\ Outside

sec_not_found_proven ==
    /\ pc = "sec"
    /\ NotFoundSeen
    /\ mem.res = "NO_SIDE_EFFECT_PROVEN"
    /\ mem' = [mem EXCEPT !.state =
                  IF @ \in {"RECONCILE_REMOTE", "RECONCILE_OLD_ATTEMPT",
                            "LEGACY_SNAPSHOT_UNKNOWN"} \cup AwaitStates
                  THEN @ ELSE "RECONCILE_REMOTE"]
    /\ vol' = [vol EXCEPT !.unknown = FALSE]
    /\ persist
    /\ Call("remote", reg)
    /\ NoFault /\ Outside

sec_not_found_hard ==
    /\ pc = "sec"
    /\ NotFoundSeen
    /\ mem.res = "HARD_CONFLICT"
    /\ UNCHANGED mem
    /\ vol' = [vol EXCEPT !.unknown = FALSE]
    /\ persist
    /\ Return
    /\ NoFault /\ Outside

contrary_local_evidence == vol.pend \/ vol.acks

observe_restarts == mem.nf = 0 \/ mem.nfEpoch = 0 \/ mem.nfEpoch # vol.epoch
Observed == IF observe_restarts THEN 1 ELSE AtMost(mem.nf + 1, NotFoundN)
(* Mutant: every observation reopens the window. *)
ObservedFirst_reopens == "running"

(* The window starts with the first observation of a series. *)
ObservedFirst == IF observe_restarts THEN "running" ELSE vol.first

(* Mutant: enough observations are proof, whatever the time between them. *)
not_found_stable_at_once == Observed >= NotFoundN /\ ~contrary_local_evidence

not_found_stable ==
    /\ Observed >= NotFoundN
    /\ ObservedFirst = "elapsed"
    /\ ~contrary_local_evidence

(* Mutant: stabilization also runs under HARD_CONFLICT. *)
sec_not_found_observe_hard ==
    /\ pc = "sec"
    /\ NotFoundSeen
    /\ mem.res # "NO_SIDE_EFFECT_PROVEN"
    /\ mem' = [mem EXCEPT
                  !.nf = Observed, !.nfEpoch = vol.epoch,
                  !.res = IF not_found_stable THEN "NO_SIDE_EFFECT_PROVEN" ELSE @,
                  !.state = IF not_found_stable THEN "RECONCILE_REMOTE"
                            ELSE "STABILIZING_NOT_FOUND"]
    /\ vol' = [vol EXCEPT !.first = ObservedFirst, !.unknown = FALSE]
    /\ persist
    /\ Call("remote", reg)
    /\ NoFault /\ Outside

sec_not_found_observe ==
    /\ pc = "sec"
    /\ NotFoundSeen
    /\ mem.res = "UNRESOLVED"
    /\ mem' = [mem EXCEPT
                  !.nf = Observed, !.nfEpoch = vol.epoch,
                  !.res = IF not_found_stable THEN "NO_SIDE_EFFECT_PROVEN" ELSE @,
                  !.state = IF not_found_stable THEN "RECONCILE_REMOTE"
                            ELSE IF @ = "LEGACY_SNAPSHOT_UNKNOWN" THEN @
                            ELSE "STABILIZING_NOT_FOUND"]
    /\ vol' = [vol EXCEPT !.first = ObservedFirst, !.unknown = FALSE]
    /\ persist
    /\ Call("remote", reg)
    /\ NoFault /\ Outside

(* FAILED, an import in progress, or a query that fails. *)
SecContrary ==
    \/ sec[mem.rid] \in {"failed", "pending"} /\ NoFault
    \/ Blame("sec")

enter_hard_blocked ==
    /\ pc = "sec"
    /\ SecContrary
    /\ mem.state = "RECONCILE_REMOTE"
    /\ mem' = [mem EXCEPT !.state = "HARD_BLOCKED", !.res = "HARD_CONFLICT"]
    /\ UNCHANGED vol
    /\ persist
    /\ Return
    /\ Outside

sec_contrary ==
    /\ pc = "sec"
    /\ SecContrary
    /\ mem.state # "RECONCILE_REMOTE"
    /\ IF mem.res = "HARD_CONFLICT"
       THEN /\ UNCHANGED <<mem, vol>>
            /\ persist
            /\ Return
       ELSE /\ mem' = [ResetNotFound(mem) EXCEPT
                          !.state = IF @ = "LEGACY_SNAPSHOT_UNKNOWN" THEN @
                                    ELSE "RECONCILE_OLD_ATTEMPT"]
            /\ vol' = [vol EXCEPT !.first = "none", !.unknown = TRUE]
            /\ persist_unless_suppressed
            /\ Call("remote", reg)
    /\ Outside

-----------------------------------------------------------------------------
(* do_reconcile_locked and handle_reconcile_status_locked, once the SEC      *)
(* journal allows a read-only look at the cloud; the cloud decision matrix.  *)

Proven == mem.res = "NO_SIDE_EFFECT_PROVEN"

do_reconcile_cached ==
    /\ pc = "remote" /\ reg = "tick"
    /\ Proven /\ vol.cached # "none"
    /\ \/ maybe_freshen(vol)
       \/ /\ ~maybe_freshen_applies
          /\ Call("matrix", reg)
          /\ UNCHANGED <<mem, vol, disk>>
    /\ NoFault /\ Outside

(* Mutant: the status of the old attempt is waited for and never asked. *)
do_reconcile_status_silent ==
    /\ pc = "remote" /\ reg = "tick"
    /\ ~(Proven /\ vol.cached # "none")
    /\ Return
    /\ UNCHANGED <<mem, vol, disk>>
    /\ NoFault /\ Outside

do_reconcile_status ==
    /\ pc = "remote" /\ reg = "tick"
    /\ ~(Proven /\ vol.cached # "none")
    /\ \/ /\ ~vol.recSent
          /\ Call("status", "none")
          /\ UNCHANGED <<mem, vol, disk>>
       \/ status_timeout(vol)
       \/ /\ vol.recSent /\ vol.deadline # "passed"
          /\ Return
          /\ UNCHANGED <<mem, vol, disk>>
    /\ NoFault /\ Outside

(* Mutant: the cloud decides although the import is not proven absent. *)
handle_reconcile_status_unproven ==
    /\ pc = "remote" /\ reg # "tick"
    /\ vol' = [vol EXCEPT !.cached = reg]
    /\ Call("matrix", reg)
    /\ UNCHANGED <<mem, disk>>
    /\ NoFault /\ Outside

handle_reconcile_status ==
    /\ pc = "remote" /\ reg # "tick"
    /\ vol' = [vol EXCEPT !.cached = reg]
    /\ \/ /\ reg = "ACTIVE"
          /\ mem' = [mem EXCEPT !.state = "AWAIT_REMOTE_REPAIR"]
          /\ persist /\ Return
       \/ /\ reg # "ACTIVE" /\ (~Proven \/ vol.unknown)
          /\ IF mem.state = "AWAIT_REMOTE_REPAIR" /\ reg = "FAILED"
             THEN mem' = [mem EXCEPT !.state = "RECONCILE_EVIDENCE"] /\ persist
             ELSE UNCHANGED mem /\ persist_unless_suppressed
          /\ Return
       \/ /\ reg # "ACTIVE" /\ Proven /\ ~vol.unknown
          /\ Call("matrix", reg)
          /\ UNCHANGED <<mem, disk>>
    /\ NoFault /\ Outside

Matrix(st) ==
    /\ mem' = [mem EXCEPT !.state = st]
    /\ UNCHANGED vol
    /\ Return

apply_cloud_matrix ==
    /\ pc = "matrix"
    /\ \/ /\ vol.unknown
          /\ Return /\ UNCHANGED <<mem, vol, disk>>
       \/ /\ ~vol.unknown /\ vol.cached \in {"FAILED", "NOT_FOUND"}
          /\ Call("supersede", reg) /\ UNCHANGED <<mem, vol, disk>>
       \/ /\ ~vol.unknown /\ vol.cached \in {"UNSPECIFIED", "OPEN", "ACK_PENDING"}
          /\ Matrix("BLOCKED_AWAIT_CLOUD_TERMINATION")
          /\ persist_unless_suppressed
       \/ /\ ~vol.unknown /\ vol.cached = "ACTIVE"
          /\ Matrix("AWAIT_REMOTE_REPAIR") /\ persist
       \/ /\ ~vol.unknown /\ vol.cached = "UNKNOWN"
          /\ Matrix("RECONCILE_REMOTE") /\ persist_unless_suppressed
    /\ NoFault /\ Outside

supersede_remote_exhausted ==
    /\ pc = "supersede"
    /\ ~chain_ok
    /\ Settle("BLOCKED_AWAIT_CLOUD_TERMINATION", vol)
    /\ NoFault /\ Outside

(* Mutant: the successor is announced in memory only. *)
supersede_remote_once_not_persisted ==
    /\ pc = "supersede"
    /\ chain_ok
    /\ lastId' = IF mem.succ = NoId THEN lastId + 1 ELSE lastId
    /\ mem' = [mem EXCEPT !.state = "SUPERSEDED_REMOTE",
                  !.succ = IF @ = NoId THEN lastId' ELSE @,
                  !.chain = IF mem.succ = NoId THEN @ + 1 ELSE @]
    /\ vol' = [vol EXCEPT !.cached = "none"]
    /\ UNCHANGED disk
    /\ Call("create", "none")
    /\ NoFault
    /\ UNCHANGED <<sec, cloud, answers, sent, input, link, clk, sends, crashes>>

(* The successor id and the charge on the chain are persisted together,      *)
(* before the successor attempt exists.                                      *)
supersede_remote_once ==
    /\ pc = "supersede"
    /\ chain_ok
    /\ lastId' = IF mem.succ = NoId THEN lastId + 1 ELSE lastId
    /\ mem' = [mem EXCEPT !.state = "SUPERSEDED_REMOTE",
                  !.succ = IF @ = NoId THEN lastId' ELSE @,
                  !.chain = IF mem.succ = NoId THEN @ + 1 ELSE @]
    /\ vol' = [vol EXCEPT !.cached = "none"]
    /\ persist
    /\ Call("create", "none")
    /\ NoFault
    /\ UNCHANGED <<sec, cloud, answers, sent, input, link, clk, sends, crashes>>

send_status_request_skipped ==
    /\ pc = "status"
    /\ ~vol.identity
    /\ UNCHANGED <<mem, vol>>
    /\ persist /\ Return
    /\ NoFault /\ Outside

send_status_request ==
    /\ pc = "status"
    /\ vol.identity
    /\ sent' = sent \cup {<<"status", mem.rid>>}
    /\ vol' = [vol EXCEPT !.recSent = TRUE, !.deadline = "running"]
    /\ UNCHANGED mem
    /\ persist /\ Return
    /\ NoFault
    /\ UNCHANGED <<sec, cloud, answers, input, link, clk, lastId, sends, crashes>>

send_status_request_rejected == pc = "status" /\ vol.identity /\ publish_rejected

=============================================================================
