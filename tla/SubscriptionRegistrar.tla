----------------------- MODULE SubscriptionRegistrar -----------------------
(***************************************************************************)
(* The registration of the subscription snapshot with the MQTT daemon      *)
(* (subscription_registrar.cpp, snapshot_builder.cpp,                      *)
(* subscription_store.cpp).                                                *)
(*                                                                         *)
(* A snapshot is the set of items of the catalogue, here its digest, and a *)
(* generation that numbers the digests.  Two threads submit: the monitor,  *)
(* which polls the connection, and the caller of apply_catalog_change.     *)
(* submit_mutex_ is held by each of them from the load of the store to the *)
(* save, so what can come in between is a crash.                           *)
(***************************************************************************)
EXTENDS Naturals

CONSTANTS
    Digests,       \* the contents of the catalogue
    NoDigest,
    MaxChanges,    \* bound: number of catalogue changes submitted
    MaxRestarts    \* bound: number of restarts

ASSUME RegistrarAssumption ==
    /\ NoDigest \notin Digests
    /\ MaxChanges \in Nat /\ MaxRestarts \in Nat

VARIABLES
    up,         \* the process runs, start() has returned
    restarts, changes,   \* counters for the bounds
    ready,      \* store_.isReady(): whether the store can be used at all
    config,     \* tsp.subscriptions of the configuration file
    stored,     \* generation and content_digest in the framework store
    cur,        \* current_snapshot_
    acc,        \* accepted_generation_ and accepted_digest_
    state,      \* state_
    due,        \* now_ms() >= next_retry_ms_
    poll,       \* the monitor in check_connection_and_retry
    last,       \* last_connected_
    pending,    \* apply_catalog_change between submission and save
    connected,  \* mqtt_->is_connected()
    daemon,     \* the snapshot the daemon holds (external)
    took,       \* history: the snapshots the daemon has accepted
    lost        \* history: submitted when the process died, not yet saved

tsp == <<cur, acc, state, due, last>>
env == <<restarts, changes, ready, config, connected>>
vars == <<up, stored, poll, pending, daemon, took, lost, tsp, env>>

Snapshot == [gen: Nat, digest: Digests \cup {NoDigest}]
None == [gen |-> 0, digest |-> NoDigest]
States == {"NOT_REGISTERED", "REGISTERING", "REGISTERED", "DEGRADED"}
Polls == {"idle", "saw_up", "saw_down", "submit", "retry"}

(* Every variable stays in its domain, and a process that runs has a        *)
(* snapshot to submit.                                                      *)
TypeOK ==
    /\ up \in BOOLEAN /\ restarts \in 0..MaxRestarts /\ changes \in 0..MaxChanges
    /\ ready \in BOOLEAN /\ config \in Digests
    /\ stored \in Snapshot /\ cur \in Snapshot /\ acc \in Snapshot
    /\ state \in States /\ due \in BOOLEAN /\ poll \in Polls
    /\ last \in BOOLEAN /\ connected \in BOOLEAN
    /\ pending \in Snapshot /\ daemon \in Snapshot
    /\ took \subseteq Snapshot /\ lost \subseteq Snapshot
    /\ up => cur # None

Init ==
    /\ up = FALSE /\ restarts = 0 /\ changes = 0 /\ ready \in BOOLEAN
    /\ config \in Digests
    /\ stored = None /\ cur = None /\ acc = None
    /\ state = "NOT_REGISTERED" /\ due = TRUE /\ poll = "idle" /\ last = FALSE
    /\ pending = None
    /\ connected \in BOOLEAN /\ daemon = None /\ took = {} /\ lost = {}

-----------------------------------------------------------------------------
(* SnapshotBuilder and SubscriptionStore *)

(* Mutant: the generation is reused for any digest. *)
build_reuses(d, s) == [gen |-> IF s.gen > 0 THEN s.gen ELSE s.gen + 1, digest |-> d]

(* An unchanged digest keeps its generation, another one gets the next. *)
build(d, s) == [gen |-> IF s.gen > 0 /\ d = s.digest THEN s.gen ELSE s.gen + 1,
                digest |-> d]

load == IF ready THEN stored ELSE None
save(s) == stored' = IF ready THEN s ELSE stored

-----------------------------------------------------------------------------
(* replaceSubscriptionSnapshot (external): a digest other than the one held  *)
(* under the same generation is refused; UNKNOWN may have taken effect.      *)

admissible(s) == s.gen = daemon.gen => s = daemon

Takes(s) == admissible(s) /\ daemon' = s /\ took' = took \cup {s}
Leaves == UNCHANGED <<daemon, took>>

replaceSubscriptionSnapshot(s, r) ==
    \/ r = "ACCEPTED" /\ Takes(s)
    \/ r = "REJECTED" /\ Leaves
    \/ r = "UNKNOWN" /\ (Takes(s) \/ Leaves)

Results == {"ACCEPTED", "REJECTED", "UNKNOWN"}

-----------------------------------------------------------------------------
digest_conflict(s, a) == a.gen = s.gen /\ a.gen > 0 /\ a.digest # s.digest

(* submit_snapshot_locked after transition_to(REGISTERING): s is submitted,  *)
(* a is what was accepted before, r the status returned.                     *)
submit_snapshot_locked(s, a, r) ==
    \/ /\ digest_conflict(s, a) /\ r = "REJECTED"
       /\ state' = "DEGRADED" /\ acc' = a
       /\ Leaves
    \/ /\ ~digest_conflict(s, a)
       /\ replaceSubscriptionSnapshot(s, r)
       /\ acc' = IF r = "ACCEPTED" THEN s ELSE a
       /\ state' = CASE r = "ACCEPTED" -> "REGISTERED"
                     [] r = "UNKNOWN" -> "REGISTERING"
                     [] r = "REJECTED" -> "DEGRADED"

(* An accepted snapshot needs no retry, any other result schedules one. *)
schedule_retry(r) == due' = (r = "ACCEPTED")

(* Mutant: an unchanged catalogue is taken as already built. *)
start_unchanged ==
    /\ ~up
    /\ up' = TRUE
    /\ LET s == build(config, load) IN
       /\ cur' = IF s = stored THEN cur ELSE s
       /\ save(s)
       /\ \E r \in Results : submit_snapshot_locked(s, None, r) /\ schedule_retry(r)
    /\ last' = connected
    /\ poll' = "idle"
    /\ UNCHANGED <<pending, lost, env>>

(* start(): the persisted generation is recovered, the configured catalogue  *)
(* built, saved and submitted, and the monitor started.                      *)
start ==
    /\ ~up
    /\ up' = TRUE
    /\ LET s == build(config, load) IN
       /\ cur' = s
       /\ save(s)
       /\ \E r \in Results : submit_snapshot_locked(s, None, r) /\ schedule_retry(r)
    /\ last' = connected
    /\ poll' = "idle"
    /\ UNCHANGED <<pending, lost, env>>

-----------------------------------------------------------------------------
(* check_connection_and_retry: the connection is read without a lock,        *)
(* compared under monitor_mutex_, and the submission takes submit_mutex_.    *)

lock_free == pending = None

PollReads ==
    /\ up /\ poll = "idle"
    /\ poll' = IF connected THEN "saw_up" ELSE "saw_down"
    /\ UNCHANGED <<up, stored, pending, daemon, took, lost, tsp, env>>

(* Mutant: a lost connection leaves the state REGISTERED and is forgotten. *)
PollCompares_forgets ==
    /\ up /\ poll \in {"saw_up", "saw_down"}
    /\ poll' = IF poll = "saw_up" THEN "retry" ELSE "idle"
    /\ last' = (poll = "saw_up")
    /\ UNCHANGED <<up, stored, pending, daemon, took, lost, cur, acc, state, due, env>>

PollCompares ==
    /\ up /\ poll \in {"saw_up", "saw_down"}
    /\ last' = (poll = "saw_up")
    /\ \/ poll = "saw_up" /\ ~last /\ poll' = "submit" /\ UNCHANGED state
       \/ poll = "saw_up" /\ last /\ poll' = "retry" /\ UNCHANGED state
       \/ /\ poll = "saw_down" /\ last /\ lock_free
          /\ poll' = "idle" /\ state' = "NOT_REGISTERED"
       \/ poll = "saw_down" /\ ~last /\ poll' = "idle" /\ UNCHANGED state
    /\ UNCHANGED <<up, stored, pending, daemon, took, lost, cur, acc, due, env>>

(* Reconnected, or not registered and the back-off has passed. *)
PollSubmits ==
    /\ up /\ lock_free
    /\ \/ poll = "submit"
       \/ poll = "retry" /\ state # "REGISTERED" /\ due
    /\ poll' = "idle"
    /\ \E r \in Results : submit_snapshot_locked(cur, acc, r) /\ schedule_retry(r)
    /\ UNCHANGED <<up, stored, pending, lost, cur, last, env>>

PollEnds ==
    /\ up /\ lock_free
    /\ poll = "retry" /\ ~(state # "REGISTERED" /\ due)
    /\ poll' = "idle"
    /\ UNCHANGED <<up, stored, pending, daemon, took, lost, tsp, env>>

-----------------------------------------------------------------------------
(* apply_catalog_change of a valid catalogue: submission, then the switch to *)
(* the new snapshot unless it was refused.                                   *)

ApplySubmits(d) ==
    /\ up /\ lock_free
    /\ changes < MaxChanges
    /\ d # cur.digest
    /\ LET s == build(d, load) IN
       \E r \in Results :
          /\ submit_snapshot_locked(s, acc, r) /\ schedule_retry(r)
          /\ pending' = IF r = "REJECTED" THEN None ELSE s
    /\ changes' = changes + 1
    /\ UNCHANGED <<up, restarts, ready, config, connected, stored, poll, lost, cur, last>>

(* Mutant: a snapshot whose fate is unknown is not persisted. *)
ApplySaves_accepted_only ==
    /\ up /\ pending # None
    /\ cur' = pending
    /\ IF state = "REGISTERED" THEN save(pending) ELSE UNCHANGED stored
    /\ pending' = None
    /\ UNCHANGED <<up, poll, acc, state, due, last, daemon, took, lost, env>>

ApplySaves ==
    /\ up /\ pending # None
    /\ cur' = pending
    /\ save(pending)
    /\ pending' = None
    /\ UNCHANGED <<up, poll, acc, state, due, last, daemon, took, lost, env>>

-----------------------------------------------------------------------------
(* The back-off passes; the process ends, by stop() or a crash; the          *)
(* connection, the configuration.                                            *)

BackoffPasses ==
    /\ up /\ ~due
    /\ due' = TRUE
    /\ UNCHANGED <<up, stored, poll, pending, daemon, took, lost, cur, acc, state, last, env>>

Ends ==
    /\ up /\ restarts < MaxRestarts
    /\ up' = FALSE
    /\ restarts' = restarts + 1
    /\ poll' = "idle" /\ pending' = None
    /\ state' = "NOT_REGISTERED" /\ due' = TRUE /\ last' = FALSE
    /\ acc' = None /\ cur' = None
    /\ lost' = lost \cup ({pending} \ {None})
    /\ UNCHANGED <<stored, changes, ready, config, connected, daemon, took>>

ConfigChanges ==
    /\ ~up
    /\ config' \in Digests \ {config}
    /\ UNCHANGED <<up, restarts, changes, ready, stored, poll, pending, connected, daemon,
                   took, lost, tsp>>

(* The connection is lost; a daemon that restarts forgets the snapshot. *)
Disconnect ==
    /\ connected
    /\ connected' = FALSE
    /\ daemon' \in {daemon, None}
    /\ UNCHANGED <<up, restarts, changes, ready, config, stored, poll, pending, took, lost, tsp>>

Connect ==
    /\ ~connected
    /\ connected' = TRUE
    /\ UNCHANGED <<up, restarts, changes, ready, config, stored, poll, pending, daemon, took,
                   lost, tsp>>

-----------------------------------------------------------------------------
Poll == PollReads \/ PollCompares \/ PollSubmits \/ PollEnds

Next ==
    \/ start \/ Poll
    \/ \E d \in Digests : ApplySubmits(d)
    \/ ApplySaves \/ BackoffPasses
    \/ Ends \/ ConfigChanges \/ Disconnect \/ Connect

Spec == Init /\ [][Next]_vars

(* The monitor polls, apply_catalog_change returns, the back-off passes, and *)
(* a daemon that is asked again and again accepts once.                      *)
Fairness ==
    /\ WF_vars(PollReads) /\ WF_vars(PollCompares) /\ WF_vars(PollEnds)
    /\ WF_vars(PollSubmits) /\ SF_vars(PollSubmits /\ state' = "REGISTERED")
    /\ WF_vars(ApplySaves) /\ WF_vars(BackoffPasses)
FairSpec == Spec /\ Fairness

-----------------------------------------------------------------------------
(* A generation names one content: as long as the store works, the daemon   *)
(* never accepts two digests under one generation, whatever was refused,    *)
(* lost or restarted, unless the process died between the submission of     *)
(* one of them and its save.                                                *)
GenerationNamesDigest ==
    ready => \A a, b \in took : a.gen = b.gen => a = b \/ {a, b} \cap lost # {}

(* As long as the store works, no change of the catalogue is refused by the *)
(* registrar itself as a conflict with the generation it had accepted.      *)
ChangeSubmittable ==
    up /\ lock_free /\ ready =>
        \A d \in Digests \ {cur.digest} : ~digest_conflict(build(d, load), acc)

(* As long as the store works, a registrar that has seen the connection     *)
(* down, or whose last submission was not accepted, brings the daemon to    *)
(* hold the current snapshot, unless the daemon is unreachable, the process *)
(* ends, or the daemon holds a snapshot that a crash made it forget.        *)
Unregistered == ready /\ up /\ (~last \/ state # "REGISTERED")
SnapshotHeld == Unregistered ~> ~up \/ ~connected \/ daemon = cur \/ daemon \in lost
=============================================================================
