# TBOX TSP service: a TLA+ verification project

The TSP service (`iov-vehicle-tbox-tsp`) relays business messages between the
applications of a vehicle and its cloud. It runs as a daemon next to an MQTT
daemon (session with the cloud) and SEC (secure storage of keys). This directory
holds TLA+ models of the parts of it that keep state across messages, threads
and restarts, the TLC configurations that check them, and TLAPS proofs.

## 1. Inventory

| Component | State | Operations | Talks to |
|---|---|---|---|
| Key provisioning coordinator (`v2c_key_provisioning_coordinator`) | state machine of 19 states, current attempt, evidence, deadlines, caches; one mutex | `tick` (worker thread), `handle_routed_downlink`, `on_cloud_readiness`, `on_capability_readiness`, `initialize`, `stop` | VMD in the cloud through MQTT, SEC, its store |
| Key provisioning store (`v2c_key_provisioning_store`) | one JSON record; legacy multi-key record | `load`, `save` | framework store |
| KL1 ledger (`keyprov_lifecycle`) | counters and windows of the budgets, lease times | `*_ok`, `preconsume_*` | coordinator |
| Attempt snapshot (`keyprov_attempt`) | none | snapshot, fingerprint, error classification | coordinator |
| SEC adapter (`sec_business_key_adapter`) | client connection | import, queries, evidence classification | SEC |
| Vehicle message gateway (`vehicle_message_gateway`) | correlation table, tombstones, entries with their own mutex | `exchange`, `handle_routed_downlink`, sweepers, `start`, `stop` | MQTT, event publisher |
| Event publisher (`tsp_event_publisher`) | one queue, a bounded count per service | `publish_*`, worker, `stop` | IPC subscribers |
| Subscription registrar (`subscription_registrar`, `registration_state`) | current snapshot, accepted generation, registration state, back-off | `start`, monitor, `apply_catalog_change`, `stop` | MQTT daemon, store |
| Snapshot builder and store (`snapshot_builder`, `subscription_store`) | generation and digest | `build`, `load`, `save` | registrar |
| Subscription catalogue (`subscription_catalog`) | items | `load_from_yaml`, `validate`, `replace` | registrar |
| Protocol codec (`keyprov_protocol`) | none | `encode_request`, `encode_ack`, `decode`: limits on every field | coordinator |
| MQTT adapter, route dispatcher | connection handles, active subscriptions, handler map | `subscribeRoutedDownlink`, `dispatch`, `stop` | gateway, coordinator, MQTT daemon |
| IPC dispatcher, client, retry policy | calls in progress | `dispatch`, `exchange` with retry | relay, framework client |
| Relay service, application, framework server | init stage, running and stopping flags, the objects themselves | `initialize`, rollback, `execute`, `cleanup` | all of the above |
| Network status, readiness bits, logging, error codes | none | lookups, output | - |

What is hard, and what makes each part correct:

* **Coordinator.** A restart between any two calls; answers that are late, lost
  or repeated; SEC commits an import after it said it knew nothing; budgets that
  must survive restarts; deadlines dropped with the session. Correct means: no
  ACK without a committed import, no ACTIVE without keys, no attempt replaced
  while its import may still commit, no import forgotten, budgets and chains
  bounded, and every wait ends.
* **Gateway.** Four parties race for one entry; two calls may use one message id;
  the MQTT callback uses an entry after releasing the table. Correct means: one
  outcome per exchange, decided once, from an answer to that very message, and
  every exchange returns.
* **Registrar.** A connection observed by polling, submissions with unknown
  result, a crash between submission and save. Correct means: one content per
  generation, and a registrar that knows it is not registered ends up registered.
* **Event publisher.** Producers on the MQTT thread, one worker, a condition variable,
  a queue at its limit, a stop that has to flush. Correct means: no accepted event is
  lost, the count equals the queue, and the worker always wakes up.
* **Application.** Objects are built and destroyed by the main thread while callbacks,
  requests and the worker are inside them. Correct means: nobody is inside an object
  that is gone, a failed start leaves nothing behind, and a shutdown ends.

`PROJECT.json` lists the hazards with their lines.

## 2. Modules

| Module | Models |
|---|---|
| `KeyProvCoordinator` | the coordinator's handlers as steps |
| `KeyProvisioning` | extends it with the store and the restart, the downlinks, MQTT, VMD, SEC, clocks; `Next`, `Spec`, the safety properties |
| `KeyProvLiveness` | fairness and the liveness properties |
| `KeyProvLifecycle` | the decision table `keyprov_lifecycle_decide` and the clock's health, as operators |
| `KeyProvDecisions` | the coordinator against the decision table |
| `KeyProvBundle` | one attempt seen from its data: what the encoders and the decoder accept, the bundle, the import report, the ACK, lease times, a clock that is off |
| `KeyProvisioningProofs` | type correctness for all constants |
| `KeyProvAckProofs` | `AckAttested` and `ActiveHasKeys` for all constants, `ActiveImpliesAckSent` while the vehicle's own side works |
| `KeyProvRecoveryProofs` | what a restart can rely on, the bounds on Requests and ids, and `HardConflictHolds`, for all constants; the decision table for all facts, and the coordinator against it |
| `KeyProvBundleProofs` | the four properties of `KeyProvBundle` for all contents, leases and clock errors |
| `MessageExchange` | what `exchange()` promises its callers, abstractly |
| `VehicleMessageGateway` | the correlation of the gateway, and the mapping under which it implements `MessageExchange` |
| `MCVehicleMessageGateway` | two sweepers and the hash of two message ids |
| `VehicleMessageGatewayProofs` | the gateway's properties and the refinement for any number of calls, ids, sweepers |
| `SubscriptionRegistrar` | registrar, builder, store, and the MQTT daemon it submits to |
| `SubscriptionRegistrarProofs` | the registrar's safety for any number of catalogues, changes and restarts |
| `TspEventPublisher` | the publisher's queues, its worker and its condition variable |
| `TspEventPublisherProofs` | the publisher's invariant, for any number of services and any capacity |
| `TspIpc` | an exchange call from the client through the IPC dispatcher and back |
| `TspApplication` | composes the two with the lifecycle, the route dispatcher and the thread of the MQTT client; `Next`, `Spec`, the properties of all three |
| `TspApplicationProofs` | the safety of the composition for any number of services, events and clients |

`TspApplication` composes by conjunction: an action of the main thread, of the MQTT
thread or of a request thread takes the matching step of the publisher or of the IPC
module and leaves the variables of the others alone.

### Key provisioning

All handlers hold one mutex, so they do not interleave with each other, but the
process can die inside a handler. A handler is therefore a chain of steps: `pc`
names the function that runs next (`do_check` -> `create_new_attempt` ->
`do_request` -> publish), `reg` its argument, and `pc = "idle"` means that the
mutex is free. A step ends where the code calls out (publish, SEC) or calls the
next `*_locked` function. Each early return is an action of its own
(`do_request_blocked`, `do_ack_exhausted`, ...). `Crash` may happen at any step,
and is `initialize` from the record on `disk`.

`mem` is what `persist_locked` copies into the record, `vol` what lives in memory
only, `disk` what was last saved. `sec[r]` is SEC's journal for request id `r`,
`cloud[r]` VMD's batch. `sent` and `answers` only grow: a message may be handled
late, several times, or never. Request ids are numbers in order of generation.
`sends` counts the Requests of the current attempt and exists for the property
about the budget.

Abstractions:

* time is reduced to the comparisons the code makes: a deadline is `none`,
  `running` or `passed`; the lease has four ages (importable, too short, expired,
  past D); a back-off that has not elapsed is the action `TickWaits`, so
  `next_retry_ms_` is not a variable;
* a fingerprint is the pair of the input version and the set of batches committed
  in SEC (the business key versions); hashing is left out;
* whether `reconcile_obs_suppressed_locked` suppresses a write is left open:
  both outcomes are explored;
* the isolation of late results by generation and fingerprint (`awaiting_*`) adds
  nothing to the comparison of request ids and is left out; so are
  `SUPERSEDED_LOCAL`, `import_incomplete` and the branch of `do_import_locked` for
  `import_attempted_`, which no path reaches, the `DISABLED` state, and the
  records of schema version 3 in `EVIDENCE_CONFLICT`;
* of a readiness event it counts whether the session or the capability is lost, replaced
  (epoch, connection or certificate changed, a gap in the sequence), back, or only
  reported again; each sets `capability_event_seen_`, a loss or replacement also drops the
  identity. The epoch and sequence numbers only decide which of these it is;
* SEC's answer to the capability query is one of: all flags, some flags missing, another
  contract, none. `vol.contract` keeps it (`readiness_`), `vol.epoch` the local epoch;
* the clock is synchronised or not (`clock_check_ok`), and may change between handlers;
* `attempt_count` and the NOT_FOUND count saturate at the value they are compared
  with;
* the stabilization window is longer than SEC's import deadline plus the grace for
  late callbacks (`stabilization_window_ms_locked` adds exactly these), so it does
  not elapse over a pending import. This is the assumption behind
  `ProofOfNoSideEffect`, stated in `WindowElapses`.

Faults are counted: an action that needs a misbehaving environment carries
`Blame(kind)`, and a configuration allows kinds and a number.

`KeyProvLifecycle` is a pure function of the facts at hand, so it is an operator and has
no state. No code but the tests calls `keyprov_lifecycle_decide`, although
`keyprov_lifecycle.h` says that the coordinator executes its decisions. So the two are
compared where it matters: `RecoversAsDecided` evaluates the table at the steps that
cannot be taken back. The facts it is given are SEC's journal as it is (not what the
coordinator believes of it), the clock, the ledger, and two observations, as the table
has them: what SEC last said of its contract, and what VMD last said of the batch. A
wrong word of VMD is thus a wrong input to both. It is not claimed for the other steps:
the coordinator for example imports again after an UNKNOWN, where the table only
queries.

`KeyProvBundle` keeps what `KeyProvCoordinator` abstracts away. A field of a message is
its size, on either side of the limit the code compares it with; a bundle is a
sequence of items, whose content stands for the bytes; SEC's report repeats the items
or contradicts them. VMD may deliver any bundle with one wrong field, and two different
bundles under one request id. Time is a number; the clock the code reads is off by at
most `skew`. Budgets, fingerprints and successors are left to `KeyProvCoordinator`.

### Gateway

Each call of `exchange()` is a thread with a `pc`; a step is what happens under one
mutex. The MQTT callback is three steps, the test of `stopping_`, the lookup and the
completion. The entry belongs to the call and the table to the message id, so confusion
between two calls with one id is visible. `wire` says whether the message of a call went
out. One that did may be answered at any time, any number of times, as a QoS 1 message in
the daemon's queue can be: nothing in the code bounds an answer. `entry[c].past` is a
history variable: the window of the call's tombstone (`:456-459`, twice the exchange
timeout and at least 5 s) is over.
`UnknownPublish` and `SlowPublish` are properties of the MQTT daemon: a publish
whose outcome is unknown, and one that outlasts deadline, grace and tombstone.
`Limits` are the possible sizes of the table. `validate_envelope` is a choice between
valid and invalid; EVENT downlinks do not touch the table and are part of
`TspApplication`; counters are left out; `start` after `stop` is not modelled.

`MessageExchange` speaks of the status of a call, its outcome and the messages that went
out. The mapping reads them off the thread's `pc`, its entry and `wire`. An answer
counts for a call if it is to the call's own message, to one of an earlier call that has
returned, or if `stop()` has cleared the table (`cleared`); never to a message that did
not go out, and never to one of a call still in progress. A step of the sweeper or of
`stop()` may decide several calls, so an abstract step is stated call by call.

### Registrar

A snapshot is a digest and a generation. `submit_mutex_` is held from the load of
the store to the save, so `apply_catalog_change` is two steps, submission and save,
between which only a crash can come. The daemon is external: it accepts, refuses, or
the result is unknown and it did either; it refuses another digest under the
generation it holds. `took` is the history of what it accepted, `lost` of the snapshots
it may hold and the store does not know. `ready` says whether the store can be used;
it is chosen at the beginning and stays. An invalid catalogue changes nothing and is
no step. `save` writes generation and digest and then flushes; that the three take effect
together is assumed of the framework store.

### Application, publisher, IPC

The main thread is a `pc` over the stages of `initialize()`, `rollbackInitialization()`
and `cleanup()`. It fails where a call it makes can: before the MQTT adapter is kept, in
`initializeLocal`, and when the IPC server does not start. The branch for a failing
`startMqttIntegration` (`tsp_application.cpp:201`) is left out: what that calls returns
true, as soon as `initializeLocal` has succeeded. `alive` is the set of objects that
exist. The MQTT thread walks from the adapter through the route dispatcher to a handler
and with an EVENT to the publisher; each place names the objects it uses, and a step on
one that is gone is undefined behaviour: the process ends, or the callback returns. The
worker's wait on the condition variable is a state of its own, entered under the mutex
after the test of the predicate; `stop()` clears `running_` without the mutex, so its
notification may come before the wait and is then lost (`MissedNotify`). In the IPC
module each try of a call is a request of its own, and one the transport reported as
failed may still be executed; the retry policy allows a second try of read-only methods
only.

## 3. Runs

Passing runs:

| Run | Bounds | Shows |
|---|---|---|
| `keyprov_recovery` | empty store, 1 crash, 1 fault (SEC, batch, clock, publish), 2 Requests, the lease runs | `TypeOK`, `ActiveHasKeys`, `AckAttested`, `ImportIntentDurable`, `RequestOvershootByCrash`, `SuccessorsWithinChain`, `SupersedePersistedFirst`, `RecoversAsDecided` |
| `keyprov_evidence` | empty store or legacy record, 2 observations, 2 faults (SEC, VMD, batch, inputs) | `ProofOfNoSideEffect`, `NoOrphanImport`, `HardConflictHolds` |
| `keyprov_progress` | empty store or legacy record, no successors, 1 fault (session, SEC, publish, batch), the Request window runs, nobody has to answer | `WaitResponseLeft`, `StatusRetried`, `StabilizationEnds` |
| `keyprov_loss_free` | empty store, 1 crash, the chain window runs, nothing lost for ever | `EventuallySettled`, `ImportedBecomesActive`, `ActiveImpliesAckSent` |
| `keyprov_bundle` | 2 contents, leases {none, 4, 5}, clock off by 1, time up to 8 | `EncodersAccept`, `AckReportsJournal`, `AckInTime`, `ImportInTime` |
| `gateway` | 2 calls, 1 id, table of 1 or 2, 2 sweepers, publishes with unknown outcome | `TypeOK`, `AnsweredByOwn`, `WaiterListed`, `OutcomeStable`, `ImplementsExchange`, `ExchangeEnds` |
| `registrar` | 3 catalogues, 2 changes, 1 restart, store usable or not | `TypeOK`, `GenerationNamesDigest`, `ChangeSubmittable`, `SnapshotHeld` |
| `application` | 2 services, 1 queued event each, 3 events, 1 client | `TypeOK`, `EventsConserved`, `CountMatchesQueue`, `PushHitsServer`, `RequestTargetsAlive`, `RollbackComplete`, `ExchangedAtMostOnce`, `EventsReachWorker`, `ShutdownEnds` |

The bounds of key provisioning are small numbers of faults and crashes, since every
defect met needed at most three of them, and limits of 1 to 3, since the code
compares counters with limits and with nothing else. One successor (`ChainIds = 1`)
exercises the whole chain: announce, create, exhaust. Two observations are the least
for which "consecutive" means something, two Requests the least that leave one for a
freshen. A crash is combined with the faults that leave an import open or a batch dead,
with a clock that loses its synchronisation and with a rejected publish; changed inputs,
wrong VMD answers and a lost session are met without a crash, in `keyprov_evidence` and
`keyprov_progress`. `keyprov_orphan` takes SEC's own epoch (`SnapshotEpoch = 1`), which keeps
its search short. The waits of a successor are those of a first attempt, so
`keyprov_progress` does without successors. In `keyprov_bundle` two contents are what two
bundles under one id need, and the leases lie on both sides of every comparison for
times up to 8. In the gateway one message id is the hard case, since calls with
different ids only share the table's size; the proofs cover any number of calls and
ids. Two services with room for one event each and three events fill one service
and leave the other running. `CHECK_DEADLOCK FALSE` stands only in the configurations of
the gateway and the application: finished calls, a stopped gateway and an ended process
stop.

Runs that end in a violation state what a comment or a header of the repository
says, and show what the code does instead (`findings` in `PROJECT.json`):

| Run | Says | Does |
|---|---|---|
| `keyprov_orphan` | an import makes the resolution UNRESOLVED | only the first one does; the attempt is replaced over a live import |
| `keyprov_refused` | a refused import result gets no successful ACK | it does after the next check, from SEC's journal |
| `gateway_reuse` | a late answer does not complete a reused id | it does after a publish with unknown outcome |
| `application_callback` | stopping the gateway cancels the downlink callback | the subscription outlives the dispatcher and the relay |

Where the code does less than a property would ask, the property says what it does
achieve and names the exception. These exceptions were met with TLC:

* `RequestOvershootByCrash`: the Request is charged after the publish although
  `keyprov_lifecycle.h` says before, so each crash may cost one more.
* `ActiveImpliesAckSent` fails if the session is lost in ACK_PENDING before the
  restart: the state is saved as WAIT_CLOUD and `recovering_ack_` is not set again. It
  also fails from a legacy record if a StatusResponse arrives after the restart and
  before the identity is read again.
* `StatusRetried` is about an armed deadline. `invalidate_identity_locked` clears
  the deadline and leaves `reconcile_status_sent_` set, and the StatusRequest then
  stays outstanding. It also fails if VMD answers UNKNOWN: once the absence of side
  effects is proven, the cached answer is applied on every tick and VMD is not asked
  again (`"cloud"` is not among the faults of `keyprov_progress`).
* `StabilizationEnds` is about an open window: the one a restart should reopen
  (comment at `v2c_key_provisioning_coordinator.cpp:256`) is never opened again
  (`:1605`). A key bundle kept in memory after a refused import holds the
  stabilization up as well.
* A candidate that cannot be built after a supersede leads back to a Request under
  the superseded id, and a record saved before the first attempt is restored as a
  legacy record without request id.
* `SupersedePersistedFirst` exempts a legacy record. If its StatusRequest is rejected,
  `publish_keyprov_locked` overwrites the reconciliation state, although the comment in
  `send_status_request_locked` says that the reconciliation is kept, and the next
  check creates a new attempt over a legacy import that may still commit.
  `keyprov_evidence`, which checks `NoOrphanImport` from a legacy record too, has no
  rejected publish.
* `HardConflictHolds` allows the first import of the attempt. HARD_BLOCKED still takes
  a StatusResponse; one that reports an idempotency conflict leads to
  BLOCKED_AWAIT_CLOUD_TERMINATION, a rejected publish of the next StatusRequest from
  there to WAIT_CLOUD, and the next check to a Request and an import, which
  `do_import_locked` begins by setting the resolution back to UNRESOLVED, although the
  comment at `v2c_key_provisioning_coordinator.cpp:1993` leaves the conflict to people. A
  legacy record is exempt as in `SupersedePersistedFirst`.
* `RecoversAsDecided` holds a supersede that a StatusResponse leads to only to the rules
  below the first two. Rule 1 (`keyprov_lifecycle.h:151`) allows no new id while the clock
  is not trusted or the contract not ready. `tick_locked` tests both (`:1881`, the gate)
  before it reaches the reconciliation; `handle_routed_downlink` does not, and goes through
  `handle_reconcile_status_locked` and `apply_cloud_matrix_locked` to the supersede
  (`:759`, `:1249`, `:1324`, `:1425`). Held to all rules (`SupersedeFacts == Facts(vol)`) the
  property fails in `keyprov_recovery`, in two ways: the clock loses its synchronisation
  while the status is asked for, or a restart comes in between and SEC has not been asked
  for its contract; then a StatusResponse arrives that says NOT_FOUND or FAILED, and a
  successor is announced.
* `AnsweredByOwn` protects a message id until the window of its tombstone is over, and
  against calls not told Unknown. An answer to a call that was told Unknown
  (`gateway_reuse`), one that comes after the window (`vehicle_message_gateway.cpp:456`;
  5 s by default, while a QoS 1 message in the daemon's queue may be answered later), and
  one after `stop()` has cleared the tombstones may complete another call that uses the
  id; a caller that repeats a call after a timeout keeps its id (`tsp_client.cpp:5`). The
  comment at `vehicle_message_gateway.cpp:566` claims more: that a late answer never does.
  `LateAnswerIgnored` states the claim, and `gateway_reuse` refutes it by the first way.
* `WaiterListed` fails if a `publishRoute` outlasts deadline, grace and tombstone
  window together (`SlowPublish`), since the sweeper then evicts the entry of a call
  that has not returned. A call that lists itself after `stop()` has converged the table
  returns at its deadline only.
* `GenerationNamesDigest`, `ChangeSubmittable` and `SnapshotHeld` are about a usable
  store: `apply_catalog_change` takes the generation from the store and not from
  memory. `GenerationNamesDigest` exempts snapshots lost in a crash between submission
  and save (`subscription_registrar.cpp:283`): the next change reuses their generation,
  and a daemon that holds one keeps the registrar DEGRADED. `SnapshotHeld` is about a
  loss the monitor has seen: one between two polls goes unnoticed. A restart
  returns to the configured catalogue under a new generation.
* `ShutdownEnds` exempts a lost notification of `TspEventPublisher::stop()`, after
  which the join waits for the next event.
* `EventsReachWorker` is about events accepted while the publisher runs. One that
  arrives after `running_` is cleared is still queued and may stay there, although a
  comment says that new downlinks are refused. A full queue drops the event.
* `ExchangedAtMostOnce` is about one call of `exchange` in the client; the outcome it
  reports may be Unavailable although the message went out, and the dispatcher's early
  refusals carry no outcome, so the client reports Unknown.

## 4. Fairness

* Coordinator: the worker ticks for ever and competes for the mutex with handlers
  that are finite in number per message, hence strong fairness of a tick that has
  something to do; a started handler runs to its end; deadlines and windows
  pass; a lost session comes back; SEC finishes an import. Nothing is assumed of
  the network or of VMD except in `LossFreeSpec`, where deliveries and VMD are fair.
* Gateway: the threads run, publishRoute returns, deadlines pass. Nobody has to answer,
  sweep or stop, and the callback may stay where it is.
* Registrar: the monitor polls, the back-off passes, and a daemon that is asked for
  ever accepts once (`SF` of an accepted submission).
* Application: the main thread, the MQTT callback, the requests in the server and the
  worker run. Nobody has to send a signal, an event or a request, the transport need not
  fail, and no spurious wakeup is assumed.

## 5. Proofs

The theorems hold for every value of the constants under the assumptions stated in
the modules (limits are naturals, the Request limit, the number of observations and the alert
threshold are at least 1).

* `KeyProvisioningProofs!TypeCorrect`: `Spec => []TypeOK`. `TypeOK` is not
  inductive: a counter stays below its limit only because the step that charges it
  runs after the step that tested it, and an id is generated only where the chain
  has room. The inductive invariant `TypeInv` adds `CallInv` (budget left where a
  charge follows), `AttemptInv` (the store agrees with memory on what names the
  attempt, so a restart changes nothing there) and `ChainInv` (`lastId` against the
  charges of the chain). One lemma per action.
* `KeyProvAckProofs!AckSafety`, `ActiveSafety`: the invariant adds `ProofInv` (the
  proof in memory, or returned by the import and not yet there, is about a batch SEC
  has committed) and `CloudInv` (VMD's batch is active, and VMD says so, only after an
  ACK), so that a StatusResponse `ACTIVE` or an AckResult is evidence of keys in SEC.
* `KeyProvAckProofs!AckNotSkipped`: `ActiveImpliesAckSent`, for any number of restarts, under
  `LossFree`: no fault of the session, the publish or SEC, a lease that lasts, at least one
  ACK allowed and no legacy record. VMD is free to refuse, terminate and contradict, the
  clock to be off and the identity to change. Each hypothesis is needed: without any one
  of them TLC finds a run to ACTIVE with no ACK (section 3 has two). `WayInv` is about the
  time before the first ACK. A committed import is then in one of four places
  (`OnTheWay`): IMPORTING, in memory and store; ACK_PENDING inside the handler that
  sends the ACK; or, after a restart, WAIT_CLOUD and CHECKING with `recovering_ack_` set and
  ACK_PENDING in the store. Every other step is possible only off the way (`Detour`),
  leaves the import in its place (`Stays`) or is ruled out.
* `KeyProvRecoveryProofs`: the properties of the store and of single steps. `RecoveryInv`
  says what memory and store agree on at every moment: the intent to import is saved
  before SEC is called (`IntentInv`, for `IntentDurability`), no function that may replace
  the attempt runs under a hard conflict, in memory or after a restart (`HardInv`, for
  `HardConflictSafety`), ids grow and SEC knows none beyond the current one (`IdInv`, for
  `SupersedeDurability`), and a Request not charged is being published or was followed by a
  crash (`SendInv`, for `RequestBound`). Most actions are `Ordinary`: they leave all this
  alone, which is shown once per action, and that it suffices is shown once. The others
  (a Request, evidence from SEC, moves of SEC, the two halves of a supersede, a crash) have
  a lemma each. `SuccessorBound` starts from an empty store: a legacy record holds an id
  that the chain has not counted, and costs one more.
* `KeyProvRecoveryProofs!ProofUnderOneRequest`, `SideEffectProof`, `OnlyLegacyOrphans`,
  `OrphanSafety`: `ProofOfNoSideEffect` and `NoOrphanImport` are false in general
  (`keyprov_orphan`): `do_import_locked` resets the resolution with the first import only
  (`:2238`), so that a bundle a further Request (a freshen, say) brings is imported under a
  proof, or under an open window, that is about the import before. The theorems show that
  this step is all that is wrong. `NoBundleAgainstEvidence` says that it is not taken: no
  Response is accepted for an attempt that has imported and whose import is proven absent or
  is being stabilized. Under it, and for any limits, any number of Requests and imports
  under one id, any faults and crashes, `Sound` is an invariant: who holds a bundle has
  no window and no proof (`BundleSound`), so a window that has elapsed over SEC, and a
  proof, stay true (`ProofSound`). It is not implied by a limit on Requests: a second Request
  after a Response that was refused, or an import that failed, is within it. An answer to
  a freshen is not, since a freshen needs the proof; that the freshen itself is only
  spent where it may be is in `RecoveryDecisions`. `ProofUnderOneRequest` needs no hypothesis
  but one about the state: while one Request was charged to the attempt, under any limit,
  after the import nobody waits for a Response (`LastImport`), so there is no such bundle.
  `ImportInv` is what both rest on: a wait for a Response needs a charge (`ChargeInv`), there
  is a window only after an import (`UnresolvedInv`), an attempt without snapshot is not
  requested (`SnapshotInv`). `ReplaceInv` adds that only a proof leads to a successor. A legacy
  record can be replaced without one (section 3): `OnlyLegacyOrphans` allows for its id and
  no other, whatever the store holds at first, and `OrphanSafety` is `NoOrphanImport` itself
  when it holds none.
* `KeyProvRecoveryProofs!ReplacementDecision`, `FreshenDecision`: for every record of
  facts, when `keyprov_lifecycle_decide` answers with a successor and when with a freshen.
  The table is an ordered list of rules of which the first that applies decides
  (`FirstRule`); the theorems say what is left once the rules before are accounted for.
* `KeyProvRecoveryProofs!RecoveryDecisions`, `RecoveryAsDecided`: every replacement and every
  freshen is one the table decides on SEC's journal, the clock, the contract, the ledger and
  the last word of VMD (section 2), whatever ticks, messages and restarts ago the evidence
  was gathered, but for the first two rules after a StatusResponse (section 3). `DecisionInv`
  says what the functions of a reconciliation rest on when they run, among it that one
  begun by a tick has a synchronised clock and a ready contract to its end. The first
  theorem holds under any limits for each step at which SEC has nothing of the attempt, or
  one Request at most was charged to it. That is needed: after a second import SEC may have
  committed under a recorded proof (`keyprov_orphan`), and the table, which looks at SEC
  first, says BLOCKED for a FAILED batch where the coordinator replaces it. The second
  theorem is `RecoversAsDecided` itself, under any limits and `NoBundleAgainstEvidence`.
* `VehicleMessageGatewayProofs`: `BaseInv` (types, and where a thread is against its
  message id and entry) gives `GatewayTyped` and `OutcomeStability`. `PlaceInv` says
  that a message id is held by one call at a time, from its listing to its
  tombstone's end, and gives `WaiterSafety` when publishes are not slow. `OwnInv`
  says that an answer in flight, wherever the callback has come with it, meets the call it
  answers, or is to a message whose id nothing protects any longer (`Lapsed`: the caller was
  told Unknown, the window is over, or `stop()` has cleared the table). It gives
  `AnswerSafety` when publishes are not slow; answers themselves may come at any time.
  `LateAnswerSafety` says what the comment at `:566` would need: that no publish reported
  as not accepted goes out, that none is slow, and (`AnswerInTime`, a hypothesis on the
  behaviour) that no answer is handled after the window or after `stop()`. The code enforces
  none of the three; `gateway_reuse` shows what happens without the first.
* `VehicleMessageGatewayProofs!Refinement`: `Spec => ImplementsExchange`, the abstract
  specification under the mapping, when publishes are not slow and with no bound on
  answers. `OwnInv` is what shows that an outcome taken from an answer is one
  `MessageExchange` allows: the call's own, or to the message of a call that had returned,
  or any once `stop()` has cleared the table.
* `KeyProvBundleProofs`: `BundleInv` says that SEC imports once and that the proof in
  memory and the last ACK repeat its journal (`JournalInv`), that a kept Response named
  every purpose by an id the decoder accepted (`BindingInv`), that what was bound can be
  encoded (`BoundInv`), and that D is that of the lease on record (`LeaseInv`). The two
  properties about time need `skew < import_min` and `skew < ack_grace`, the assumption
  under which the code subtracts them.
* `SubscriptionRegistrarProofs`: `GenerationNamesDigest` is not inductive. The invariant
  adds that with a usable store the running snapshot is the stored one and a pending one
  has the next generation (`RunsStored`), and that whatever the daemon took is stored,
  older, pending or lost (`TookKnown`), so that the next generation is free;
  `AcceptedKnown` says the same of the accepted generation, for `ChangesSubmittable`.
* `TspEventPublisherProofs!PublisherInvariance`: `PubSpec => []PubInv`, from lemmas on the
  places of a service in a queue after an Append and a Tail. `PubNext` is every use an
  owner can make of the publisher.
* `TspApplicationProofs`: `ApplicationUsesPublisher` shows that the composition takes only
  steps of `PubSpec`, so `EventConservation` and `CountConsistency` are the publisher's. For
  the rest `AppInv` says for each stage of the main thread which objects exist
  (`ObjectInv`), that requests are inside only while the server listens and that it
  listens only while all they use exists (`ListenInv`, for `RequestSafety`), that the
  publisher is stopped before its server goes (`PublisherInv`, for `PushSafety` and
  `RollbackSafety`), and how far each call has come (`CallInv`, for `CallAtMostOnce`).

Only model-checked: liveness (the prover has no fairness reasoning), and outside the
hypotheses above `NoOrphanImport` from a legacy record (`keyprov_evidence`) and
`RecoversAsDecided` with two Requests (`keyprov_recovery`), within the bounds of those runs.

## 6. Not modelled

* Readiness bits, network status, logging, error codes and `main`: lookups, constants
  and I/O without state of their own.
* A subscription store whose read throws although it is usable (`subscription_store.cpp:29`):
  the registrar then starts at generation 1 again, as from an empty store, and the
  properties of the registrar are about a store that works.
* JSON, YAML, protobuf and hashing: a record is its fields, a digest its content. The
  decoder's limits are modelled; those that `keyprov_protocol.h` states for the strings of
  a ProtocolError are not enforced by the code and are not in the model.
* Store migrations between schema versions and records of version 3.
* A key provisioning store that cannot write: it would void every property about
  restarts, and the code only logs it.
* The Status and SEC-query budgets, which the coordinator never charges, and the
  uncertainty of the clock, which production leaves at 0.
* The subscription wrapper of the client and the check of protobuf's runtime.
* `start` after `stop`, of the gateway and of the publisher: the application does neither.

## 7. Plan

Every safety property of the passing runs has a theorem, some under the hypotheses named
in section 5. What is left is beyond the prover: the liveness properties.
