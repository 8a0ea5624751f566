------------------------ MODULE VehicleMessageGateway ------------------------
(***************************************************************************)
(* The request/response correlation of vehicle_message_gateway.cpp.        *)
(*                                                                         *)
(* Each call of exchange() is a dispatcher thread that lists an entry      *)
(* under its message id, publishes, and blocks until the entry is          *)
(* terminal.  Four parties write the entries: the thread itself (timeout), *)
(* the MQTT callback (handle_routed_downlink), the sweepers, and stop().   *)
(* table_mutex_ guards the table and the tombstones, each entry has its    *)
(* own mutex; a step below is what one of them does under one mutex.       *)
(*                                                                         *)
(* Two calls may use the same message id.  The entry belongs to the call   *)
(* (a shared_ptr), the table to the id, which is where they can be         *)
(* confused.                                                               *)
(***************************************************************************)
EXTENDS FiniteSets, Naturals

CONSTANTS
    Calls,           \* the calls of exchange()
    MsgIds,          \* the message ids the callers choose from
    NoCall, NoMsg,
    Limits,          \* the values max_in_flight may be configured to
    Workers,         \* the sweepers
    ShardOf,         \* the sweeper that hashes to a message id
    UnknownPublish,  \* publishRoute may fail although the message goes out
    SlowPublish      \* publishRoute may outlast deadline, grace and tombstone

ASSUME GatewayAssumption ==
    /\ NoCall \notin Calls /\ NoMsg \notin MsgIds
    /\ Limits \subseteq Nat
    /\ ShardOf \in [MsgIds -> Workers]
    /\ UnknownPublish \in BOOLEAN /\ SlowPublish \in BOOLEAN

VARIABLES
    max_in_flight,   \* config_.max_in_flight
    phase,   \* running_, stopping_ and the progress of stop()
    pc,      \* where the thread of a call is
    msg,     \* the message id of a call
    entry,   \* its CorrelationEntry
    table,   \* table_: message id -> the call listed under it
    tomb,    \* recent_terminal_
    wire,    \* whether the message of a call went out
    dl,      \* the MQTT callback: the answer it carries, the entry it found
    result   \* what exchange() returned

vars == <<max_in_flight, phase, pc, msg, entry, table, tomb, wire, dl, result>>

Phases == {"new", "running", "stopping", "converged", "stopped"}
Outcomes == {"Accepted", "PayloadTooLarge", "Timeout", "Unknown", "Stopping"}
Results == Outcomes \cup {"Invalid", "Rejected", "Conflict"}
Entry == [outcome: Outcomes \cup {"pending"}, accepted: BOOLEAN, due: BOOLEAN,
          aged: BOOLEAN, answer: Calls \cup {NoCall}, past: BOOLEAN]
NewEntry == [outcome |-> "pending", accepted |-> FALSE, due |-> FALSE,
             aged |-> FALSE, answer |-> NoCall, past |-> FALSE]
Places == {"new", "valid", "publishing", "accepted", "rejected", "unknown",
           "waiting", "woken", "done"}
Idle == [entry |-> NoCall, from |-> NoCall]

(* Every variable stays in its domain; in particular exchange() never        *)
(* returns an undecided outcome.                                             *)
TypeOK ==
    /\ max_in_flight \in Limits
    /\ phase \in Phases
    /\ pc \in [Calls -> Places]
    /\ msg \in [Calls -> MsgIds \cup {NoMsg}]
    /\ entry \in [Calls -> Entry]
    /\ table \in [MsgIds -> Calls \cup {NoCall}]
    /\ tomb \in [MsgIds -> {"none", "fresh", "due"}]
    /\ wire \in [Calls -> {"none", "sent"}]
    /\ dl \in [entry: Calls \cup {NoCall}, from: Calls \cup {NoCall}]
    /\ result \in [Calls -> Results \cup {"none"}]

Init ==
    /\ max_in_flight \in Limits
    /\ phase = "new"
    /\ pc = [c \in Calls |-> "new"]
    /\ msg = [c \in Calls |-> NoMsg]
    /\ entry = [c \in Calls |-> NewEntry]
    /\ table = [m \in MsgIds |-> NoCall]
    /\ tomb = [m \in MsgIds |-> "none"]
    /\ wire = [c \in Calls |-> "none"]
    /\ dl = Idle
    /\ result = [c \in Calls |-> "none"]

stopping == phase \in {"stopping", "converged", "stopped"}
terminal(c) == entry[c].outcome # "pending"
Listed == {m \in MsgIds : table[m] # NoCall}

-----------------------------------------------------------------------------
(* exchange() *)

Goto(c, p) == pc' = [pc EXCEPT ![c] = p]
Returns(c, r) == Goto(c, "done") /\ result' = [result EXCEPT ![c] = r]

(* The gateway is stopping, or validate_envelope refuses the request. *)
ExchangeDeclined(c) ==
    /\ pc[c] = "new"
    /\ \/ stopping /\ Returns(c, "Stopping")
       \/ ~stopping /\ Returns(c, "Invalid")
    /\ UNCHANGED <<max_in_flight, phase, msg, entry, table, tomb, wire, dl>>

ExchangeBegin(c, m) ==
    /\ pc[c] = "new"
    /\ ~stopping
    /\ msg' = [msg EXCEPT ![c] = m]
    /\ Goto(c, "valid")
    /\ UNCHANGED <<max_in_flight, phase, entry, table, tomb, wire, dl, result>>

table_full == Cardinality(Listed) >= max_in_flight

(* Mutant: an active message id may be used again. *)
identity_conflict_recent_only(m) == tomb[m] # "none"

identity_conflict(m) == table[m] # NoCall \/ tomb[m] # "none"

ExchangeRefused(c) ==
    /\ pc[c] = "valid"
    /\ \/ table_full /\ Returns(c, "Rejected")
       \/ ~table_full /\ identity_conflict(msg[c]) /\ Returns(c, "Conflict")
    /\ UNCHANGED <<max_in_flight, phase, msg, entry, table, tomb, wire, dl>>

ExchangeList(c) ==
    /\ pc[c] = "valid"
    /\ ~table_full /\ ~identity_conflict(msg[c])
    /\ table' = [table EXCEPT ![msg[c]] = c]
    /\ Goto(c, "publishing")
    /\ UNCHANGED <<max_in_flight, phase, msg, entry, tomb, wire, dl, result>>

(* publishRoute returns: accepted by the MQTT daemon, refused, or unknown. *)
PublishReturns(c) ==
    /\ pc[c] = "publishing"
    /\ \/ Goto(c, "accepted")
       \/ wire[c] = "none" /\ Goto(c, "rejected")
       \/ UnknownPublish /\ Goto(c, "unknown")
    /\ UNCHANGED <<max_in_flight, phase, msg, entry, table, tomb, wire, dl, result>>

(* Mutant: the outcome of the entry is returned for that of the publish. *)
ExchangeAbandon_undecided(c) ==
    /\ pc[c] \in {"rejected", "unknown"}
    /\ table' = [table EXCEPT ![msg[c]] = NoCall]
    /\ Returns(c, entry[c].outcome)
    /\ UNCHANGED <<max_in_flight, phase, msg, entry, tomb, wire, dl>>

(* Mutant: a publish of unknown outcome is reported as refused. *)
ExchangeAbandon_as_rejected(c) ==
    /\ pc[c] \in {"rejected", "unknown"}
    /\ table' = [table EXCEPT ![msg[c]] = NoCall]
    /\ Returns(c, "Rejected")
    /\ UNCHANGED <<max_in_flight, phase, msg, entry, tomb, wire, dl>>

(* Not accepted: the entry is erased, whoever is listed there by now. *)
ExchangeAbandon(c) ==
    /\ pc[c] \in {"rejected", "unknown"}
    /\ table' = [table EXCEPT ![msg[c]] = NoCall]
    /\ Returns(c, IF pc[c] = "rejected" THEN "Rejected" ELSE "Unknown")
    /\ UNCHANGED <<max_in_flight, phase, msg, entry, tomb, wire, dl>>

ExchangeAccepted(c) ==
    /\ pc[c] = "accepted"
    /\ entry' = [entry EXCEPT ![c].accepted = TRUE]
    /\ Goto(c, "waiting")
    /\ UNCHANGED <<max_in_flight, phase, msg, table, tomb, wire, dl, result>>

TimedOut(e) == [e EXCEPT !.outcome = IF e.accepted THEN "Timeout" ELSE "Unknown"]

(* Mutant: the thread waits for the sweeper to time it out. *)
ExchangeWakes_when_told(c) ==
    /\ pc[c] = "waiting"
    /\ terminal(c)
    /\ Goto(c, "woken")
    /\ UNCHANGED <<max_in_flight, phase, msg, entry, table, tomb, wire, dl, result>>

(* wait_until returns: the entry is terminal, or the deadline has passed. *)
ExchangeWakes(c) ==
    /\ pc[c] = "waiting"
    /\ \/ terminal(c) /\ UNCHANGED entry
       \/ /\ ~terminal(c) /\ entry[c].due
          /\ entry' = [entry EXCEPT ![c] = TimedOut(@)]
    /\ Goto(c, "woken")
    /\ UNCHANGED <<max_in_flight, phase, msg, table, tomb, wire, dl, result>>

(* Mutant: the message id is not protected against late answers. *)
ExchangeReturns_unprotected(c) ==
    /\ pc[c] = "woken"
    /\ table' = [table EXCEPT ![msg[c]] = NoCall]
    /\ Returns(c, entry[c].outcome)
    /\ UNCHANGED <<max_in_flight, phase, msg, entry, tomb, wire, dl>>

(* The entry leaves the table for the tombstones. *)
ExchangeReturns(c) ==
    /\ pc[c] = "woken"
    /\ table' = [table EXCEPT ![msg[c]] = NoCall]
    /\ tomb' = [tomb EXCEPT ![msg[c]] = "fresh"]
    /\ Returns(c, entry[c].outcome)
    /\ UNCHANGED <<max_in_flight, phase, msg, entry, wire, dl>>

-----------------------------------------------------------------------------
(* handle_routed_downlink, a RESPONSE: the test of stopping_, the lookup     *)
(* under table_mutex_, the completion under the mutex of the entry.  The     *)
(* answer is to call c; only its correlation id tells whom to complete.      *)

DownlinkRouted(c) ==
    /\ dl = Idle
    /\ phase = "running"
    /\ wire[c] = "sent"
    /\ dl' = [entry |-> NoCall, from |-> c]
    /\ UNCHANGED <<max_in_flight, phase, pc, msg, entry, table, tomb, wire, result>>

(* Nobody is listed under the correlation id: the answer is dropped. *)
DownlinkLookup ==
    /\ dl # Idle /\ dl.entry = NoCall
    /\ dl' = IF table[msg[dl.from]] = NoCall THEN Idle
             ELSE [entry |-> table[msg[dl.from]], from |-> dl.from]
    /\ UNCHANGED <<max_in_flight, phase, pc, msg, entry, table, tomb, wire, result>>

(* Mutant: the entry found by the lookup is completed without a second look. *)
DownlinkCompletes_unchecked ==
    /\ dl.entry # NoCall
    /\ dl' = Idle
    /\ entry' = [entry EXCEPT ![dl.entry].outcome = "Accepted",
                              ![dl.entry].answer = dl.from]
    /\ UNCHANGED <<max_in_flight, phase, pc, msg, table, tomb, wire, result>>

(* Terminal already, another service, larger than max_response_bytes, or     *)
(* the answer the caller waits for.                                          *)
DownlinkCompletes ==
    /\ dl.entry # NoCall
    /\ dl' = Idle
    /\ LET c == dl.entry IN
       \/ UNCHANGED entry
       \/ /\ ~terminal(c)
          /\ entry' = [entry EXCEPT ![c].outcome = "PayloadTooLarge"]
       \/ /\ ~terminal(c)
          /\ entry' = [entry EXCEPT ![c].outcome = "Accepted", ![c].answer = dl.from]
    /\ UNCHANGED <<max_in_flight, phase, pc, msg, table, tomb, wire, result>>

-----------------------------------------------------------------------------
(* sweeper_loop: one pass over the shard of a worker.  Entries past their    *)
(* deadline become terminal, entries terminal for longer than the grace are  *)
(* moved to the tombstones, and tombstones past their window are removed.    *)

Expired(w) == {c \in Calls : \E m \in MsgIds :
                 /\ table[m] = c /\ ShardOf[m] = w
                 /\ ~terminal(c) /\ entry[c].due}
Evicted(w) == {m \in MsgIds : /\ ShardOf[m] = w /\ table[m] # NoCall
                              /\ terminal(table[m]) /\ entry[table[m]].aged}

Sweep(w) ==
    /\ phase \in {"running", "stopping", "converged"}
    /\ entry' = [c \in Calls |-> IF c \in Expired(w) THEN TimedOut(entry[c]) ELSE entry[c]]
    /\ table' = [m \in MsgIds |-> IF m \in Evicted(w) THEN NoCall ELSE table[m]]
    /\ tomb' = [m \in MsgIds |-> IF m \in Evicted(w) THEN "fresh"
                                 ELSE IF tomb[m] = "due" THEN "none" ELSE tomb[m]]
    /\ UNCHANGED <<max_in_flight, phase, pc, msg, wire, dl, result>>

-----------------------------------------------------------------------------
(* start() and stop() *)

Start ==
    /\ phase = "new"
    /\ phase' = "running"
    /\ UNCHANGED <<max_in_flight, pc, msg, entry, table, tomb, wire, dl, result>>

StopBegin ==
    /\ phase = "running"
    /\ phase' = "stopping"
    /\ UNCHANGED <<max_in_flight, pc, msg, entry, table, tomb, wire, dl, result>>

StopConverge ==
    /\ phase = "stopping"
    /\ phase' = "converged"
    /\ entry' = [c \in Calls |->
                   IF ~terminal(c) /\ \E m \in MsgIds : table[m] = c
                   THEN [entry[c] EXCEPT !.outcome = "Stopping"] ELSE entry[c]]
    /\ UNCHANGED <<max_in_flight, pc, msg, table, tomb, wire, dl, result>>

(* The sweepers are joined, the table and the tombstones cleared. *)
StopClear ==
    /\ phase = "converged"
    /\ phase' = "stopped"
    /\ table' = [m \in MsgIds |-> NoCall]
    /\ tomb' = [m \in MsgIds |-> "none"]
    /\ UNCHANGED <<max_in_flight, pc, msg, entry, wire, dl, result>>

-----------------------------------------------------------------------------
(* Time, and the MQTT daemon and the cloud behind publishRoute (external).   *)

DeadlinePasses(c) ==
    /\ pc[c] \in {"publishing", "accepted", "waiting"}
    /\ ~entry[c].due
    /\ entry' = [entry EXCEPT ![c].due = TRUE]
    /\ UNCHANGED <<max_in_flight, phase, pc, msg, table, tomb, wire, dl, result>>

GracePasses(c) ==
    /\ terminal(c) /\ ~entry[c].aged
    /\ pc[c] # "done"
    /\ entry' = [entry EXCEPT ![c].aged = TRUE]
    /\ UNCHANGED <<max_in_flight, phase, pc, msg, table, tomb, wire, dl, result>>

UsersOf(m) == {c \in Calls : msg[c] = m}

(* The protection window of a message id ends.  Answers may still arrive:    *)
(* entry[c].past only remembers that those to call c are now past it.        *)
TombstonePasses(m) ==
    /\ tomb[m] = "fresh"
    /\ SlowPublish \/ \A c \in UsersOf(m) : pc[c] \in {"valid", "done"}
    /\ tomb' = [tomb EXCEPT ![m] = "due"]
    /\ entry' = [c \in Calls |-> IF c \in UsersOf(m) /\ result[c] \in Outcomes
                                 THEN [entry[c] EXCEPT !.past = TRUE] ELSE entry[c]]
    /\ UNCHANGED <<max_in_flight, phase, pc, msg, table, wire, dl, result>>

(* The message goes out while publishRoute runs, or later from the queue of  *)
(* the daemon; from then on answers to it may arrive at any time and any     *)
(* number of times (QoS 1).                                                  *)
Transmit(c) ==
    /\ pc[c] \notin {"new", "valid"}
    /\ msg[c] # NoMsg
    /\ wire[c] = "none"
    /\ result[c] \in {"none"} \cup Outcomes /\ pc[c] # "rejected"
    /\ wire' = [wire EXCEPT ![c] = "sent"]
    /\ UNCHANGED <<max_in_flight, phase, pc, msg, entry, table, tomb, dl, result>>

-----------------------------------------------------------------------------
Exchange(c) ==
    \/ ExchangeDeclined(c) \/ \E m \in MsgIds : ExchangeBegin(c, m)
    \/ ExchangeRefused(c) \/ ExchangeList(c) \/ PublishReturns(c)
    \/ ExchangeAbandon(c) \/ ExchangeAccepted(c) \/ ExchangeWakes(c)
    \/ ExchangeReturns(c)

Next ==
    \/ \E c \in Calls : \/ Exchange(c) \/ DeadlinePasses(c) \/ GracePasses(c)
                        \/ Transmit(c) \/ DownlinkRouted(c)
    \/ DownlinkLookup \/ DownlinkCompletes
    \/ \E w \in Workers : Sweep(w)
    \/ \E m \in MsgIds : TombstonePasses(m)
    \/ Start \/ StopBegin \/ StopConverge \/ StopClear

Spec == Init /\ [][Next]_vars

(* Every thread of a call that can run does, publishRoute returns, and       *)
(* deadlines pass.  Nobody has to answer, to sweep, to stop, or to finish a  *)
(* callback.                                                                 *)
Fairness ==
    \A c \in Calls :
       /\ WF_vars(Exchange(c) /\ pc[c] # "new")
       /\ WF_vars(DeadlinePasses(c))
FairSpec == Spec /\ Fairness

-----------------------------------------------------------------------------
(* The first of answer, timeout, sweeper and stop() decides an exchange: a  *)
(* terminal entry keeps its outcome, and the caller gets that outcome.      *)
OutcomeStable ==
    [][\A c \in Calls :
          /\ terminal(c) => entry'[c].outcome = entry[c].outcome
          /\ pc[c] = "woken" /\ pc'[c] = "done" => result'[c] = entry[c].outcome]_vars

(* An answer to call d may complete call c: c's own, one to a message whose *)
(* caller was told that its outcome is unknown, or one that arrives when the *)
(* window protecting its message id is over, or cleared by stop().           *)
MayComplete(d, c) ==
    \/ d = c \/ result[d] = "Unknown" \/ entry[d].past \/ phase = "stopped"

(* A message id is protected against late answers while its call waits and   *)
(* until the tombstone ends, however the callback, the sweepers and the      *)
(* callers interleave: an answer that comes before that, to a call not told  *)
(* Unknown, neither completes another call nor is about to.                  *)
AnsweredByOwn ==
    /\ \A c \in Calls :
          entry[c].answer # NoCall => MayComplete(entry[c].answer, c)
    /\ dl.entry # NoCall => MayComplete(dl.from, dl.entry)

(* What handle_routed_downlink claims: a late answer never completes a new   *)
(* request that uses the message id again.                                   *)
LateAnswerIgnored == \A c \in Calls : result[c] = "Accepted" => entry[c].answer = c

(* While the gateway runs, an exchange that still waits is listed under its *)
(* message id: an answer can reach it.                                      *)
WaiterListed ==
    \A c \in Calls :
       /\ pc[c] \in {"publishing", "accepted", "waiting"}
       /\ ~terminal(c) /\ ~stopping
       => table[msg[c]] = c

(* exchange() returns, with or without an answer, through stop() as well.   *)
ExchangeEnds == \A c \in Calls : pc[c] # "new" ~> pc[c] = "done"

(* What a caller of exchange() sees of its call. *)
StatusOf(c) ==
    CASE pc[c] = "new" -> "idle"
      [] pc[c] = "done" /\ (msg[c] = NoMsg \/ result[c] \notin Outcomes) -> "refused"
      [] pc[c] = "done" /\ msg[c] # NoMsg /\ result[c] \in Outcomes -> "returned"
      [] pc[c] \in {"accepted", "waiting", "woken"} /\ terminal(c) -> "decided"
      [] OTHER -> "open"
OutcomeOf(c) ==
    CASE StatusOf(c) = "decided" -> entry[c].outcome
      [] StatusOf(c) = "returned" -> result[c]
      [] OTHER -> "none"

Exchanges == INSTANCE MessageExchange WITH
    status <- [c \in Calls |-> StatusOf(c)],
    outcome <- [c \in Calls |-> OutcomeOf(c)],
    sent <- {c \in Calls : wire[c] = "sent"},
    cleared <- phase = "stopped"

(* The gateway keeps what MessageExchange promises: a refused message never *)
(* goes out, an outcome is decided once, and a cloud answer is reported     *)
(* only for a message that was sent, the call's own or an earlier one's.    *)
ImplementsExchange == Exchanges!AbstractSpec
=============================================================================
