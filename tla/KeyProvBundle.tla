---------------------------- MODULE KeyProvBundle ----------------------------
(***************************************************************************)
(* One attempt of the key provisioning coordinator seen from its data: the *)
(* Request that is encoded, the key bundle that VMD answers with, what SEC *)
(* reports of its import, and the ACK that is encoded from that report.    *)
(*                                                                         *)
(* KeyProvCoordinator abstracts a bundle to "there is one" and the time to *)
(* the side of a comparison.  Here the fields keep their sizes, checked    *)
(* against the limits of keyprov_protocol.h, and the lease keeps its       *)
(* numbers; budgets, back-off, fingerprints and successors are left to     *)
(* KeyProvCoordinator.  The clock the code reads is off by at most skew.   *)
(***************************************************************************)
EXTENDS Integers, Sequences, FiniteSets

CONSTANTS
    import_min, ack_grace, skew,  \* of KeyprovKl1Params
    Leases,                       \* values of expire_at_ms, 0: not set
    Contents,                     \* what a key item says: key id, digest, KCV
    MaxNow                        \* bound on the time

ASSUME TimesAssumption ==
    /\ import_min \in Nat /\ ack_grace \in Nat /\ skew \in Nat
    /\ skew < import_min /\ skew < ack_grace
    /\ Leases \subseteq Nat /\ MaxNow \in Nat

VARIABLES
    state,      \* state_
    pending,    \* pending_items_
    binding,    \* response_binding_
    ack_items,  \* ack_items_
    attempted,  \* import_attempted_
    recovering, \* recovering_ack_
    lease,      \* lease_expires_at_ms_
    deadline,   \* ack_safe_deadline_ms_
    result,     \* what the running call of SEC has returned
    running,    \* the bundle whose import SEC has not finished (external)
    journal,    \* the committed result SEC keeps, <<>>: none (external)
    bound,      \* ack_items passed the check against its Response
    refused,    \* the committed result failed that check
    ack,        \* the last ACK published
    now         \* true time

proof == <<ack_items, bound, refused>>
bundle == <<pending, binding>>
flags == <<attempted, recovering>>
times == <<lease, deadline>>
secVars == <<running, journal>>
vars == <<state, proof, bundle, flags, times, result, secVars, ack, now>>

-----------------------------------------------------------------------------
(* Limits and data *)

MaxPayload == 16 * 1024
MaxWrappedKey == 4 * 1024
MaxParameters == 2 * 1024
MaxImportProof == 1024
MaxItems == 8
MaxString == 128
MaxShortString == 64
MaxDigest == 64
DigestBytes == 32
KcvBytes == 3
ProofBytes == 64

Purposes == {"UPLINK", "DOWNLINK"}

(* A record and the records that differ from it in one field. *)
OneOff(r, others) ==
    {r} \cup UNION {{[r EXCEPT ![f] = x] : x \in others[f]} : f \in DOMAIN others}

(* An item of a Response; key_id, algorithm, wrapped, parameters, digest and *)
(* kcv are sizes in bytes.                                                   *)
Item(p, c) ==
    [purpose |-> p, content |-> c, key_id |-> MaxString, version |-> 1,
     algorithm |-> MaxShortString, wrapped |-> MaxWrappedKey,
     parameters |-> MaxParameters, format |-> 1, suite |-> "ECDH_ES_P256",
     digest |-> DigestBytes, kcv |-> KcvBytes]
OtherItem ==
    [purpose |-> {"DOWNLINK", "UNSPECIFIED"}, key_id |-> {0, MaxString + 1},
     version |-> {0}, algorithm |-> {MaxShortString + 1},
     wrapped |-> {0, MaxWrappedKey + 1}, parameters |-> {MaxParameters + 1},
     format |-> {0, 2}, suite |-> {"HPKE"}, digest |-> {DigestBytes - 1},
     kcv |-> {KcvBytes - 1}]
Bundles ==
    (UNION {{<<u, Item("DOWNLINK", c)>> : u \in OneOff(Item("UPLINK", c), OtherItem)} :
            c \in Contents})
    \cup {<<>>} \cup {<<Item("UPLINK", c)>> : c \in Contents}
    \cup {[i \in 1 .. MaxItems + 1 |-> Item("UPLINK", c)] : c \in Contents}

(* A downlink envelope. *)
Envelope(ptype, items, E) ==
    [size |-> MaxPayload, version |-> "1", service |-> "keyprov",
     kind |-> "RESPONSE", ptype |-> ptype, items |-> items, expire_at |-> E]
OtherEnvelope ==
    [size |-> {MaxPayload + 1}, version |-> {"2"}, service |-> {"other"},
     kind |-> {"REQUEST"}, ptype |-> {"Unknown"}]
Envelopes ==
    {Envelope("Response", b, E) : b \in Bundles, E \in Leases}
    \cup OneOff(Envelope("AckResult", <<>>, 0), OtherEnvelope)
    \cup {Envelope("StatusResponse", <<[Item("UPLINK", c) EXCEPT !.key_id = n]>>, 0) :
          c \in Contents, n \in {MaxString, MaxString + 1}}

(* What SEC reports for an item it has imported. *)
Imported(it) ==
    [purpose |-> it.purpose, content |-> it.content, key_id |-> it.key_id,
     version |-> it.version, state |-> "ACTIVE", format |-> it.format,
     digest |-> it.digest, kcv |-> it.kcv, proof |-> ProofBytes,
     certificate |-> DigestBytes, algorithm |-> "P1363"]
OtherImported ==
    [purpose |-> {"DOWNLINK"}, content |-> Contents,
     key_id |-> {0, MaxString + 1}, version |-> {0, 2},
     state |-> {"INACTIVE"}, format |-> {0}, digest |-> {DigestBytes - 1},
     kcv |-> {0}, proof |-> {ProofBytes - 1, MaxImportProof + 1},
     certificate |-> {DigestBytes - 1}, algorithm |-> {"other"}]
Reports(items) ==
    LET honest == [i \in DOMAIN items |-> Imported(items[i])] IN
    {[honest EXCEPT ![1] = r] : r \in OneOff(honest[1], OtherImported)}
    \cup {<<honest[1]>>}

(* A digest of the session identity: is the prefix "sha256:" there, is the   *)
(* rest hexadecimal, and how long is the rest.                               *)
DigestTexts ==
    [prefix: BOOLEAN, hex: BOOLEAN,
     size: {0, DigestBytes, 2 * DigestBytes, 2 * DigestBytes + 1, 2 * MaxDigest + 2}]
Sha256Text == [prefix |-> TRUE, hex |-> TRUE, size |-> 2 * DigestBytes]
Identities ==
    OneOff([uid |-> "canonical", device |-> Sha256Text, certificate |-> Sha256Text,
            session |-> TRUE],
           [uid |-> {"other"}, device |-> DigestTexts, certificate |-> DigestTexts,
            session |-> {FALSE}])

-----------------------------------------------------------------------------
(* The codec *)

(* keyprov_normalize_digest: the size it yields, -1 when it fails. *)
normalize_digest(d) ==
    IF d.hex /\ d.size > 0 /\ d.size % 2 = 0
    THEN IF d.size \div 2 <= MaxDigest THEN d.size \div 2 ELSE -1
    ELSE IF d.size <= MaxDigest THEN d.size ELSE -1

validate_identity(id) ==
    /\ id.uid = "canonical"
    /\ \A d \in {id.device, id.certificate} : d.prefix \/ d.size > 0
    /\ id.session

(* keyprov_build_attempt_snapshot, as far as it looks at the identity. *)
builds_snapshot(id) ==
    /\ validate_identity(id)
    /\ normalize_digest(id.device) = DigestBytes
    /\ normalize_digest(id.certificate) = DigestBytes

(* build_keyprov_request_envelope on the fields of a frozen snapshot. *)
encodes_request(id) ==
    /\ validate_identity(id)
    /\ normalize_digest(id.device) > 0
    /\ normalize_digest(id.certificate) > 0

encodes_ack(items) ==
    /\ Len(items) <= MaxItems
    /\ \A i \in DOMAIN items :
          /\ items[i].key_id <= MaxString
          /\ items[i].proof <= MaxImportProof
          /\ items[i].format = 1
          /\ items[i].algorithm = "P1363"
          /\ items[i].proof = ProofBytes
          /\ items[i].certificate = DigestBytes
          /\ items[i].digest = DigestBytes
          /\ items[i].kcv = KcvBytes

(* Mutant: the length of the key id is not checked. *)
decodes_response_item_any_id(it) ==
    /\ it.wrapped <= MaxWrappedKey /\ it.parameters <= MaxParameters
    /\ it.algorithm <= MaxShortString
    /\ it.format = 1 /\ it.suite = "ECDH_ES_P256"
    /\ it.digest = DigestBytes /\ it.kcv = KcvBytes

decodes_response_item(it) ==
    /\ it.wrapped <= MaxWrappedKey /\ it.parameters <= MaxParameters
    /\ it.key_id <= MaxString /\ it.algorithm <= MaxShortString
    /\ it.format = 1 /\ it.suite = "ECDH_ES_P256"
    /\ it.digest = DigestBytes /\ it.kcv = KcvBytes
decodes_status_item(it) == it.key_id <= MaxString

decodes(m) ==
    /\ m.size <= MaxPayload
    /\ m.version = "1" /\ m.service = "keyprov" /\ m.kind = "RESPONSE"
    /\ Len(m.items) <= MaxItems
    /\ \/ m.ptype = "AckResult"
       \/ /\ m.ptype = "Response"
          /\ \A i \in DOMAIN m.items : decodes_response_item(m.items[i])
       \/ /\ m.ptype = "StatusResponse"
          /\ \A i \in DOMAIN m.items : decodes_status_item(m.items[i])

-----------------------------------------------------------------------------
(* Lease and bundle *)

Readings == (now - skew) .. (now + skew)

lease_expired(U, E) == U >= E
lease_acceptable(U, E) == E - U >= import_min

(* Mutant: no allowance for the clocks. *)
ack_safe_deadline_unskewed(E) == E + ack_grace

ack_safe_deadline(E) == E + ack_grace - skew

(* The first item for a purpose is the one the loops of the code look at. *)
Named(items, p) == {i \in DOMAIN items : items[i].purpose = p}
First(items, p) == items[CHOOSE i \in Named(items, p) : \A j \in Named(items, p) : i <= j]

response_valid(items) ==
    /\ Len(items) = Cardinality(Purposes)
    /\ \A p \in Purposes :
          /\ Named(items, p) # {}
          /\ First(items, p).version # 0
          /\ First(items, p).key_id > 0
          /\ First(items, p).wrapped > 0

Binding(it) == [purpose |-> it.purpose, content |-> it.content, key_id |-> it.key_id,
                version |-> it.version, format |-> it.format, digest |-> it.digest]

attested(it) ==
    /\ it.state = "ACTIVE" /\ it.version # 0 /\ it.key_id > 0
    /\ it.format = 1 /\ it.digest = DigestBytes /\ it.kcv = KcvBytes
    /\ it.proof = ProofBytes /\ it.certificate = DigestBytes
    /\ it.algorithm = "P1363"

import_result_bindable(items) ==
    /\ Len(items) = Cardinality(Purposes)
    /\ \A p \in Purposes :
          /\ Named(items, p) # {}
          /\ attested(First(items, p))
          /\ \A b \in binding : b.purpose = p => b = Binding(First(items, p))

(* The result of an item is always IMPORTED; its state is not looked at. *)
build_ack_items(items) ==
    [i \in DOMAIN items |->
        [f \in DOMAIN items[i] \ {"state"} |-> items[i][f]]]

-----------------------------------------------------------------------------
(* do_check_locked and do_request_locked *)

NoChange == UNCHANGED <<proof, bundle, flags, times, result, secVars, ack, now>>

on_response_timeout ==
    /\ state = "WAIT_RESPONSE"
    /\ state' \in {"RETRY_WAIT", "RECONCILE_OLD_ATTEMPT"}
    /\ NoChange

(* A tick in a state that leads to CHECKING; a WAIT_RESPONSE that has lost   *)
(* its deadline; a readiness event in BLOCKED.  SEC reports both purposes    *)
(* ACTIVE, or not.                                                           *)
do_check ==
    /\ state \in {"WAIT_CLOUD", "RETRY_WAIT", "WAIT_RESPONSE", "BLOCKED"}
    /\ \/ /\ journal # <<>>
          /\ state' = IF recovering \/ attempted THEN "ACK_PENDING" ELSE "ACTIVE"
          /\ recovering' = FALSE
       \/ state' = "REQUESTING" /\ UNCHANGED recovering
    /\ UNCHANGED <<proof, bundle, attempted, times, result, secVars, ack, now>>

do_request(id) ==
    /\ state = "REQUESTING"
    /\ validate_identity(id)
    /\ state' = IF builds_snapshot(id) /\ encodes_request(id) THEN "WAIT_RESPONSE"
                ELSE "RETRY_WAIT"
    /\ NoChange

-----------------------------------------------------------------------------
(* handle_routed_downlink *)

Response(m) ==
    /\ m.ptype = "Response" /\ decodes(m)
    /\ state = "WAIT_RESPONSE"
    /\ \E U \in Readings :
          LET leased == m.expire_at > 0
              inTime == leased => /\ ~lease_expired(U, m.expire_at)
                                  /\ lease_acceptable(U, m.expire_at)
          IN \/ /\ ~inTime
                /\ state' = "RECONCILE_OLD_ATTEMPT"
                /\ UNCHANGED <<bundle, flags, times>>
             \/ /\ inTime /\ ~response_valid(m.items)
                /\ state' \in {"RETRY_WAIT", "RECONCILE_OLD_ATTEMPT"}
                /\ UNCHANGED <<bundle, flags, times>>
             \/ /\ inTime /\ response_valid(m.items)
                /\ state' = "IMPORTING"
                /\ lease' = IF leased THEN m.expire_at ELSE lease
                /\ deadline' = IF leased THEN ack_safe_deadline(m.expire_at) ELSE deadline
                /\ binding' = {Binding(m.items[i]) : i \in DOMAIN m.items}
                /\ pending' = m.items
                /\ attempted' = FALSE
                /\ UNCHANGED recovering
    /\ UNCHANGED <<proof, result, secVars, ack, now>>

(* A Response that is not SUCCEEDED: retried, blocked or reconciled. *)
ResponseRefused ==
    /\ state = "WAIT_RESPONSE"
    /\ state' \in {"RETRY_WAIT", "BLOCKED", "RECONCILE_OLD_ATTEMPT"}
    /\ NoChange

(* An AckResult, in any state, or a StatusResponse with a conflict of the    *)
(* idempotency key.                                                          *)
Conflict ==
    /\ result = "none"
    /\ ack.items # <<>> \/ state \in {"ACK_PENDING", "WAIT_RESPONSE"}
    /\ state' = "RECONCILE_OLD_ATTEMPT"
    /\ NoChange

(* VMD answers an ACK, or a StatusRequest once it has activated the batch.   *)
AckResult(m) ==
    /\ m.ptype = "AckResult" /\ decodes(m)
    /\ state = "ACK_PENDING" /\ ack.items # <<>>
    /\ \/ state' = "ACTIVE" /\ attempted' = FALSE /\ recovering' = FALSE
       \/ state' = "RETRY_WAIT" /\ UNCHANGED flags
    /\ UNCHANGED <<proof, bundle, times, result, secVars, ack, now>>

StatusResponse(m) ==
    /\ m.ptype = "StatusResponse" /\ decodes(m)
    /\ state \in {"ACK_PENDING", "WAIT_RESPONSE"}
    /\ \/ /\ ack.items # <<>>
          /\ state' = IF ack_items # <<>> \/ attempted THEN "ACK_PENDING" ELSE "ACTIVE"
       \/ state' = "RETRY_WAIT"
    /\ NoChange

-----------------------------------------------------------------------------
(* do_import_locked and handle_import_result_locked *)

(* Mutant: the lease is not checked again. *)
do_import_late ==
    /\ state = "IMPORTING" /\ result = "none"
    /\ \/ /\ journal = <<>> /\ running = <<>> /\ pending # <<>>
          /\ result' = "COMMITTED" /\ journal' \in Reports(pending)
          /\ UNCHANGED running
       \/ result' = "FAILED" /\ UNCHANGED secVars
    /\ attempted' = TRUE
    /\ UNCHANGED <<state, proof, bundle, recovering, times, ack, now>>

do_import_lease_too_short ==
    /\ state = "IMPORTING" /\ result = "none"
    /\ lease > 0 /\ \E U \in Readings : ~lease_acceptable(U, lease)
    /\ state' = "RECONCILE_OLD_ATTEMPT"
    /\ NoChange

(* SEC imports one bundle per request id: it commits, fails, or answers      *)
(* before it is done; a committed request keeps its result.                  *)
do_import ==
    /\ state = "IMPORTING" /\ result = "none"
    /\ lease > 0 => \E U \in Readings : lease_acceptable(U, lease)
    /\ \/ journal # <<>> /\ result' = "COMMITTED" /\ UNCHANGED secVars
       \/ /\ journal = <<>> /\ running = <<>> /\ pending # <<>>
          /\ \/ result' = "COMMITTED" /\ journal' \in Reports(pending) /\ UNCHANGED running
             \/ result' = "UNKNOWN" /\ running' = pending /\ UNCHANGED journal
       \/ journal = <<>> /\ running # <<>> /\ result' = "UNKNOWN" /\ UNCHANGED secVars
       \/ journal = <<>> /\ result' = "FAILED" /\ UNCHANGED secVars
    /\ attempted' = TRUE
    /\ UNCHANGED <<state, proof, bundle, recovering, times, ack, now>>

SecFinishes ==
    /\ running # <<>>
    /\ running' = <<>>
    /\ journal' \in {journal} \cup Reports(running)
    /\ UNCHANGED <<state, proof, bundle, flags, times, result, ack, now>>

(* Mutant: the ACK repeats the Response, whatever SEC reports. *)
handle_import_result_echoed ==
    /\ result # "none"
    /\ result' = "none" /\ pending' = <<>>
    /\ IF result = "COMMITTED" /\ pending # <<>>
       THEN /\ state' = "ACK_PENDING"
            /\ ack_items' = build_ack_items([i \in DOMAIN pending |-> Imported(pending[i])])
            /\ bound' = TRUE
       ELSE state' = "RETRY_WAIT" /\ UNCHANGED <<ack_items, bound>>
    /\ UNCHANGED <<binding, flags, times, secVars, refused, ack, now>>

handle_import_result ==
    /\ result # "none"
    /\ result' = "none" /\ pending' = <<>>
    /\ \/ /\ result = "COMMITTED" /\ import_result_bindable(journal)
          /\ state' = "ACK_PENDING"
          /\ ack_items' = build_ack_items(journal)
          /\ bound' = (binding # {})
          /\ UNCHANGED <<attempted, refused>>
       \/ /\ result = "COMMITTED" /\ ~import_result_bindable(journal)
          /\ state' = "BLOCKED" /\ refused' = TRUE
          /\ UNCHANGED <<ack_items, bound, attempted>>
       \/ /\ result = "FAILED"
          /\ state' = "RETRY_WAIT" /\ attempted' = FALSE
          /\ UNCHANGED <<ack_items, bound, refused>>
       \/ /\ result = "UNKNOWN"
          /\ state' = "RETRY_WAIT"
          /\ UNCHANGED <<ack_items, bound, attempted, refused>>
    /\ UNCHANGED <<binding, recovering, times, secVars, ack, now>>

(* reconcile_sec_journal_locked finds the import committed. *)
reconcile_committed ==
    /\ state = "RECONCILE_OLD_ATTEMPT" /\ journal # <<>>
    /\ ack_items' = build_ack_items(journal) /\ bound' = FALSE
    /\ IF Len(journal) = Cardinality(Purposes)
       THEN state' = "ACK_PENDING" /\ recovering' = FALSE
       ELSE UNCHANGED <<state, recovering>>
    /\ UNCHANGED <<refused, bundle, attempted, times, result, secVars, ack, now>>

(* maybe_freshen_locked: SEC has no import under the id, and the lease is    *)
(* over: the Request is sent again under the same id.                        *)
maybe_freshen ==
    /\ state = "RECONCILE_OLD_ATTEMPT" /\ journal = <<>> /\ running = <<>>
    /\ lease > 0 /\ \E U \in Readings : lease_expired(U, lease)
    /\ state' = "REQUESTING"
    /\ NoChange

-----------------------------------------------------------------------------
(* do_ack_locked: the proof is fetched when it is not in memory, the ACK is  *)
(* encoded from it, unless the clock is past D.                              *)
Proof == IF ack_items = <<>> /\ journal # <<>> THEN build_ack_items(journal) ELSE ack_items

BeforeD == deadline > 0 => \E r \in Readings : r < deadline

do_ack ==
    /\ state = "ACK_PENDING" /\ result = "none"
    /\ ack_items' = Proof
    /\ bound' = (bound /\ ack_items # <<>>)
    /\ \/ /\ Proof = <<>>
          /\ state' = "RETRY_WAIT" /\ UNCHANGED <<ack>>
       \/ /\ Proof # <<>> /\ BeforeD /\ ~encodes_ack(Proof)
          /\ state' = "RETRY_WAIT" /\ UNCHANGED ack
       \/ /\ Proof # <<>> /\ BeforeD /\ encodes_ack(Proof)
          /\ ack' = [items |-> Proof, refused |-> refused,
                     late |-> lease > 0 /\ now >= lease + ack_grace]
          /\ UNCHANGED state
    /\ UNCHANGED <<refused, bundle, flags, times, result, secVars, now>>

-----------------------------------------------------------------------------
(* invalidate_identity_locked; a tick that finds the gate closed meanwhile   *)
(* sends the coordinator back to WAIT_CLOUD.                                 *)
SessionLost ==
    /\ result = "none"
    /\ pending' = <<>> /\ binding' = {}
    /\ state' \in {state} \cup
          (IF state \in {"REQUESTING", "WAIT_RESPONSE", "IMPORTING", "ACK_PENDING", "RETRY_WAIT"}
           THEN {"WAIT_CLOUD"} ELSE {})
    /\ UNCHANGED <<proof, flags, times, result, secVars, ack, now>>

(* The process dies and initialize reads the record back. *)
Restart ==
    /\ state' = IF state \in {"ACTIVE", "ACK_PENDING", "RETRY_WAIT"} THEN "WAIT_CLOUD"
                ELSE state
    /\ recovering' = (state = "ACK_PENDING")
    /\ attempted' = FALSE
    /\ pending' = <<>> /\ binding' = {}
    /\ ack_items' = <<>> /\ bound' = FALSE
    /\ result' = "none"
    /\ UNCHANGED <<refused, times, secVars, ack, now>>

TimePasses ==
    /\ now < MaxNow
    /\ now' = now + 1
    /\ UNCHANGED <<state, proof, bundle, flags, times, result, secVars, ack>>

-----------------------------------------------------------------------------
Init ==
    /\ state = "REQUESTING"
    /\ ack_items = <<>> /\ bound = FALSE /\ refused = FALSE
    /\ pending = <<>> /\ binding = {}
    /\ attempted = FALSE /\ recovering = FALSE
    /\ lease = 0 /\ deadline = 0
    /\ result = "none" /\ running = <<>> /\ journal = <<>>
    /\ ack = [items |-> <<>>, late |-> FALSE, refused |-> FALSE]
    /\ now = 1

Next ==
    \/ do_check \/ on_response_timeout
    \/ \E id \in Identities : do_request(id)
    \/ \E m \in Envelopes : Response(m) \/ AckResult(m) \/ StatusResponse(m)
    \/ ResponseRefused \/ Conflict
    \/ do_import_lease_too_short \/ do_import \/ handle_import_result
    \/ reconcile_committed \/ maybe_freshen \/ do_ack
    \/ SecFinishes \/ SessionLost \/ Restart \/ TimePasses

Spec == Init /\ [][Next]_vars

-----------------------------------------------------------------------------
(* The checks of a bundle and of its import, made by four functions on the   *)
(* way, are together as strict as the encoders: an identity that             *)
(* keyprov_build_attempt_snapshot freezes can be sent in a Request, and an   *)
(* import that import_result_bindable_locked accepts can be acknowledged.    *)
EncodersAccept ==
    /\ \A id \in Identities : builds_snapshot(id) => encodes_request(id)
    /\ bound => encodes_ack(ack_items)

(* What the last ACK reports to VMD is what SEC has committed, whichever     *)
(* bundles were delivered in between and wherever the proof came from.       *)
AckReportsJournal == ack.items # <<>> => ack.items = build_ack_items(journal)

(* An ACK leaves, in true time, before VMD stops to wait for it, even with   *)
(* the clock of the vehicle off by skew and with a restart after the import. *)
AckInTime == ~ack.late

(* SEC is asked to import only while the lease of the bundle runs, in true   *)
(* time, although time passes between the Response and the import.           *)
ImportInTime ==
    [][result = "none" /\ result' # "none" /\ lease > 0 => now < lease]_vars

(* handle_import_result_locked: a result that is refused as structurally     *)
(* wrong or not bound to the Response is not acknowledged as a success.      *)
RefusedNotAcknowledged == ~ack.refused
=============================================================================
