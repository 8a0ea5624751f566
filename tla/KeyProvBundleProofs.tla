------------------------- MODULE KeyProvBundleProofs -------------------------
(***************************************************************************)
(* The ACK that leaves the vehicle says what SEC has committed, can be     *)
(* encoded, and leaves in time, for all leases, contents, clock errors and *)
(* any number of bundles, restarts and lost sessions.                      *)
(*                                                                         *)
(* None of it is inductive alone.  The proof in memory and the ACK that    *)
(* was sent say the same as SEC's journal because the journal is written   *)
(* once, while no import runs (JournalInv); the deadline D belongs to the  *)
(* lease on record (LeaseInv); and the length of a key id, which the check *)
(* of the import does not look at, is bounded by the Response whose items  *)
(* it is compared with (BindingInv).                                       *)
(***************************************************************************)
EXTENDS KeyProvBundle, SequenceTheorems, FiniteSetTheorems, TLAPS

(* The items of the Responses, and of the reports of SEC. *)
Items == {Item(p, c) : p \in Purposes, c \in Contents}
         \cup UNION {OneOff(Item("UPLINK", c), OtherItem) : c \in Contents}
ReportFields == {"purpose", "content", "key_id", "version", "state", "format", "digest",
                 "kcv", "proof", "certificate", "algorithm"}
ReportItems == UNION {OneOff(Imported(it), OtherImported) : it \in Items}

DataOK ==
    /\ now \in Nat /\ lease \in Nat
    /\ pending \in Seq(Items) /\ running \in Seq(Items) /\ journal \in Seq(ReportItems)

(* D is that of the lease on record. *)
LeaseInv == lease > 0 => deadline = ack_safe_deadline(lease)

(* SEC imports once, and what is known of the import is what it keeps. *)
JournalInv ==
    /\ running # <<>> => journal = <<>>
    /\ ack_items # <<>> => journal # <<>> /\ ack_items = build_ack_items(journal)
    /\ ack.items # <<>> => journal # <<>> /\ ack.items = build_ack_items(journal)

(* A Response that is kept for the check named every purpose, by an id that  *)
(* the decoder accepted.                                                     *)
BindingInv ==
    binding # {} =>
        \A p \in Purposes : \E b \in binding : b.purpose = p /\ b.key_id <= MaxString

BoundInv == bound => encodes_ack(ack_items)

BundleInv == DataOK /\ LeaseInv /\ JournalInv /\ BindingInv /\ BoundInv /\ AckInTime

-----------------------------------------------------------------------------
(* The data *)

(* An item that differs in one field is an item of some Response. *)
LEMMA ItemOf ==
    ASSUME NEW c \in Contents
    PROVE  /\ \A p \in Purposes : Item(p, c) \in Items
           /\ OneOff(Item("UPLINK", c), OtherItem) \subseteq Items
BY DEF Items

(* The bundles are sequences of items. *)
LEMMA BundleItems == Bundles \subseteq Seq(Items)
<1> SUFFICES ASSUME NEW b \in Bundles PROVE b \in Seq(Items)
    OBVIOUS
<1>1. CASE b = <<>>
      BY <1>1
<1>2. CASE \E c \in Contents : b = <<Item("UPLINK", c)>>
  <2>1. PICK c \in Contents : b = <<Item("UPLINK", c)>>
        BY <1>2
  <2>2. Item("UPLINK", c) \in Items
        BY ItemOf DEF Purposes
  <2> QED BY <2>1, <2>2
<1>3. CASE \E c \in Contents : b = [i \in 1 .. MaxItems + 1 |-> Item("UPLINK", c)]
  <2>1. PICK c \in Contents : b = [i \in 1 .. MaxItems + 1 |-> Item("UPLINK", c)]
        BY <1>3
  <2>2. Item("UPLINK", c) \in Items
        BY ItemOf DEF Purposes
  <2>3. MaxItems + 1 \in Nat
        BY DEF MaxItems
  <2>4. b \in [1 .. MaxItems + 1 -> Items]
        BY <2>1, <2>2
  <2> QED BY <2>3, <2>4, SeqDef
<1>4. CASE \E c \in Contents : \E u \in OneOff(Item("UPLINK", c), OtherItem) :
              b = <<u, Item("DOWNLINK", c)>>
  <2>1. PICK c \in Contents : \E u \in OneOff(Item("UPLINK", c), OtherItem) :
              b = <<u, Item("DOWNLINK", c)>>
        BY <1>4
  <2>2. PICK u \in OneOff(Item("UPLINK", c), OtherItem) : b = <<u, Item("DOWNLINK", c)>>
        BY <2>1
  <2>3. u \in Items /\ Item("DOWNLINK", c) \in Items
        BY ItemOf DEF Purposes
  <2> QED BY <2>2, <2>3
<1>5. \/ b = <<>>
      \/ \E c \in Contents : b = <<Item("UPLINK", c)>>
      \/ \E c \in Contents : b = [i \in 1 .. MaxItems + 1 |-> Item("UPLINK", c)]
      \/ \E c \in Contents : \E u \in OneOff(Item("UPLINK", c), OtherItem) :
              b = <<u, Item("DOWNLINK", c)>>
      BY DEF Bundles
<1> QED BY <1>1, <1>2, <1>3, <1>4, <1>5

(* A Response carries items and a time; only it has its type. *)
LEMMA ResponseData ==
    ASSUME NEW m \in Envelopes, m.ptype = "Response"
    PROVE  m.items \in Seq(Items) /\ m.expire_at \in Nat
<1>1. CASE \E b \in Bundles : \E E \in Leases : m = Envelope("Response", b, E)
      BY <1>1, BundleItems, TimesAssumption DEF Envelope
<1>2. CASE m \in OneOff(Envelope("AckResult", <<>>, 0), OtherEnvelope)
  <2> DEFINE e == Envelope("AckResult", <<>>, 0)
  <2>1. m # e
        BY DEF Envelope
  <2>2. PICK f \in DOMAIN OtherEnvelope : \E x \in OtherEnvelope[f] : m = [e EXCEPT ![f] = x]
        BY <1>2, <2>1 DEF OneOff
  <2>3. PICK x \in OtherEnvelope[f] : m = [e EXCEPT ![f] = x]
        BY <2>2
  <2>4. f \in {"size", "version", "service", "kind", "ptype"}
        BY DEF OtherEnvelope
  <2>5. CASE f = "ptype"
        BY <2>3, <2>5 DEF OtherEnvelope, Envelope
  <2>6. CASE f # "ptype"
        BY <2>3, <2>4, <2>6 DEF Envelope
  <2> QED BY <2>5, <2>6
<1>3. CASE \E c \in Contents : \E n \in {MaxString, MaxString + 1} :
              m = Envelope("StatusResponse", <<[Item("UPLINK", c) EXCEPT !.key_id = n]>>, 0)
      BY <1>3 DEF Envelope
<1> QED BY <1>1, <1>2, <1>3 DEF Envelopes

(* SEC reports the same fields of every item. *)
LEMMA ReportItemFields == \A r \in ReportItems : DOMAIN r = ReportFields
<1> SUFFICES ASSUME NEW r \in ReportItems PROVE DOMAIN r = ReportFields
    OBVIOUS
<1>1. PICK it \in Items : r \in OneOff(Imported(it), OtherImported)
      BY DEF ReportItems
<1>2. DOMAIN Imported(it) = ReportFields
      BY DEF Imported, ReportFields
<1>3. CASE r = Imported(it)
      BY <1>2, <1>3
<1>4. CASE r # Imported(it)
  <2>1. PICK f \in DOMAIN OtherImported : \E x \in OtherImported[f] :
              r = [Imported(it) EXCEPT ![f] = x]
        BY <1>1, <1>4 DEF OneOff
  <2> QED BY <2>1, <1>2
<1> QED BY <1>3, <1>4

(* What SEC keeps of an import is a sequence of such items. *)
LEMMA ReportsType ==
    ASSUME NEW items \in Seq(Items), items # <<>>
    PROVE  Reports(items) \subseteq Seq(ReportItems)
<1> DEFINE honest == [i \in DOMAIN items |-> Imported(items[i])]
<1>1. 1 \in DOMAIN items /\ Len(items) \in Nat /\ DOMAIN items = 1 .. Len(items)
      OBVIOUS
<1>2. ASSUME NEW i \in DOMAIN items
      PROVE  honest[i] = Imported(items[i]) /\ OneOff(honest[i], OtherImported) \subseteq ReportItems
  <2>1. items[i] \in Items
        BY <1>1
  <2> QED BY <2>1 DEF ReportItems
<1>3. ASSUME NEW i \in DOMAIN items
      PROVE  honest[i] \in ReportItems
      BY <1>2 DEF OneOff
<1>4. honest \in [1 .. Len(items) -> ReportItems]
      BY <1>1, <1>3
<1> HIDE DEF honest
<1> SUFFICES ASSUME NEW j \in Reports(items) PROVE j \in Seq(ReportItems)
    OBVIOUS
<1>5. CASE j = <<honest[1]>>
      BY <1>1, <1>3, <1>5
<1>6. CASE \E r \in OneOff(honest[1], OtherImported) : j = [honest EXCEPT ![1] = r]
  <2>1. PICK r \in OneOff(honest[1], OtherImported) : j = [honest EXCEPT ![1] = r]
        BY <1>6
  <2>2. r \in ReportItems
        BY <1>1, <1>2
  <2>3. j \in [1 .. Len(items) -> ReportItems]
        BY <1>4, <2>1, <2>2
  <2> QED BY <1>1, <2>3, SeqDef
<1> QED BY <1>5, <1>6 DEF Reports, honest

-----------------------------------------------------------------------------
(* Operators *)

LEMMA TwoPurposes == Cardinality(Purposes) = 2
<1>1. IsFiniteSet({"UPLINK"}) /\ Cardinality({"UPLINK"}) = 1
      BY FS_Singleton
<1>2. Purposes = {"UPLINK"} \cup {"DOWNLINK"} /\ "DOWNLINK" \notin {"UPLINK"}
      BY DEF Purposes
<1> QED BY <1>1, <1>2, FS_AddElement

(* A checked result names each purpose once: every item of it is the one the *)
(* loops of the code have looked at.                                         *)
LEMMA EveryItemFirst ==
    ASSUME NEW items \in Seq(ReportItems), Len(items) = Cardinality(Purposes),
           \A p \in Purposes : Named(items, p) # {},
           NEW k \in DOMAIN items
    PROVE  \E p \in Purposes : items[k] = First(items, p)
<1>1. DOMAIN items = 1 .. 2
      BY TwoPurposes
<1>2. PICK u \in 1 .. 2 : items[u].purpose = "UPLINK"
      BY <1>1 DEF Named, Purposes
<1>3. PICK d \in 1 .. 2 : items[d].purpose = "DOWNLINK"
      BY <1>1 DEF Named, Purposes
<1>4. u # d
      BY <1>2, <1>3
<1>5. k = u \/ k = d
      BY <1>1, <1>4
<1>6. PICK p \in Purposes : items[k].purpose = p
      BY <1>2, <1>3, <1>5 DEF Purposes
<1>7. ASSUME NEW i \in DOMAIN items, items[i].purpose = p
      PROVE  i = k
      BY <1>1, <1>2, <1>3, <1>4, <1>5, <1>6, <1>7
<1>8. Named(items, p) = {k}
      BY <1>6, <1>7 DEF Named
<1>9. k <= k
      BY <1>1
<1>10. (CHOOSE i \in Named(items, p) : \A j \in Named(items, p) : i <= j) = k
      BY <1>8, <1>9
<1> QED BY <1>10 DEF First

(* The ACK reports each field of an item but its state. *)
LEMMA AckItemFields ==
    ASSUME NEW items \in Seq(ReportItems)
    PROVE  LET a == build_ack_items(items) IN
           /\ DOMAIN a = DOMAIN items /\ Len(a) = Len(items)
           /\ \A i \in DOMAIN items :
                 /\ a[i].key_id = items[i].key_id /\ a[i].proof = items[i].proof
                 /\ a[i].format = items[i].format /\ a[i].algorithm = items[i].algorithm
                 /\ a[i].certificate = items[i].certificate
                 /\ a[i].digest = items[i].digest /\ a[i].kcv = items[i].kcv
<1> DEFINE a == build_ack_items(items)
<1>1. DOMAIN a = 1 .. Len(items) /\ DOMAIN items = 1 .. Len(items) /\ Len(items) \in Nat
      BY DEF build_ack_items
<1>2. Len(a) = Len(items)
      BY <1>1
<1>3. ASSUME NEW i \in DOMAIN items
      PROVE  /\ a[i].key_id = items[i].key_id /\ a[i].proof = items[i].proof
             /\ a[i].format = items[i].format /\ a[i].algorithm = items[i].algorithm
             /\ a[i].certificate = items[i].certificate
             /\ a[i].digest = items[i].digest /\ a[i].kcv = items[i].kcv
  <2>1. items[i] \in ReportItems
        OBVIOUS
  <2>2. DOMAIN items[i] = ReportFields
        BY <2>1, ReportItemFields
  <2>3. a[i] = [f \in DOMAIN items[i] \ {"state"} |-> items[i][f]]
        BY DEF build_ack_items
  <2> QED BY <2>2, <2>3 DEF ReportFields
<1> QED BY <1>1, <1>2, <1>3

(* What import_result_bindable_locked accepts while it has a Response to     *)
(* compare with can be encoded.                                              *)
LEMMA BindableEncodes ==
    ASSUME journal \in Seq(ReportItems), import_result_bindable(journal),
           binding # {}, BindingInv
    PROVE  encodes_ack(build_ack_items(journal))
<1>1. ASSUME NEW k \in DOMAIN journal
      PROVE  attested(journal[k]) /\ journal[k].key_id <= MaxString
  <2>1. PICK p \in Purposes : journal[k] = First(journal, p)
        BY EveryItemFirst DEF import_result_bindable
  <2>2. PICK b \in binding : b.purpose = p /\ b.key_id <= MaxString
        BY DEF BindingInv
  <2>3. attested(journal[k]) /\ b = Binding(journal[k])
        BY <2>1, <2>2 DEF import_result_bindable
  <2> QED BY <2>2, <2>3 DEF Binding
<1>2. Len(journal) = 2
      BY TwoPurposes DEF import_result_bindable
<1> QED BY <1>1, <1>2, AckItemFields DEF encodes_ack, attested, MaxItems, MaxImportProof, ProofBytes

(* An accepted result is not empty. *)
LEMMA BindableNotEmpty == import_result_bindable(journal) => journal # <<>>
BY DEF import_result_bindable, Named, Purposes

(* The check of a Response is as strict as BindingInv says. *)
LEMMA ResponseBinding ==
    ASSUME NEW m \in Envelopes, m.ptype = "Response", decodes(m), response_valid(m.items),
           NEW p \in Purposes
    PROVE  \E b \in {Binding(m.items[i]) : i \in DOMAIN m.items} :
              b.purpose = p /\ b.key_id <= MaxString
<1>1. PICK i \in DOMAIN m.items : m.items[i].purpose = p
      BY DEF response_valid, Named
<1>2. m.items[i].key_id <= MaxString
      BY DEF decodes, decodes_response_item
<1>3. Binding(m.items[i]).purpose = p /\ Binding(m.items[i]).key_id <= MaxString
      BY <1>1, <1>2 DEF Binding
<1> QED BY <1>3

(* A clock that is wrong by at most skew. *)
LEMMA ReadingWithin ==
    ASSUME now \in Nat, NEW U \in Readings
    PROVE  U \in Int /\ now - skew <= U /\ U <= now + skew
BY TimesAssumption DEF Readings

(* Before D by the clock is before the end of the wait in true time. *)
LEMMA BeforeDInTime ==
    ASSUME now \in Nat, lease \in Nat, lease > 0, LeaseInv, BeforeD
    PROVE  now < lease + ack_grace
<1>1. deadline \in Int /\ deadline > 0 /\ deadline = lease + ack_grace - skew
      BY TimesAssumption DEF LeaseInv, ack_safe_deadline
<1>2. PICK r \in Readings : r < deadline
      BY <1>1 DEF BeforeD
<1> QED BY <1>1, <1>2, ReadingWithin, TimesAssumption

-----------------------------------------------------------------------------
(* The invariant, action by action *)

(* A step that touches only the state and the flags keeps everything. *)
LEMMA Quiet ==
    ASSUME BundleInv,
           UNCHANGED <<ack_items, bound, pending, binding, lease, deadline, running, journal,
                       ack, now>>
    PROVE  BundleInv'
BY DEF BundleInv, DataOK, LeaseInv, JournalInv, BindingInv, BoundInv, AckInTime,
       ack_safe_deadline, build_ack_items, encodes_ack

(* The bundle of a Response is kept with its lease and with its items. *)
LEMMA ResponseStep ==
    ASSUME BundleInv, NEW m \in Envelopes, Response(m)
    PROVE  BundleInv'
<1>1. /\ m.ptype = "Response" /\ decodes(m)
      /\ UNCHANGED <<ack_items, bound, running, journal, ack, now>>
      /\ \/ UNCHANGED <<pending, binding, lease, deadline>>
         \/ /\ response_valid(m.items)
            /\ lease' = IF m.expire_at > 0 THEN m.expire_at ELSE lease
            /\ deadline' = IF m.expire_at > 0 THEN ack_safe_deadline(m.expire_at) ELSE deadline
            /\ binding' = {Binding(m.items[i]) : i \in DOMAIN m.items}
            /\ pending' = m.items
      BY DEF Response, proof, secVars, bundle, times
<1>2. CASE UNCHANGED <<pending, binding, lease, deadline>>
      BY <1>1, <1>2, Quiet
<1>3. CASE /\ response_valid(m.items)
           /\ lease' = IF m.expire_at > 0 THEN m.expire_at ELSE lease
           /\ deadline' = IF m.expire_at > 0 THEN ack_safe_deadline(m.expire_at) ELSE deadline
           /\ binding' = {Binding(m.items[i]) : i \in DOMAIN m.items}
           /\ pending' = m.items
  <2>1. m.items \in Seq(Items) /\ m.expire_at \in Nat
        BY <1>1, ResponseData
  <2>2. DataOK'
        BY <1>1, <1>3, <2>1 DEF BundleInv, DataOK
  <2>3. LeaseInv'
        BY <1>3, <2>1 DEF BundleInv, DataOK, LeaseInv, ack_safe_deadline
  <2>4. BindingInv'
    <3>1. ASSUME NEW p \in Purposes
          PROVE  \E b \in binding' : b.purpose = p /\ b.key_id <= MaxString
          BY <1>1, <1>3, ResponseBinding
    <3> QED BY <3>1 DEF BindingInv
  <2>5. JournalInv' /\ BoundInv' /\ AckInTime'
        BY <1>1 DEF BundleInv, JournalInv, BoundInv, AckInTime, build_ack_items, encodes_ack
  <2> QED BY <2>2, <2>3, <2>4, <2>5 DEF BundleInv
<1> QED BY <1>1, <1>2, <1>3

(* SEC writes its journal once, when no import runs and nothing is known of  *)
(* one.                                                                      *)
LEMMA JournalStep ==
    ASSUME BundleInv, journal = <<>>, journal' \in Seq(ReportItems), running' = <<>>,
           UNCHANGED <<ack_items, bound, pending, binding, lease, deadline, ack, now>>
    PROVE  BundleInv'
<1>1. ack_items = <<>> /\ ack.items = <<>>
      BY DEF BundleInv, JournalInv
<1>2. DataOK'
      BY DEF BundleInv, DataOK
<1>3. JournalInv'
      BY <1>1 DEF JournalInv
<1> QED BY <1>2, <1>3 DEF BundleInv, LeaseInv, BindingInv, BoundInv, AckInTime,
       ack_safe_deadline, encodes_ack

LEMMA ImportStep ==
    ASSUME BundleInv, do_import
    PROVE  BundleInv'
<1>1. UNCHANGED <<ack_items, bound, pending, binding, lease, deadline, ack, now>>
      BY DEF do_import, proof, bundle, times
<1>2. CASE UNCHANGED <<running, journal>>
      BY <1>1, <1>2, Quiet
<1>3. CASE /\ journal = <<>> /\ running = <<>> /\ pending # <<>>
           /\ journal' \in Reports(pending) /\ UNCHANGED running
  <2>1. journal' \in Seq(ReportItems)
        BY <1>3, ReportsType DEF BundleInv, DataOK
  <2> QED BY <1>1, <1>3, <2>1, JournalStep
<1>4. CASE /\ journal = <<>> /\ running' = pending /\ UNCHANGED journal
  <2>1. DataOK'
        BY <1>1, <1>4 DEF BundleInv, DataOK
  <2>2. JournalInv'
        BY <1>1, <1>4 DEF BundleInv, JournalInv
  <2> QED BY <1>1, <2>1, <2>2 DEF BundleInv, LeaseInv, BindingInv, BoundInv, AckInTime,
         ack_safe_deadline, encodes_ack
<1> QED BY <1>2, <1>3, <1>4 DEF do_import, secVars

LEMMA SecFinishesStep ==
    ASSUME BundleInv, SecFinishes
    PROVE  BundleInv'
<1>1. /\ running # <<>> /\ running' = <<>>
      /\ journal' = journal \/ journal' \in Reports(running)
      /\ UNCHANGED <<ack_items, bound, pending, binding, lease, deadline, ack, now>>
      BY DEF SecFinishes, proof, bundle, times
<1>2. journal = <<>> /\ running \in Seq(Items)
      BY <1>1 DEF BundleInv, JournalInv, DataOK
<1>3. journal' \in Seq(ReportItems)
  <2>1. Reports(running) \subseteq Seq(ReportItems)
        BY <1>1, <1>2, ReportsType
  <2>2. journal \in Seq(ReportItems)
        BY DEF BundleInv, DataOK
  <2> QED BY <1>1, <2>1, <2>2
<1> QED BY <1>1, <1>2, <1>3, JournalStep

(* The proof that the ACK is built from is set from the journal. *)
LEMMA ProofStep ==
    ASSUME BundleInv, journal # <<>>, ack_items' = build_ack_items(journal),
           bound' => encodes_ack(build_ack_items(journal)),
           pending' \in Seq(Items),
           UNCHANGED <<binding, lease, deadline, running, journal, ack, now>>
    PROVE  BundleInv'
<1>1. DataOK'
      BY DEF BundleInv, DataOK
<1>2. JournalInv'
      BY DEF BundleInv, JournalInv, build_ack_items
<1>3. BoundInv'
      BY DEF BoundInv, encodes_ack
<1> QED BY <1>1, <1>2, <1>3 DEF BundleInv, LeaseInv, BindingInv, AckInTime, ack_safe_deadline

(* A step that forgets items of the Response. *)
LEMMA ForgetStep ==
    ASSUME BundleInv, pending' = <<>>, binding' \in {binding, {}},
           UNCHANGED <<ack_items, bound, lease, deadline, running, journal, ack, now>>
    PROVE  BundleInv'
<1>1. DataOK'
      BY DEF BundleInv, DataOK
<1> QED BY <1>1 DEF BundleInv, LeaseInv, JournalInv, BindingInv, BoundInv, AckInTime,
       ack_safe_deadline, build_ack_items, encodes_ack

LEMMA ImportResultStep ==
    ASSUME BundleInv, handle_import_result
    PROVE  BundleInv'
<1>1. /\ pending' = <<>>
      /\ UNCHANGED <<binding, lease, deadline, running, journal, ack, now>>
      /\ \/ /\ import_result_bindable(journal)
            /\ ack_items' = build_ack_items(journal)
            /\ bound' = (binding # {})
         \/ UNCHANGED <<ack_items, bound>>
      BY DEF handle_import_result, times, secVars
<1>2. CASE UNCHANGED <<ack_items, bound>>
      BY <1>1, <1>2, ForgetStep
<1>3. CASE /\ import_result_bindable(journal)
           /\ ack_items' = build_ack_items(journal)
           /\ bound' = (binding # {})
  <2>1. bound' => encodes_ack(build_ack_items(journal))
        BY <1>3, BindableEncodes DEF BundleInv, DataOK
  <2>2. pending' \in Seq(Items)
        BY <1>1
  <2> QED BY <1>1, <1>3, <2>1, <2>2, BindableNotEmpty, ProofStep
<1> QED BY <1>1, <1>2, <1>3

LEMMA ReconcileStep ==
    ASSUME BundleInv, reconcile_committed
    PROVE  BundleInv'
<1>1. /\ journal # <<>> /\ ack_items' = build_ack_items(journal) /\ bound' = FALSE
      /\ UNCHANGED <<pending, binding, lease, deadline, running, journal, ack, now>>
      BY DEF reconcile_committed, bundle, times, secVars
<1>2. pending' \in Seq(Items)
      BY <1>1 DEF BundleInv, DataOK
<1> QED BY <1>1, <1>2, ProofStep

(* do_ack_locked: the ACK carries the proof, and leaves before D. *)
LEMMA AckStep ==
    ASSUME BundleInv, do_ack
    PROVE  BundleInv'
<1>1. UNCHANGED <<pending, binding, lease, deadline, running, journal, now>>
      BY DEF do_ack, bundle, times, secVars
<1>2. Proof # <<>> => journal # <<>> /\ Proof = build_ack_items(journal)
      BY DEF Proof, BundleInv, JournalInv
<1>3. /\ ack_items' = Proof
      /\ bound' => bound /\ ack_items # <<>>
      BY DEF do_ack
<1>4. \/ ack' = ack
      \/ /\ BeforeD
         /\ ack' = [items |-> Proof, refused |-> refused,
                    late |-> lease > 0 /\ now >= lease + ack_grace]
      BY DEF do_ack
<1>5. DataOK' /\ LeaseInv' /\ BindingInv'
      BY <1>1 DEF BundleInv, DataOK, LeaseInv, BindingInv, ack_safe_deadline
<1>6. JournalInv'
  <2>1. build_ack_items(journal)' = build_ack_items(journal)
        BY <1>1 DEF build_ack_items
  <2>2. ack'.items = ack.items \/ ack'.items = Proof
        BY <1>4
  <2> QED BY <1>1, <1>2, <1>3, <2>1, <2>2 DEF BundleInv, JournalInv
<1>7. BoundInv'
  <2>1. SUFFICES ASSUME bound' PROVE encodes_ack(ack_items')
        BY DEF BoundInv, encodes_ack
  <2>2. ack_items' = ack_items
        BY <1>3, <2>1 DEF Proof
  <2> QED BY <1>3, <2>1, <2>2 DEF BundleInv, BoundInv, encodes_ack
<1>8. AckInTime'
  <2>1. CASE ack' = ack
        BY <2>1 DEF BundleInv, AckInTime
  <2>2. CASE /\ BeforeD
             /\ ack' = [items |-> Proof, refused |-> refused,
                        late |-> lease > 0 /\ now >= lease + ack_grace]
    <3>1. lease > 0 => now < lease + ack_grace
          BY <2>2, BeforeDInTime DEF BundleInv, DataOK
    <3>2. ~(lease > 0 /\ now >= lease + ack_grace)
          BY <3>1, TimesAssumption DEF BundleInv, DataOK
    <3> QED BY <2>2, <3>2 DEF AckInTime
  <2> QED BY <1>4, <2>1, <2>2
<1> QED BY <1>5, <1>6, <1>7, <1>8 DEF BundleInv

(* A restart forgets the proof too; SEC keeps its journal. *)
LEMMA RestartStep ==
    ASSUME BundleInv, Restart
    PROVE  BundleInv'
<1>1. /\ pending' = <<>> /\ binding' = {} /\ ack_items' = <<>> /\ bound' = FALSE
      /\ UNCHANGED <<lease, deadline, running, journal, ack, now>>
      BY DEF Restart, times, secVars
<1>2. DataOK'
      BY <1>1 DEF BundleInv, DataOK
<1>3. JournalInv'
      BY <1>1 DEF BundleInv, JournalInv, build_ack_items
<1> QED BY <1>1, <1>2, <1>3 DEF BundleInv, LeaseInv, BindingInv, BoundInv, AckInTime,
       ack_safe_deadline

LEMMA TimeStep ==
    ASSUME BundleInv, TimePasses
    PROVE  BundleInv'
<1>1. /\ now' = now + 1
      /\ UNCHANGED <<ack_items, bound, pending, binding, lease, deadline, running, journal, ack>>
      BY DEF TimePasses, proof, bundle, times, secVars
<1>2. DataOK'
      BY <1>1 DEF BundleInv, DataOK
<1> QED BY <1>1, <1>2 DEF BundleInv, LeaseInv, JournalInv, BindingInv, BoundInv, AckInTime,
       ack_safe_deadline, build_ack_items, encodes_ack

LEMMA BundleStart == Init => BundleInv
<1> SUFFICES ASSUME Init PROVE BundleInv
    OBVIOUS
<1>1. DataOK
      BY DEF Init, DataOK
<1>2. LeaseInv /\ JournalInv /\ BindingInv /\ BoundInv /\ AckInTime
      BY DEF Init, LeaseInv, JournalInv, BindingInv, BoundInv, AckInTime
<1> QED BY <1>1, <1>2 DEF BundleInv

LEMMA BundleStep == BundleInv /\ [Next]_vars => BundleInv'
<1> SUFFICES ASSUME BundleInv, [Next]_vars PROVE BundleInv'
    OBVIOUS
<1> DEFINE quiet == UNCHANGED <<ack_items, bound, pending, binding, lease, deadline, running,
                                journal, ack, now>>
<1>1. CASE UNCHANGED vars
      BY <1>1, Quiet DEF vars, proof, bundle, times, secVars
<1>2. CASE do_check \/ on_response_timeout \/ ResponseRefused \/ Conflict
  <2>1. quiet
        BY <1>2 DEF do_check, on_response_timeout, ResponseRefused, Conflict, NoChange, proof,
                    bundle, times, secVars
  <2> QED BY <2>1, Quiet
<1>3. CASE do_import_lease_too_short \/ maybe_freshen
  <2>1. quiet
        BY <1>3 DEF do_import_lease_too_short, maybe_freshen, NoChange, proof, bundle, times, secVars
  <2> QED BY <2>1, Quiet
<1>4. CASE \E id \in Identities : do_request(id)
  <2>1. quiet
        BY <1>4 DEF do_request, NoChange, proof, bundle, times, secVars
  <2> QED BY <2>1, Quiet
<1>5. ASSUME NEW m \in Envelopes, AckResult(m) \/ StatusResponse(m)
      PROVE  BundleInv'
  <2>1. quiet
        BY <1>5 DEF AckResult, StatusResponse, NoChange, proof, bundle, times, secVars
  <2> QED BY <2>1, Quiet
<1>6. CASE \E m \in Envelopes : Response(m)
      BY <1>6, ResponseStep
<1>7. CASE do_import
      BY <1>7, ImportStep
<1>8. CASE handle_import_result
      BY <1>8, ImportResultStep
<1>9. CASE reconcile_committed
      BY <1>9, ReconcileStep
<1>10. CASE do_ack
      BY <1>10, AckStep
<1>11. CASE SecFinishes
      BY <1>11, SecFinishesStep
<1>12. CASE SessionLost
  <2>1. /\ pending' = <<>> /\ binding' \in {binding, {}}
        /\ UNCHANGED <<ack_items, bound, lease, deadline, running, journal, ack, now>>
        BY <1>12 DEF SessionLost, proof, times, secVars
  <2> QED BY <2>1, ForgetStep
<1>13. CASE Restart
      BY <1>13, RestartStep
<1>14. CASE TimePasses
      BY <1>14, TimeStep
<1> QED BY <1>1, <1>2, <1>3, <1>4, <1>5, <1>6, <1>7, <1>8, <1>9, <1>10, <1>11, <1>12, <1>13,
           <1>14 DEF Next

-----------------------------------------------------------------------------
(* Results *)

(* The proof in memory and the last ACK say what SEC committed, D is that of *)
(* the lease on record, and the binding bounds the key ids.                  *)
THEOREM BundleInvariance == Spec => []BundleInv
BY BundleStart, BundleStep, PTL DEF Spec

(* keyprov_build_attempt_snapshot and import_result_bindable_locked accept   *)
(* nothing that the encoders of the Request and of the ACK refuse.           *)
THEOREM AcceptedEncodes == Spec => []EncodersAccept
<1>1. BundleInv => EncodersAccept
      BY DEF BundleInv, BoundInv, EncodersAccept, builds_snapshot, encodes_request, DigestBytes
<1> QED BY <1>1, BundleInvariance, PTL

(* What do_ack_locked has reported to VMD is what SEC has committed.         *)
THEOREM AckTellsJournal == Spec => []AckReportsJournal
<1>1. BundleInv => AckReportsJournal
      BY DEF BundleInv, JournalInv, AckReportsJournal
<1> QED BY <1>1, BundleInvariance, PTL

(* do_ack_locked publishes no ACK after VMD has stopped to wait for it.      *)
THEOREM AckBeforeGraceEnds == Spec => []AckInTime
<1>1. BundleInv => AckInTime
      BY DEF BundleInv
<1> QED BY <1>1, BundleInvariance, PTL

(* do_import_locked: the import of SEC starts before the lease ends.         *)
THEOREM ImportBeforeLeaseEnds == Spec => ImportInTime
<1>1. BundleInv /\ [Next]_vars
        => [result = "none" /\ result' # "none" /\ lease > 0 => now < lease]_vars
  <2> SUFFICES ASSUME BundleInv, [Next]_vars, result = "none", result' # "none", lease > 0
               PROVE  now < lease
      OBVIOUS
  <2>1. do_import
    <3>1. CASE UNCHANGED vars
          BY <3>1 DEF vars
    <3>2. CASE do_check \/ on_response_timeout \/ ResponseRefused \/ Conflict
               \/ do_import_lease_too_short \/ maybe_freshen
          BY <3>2 DEF do_check, on_response_timeout, ResponseRefused, Conflict,
                      do_import_lease_too_short, maybe_freshen, NoChange
    <3>3. CASE \E id \in Identities : do_request(id)
          BY <3>3 DEF do_request, NoChange
    <3>4. CASE \E m \in Envelopes : Response(m) \/ AckResult(m) \/ StatusResponse(m)
          BY <3>4 DEF Response, AckResult, StatusResponse, NoChange
    <3>5. CASE handle_import_result \/ reconcile_committed \/ do_ack
          BY <3>5 DEF handle_import_result, reconcile_committed, do_ack
    <3>6. CASE SecFinishes \/ SessionLost \/ Restart \/ TimePasses
          BY <3>6 DEF SecFinishes, SessionLost, Restart, TimePasses
    <3> QED BY <3>1, <3>2, <3>3, <3>4, <3>5, <3>6 DEF Next
  <2>2. PICK U \in Readings : lease_acceptable(U, lease)
        BY <2>1 DEF do_import
  <2>3. now \in Nat /\ lease \in Nat
        BY DEF BundleInv, DataOK
  <2>4. lease - U >= import_min /\ U \in Int /\ now - skew <= U
        BY <2>2, <2>3, ReadingWithin DEF lease_acceptable
  <2> QED BY <2>3, <2>4, TimesAssumption
<1> QED BY <1>1, BundleInvariance, PTL DEF Spec, ImportInTime

=============================================================================
