---------------------------- MODULE Attestations ----------------------------
(***************************************************************************)
(* Reputation attestations: what an issuer signs of a concluded session    *)
(* and what a relying party makes of it (src/concordia/attestation.py; the *)
(* outcome binding is in src/concordia/receipt_bundle.py, what a mediator  *)
(* adds in src/concordia/adapters/a2cn/dispute_resolved.py).               *)
(*                                                                         *)
(* A version is its second number, the first being 0; None stands for a    *)
(* malformed one.  A signature is the content it covers.  A party record,  *)
(* which its party signs alone, is "issued", "resigned" (changed and       *)
(* signed again), "altered" (changed without the key), "swapped" (not      *)
(* changed, but with another signature) or "unsigned".                     *)
(***************************************************************************)
EXTENDS Integers, FiniteSets, Sequences

CONSTANTS
  MaxAge,  \* REFERENCE_ATTESTATION_VALIDITY_SECONDS, the longest window and the oldest evidence
  Skew,    \* MAX_RELYING_CLOCK_SKEW_SECONDS
  None     \* no version, no document, no record

ASSUME AttestationsAssumption == {MaxAge, Skew} \subseteq Nat

AttestationVersion == 6
OutcomeBindingMin == 2
SetBindingMin == 3
LegacyFloor == 5

Content(att) == [f \in DOMAIN att \ {"countersignatures", "records"} |-> att[f]]

\* The payload leaves out every signature, not the rest of the party records.
Payload(att) == [content |-> Content(att), behavior |-> {p \in att.parties : att.records[p] \in {"resigned", "altered"}}]

Countersign(att) == Payload(att)

ValidWindow(from, until) == until > from /\ until - from <= MaxAge

\* The outcome of the session, and the window the issuer was given.
GenerateAttestation(id, session, from, until, references, time) ==
  LET att == [kind |-> "attestation", id |-> id, session |-> session.id, parties |-> session.parties,
              version |-> AttestationVersion, outcome |-> session.state, timestamp |-> time,
              from |-> from, until |-> until, references |-> references, fulfillment |-> None,
              records |-> [p \in session.parties |-> "issued"], countersignatures |-> <<>>]
  IN  [att EXCEPT !.countersignatures = [p \in session.parties |-> Countersign(att)]]

\* apply_dispute_resolved_to_attestation: what a mediator settled is written into a copy,
\* which refers to itself from then on.
CanMediate(att) == att.outcome = "agreed" /\ att.fulfillment \in {None, "disputed"}

ApplyDisputeResolved(att) ==
  [att EXCEPT !.fulfillment = "fulfilled_with_mediation",
              !.references = Append(@, [id |-> att.id, relationship |-> "fulfills"])]

Supported(att) == att.version # None /\ att.version <= AttestationVersion

VerifyCountersignature(att, p, keys) == p \in keys /\ att.countersignatures[p] = Payload(att)

\* The current versions know no fulfillment.
StructureHolds(att) ==
  /\ att.fulfillment = None
  /\ ValidWindow(att.from, att.until)
  /\ Cardinality(att.parties) >= 2 /\ \A p \in att.parties : att.records[p] # "unsigned"
  /\ DOMAIN att.countersignatures = att.parties

\* Fault: the evidence is as young as the younger of its timestamp and its window.
EvidenceAnchorLate(att) == IF att.timestamp > att.from THEN att.timestamp ELSE att.from

EvidenceAnchor(att) == IF att.timestamp < att.from THEN att.timestamp ELSE att.from

Timely(att, time) ==
  /\ att.timestamp - time <= Skew /\ att.from - time <= Skew
  /\ att.until - att.from <= MaxAge
  /\ att.from <= time /\ time <= att.until
  /\ time - EvidenceAnchor(att) <= MaxAge

\* A checker answers "revoked", "clear", or cannot tell.
VerifyArtifact(att, keys, session, parties, time, checked) ==
  IF ~Supported(att) THEN "not-bound"
  ELSE IF att.version < LegacyFloor THEN "legacy"
  ELSE IF ~StructureHolds(att) THEN "not-bound"
  ELSE IF \E p \in att.parties : ~VerifyCountersignature(att, p, keys) THEN "not-bound"
  ELSE IF ~Timely(att, time) THEN "not-bound"
  ELSE IF checked = "revoked" THEN "not-bound"
  ELSE IF att.session # session \/ att.parties # parties THEN "not-bound"
  ELSE IF checked = "clear" THEN "current"
  ELSE "bound-only"

\* evaluate_outcome_binding.  Fault: one countersignature will do.
OutcomeBoundByOne(att, keys) ==
  IF ~Supported(att) THEN "error"
  ELSE IF att.version < OutcomeBindingMin THEN "unbound"
  ELSE IF \E p \in att.parties : p \in DOMAIN att.countersignatures /\ VerifyCountersignature(att, p, keys)
       THEN "bound"
  ELSE "error"

OutcomeBound(att, keys) ==
  IF ~Supported(att) THEN "error"
  ELSE IF att.version < OutcomeBindingMin THEN "unbound"
  ELSE IF /\ att.parties # {}
          /\ \A p \in att.parties : p \in DOMAIN att.countersignatures /\ VerifyCountersignature(att, p, keys)
       THEN "bound"
  ELSE "error"

\* evaluate_receipt_set_binding without a transcript: the fields are always well formed here.
SetBinding(att) ==
  IF ~Supported(att) THEN "error"
  ELSE IF att.version < SetBindingMin THEN "legacy_set_unbound"
  ELSE "fields_present_unverified"

\* verify_attestation: below the floor the old checks, which read no clock,
\* no revocation and nothing the relying party expects.
VerifyAttestation(att, keys, session, parties, time, checked) ==
  LET terminal == VerifyArtifact(att, keys, session, parties, time, checked)
  IN  [terminal |-> terminal,
       valid    |-> IF terminal = "legacy"
                    THEN /\ \A p \in att.parties : p \in keys /\ att.records[p] \in {"issued", "resigned"}
                         /\ OutcomeBound(att, keys) # "error"
                    ELSE terminal \in {"current", "bound-only"} /\ SetBinding(att) # "error"]
=============================================================================
