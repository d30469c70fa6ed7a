------------------------------ MODULE Evidence ------------------------------
(***************************************************************************)
(* Attestations in the hands of their holder: what a party makes of the    *)
(* attestations of its sessions, as they are or changed, alone, in bundles *)
(* and in competence proofs, and what verifiers then accept.  The          *)
(* documents, the clock and the revocation records are those of Artifacts. *)
(***************************************************************************)
EXTENDS Artifacts, Portfolios

CONSTANTS
  Agents,
  OtherVersions, \* bound: versions a holder may write over the issuer's
  CommittedIds,  \* bound: ids a holder may commit to, issued or not
  MaxCommitted,  \* bound: the ids of one commitment
  MaxShown       \* bound: the attestations of one bundle or proof

ASSUME EvidenceAssumption ==
  /\ Attested \subseteq CommittedIds /\ CommittedIds \subseteq Nat
  /\ \A session \in Concluded : session.parties \subseteq Agents
  /\ {MaxCommitted, MaxShown} \subseteq Nat

----------------------------------------------------------------------------
Issued == {published[a] : a \in {x \in Attested : published[x] # None}}

\* The attestation with other parties; record is what a new one has.
Among(att, parties, record) ==
  [att EXCEPT !.parties = parties,
              !.records = [p \in parties |-> IF p \in att.parties THEN @[p] ELSE record]]

\* External: one thing about an attestation is changed, or a mediator's settlement added.
Edited(att) ==
  {[att EXCEPT !.outcome = "agreed"]}
    \cup {x \in {ApplyDisputeResolved(att)} : CanMediate(att)}
    \cup {[att EXCEPT !.version = v] : v \in OtherVersions}
    \cup {[att EXCEPT !.from = now, !.until = now + MaxAge], [att EXCEPT !.timestamp = now]}
    \cup {[att EXCEPT !.id = id] : id \in CommittedIds}
    \cup {[att EXCEPT !.session = session.id] : session \in Concluded}
    \cup {[att EXCEPT !.records[p] = r] : p \in att.parties, r \in {"resigned", "altered", "swapped", "unsigned"}}

\* External: or its parties are, or the others are left out and one thing more is changed.
Altered(att, holder) ==
  Edited(att)
    \cup {Among(att, parties, record) : parties \in SUBSET Agents, record \in {"resigned", "altered"}}
    \cup Edited(Among(att, {holder}, "resigned"))

\* External: a holder has its own key, with which it countersigns again.
Recountersigned(att, holder) ==
  [att EXCEPT !.countersignatures =
     [p \in att.parties \cap (DOMAIN @ \cup {holder}) |-> IF p = holder THEN Payload(att) ELSE @[p]]]

\* What a holder can make of an attestation: only its own record it can sign
\* again, and it countersigns whatever it changed.
Variants(att, holder) ==
  {Recountersigned(form, holder) : form \in
    {x \in Altered(att, holder) : \A p \in x.parties \ {holder} : x.records[p] # "resigned"}}

\* The relying party's revocation checker: it knows the records about the
\* attestation itself, or nothing.
Checked(att, informed) ==
  IF ~informed THEN "unknown"
  ELSE IF FindRevocation(<<[id |-> att.id]>>, now) THEN "revoked" ELSE "clear"

\* An attestation is verified without a look at other kinds of document, so
\* that is looked at where attestations are all there is; bundles and proofs
\* read neither the clock, nor what an attestation says of it, nor the records.
OnlyAttestations == Candidates \subseteq Attested

Quiet ==
  /\ OnlyAttestations /\ now = 0 /\ \A id \in Ids : records[id] = None
  /\ \A i \in Issued : i.timestamp = now

\* Attestations as issued, or with one of them changed.
Shown(holder) ==
  LET issued == UNION {[1..n -> Issued] : n \in 0..MaxShown}
  IN  issued \cup UNION {UNION {{[atts EXCEPT ![i] = form] : form \in Variants(atts[i], holder)}
                                  : i \in DOMAIN atts} : atts \in issued}

\* What is committed to is sorted.
Commitments ==
  {ids \in UNION {[1..n -> CommittedIds] : n \in 1..MaxCommitted} :
     \A i, j \in DOMAIN ids : i <= j => ids[i] <= ids[j]}

----------------------------------------------------------------------------
\* Whatever its holder changed, an attestation is accepted at the current
\* version only as it was issued, by a relying party that expects its session
\* and parties, inside its window, while no evidence in it is older than the
\* limit or further ahead than clocks may differ, and not when the checker
\* knows it revoked (verify_attestation).  Only the signature of a single
\* record may differ: it is not looked at.
AcceptedIsFresh ==
  OnlyAttestations =>
    \A holder \in Agents : \A att \in Issued \cup UNION {Variants(i, holder) : i \in Issued} :
    \A session \in Concluded, informed \in BOOLEAN :
      LET result == VerifyAttestation(att, Agents, session.id, session.parties, now, Checked(att, informed))
      IN  result.valid /\ result.terminal # "legacy" =>
            /\ \E i \in Issued : Payload(att) = Payload(i)
            /\ att.session = session.id /\ att.outcome = session.state
            /\ att.from <= now /\ now <= att.until
            /\ now - att.timestamp <= MaxAge /\ att.timestamp - now <= Skew
            /\ result.terminal = "current" => ~FindRevocation(<<[id |-> att.id]>>, now)

\* A bundle that verifies credits an agreement with somebody else only as
\* everybody signed it, and each session and each id once, however often it
\* was attested and whatever was changed or signed again by the holder.  What
\* is credited of the holder alone may be of its own making (verify_bundle;
\* evaluate_outcome_binding takes one countersignature where one party is
\* listed).
CreditIsCountersigned ==
  Quiet =>
    \A holder \in Agents : \A keys \in {Agents, {holder}}, atts \in Shown(holder) :
      LET result == VerifyBundle(CreateBundle(holder, atts), keys)
      IN  result.valid =>
            /\ \A att \in result.credited : att \in Issued \/ att.parties = {holder}
            /\ \A x, y \in result.credited : x.session = y.session \/ x.id = y.id => x = y

\* Nothing among the ids is written as two hashes.
Plain(ids) == ids \cap DOMAIN Joined = {}

\* When the aggregate of a competence proof counts as verified, what was
\* revealed is as many ids as are counted, each with somebody else only as
\* issued; and whatever list of ids the root commits to, it is of these ids and
\* no other, as long as none of either is written as two hashes: a proof can
\* hide no leaf behind the count, nor the last of an odd layer that stands for
\* itself.  How often an id was committed to the root does not tell: three
\* leaves have the root they have with the last one twice
\* (verify_competence_proof).
AggregateIsCommitted ==
  Quiet =>
    \A holder \in Agents : \A keys \in {Agents, {holder}}, atts \in Shown(holder), ids \in Commitments :
      LET shown == {atts[i].id : i \in DOMAIN atts}
          proof == CreateProof(holder, ids, Len(atts), ComputeSummary(holder, atts), atts)
      IN  shown \subseteq Range(ids) /\ VerifyCompetence(proof, keys).aggregate =>
            /\ \A i \in DOMAIN atts : atts[i] \in Issued \/ atts[i].parties = {holder}
            /\ Cardinality(shown) = Len(atts)
            /\ Plain(shown) =>
                 \A list \in Commitments :
                   MerkleRoot(list) = MerkleRoot(ids) /\ Plain(Range(list)) => Range(list) = shown

----------------------------------------------------------------------------
(* What the sources say and the code does not do. *)

\* competence_proof.py:443-445 "every revealed attestation is a real, dual-countersigned
\* session the prover was a party in, and the signed numbers are the honest
\* arithmetic OF THAT SET": a session attested twice counts as two
\* negotiations, where a bundle refuses it (receipt_bundle.py:572).
AggregateCountsOnce ==
  Quiet =>
    \A holder \in Agents : \A atts \in Shown(holder), ids \in Commitments :
      /\ {atts[i].id : i \in DOMAIN atts} \subseteq Range(ids)
      /\ VerifyCompetence(CreateProof(holder, ids, Len(atts), ComputeSummary(holder, atts), atts), Agents).aggregate
      => \A i, j \in DOMAIN atts : atts[i].session = atts[j].session => i = j
=============================================================================
