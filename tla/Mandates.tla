------------------------------ MODULE Mandates ------------------------------
(***************************************************************************)
(* Mandates (src/concordia/mandate.py, mandate_resolver.py): an issuer     *)
(* signs what its agent may do, delegations narrow it, a resolver hands    *)
(* the mandate out by reference, an endpoint lists the revoked ones, and   *)
(* verifiers answer whether an action is covered, at a time, and record    *)
(* the answer (verification_audit.py).                                     *)
(*                                                                         *)
(* A mandate is its body and the seal: who signed, and what.  Constraints  *)
(* and scope restrictions are upper limits on an amount.                   *)
(***************************************************************************)
EXTENDS Integers, SequencesExt

CONSTANTS
  Refs,       \* mandate ids, used as references
  Bodies,     \* what issuers sign
  Requests,   \* what verifiers are asked: action, binding context, keys, revocation or not
  EcSigners,  \* those whose key is for ES256; the others sign with EdDSA
  None,       \* no mandate, no key, no action, no scope restriction
  Unknown,    \* constraints that are no schema, a restriction of no known form
  Wide,       \* bound: the limit written into an altered copy
  MaxTime,    \* bound
  MaxEvents   \* bound: verifications recorded, after which nothing more happens

BodyFields ==
  {"id", "issuer", "subject", "limit", "status", "validity", "chain", "endpoint", "revokedAt", "alg"}

\* A body has the fields of the schema, its chain is a list, a window has its two ends;
\* a caller that knows of a state knows it as true or false, and says whether the list of
\* revoked mandates is to be asked.
ASSUME MandateAssumption ==
  /\ \A b \in Bodies :
       /\ DOMAIN b = BodyFields
       /\ b.chain \in Seq(Range(b.chain))
       /\ b.validity.mode \in {"none", "windowed", "sequence", "state_bound"}
       /\ b.validity.mode = "windowed" => b.validity.from \in Int /\ b.validity.to \in Int
  /\ \A q \in Requests :
       q.stateActive \in BOOLEAN \union {None} /\ q.checkRevocation \in BOOLEAN
  /\ None \notin BOOLEAN
  /\ MaxTime \in Nat

VARIABLES
  filed,    \* the resolver: reference -> mandate
  listed,   \* the ids in the list at the revocation endpoint
  up,       \* the revocation endpoint answers
  now,
  audit     \* the verification audit log, with what the answer was given on

vars == <<filed, listed, up, now, audit>>

Seal(who, what) == [by |-> who, over |-> what]

\* What a link says, which is what its delegator signs.
LinkBody(l) == <<l.from, l.to, l.scope, l.alg>>

\* sign_mandate, sign_delegation.
SignMandate(who, b) == [body |-> b, seal |-> Seal(who, b)]
SignLink(who, from, to, scope, alg) ==
  [from |-> from, to |-> to, scope |-> scope, alg |-> alg, seal |-> Seal(who, <<from, to, scope, alg>>)]

-----------------------------------------------------------------------------
(* verify_mandate, check by check *)

\* validate_mandate_schema: a mandate says when it is valid, and how it is signed.
SchemaHolds(b) ==
  /\ b.validity.mode # "none"
  /\ b.validity.mode = "sequence" => b.validity.key # None
  /\ b.alg \in {"EdDSA", "ES256"}

\* verify_signature: the key is one for the algorithm, and signed this.
VerifySignature(what, seal, key, alg) ==
  /\ key # None
  /\ alg = (IF key \in EcSigners THEN "ES256" ELSE "EdDSA")
  /\ seal = Seal(key, what)

\* check_temporal_validity; the binding context is required.
Timely(v, q, time) ==
  CASE v.mode = "windowed"    -> v.from <= time /\ time <= v.to
    [] v.mode = "sequence"    -> q.sequenceKey = v.key
    [] v.mode = "state_bound" -> q.stateActive = TRUE

\* Fault: where a link starts is not compared with where the one before it ended.
DelegatedUnlinked(b, keys) ==
  LET chain == b.chain
  IN chain # <<>> =>
       /\ chain[1].from = b.issuer
       /\ Last(chain).to = b.subject
       /\ \A i \in DOMAIN chain :
            /\ chain[i].from \in keys
            /\ VerifySignature(LinkBody(chain[i]), chain[i].seal, chain[i].from, chain[i].alg)

\* verify_delegation_chain.
Delegated(b, keys) ==
  LET chain == b.chain
  IN chain # <<>> =>
       /\ chain[1].from = b.issuer
       /\ Last(chain).to = b.subject
       /\ \A i \in DOMAIN chain :
            /\ i > 1 => chain[i].from = chain[i - 1].to
            /\ chain[i].from \in keys
            /\ VerifySignature(LinkBody(chain[i]), chain[i].seal, chain[i].from, chain[i].alg)

\* Fault: the last restriction takes the place of those before it.
LimitsLast(b) ==
  LET scopes == SelectSeq([i \in DOMAIN b.chain |-> b.chain[i].scope], LAMBDA s : s # None)
  IN IF scopes = <<>> THEN {b.limit} ELSE {Last(scopes)}

\* compose_effective_constraints: every limit holds.
Limits(b) == {b.limit} \union ({b.chain[i].scope : i \in DOMAIN b.chain} \ {None})

\* validate_constraints, on the effective constraints.
Permitted(b, amount) ==
  /\ Unknown \notin Limits(b)
  /\ amount # None => \A limit \in Limits(b) : amount <= limit

\* Fault: an endpoint that cannot be reached revokes nothing.
NotRevokedOpen(b) == b.endpoint => ~up \/ b.id \notin listed

\* check_revocation: closed when the endpoint cannot be reached.
NotRevoked(b) == b.endpoint => up /\ b.id \notin listed

VerifyMandate(m, q) ==
  /\ SchemaHolds(m.body)
  /\ VerifySignature(m.body, m.seal, q.issuerKey, m.body.alg)
  /\ m.body.status = "active"
  /\ Timely(m.body.validity, q, now)
  /\ Delegated(m.body, q.keys)
  /\ Permitted(m.body, q.amount)
  /\ q.checkRevocation => NotRevoked(m.body)

\* verify_mandate_with_resolver.
VerifyWithResolver(ref, m, q, tier) ==
  /\ m # None /\ m.body.id = ref
  /\ m.body.status = "active"
  /\ tier = "did-vc" => VerifyMandate(m, q)

-----------------------------------------------------------------------------
Init ==
  /\ filed = [r \in Refs |-> None]
  /\ listed = {}
  /\ up = TRUE
  /\ now = 0
  /\ audit = <<>>

\* An issuer's mandate gets to the resolver, under its own reference or another, anew or
\* in the place of an earlier one.
File(r, b) ==
  /\ filed' = [filed EXCEPT ![r] = SignMandate(b.issuer, b)]
  /\ UNCHANGED <<listed, up, now, audit>>

\* The issuer signs it again with another lifecycle status: all but active are alike.
Conclude(r, status) ==
  /\ filed[r] # None
  /\ LET b == [filed[r].body EXCEPT !.status = status]
     IN filed' = [filed EXCEPT ![r] = SignMandate(b.issuer, b)]
  /\ UNCHANGED <<listed, up, now, audit>>

\* The resolver puts the revocation it knows of on its copy.
NoteRevocation(r) ==
  /\ filed[r] # None
  /\ filed' = [filed EXCEPT ![r].body.revokedAt = now]
  /\ UNCHANGED <<listed, up, now, audit>>

\* What may be written over what was signed: a wider limit, another id, no endpoint to ask,
\* a mandate that was concluded made active again.
Altered(b, r) ==
  {[b EXCEPT !.limit = Wide], [b EXCEPT !.id = r],
   [b EXCEPT !.endpoint = FALSE], [b EXCEPT !.status = "active"]}

\* A copy that nobody signed.
Alter(r) ==
  /\ filed[r] # None
  /\ \E b \in Altered(filed[r].body, r) : filed' = [filed EXCEPT ![r].body = b]
  /\ UNCHANGED <<listed, up, now, audit>>

RevokeAtEndpoint(id) ==
  /\ listed' = listed \union {id}
  /\ UNCHANGED <<filed, up, now, audit>>

Switch ==
  /\ up' = ~up
  /\ UNCHANGED <<filed, listed, now, audit>>

Tick ==
  /\ now < MaxTime
  /\ now' = now + 1
  /\ UNCHANGED <<filed, listed, up, audit>>

Event(ref, tier, m, q, granted) ==
  [ref |-> ref, tier |-> tier, at |-> now, mandate |-> m, request |-> q, granted |-> granted]

\* record_mandate_verification, on every way out.
Answer(ref, tier, m, q, granted) ==
  /\ audit' = Append(audit, Event(ref, tier, m, q, granted))
  /\ UNCHANGED <<filed, listed, up, now>>

VerifyByReference(r, q, tier) ==
  Answer(r, tier, filed[r], q, VerifyWithResolver(r, filed[r], q, tier))

\* tool_verify_mandate: the caller has the credential.
VerifyCredential(r, q) ==
  /\ filed[r] # None
  /\ Answer(filed[r].body.id, "credential", filed[r], q, VerifyMandate(filed[r], q))

Next ==
  /\ Len(audit) < MaxEvents
  /\ \/ \E r \in Refs :
          \/ \E b \in Bodies : File(r, b)
          \/ Conclude(r, "revoked")
          \/ NoteRevocation(r)
          \/ Alter(r)
          \/ RevokeAtEndpoint(r)
          \/ \E q \in Requests :
               \/ \E tier \in {"basic", "did-vc"} : VerifyByReference(r, q, tier)
               \/ VerifyCredential(r, q)
     \/ Switch
     \/ Tick

Spec == Init /\ [][Next]_vars

-----------------------------------------------------------------------------
(* Properties *)

\* What was granted on a proof: everything but the resolver's bare word.
Proven == {i \in DOMAIN audit : audit[i].granted /\ audit[i].tier # "basic"}

\* Whoever speaks in a mandate: its issuer, and each delegate in turn.
Speakers(b) == {b.issuer} \union {b.chain[i].to : i \in DOMAIN b.chain}

\* A grant goes back to the issuer: it signed the very body the answer was given on, for
\* the id that was asked about, and each delegation was signed by its issuer or by one to
\* whom it had come, down to the subject.
GrantsComeFromTheIssuer ==
  \A i \in Proven :
    LET m == audit[i].mandate
        b == m.seal.over
    IN /\ m.seal.by = audit[i].request.issuerKey
       /\ b.id = audit[i].ref
       /\ b.status = "active"
       /\ b.chain = <<>> \/ b.subject \in Speakers(b)
       /\ \A j \in DOMAIN b.chain :
            b.chain[j].seal.by \in
              {b.issuer} \union {b.chain[k].to : k \in 1..(j - 1)}

\* What is granted is within the issuer's limit and within every restriction any delegate
\* on the way set.
GrantsOnlyNarrow ==
  \A i \in Proven :
    LET b == audit[i].mandate.seal.over
    IN audit[i].request.amount # None =>
         /\ audit[i].request.amount <= b.limit
         /\ \A j \in DOMAIN b.chain :
              b.chain[j].scope # None => audit[i].request.amount <= b.chain[j].scope

\* A listing reaches every copy of what the issuer signed.  Once an id is in the list, or
\* while the list cannot be read, a mandate signed for that id and with an endpoint is
\* granted on a proof to nobody who has the list asked, under whatever reference its copy is
\* filed and with whatever written over it: another id, or no endpoint.  (Who has it not
\* asked, by check_revocation of tool_verify_mandate, gets a listed mandate granted.)
ListingReachesCopies ==
  [][\A i \in DOMAIN audit' \ DOMAIN audit :
       LET e == audit'[i]
           signed == e.mandate.seal.over
       IN e.granted /\ e.tier # "basic" /\ e.request.checkRevocation /\ signed.endpoint
            => up /\ signed.id \notin listed]_vars

-----------------------------------------------------------------------------
(* What the documents say and the code does not do *)

\* src/concordia/mandate_resolver.py:51-54: "the resolver returns a ``revoked_at``
\* timestamp on resolved mandates when revocation is on file.  The verifier surfaces that
\* timestamp [...] but does NOT short-circuit."  The field is part of what the issuer
\* signed, so on the DID-VC tier the mandate is refused for its signature.
RevocationIsOnlySurfaced ==
  \A i \in DOMAIN audit :
    LET e == audit[i]
    IN e.tier = "did-vc" /\ e.mandate # None /\ i = Len(audit) /\ e.at = now
         /\ VerifyWithResolver(e.ref,
              [e.mandate EXCEPT !.body.revokedAt = e.mandate.seal.over.revokedAt], e.request, e.tier)
       => e.granted
=============================================================================
