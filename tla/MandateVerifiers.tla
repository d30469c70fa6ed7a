-------------------------- MODULE MandateVerifiers --------------------------
(***************************************************************************)
(* Two more verifiers of mandates, beside the one of Mandates: that of the *)
(* TypeScript SDK (src/js-sdk/src/mandate/engine.ts), which is to give the *)
(* answers of the Python one, and that of the conformance suite            *)
(* (src/conformance/reference-runner/runner.py), which shares no code with *)
(* either.                                                                 *)
(*                                                                         *)
(* Both know EdDSA only.  The SDK asks a checker that its caller may       *)
(* inject about revocation and throws when there is none; the suite does   *)
(* not ask.                                                                *)
(***************************************************************************)
EXTENDS Mandates

-----------------------------------------------------------------------------
(* The SDK *)

\* verify, of the crypto layer: Ed25519, whatever algorithm the document names.
SdkVerify(what, seal, key) == key # None /\ key \notin EcSigners /\ seal = Seal(key, what)

\* checkTemporalValidity, after the binding context was required.
SdkTimely(v, q) ==
  \/ v.mode = "windowed" /\ now \in v.from..v.to
  \/ v.mode = "sequence" /\ q.sequenceKey # None /\ q.sequenceKey = v.key
  \/ v.mode = "state_bound" /\ q.stateActive # None /\ q.stateActive

\* Fault: the algorithm a link names is not looked at.
SdkLinkFailsUngated(b, i, keys) ==
  LET l == b.chain[i]
  IN \/ i > 1 /\ l.from # b.chain[i - 1].to
     \/ l.from \notin keys
     \/ ~SdkVerify(LinkBody(l), l.seal, l.from)

\* verifyDelegationChain, of one link: the gate on the algorithm stands before the check of
\* the signature.
SdkLinkFails(b, i, keys) ==
  LET l == b.chain[i]
  IN \/ i > 1 /\ l.from # b.chain[i - 1].to
     \/ l.from \notin keys
     \/ l.alg # "EdDSA"
     \/ ~SdkVerify(LinkBody(l), l.seal, l.from)

SdkDelegated(b, keys) ==
  b.chain # <<>> =>
    /\ Head(b.chain).from = b.issuer
    /\ Last(b.chain).to = b.subject
    /\ \A i \in DOMAIN b.chain : ~SdkLinkFails(b, i, keys)

\* composeEffectiveConstraints: the schemas that must all hold, or none that can.
SdkEffective(b) ==
  LET stated == {i \in DOMAIN b.chain : b.chain[i].scope # None}
  IN IF \E i \in stated : b.chain[i].scope = Unknown
       THEN {Unknown}
       ELSE {b.limit} \union {b.chain[i].scope : i \in stated}

\* validateConstraints.
SdkComplies(schemas, amount) ==
  /\ Unknown \notin schemas
  /\ amount # None => \A limit \in schemas : amount <= limit

\* verifyMandate, with a checker that asks the endpoint or with none.
SdkVerifyMandate(m, q, checker) ==
  /\ SchemaHolds(m.body)
  /\ m.body.alg = "EdDSA" /\ SdkVerify(m.body, m.seal, q.issuerKey)
  /\ m.body.status = "active"
  /\ SdkTimely(m.body.validity, q)
  /\ SdkComplies({m.body.limit}, None)
  /\ SdkDelegated(m.body, q.keys)
  /\ SdkComplies(SdkEffective(m.body), q.amount)
  /\ m.body.endpoint /\ q.checkRevocation => checker /\ NotRevoked(m.body)

-----------------------------------------------------------------------------
(* The conformance suite *)

\* require_algorithm, verify_ed25519.
RunnerVerify(what, seal, key, alg) ==
  alg = "EdDSA" /\ key \notin EcSigners \union {None} /\ seal = Seal(key, what)

\* validate_mandate_common.
RunnerCommon(m, q) ==
  LET v == m.body.validity
  IN /\ SchemaHolds(m.body)
     /\ RunnerVerify(m.body, m.seal, q.issuerKey, m.body.alg)
     /\ m.body.status = "active"
     /\ CASE v.mode = "windowed"    -> ~(v.from > now) /\ ~(v.to < now)
          [] v.mode = "sequence"    -> v.key = q.sequenceKey
          [] v.mode = "state_bound" -> q.stateActive = TRUE
          [] OTHER                  -> FALSE
     /\ m.body.limit # Unknown

\* validate_action; scope_restriction_to_schema rejects what it does not know.
RunnerPermits(limits, amount) ==
  Unknown \notin limits /\ (amount # None => \A limit \in limits : amount <= limit)

\* verify_mandate_profile and, of a mandate with a chain, verify_delegation_chain_profile.
RunnerAccepts(m, q) ==
  LET chain == m.body.chain
      scopes == {chain[i].scope : i \in DOMAIN chain} \ {None}
  IN /\ RunnerCommon(m, q)
     /\ chain # <<>> =>
          /\ chain[1].from = m.body.issuer
          /\ chain[Len(chain)].to = m.body.subject
          /\ \A i \in DOMAIN chain :
               /\ i > 1 => chain[i - 1].to = chain[i].from
               /\ chain[i].from \in q.keys
               /\ RunnerVerify(LinkBody(chain[i]), chain[i].seal, chain[i].from, chain[i].alg)
     /\ RunnerPermits({m.body.limit} \union scopes, q.amount)

-----------------------------------------------------------------------------
(* Properties *)

EdDSAOnly(b) == b.alg = "EdDSA" /\ \A i \in DOMAIN b.chain : b.chain[i].alg = "EdDSA"

\* Whatever is filed, altered, revoked or out of time, and whatever is asked, the SDK grants
\* exactly what the Python verifier grants, if only EdDSA is in it and revocation can be
\* asked about; and what the conformance suite accepts is that but for revocation
\* (engine.ts: "Mirrors Python `verify_mandate`"; never looser, on any link either).
VerifiersAgree ==
  \A r \in Refs : filed[r] # None =>
    \A q \in Requests :
      LET b == filed[r].body
          granted == VerifyMandate(filed[r], q) /\ EdDSAOnly(b)
      IN /\ \A checker \in BOOLEAN :
              SdkVerifyMandate(filed[r], q, checker)
                <=> granted /\ (b.endpoint /\ q.checkRevocation => checker)
         /\ RunnerAccepts(filed[r], q) /\ (q.checkRevocation => NotRevoked(b)) <=> granted
=============================================================================
