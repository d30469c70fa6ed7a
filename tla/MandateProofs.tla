--------------------------- MODULE MandateProofs ---------------------------
(***************************************************************************)
(* What TLAPS proves of Mandates and MandateVerifiers, for every set of    *)
(* bodies, requests and keys, and however long the audit log grows.        *)
(*                                                                         *)
(* The log keeps with every answer what it was given on.  Founded says     *)
(* what the checks of verify_mandate leave true of an entry granted on a   *)
(* proof; nothing in it depends on what is filed or listed later, so it    *)
(* stays true of the entries that are there.                               *)
(***************************************************************************)
EXTENDS MandateVerifiers, TLAPS, SequenceTheorems

USE MandateAssumption

(***************************************************************************)
(* Shapes                                                                  *)
(***************************************************************************)

\* What an issuer signs, and whatever becomes of its status, notes and limit.
Shaped(b) ==
  /\ DOMAIN b = BodyFields
  /\ b.chain \in Seq(Range(b.chain))
  /\ b.validity.mode \in {"none", "windowed", "sequence", "state_bound"}
  /\ b.validity.mode = "windowed" => b.validity.from \in Int /\ b.validity.to \in Int

Shapes ==
  /\ DOMAIN filed = Refs
  /\ \A r \in Refs : filed[r] # None => Shaped(filed[r].body) /\ DOMAIN filed[r] = {"body", "seal"}
  /\ now \in Int
  /\ audit \in Seq(Range(audit))

\* Everything but the chain and the times may be written over.
LEMMA OverwrittenShaped ==
  ASSUME NEW b, Shaped(b), NEW x
  PROVE  /\ Shaped([b EXCEPT !.status = x])
         /\ Shaped([b EXCEPT !.revokedAt = x])
         /\ Shaped([b EXCEPT !.limit = x])
         /\ Shaped([b EXCEPT !.id = x])
         /\ Shaped([b EXCEPT !.endpoint = x])
BY DEF Shaped, BodyFields

\* What a verification adds to the log.
LEMMA LogGrows ==
  ASSUME Shapes, NEW e, audit' = Append(audit, e)
  PROVE  /\ audit' \in Seq(Range(audit'))
         /\ Len(audit) \in Nat
         /\ DOMAIN audit = 1..Len(audit)
         /\ DOMAIN audit' = 1..(Len(audit) + 1)
         /\ \A i \in DOMAIN audit : audit'[i] = audit[i]
         /\ audit'[Len(audit) + 1] = e
<1>1. /\ audit \in Seq(Range(audit))
      /\ Len(audit) \in Nat
      /\ DOMAIN audit = 1..Len(audit)
  BY DEF Shapes
<1>2. PICK S : S = Range(audit) \union {e}
  OBVIOUS
<1>3. audit \in Seq(S) /\ e \in S
  BY <1>1, <1>2
<1>4. /\ audit' \in Seq(S)
      /\ DOMAIN audit' = 1..(Len(audit) + 1)
      /\ \A i \in DOMAIN audit : audit'[i] = audit[i]
      /\ audit'[Len(audit) + 1] = e
  BY <1>1, <1>3
<1>5. Range(audit') = S
  <2>1. \A i \in DOMAIN audit : audit[i] \in Range(audit)
    BY DEF Range
  <2>2. \A x \in Range(audit) : \E i \in DOMAIN audit : x = audit[i]
    BY DEF Range
  <2> QED
    BY <1>1, <1>2, <1>4, <2>1, <2>2, SMTT(30) DEF Range
<1> QED
  BY <1>1, <1>4, <1>5

(***************************************************************************)
(* Kinds of steps                                                          *)
(***************************************************************************)

\* The resolver's copy under one reference is another.
Refiled(r, m) ==
  /\ filed' = [filed EXCEPT ![r] = m]
  /\ Shaped(m.body)
  /\ DOMAIN m = {"body", "seal"}
  /\ UNCHANGED <<now, audit>>

\* A step of the service refiles a copy, answers, or touches neither copies nor answers.
LEMMA MandateSteps ==
  ASSUME Shapes, Next
  PROVE  \/ \E r \in Refs : \E m : Refiled(r, m)
         \/ \E r \in Refs, q \in Requests, tier \in {"basic", "did-vc"} : VerifyByReference(r, q, tier)
         \/ \E r \in Refs, q \in Requests : VerifyCredential(r, q)
         \/ now' \in {now, now + 1} /\ UNCHANGED <<filed, audit>>
<1>1. ASSUME NEW r \in Refs, NEW b \in Bodies, File(r, b)
      PROVE  Refiled(r, SignMandate(b.issuer, b))
  <2>1. Shaped(b)
    BY DEF Shaped
  <2> QED
    BY <1>1, <2>1 DEF File, Refiled, SignMandate
<1>2. ASSUME NEW r \in Refs, Conclude(r, "revoked")
      PROVE  \E m : Refiled(r, m)
  <2>1. PICK b : b = [filed[r].body EXCEPT !.status = "revoked"]
    OBVIOUS
  <2>2. Shaped(b)
    BY <1>2, <2>1, OverwrittenShaped DEF Conclude, Shapes
  <2>3. Refiled(r, SignMandate(b.issuer, b))
    BY <1>2, <2>1, <2>2 DEF Conclude, Refiled, SignMandate
  <2> QED
    BY <2>3
<1>3. ASSUME NEW r \in Refs, NoteRevocation(r)
      PROVE  \E m : Refiled(r, m)
  <2>1. PICK m : m = [filed[r] EXCEPT !.body.revokedAt = now]
    OBVIOUS
  <2>2. DOMAIN m = {"body", "seal"} /\ Shaped(m.body)
    BY <1>3, <2>1, OverwrittenShaped DEF NoteRevocation, Shapes
  <2>3. Refiled(r, m)
    BY <1>3, <2>1, <2>2 DEF NoteRevocation, Refiled, Shapes
  <2> QED
    BY <2>3
<1>4. ASSUME NEW r \in Refs, Alter(r)
      PROVE  \E m : Refiled(r, m)
  <2>0. PICK b \in Altered(filed[r].body, r) : filed' = [filed EXCEPT ![r].body = b]
    BY <1>4 DEF Alter
  <2>1. PICK m : m = [filed[r] EXCEPT !.body = b]
    OBVIOUS
  <2>4. Shaped(filed[r].body) /\ DOMAIN filed[r] = {"body", "seal"}
    BY <1>4 DEF Alter, Shapes
  <2>5. Shaped(b)
    <3>1. PICK c : c = filed[r].body
      OBVIOUS
    <3>2. Shaped(c) /\ b \in Altered(c, r)
      BY <2>0, <2>4, <3>1
    <3>3. \/ b = [c EXCEPT !.limit = Wide] \/ b = [c EXCEPT !.id = r]
          \/ b = [c EXCEPT !.endpoint = FALSE] \/ b = [c EXCEPT !.status = "active"]
      BY <3>2 DEF Altered
    <3>4. Shaped([c EXCEPT !.limit = Wide]) /\ Shaped([c EXCEPT !.id = r])
      BY <3>2, OverwrittenShaped
    <3>5. Shaped([c EXCEPT !.endpoint = FALSE]) /\ Shaped([c EXCEPT !.status = "active"])
      BY <3>2, OverwrittenShaped
    <3> QED
      BY <3>3, <3>4, <3>5, Zenon
  <2>2. DOMAIN m = {"body", "seal"} /\ Shaped(m.body)
    BY <2>1, <2>4, <2>5
  <2>3. Refiled(r, m)
    BY <1>4, <2>0, <2>1, <2>2 DEF Alter, Refiled, Shapes
  <2> QED
    BY <2>3
<1>5. ASSUME NEW r \in Refs, RevokeAtEndpoint(r)
      PROVE  now' = now /\ UNCHANGED <<filed, audit>>
  BY <1>5 DEF RevokeAtEndpoint
<1>6. ASSUME Switch
      PROVE  now' = now /\ UNCHANGED <<filed, audit>>
  BY <1>6 DEF Switch
<1>7. ASSUME Tick
      PROVE  now' = now + 1 /\ UNCHANGED <<filed, audit>>
  BY <1>7 DEF Tick
<1> QED
  BY <1>1, <1>2, <1>3, <1>4, <1>5, <1>6, <1>7 DEF Next

LEMMA ShapesKept == Spec => []Shapes
<1>1. Init => Shapes
  <2>1. Range(<<>>) = {} /\ <<>> \in Seq({})
    BY DEF Range
  <2> QED
    BY <2>1 DEF Init, Shapes
<1>2. Shapes /\ [Next]_vars => Shapes'
  <2> SUFFICES ASSUME Shapes, [Next]_vars
               PROVE  Shapes'
    OBVIOUS
  <2>1. ASSUME NEW r \in Refs, NEW m, Refiled(r, m)
        PROVE  Shapes'
    BY <2>1 DEF Refiled, Shapes
  <2>2. ASSUME NEW e, audit' = Append(audit, e), UNCHANGED <<filed, now>>
        PROVE  Shapes'
    <3>1. audit' \in Seq(Range(audit'))
      BY <2>2, LogGrows
    <3> QED
      BY <2>2, <3>1 DEF Shapes
  <2>3. CASE now' \in {now, now + 1} /\ UNCHANGED <<filed, audit>>
    BY <2>3 DEF Shapes
  <2>4. CASE Next
    BY <2>1, <2>2, <2>3, <2>4, MandateSteps DEF VerifyByReference, VerifyCredential, Answer
  <2>5. CASE UNCHANGED vars
    BY <2>5 DEF Shapes, vars
  <2> QED
    BY <2>4, <2>5
<1> QED
  BY <1>1, <1>2, PTL DEF Spec

(***************************************************************************)
(* What is granted                                                         *)
(***************************************************************************)

\* What was established of an answer that grants on a proof, and is a matter of the copy
\* and the question alone.
Founded(e) ==
  LET b == e.mandate.body
  IN /\ e.mandate.seal = Seal(e.request.issuerKey, b)
     /\ b.id = e.ref
     /\ b.status = "active"
     /\ b.chain \in Seq(Range(b.chain))
     /\ Delegated(b, e.request.keys)
     /\ Permitted(b, e.request.amount)

GrantsAreFounded == \A i \in Proven : Founded(audit[i])

\* What a new entry says when it grants on a proof: the checks held when it was written.
LEMMA NewGrant ==
  ASSUME Shapes, Next, audit' # audit,
         NEW n \in Nat, n = Len(audit)
  PROVE  \E r \in Refs, q \in Requests : \E e :
           /\ audit' = Append(audit, e)
           /\ e.mandate = filed[r] /\ e.request = q
           /\ UNCHANGED <<filed, listed, up, now>>
           /\ e.granted /\ e.tier # "basic" =>
                filed[r] # None /\ filed[r].body.id = e.ref /\ VerifyMandate(filed[r], q)
<1>1. ASSUME NEW r \in Refs, NEW q \in Requests, NEW tier \in {"basic", "did-vc"},
             VerifyByReference(r, q, tier)
      PROVE  \E e :
           /\ audit' = Append(audit, e)
           /\ e.mandate = filed[r] /\ e.request = q
           /\ UNCHANGED <<filed, listed, up, now>>
           /\ e.granted /\ e.tier # "basic" =>
                filed[r] # None /\ filed[r].body.id = e.ref /\ VerifyMandate(filed[r], q)
  <2>1. PICK g : g = VerifyWithResolver(r, filed[r], q, tier)
    OBVIOUS
  <2>2. PICK e : e = Event(r, tier, filed[r], q, g)
    OBVIOUS
  <2>3. audit' = Append(audit, e) /\ UNCHANGED <<filed, listed, up, now>>
    <3>1. Answer(r, tier, filed[r], q, g)
      BY <1>1, <2>1, Zenon DEF VerifyByReference
    <3> QED
      BY <2>2, <3>1 DEF Answer
  <2>4. /\ e.mandate = filed[r] /\ e.request = q
        /\ e.granted = g /\ e.tier = tier /\ e.ref = r
    BY <2>2 DEF Event
  <2>5. g /\ tier # "basic" => filed[r] # None /\ filed[r].body.id = r /\ VerifyMandate(filed[r], q)
    BY <2>1, Zenon DEF VerifyWithResolver
  <2> QED
    BY <2>3, <2>4, <2>5, Zenon
<1>2. ASSUME NEW r \in Refs, NEW q \in Requests, VerifyCredential(r, q)
      PROVE  \E e :
           /\ audit' = Append(audit, e)
           /\ e.mandate = filed[r] /\ e.request = q
           /\ UNCHANGED <<filed, listed, up, now>>
           /\ e.granted /\ e.tier # "basic" =>
                filed[r] # None /\ filed[r].body.id = e.ref /\ VerifyMandate(filed[r], q)
  <2>1. PICK g : g = VerifyMandate(filed[r], q)
    OBVIOUS
  <2>2. PICK e : e = Event(filed[r].body.id, "credential", filed[r], q, g)
    OBVIOUS
  <2>3. audit' = Append(audit, e) /\ UNCHANGED <<filed, listed, up, now>>
    <3>1. Answer(filed[r].body.id, "credential", filed[r], q, g)
      BY <1>2, <2>1, Zenon DEF VerifyCredential
    <3> QED
      BY <2>2, <3>1 DEF Answer
  <2>4. /\ e.mandate = filed[r] /\ e.request = q
        /\ e.granted = g /\ e.ref = filed[r].body.id
    BY <2>2 DEF Event
  <2>5. filed[r] # None
    BY <1>2 DEF VerifyCredential
  <2>6. g => VerifyMandate(filed[r], q)
    BY <2>1, Zenon
  <2> QED
    BY <2>3, <2>4, <2>5, <2>6, Zenon
<1> QED
  <2>1. CASE \E r \in Refs, q \in Requests, tier \in {"basic", "did-vc"} : VerifyByReference(r, q, tier)
    <3>1. PICK r \in Refs, q \in Requests, tier \in {"basic", "did-vc"} : VerifyByReference(r, q, tier)
      BY <2>1
    <3>2. r \in Refs /\ q \in Requests
      OBVIOUS
    <3> QED
      BY <1>1, <3>1
  <2>2. CASE \E r \in Refs, q \in Requests : VerifyCredential(r, q)
    BY <1>2, <2>2, Zenon
  <2> QED
    BY <2>1, <2>2, MandateSteps DEF Refiled

LEMMA FoundedKept == Spec => []GrantsAreFounded
<1>1. Init => GrantsAreFounded
  BY DEF Init, GrantsAreFounded, Proven
<1>2. Shapes /\ GrantsAreFounded /\ [Next]_vars => GrantsAreFounded'
  <2> SUFFICES ASSUME Shapes, GrantsAreFounded, [Next]_vars
               PROVE  GrantsAreFounded'
    OBVIOUS
  <2>1. CASE audit' = audit
    BY <2>1 DEF GrantsAreFounded, Proven
  <2>2. CASE audit' # audit
    <3>1. PICK n \in Nat : n = Len(audit)
      BY DEF Shapes
    <3>2. Next
      BY <2>2 DEF vars
    <3>0. PICK r \in Refs, q \in Requests : \E e :
           /\ audit' = Append(audit, e)
           /\ e.mandate = filed[r] /\ e.request = q
           /\ e.granted /\ e.tier # "basic" =>
                filed[r] # None /\ filed[r].body.id = e.ref /\ VerifyMandate(filed[r], q)
      BY <2>2, <3>1, <3>2, NewGrant, Zenon
    <3>3. PICK e :
           /\ audit' = Append(audit, e)
           /\ e.mandate = filed[r] /\ e.request = q
           /\ e.granted /\ e.tier # "basic" =>
                filed[r] # None /\ filed[r].body.id = e.ref /\ VerifyMandate(filed[r], q)
      BY <3>0, Zenon
    <3>4. /\ DOMAIN audit' = DOMAIN audit \union {n + 1}
          /\ \A i \in DOMAIN audit : audit'[i] = audit[i]
          /\ audit'[n + 1] = e
      BY <3>1, <3>3, LogGrows
    <3>5. e.granted /\ e.tier # "basic" => Founded(e)
      BY <3>3 DEF Founded, Shapes, Shaped, VerifyMandate, VerifySignature
    <3>6. ASSUME NEW i \in Proven'
          PROVE  Founded(audit'[i])
      <4>1. i \in DOMAIN audit' /\ audit'[i].granted /\ audit'[i].tier # "basic"
        BY <3>6, Zenon DEF Proven
      <4>2. CASE i \in DOMAIN audit
        <5>1. audit'[i] = audit[i]
          BY <3>4, <4>2
        <5>2. i \in Proven
          BY <4>1, <4>2, <5>1, Zenon DEF Proven
        <5> QED
          BY <5>1, <5>2, Zenon DEF GrantsAreFounded
      <4>3. CASE i = n + 1
        BY <3>4, <3>5, <4>1, <4>3, Zenon
      <4> QED
        BY <3>4, <4>1, <4>2, <4>3
    <3> QED
      BY <3>6 DEF GrantsAreFounded
  <2> QED
    BY <2>1, <2>2
<1> QED
  BY <1>1, <1>2, ShapesKept, PTL DEF Spec

\* A grant goes back to the issuer whose key was asked for, for the id that was asked about,
\* over delegations that the issuer or one to whom it had come has signed
\* (verify_mandate, verify_delegation_chain).
THEOREM IssuerGrants == Spec => []GrantsComeFromTheIssuer
<1>1. GrantsAreFounded => GrantsComeFromTheIssuer
  <2> SUFFICES ASSUME GrantsAreFounded, NEW i \in Proven
               PROVE  LET m == audit[i].mandate
                          b == m.seal.over
                      IN /\ m.seal.by = audit[i].request.issuerKey
                         /\ b.id = audit[i].ref
                         /\ b.status = "active"
                         /\ b.chain = <<>> \/ b.subject \in Speakers(b)
                         /\ \A j \in DOMAIN b.chain :
                              b.chain[j].seal.by \in
                                {b.issuer} \union {b.chain[k].to : k \in 1..(j - 1)}
    BY DEF GrantsComeFromTheIssuer
  <2> DEFINE b == audit[i].mandate.seal.over
             keys == audit[i].request.keys
  <2>1. Founded(audit[i])
    BY DEF GrantsAreFounded
  <2>2. audit[i].mandate.seal.by = audit[i].request.issuerKey /\ b = audit[i].mandate.body
    BY <2>1 DEF Founded, Seal
  <2>3. /\ b.id = audit[i].ref /\ b.status = "active"
        /\ b.chain \in Seq(Range(b.chain)) /\ Delegated(b, keys)
    BY <2>1, <2>2 DEF Founded
  <2> HIDE DEF b, keys
  <2>4. PICK n \in Nat : n = Len(b.chain) /\ DOMAIN b.chain = 1..n
    BY <2>3
  <2>5. b.chain = <<>> \/ b.subject \in Speakers(b)
    <3> SUFFICES ASSUME b.chain # <<>>
                 PROVE  b.subject \in Speakers(b)
      OBVIOUS
    <3>1. n \in DOMAIN b.chain
      BY <2>3, <2>4
    <3>2. b.chain[n].to = b.subject
      BY <2>3, <2>4 DEF Delegated, Last
    <3> QED
      BY <3>1, <3>2 DEF Speakers
  <2>6. ASSUME NEW j \in DOMAIN b.chain
        PROVE  b.chain[j].seal.by \in {b.issuer} \union {b.chain[k].to : k \in 1..(j - 1)}
    <3>1. /\ j \in 1..n /\ b.chain # <<>>
          /\ b.chain[1].from = b.issuer
          /\ j > 1 => b.chain[j].from = b.chain[j - 1].to
          /\ b.chain[j].seal = Seal(b.chain[j].from, LinkBody(b.chain[j]))
      BY <2>3, <2>4 DEF Delegated, VerifySignature
    <3>2. b.chain[j].seal.by = b.chain[j].from
      BY <3>1 DEF Seal
    <3>3. CASE j = 1
      BY <3>1, <3>2, <3>3
    <3>4. CASE j > 1
      <4>1. j - 1 \in 1..(j - 1)
        BY <2>4, <3>1, <3>4
      <4> QED
        BY <3>1, <3>2, <3>4, <4>1
    <3>5. j = 1 \/ j > 1
      BY <2>4, <3>1, SMTT(30)
    <3> QED
      BY <3>3, <3>4, <3>5, Zenon
  <2> QED
    BY <2>2, <2>3, <2>5, <2>6, ZenonT(30) DEF b
<1> QED
  BY <1>1, FoundedKept, PTL

\* What is granted is within the issuer's limit and every restriction set on the way
\* (compose_effective_constraints, validate_constraints).
THEOREM GrantsNarrow == Spec => []GrantsOnlyNarrow
<1>1. GrantsAreFounded => GrantsOnlyNarrow
  <2> SUFFICES ASSUME GrantsAreFounded, NEW i \in Proven,
                      NEW b, b = audit[i].mandate.body,
                      NEW a, a = audit[i].request.amount, a # None
               PROVE  LET c == audit[i].mandate.seal.over
                      IN /\ a <= c.limit
                         /\ \A j \in DOMAIN c.chain :
                              c.chain[j].scope # None => a <= c.chain[j].scope
    BY DEF GrantsOnlyNarrow
  <2>1. audit[i].mandate.seal = Seal(audit[i].request.issuerKey, b) /\ Permitted(b, a)
    BY DEF GrantsAreFounded, Founded
  <2>2. audit[i].mandate.seal.over = b
    BY <2>1 DEF Seal
  <2> QED
    BY <2>1, <2>2 DEF Permitted, Limits
<1> QED
  BY <1>1, FoundedKept, PTL

\* What was signed for a listed id, or while the list cannot be read, is granted to nobody who
\* has the list asked, whatever was written over the copy (verify_signature, verify_mandate,
\* check_revocation).
THEOREM ListingReaches == Spec => ListingReachesCopies
<1>1. Shapes /\ [Next]_vars =>
        [\A i \in DOMAIN audit' \ DOMAIN audit :
           LET e == audit'[i]
               signed == e.mandate.seal.over
           IN e.granted /\ e.tier # "basic" /\ e.request.checkRevocation /\ signed.endpoint
                => up /\ signed.id \notin listed]_vars
  <2> SUFFICES ASSUME Shapes, Next, NEW i \in DOMAIN audit' \ DOMAIN audit,
                      audit'[i].granted, audit'[i].tier # "basic",
                      audit'[i].request.checkRevocation,
                      audit'[i].mandate.seal.over.endpoint
               PROVE  up /\ audit'[i].mandate.seal.over.id \notin listed
    BY Zenon
  <2>1. audit' # audit
    OBVIOUS
  <2>2. PICK n \in Nat : n = Len(audit)
    BY DEF Shapes
  <2>0. PICK r \in Refs, q \in Requests : \E e :
         /\ audit' = Append(audit, e)
         /\ e.mandate = filed[r] /\ e.request = q
         /\ e.granted /\ e.tier # "basic" =>
              filed[r] # None /\ filed[r].body.id = e.ref /\ VerifyMandate(filed[r], q)
    BY <2>1, <2>2, NewGrant, Zenon
  <2>3. PICK e :
         /\ audit' = Append(audit, e)
         /\ e.mandate = filed[r] /\ e.request = q
         /\ e.granted /\ e.tier # "basic" =>
              filed[r] # None /\ filed[r].body.id = e.ref /\ VerifyMandate(filed[r], q)
    BY <2>0, Zenon
  <2>4. audit'[i] = e
    BY <2>2, <2>3, LogGrows
  <2>5. /\ VerifyMandate(filed[r], q) /\ q.checkRevocation
        /\ filed[r].seal.over.endpoint /\ e.mandate.seal.over = filed[r].seal.over
    BY <2>3, <2>4, Zenon
  <2>6. filed[r].seal = Seal(q.issuerKey, filed[r].body) /\ NotRevoked(filed[r].body)
    BY <2>5, Zenon DEF VerifyMandate, VerifySignature
  <2>7. filed[r].seal.over = filed[r].body
    BY <2>6 DEF Seal
  <2>8. up /\ filed[r].body.id \notin listed
    BY <2>5, <2>6, <2>7, Zenon DEF NotRevoked
  <2> QED
    BY <2>4, <2>5, <2>7, <2>8, Zenon
<1> QED
  BY <1>1, ShapesKept, PTL DEF Spec, ListingReachesCopies

(***************************************************************************)
(* Three verifiers                                                         *)
(***************************************************************************)

LEMMA OneSignature ==
  ASSUME NEW what, NEW seal, NEW key, NEW alg
  PROVE  /\ SdkVerify(what, seal, key) <=> VerifySignature(what, seal, key, "EdDSA")
         /\ RunnerVerify(what, seal, key, alg) <=>
              alg = "EdDSA" /\ VerifySignature(what, seal, key, alg)
BY DEF SdkVerify, VerifySignature, RunnerVerify

LEMMA OneTime ==
  ASSUME NEW b, Shaped(b), SchemaHolds(b), NEW q \in Requests, now \in Int
  PROVE  LET v == b.validity
         IN /\ SdkTimely(v, q) <=> Timely(v, q, now)
            /\ (CASE v.mode = "windowed"    -> ~(v.from > now) /\ ~(v.to < now)
                  [] v.mode = "sequence"    -> v.key = q.sequenceKey
                  [] v.mode = "state_bound" -> q.stateActive = TRUE
                  [] OTHER                  -> FALSE) <=> Timely(v, q, now)
<1> DEFINE v == b.validity
<1>1. CASE v.mode = "windowed"
  BY <1>1 DEF SdkTimely, Timely, Shaped
<1>2. CASE v.mode = "sequence"
  BY <1>2 DEF SdkTimely, Timely, SchemaHolds
<1>3. CASE v.mode = "state_bound"
  BY <1>3 DEF SdkTimely, Timely
<1> QED
  BY <1>1, <1>2, <1>3 DEF Shaped, SchemaHolds

LinksInEdDSA(b) == \A i \in DOMAIN b.chain : b.chain[i].alg = "EdDSA"

LEMMA OneChain ==
  ASSUME NEW b, Shaped(b), NEW keys
  PROVE  /\ SdkDelegated(b, keys) <=> Delegated(b, keys) /\ LinksInEdDSA(b)
         /\ (b.chain # <<>> =>
               /\ b.chain[1].from = b.issuer
               /\ b.chain[Len(b.chain)].to = b.subject
               /\ \A i \in DOMAIN b.chain :
                    /\ i > 1 => b.chain[i - 1].to = b.chain[i].from
                    /\ b.chain[i].from \in keys
                    /\ RunnerVerify(LinkBody(b.chain[i]), b.chain[i].seal, b.chain[i].from, b.chain[i].alg))
            <=> Delegated(b, keys) /\ LinksInEdDSA(b)
<1> DEFINE c == b.chain
<1>1. c \in Seq(Range(c))
  BY DEF Shaped
<1>2. Last(c) = c[Len(c)] /\ Head(c) = c[1]
  BY <1>1 DEF Last
<1>3. c = <<>> => LinksInEdDSA(b)
  BY DEF LinksInEdDSA
<1>4. ASSUME NEW i \in DOMAIN c
      PROVE  /\ ~SdkLinkFails(b, i, keys) <=>
                  /\ i > 1 => c[i].from = c[i - 1].to
                  /\ c[i].from \in keys
                  /\ c[i].alg = "EdDSA"
                  /\ VerifySignature(LinkBody(c[i]), c[i].seal, c[i].from, c[i].alg)
             /\ RunnerVerify(LinkBody(c[i]), c[i].seal, c[i].from, c[i].alg) <=>
                  c[i].alg = "EdDSA" /\ VerifySignature(LinkBody(c[i]), c[i].seal, c[i].from, c[i].alg)
  BY OneSignature DEF SdkLinkFails
<1>5. CASE c = <<>>
  BY <1>3, <1>5 DEF SdkDelegated, Delegated
<1>6. CASE c # <<>>
  BY <1>2, <1>4, <1>6 DEF SdkDelegated, Delegated, LinksInEdDSA
<1> QED
  BY <1>5, <1>6

LEMMA OneLimit ==
  ASSUME NEW b, NEW amount
  PROVE  /\ SdkComplies({b.limit}, None) /\ SdkComplies(SdkEffective(b), amount) <=> Permitted(b, amount)
         /\ b.limit # Unknown
            /\ RunnerPermits({b.limit} \union ({b.chain[i].scope : i \in DOMAIN b.chain} \ {None}), amount)
            <=> Permitted(b, amount)
<1>1. CASE Unknown \in Limits(b)
  <2>1. b.limit = Unknown \/ \E i \in DOMAIN b.chain : b.chain[i].scope # None /\ b.chain[i].scope = Unknown
    BY <1>1 DEF Limits
  <2> QED
    BY <1>1, <2>1 DEF Limits, SdkEffective, SdkComplies, RunnerPermits, Permitted
<1>2. CASE Unknown \notin Limits(b)
  <2>1. SdkEffective(b) = Limits(b)
    BY <1>2 DEF Limits, SdkEffective
  <2> QED
    BY <1>2, <2>1 DEF Limits, SdkComplies, RunnerPermits, Permitted
<1> QED
  BY <1>1, <1>2

\* The SDK grants what the Python verifier grants, and so does the conformance suite but for
\* revocation, of whatever is filed (engine.ts: "Mirrors Python `verify_mandate`").
THEOREM ThreeVerifiers == Spec => []VerifiersAgree
<1>1. Shapes => VerifiersAgree
  <2> SUFFICES ASSUME Shapes, NEW r \in Refs, filed[r] # None, NEW q \in Requests
               PROVE  LET b == filed[r].body
                          granted == VerifyMandate(filed[r], q) /\ EdDSAOnly(b)
                      IN /\ \A checker \in BOOLEAN :
                              SdkVerifyMandate(filed[r], q, checker)
                                <=> granted /\ (b.endpoint /\ q.checkRevocation => checker)
                         /\ RunnerAccepts(filed[r], q) /\ (q.checkRevocation => NotRevoked(b))
                              <=> granted
    BY DEF VerifiersAgree
  <2> DEFINE m == filed[r]
             b == m.body
             granted == VerifyMandate(m, q) /\ EdDSAOnly(b)
  <2>1. Shaped(b) /\ now \in Int
    BY DEF Shapes
  <2>2. granted <=>
          /\ SchemaHolds(b) /\ b.alg = "EdDSA"
          /\ VerifySignature(b, m.seal, q.issuerKey, "EdDSA")
          /\ b.status = "active"
          /\ Timely(b.validity, q, now)
          /\ Delegated(b, q.keys) /\ LinksInEdDSA(b)
          /\ Permitted(b, q.amount)
          /\ (q.checkRevocation => NotRevoked(b))
    BY DEF VerifyMandate, EdDSAOnly, LinksInEdDSA
  <2>3. ASSUME NEW checker \in BOOLEAN
        PROVE  SdkVerifyMandate(m, q, checker)
                 <=> granted /\ (b.endpoint /\ q.checkRevocation => checker)
    <3>1. SdkVerifyMandate(m, q, checker) <=>
            /\ SchemaHolds(b) /\ b.alg = "EdDSA"
            /\ VerifySignature(b, m.seal, q.issuerKey, "EdDSA")
            /\ b.status = "active"
            /\ SdkTimely(b.validity, q)
            /\ SdkDelegated(b, q.keys)
            /\ SdkComplies({b.limit}, None) /\ SdkComplies(SdkEffective(b), q.amount)
            /\ (b.endpoint /\ q.checkRevocation => checker /\ NotRevoked(b))
      BY OneSignature DEF SdkVerifyMandate
    <3>2. NotRevoked(b) \/ b.endpoint
      BY DEF NotRevoked
    <3> QED
      BY <2>1, <2>2, <3>1, <3>2, OneTime, OneChain, OneLimit
  <2>4. RunnerAccepts(m, q) /\ (q.checkRevocation => NotRevoked(b)) <=> granted
    <3>1. SchemaHolds(b) => (RunnerCommon(m, q) <=>
            /\ b.alg = "EdDSA" /\ VerifySignature(b, m.seal, q.issuerKey, "EdDSA")
            /\ b.status = "active"
            /\ Timely(b.validity, q, now)
            /\ b.limit # Unknown)
      <4>1. RunnerVerify(b, m.seal, q.issuerKey, b.alg) <=>
              b.alg = "EdDSA" /\ VerifySignature(b, m.seal, q.issuerKey, "EdDSA")
        BY OneSignature
      <4>2. SchemaHolds(b) =>
              ((CASE b.validity.mode = "windowed"    -> ~(b.validity.from > now) /\ ~(b.validity.to < now)
                  [] b.validity.mode = "sequence"    -> b.validity.key = q.sequenceKey
                  [] b.validity.mode = "state_bound" -> q.stateActive = TRUE
                  [] OTHER                           -> FALSE) <=> Timely(b.validity, q, now))
        BY <2>1, OneTime
      <4> QED
        BY <4>1, <4>2 DEF RunnerCommon
    <3>2. RunnerCommon(m, q) => SchemaHolds(b)
      BY DEF RunnerCommon
    <3>3. RunnerAccepts(m, q) <=>
            /\ RunnerCommon(m, q)
            /\ Delegated(b, q.keys) /\ LinksInEdDSA(b)
            /\ RunnerPermits({b.limit} \union ({b.chain[i].scope : i \in DOMAIN b.chain} \ {None}), q.amount)
      BY <2>1, OneChain DEF RunnerAccepts
    <3> QED
      BY <2>2, <3>1, <3>2, <3>3, OneLimit
  <2> QED
    BY <2>3, <2>4
<1> QED
  BY <1>1, ShapesKept, PTL

=============================================================================
