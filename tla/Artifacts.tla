------------------------------ MODULE Artifacts ------------------------------
(***************************************************************************)
(* Signed artifacts that refer to one another, and what becomes of them    *)
(* when one is revoked: the cascade over their references                  *)
(* (src/concordia/cmpc/revocation.py), the verifier of predicates with     *)
(* the resolver that caches them (src/concordia/predicate.py,              *)
(* predicate_resolver.py) and the verifier of approval receipts            *)
(* (src/concordia/approval_receipt.py).                                    *)
(*                                                                         *)
(* A document is a record; whether its schema, its signature and the       *)
(* binding of its subject or offer hold is its `form`.  The verifier is    *)
(* given revocation records by the id of the revoked artifact, one for     *)
(* each, of which one may take the place of another or be left out later.  *)
(* Attestations are issued here from concluded sessions; what is made of   *)
(* them is in Evidence.                                                    *)
(***************************************************************************)
EXTENDS Attestations, Sequences

CONSTANTS
  Predicates,    \* ids of predicates, which the resolver resolves
  Receipts,      \* ids of approval receipts
  Attested,      \* ids of attestations, numbered in the order of their ids
  Roots,         \* ids of what is only referred to: mandates, sessions
  Concluded,     \* bound: the concluded sessions, each with its id, state and parties
  Windows,       \* bound: the windows an issuer is given, each from and until
  ReferenceLists,\* bound: id -> the lists of references its document may have
  Forms,         \* bound: "sound", "malformed", "unsigned", "misbound"
  Statuses,      \* bound: "active", "expired", "revoked", "suspended"
  Expiries,      \* bound: when predicates and receipts expire
  Scopes,        \* bound: the scopes of revocation records, each with a depth
  DepthLimit,    \* the deepest cascade: 8 in the code
  MaxDocuments,  \* bound
  MaxRecords,    \* bound
  Ahead,         \* bound: how far the clocks of issuers are ahead
  MaxTime        \* bound

Ids == Predicates \cup Receipts \cup Attested \cup Roots

\* What an issuer shows under the id of a predicate or receipt.
Document ==
  [references : UNION {ReferenceLists[id] : id \in Predicates \cup Receipts}, form : Forms,
   expires : Expiries, status : Statuses \cup {"active"}]

\* An id tells of what kind an artifact is, and the id of a session which session.
ASSUME ArtifactsAssumption ==
  /\ {s.depth : s \in Scopes} \cup Expiries \cup Ahead \cup {DepthLimit, MaxDocuments, MaxRecords, MaxTime} \subseteq Nat
  /\ Windows \subseteq [from : Nat, until : Nat]
  /\ None \notin Ids \cup Document
  /\ Attested \cap (Predicates \cup Receipts) = {}
  /\ Roots \cap (Predicates \cup Receipts \cup Attested) = {}
  /\ \A id \in Ids \ Roots : ReferenceLists[id] \subseteq Seq([id : Ids, relationship : STRING])
  /\ \A s, t \in Concluded : s.id = t.id => s = t

VARIABLES
  published,  \* id -> the document its issuer shows now, or None
  records,    \* id -> the revocation record about it, or None
  cache,      \* predicate -> the document the resolver keeps, or None
  now

vars == <<published, records, cache, now>>

----------------------------------------------------------------------------
\* cmpc/revocation.py

CascadeRelationships == {"fulfills", "extends", "approves", "revokes"}

ReferencesArtifact(doc, id) ==
  \E i \in DOMAIN doc.references :
    doc.references[i].id = id /\ doc.references[i].relationship \in CascadeRelationships

Candidates == {id \in Ids : published[id] # None}

\* The artifacts to follow next: each with its depth and the path to it.
Followers(current) ==
  {[id |-> c, depth |-> current.depth + 1, path |-> current.path \cup {c}] :
     c \in {d \in Candidates \ current.path : ReferencesArtifact(published[d], current.id)}}

\* Fault: what has the depth of the record is followed once more.
FollowedPast(current, depth) == current.depth <= depth

Followed(current, depth) == current.depth < depth

\* What enters the queue when an artifact is followed to a depth: first come, first
\* served, so all of one depth before any of the next.
Levels(id, depth) ==
  LET level[k \in 0..(DepthLimit + 1)] ==
        IF k = 0 THEN {[id |-> id, depth |-> 0, path |-> {id}]}
        ELSE UNION {Followers(current) : current \in {c \in level[k - 1] : Followed(c, depth)}}
  IN  level

Queued(id, depth) ==
  LET levels == Levels(id, depth) IN UNION {levels[k] : k \in DOMAIN levels}

\* An artifact is named when it is met first.
CascadeRevocation(record) ==
  LET depth == IF record.depth < DepthLimit THEN record.depth ELSE DepthLimit
      queued == Queued(record.artifact, depth)
      first == {c \in queued : \A d \in queued : d.id = c.id => c.depth <= d.depth}
  IN  IF record.scope = "single_artifact" THEN {[id |-> record.artifact, depth |-> 0]}
      ELSE {[id |-> c.id, depth |-> c.depth] : c \in first}

\* Fault: a record has no effect yet at the instant it takes effect.
EffectiveAfter(record, time) == record.effective < time

\* Fault: the comparison is turned round.
EffectiveUntil(record, time) == record.effective >= time

Effective(record, time) == record.effective <= time

\* Any reference counts here, whatever its relationship.
FindRevocation(refs, time) ==
  \E i \in DOMAIN refs : records[refs[i].id] # None /\ Effective(records[refs[i].id], time)

----------------------------------------------------------------------------
\* predicate.py, predicate_resolver.py

Lifecycle(doc) ==
  IF doc.status = "expired" \/ doc.expires < now THEN "expired"
  ELSE IF doc.status \in {"revoked", "suspended"} THEN "revoked"
  ELSE "valid"

\* What verify_predicate says of a document; records only when they are supplied.
JudgePredicate(doc, supplied) ==
  IF doc.form = "malformed" THEN "schema_invalid"
  ELSE IF doc.form = "unsigned" THEN "bad_signature"
  ELSE IF Lifecycle(doc) # "valid" THEN Lifecycle(doc)
  ELSE IF supplied /\ FindRevocation(doc.references, now) THEN "revoked"
  ELSE IF doc.form = "misbound" THEN "wrong_subject"
  ELSE "valid"

\* A document the resolver cannot vouch for makes it raise.
Resolves(id, kept) ==
  IF kept[id] # None THEN "found"
  ELSE IF published[id] = None THEN "missing"
  ELSE IF JudgePredicate(published[id], FALSE) = "valid" THEN "found"
  ELSE "raises"

Resolved(id, kept) == IF kept[id] # None THEN kept[id] ELSE published[id]

Kept(id, kept) ==
  IF Resolves(id, kept) = "found" THEN [kept EXCEPT ![id] = Resolved(id, kept)] ELSE kept

\* The references to predicates are resolved one after the other until one fails, and
\* what was resolved until then is kept.
Bound(refs, kept) ==
  LET predicates == {i \in DOMAIN refs : refs[i].id \in Predicates}
      failing == {i \in predicates : Resolves(refs[i].id, kept) # "found"}
      before == {i \in predicates : \A j \in failing : i < j}
  IN  [cache |-> [p \in Predicates |->
                    IF \E i \in before : refs[i].id = p THEN Resolved(p, kept) ELSE kept[p]],
       fails |-> failing # {}]

\* verify_predicate of an id, with the resolver and the records.
VerifyPredicate(id) ==
  LET kept == Kept(id, cache)
      doc == Resolved(id, cache)
      bound == Bound(doc.references, kept)
  IN  IF Resolves(id, cache) # "found" THEN [verdict |-> "unresolved", cache |-> kept]
      ELSE IF doc.form # "malformed" /\ bound.fails THEN [verdict |-> "unresolved", cache |-> bound.cache]
      ELSE [verdict |-> JudgePredicate(doc, TRUE), cache |-> bound.cache]

----------------------------------------------------------------------------
\* approval_receipt.py

VerifyApprovalReceipt(doc) ==
  IF doc.form = "malformed" THEN "schema_invalid"
  ELSE IF ~ \E i \in DOMAIN doc.references :
              doc.references[i].relationship = "approves" /\ doc.references[i].id \in Roots
       THEN "missing_approves_reference"
  ELSE IF doc.form = "unsigned" THEN "signature_invalid"
  ELSE IF doc.expires < now THEN "expired"
  ELSE IF FindRevocation(doc.references, now) THEN "revoked"
  ELSE IF doc.form = "misbound" THEN "offer_hash_mismatch"
  ELSE "valid"

----------------------------------------------------------------------------
Init ==
  /\ published = [id \in Ids |-> None]
  /\ records = [id \in Ids |-> None]
  /\ cache = [p \in Predicates |-> None]
  /\ now = 0

Room == Cardinality(Candidates) < MaxDocuments

\* External: an issuer shows an artifact, perhaps one that refers to a later one.
Publish(id, refs, form, expires) ==
  /\ published[id] = None /\ Room
  /\ published' = [published EXCEPT ![id] =
       [references |-> refs, form |-> form, expires |-> expires, status |-> "active"]]
  /\ UNCHANGED <<records, cache, now>>

\* An attestation is generated of a session, which may have others, and shown; the
\* issuer's clock may be ahead.
Issue(a, session, window, refs, ahead) ==
  /\ published[a] = None /\ Room
  /\ ValidWindow(window.from, window.until)
  /\ published' = [published EXCEPT ![a] =
       GenerateAttestation(a, session, window.from, window.until, refs, now + ahead)]
  /\ UNCHANGED <<records, cache, now>>

\* External: an issuer signs a predicate anew, under the id it has, and shows that.
Republish(p, refs, form, expires, status) ==
  /\ published[p] # None
  /\ published' = [published EXCEPT ![p] =
       [references |-> refs, form |-> form, expires |-> expires, status |-> status]]
  /\ UNCHANGED <<records, cache, now>>

\* External: the verifier is given a revocation record whose signature it verified,
\* in the place of the one about the artifact if there is one.
Revoke(id, scope, effective) ==
  /\ Cardinality({id} \cup {a \in Ids : records[a] # None}) <= MaxRecords
  /\ records' = [records EXCEPT ![id] =
       [artifact |-> id, scope |-> scope.name, depth |-> scope.depth, effective |-> effective]]
  /\ UNCHANGED <<published, cache, now>>

\* External: the verifier is given the records without one it had.
Withdraw(id) ==
  /\ records' = [records EXCEPT ![id] = None]
  /\ UNCHANGED <<published, cache, now>>

\* A predicate is verified by its id, which is when documents get into the cache.
Verify(p) ==
  /\ cache' = VerifyPredicate(p).cache
  /\ UNCHANGED <<published, records, now>>

Tick ==
  /\ now < MaxTime
  /\ now' = now + 1
  /\ UNCHANGED <<published, records, cache>>

Next ==
  \/ \E id \in Predicates \cup Receipts, form \in Forms, t \in Expiries :
       \E refs \in ReferenceLists[id] : Publish(id, refs, form, t)
  \/ \E a \in Attested, session \in Concluded, window \in Windows, ahead \in Ahead :
       \E refs \in ReferenceLists[a] : Issue(a, session, window, refs, ahead)
  \/ \E p \in Predicates, form \in Forms, t \in Expiries, status \in Statuses :
       \E refs \in ReferenceLists[p] : Republish(p, refs, form, t, status)
  \/ \E id \in Ids, scope \in Scopes, t \in 0..MaxTime : Revoke(id, scope, t)
  \/ \E id \in Ids : Withdraw(id)
  \/ \E p \in Predicates : Verify(p)
  \/ Tick

Spec == Init /\ [][Next]_vars

----------------------------------------------------------------------------
\* The verdict on an artifact, were it verified now.
Verdict(id) ==
  IF published[id] = None THEN "unresolved"
  ELSE IF id \in Predicates THEN VerifyPredicate(id).verdict ELSE VerifyApprovalReceipt(published[id])

\* The copy of it a verifier judges.
Judged(id) == IF id \in Predicates THEN Resolved(id, cache) ELSE published[id]

\* The artifacts k references or fewer away from a revoked one, by references that cascade.
Reach(id) ==
  LET reach[n \in 0..DepthLimit] ==
        IF n = 0 THEN {id}
        ELSE reach[n - 1] \cup {c \in Candidates : \E r \in reach[n - 1] : ReferencesArtifact(published[c], r)}
  IN  reach

Within(id, k) == Reach(id)[k]

\* A cascade names every artifact that depends on the revoked one within the
\* depth of the record, and nothing else, each once and at its distance,
\* through cycles, diamonds and references to itself (cascade_revocation:
\* first come in a breadth-first walk, a path never meeting itself).
CascadeIsReach ==
  \A id \in Ids : records[id] # None /\ records[id].scope = "cascade_to_dependents" =>
    LET depth == IF records[id].depth < DepthLimit THEN records[id].depth ELSE DepthLimit
    IN  CascadeRevocation(records[id]) =
          {[id |-> a, depth |-> CHOOSE k \in 0..depth : a \in Within(id, k) /\ \A j \in 0..(k - 1) : a \notin Within(id, j)]
             : a \in Within(id, depth)}

\* From the instant a record takes effect the verifiers refuse what refers to
\* the revoked artifact, in the copy they judge.  So what the cascade of the
\* record names at distance one is refused, whatever else the verifier was
\* given or kept, but for a predicate the resolver keeps from before its issuer
\* made it refer to the artifact (verify_predicate and verify_approval_receipt
\* look at direct references, predicate_resolver.py never fetches again).
DependentsRefused ==
  \A id \in Ids : records[id] # None /\ records[id].effective <= now =>
    /\ \A a \in Predicates \cup Receipts :
         Judged(a) # None /\ ReferencesArtifact(Judged(a), id) => Verdict(a) # "valid"
    /\ \A entry \in CascadeRevocation(records[id]) :
         entry.depth = 1 /\ entry.id \notin Attested /\ Verdict(entry.id) = "valid" =>
           /\ entry.id \in Predicates /\ cache[entry.id] # None
           /\ ~ReferencesArtifact(cache[entry.id], id)

\* The records about what a kept predicate refers to stay as they are.
RecordsStand(p) ==
  \A i \in DOMAIN cache[p].references :
    records[cache[p].references[i].id] # None =>
      records'[cache[p].references[i].id] = records[cache[p].references[i].id]

\* A verdict that refuses a kept predicate is never followed by one that
\* accepts it: what was refused for its age or its status stays so whatever the
\* issuer shows and the verifier is given later, and what was refused for a
\* record does while that record is neither replaced nor left out.  A predicate
\* whose references did not resolve was not judged (PredicateFailureReason:
\* RESOLVER_MISS comes before any of the others).
RefusalsAreFinal ==
  [][\A p \in Predicates :
       /\ cache[p] # None /\ VerifyPredicate(p).verdict \notin {"valid", "unresolved"}
       /\ \/ JudgePredicate(cache[p], FALSE) # "valid"
          \/ RecordsStand(p)
       => (VerifyPredicate(p).verdict # "valid")']_vars
=============================================================================
