---------------------------- MODULE EvidenceProofs ----------------------------
(***************************************************************************)
(* What TLAPS proves of signed artifacts and of what is shown of them      *)
(* (modules Artifacts and Evidence), for any ids, references, sessions,    *)
(* windows, agents and depths.                                             *)
(*                                                                         *)
(* Founded is the invariant: what is shown or kept under an id was issued  *)
(* under it, and a record is kept under what it is about.                  *)
(***************************************************************************)
EXTENDS Evidence, TLAPS, FiniteSetTheorems, SequenceTheorems, WellFoundedInduction

(***************************************************************************)
(* The invariant                                                           *)
(***************************************************************************)

Shows(id, doc) == doc \in Document /\ doc.references \in ReferenceLists[id]

\* An attestation as some session's issuer signed it.
Generated(a, att) ==
  \E session \in Concluded, from \in Nat, until \in Nat, time \in Nat :
  \E refs \in ReferenceLists[a] :
    att = GenerateAttestation(a, session, from, until, refs, time)

Founded ==
  /\ DOMAIN published = Ids /\ DOMAIN records = Ids /\ DOMAIN cache = Predicates
  /\ now \in Nat
  /\ \A id \in Predicates \cup Receipts : published[id] # None => Shows(id, published[id])
  /\ \A a \in Attested : published[a] # None => Generated(a, published[a])
  /\ \A id \in Roots : published[id] = None
  /\ \A id \in Ids : records[id] # None =>
       /\ records[id].artifact = id
       /\ records[id].depth \in Nat /\ records[id].effective \in Nat
  /\ \A p \in Predicates : cache[p] # None =>
       /\ published[p] # None
       /\ Shows(p, cache[p])

\* What is kept of a predicate is what was kept, or what is shown.
LEMMA KeptIs ==
  ASSUME Founded, NEW p \in Predicates, NEW q \in Predicates
  PROVE  /\ DOMAIN Kept(p, cache) = Predicates
         /\ \/ Kept(p, cache)[q] = cache[q]
            \/ cache[q] = None /\ published[q] # None /\ Kept(p, cache)[q] = published[q]
  BY DEF Kept, Resolves, Resolved, Founded

\* What is found is kept already or shown.
LEMMA FoundIs ==
  ASSUME NEW kept, NEW q, Resolves(q, kept) = "found", kept[q] = None
  PROVE  published[q] # None /\ JudgePredicate(published[q], FALSE) = "valid"
<1> DEFINE judged == JudgePredicate(published[q], FALSE) = "valid"
<1> HIDE DEF judged
<1>1. published[q] = None => Resolves(q, kept) = "missing"
  BY DEF Resolves
<1>2. published[q] # None /\ ~judged => Resolves(q, kept) = "raises"
  BY DEF Resolves, judged
<1> QED
  BY <1>1, <1>2 DEF judged

\* And so it is when its references have been resolved.
LEMMA BoundIs ==
  ASSUME NEW kept, NEW n \in Nat, NEW refs, DOMAIN refs = 1..n, NEW q \in Predicates
  PROVE  LET b == Bound(refs, kept)
         IN  /\ DOMAIN b.cache = Predicates
             /\ \/ b.cache[q] = kept[q]
                \/ kept[q] = None /\ published[q] # None /\ b.cache[q] = published[q]
<1> DEFINE predicates == {i \in DOMAIN refs : refs[i].id \in Predicates}
           failing == {i \in predicates : Resolves(refs[i].id, kept) # "found"}
           before == {i \in predicates : \A j \in failing : i < j}
           after == [p \in Predicates |->
                       IF \E i \in before : refs[i].id = p THEN Resolved(p, kept) ELSE kept[p]]
<1>1. Bound(refs, kept).cache = after
  BY DEF Bound
<1>2. \A i \in before : Resolves(refs[i].id, kept) = "found"
  <2>1. \A i \in before : i \notin failing
    BY SMT
  <2> QED
    BY <2>1
<1>3. after[q] = kept[q] \/ (kept[q] = None /\ published[q] # None /\ after[q] = published[q])
  <2>1. CASE \E i \in before : refs[i].id = q
    <3>1. Resolves(q, kept) = "found"
      BY <1>2, <2>1
    <3>2. after[q] = Resolved(q, kept)
      BY <2>1
    <3>3. kept[q] = None => published[q] # None
      BY <3>1, FoundIs
    <3> HIDE DEF after
    <3> QED
      BY <3>2, <3>3 DEF Resolved
  <2>2. CASE ~ \E i \in before : refs[i].id = q
    BY <2>2
  <2> QED
    BY <2>1, <2>2
<1>4. DOMAIN after = Predicates
  OBVIOUS
<1> HIDE DEF after
<1> QED
  BY <1>1, <1>3, <1>4

\* A document that is shown has a list of references.
LEMMA ReferencesAre ==
  ASSUME NEW id \in Ids \ Roots, NEW doc, doc.references \in ReferenceLists[id]
  PROVE  /\ doc.references \in Seq([id : Ids, relationship : STRING])
         /\ \E n \in Nat : DOMAIN doc.references = 1..n
         /\ \A i \in DOMAIN doc.references : doc.references[i].id \in Ids
<1>1. doc.references \in Seq([id : Ids, relationship : STRING])
  BY ArtifactsAssumption
<1>2. Len(doc.references) \in Nat /\ DOMAIN doc.references = 1..Len(doc.references)
  BY <1>1
<1>3. \A i \in 1..Len(doc.references) : doc.references[i].id \in Ids
  <2> SUFFICES ASSUME NEW i \in 1..Len(doc.references) PROVE doc.references[i].id \in Ids
    OBVIOUS
  <2>1. doc.references[i] \in [id : Ids, relationship : STRING]
    BY <1>1, ElementOfSeq, Zenon
  <2> QED
    BY <2>1
<1>4. \A i \in DOMAIN doc.references : doc.references[i].id \in Ids
  BY <1>2, <1>3, Zenon
<1>5. \E n \in Nat : DOMAIN doc.references = 1..n
  BY <1>2
<1> QED
  BY <1>1, <1>4, <1>5

LEMMA KindsApart ==
  /\ Roots \subseteq Ids
  /\ Predicates \subseteq Ids \ Roots /\ Receipts \subseteq Ids \ Roots
  /\ Attested \subseteq Ids \ Roots
  /\ Predicates \intersect Attested = {} /\ Receipts \intersect Attested = {}
  BY ArtifactsAssumption DEF Ids

\* Verifying a predicate fills the cache with what is shown, and drops nothing from it.
LEMMA VerifyFills ==
  ASSUME Founded, NEW p \in Predicates, NEW q \in Predicates
  PROVE  /\ DOMAIN VerifyPredicate(p).cache = Predicates
         /\ \/ VerifyPredicate(p).cache[q] = cache[q]
            \/ /\ cache[q] = None /\ published[q] # None
               /\ VerifyPredicate(p).cache[q] = published[q]
<1>1. PICK kept : kept = Kept(p, cache)
  OBVIOUS
<1>2. /\ DOMAIN kept = Predicates
      /\ kept[q] = cache[q] \/ (cache[q] = None /\ published[q] # None /\ kept[q] = published[q])
  BY <1>1, KeptIs
<1>3. PICK doc : doc = Resolved(p, cache)
  OBVIOUS
<1>4. VerifyPredicate(p).cache \in {kept, Bound(doc.references, kept).cache}
  BY <1>1, <1>3 DEF VerifyPredicate
<1>5. CASE Resolves(p, cache) # "found"
  <2>1. VerifyPredicate(p).cache = kept
    BY <1>1, <1>5 DEF VerifyPredicate
  <2> QED
    BY <1>2, <2>1
<1>6. CASE Resolves(p, cache) = "found"
  <2>1. Shows(p, doc)
    BY <1>3, <1>6, FoundIs DEF Resolved, Founded
  <2>2. PICK n \in Nat : DOMAIN doc.references = 1..n
    BY <2>1, KindsApart, ReferencesAre DEF Shows
  <2>3. PICK b : b = Bound(doc.references, kept)
    OBVIOUS
  <2>4. /\ DOMAIN b.cache = Predicates
        /\ \/ b.cache[q] = kept[q]
           \/ kept[q] = None /\ published[q] # None /\ b.cache[q] = published[q]
    BY <2>2, <2>3, BoundIs
  <2> QED
    BY <1>2, <1>4, <2>3, <2>4
<1> QED
  BY <1>5, <1>6

\* What is shown and what is kept was issued: each step keeps Founded.
LEMMA FoundedAtFirst == Init => Founded
<1> SUFFICES ASSUME Init PROVE Founded
  OBVIOUS
<1>1. DOMAIN published = Ids /\ DOMAIN records = Ids /\ DOMAIN cache = Predicates /\ now \in Nat
  BY DEF Init
<1>2. \A id \in Ids : published[id] = None /\ records[id] = None
  BY DEF Init
<1>3. \A p \in Predicates : cache[p] = None
  BY DEF Init
<1> QED
  BY <1>1, <1>2, <1>3, KindsApart DEF Founded

LEMMA FoundedByPublish ==
  ASSUME Founded, NEW id \in Predicates \cup Receipts, NEW refs \in ReferenceLists[id],
         NEW form \in Forms, NEW t \in Expiries, Publish(id, refs, form, t)
  PROVE  Founded'
<1>1. PICK doc : doc = [references |-> refs, form |-> form, expires |-> t, status |-> "active"]
  OBVIOUS
<1>2. doc \in Document /\ doc.references = refs
  BY <1>1 DEF Document
<1>3. /\ published' = [published EXCEPT ![id] = doc] /\ published[id] = None
      /\ UNCHANGED <<records, cache, now>>
  BY <1>1 DEF Publish
<1>4. id \in Ids /\ id \notin Attested
  BY KindsApart
<1>5. DOMAIN published' = Ids /\ published'[id] = doc /\ \A x \in Ids : x # id => published'[x] = published[x]
  BY <1>3, <1>4 DEF Founded
<1>6. \A x \in Predicates \cup Receipts : published'[x] # None => Shows(x, published'[x])
  BY <1>2, <1>5, KindsApart DEF Founded, Shows
<1>7. \A p \in Predicates : cache[p] # None => published'[p] = published[p]
  BY <1>3, <1>5, KindsApart DEF Founded
<1> QED
  BY <1>3, <1>4, <1>5, <1>6, <1>7, KindsApart DEF Founded, Shows, Generated

LEMMA FoundedByIssue ==
  ASSUME Founded, NEW a \in Attested, NEW session \in Concluded, NEW window \in Windows,
         NEW refs \in ReferenceLists[a], NEW ahead \in Ahead, Issue(a, session, window, refs, ahead)
  PROVE  Founded'
<1>0. PICK time : time = now + ahead
  OBVIOUS
<1>1. PICK att : att = GenerateAttestation(a, session, window.from, window.until, refs, time)
  OBVIOUS
<1>2. Generated(a, att)
  <2>1. window.from \in Nat /\ window.until \in Nat
    BY ArtifactsAssumption
  <2>2. time \in Nat
    BY <1>0, ArtifactsAssumption DEF Founded
  <2> QED
    BY <1>1, <2>1, <2>2 DEF Generated
<1>3. published' = [published EXCEPT ![a] = att] /\ UNCHANGED <<records, cache, now>>
  BY <1>0, <1>1 DEF Issue
<1>4. DOMAIN published' = Ids /\ published'[a] = att /\ \A x \in Ids : x # a => published'[x] = published[x]
  BY <1>3, KindsApart DEF Founded
<1>5. \A x \in Attested : published'[x] # None => Generated(x, published'[x])
  BY <1>2, <1>4, KindsApart DEF Founded
<1> QED
  BY <1>3, <1>4, <1>5, KindsApart DEF Founded, Shows, Generated

LEMMA FoundedByRepublish ==
  ASSUME Founded, NEW p \in Predicates, NEW refs \in ReferenceLists[p], NEW form \in Forms,
         NEW t \in Expiries, NEW status \in Statuses, Republish(p, refs, form, t, status)
  PROVE  Founded'
<1>1. PICK doc : doc = [references |-> refs, form |-> form, expires |-> t, status |-> status]
  OBVIOUS
<1>2. doc \in Document /\ doc.references = refs
  BY <1>1 DEF Document
<1>3. published' = [published EXCEPT ![p] = doc] /\ UNCHANGED <<records, cache, now>>
  BY <1>1 DEF Republish
<1>4. p \in Ids /\ p \notin Attested
  BY KindsApart
<1>5. DOMAIN published' = Ids /\ published'[p] = doc /\ \A x \in Ids : x # p => published'[x] = published[x]
  BY <1>3, <1>4 DEF Founded
<1>6. \A x \in Predicates \cup Receipts : published'[x] # None => Shows(x, published'[x])
  BY <1>2, <1>5, KindsApart DEF Founded, Shows
<1>7. doc # None
  BY <1>2, ArtifactsAssumption
<1>8. \A q \in Predicates : cache[q] # None => published'[q] # None
  BY <1>5, <1>7, KindsApart DEF Founded
<1> QED
  BY <1>3, <1>5, <1>6, <1>8, KindsApart DEF Founded, Shows, Generated

LEMMA FoundedByRevoke ==
  ASSUME Founded, NEW id \in Ids, NEW scope \in Scopes, NEW t \in 0..MaxTime, Revoke(id, scope, t)
  PROVE  Founded'
<1>1. PICK rec : rec = [artifact |-> id, scope |-> scope.name, depth |-> scope.depth, effective |-> t]
  OBVIOUS
<1>2. rec.artifact = id /\ rec.depth \in Nat /\ rec.effective \in Nat
  BY <1>1, ArtifactsAssumption
<1>3. records' = [records EXCEPT ![id] = rec] /\ UNCHANGED <<published, cache, now>>
  BY <1>1 DEF Revoke
<1>4. DOMAIN records' = Ids /\ records'[id] = rec /\ \A x \in Ids : x # id => records'[x] = records[x]
  BY <1>3 DEF Founded
<1> QED
  BY <1>2, <1>3, <1>4 DEF Founded, Shows, Generated

LEMMA FoundedByWithdraw ==
  ASSUME Founded, NEW id \in Ids, Withdraw(id)
  PROVE  Founded'
<1>1. /\ DOMAIN records' = Ids /\ records'[id] = None
      /\ \A x \in Ids : x # id => records'[x] = records[x]
      /\ UNCHANGED <<published, cache, now>>
  BY DEF Withdraw, Founded
<1> QED
  BY <1>1 DEF Founded, Shows, Generated

LEMMA FoundedByVerify ==
  ASSUME Founded, NEW p \in Predicates, Verify(p)
  PROVE  Founded'
<1>1. UNCHANGED <<published, records, now>>
  BY DEF Verify
<1>2. /\ DOMAIN cache' = Predicates
      /\ \A q \in Predicates :
           \/ cache'[q] = cache[q]
           \/ published[q] # None /\ cache'[q] = published[q]
  BY VerifyFills DEF Verify
<1>3. \A q \in Predicates : cache'[q] # None =>
        /\ published[q] # None /\ Shows(q, cache'[q])
  BY <1>2 DEF Founded
<1> QED
  BY <1>1, <1>2, <1>3 DEF Founded, Shows, Generated

LEMMA FoundedKept == Founded /\ [Next]_vars => Founded'
<1> SUFFICES ASSUME Founded, [Next]_vars PROVE Founded'
  OBVIOUS
<1>1. CASE Tick
  BY <1>1, ArtifactsAssumption DEF Tick, Founded, Shows, Generated
<1>2. CASE UNCHANGED vars
  BY <1>2 DEF vars, Founded, Shows, Generated
<1>3. ASSUME NEW id \in Ids, NEW scope \in Scopes, NEW t \in 0..MaxTime, Revoke(id, scope, t)
      PROVE  Founded'
  BY <1>3, FoundedByRevoke
<1>4. ASSUME NEW a \in Attested, NEW session \in Concluded, NEW window \in Windows,
             NEW refs \in ReferenceLists[a], NEW ahead \in Ahead, Issue(a, session, window, refs, ahead)
      PROVE  Founded'
  BY <1>4, FoundedByIssue
<1>5. ASSUME NEW p \in Predicates, NEW refs \in ReferenceLists[p], NEW form \in Forms,
             NEW t \in Expiries, NEW status \in Statuses, Republish(p, refs, form, t, status)
      PROVE  Founded'
  BY <1>5, FoundedByRepublish
<1> QED
  BY <1>1, <1>2, <1>3, <1>4, <1>5, FoundedByPublish, FoundedByVerify, FoundedByWithdraw
  DEF Next

\* What is shown under an id was issued under it, and so was what the resolver
\* keeps of it (the resolver of predicate_resolver.py keeps what it fetched).
THEOREM EvidenceIsFounded == Spec => []Founded
  BY FoundedAtFirst, FoundedKept, PTL DEF Spec

(***************************************************************************)
(* Refusals are final                                                      *)
(***************************************************************************)

\* A predicate that the resolver keeps and that is refused as it is kept.
Refuted(p) == cache[p] # None /\ JudgePredicate(cache[p], TRUE) # "valid"

Refused(p) == VerifyPredicate(p).verdict # "valid"

LEMMA RefutedIsRefused ==
  ASSUME NEW p \in Predicates, Refuted(p)
  PROVE  Refused(p)
<1>1. Resolves(p, cache) = "found" /\ Resolved(p, cache) = cache[p]
  BY DEF Refuted, Resolves, Resolved
<1>2. VerifyPredicate(p).verdict \in {"unresolved", JudgePredicate(cache[p], TRUE)}
  BY <1>1 DEF VerifyPredicate
<1> QED
  BY <1>2 DEF Refuted, Refused

\* No step changes a document that is kept or turns back the clock.
LEMMA NothingIsTakenBack ==
  ASSUME Founded, [Next]_vars
  PROVE  /\ now' \in Nat /\ now <= now'
         /\ \A p \in Predicates : cache[p] # None => cache'[p] = cache[p]
<1> DEFINE Goal == /\ now' \in Nat /\ now <= now'
                   /\ \A p \in Predicates : cache[p] # None => cache'[p] = cache[p]
<1>1. now \in Nat
  BY DEF Founded
<1>2. ASSUME UNCHANGED <<cache, now>> PROVE Goal
  BY <1>1, <1>2
<1>3. ASSUME Tick PROVE Goal
  BY <1>1, <1>3 DEF Tick
<1>4. ASSUME NEW p \in Predicates, Verify(p) PROVE Goal
  BY <1>1, <1>4, VerifyFills DEF Verify
<1> HIDE DEF Goal
<1>5. ASSUME NEW id \in Ids, NEW scope \in Scopes, NEW t \in 0..MaxTime, Revoke(id, scope, t)
      PROVE  Goal
  BY <1>2, <1>5 DEF Revoke
<1>6. ASSUME NEW id \in Predicates \cup Receipts, NEW form \in Forms, NEW t \in Expiries,
             NEW refs \in ReferenceLists[id], Publish(id, refs, form, t)
      PROVE  Goal
  BY <1>2, <1>6 DEF Publish
<1>7. ASSUME NEW a \in Attested, NEW session \in Concluded, NEW window \in Windows, NEW ahead \in Ahead,
             NEW refs \in ReferenceLists[a], Issue(a, session, window, refs, ahead)
      PROVE  Goal
  BY <1>2, <1>7 DEF Issue
<1>8. ASSUME NEW p \in Predicates, NEW form \in Forms, NEW t \in Expiries, NEW status \in Statuses,
             NEW refs \in ReferenceLists[p], Republish(p, refs, form, t, status)
      PROVE  Goal
  BY <1>2, <1>8 DEF Republish
<1>9. ASSUME NEW id \in Ids, Withdraw(id) PROVE Goal
  BY <1>2, <1>9 DEF Withdraw
<1>10. Goal
  BY <1>2, <1>3, <1>4, <1>5, <1>6, <1>7, <1>8, <1>9, SMTT(30) DEF Next, vars
<1> QED
  BY <1>10 DEF Goal

LEMMA RefutedStays ==
  ASSUME Founded, [Next]_vars, NEW p \in Predicates, Refuted(p),
         JudgePredicate(cache[p], FALSE) # "valid" \/ RecordsStand(p)
  PROVE  Refuted(p)'
<1>1. PICK doc : doc = cache[p] /\ cache'[p] = doc /\ doc # None /\ Shows(p, doc)
  BY NothingIsTakenBack DEF Refuted, Founded
<1>2. now \in Nat /\ now' \in Nat /\ now <= now'
  BY NothingIsTakenBack DEF Founded
<1>3. doc.expires \in Nat
  BY <1>1, ArtifactsAssumption DEF Shows, Document
<1>4. CASE JudgePredicate(doc, FALSE) # "valid"
  BY <1>1, <1>2, <1>3, <1>4 DEF Refuted, JudgePredicate, Lifecycle
<1>5. CASE JudgePredicate(doc, FALSE) = "valid"
  <2>1. FindRevocation(doc.references, now) /\ RecordsStand(p)
    BY <1>1, <1>5 DEF Refuted, JudgePredicate, Lifecycle
  <2>2. PICK i \in DOMAIN doc.references :
          /\ records[doc.references[i].id] # None
          /\ records[doc.references[i].id].effective <= now
    BY <2>1 DEF FindRevocation, Effective
  <2>3. doc.references[i].id \in Ids
    BY <1>1, <2>2, KindsApart, ReferencesAre DEF Shows
  <2>4. records'[doc.references[i].id] = records[doc.references[i].id]
    BY <1>1, <2>1, <2>2 DEF RecordsStand
  <2>5. records[doc.references[i].id].effective \in Nat
    BY <2>2, <2>3 DEF Founded
  <2>6. /\ records'[doc.references[i].id] # None
        /\ records'[doc.references[i].id].effective <= now'
    BY <1>2, <2>2, <2>4, <2>5
  <2>7. FindRevocation(doc.references, now)'
    BY <2>2, <2>6 DEF FindRevocation, Effective
  <2> QED
    BY <1>1, <2>7 DEF Refuted, JudgePredicate, FindRevocation, Effective
<1> QED
  BY <1>4, <1>5

\* What verify_predicate says of a kept predicate it judged, it says of what is kept.
LEMMA JudgedIsRefuted ==
  ASSUME NEW p \in Predicates, cache[p] # None, VerifyPredicate(p).verdict \notin {"valid", "unresolved"}
  PROVE  Refuted(p)
<1>1. Resolves(p, cache) = "found" /\ Resolved(p, cache) = cache[p]
  BY DEF Resolves, Resolved
<1>2. VerifyPredicate(p).verdict \in {"unresolved", JudgePredicate(cache[p], TRUE)}
  BY <1>1 DEF VerifyPredicate
<1> QED
  BY <1>2 DEF Refuted

\* A verdict that refuses a kept predicate is never followed by one that accepts
\* it: not after its age or its status, and not after a record that still stands.
THEOREM RefusalsHold == Spec => RefusalsAreFinal
<1> DEFINE Keeps == \A p \in Predicates :
                      /\ cache[p] # None /\ VerifyPredicate(p).verdict \notin {"valid", "unresolved"}
                      /\ \/ JudgePredicate(cache[p], FALSE) # "valid"
                         \/ RecordsStand(p)
                      => (VerifyPredicate(p).verdict # "valid")'
<1>1. Founded /\ [Next]_vars /\ (\A p \in Predicates : Refuted(p) => Refused(p))' => Keeps
  BY RefutedStays, JudgedIsRefuted DEF Refused
<1>2. Founded => \A p \in Predicates : Refuted(p) => Refused(p)
  BY RefutedIsRefused
<1>3. Keeps => [Keeps]_vars
  OBVIOUS
<1> QED
  BY <1>1, <1>2, <1>3, EvidenceIsFounded, PTL DEF Spec, RefusalsAreFinal

(***************************************************************************)
(* Recursion over 0..d                                                     *)
(***************************************************************************)

LEMMA LeastNatural ==
  ASSUME NEW S, S \subseteq Nat, S # {}
  PROVE  \E x \in S : \A y \in S : x <= y
<1> DEFINE R == StrictSubsetOrdering(Nat)
           T == {0..x : x \in S}
<1>1. T \subseteq FiniteSubsetsOf(Nat) /\ T # {}
  <2>1. ASSUME NEW x \in S PROVE 0..x \in SUBSET Nat /\ IsFiniteSet(0..x)
    <3>1. x \in Int /\ 0 \in Int
      OBVIOUS
    <3>2. IsFiniteSet(0..x)
      BY <3>1, FS_Interval
    <3> QED
      BY <3>2
  <2> QED
    BY <2>1 DEF FiniteSubsetsOf
<1>2. IsWellFoundedOn(R, FiniteSubsetsOf(Nat))
  BY FS_StrictSubsetOrderingWellFounded
<1>3. PICK t \in T : \A u \in T : <<u, t>> \notin R
  <2> HIDE DEF R, T
  <2> QED
    BY <1>1, <1>2, WFMin
<1>4. PICK x \in S : t = 0..x
  OBVIOUS
<1>5. \A y \in S : x <= y
  <2> SUFFICES ASSUME NEW y \in S, y < x PROVE FALSE
    OBVIOUS
  <2>1. 0..y \subseteq 0..x /\ 0..y # 0..x /\ 0..y \in SUBSET Nat /\ 0..x \in SUBSET Nat
    OBVIOUS
  <2>2. <<0..y, 0..x>> \in R
    BY <2>1 DEF StrictSubsetOrdering
  <2> QED
    BY <1>3, <1>4, <2>2
<1> QED
  BY <1>4, <1>5

\* Induction up to a bound, over a set.
LEMMA UpToBound ==
  ASSUME NEW d \in Nat, NEW T, 0 \in T, \A n \in Nat : n < d /\ n \in T => n + 1 \in T
  PROVE  \A n \in 0..d : n \in T
<1> DEFINE S == {n \in 0..d : n \notin T}
<1> SUFFICES ASSUME S # {} PROVE FALSE
  OBVIOUS
<1>1. S \subseteq Nat
  OBVIOUS
<1>2. PICK x \in S : \A y \in S : x <= y
  <2> HIDE DEF S
  <2> QED
    BY <1>1, LeastNatural
<1>3. x \in 0..d /\ x \notin T /\ x # 0
  BY <1>2
<1>4. x - 1 \in Nat /\ x - 1 < d /\ x - 1 \in 0..d
  BY <1>3
<1>5. x - 1 \in T
  BY <1>2, <1>3, <1>4
<1>6. (x - 1) + 1 = x
  BY <1>3
<1> QED
  BY <1>3, <1>4, <1>5, <1>6

\* f starts at a, and G takes each of its values to the next.
Iterates(f, S, a, G, d) == f \in [0..d -> S] /\ f[0] = a /\ \A k \in 1..d : f[k] = G[f[k - 1]]

\* A function defined by recursion over 0..d exists.
LEMMA RecursionExists ==
  ASSUME NEW S, NEW a \in S, NEW G \in [S -> S], NEW d \in Nat
  PROVE  \E f : Iterates(f, S, a, G, d)
<1> DEFINE Up(n) == \E f \in [0..n -> S] : f[0] = a /\ \A k \in 1..n : f[k] = G[f[k - 1]]
           T == {n \in Nat : Up(n)}
<1>1. 0 \in T
  <2>1. PICK f : f = [k \in 0..0 |-> a]
    OBVIOUS
  <2>2. f \in [0..0 -> S] /\ f[0] = a /\ \A k \in 1..0 : f[k] = G[f[k - 1]]
    BY <2>1
  <2> QED
    BY <2>2
<1>2. ASSUME NEW n \in Nat, n \in T PROVE n + 1 \in T
  <2>1. PICK f \in [0..n -> S] : f[0] = a /\ \A k \in 1..n : f[k] = G[f[k - 1]]
    BY <1>2
  <2>2. PICK g : g = [k \in 0..(n + 1) |-> IF k = n + 1 THEN G[f[n]] ELSE f[k]]
    OBVIOUS
  <2>3. g \in [0..(n + 1) -> S]
    <3>1. n \in 0..n /\ f[n] \in S
      BY <2>1
    <3>2. G[f[n]] \in S
      BY <3>1
    <3>3. \A k \in 0..(n + 1) : k # n + 1 => k \in 0..n
      OBVIOUS
    <3> QED
      BY <2>1, <2>2, <3>2, <3>3
  <2>4. g[0] = a
    BY <2>1, <2>2
  <2>5. ASSUME NEW k \in 1..(n + 1) PROVE g[k] = G[g[k - 1]]
    <3>1. CASE k = n + 1
      <4>1. k - 1 = n /\ n \in 0..(n + 1) /\ n # n + 1
        BY <3>1
      <4>2. g[n] = f[n]
        BY <2>2, <4>1
      <4> QED
        BY <2>2, <3>1, <4>1, <4>2
    <3>2. CASE k # n + 1
      <4>1. k \in 1..n /\ k - 1 \in 0..(n + 1) /\ k - 1 # n + 1 /\ k \in 0..(n + 1)
        BY <3>2
      <4>2. g[k] = f[k] /\ g[k - 1] = f[k - 1]
        BY <2>2, <3>2, <4>1
      <4> QED
        BY <2>1, <4>1, <4>2
    <3> QED
      BY <3>1, <3>2
  <2> QED
    BY <2>3, <2>4, <2>5
<1>3. \A n \in 0..d : n \in T
  <2> HIDE DEF T
  <2> QED
    BY <1>1, <1>2, UpToBound
<1>4. d \in 0..d
  OBVIOUS
<1> QED
  BY <1>3, <1>4 DEF Iterates

(***************************************************************************)
(* The cascade                                                             *)
(***************************************************************************)

Entry == [id : Ids, depth : Nat, path : SUBSET Ids]

LEMMA FollowersAre ==
  ASSUME NEW c \in Entry
  PROVE  Followers(c) \subseteq Entry
<1> SUFFICES ASSUME NEW e \in Followers(c) PROVE e \in Entry
  OBVIOUS
<1>1. PICK x \in Candidates : e = [id |-> x, depth |-> c.depth + 1, path |-> c.path \cup {x}]
  BY DEF Followers
<1>2. x \in Ids
  BY DEF Candidates
<1> QED
  BY <1>1, <1>2 DEF Entry

LEMMA DepthLimitIsNatural == DepthLimit \in Nat
  BY ArtifactsAssumption

\* The levels of the walk, as they are defined.
LEMMA LevelsAre ==
  ASSUME NEW id \in Ids, NEW depth \in Nat
  PROVE  /\ Levels(id, depth) \in [0..(DepthLimit + 1) -> SUBSET Entry]
         /\ Levels(id, depth)[0] = {[id |-> id, depth |-> 0, path |-> {id}]}
         /\ \A k \in 1..(DepthLimit + 1) :
              Levels(id, depth)[k] =
                UNION {Followers(c) : c \in {x \in Levels(id, depth)[k - 1] : Followed(x, depth)}}
<1> DEFINE d == DepthLimit + 1
           a == {[id |-> id, depth |-> 0, path |-> {id}]}
           Next1(q) == UNION {Followers(c) : c \in {x \in q : Followed(x, depth)}}
           Is(f) == f = [k \in 0..d |-> IF k = 0 THEN a ELSE Next1(f[k - 1])]
<1>1. d \in Nat
  BY DepthLimitIsNatural
<1>2. a \in SUBSET Entry
  BY DEF Entry
<1>3. \A q \in SUBSET Entry : Next1(q) \in SUBSET Entry
  BY FollowersAre
<1> HIDE DEF d, a, Next1
<1>0. PICK U : U = SUBSET Entry
  OBVIOUS
<1>4. PICK G : G = [q \in U |-> Next1(q)]
  OBVIOUS
<1>5. G \in [U -> U] /\ a \in U
  BY <1>0, <1>2, <1>3, <1>4
<1>6. PICK f : Iterates(f, U, a, G, d)
  BY <1>1, <1>5, RecursionExists, Zenon
<1>7. \A k \in 1..d : f[k] = Next1(f[k - 1])
  <2> SUFFICES ASSUME NEW k \in 1..d PROVE f[k] = Next1(f[k - 1])
    OBVIOUS
  <2>1. k - 1 \in 0..d
    BY <1>1
  <2> QED
    BY <1>4, <1>6, <2>1 DEF Iterates
<1>8. Is(f)
  <2>1. \A k \in 0..d : f[k] = IF k = 0 THEN a ELSE Next1(f[k - 1])
    <3>1. \A k \in 0..d : k # 0 => k \in 1..d
      BY <1>1
    <3> QED
      BY <1>6, <1>7, <3>1 DEF Iterates
  <2> QED
    BY <1>6, <2>1 DEF Iterates
<1>9. PICK l : l = CHOOSE x : Is(x)
  OBVIOUS
<1>10. Is(l)
  BY <1>8, <1>9
<1>11. l = Levels(id, depth)
  BY <1>9 DEF Levels, d, a, Next1
<1>12. /\ l \in [0..d -> U] /\ l[0] = a
       /\ \A k \in 1..d : l[k] = Next1(l[k - 1])
  <2>1. DOMAIN l = 0..d /\ \A k \in 0..d : l[k] = IF k = 0 THEN a ELSE Next1(l[k - 1])
    BY <1>10
  <2>2. l[0] = a /\ \A k \in 1..d : l[k] = Next1(l[k - 1])
    <3>1. 0 \in 0..d /\ \A k \in 1..d : k # 0 /\ k \in 0..d
      BY <1>1
    <3> QED
      BY <2>1, <3>1
  <2>3. \A k \in 0..d : k \in {n \in Nat : l[n] \in U}
    <3> DEFINE T == {n \in Nat : l[n] \in U}
    <3>1. 0 \in T
      BY <1>5, <2>2
    <3>2. ASSUME NEW n \in Nat, n < d, n \in T PROVE n + 1 \in T
      <4>1. n + 1 \in 1..d /\ (n + 1) - 1 = n /\ n + 1 \in Nat
        BY <1>1, <3>2
      <4>2. l[n + 1] = Next1(l[n])
        BY <2>2, <4>1
      <4>3. Next1(l[n]) \in U
        BY <1>0, <1>3, <3>2
      <4> QED
        BY <4>1, <4>2, <4>3
    <3> HIDE DEF T
    <3>3. \A k \in 0..d : k \in T
      BY <1>1, <3>1, <3>2, UpToBound
    <3> QED
      BY <3>3 DEF T
  <2> QED
    <3>1. l = [k \in 0..d |-> l[k]]
      BY <1>10
    <3>2. \A k \in 0..d : l[k] \in U
      BY <2>3
    <3> QED
      BY <2>2, <3>1, <3>2
<1> QED
  BY <1>0, <1>11, <1>12 DEF d, a, Next1

Wider(q) == q \cup {c \in Candidates : \E r \in q : ReferencesArtifact(published[c], r)}

\* What is within reach, as it is defined.
LEMMA ReachIs ==
  ASSUME NEW id \in Ids
  PROVE  /\ Within(id, 0) = {id}
         /\ \A k \in Nat : k < DepthLimit => Within(id, k + 1) = Wider(Within(id, k))
         /\ \A k \in 0..DepthLimit : Within(id, k) \subseteq Ids
<1> DEFINE d == DepthLimit
           Is(f) == f = [k \in 0..d |-> IF k = 0 THEN {id} ELSE Wider(f[k - 1])]
<1>1. d \in Nat
  BY DepthLimitIsNatural
<1>2. PICK U : U = SUBSET Ids
  OBVIOUS
<1>3. PICK G : G = [q \in U |-> Wider(q)]
  OBVIOUS
<1>4. G \in [U -> U] /\ {id} \in U
  BY <1>2, <1>3 DEF Wider, Candidates
<1>5. PICK f : Iterates(f, U, {id}, G, d)
  <2>1. PICK a : a = {id}
    OBVIOUS
  <2> HIDE DEF d
  <2> QED
    BY <1>1, <1>4, <2>1, RecursionExists, Zenon
<1> HIDE DEF d
<1>6. \A k \in 1..d : f[k] = Wider(f[k - 1])
  <2> SUFFICES ASSUME NEW k \in 1..d PROVE f[k] = Wider(f[k - 1])
    OBVIOUS
  <2>1. k - 1 \in 0..d
    BY <1>1
  <2> QED
    BY <1>3, <1>5, <2>1 DEF Iterates
<1>7. Is(f)
  <2>1. \A k \in 0..d : f[k] = IF k = 0 THEN {id} ELSE Wider(f[k - 1])
    <3>1. \A k \in 0..d : k # 0 => k \in 1..d
      BY <1>1
    <3> QED
      BY <1>5, <1>6, <3>1 DEF Iterates
  <2> QED
    BY <1>5, <2>1 DEF Iterates
<1>8. PICK l : l = CHOOSE x : Is(x)
  OBVIOUS
<1>9. Is(l)
  BY <1>7, <1>8
<1>10. l = Reach(id)
  BY <1>8 DEF Reach, d, Wider
<1>11. \A k \in 0..d : l[k] = IF k = 0 THEN {id} ELSE Wider(l[k - 1])
  BY <1>9
<1>12. l[0] = {id} /\ \A k \in Nat : k < d => l[k + 1] = Wider(l[k])
  <2>1. 0 \in 0..d /\ \A k \in Nat : k < d => k + 1 # 0 /\ k + 1 \in 0..d /\ (k + 1) - 1 = k
    BY <1>1
  <2> QED
    BY <1>11, <2>1
<1>13. \A k \in 0..d : l[k] \in U
  <2> DEFINE T == {n \in Nat : l[n] \in U}
  <2>1. 0 \in T
    BY <1>4, <1>12
  <2>2. ASSUME NEW n \in Nat, n < d, n \in T PROVE n + 1 \in T
    BY <1>2, <1>12, <2>2 DEF Wider, Candidates
  <2> HIDE DEF T
  <2>3. \A k \in 0..d : k \in T
    BY <1>1, <2>1, <2>2, UpToBound
  <2> QED
    BY <2>3 DEF T
<1> QED
  BY <1>2, <1>10, <1>12, <1>13 DEF Within, d

\* What is within reach stays within reach.
LEMMA ReachGrows ==
  ASSUME NEW id \in Ids, NEW k \in 0..DepthLimit, NEW j \in 0..k
  PROVE  Within(id, j) \subseteq Within(id, k)
<1> DEFINE T == {n \in Nat : j <= n => Within(id, j) \subseteq Within(id, n)}
<1>1. DepthLimit \in Nat
  BY DepthLimitIsNatural
<1>2. 0 \in T
  <2>1. j <= 0 => j = 0
    BY <1>1
  <2> QED
    BY <2>1
<1>3. ASSUME NEW n \in Nat, n < k, n \in T PROVE n + 1 \in T
  <2>1. Within(id, n + 1) = Wider(Within(id, n))
    BY <1>1, <1>3, ReachIs
  <2>2. Within(id, n) \subseteq Within(id, n + 1)
    BY <2>1 DEF Wider
  <2>3. j <= n + 1 => j <= n \/ j = n + 1
    BY <1>1
  <2> QED
    BY <1>3, <2>2, <2>3
<1> HIDE DEF T
<1>4. \A n \in 0..k : n \in T
  BY <1>1, <1>2, <1>3, UpToBound
<1>5. k \in 0..k /\ j <= k
  BY <1>1
<1> QED
  BY <1>4, <1>5 DEF T

\* What enters the queue at level k has depth k and is within k references.
LEMMA QueuedIsReached ==
  ASSUME NEW id \in Ids, NEW depth \in 0..DepthLimit, NEW k \in 0..(DepthLimit + 1),
         NEW c \in Levels(id, depth)[k]
  PROVE  c.depth = k /\ k <= depth /\ c.id \in Within(id, k)
<1> DEFINE l == Levels(id, depth)
           T == {n \in Nat : \A x \in l[n] : x.depth = n /\ n <= depth /\ x.id \in Within(id, n)}
<1>1. DepthLimit \in Nat /\ DepthLimit + 1 \in Nat /\ depth \in Nat
  BY DepthLimitIsNatural
<1>2. 0 \in T
  <2>1. \A x \in l[0] : x = [id |-> id, depth |-> 0, path |-> {id}]
    BY <1>1, LevelsAre
  <2>2. Within(id, 0) = {id}
    BY ReachIs
  <2>3. 0 <= depth
    BY <1>1
  <2> HIDE DEF l
  <2> QED
    BY <2>1, <2>2, <2>3
<1>3. ASSUME NEW n \in Nat, n < DepthLimit + 1, n \in T PROVE n + 1 \in T
  <2> SUFFICES ASSUME NEW x \in l[n + 1]
               PROVE  x.depth = n + 1 /\ n + 1 <= depth /\ x.id \in Within(id, n + 1)
    BY DEF T
  <2>1. n + 1 \in 1..(DepthLimit + 1) /\ (n + 1) - 1 = n
    BY <1>1, <1>3
  <2>2. l[n + 1] = UNION {Followers(y) : y \in {z \in l[n] : Followed(z, depth)}}
    BY <1>1, <2>1, LevelsAre
  <2>3. PICK y \in l[n] : Followed(y, depth) /\ x \in Followers(y)
    <3> HIDE DEF l
    <3> QED
      BY <2>2
  <2>4. y.depth = n /\ n <= depth /\ y.id \in Within(id, n)
    BY <1>3, <2>3
  <2>5. n < depth /\ n < DepthLimit
    BY <1>1, <2>3, <2>4 DEF Followed
  <2>6. PICK a \in Candidates :
          /\ ReferencesArtifact(published[a], y.id)
          /\ x = [id |-> a, depth |-> y.depth + 1, path |-> y.path \cup {a}]
    BY <2>3 DEF Followers
  <2>7. Within(id, n + 1) = Wider(Within(id, n))
    BY <2>5, ReachIs
  <2>8. a \in Within(id, n + 1)
    BY <2>4, <2>6, <2>7 DEF Wider
  <2> HIDE DEF l
  <2> QED
    BY <1>1, <2>4, <2>5, <2>6, <2>8
<1> HIDE DEF T, l
<1>4. \A n \in 0..(DepthLimit + 1) : n \in T
  BY <1>1, <1>2, <1>3, UpToBound
<1> QED
  BY <1>4 DEF T, l

\* k references away from an artifact, and no fewer.
Away(id, k) == {a \in Within(id, k) : \A j \in 0..(k - 1) : a \notin Within(id, j)}

\* What is k references away enters the queue at level k, by a path within reach.
LEMMA ReachedIsQueued ==
  ASSUME NEW id \in Ids, NEW depth \in 0..DepthLimit, NEW k \in 0..depth, NEW a \in Away(id, k)
  PROVE  \E c \in Levels(id, depth)[k] : c.id = a
<1> DEFINE l == Levels(id, depth)
           T == {n \in Nat : n <= depth => \A x \in Away(id, n) : \E c \in l[n] : c.id = x /\ c.path \subseteq Within(id, n)}
<1>1. DepthLimit \in Nat /\ DepthLimit + 1 \in Nat /\ depth \in Nat /\ depth <= DepthLimit
  BY DepthLimitIsNatural
<1>2. 0 \in T
  <2>1. l[0] = {[id |-> id, depth |-> 0, path |-> {id}]}
    BY <1>1, LevelsAre
  <2>2. Within(id, 0) = {id}
    BY ReachIs
  <2>3. PICK c : c = [id |-> id, depth |-> 0, path |-> {id}]
    OBVIOUS
  <2>4. c \in l[0] /\ c.id = id /\ c.path \subseteq Within(id, 0)
    BY <2>1, <2>2, <2>3
  <2>5. \A x \in Away(id, 0) : x = id
    BY <2>2 DEF Away
  <2> HIDE DEF l
  <2> QED
    BY <2>4, <2>5
<1>3. ASSUME NEW n \in Nat, n < depth, n \in T PROVE n + 1 \in T
  <2> SUFFICES ASSUME NEW x \in Away(id, n + 1)
               PROVE  \E c \in l[n + 1] : c.id = x /\ c.path \subseteq Within(id, n + 1)
    BY DEF T
  <2>1. n + 1 \in 1..(DepthLimit + 1) /\ (n + 1) - 1 = n /\ n \in 0..n /\ n \in 0..(DepthLimit + 1)
        /\ n < DepthLimit /\ n <= depth
    BY <1>1, <1>3
  <2>2. Within(id, n + 1) = Wider(Within(id, n))
    BY <2>1, ReachIs
  <2>3. x \in Within(id, n + 1) /\ x \notin Within(id, n)
    BY <2>1 DEF Away
  <2>4. x \in Candidates
    BY <2>2, <2>3 DEF Wider
  <2>5. PICK r \in Within(id, n) : ReferencesArtifact(published[x], r)
    BY <2>2, <2>3 DEF Wider
  <2>6. r \in Away(id, n)
    <3> SUFFICES ASSUME NEW j \in 0..(n - 1), r \in Within(id, j) PROVE FALSE
      BY DEF Away
    <3>1. j \in Nat /\ j < DepthLimit /\ j + 1 \in 0..n
      BY <1>1, <2>1
    <3>2. Within(id, j + 1) = Wider(Within(id, j))
      BY <3>1, ReachIs
    <3>3. x \in Within(id, j + 1)
      BY <2>4, <2>5, <3>2 DEF Wider
    <3> QED
      BY <2>1, <3>1, <3>3 DEF Away
  <2>7. PICK c \in l[n] : c.id = r /\ c.path \subseteq Within(id, n)
    BY <1>3, <2>1, <2>6
  <2>8. c.depth = n
    BY <2>1, QueuedIsReached
  <2>9. Followed(c, depth)
    BY <1>3, <2>8 DEF Followed
  <2>10. PICK e : e = [id |-> x, depth |-> c.depth + 1, path |-> c.path \cup {x}]
    OBVIOUS
  <2>11. e \in Followers(c)
    BY <2>3, <2>4, <2>5, <2>7, <2>10 DEF Followers
  <2>12. e \in l[n + 1]
    <3>1. l[n + 1] = UNION {Followers(y) : y \in {z \in l[n] : Followed(z, depth)}}
      BY <1>1, <2>1, LevelsAre
    <3> HIDE DEF l
    <3> QED
      BY <2>7, <2>9, <2>11, <3>1
  <2>13. e.id = x /\ e.path \subseteq Within(id, n + 1)
    BY <2>2, <2>3, <2>7, <2>10 DEF Wider
  <2> HIDE DEF l
  <2> QED
    BY <2>12, <2>13
<1> HIDE DEF T, l
<1>4. \A n \in 0..depth : n \in T
  BY <1>1, <1>2, <1>3, UpToBound
<1>5. k \in T /\ k <= depth
  BY <1>1, <1>4
<1> QED
  BY <1>5 DEF T, l

Distance(id, depth, a) ==
  CHOOSE k \in 0..depth : a \in Within(id, k) /\ \A j \in 0..(k - 1) : a \notin Within(id, j)

\* What is within reach is so many references away, and no other number.
LEMMA AwayIs ==
  ASSUME NEW id \in Ids, NEW depth \in 0..DepthLimit, NEW a \in Within(id, depth)
  PROVE  \E k \in 0..depth :
           /\ a \in Away(id, k)
           /\ \A j \in 0..depth : a \in Within(id, j) => k <= j
           /\ k = Distance(id, depth, a)
<1> DEFINE S == {k \in 0..depth : a \in Within(id, k)}
           P(n) == a \in Within(id, n) /\ \A j \in 0..(n - 1) : a \notin Within(id, j)
<1>1. depth \in Nat /\ depth \in 0..depth
  BY DepthLimitIsNatural
<1>2. S \subseteq Nat /\ S # {}
  BY <1>1
<1>3. PICK k \in S : \A j \in S : k <= j
  <2> HIDE DEF S
  <2> QED
    BY <1>2, LeastNatural
<1>4. k \in 0..depth /\ P(k)
  BY <1>1, <1>3
<1>5. \A n \in 0..depth : P(n) => n = k
  <2> SUFFICES ASSUME NEW n \in 0..depth, P(n) PROVE n = k
    OBVIOUS
  <2>1. k <= n
    BY <1>3
  <2>2. ~(k < n)
    BY <1>1, <1>4
  <2> QED
    BY <1>1, <1>4, <2>1, <2>2
<1>6. k = CHOOSE n \in 0..depth : P(n)
  <2> HIDE DEF P
  <2> QED
    BY <1>4, <1>5
<1>7. \A j \in 0..depth : a \in Within(id, j) => k <= j
  BY <1>3
<1>8. k = Distance(id, depth, a)
  BY <1>6 DEF Distance
<1> QED
  BY <1>4, <1>7, <1>8 DEF Away

\* The depth a record is followed to.
Followable(record) == IF record.depth < DepthLimit THEN record.depth ELSE DepthLimit

\* What is named of a cascade, by what is queued.
LEMMA NamedAre ==
  ASSUME NEW record, record.scope # "single_artifact", record.artifact \in Ids, record.depth \in Nat,
         NEW id, id = record.artifact, NEW depth, depth = Followable(record)
  PROVE  /\ depth \in 0..DepthLimit
         /\ \A e \in CascadeRevocation(record) :
              \E k \in 0..(DepthLimit + 1) : \E c \in Levels(id, depth)[k] :
                /\ e = [id |-> c.id, depth |-> c.depth]
                /\ \A j \in 0..(DepthLimit + 1) : \A x \in Levels(id, depth)[j] : x.id = c.id => c.depth <= x.depth
         /\ \A k \in 0..(DepthLimit + 1) : \A c \in Levels(id, depth)[k] :
              (\A j \in 0..(DepthLimit + 1) : \A x \in Levels(id, depth)[j] : x.id = c.id => c.depth <= x.depth)
                => [id |-> c.id, depth |-> c.depth] \in CascadeRevocation(record)
<1>1. DepthLimit \in Nat /\ depth \in 0..DepthLimit /\ depth \in Nat
  BY DepthLimitIsNatural DEF Followable
<1>2. DOMAIN Levels(id, depth) = 0..(DepthLimit + 1)
  BY <1>1, LevelsAre
<1>3. PICK q : q = Queued(id, depth)
  OBVIOUS
<1>4. \A c : c \in q <=> \E k \in 0..(DepthLimit + 1) : c \in Levels(id, depth)[k]
  BY <1>2, <1>3 DEF Queued
<1>5. CascadeRevocation(record) =
        {[id |-> c.id, depth |-> c.depth] : c \in {c \in q : \A x \in q : x.id = c.id => c.depth <= x.depth}}
  BY <1>3 DEF CascadeRevocation, Followable
<1> QED
  BY <1>1, <1>4, <1>5

LEMMA CascadesReach ==
  ASSUME Founded
  PROVE  CascadeIsReach
<1> SUFFICES ASSUME NEW id \in Ids, records[id] # None, records[id].scope = "cascade_to_dependents",
                    NEW depth, depth = Followable(records[id])
             PROVE  CascadeRevocation(records[id]) =
                      {[id |-> a, depth |-> CHOOSE k \in 0..depth :
                                              a \in Within(id, k) /\ \A j \in 0..(k - 1) : a \notin Within(id, j)]
                         : a \in Within(id, depth)}
  BY DEF CascadeIsReach, Followable
<1> DEFINE Far(a) == Distance(id, depth, a)
           l == Levels(id, depth)
           N == DepthLimit + 1
           First(c) == \A j \in 0..N : \A x \in l[j] : x.id = c.id => c.depth <= x.depth
<1>1. PICK record : record = records[id]
  OBVIOUS
<1>2. record.scope # "single_artifact" /\ record.artifact = id /\ record.depth \in Nat
  BY <1>1 DEF Founded
<1>3. depth \in 0..DepthLimit
  BY <1>1, <1>2, NamedAre
<1>4. \A e \in CascadeRevocation(record) :
        \E k \in 0..N : \E c \in l[k] : e = [id |-> c.id, depth |-> c.depth] /\ First(c)
  BY <1>1, <1>2, NamedAre
<1>5. \A k \in 0..N : \A c \in l[k] : First(c) => [id |-> c.id, depth |-> c.depth] \in CascadeRevocation(record)
  BY <1>1, <1>2, NamedAre
<1>6. DepthLimit \in Nat /\ depth \in 0..N /\ depth \in Nat
      /\ \A k \in 0..depth : k \in 0..N /\ k \in 0..DepthLimit
  BY <1>3, DepthLimitIsNatural
<1>7. \A k \in 0..N : \A c \in l[k] : c.depth = k /\ k \in 0..depth /\ c.id \in Within(id, k)
  <2>1. \A k \in 0..N : \A c \in l[k] : c.depth = k /\ k <= depth /\ c.id \in Within(id, k)
    BY <1>3, QueuedIsReached
  <2> QED
    BY <1>6, <2>1
<1>8. \A a \in Within(id, depth) : \E k \in 0..depth :
        /\ \E c \in l[k] : c.id = a
        /\ \A j \in 0..depth : a \in Within(id, j) => k <= j
        /\ k = Far(a)
  <2> SUFFICES ASSUME NEW a \in Within(id, depth)
               PROVE  \E k \in 0..depth :
                        /\ \E c \in l[k] : c.id = a
                        /\ \A j \in 0..depth : a \in Within(id, j) => k <= j
                        /\ k = Far(a)
    OBVIOUS
  <2>1. PICK k \in 0..depth : /\ a \in Away(id, k)
                              /\ \A j \in 0..depth : a \in Within(id, j) => k <= j
                              /\ k = Far(a)
    BY <1>3, AwayIs
  <2>2. \E c \in l[k] : c.id = a
    BY <1>3, <2>1, ReachedIsQueued
  <2> QED
    BY <2>1, <2>2
<1>9. \A k \in 0..depth : Within(id, k) \subseteq Within(id, depth)
  BY <1>3, <1>6, ReachGrows
<1> HIDE DEF Far, l, N, First
<1>10. ASSUME NEW e \in CascadeRevocation(record)
       PROVE  e \in {[id |-> a, depth |-> Far(a)] : a \in Within(id, depth)}
  <2>0. PICK k \in 0..N : \E c \in l[k] : e = [id |-> c.id, depth |-> c.depth] /\ First(c)
    BY <1>4
  <2>1. PICK c \in l[k] : e = [id |-> c.id, depth |-> c.depth] /\ First(c)
    BY <2>0
  <2>2. c.depth = k /\ k \in 0..depth /\ c.id \in Within(id, k) /\ c.id \in Within(id, depth)
    BY <1>7, <1>9
  <2>3. PICK f \in 0..depth : /\ \E x \in l[f] : x.id = c.id
                              /\ \A j \in 0..depth : c.id \in Within(id, j) => f <= j
                              /\ f = Far(c.id)
    BY <1>8, <2>2
  <2>4. PICK x \in l[f] : x.id = c.id
    BY <2>3
  <2>5. x.depth = f
    BY <1>6, <1>7
  <2>6. c.depth <= x.depth
    BY <1>6, <2>1, <2>4 DEF First
  <2>7. f <= k
    BY <2>2, <2>3
  <2>8. c.depth = f
    BY <1>6, <2>2, <2>5, <2>6, <2>7
  <2> QED
    BY <2>1, <2>2, <2>3, <2>8
<1>11. ASSUME NEW a \in Within(id, depth)
       PROVE  [id |-> a, depth |-> Far(a)] \in CascadeRevocation(record)
  <2>1. PICK k \in 0..depth : /\ \E c \in l[k] : c.id = a
                              /\ \A j \in 0..depth : a \in Within(id, j) => k <= j
                              /\ k = Far(a)
    BY <1>8
  <2>2. PICK c \in l[k] : c.id = a
    BY <2>1
  <2>3. c.depth = k /\ k \in 0..N
    BY <1>6, <1>7
  <2>4. First(c)
    <3> SUFFICES ASSUME NEW j \in 0..N, NEW x \in l[j], x.id = c.id PROVE c.depth <= x.depth
      BY DEF First
    <3>1. x.depth = j /\ j \in 0..depth /\ a \in Within(id, j)
      BY <1>7, <2>2
    <3> QED
      BY <2>1, <2>3, <3>1
  <2> QED
    BY <1>5, <2>1, <2>2, <2>3, <2>4
<1>12. CascadeRevocation(record) = {[id |-> a, depth |-> Far(a)] : a \in Within(id, depth)}
  BY <1>10, <1>11
<1> QED
  BY <1>1, <1>12 DEF Far, Distance

\* A cascade names every artifact that depends on the revoked one within the
\* depth of the record and nothing else, each once and at its distance.
THEOREM CascadesAreReach == Spec => []CascadeIsReach
  BY EvidenceIsFounded, CascadesReach, PTL

\* What is named at distance one refers to the revoked artifact.
LEMMA NamedNextRefers ==
  ASSUME Founded, NEW id \in Ids, records[id] # None,
         NEW e \in CascadeRevocation(records[id]), e.depth = 1
  PROVE  e.id \in Candidates /\ ReferencesArtifact(published[e.id], id)
<1>1. PICK record : record = records[id]
  OBVIOUS
<1>2. record.artifact = id /\ record.depth \in Nat
  BY <1>1 DEF Founded
<1>3. record.scope # "single_artifact"
  BY <1>1 DEF CascadeRevocation
<1>4. PICK depth : depth = Followable(record)
  OBVIOUS
<1>0. PICK k \in 0..(DepthLimit + 1) :
        \E c \in Levels(id, depth)[k] : e = [id |-> c.id, depth |-> c.depth]
  BY <1>1, <1>2, <1>3, <1>4, NamedAre
<1>5. PICK c \in Levels(id, depth)[k] : e = [id |-> c.id, depth |-> c.depth]
  BY <1>0
<1>6. depth \in 0..DepthLimit /\ DepthLimit \in Nat /\ depth \in Nat
  BY <1>2, <1>3, <1>4, NamedAre, DepthLimitIsNatural
<1>7. k = 1 /\ e.id = c.id
  <2>1. c.depth = k
    BY <1>5, <1>6, QueuedIsReached
  <2> QED
    BY <1>5, <2>1
<1>8. 1 \in 1..(DepthLimit + 1) /\ 1 - 1 = 0
  BY <1>6
<1>9. PICK x \in Levels(id, depth)[0] : c \in Followers(x)
  <2>1. Levels(id, depth)[1] =
          UNION {Followers(y) : y \in {z \in Levels(id, depth)[0] : Followed(z, depth)}}
    BY <1>6, <1>8, LevelsAre
  <2>2. c \in Levels(id, depth)[1]
    BY <1>5, <1>7
  <2> QED
    BY <2>1, <2>2
<1>10. x = [id |-> id, depth |-> 0, path |-> {id}]
  BY <1>6, <1>9, LevelsAre
<1> QED
  BY <1>7, <1>9, <1>10 DEF Followers

\* What refers to an artifact whose record has taken effect, in the copy that is judged, is refused.
LEMMA ReferrerRefused ==
  ASSUME NEW id \in Ids, records[id] # None, records[id].effective <= now,
         NEW a \in Predicates \cup Receipts, ReferencesArtifact(Judged(a), id)
  PROVE  Verdict(a) # "valid"
<1>1. PICK doc : doc = Judged(a)
  OBVIOUS
<1>2. FindRevocation(doc.references, now)
  BY <1>1 DEF ReferencesArtifact, FindRevocation, Effective
<1>3. JudgePredicate(doc, TRUE) # "valid" /\ VerifyApprovalReceipt(doc) # "valid"
  BY <1>2 DEF JudgePredicate, VerifyApprovalReceipt
<1>4. CASE a \in Predicates
  <2>1. doc = Resolved(a, cache)
    BY <1>1, <1>4 DEF Judged
  <2>2. VerifyPredicate(a).verdict \in {"unresolved", JudgePredicate(doc, TRUE)}
    BY <2>1 DEF VerifyPredicate
  <2> QED
    BY <1>3, <1>4, <2>2 DEF Verdict
<1>5. CASE a \notin Predicates
  <2>1. doc = published[a]
    BY <1>1, <1>5 DEF Judged
  <2> QED
    BY <1>3, <1>5, <2>1 DEF Verdict
<1> QED
  BY <1>4, <1>5

\* From the instant a record takes effect the verifiers refuse what refers to
\* the revoked artifact in the copy they judge, and so whatever the cascade
\* names at distance one, but for a kept copy that does not refer to it.
THEOREM DependentsStayRefused == Spec => []DependentsRefused
<1>1. Founded => DependentsRefused
  <2> SUFFICES ASSUME Founded, NEW id \in Ids, records[id] # None, records[id].effective <= now
               PROVE  /\ \A a \in Predicates \cup Receipts :
                           Judged(a) # None /\ ReferencesArtifact(Judged(a), id) => Verdict(a) # "valid"
                      /\ \A e \in CascadeRevocation(records[id]) :
                           e.depth = 1 /\ e.id \notin Attested /\ Verdict(e.id) = "valid" =>
                             /\ e.id \in Predicates /\ cache[e.id] # None
                             /\ ~ReferencesArtifact(cache[e.id], id)
    BY DEF DependentsRefused
  <2>1. \A a \in Predicates \cup Receipts : ReferencesArtifact(Judged(a), id) => Verdict(a) # "valid"
    BY ReferrerRefused
  <2>2. ASSUME NEW e \in CascadeRevocation(records[id]),
               e.depth = 1, e.id \notin Attested, Verdict(e.id) = "valid"
        PROVE  /\ e.id \in Predicates /\ cache[e.id] # None
               /\ ~ReferencesArtifact(cache[e.id], id)
    <3>1. PICK a : a = e.id
      OBVIOUS
    <3>2. a \in Candidates /\ ReferencesArtifact(published[a], id)
      BY <2>2, <3>1, NamedNextRefers
    <3>3. a \in Predicates \cup Receipts
      BY <2>2, <3>1, <3>2 DEF Candidates, Ids, Founded
    <3>4. ~ReferencesArtifact(Judged(a), id)
      BY <2>1, <2>2, <3>1, <3>3
    <3>5. Judged(a) # published[a]
      BY <3>2, <3>4
    <3>6. a \in Predicates /\ cache[a] # None /\ Judged(a) = cache[a]
      BY <3>5 DEF Judged, Resolved
    <3> QED
      BY <3>1, <3>4, <3>6
  <2> QED
    BY <2>1, <2>2
<1> QED
  BY <1>1, EvidenceIsFounded, PTL

(***************************************************************************)
(* What a holder makes of its attestations                                 *)
(***************************************************************************)

Fields == {"kind", "id", "session", "parties", "version", "outcome", "timestamp", "from", "until",
           "references", "fulfillment", "records", "countersignatures"}

\* An attestation as it was issued of a session.
IssuedOf(att, session) ==
  /\ att = [f \in Fields |-> att[f]]
  /\ att.session = session.id /\ att.parties = session.parties /\ att.outcome = session.state
  /\ att.timestamp \in Nat /\ att.from \in Nat /\ att.until \in Nat
  /\ att.records = [p \in att.parties |-> "issued"]
  /\ att.countersignatures = [p \in att.parties |-> Payload(att)]

\* The countersignatures are not part of what they cover.
LEMMA PayloadLeavesOut ==
  ASSUME NEW att, DOMAIN att = Fields, NEW signatures
  PROVE  Payload([att EXCEPT !.countersignatures = signatures]) = Payload(att)
<1>1. PICK new : new = [att EXCEPT !.countersignatures = signatures]
  OBVIOUS
<1>2. DOMAIN new = Fields /\ \A f \in Fields : f # "countersignatures" => new[f] = att[f]
  BY <1>1
<1>3. new.parties = att.parties /\ new.records = att.records
  BY <1>2 DEF Fields
<1>4. Content(new) = Content(att)
  BY <1>2 DEF Content
<1> QED
  BY <1>1, <1>3, <1>4 DEF Payload

LEMMA GeneratedIs ==
  ASSUME NEW id, NEW session, NEW from \in Nat, NEW until \in Nat, NEW refs, NEW time \in Nat
  PROVE  IssuedOf(GenerateAttestation(id, session, from, until, refs, time), session)
<1>1. PICK att : att = [kind |-> "attestation", id |-> id, session |-> session.id, parties |-> session.parties,
              version |-> AttestationVersion, outcome |-> session.state, timestamp |-> time,
              from |-> from, until |-> until, references |-> refs, fulfillment |-> None,
              records |-> [p \in session.parties |-> "issued"], countersignatures |-> <<>>]
  OBVIOUS
<1>2. PICK signatures : signatures = [p \in session.parties |-> Payload(att)]
  OBVIOUS
<1>3. PICK new : new = [att EXCEPT !.countersignatures = signatures]
  OBVIOUS
<1>4. new = GenerateAttestation(id, session, from, until, refs, time)
  BY <1>1, <1>2, <1>3 DEF GenerateAttestation, Countersign
<1>5. DOMAIN att = Fields
  BY <1>1 DEF Fields
<1>6. Payload(new) = Payload(att)
  BY <1>3, <1>5, PayloadLeavesOut
<1>7. DOMAIN new = Fields /\ new.countersignatures = signatures /\ new = [f \in Fields |-> new[f]]
  BY <1>3, <1>5 DEF Fields
<1>8. /\ new.session = session.id /\ new.parties = session.parties /\ new.outcome = session.state
      /\ new.timestamp = time /\ new.from = from /\ new.until = until
  BY <1>1, <1>3
<1>9. new.records = [p \in session.parties |-> "issued"]
  BY <1>1, <1>3
<1> QED
  BY <1>2, <1>4, <1>6, <1>7, <1>8, <1>9 DEF IssuedOf

\* What was issued was issued of a session that was concluded.
LEMMA IssuedAre ==
  ASSUME Founded, NEW i \in Issued
  PROVE  \E session \in Concluded : IssuedOf(i, session)
<1>1. PICK a \in Attested : published[a] # None /\ i = published[a]
  BY DEF Issued
<1>2. Generated(a, i)
  BY <1>1 DEF Founded
<1> QED
  BY <1>2, GeneratedIs DEF Generated

\* att has the fields of an attestation, and a record for each of its parties.
Shaped(att) == att = [f \in Fields |-> att[f]] /\ att.records = [p \in att.parties |-> att.records[p]]

\* Changing one thing leaves the parties and the signatures as they are.
LEMMA EditedKeeps ==
  ASSUME NEW i, Shaped(i), NEW form \in Edited(i)
  PROVE  Shaped(form) /\ form.parties = i.parties /\ form.countersignatures = i.countersignatures
<1> DEFINE Keeps(x) == /\ x = [f \in Fields |-> x[f]] /\ x.parties = i.parties
                       /\ x.countersignatures = i.countersignatures
                       /\ x.records = [p \in i.parties |-> x.records[p]]
<1>0. DOMAIN i = Fields /\ i = [f \in Fields |-> i[f]] /\ i.records = [p \in i.parties |-> i.records[p]]
  BY DEF Shaped
<1>1. Keeps([i EXCEPT !.outcome = "agreed"])
  BY <1>0 DEF Fields
<1>2. Keeps(ApplyDisputeResolved(i))
  BY <1>0 DEF Fields, ApplyDisputeResolved
<1>3. \A v : Keeps([i EXCEPT !.version = v])
  BY <1>0 DEF Fields
<1>4. Keeps([i EXCEPT !.from = now, !.until = now + MaxAge])
  BY <1>0 DEF Fields
<1>5. Keeps([i EXCEPT !.timestamp = now])
  BY <1>0 DEF Fields
<1>6. \A v : Keeps([i EXCEPT !.session = v]) /\ Keeps([i EXCEPT !.id = v])
  BY <1>0 DEF Fields
<1>7. \A p, r : Keeps([i EXCEPT !.records[p] = r])
  BY <1>0 DEF Fields
<1> HIDE DEF Keeps
<1>8. Keeps(form)
  <2> DEFINE spoilt == {[i EXCEPT !.records[p] = r] : p \in i.parties, r \in {"resigned", "altered", "swapped", "unsigned"}}
             versions == {[i EXCEPT !.version = v] : v \in OtherVersions}
             ids == {[i EXCEPT !.id = id] : id \in CommittedIds}
             sessions == {[i EXCEPT !.session = session.id] : session \in Concluded}
  <2>1. \A x \in spoilt : Keeps(x)
    BY <1>7
  <2>2. \A x \in versions : Keeps(x)
    BY <1>3
  <2>3. \A x \in ids \cup sessions : Keeps(x)
    BY <1>6
  <2>4. \/ form \in spoilt \/ form \in versions \/ form \in ids \cup sessions
        \/ form \in {[i EXCEPT !.outcome = "agreed"]} \cup {x \in {ApplyDisputeResolved(i)} : CanMediate(i)}
        \/ form \in {[i EXCEPT !.from = now, !.until = now + MaxAge], [i EXCEPT !.timestamp = now]}
    BY DEF Edited
  <2>5. \A x \in {[i EXCEPT !.outcome = "agreed"]} \cup {y \in {ApplyDisputeResolved(i)} : CanMediate(i)} : Keeps(x)
    BY <1>1, <1>2
  <2>6. \A x \in {[i EXCEPT !.from = now, !.until = now + MaxAge], [i EXCEPT !.timestamp = now]} : Keeps(x)
    BY <1>4, <1>5
  <2> HIDE DEF spoilt, versions, ids, sessions
  <2> QED
    BY <2>1, <2>2, <2>3, <2>4, <2>5, <2>6, ZenonT(30)
<1> QED
  BY <1>8 DEF Keeps, Shaped

LEMMA AmongKeeps ==
  ASSUME NEW i, Shaped(i), NEW parties, NEW record, NEW form, form = Among(i, parties, record)
  PROVE  Shaped(form) /\ form.countersignatures = i.countersignatures
<1>1. PICK kept : kept = [p \in parties |-> IF p \in i.parties THEN i.records[p] ELSE record]
  OBVIOUS
<1>2. form = [i EXCEPT !.parties = parties, !.records = kept]
  BY <1>1 DEF Among
<1>3. DOMAIN i = Fields /\ i = [f \in Fields |-> i[f]]
  BY DEF Shaped
<1>4. /\ form = [f \in Fields |-> form[f]] /\ form.parties = parties /\ form.records = kept
      /\ form.countersignatures = i.countersignatures
  BY <1>2, <1>3 DEF Fields
<1> QED
  BY <1>1, <1>4 DEF Shaped

\* Whatever is changed, the signatures of the others remain as they are.
LEMMA AlteredKeeps ==
  ASSUME NEW i, Shaped(i), NEW holder, NEW form \in Altered(i, holder)
  PROVE  Shaped(form) /\ form.countersignatures = i.countersignatures
<1>1. PICK alone : alone = Among(i, {holder}, "resigned")
  OBVIOUS
<1>2. Shaped(alone) /\ alone.countersignatures = i.countersignatures
  BY <1>1, AmongKeeps
<1>3. form \in Edited(i) \/ form \in Edited(alone) \/ \E parties, record : form = Among(i, parties, record)
  BY <1>1 DEF Altered
<1> QED
  BY <1>2, <1>3, EditedKeeps, AmongKeeps

\* The others' countersignatures cover what was issued.
OthersSigned(att, i, holder) ==
  /\ att.countersignatures = [p \in DOMAIN att.countersignatures |-> att.countersignatures[p]]
  /\ DOMAIN att.countersignatures \subseteq att.parties
  /\ \A p \in DOMAIN att.countersignatures \ {holder} : att.countersignatures[p] = Payload(i)

LEMMA VariantKeeps ==
  ASSUME NEW i, NEW session, IssuedOf(i, session), NEW holder, NEW att \in Variants(i, holder)
  PROVE  Shaped(att) /\ OthersSigned(att, i, holder)
<1>1. PICK form \in Altered(i, holder) : att = Recountersigned(form, holder)
  BY DEF Variants
<1>2. Shaped(form) /\ form.countersignatures = i.countersignatures
  <2>1. Shaped(i)
    BY DEF IssuedOf, Shaped
  <2> QED
    BY <1>1, <2>1, AlteredKeeps
<1>3. PICK S : S = form.parties \cap (i.parties \cup {holder})
  OBVIOUS
<1>4. PICK signatures : signatures = [p \in S |-> IF p = holder THEN Payload(form) ELSE i.countersignatures[p]]
  OBVIOUS
<1>5. DOMAIN i.countersignatures = i.parties /\ \A p \in i.parties : i.countersignatures[p] = Payload(i)
  BY DEF IssuedOf
<1>6. att = [form EXCEPT !.countersignatures = signatures]
  BY <1>1, <1>2, <1>3, <1>4, <1>5 DEF Recountersigned
<1>7. DOMAIN form = Fields /\ form.records = [p \in form.parties |-> form.records[p]]
  BY <1>2 DEF Shaped
<1>8. /\ att = [f \in Fields |-> att[f]] /\ att.parties = form.parties
      /\ att.countersignatures = signatures /\ att.records = form.records
  BY <1>6, <1>7 DEF Fields
<1>9. Shaped(att)
  BY <1>7, <1>8 DEF Shaped
<1>10. OthersSigned(att, i, holder)
  <2>1. DOMAIN signatures = S /\ signatures = [p \in S |-> signatures[p]]
    BY <1>4
  <2>2. \A p \in S \ {holder} : signatures[p] = Payload(i)
    BY <1>3, <1>4, <1>5
  <2>3. S \subseteq att.parties
    BY <1>3, <1>8
  <2> QED
    BY <1>8, <2>1, <2>2, <2>3 DEF OthersSigned
<1> QED
  BY <1>9, <1>10

\* Equal payloads are of equal content.
LEMMA PayloadTells ==
  ASSUME NEW x, NEW y, DOMAIN x = Fields, DOMAIN y = Fields, Payload(x) = Payload(y)
  PROVE  /\ \A f \in Fields \ {"countersignatures", "records"} : x[f] = y[f]
         /\ {p \in x.parties : x.records[p] \in {"resigned", "altered"}}
              = {p \in y.parties : y.records[p] \in {"resigned", "altered"}}
<1>1. Content(x) = Content(y)
  BY DEF Payload
<1>2. \A f \in Fields \ {"countersignatures", "records"} : Content(x)[f] = x[f] /\ Content(y)[f] = y[f]
  BY DEF Content
<1> QED
  BY <1>1, <1>2 DEF Payload

\* What a holder has of an attestation i.
Held(att, i, holder) == att = i \/ att \in Variants(i, holder)

\* What every party signed, the holder and others, is what was issued.
LEMMA SignedIsIssued ==
  ASSUME Founded, NEW holder \in Agents, NEW i \in Issued, NEW att, Held(att, i, holder), NEW keys,
         \A p \in att.parties : p \in DOMAIN att.countersignatures /\ VerifyCountersignature(att, p, keys),
         \E p \in att.parties : p # holder
  PROVE  /\ Payload(att) = Payload(i) /\ Shaped(att)
         /\ \E session \in Concluded : IssuedOf(i, session)
<1>1. PICK session \in Concluded : IssuedOf(i, session)
  BY IssuedAre
<1>2. PICK p \in att.parties : p # holder
  OBVIOUS
<1>3. CASE att = i
  BY <1>1, <1>3 DEF IssuedOf, Shaped
<1>4. CASE att \in Variants(i, holder)
  <2>1. Shaped(att) /\ OthersSigned(att, i, holder)
    BY <1>1, <1>4, VariantKeeps
  <2>2. att.countersignatures[p] = Payload(i)
    BY <1>2, <2>1 DEF OthersSigned
  <2>3. att.countersignatures[p] = Payload(att)
    BY <1>2 DEF VerifyCountersignature
  <2> QED
    BY <1>1, <2>1, <2>2, <2>3
<1> QED
  BY <1>3, <1>4 DEF Held

\* What verify_attestation accepts at the current version has passed every check.
LEMMA AcceptedHas ==
  ASSUME NEW att, NEW keys, NEW session, NEW parties, NEW time, NEW checked,
         NEW result, result = VerifyAttestation(att, keys, session, parties, time, checked),
         result.valid, result.terminal # "legacy"
  PROVE  /\ StructureHolds(att)
         /\ \A p \in att.parties : VerifyCountersignature(att, p, keys)
         /\ Timely(att, time)
         /\ checked # "revoked" /\ att.session = session
         /\ result.terminal = "current" => checked = "clear"
<1>1. PICK terminal : terminal = VerifyArtifact(att, keys, session, parties, time, checked)
  OBVIOUS
<1>2. result.terminal = terminal /\ terminal \in {"current", "bound-only"}
  BY <1>1 DEF VerifyAttestation
<1>3. terminal # "not-bound"
  BY <1>2
<1> QED
  BY <1>1, <1>2, <1>3 DEF VerifyArtifact

LEMMA TwoAreNotOne ==
  ASSUME NEW S, Cardinality(S) >= 2, NEW x
  PROVE  \E y \in S : y # x
<1> SUFFICES ASSUME \A y \in S : y = x PROVE FALSE
  OBVIOUS
<1>1. S = {} \/ S = {x}
  OBVIOUS
<1>2. Cardinality({}) = 0 /\ Cardinality({x}) = 1
  BY FS_EmptySet, FS_Singleton
<1> QED
  BY <1>1, <1>2

LEMMA AcceptedAreFresh ==
  ASSUME Founded
  PROVE  AcceptedIsFresh
<1> SUFFICES ASSUME NEW holder \in Agents, NEW session \in Concluded, NEW informed \in BOOLEAN,
                    NEW att \in Issued \cup UNION {Variants(i, holder) : i \in Issued},
                    NEW result,
                    result = VerifyAttestation(att, Agents, session.id, session.parties, now, Checked(att, informed)),
                    result.valid, result.terminal # "legacy"
             PROVE  /\ \E i \in Issued : Payload(att) = Payload(i)
                    /\ att.session = session.id /\ att.outcome = session.state
                    /\ att.from <= now /\ now <= att.until
                    /\ now - att.timestamp <= MaxAge /\ att.timestamp - now <= Skew
                    /\ result.terminal = "current" => ~FindRevocation(<<[id |-> att.id]>>, now)
  BY DEF AcceptedIsFresh
<1>1. PICK i \in Issued : Held(att, i, holder)
  BY DEF Held
<1>2. /\ StructureHolds(att)
      /\ \A p \in att.parties : VerifyCountersignature(att, p, Agents)
      /\ Timely(att, now)
      /\ Checked(att, informed) # "revoked" /\ att.session = session.id
      /\ result.terminal = "current" => Checked(att, informed) = "clear"
  BY AcceptedHas
<1>3. /\ Payload(att) = Payload(i) /\ Shaped(att)
      /\ \E s \in Concluded : IssuedOf(i, s)
  <2>1. \E p \in att.parties : p # holder
    <3>1. Cardinality(att.parties) >= 2
      BY <1>2 DEF StructureHolds
    <3> QED
      BY <3>1, TwoAreNotOne
  <2>2. \A p \in att.parties : p \in DOMAIN att.countersignatures /\ VerifyCountersignature(att, p, Agents)
    BY <1>2 DEF StructureHolds
  <2> QED
    BY <1>1, <2>1, <2>2, SignedIsIssued
<1>4. PICK s \in Concluded : IssuedOf(i, s)
  BY <1>3
<1>5. /\ att.session = i.session /\ att.outcome = i.outcome /\ att.timestamp = i.timestamp
      /\ att.from = i.from /\ att.until = i.until
  <2>1. DOMAIN i = Fields /\ DOMAIN att = Fields
    BY <1>3, <1>4 DEF IssuedOf, Shaped
  <2>2. \A f \in Fields \ {"countersignatures", "records"} : att[f] = i[f]
    BY <1>3, <2>1, PayloadTells
  <2> QED
    BY <2>2 DEF Fields
<1>6. s = session
  <2>1. s.id = session.id
    BY <1>2, <1>4, <1>5 DEF IssuedOf
  <2>2. \A x, y \in Concluded : x.id = y.id => x = y
    BY ArtifactsAssumption
  <2> QED
    BY <2>1, <2>2
<1>7. att.outcome = session.state
  BY <1>4, <1>5, <1>6 DEF IssuedOf
<1>8. /\ att.from <= now /\ now <= att.until
      /\ now - att.timestamp <= MaxAge /\ att.timestamp - now <= Skew
  <2>1. /\ att.from \in Nat /\ att.until \in Nat /\ att.timestamp \in Nat /\ now \in Nat /\ MaxAge \in Nat /\ Skew \in Nat
    BY <1>4, <1>5, AttestationsAssumption DEF IssuedOf, Founded
  <2> QED
    BY <1>2, <2>1 DEF Timely, EvidenceAnchor
<1>9. result.terminal = "current" => ~FindRevocation(<<[id |-> att.id]>>, now)
  BY <1>2 DEF Checked
<1> QED
  BY <1>1, <1>2, <1>3, <1>7, <1>8, <1>9

\* Whatever its holder changed, an attestation is accepted at the current
\* version only as it was issued, for its session and parties, in its window,
\* while its evidence is young enough, and not when it is known to be revoked.
THEOREM AcceptedStaysFresh == Spec => []AcceptedIsFresh
  BY EvidenceIsFounded, AcceptedAreFresh, PTL

(***************************************************************************)
(* Bundles                                                                 *)
(***************************************************************************)

\* What a holder shows are attestations it has.
LEMMA ShownAreHeld ==
  ASSUME NEW holder, NEW atts \in Shown(holder), NEW n \in DOMAIN atts
  PROVE  \E i \in Issued : Held(atts[n], i, holder)
<1> DEFINE issued == UNION {[1..k -> Issued] : k \in 0..MaxShown}
<1>1. CASE atts \in issued
  BY <1>1 DEF Held
<1>2. ASSUME NEW old \in issued, NEW k \in DOMAIN old, NEW form \in Variants(old[k], holder),
             atts = [old EXCEPT ![k] = form]
      PROVE  \E i \in Issued : Held(atts[n], i, holder)
  <2>1. n \in DOMAIN old /\ old[n] \in Issued /\ old[k] \in Issued
    BY <1>2
  <2>2. CASE n = k
    BY <1>2, <2>1, <2>2 DEF Held
  <2>3. CASE n # k
    BY <1>2, <2>1, <2>3 DEF Held
  <2> QED
    BY <2>2, <2>3
<1> HIDE DEF issued
<1>3. atts \in issued \cup UNION {UNION {{[old EXCEPT ![k] = form] : form \in Variants(old[k], holder)}
                                  : k \in DOMAIN old} : old \in issued}
  BY DEF Shown, issued
<1> QED
  BY <1>1, <1>2, <1>3

\* What is held, with the signatures of all and the records of all whose keys are known, is what
\* was issued or names nobody but the holder.
LEMMA CreditedIsIssued ==
  ASSUME Founded, NEW holder \in Agents, NEW i \in Issued, NEW att, Held(att, i, holder),
         NEW keys, OutcomeBound(att, keys) = "bound", RecordsHold(att, keys)
  PROVE  att = i \/ att.parties = {holder}
<1> SUFFICES ASSUME att.parties # {holder} PROVE att = i
  OBVIOUS
<1>1. /\ att.parties # {}
      /\ \A p \in att.parties : p \in DOMAIN att.countersignatures /\ VerifyCountersignature(att, p, keys)
  BY DEF OutcomeBound
<1>2. \E p \in att.parties : p # holder
  BY <1>1
<1>3. /\ Payload(att) = Payload(i) /\ Shaped(att)
      /\ \E session \in Concluded : IssuedOf(i, session)
  BY <1>1, <1>2, SignedIsIssued
<1>4. PICK session \in Concluded : IssuedOf(i, session)
  BY <1>3
<1>5. /\ DOMAIN i = Fields /\ DOMAIN att = Fields
      /\ \A f \in Fields \ {"countersignatures", "records"} : att[f] = i[f]
      /\ {p \in att.parties : att.records[p] \in {"resigned", "altered"}}
           = {p \in i.parties : i.records[p] \in {"resigned", "altered"}}
  <2>1. DOMAIN i = Fields /\ DOMAIN att = Fields
    BY <1>3, <1>4 DEF IssuedOf, Shaped
  <2> QED
    BY <1>3, <2>1, PayloadTells
<1>6. att.parties = i.parties
  BY <1>5 DEF Fields
<1>7. \A p \in att.parties : att.records[p] = "issued"
  <2>1. \A p \in att.parties : att.records[p] \in {"issued", "resigned"}
    BY <1>1 DEF RecordsHold, VerifyCountersignature
  <2>2. \A p \in i.parties : i.records[p] = "issued"
    BY <1>4, <1>6 DEF IssuedOf
  <2> QED
    BY <1>5, <2>1, <2>2
<1>8. att.records = i.records
  <2>1. att.records = [p \in att.parties |-> att.records[p]]
    BY <1>3 DEF Shaped
  <2>2. att.records = [p \in att.parties |-> "issued"]
    BY <1>7, <2>1
  <2> QED
    BY <1>4, <1>6, <2>2 DEF IssuedOf
<1>9. CASE att \in Variants(i, holder)
  <2>1. /\ att.countersignatures = [p \in DOMAIN att.countersignatures |-> att.countersignatures[p]]
        /\ DOMAIN att.countersignatures = att.parties
    <3>1. OthersSigned(att, i, holder)
      BY <1>4, <1>9, VariantKeeps
    <3>2. PICK S : S = DOMAIN att.countersignatures
      OBVIOUS
    <3>3. S \subseteq att.parties /\ att.parties \subseteq S
      BY <1>1, <3>1, <3>2 DEF OthersSigned
    <3> QED
      BY <3>1, <3>2, <3>3 DEF OthersSigned
  <2>2. \A p \in att.parties : att.countersignatures[p] = Payload(i)
    BY <1>1, <1>3 DEF VerifyCountersignature
  <2>3. att.countersignatures = [p \in att.parties |-> Payload(i)]
    BY <2>1, <2>2
  <2>4. att.countersignatures = i.countersignatures
    BY <1>4, <1>6, <2>3 DEF IssuedOf
  <2>5. \A f \in Fields : att[f] = i[f]
    BY <1>5, <1>8, <2>4
  <2>6. i = [f \in Fields |-> i[f]] /\ att = [f \in Fields |-> att[f]]
    BY <1>3, <1>4 DEF IssuedOf, Shaped
  <2> QED
    BY <2>5, <2>6
<1> QED
  BY <1>9 DEF Held

LEMMA CreditsAreCountersigned ==
  ASSUME Founded
  PROVE  CreditIsCountersigned
<1> SUFFICES ASSUME NEW holder \in Agents, NEW keys \in {Agents, {holder}}, NEW atts \in Shown(holder),
                    NEW bundle, bundle = CreateBundle(holder, atts),
                    VerifyBundle(bundle, keys).valid
             PROVE  /\ \A att \in VerifyBundle(bundle, keys).credited : att \in Issued \/ att.parties = {holder}
                    /\ \A x, y \in VerifyBundle(bundle, keys).credited :
                         x.session = y.session \/ x.id = y.id => x = y
  BY ZenonT(30) DEF CreditIsCountersigned
<1>1. bundle.attestations = atts
  BY DEF CreateBundle
<1>2. /\ \A n \in DOMAIN atts : RecordsHold(atts[n], keys)
      /\ Distinct(atts)
  BY <1>1 DEF VerifyBundle
<1>3. VerifyBundle(bundle, keys).credited = {atts[n] : n \in {k \in DOMAIN atts : OutcomeBound(atts[k], keys) = "bound"}}
  BY <1>1 DEF VerifyBundle
<1>4. ASSUME NEW n \in DOMAIN atts, OutcomeBound(atts[n], keys) = "bound"
      PROVE  atts[n] \in Issued \/ atts[n].parties = {holder}
  BY <1>2, <1>4, ShownAreHeld, CreditedIsIssued
<1>5. \A n, k \in DOMAIN atts : atts[n].session = atts[k].session \/ atts[n].id = atts[k].id => atts[n] = atts[k]
  BY <1>2 DEF Distinct
<1> QED
  BY <1>3, <1>4, <1>5

\* A bundle that verifies credits an agreement with somebody else only as
\* everybody signed it, and each session and each id once.
THEOREM CreditsStayCountersigned == Spec => []CreditIsCountersigned
  BY EvidenceIsFounded, CreditsAreCountersigned, PTL

(***************************************************************************)
(* Merkle trees                                                            *)
(***************************************************************************)

\* f is a list of n.
List(f, n) == f = [i \in 1..n |-> f[i]]

LEMMA ListLength ==
  ASSUME NEW n \in Nat, NEW f, List(f, n)
  PROVE  Len(f) = n /\ DOMAIN f = 1..n
<1>1. DOMAIN f = 1..n
  BY DEF List
<1>2. PICK S : S = {f[i] : i \in 1..n}
  OBVIOUS
<1>3. f \in [1..n -> S]
  BY <1>2 DEF List
<1>4. f \in Seq(S)
  BY <1>3
<1> QED
  BY <1>1, <1>4

\* A layer of n has half as many above it.
LEMMA AboveIs ==
  ASSUME NEW n \in Nat, n >= 1, NEW f, List(f, n)
  PROVE  /\ List(Above(f), (n + 1) \div 2)
         /\ (n + 1) \div 2 \in Nat /\ (n + 1) \div 2 >= 1
         /\ n > 1 => (n + 1) \div 2 < n
<1>1. Len(f) = n
  BY ListLength
<1>2. Above(f) = [i \in 1..((n + 1) \div 2) |-> Node(f[2 * i - 1], Neighbour(f, 2 * i - 1))]
  BY <1>1 DEF Above
<1>3. (n + 1) \div 2 \in Nat /\ (n + 1) \div 2 >= 1 /\ (n > 1 => (n + 1) \div 2 < n)
  OBVIOUS
<1> QED
  BY <1>2, <1>3 DEF List

\* What a node was made of.
Left(node) == node.sha256[1]
Right(node) == node.sha256[2]

LEMMA NodeIs ==
  ASSUME NEW left, NEW right
  PROVE  /\ Left(Node(left, right)) = left /\ Right(Node(left, right)) = right
         /\ \A v : Hash(<<v>>) # Node(left, right)
<1>1. Node(left, right).sha256 = <<left, right>> /\ \A v : Hash(<<v>>).sha256 = <<v>>
  BY DEF Node, Hash
<1>2. \A v : <<v>> # <<left, right>>
  OBVIOUS
<1> QED
  BY <1>1, <1>2 DEF Left, Right

\* What is in a layer is what the nodes above it were made of.
LEMMA LayerBelow ==
  ASSUME NEW n \in Nat, n >= 1, NEW f, List(f, n)
  PROVE  Range(f) = {Left(node) : node \in Range(Above(f))} \cup {Right(node) : node \in Range(Above(f))}
<1> DEFINE m == (n + 1) \div 2
           up == Above(f)
<1>1. Len(f) = n /\ DOMAIN f = 1..n
  BY ListLength
<1>2. m \in Nat /\ DOMAIN up = 1..m
  BY AboveIs, ListLength
<1>3. \A i \in 1..m : Left(up[i]) = f[2 * i - 1] /\ Right(up[i]) = Neighbour(f, 2 * i - 1)
  <2>1. \A i \in 1..m : up[i] = Node(f[2 * i - 1], Neighbour(f, 2 * i - 1))
    BY <1>1 DEF Above
  <2> QED
    BY <2>1, NodeIs
<1>4. \A i \in 1..m : 2 * i - 1 \in 1..n
  OBVIOUS
<1>5. \A i \in 1..m : Neighbour(f, 2 * i - 1) = IF 2 * i \in 1..n THEN f[2 * i] ELSE f[2 * i - 1]
  <2> SUFFICES ASSUME NEW i \in 1..m
               PROVE  Neighbour(f, 2 * i - 1) = IF 2 * i \in 1..n THEN f[2 * i] ELSE f[2 * i - 1]
    OBVIOUS
  <2>1. (2 * i - 1) % 2 = 1 /\ (2 * i - 1) + 1 = 2 * i
    OBVIOUS
  <2> QED
    BY <1>1, <2>1 DEF Neighbour
<1>6. \A j \in 1..n : \E i \in 1..m : j = 2 * i - 1 \/ j = 2 * i
  <2> SUFFICES ASSUME NEW j \in 1..n PROVE \E i \in 1..m : j = 2 * i - 1 \/ j = 2 * i
    OBVIOUS
  <2>1. PICK i : i = (j + 1) \div 2
    OBVIOUS
  <2>2. i \in 1..m /\ (j = 2 * i - 1 \/ j = 2 * i)
    BY <2>1
  <2> QED
    BY <2>2
<1> HIDE DEF m, up
<1>7. ASSUME NEW x \in Range(f)
      PROVE  x \in {Left(node) : node \in Range(up)} \cup {Right(node) : node \in Range(up)}
  <2>1. PICK j \in 1..n : x = f[j]
    BY <1>1 DEF Range
  <2>2. PICK i \in 1..m : j = 2 * i - 1 \/ j = 2 * i
    BY <1>6
  <2>3. up[i] \in Range(up)
    BY <1>2 DEF Range
  <2>4. x = Left(up[i]) \/ x = Right(up[i])
    BY <1>3, <1>5, <2>1, <2>2
  <2> QED
    BY <2>3, <2>4
<1>8. ASSUME NEW node \in Range(up)
      PROVE  Left(node) \in Range(f) /\ Right(node) \in Range(f)
  <2>1. PICK i \in 1..m : node = up[i]
    BY <1>2 DEF Range
  <2>2. f[2 * i - 1] \in Range(f) /\ (2 * i \in 1..n => f[2 * i] \in Range(f))
    BY <1>1, <1>4 DEF Range
  <2> QED
    BY <1>3, <1>5, <2>1, <2>2
<1>9. Range(f) = {Left(node) : node \in Range(up)} \cup {Right(node) : node \in Range(up)}
  BY <1>7, <1>8
<1> QED
  BY <1>9 DEF up

\* The layers over some leaves, one above the other.
Stacked(l, leaves, d) == l = [k \in 0..d |-> IF k = 0 THEN leaves ELSE Above(l[k - 1])]

LEMMA StackedIs ==
  ASSUME NEW d \in Nat, NEW leaves, NEW l
  PROVE  Stacked(l, leaves, d)
           <=> l = [k \in 0..d |-> l[k]] /\ l[0] = leaves /\ \A k \in 0..(d - 1) : l[k + 1] = Above(l[k])
<1>1. ASSUME Stacked(l, leaves, d)
      PROVE  l = [k \in 0..d |-> l[k]] /\ l[0] = leaves /\ \A k \in 0..(d - 1) : l[k + 1] = Above(l[k])
  <2>1. DOMAIN l = 0..d /\ l = [k \in 0..d |-> l[k]]
    BY <1>1 DEF Stacked
  <2>2. \A k \in 0..d : l[k] = IF k = 0 THEN leaves ELSE Above(l[k - 1])
    BY <1>1 DEF Stacked
  <2>3. 0 \in 0..d /\ \A k \in 0..(d - 1) : k + 1 \in 0..d /\ k + 1 # 0 /\ (k + 1) - 1 = k
    OBVIOUS
  <2> QED
    BY <2>1, <2>2, <2>3
<1>2. ASSUME l = [k \in 0..d |-> l[k]], l[0] = leaves, \A k \in 0..(d - 1) : l[k + 1] = Above(l[k])
      PROVE  Stacked(l, leaves, d)
  <2>1. \A k \in 0..d : k # 0 => k - 1 \in 0..(d - 1) /\ (k - 1) + 1 = k
    OBVIOUS
  <2>2. \A k \in 0..d : l[k] = IF k = 0 THEN leaves ELSE Above(l[k - 1])
    BY <1>2, <2>1
  <2> QED
    BY <1>2, <2>2 DEF Stacked
<1> QED
  BY <1>1, <1>2

LEMMA LayersExist ==
  ASSUME NEW d \in Nat, NEW leaves
  PROVE  \E l : Stacked(l, leaves, d)
<1> DEFINE T == {n \in Nat : \E l : Stacked(l, leaves, n)}
<1>1. 0 \in T
  <2>1. PICK l : l = [k \in 0..0 |-> leaves]
    OBVIOUS
  <2>2. l = [k \in 0..0 |-> l[k]] /\ l[0] = leaves /\ \A k \in 0..(0 - 1) : l[k + 1] = Above(l[k])
    BY <2>1
  <2> QED
    BY <2>2, StackedIs
<1>2. ASSUME NEW n \in Nat, n \in T PROVE n + 1 \in T
  <2>1. PICK l : Stacked(l, leaves, n)
    BY <1>2
  <2>2. l[0] = leaves /\ \A k \in 0..(n - 1) : l[k + 1] = Above(l[k])
    BY <2>1, StackedIs
  <2>3. PICK f : f = [k \in 0..(n + 1) |-> IF k = n + 1 THEN Above(l[n]) ELSE l[k]]
    OBVIOUS
  <2>4. f = [k \in 0..(n + 1) |-> f[k]] /\ f[0] = leaves
    BY <2>2, <2>3
  <2>5. ASSUME NEW k \in 0..((n + 1) - 1) PROVE f[k + 1] = Above(f[k])
    <3>1. k \in 0..(n + 1) /\ k # n + 1 /\ k + 1 \in 0..(n + 1)
      OBVIOUS
    <3>2. f[k] = l[k] /\ f[k + 1] = IF k = n THEN Above(l[n]) ELSE l[k + 1]
      BY <2>3, <3>1
    <3> QED
      BY <2>2, <3>2
  <2>6. Stacked(f, leaves, n + 1)
    <3>1. PICK e \in Nat : e = n + 1
      OBVIOUS
    <3>2. \A k \in 0..(e - 1) : f[k + 1] = Above(f[k])
      BY <2>5, <3>1
    <3>3. f = [k \in 0..e |-> f[k]] /\ f[0] = leaves
      BY <2>4, <3>1
    <3>4. Stacked(f, leaves, e)
      BY <3>2, <3>3, StackedIs
    <3> QED
      BY <3>1, <3>4
  <2> QED
    BY <2>6
<1>3. \A n \in 0..d : n \in T
  <2> HIDE DEF T
  <2> QED
    BY <1>1, <1>2, UpToBound
<1>4. d \in T
  BY <1>3
<1> QED
  BY <1>4

\* A tree of some height: its root is alone.
Tree(l, leaves, h) ==
  /\ l[0] = leaves /\ \A k \in 0..(h - 1) : l[k + 1] = Above(l[k])
  /\ \A k \in 0..h : \E m \in Nat : m >= 1 /\ List(l[k], m)
  /\ List(l[h], 1)

LEMMA LayersAreATree ==
  ASSUME NEW n \in Nat, n >= 1, NEW leaves, List(leaves, n)
  PROVE  \E h \in Nat : \E l : Tree(l, leaves, h) /\ Last(Layers(leaves)) = l[h]
<1>1. PICK l : l = CHOOSE x : Stacked(x, leaves, n)
  OBVIOUS
<1>2. Stacked(l, leaves, n)
  BY <1>1, LayersExist
<1>3. l[0] = leaves /\ \A k \in 0..(n - 1) : l[k + 1] = Above(l[k])
  BY <1>2, StackedIs
<1>4. \A k \in 0..n : \E m \in Nat : m >= 1 /\ List(l[k], m) /\ (m = 1 \/ m <= n - k)
  <2> DEFINE T == {k \in Nat : \E m \in Nat : m >= 1 /\ List(l[k], m) /\ (m = 1 \/ m <= n - k)}
  <2>1. 0 \in T
    BY <1>3
  <2>2. ASSUME NEW k \in Nat, k < n, k \in T PROVE k + 1 \in T
    <3>1. PICK m \in Nat : m >= 1 /\ List(l[k], m) /\ (m = 1 \/ m <= n - k)
      BY <2>2
    <3>2. l[k + 1] = Above(l[k])
      BY <1>3, <2>2
    <3>3. PICK u : u = (m + 1) \div 2
      OBVIOUS
    <3>4. u \in Nat /\ u >= 1 /\ List(l[k + 1], u) /\ (m > 1 => u < m)
      BY <3>1, <3>2, <3>3, AboveIs
    <3>5. u = 1 \/ u <= n - (k + 1)
      BY <3>1, <3>3, <3>4
    <3> QED
      BY <3>4, <3>5
  <2> HIDE DEF T
  <2>3. \A k \in 0..n : k \in T
    BY <2>1, <2>2, UpToBound
  <2> QED
    BY <2>3 DEF T
<1>5. \A k \in 0..n : Len(l[k]) \in Nat /\ Len(l[k]) >= 1 /\ List(l[k], Len(l[k])) /\ (Len(l[k]) = 1 \/ Len(l[k]) <= n - k)
  <2> SUFFICES ASSUME NEW k \in 0..n
               PROVE  Len(l[k]) \in Nat /\ Len(l[k]) >= 1 /\ List(l[k], Len(l[k])) /\ (Len(l[k]) = 1 \/ Len(l[k]) <= n - k)
    OBVIOUS
  <2>1. PICK m \in Nat : m >= 1 /\ List(l[k], m) /\ (m = 1 \/ m <= n - k)
    BY <1>4
  <2>2. Len(l[k]) = m
    BY <2>1, ListLength
  <2> QED
    BY <2>1, <2>2
<1> DEFINE P(k) == Len(l[k]) <= 1 /\ \A j \in 0..(k - 1) : Len(l[j]) > 1
           S == {k \in 0..n : Len(l[k]) <= 1}
<1>6. \E k \in 0..n : P(k)
  <2>1. n \in S
    <3>1. n \in 0..n /\ n - n = 0
      OBVIOUS
    <3>2. PICK m : m = Len(l[n])
      OBVIOUS
    <3>3. m \in Nat /\ m >= 1 /\ (m = 1 \/ m <= n - n)
      BY <1>5, <3>1, <3>2
    <3>4. m <= 1
      BY <3>1, <3>3
    <3> QED
      BY <3>1, <3>2, <3>4
  <2>2. S \subseteq Nat
    OBVIOUS
  <2>3. PICK k \in S : \A j \in S : k <= j
    <3> HIDE DEF S
    <3> QED
      BY <2>1, <2>2, LeastNatural
  <2>4. \A j \in 0..(k - 1) : j \in 0..n /\ j \notin S
    BY <2>3
  <2>5. \A j \in 0..(k - 1) : Len(l[j]) > 1
    BY <1>5, <2>4
  <2> QED
    BY <2>3, <2>5
<1>7. PICK h : h = CHOOSE k \in 0..n : P(k)
  OBVIOUS
<1>8. h \in 0..n /\ Len(l[h]) <= 1
  <2>1. h \in 0..n /\ P(h)
    <3> HIDE DEF P
    <3> QED
      BY <1>6, <1>7
  <2> QED
    BY <2>1
<1>9. Len(l[h]) = 1 /\ List(l[h], 1)
  <2>1. PICK m : m = Len(l[h])
    OBVIOUS
  <2>2. m \in Nat /\ m >= 1 /\ List(l[h], m) /\ m <= 1
    BY <1>5, <1>8, <2>1
  <2>3. m = 1
    BY <2>2
  <2> QED
    BY <2>1, <2>2, <2>3
<1>10. Tree(l, leaves, h)
  <2>1. \A k \in 0..h : k \in 0..n /\ \A j \in 0..(h - 1) : j \in 0..(n - 1)
    BY <1>8
  <2> QED
    BY <1>3, <1>4, <1>8, <1>9, <2>1 DEF Tree
<1>11. Len(leaves) = n
  BY ListLength
<1>12. Layers(leaves) = [k \in 1..(h + 1) |-> l[k - 1]]
  BY <1>1, <1>7, <1>11 DEF Layers, Stacked
<1>13. Last(Layers(leaves)) = l[h]
  <2>1. PICK top : top = [k \in 1..(h + 1) |-> l[k - 1]]
    OBVIOUS
  <2>2. h + 1 \in Nat /\ h \in Nat
    BY <1>8
  <2>3. Len(top) = h + 1
    BY <2>1, <2>2, ListLength DEF List
  <2>4. h + 1 \in 1..(h + 1) /\ (h + 1) - 1 = h
    BY <2>2
  <2> QED
    BY <1>12, <2>1, <2>3, <2>4 DEF Last
<1> QED
  BY <1>8, <1>10, <1>13

\* Only leaves, at least one.
OnlyLeaves(f) == \E n \in Nat : n >= 1 /\ List(f, n) /\ \A i \in 1..n : \E v : f[i] = Hash(<<v>>)

\* Trees with the same root have the same layers from the root down, so the same leaves.
LEMMA RootTellsBelow ==
  ASSUME NEW x, NEW y, OnlyLeaves(x), OnlyLeaves(y), NEW h \in Nat, NEW g \in Nat, h <= g,
         NEW l, NEW r, Tree(l, x, h), Tree(r, y, g), l[h][1] = r[g][1]
  PROVE  Range(x) = Range(y)
<1> DEFINE T == {k \in Nat : Range(l[h - k]) = Range(r[g - k])}
<1>1. 0 \in T
  <2>1. h - 0 = h /\ g - 0 = g
    OBVIOUS
  <2>2. List(l[h], 1) /\ List(r[g], 1)
    BY DEF Tree
  <2>3. DOMAIN l[h] = {1} /\ DOMAIN r[g] = {1}
    BY <2>2 DEF List
  <2>4. Range(l[h]) = {l[h][1]} /\ Range(r[g]) = {r[g][1]}
    BY <2>3 DEF Range
  <2> QED
    BY <2>1, <2>4
<1>2. ASSUME NEW k \in Nat, k < h, k \in T PROVE k + 1 \in T
  <2>1. PICK i \in Nat : i = h - (k + 1)
    BY <1>2
  <2>2. PICK j \in Nat : j = g - (k + 1)
    BY <1>2
  <2>3. /\ i \in 0..(h - 1) /\ i \in 0..h /\ i + 1 = h - k
        /\ j \in 0..(g - 1) /\ j \in 0..g /\ j + 1 = g - k
    BY <1>2, <2>1, <2>2
  <2>4. l[i + 1] = Above(l[i]) /\ r[j + 1] = Above(r[j])
    BY <2>3 DEF Tree
  <2>5. Range(Above(l[i])) = Range(Above(r[j]))
    BY <1>2, <2>3, <2>4
  <2>6. PICK n \in Nat : n >= 1 /\ List(l[i], n)
    BY <2>3 DEF Tree
  <2>7. PICK m \in Nat : m >= 1 /\ List(r[j], m)
    BY <2>3 DEF Tree
  <2>8. Range(l[i]) = {Left(node) : node \in Range(Above(l[i]))} \cup {Right(node) : node \in Range(Above(l[i]))}
    BY <2>6, LayerBelow
  <2>9. Range(r[j]) = {Left(node) : node \in Range(Above(r[j]))} \cup {Right(node) : node \in Range(Above(r[j]))}
    BY <2>7, LayerBelow
  <2>10. Range(l[i]) = Range(r[j])
    BY <2>5, <2>8, <2>9
  <2> QED
    BY <2>1, <2>2, <2>10
<1> HIDE DEF T
<1>3. \A k \in 0..h : k \in T
  BY <1>1, <1>2, UpToBound
<1>4. Range(l[0]) = Range(r[g - h])
  <2>1. h \in 0..h /\ h - h = 0
    OBVIOUS
  <2>2. h \in T
    BY <1>3, <2>1
  <2> QED
    BY <2>1, <2>2 DEF T
<1>5. l[0] = x /\ r[0] = y
  BY DEF Tree
<1>6. g = h
  <2> SUFFICES ASSUME g # h PROVE FALSE
    OBVIOUS
  <2>1. PICK j \in Nat : j + 1 = g - h
    <3>1. g - h - 1 \in Nat /\ (g - h - 1) + 1 = g - h
      OBVIOUS
    <3> QED
      BY <3>1
  <2>2. j \in 0..(g - 1) /\ j \in 0..g
    BY <2>1
  <2>3. r[g - h] = Above(r[j])
    BY <2>1, <2>2 DEF Tree
  <2>4. \A node \in Range(Above(r[j])) : \E left, right : node = Node(left, right)
    BY DEF Range, Above
  <2>5. PICK n \in Nat : n >= 1 /\ List(x, n) /\ \A i \in 1..n : \E v : x[i] = Hash(<<v>>)
    BY DEF OnlyLeaves
  <2>6. 1 \in 1..n /\ x[1] \in Range(x)
    BY <2>5, ListLength DEF Range
  <2>7. \E left, right : x[1] = Node(left, right)
    BY <1>4, <1>5, <2>3, <2>4, <2>6
  <2>8. PICK v : x[1] = Hash(<<v>>)
    BY <2>5, <2>6, Zenon
  <2>9. PICK left, right : x[1] = Node(left, right)
    BY <2>7
  <2> QED
    BY <2>8, <2>9, NodeIs
<1> QED
  BY <1>4, <1>5, <1>6

LEMMA RootTells ==
  ASSUME NEW x, NEW y, OnlyLeaves(x), OnlyLeaves(y),
         Last(Layers(x))[1] = Last(Layers(y))[1]
  PROVE  Range(x) = Range(y)
<1>1. PICK h \in Nat : \E l : Tree(l, x, h) /\ Last(Layers(x)) = l[h]
  BY LayersAreATree DEF OnlyLeaves
<1>2. PICK l : Tree(l, x, h) /\ Last(Layers(x)) = l[h]
  BY <1>1
<1>3. PICK g \in Nat : \E r : Tree(r, y, g) /\ Last(Layers(y)) = r[g]
  BY LayersAreATree DEF OnlyLeaves
<1>4. PICK r : Tree(r, y, g) /\ Last(Layers(y)) = r[g]
  BY <1>3
<1>5. l[h][1] = r[g][1]
  BY <1>2, <1>4
<1>6. CASE h <= g
  BY <1>2, <1>4, <1>5, <1>6, RootTellsBelow
<1>7. CASE g <= h
  BY <1>2, <1>4, <1>5, <1>7, RootTellsBelow
<1> QED
  BY <1>6, <1>7

\* Sorting changes neither how many ids there are nor which.
LEMMA SortedIs ==
  ASSUME NEW n \in Nat, NEW ids \in [1..n -> Nat]
  PROVE  Sorted(ids) \in [1..n -> Range(ids)] /\ Range(Sorted(ids)) = Range(ids)
<1> DEFINE before(i) == {j \in DOMAIN ids : ids[j] < ids[i] \/ (ids[j] = ids[i] /\ j <= i)}
           rank(i) == Cardinality(before(i))
           P(s) == \A i \in DOMAIN ids : s[rank(i)] = ids[i]
<1>1. DOMAIN ids = 1..n /\ Range(ids) \subseteq Nat
  BY DEF Range
<1>2. IsFiniteSet(1..n) /\ Cardinality(1..n) = n
  <2>1. 1 \in Int /\ n \in Int
    OBVIOUS
  <2>2. IsFiniteSet(1..n)
    BY <2>1, FS_Interval
  <2>3. Cardinality(1..n) = IF 1 > n THEN 0 ELSE n - 1 + 1
    BY <2>1, FS_Interval
  <2> QED
    BY <2>2, <2>3
<1>3. \A i \in 1..n : before(i) \subseteq 1..n /\ i \in before(i)
  BY <1>1
<1>4. \A i \in 1..n : IsFiniteSet(before(i)) /\ rank(i) \in 1..n
  <2> SUFFICES ASSUME NEW i \in 1..n PROVE IsFiniteSet(before(i)) /\ rank(i) \in 1..n
    OBVIOUS
  <2>1. PICK b : b = before(i)
    OBVIOUS
  <2>2. b \subseteq 1..n /\ b # {}
    BY <1>3, <2>1
  <2>3. IsFiniteSet(b)
    BY <1>2, <2>2, FS_Subset
  <2>4. Cardinality(b) \in Nat /\ Cardinality(b) <= n
    <3>1. Cardinality(b) \in Nat
      BY <2>3, FS_CardinalityType
    <3>2. Cardinality(b) <= Cardinality(1..n)
      BY <1>2, <2>2, FS_Subset
    <3> QED
      BY <1>2, <3>1, <3>2
  <2>5. Cardinality(b) # 0
    BY <2>2, <2>3, FS_EmptySet
  <2> QED
    BY <2>1, <2>3, <2>4, <2>5
<1>5. ASSUME NEW i \in 1..n, NEW k \in 1..n, rank(i) = rank(k) PROVE i = k
  <2>1. ASSUME NEW a \in 1..n, NEW b \in 1..n, b \notin before(a), rank(a) = rank(b) PROVE FALSE
    <3>1. before(a) \subseteq before(b) /\ b \in before(b)
      BY <1>1, <2>1
    <3>2. PICK u : u = before(a)
      OBVIOUS
    <3>3. PICK v : v = before(b)
      OBVIOUS
    <3>4. u \subseteq v /\ u # v /\ IsFiniteSet(v) /\ Cardinality(u) = Cardinality(v)
      BY <1>4, <2>1, <3>1, <3>2, <3>3
    <3> HIDE DEF before, rank
    <3> QED
      BY <3>4, FS_Subset
  <2>2. k \in before(i) /\ i \in before(k)
    BY <1>5, <2>1
  <2>3. ids[i] \in Nat /\ ids[k] \in Nat
    OBVIOUS
  <2> QED
    BY <1>1, <2>2, <2>3
<1> HIDE DEF before
<1>6. \E s \in [DOMAIN ids -> Range(ids)] : P(s)
  <2>1. PICK s : s = [k \in 1..n |-> IF \E i \in 1..n : rank(i) = k
                                     THEN ids[CHOOSE i \in 1..n : rank(i) = k] ELSE ids[1]]
    OBVIOUS
  <2>2. \A i \in 1..n : ids[i] \in Range(ids)
    BY <1>1 DEF Range
  <2> DEFINE c(k) == CHOOSE i \in 1..n : rank(i) = k
  <2> HIDE DEF rank
  <2>3. \A k : (\E i \in 1..n : rank(i) = k) => c(k) \in 1..n /\ rank(c(k)) = k
    OBVIOUS
  <2>4. \A k \in 1..n : s[k] = IF \E i \in 1..n : rank(i) = k THEN ids[c(k)] ELSE ids[1]
    BY <2>1
  <2> HIDE DEF c
  <2>5. s \in [1..n -> Range(ids)]
    <3>1. \A k \in 1..n : s[k] \in Range(ids)
      <4>1. \A k \in 1..n : 1 \in 1..n
        OBVIOUS
      <4> QED
        BY <2>2, <2>3, <2>4, <4>1
    <3> QED
      BY <2>1, <3>1
  <2>6. \A i \in 1..n : s[rank(i)] = ids[i]
    <3> SUFFICES ASSUME NEW i \in 1..n PROVE s[rank(i)] = ids[i]
      OBVIOUS
    <3>1. c(rank(i)) \in 1..n /\ rank(c(rank(i))) = rank(i)
      BY <2>3
    <3>2. c(rank(i)) = i
      BY <1>5, <3>1
    <3>3. rank(i) \in 1..n
      BY <1>4
    <3> QED
      BY <2>4, <3>2, <3>3
  <2> QED
    BY <1>1, <2>5, <2>6
<1>7. Sorted(ids) = CHOOSE s \in [DOMAIN ids -> Range(ids)] : P(s)
  BY DEF Sorted, before
<1>8. Sorted(ids) \in [DOMAIN ids -> Range(ids)] /\ P(Sorted(ids))
  <2> HIDE DEF P
  <2> QED
    BY <1>6, <1>7
<1>9. PICK s : s = Sorted(ids)
  OBVIOUS
<1>10. s \in [1..n -> Range(ids)] /\ \A i \in 1..n : s[rank(i)] = ids[i]
  BY <1>1, <1>8, <1>9
<1>11. \A i \in 1..n : rank(i) \in 1..n
  BY <1>4
<1> HIDE DEF rank
<1>12. Range(s) = Range(ids)
  <2>1. DOMAIN s = 1..n
    BY <1>10
  <2>2. \A v \in Range(s) : v \in Range(ids)
    BY <1>10, <2>1 DEF Range
  <2>3. \A v \in Range(ids) : v \in Range(s)
    BY <1>1, <1>10, <1>11, <2>1 DEF Range
  <2> QED
    BY <2>2, <2>3
<1> QED
  BY <1>9, <1>10, <1>12

\* A list of ids, at least one.
IdList(ids) == \E n \in Nat : n >= 1 /\ ids \in [1..n -> Nat]

\* Lists of ids with the same root are of the same ids, unless one is written as two hashes.
LEMMA MerkleTells ==
  ASSUME NEW a, NEW b, IdList(a), IdList(b), MerkleRoot(a) = MerkleRoot(b), Plain(Range(a)), Plain(Range(b))
  PROVE  Range(a) = Range(b)
<1>1. ASSUME NEW k \in Nat, k >= 1, NEW ids \in [1..k -> Nat], Plain(Range(ids))
      PROVE  /\ MerkleRoot(ids) = Last(Layers(Leaves(ids)))[1]
             /\ OnlyLeaves(Leaves(ids))
             /\ Range(Leaves(ids)) = {Leaf(v) : v \in Range(ids)}
  <2>1. ids # <<>>
    <3>1. 1 \in DOMAIN ids /\ 1 \notin DOMAIN << >>
      BY <1>1
    <3> QED
      BY <3>1
  <2>2. PICK s : s = Sorted(ids)
    OBVIOUS
  <2>3. s \in [1..k -> Range(ids)] /\ Range(s) = Range(ids)
    BY <2>2, SortedIs
  <2>4. PICK f : f = [i \in 1..k |-> Leaf(s[i])]
    OBVIOUS
  <2>5. Leaves(ids) = f
    BY <2>2, <2>3, <2>4 DEF Leaves
  <2>6. OnlyLeaves(f)
    <3>1. List(f, k) /\ \A i \in 1..k : f[i] = Leaf(s[i])
      BY <2>4 DEF List
    <3>2. \A i \in 1..k : s[i] \notin DOMAIN Joined
      BY <1>1, <2>3 DEF Plain
    <3>3. \A i \in 1..k : \E v : f[i] = Hash(<<v>>)
      BY <3>1, <3>2 DEF Leaf
    <3> QED
      BY <1>1, <3>1, <3>3 DEF OnlyLeaves
  <2>7. Range(f) = {Leaf(v) : v \in Range(s)}
    <3>1. DOMAIN f = 1..k /\ DOMAIN s = 1..k /\ \A i \in 1..k : f[i] = Leaf(s[i])
      BY <2>3, <2>4
    <3> QED
      BY <3>1 DEF Range
  <2> QED
    BY <2>1, <2>3, <2>5, <2>6, <2>7 DEF MerkleRoot
<1>2. Range(Leaves(a)) = Range(Leaves(b))
  <2>1. /\ MerkleRoot(a) = Last(Layers(Leaves(a)))[1] /\ OnlyLeaves(Leaves(a))
        /\ MerkleRoot(b) = Last(Layers(Leaves(b)))[1] /\ OnlyLeaves(Leaves(b))
    BY <1>1 DEF IdList
  <2>2. PICK x : x = Leaves(a)
    OBVIOUS
  <2>3. PICK y : y = Leaves(b)
    OBVIOUS
  <2>4. OnlyLeaves(x) /\ OnlyLeaves(y) /\ Last(Layers(x))[1] = Last(Layers(y))[1]
    BY <2>1, <2>2, <2>3
  <2> QED
    BY <2>2, <2>3, <2>4, RootTells
<1>3. {Leaf(v) : v \in Range(a)} = {Leaf(v) : v \in Range(b)}
  BY <1>1, <1>2 DEF IdList
<1>4. ASSUME NEW v, v \notin DOMAIN Joined, NEW w, w \notin DOMAIN Joined, Leaf(v) = Leaf(w) PROVE v = w
  <2>1. Leaf(v) = Hash(<<v>>) /\ Leaf(w) = Hash(<<w>>)
    BY <1>4 DEF Leaf
  <2>2. Hash(<<v>>).sha256[1] = v /\ Hash(<<w>>).sha256[1] = w
    BY DEF Hash
  <2>3. Hash(<<v>>) = Hash(<<w>>)
    BY <1>4, <2>1
  <2> QED
    BY <2>2, <2>3
<1>5. ASSUME NEW S, Plain(S), NEW T, Plain(T), {Leaf(v) : v \in S} \subseteq {Leaf(v) : v \in T} PROVE S \subseteq T
  <2> SUFFICES ASSUME NEW v \in S PROVE v \in T
    OBVIOUS
  <2>1. Leaf(v) \in {Leaf(w) : w \in T}
    BY <1>5
  <2>2. PICK w \in T : Leaf(v) = Leaf(w)
    BY <2>1
  <2>3. v \notin DOMAIN Joined /\ w \notin DOMAIN Joined
    BY <1>5 DEF Plain
  <2> QED
    BY <1>4, <2>2, <2>3
<1>6. Range(a) \subseteq Range(b) /\ Range(b) \subseteq Range(a)
  BY <1>3, <1>5
<1> QED
  BY <1>6

(***************************************************************************)
(* Competence proofs                                                       *)
(***************************************************************************)

\* What is shown is a list.
LEMMA ShownAreLists ==
  ASSUME NEW holder, NEW atts \in Shown(holder)
  PROVE  \E n \in Nat : List(atts, n)
<1> DEFINE issued == UNION {[1..k -> Issued] : k \in 0..MaxShown}
<1>1. \A old \in issued : \E n \in Nat : List(old, n)
  BY DEF List
<1>2. ASSUME NEW old \in issued, NEW k \in DOMAIN old, NEW form, atts = [old EXCEPT ![k] = form]
      PROVE  \E n \in Nat : List(atts, n)
  <2>1. PICK n \in Nat : List(old, n)
    BY <1>1
  <2>2. DOMAIN old = 1..n
    BY <2>1 DEF List
  <2>3. List(atts, n)
    BY <1>2, <2>2 DEF List
  <2> QED
    BY <2>3
<1> HIDE DEF issued
<1>3. atts \in issued \cup UNION {UNION {{[old EXCEPT ![k] = form] : form \in Variants(old[k], holder)}
                                  : k \in DOMAIN old} : old \in issued}
  BY DEF Shown, issued
<1> QED
  BY <1>1, <1>2, <1>3

LEMMA AggregatesAreCommitted ==
  ASSUME Founded
  PROVE  AggregateIsCommitted
<1> SUFFICES ASSUME NEW holder \in Agents, NEW keys \in {Agents, {holder}}, NEW atts \in Shown(holder),
                    NEW ids \in Commitments
             PROVE  LET shown == {atts[i].id : i \in DOMAIN atts}
                        proof == CreateProof(holder, ids, Len(atts), ComputeSummary(holder, atts), atts)
                    IN  shown \subseteq Range(ids) /\ VerifyCompetence(proof, keys).aggregate =>
                          /\ \A i \in DOMAIN atts : atts[i] \in Issued \/ atts[i].parties = {holder}
                          /\ Cardinality(shown) = Len(atts)
                          /\ Plain(shown) =>
                               \A list \in Commitments :
                                 MerkleRoot(list) = MerkleRoot(ids) /\ Plain(Range(list)) => Range(list) = shown
  BY DEF AggregateIsCommitted
<1> SUFFICES ASSUME NEW shown, shown = {atts[i].id : i \in DOMAIN atts}, shown \subseteq Range(ids),
                    NEW proof, proof = CreateProof(holder, ids, Len(atts), ComputeSummary(holder, atts), atts),
                    VerifyCompetence(proof, keys).aggregate
             PROVE  /\ \A i \in DOMAIN atts : atts[i] \in Issued \/ atts[i].parties = {holder}
                    /\ Cardinality(shown) = Len(atts)
                    /\ Plain(shown) =>
                         \A list \in Commitments :
                           MerkleRoot(list) = MerkleRoot(ids) /\ Plain(Range(list)) => Range(list) = shown
  BY Zenon
<1>1. proof.revealed = atts /\ proof.root = MerkleRoot(ids) /\ proof.count = Len(atts)
  BY DEF CreateProof
<1>2. /\ Len(atts) > 0 /\ Members(proof) = Len(atts)
      /\ \A i \in DOMAIN atts : /\ RecordsHold(atts[i], keys) /\ OutcomeBound(atts[i], keys) = "bound"
                                /\ VerifyProof(atts[i].id, proof.proofs[i], proof.root)
      /\ RootBound(proof)
  BY <1>1 DEF VerifyCompetence
<1>3. PICK n \in Nat : List(atts, n)
  BY ShownAreLists
<1>4. n = Len(atts) /\ n >= 1 /\ DOMAIN atts = 1..n
  BY <1>2, <1>3, ListLength
<1>5. \A i \in DOMAIN atts : atts[i] \in Issued \/ atts[i].parties = {holder}
  BY <1>2, ShownAreHeld, CreditedIsIssued
<1>6. \A list \in Commitments : IdList(list) /\ Range(list) \subseteq Nat
  <2> SUFFICES ASSUME NEW list \in Commitments PROVE IdList(list) /\ Range(list) \subseteq Nat
    OBVIOUS
  <2>1. PICK m \in 1..MaxCommitted : list \in [1..m -> CommittedIds]
    BY DEF Commitments
  <2>2. CommittedIds \subseteq Nat /\ MaxCommitted \in Nat
    BY EvidenceAssumption
  <2>3. m \in Nat /\ m >= 1
    BY <2>2
  <2>4. list \in [1..m -> Nat]
    BY <2>1, <2>2
  <2> QED
    BY <2>3, <2>4 DEF IdList, Range
<1>7. PICK revealed : revealed = [i \in 1..n |-> atts[i].id]
  OBVIOUS
<1>8. Range(revealed) = shown
  BY <1>4, <1>7 DEF Range
<1>9. IdList(revealed)
  <2>1. \A i \in 1..n : atts[i].id \in Nat
    BY <1>4, <1>6
  <2>2. revealed \in [1..n -> Nat]
    BY <1>7, <2>1
  <2> QED
    BY <1>4, <2>2 DEF IdList
<1>10. MerkleRoot(ids) = MerkleRoot(revealed)
  BY <1>1, <1>2, <1>4, <1>7 DEF RootBound
<1>11. Cardinality(shown) = Len(atts)
  <2>1. {i \in DOMAIN atts : VerifyProof(atts[i].id, proof.proofs[i], proof.root)} = DOMAIN atts
    BY <1>2
  <2> QED
    BY <1>1, <1>2, <2>1 DEF Members
<1>12. ASSUME Plain(shown), NEW list \in Commitments, MerkleRoot(list) = MerkleRoot(ids), Plain(Range(list))
       PROVE  Range(list) = shown
  BY <1>6, <1>8, <1>9, <1>10, <1>12, MerkleTells
<1> QED
  BY <1>5, <1>11, <1>12

\* When the aggregate of a competence proof counts as verified, what was
\* revealed is as many ids as are counted, each with somebody else only as
\* issued, and the root commits to these ids and no other, unless one is
\* written as two hashes.
THEOREM AggregatesStayCommitted == Spec => []AggregateIsCommitted
  BY EvidenceIsFounded, AggregatesAreCommitted, PTL
=============================================================================
