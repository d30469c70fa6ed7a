-------------------------- MODULE ReputationProofs --------------------------
(***************************************************************************)
(* Proofs about the reputation service (module Reputation), for any        *)
(* agents, any submissions, any history of a loop and any capacity.        *)
(*                                                                         *)
(* What the indexes say of an agent is tied to the attestations that are   *)
(* stored (Recorded, Counted, Met): the counts of the query handler and    *)
(* the signal for a closed loop, both computed from the indexes, are then  *)
(* compared with the attestations themselves.                              *)
(*                                                                         *)
(* Confidence is computed with divisions and tables: QuotientGrows says    *)
(* what rounding cannot undo, TableGrows that a table does not fall.       *)
(***************************************************************************)
EXTENDS Reputation, TLAPS, FiniteSetTheorems, SequenceTheorems

(***************************************************************************)
(* Operators                                                               *)
(***************************************************************************)

\* The number of what passes is the length of what _filter returns.
LEMMA FilterCounts ==
  ASSUME NEW rs, NEW a, NEW q, NEW n \in Nat, DOMAIN rs = 1..n
  PROVE  LET kept == {i \in 1..n : Passes(rs[i], a, q)}
         IN /\ Cardinality(kept) \in Nat
            /\ Len(Filter(rs, a, q)) = Cardinality(kept)
            /\ Filter(rs, a, q) = <<>> <=> Cardinality(kept) = 0
<1> DEFINE kept == {i \in DOMAIN rs : Passes(rs[i], a, q)}
           e(k) == rs[CHOOSE i \in kept : Cardinality({j \in kept : j <= i}) = k]
<1>0. kept = {i \in 1..n : Passes(rs[i], a, q)}
  OBVIOUS
<1>1. IsFiniteSet(kept) /\ Cardinality(kept) \in Nat
  <2>1. IsFiniteSet(1..n)
    BY FS_Interval
  <2>2. kept \subseteq 1..n
    OBVIOUS
  <2> QED
    BY <2>1, <2>2, FS_Subset, FS_CardinalityType, Zenon
<1>2. Filter(rs, a, q) = [k \in 1..Cardinality(kept) |-> e(k)]
  BY Zenon DEF Filter
<1> HIDE DEF kept, e
<1>3. PICK m \in Nat : m = Cardinality(kept)
  BY <1>1
<1>4. PICK f : f = [k \in 1..m |-> e(k)]
  OBVIOUS
<1>5. f \in Seq({f[k] : k \in 1..m}) /\ Len(f) = m
  BY <1>4
<1>6. f = <<>> <=> m = 0
  BY <1>5
<1>7. /\ Cardinality(kept) \in Nat
      /\ Len(Filter(rs, a, q)) = Cardinality(kept)
      /\ Filter(rs, a, q) = <<>> <=> Cardinality(kept) = 0
  BY <1>2, <1>3, <1>4, <1>5, <1>6
<1> QED
  BY <1>0, <1>7, Zenon

\* The answer to a query counts the records that pass its filters.
LEMMA AnswerCounts ==
  ASSUME NEW a, NEW q, NEW n \in Nat, DOMAIN GetByAgent(a) = 1..n
  PROVE  /\ Cardinality({i \in 1..n : Passes(GetByAgent(a)[i], a, q)}) \in Nat
         /\ Handle(a, q).count = Cardinality({i \in 1..n : Passes(GetByAgent(a)[i], a, q)})
<1>1. PICK rs : rs = Filter(GetByAgent(a), a, q)
  OBVIOUS
<1>2. PICK m : m = Cardinality({i \in 1..n : Passes(GetByAgent(a)[i], a, q)})
  OBVIOUS
<1>3. m \in Nat /\ Len(rs) = m /\ (rs = <<>> <=> m = 0)
  BY <1>1, <1>2, FilterCounts
<1>4. Handle(a, q).count = m
  <2>1. CASE rs = <<>>
    <3>1. Handle(a, q) = [score |-> None, context |-> <<>>, flags |-> {"new_agent", "no_data"},
                          count |-> 0, times |-> {}]
      BY <1>1, <2>1, Zenon DEF Handle
    <3> QED
      BY <1>3, <2>1, <3>1
  <2>2. CASE rs # <<>>
    <3>1. PICK s : s = ExtractSignals(rs, a)
      OBVIOUS
    <3>2. s.total = Len(rs)
      BY <3>1 DEF ExtractSignals
    <3>3. PICK sc : sc = ScoreOf(rs, a)
      OBVIOUS
    <3>4. sc.signals = s
      BY <2>2, <3>1, <3>3 DEF ScoreOf
    <3>5. PICK c, f, t : c = ContextSpecific(a, q) /\ f = Flags(sc) /\ t = TimeRange(a)
      OBVIOUS
    <3>6. Handle(a, q) = [score |-> sc, context |-> c, flags |-> f, count |-> sc.signals.total, times |-> t]
      BY <1>1, <2>2, <3>3, <3>5, Zenon DEF Handle
    <3> QED
      BY <1>3, <3>2, <3>4, <3>6
  <2> QED
    BY <2>1, <2>2
<1> QED
  BY <1>2, <1>3, <1>4

\* Sides are among finitely many.
LEMMA SidesFinite ==
  ASSUME NEW att \in Submissions, NEW a
  PROVE  /\ Len(att.parties) \in Nat /\ DOMAIN att.parties = 1..Len(att.parties)
         /\ IsFiniteSet(Sides(att, a)) /\ Cardinality(Sides(att, a)) \in Nat
         /\ Cardinality(Sides(att, a)) = 0 <=> Sides(att, a) = {}
<1>1. att.parties \in Seq(Range(att.parties))
  BY ReputationAssumption
<1>2. PICK n \in Nat : n = Len(att.parties) /\ DOMAIN att.parties = 1..n
  BY <1>1
<1>3. Sides(att, a) \subseteq 1..n
  BY <1>2 DEF Sides
<1>4. IsFiniteSet(Sides(att, a))
  <2>1. IsFiniteSet(1..n)
    BY FS_Interval
  <2> QED
    BY <1>3, <2>1, FS_Subset, Zenon
<1> QED
  BY <1>2, <1>4, FS_CardinalityType, FS_EmptySet

\* An agent on no more than one side is on none or on one.
LEMMA OneSide ==
  ASSUME NEW att \in Submissions, NEW a, ~(Cardinality(Sides(att, a)) > 1)
  PROVE  \/ Sides(att, a) = {} /\ Cardinality(Sides(att, a)) = 0
         \/ Cardinality(Sides(att, a)) = 1 /\ \E i \in DOMAIN att.parties : Sides(att, a) = {i}
<1>1. Cardinality(Sides(att, a)) \in {0, 1}
  BY SidesFinite
<1>2. CASE Cardinality(Sides(att, a)) = 0
  BY <1>2, SidesFinite
<1>3. CASE Cardinality(Sides(att, a)) = 1
  <2>1. PICK i : Sides(att, a) = {i}
    BY <1>3, SidesFinite, FS_Singleton
  <2> QED
    BY <1>3, <2>1 DEF Sides
<1> QED
  BY <1>1, <1>2, <1>3

\* Nor is one with only one side on two.
LEMMA TwoSides ==
  ASSUME NEW att \in Submissions, NEW a, NEW i \in Sides(att, a), NEW j \in Sides(att, a), i # j
  PROVE  Cardinality(Sides(att, a)) > 1
<1>1. SUFFICES ASSUME ~(Cardinality(Sides(att, a)) > 1) PROVE FALSE
  OBVIOUS
<1> QED
  BY <1>1, OneSide

(***************************************************************************)
(* What is stored                                                          *)
(***************************************************************************)

Kinds == {"self_dealing", "suspiciously_fast", "symmetric_concessions", "closed_loop"}
Record == [att : Submissions, signals : SUBSET Kinds]

\* What is stored is valid, and no two records share an identifier or a session.
Recorded ==
  /\ byId \in Seq(Record)
  /\ \A i \in DOMAIN byId : Valid(byId[i].att)
  /\ \A i, j \in DOMAIN byId :
       byId[i].att.id = byId[j].att.id \/ byId[i].att.sid = byId[j].att.sid => i = j
  /\ bySession = {att.sid : att \in Stored}
  /\ IsFiniteSet(Stored)

\* A record of an attestation.
LEMMA RecordMade ==
  ASSUME NEW att \in Submissions
  PROVE  /\ [att |-> att, signals |-> Check(att)] \in Record
         /\ "closed_loop" \in Check(att) <=> ClosedLoop(att)
<1>1. Check(att) \in SUBSET Kinds
  BY DEF Check, Kinds
<1>2. "closed_loop" \in Check(att) <=> ClosedLoop(att)
  BY DEF Check
<1> QED
  BY <1>1, <1>2 DEF Record

\* A step stores one attestation that is new.
LEMMA IngestStores ==
  ASSUME Recorded, NEW att \in Submissions, Ingest(att), NEW n \in Nat, n = Len(byId)
  PROVE  /\ Recorded'
         /\ DOMAIN byId = 1..n /\ DOMAIN byId' = 1..(n + 1)
         /\ \A i \in 1..n : byId'[i] = byId[i]
         /\ byId'[n + 1] = [att |-> att, signals |-> Check(att)]
         /\ Stored' = Stored \union {att}
         /\ \A x \in Stored : x.id # att.id /\ x.sid # att.sid
<1>1. PICK r : r = [att |-> att, signals |-> Check(att)]
  OBVIOUS
<1>2. r \in Record /\ r.att = att
  BY <1>1, RecordMade
<1>3. byId \in Seq(Record) /\ byId' = Append(byId, r)
  BY <1>1, Zenon DEF Ingest, Recorded
<1>4. /\ DOMAIN byId = 1..n /\ DOMAIN byId' = 1..(n + 1)
      /\ \A i \in 1..n : byId'[i] = byId[i]
      /\ byId'[n + 1] = r /\ byId' \in Seq(Record)
  BY <1>2, <1>3
<1>5. \A i \in 1..(n + 1) : i \in 1..n \/ i = n + 1
  OBVIOUS
<1>6. n + 1 \in 1..(n + 1) /\ 1..n \subseteq 1..(n + 1) /\ n + 1 \notin 1..n
  OBVIOUS
<1>7. Stored' = {byId'[i].att : i \in 1..(n + 1)}
  BY <1>4 DEF Stored
<1>8. Stored = {byId[i].att : i \in 1..n}
  BY <1>4 DEF Stored
<1>9. Stored' = Stored \union {att}
  BY <1>2, <1>4, <1>5, <1>6, <1>7, <1>8
<1>10. \A x \in Stored : x.id # att.id /\ x.sid # att.sid
  BY <1>4, <1>8 DEF Ingest, New, Recorded
<1>11. \A i \in DOMAIN byId' : Valid(byId'[i].att)
  BY <1>2, <1>4, <1>5 DEF Ingest, Recorded
<1>12. \A i, j \in DOMAIN byId' :
         byId'[i].att.id = byId'[j].att.id \/ byId'[i].att.sid = byId'[j].att.sid => i = j
  <2>1. SUFFICES ASSUME NEW i \in 1..(n + 1), NEW j \in 1..(n + 1),
                        byId'[i].att.id = byId'[j].att.id \/ byId'[i].att.sid = byId'[j].att.sid
                 PROVE  i = j
    BY <1>4, Zenon
  <2>2. CASE i \in 1..n /\ j \in 1..n
    BY <1>4, <2>1, <2>2, Zenon DEF Recorded
  <2>3. CASE i \in 1..n /\ j = n + 1
    BY <1>2, <1>4, <1>8, <1>10, <2>1, <2>3
  <2>4. CASE i = n + 1 /\ j \in 1..n
    BY <1>2, <1>4, <1>8, <1>10, <2>1, <2>4
  <2> QED
    BY <1>5, <2>2, <2>3, <2>4
<1>13. bySession' = {x.sid : x \in Stored'}
  <2>1. bySession' = {x.sid : x \in Stored} \union {att.sid}
    BY DEF Ingest, Recorded
  <2> QED
    BY <1>9, <2>1
<1>14. IsFiniteSet(Stored')
  BY <1>9, FS_AddElement DEF Recorded
<1>15. \A x : Valid(x)' <=> Valid(x)
  BY DEF Valid
<1>16. Recorded'
  BY <1>4, <1>11, <1>12, <1>13, <1>14 DEF Recorded
<1> QED
  BY <1>1, <1>4, <1>9, <1>10, <1>16

LEMMA RecordedKept == Spec => []Recorded
<1>1. Init => Recorded
  <2>1. SUFFICES ASSUME Init PROVE Recorded
    OBVIOUS
  <2>2. byId = <<>> /\ bySession = {} /\ DOMAIN byId = {}
    BY <2>1 DEF Init
  <2>3. Stored = {}
    BY <2>2 DEF Stored
  <2> QED
    BY <2>2, <2>3, FS_EmptySet DEF Recorded
<1>2. Recorded /\ [Next]_vars => Recorded'
  <2>1. SUFFICES ASSUME Recorded, [Next]_vars PROVE Recorded'
    OBVIOUS
  <2>2. CASE Next
    <3>1. PICK att \in Submissions : Ingest(att)
      BY <2>2 DEF Next
    <3>2. Len(byId) \in Nat
      BY <2>1 DEF Recorded
    <3> QED
      BY <2>1, <3>1, <3>2, IngestStores
  <2>3. CASE UNCHANGED vars
    BY <2>1, <2>3 DEF Recorded, Stored, vars
  <2> QED
    BY <2>1, <2>2, <2>3
<1> QED
  BY <1>1, <1>2, PTL DEF Spec

(***************************************************************************)
(* What is indexed                                                         *)
(***************************************************************************)

Ids == {att.id : att \in Submissions}

\* The entries of an agent are attestations it is in: as many as there are, when it is on one
\* side of each.
Counted ==
  \A a \in Agents :
    /\ byAgent[a] \in Seq(Ids)
    /\ \A k \in DOMAIN byAgent[a] : \E att \in Involving(a) : byAgent[a][k] = att.id
    /\ \A att \in Involving(a) : \E k \in DOMAIN byAgent[a] : byAgent[a][k] = att.id
    /\ ~DealsWithItself(a) =>
         /\ Len(byAgent[a]) = Cardinality(Involving(a))
         /\ Len(byAgent[a]) = Cardinality(SessionsOf(a))

LEMMA StoredAreSubmitted ==
  ASSUME Recorded
  PROVE  Stored \subseteq Submissions
<1>1. SUFFICES ASSUME NEW i \in DOMAIN byId PROVE byId[i].att \in Submissions
  BY DEF Stored
<1>2. byId[i] \in Record
  BY <1>1 DEF Recorded
<1> QED
  BY <1>2 DEF Record

\* The attestations an agent is in are finitely many.
LEMMA InvolvingFinite ==
  ASSUME Recorded, NEW a
  PROVE  /\ Involving(a) \subseteq Stored
         /\ IsFiniteSet(Involving(a)) /\ Cardinality(Involving(a)) \in Nat
         /\ IsFiniteSet(SessionsOf(a)) /\ Cardinality(SessionsOf(a)) \in Nat
<1>1. Involving(a) \subseteq Stored
  BY DEF Involving
<1>2. IsFiniteSet(Involving(a))
  BY <1>1, FS_Subset DEF Recorded
<1>3. SessionsOf(a) \subseteq bySession
  BY <1>1 DEF Recorded, SessionsOf
<1>4. IsFiniteSet(SessionsOf(a))
  <2>1. PICK f : f = [att \in Involving(a) |-> att.sid]
    OBVIOUS
  <2>2. f \in Surjection(Involving(a), SessionsOf(a))
    BY <2>1 DEF Surjection, SessionsOf
  <2> QED
    BY <1>2, <2>2, FS_Surjection, Zenon
<1> QED
  BY <1>1, <1>2, <1>4, FS_CardinalityType, Zenon

\* The entries a step adds for one agent.
LEMMA IngestCounts ==
  ASSUME Recorded, Counted, NEW att \in Submissions, Ingest(att), NEW a \in Agents
  PROVE  /\ byAgent[a]' \in Seq(Ids)
         /\ \A k \in DOMAIN byAgent[a]' : \E x \in Involving(a)' : byAgent[a]'[k] = x.id
         /\ \A x \in Involving(a)' : \E k \in DOMAIN byAgent[a]' : byAgent[a]'[k] = x.id
         /\ ~DealsWithItself(a)' =>
              /\ Len(byAgent[a]') = Cardinality(Involving(a)')
              /\ Len(byAgent[a]') = Cardinality(SessionsOf(a)')
<1>1. PICK n \in Nat : n = Len(byId)
  BY DEF Recorded
<1>2. /\ Stored' = Stored \union {att}
      /\ \A x \in Stored : x.id # att.id /\ x.sid # att.sid
  BY <1>1, IngestStores
<1>3. PICK m \in Nat : m = Cardinality(Sides(att, a))
  BY SidesFinite
<1>4. PICK e : e = [i \in 1..m |-> att.id]
  OBVIOUS
<1>5. byAgent[a]' = byAgent[a] \o e
  BY <1>3, <1>4, Zenon DEF Ingest
<1>6. e \in Seq(Ids) /\ Len(e) = m /\ DOMAIN e = 1..m /\ \A i \in 1..m : e[i] = att.id
  BY <1>4 DEF Ids
<1>7. byAgent[a] \in Seq(Ids)
  BY DEF Counted
<1>8. PICK l \in Nat : l = Len(byAgent[a]) /\ DOMAIN byAgent[a] = 1..l
  BY <1>7
<1>9. /\ byAgent[a]' \in Seq(Ids) /\ Len(byAgent[a]') = l + m
      /\ DOMAIN byAgent[a]' = 1..(l + m)
      /\ \A k \in 1..l : byAgent[a]'[k] = byAgent[a][k]
      /\ \A k \in (l + 1)..(l + m) : byAgent[a]'[k] = att.id
  <2>1. PICK t \in Seq(Ids) : t = byAgent[a]
    BY <1>7
  <2>2. PICK r : r = t \o e
    OBVIOUS
  <2>0. /\ r \in Seq(Ids) /\ Len(r) = Len(t) + Len(e)
        /\ \A i \in 1..(Len(t) + Len(e)) : r[i] = IF i <= Len(t) THEN t[i] ELSE e[i - Len(t)]
    <3>1. /\ t \o e \in Seq(Ids) /\ Len(t \o e) = Len(t) + Len(e)
          /\ \A i \in 1..(Len(t) + Len(e)) : (t \o e)[i] = IF i <= Len(t) THEN t[i] ELSE e[i - Len(t)]
      BY <1>6, ConcatProperties, Zenon
    <3> QED
      BY <2>2, <3>1, Zenon
  <2>3. /\ r \in Seq(Ids) /\ Len(r) = l + m /\ DOMAIN r = 1..(l + m)
        /\ \A k \in 1..l : r[k] = t[k]
    BY <1>6, <1>8, <2>0, <2>1
  <2>4. ASSUME NEW k \in (l + 1)..(l + m)
        PROVE  r[k] = att.id
    <3>1. k - l \in 1..m /\ k \in 1..(l + m) /\ ~(k <= l)
      OBVIOUS
    <3> QED
      BY <1>6, <1>8, <2>0, <2>1, <3>1
  <2> QED
    BY <1>5, <2>1, <2>2, <2>3, <2>4, Zenon
<1>10. Involving(a)' = {x \in Stored \union {att} : Sides(x, a) # {}}
  <2>1. Involving(a)' = {x \in Stored' : Sides(x, a) # {}}
    BY DEF Involving, Sides
  <2> QED
    BY <1>2, <2>1
<1>11. Involving(a) = {x \in Stored : Sides(x, a) # {}}
  BY DEF Involving
<1>12. \A k \in DOMAIN byAgent[a]' : \E x \in Involving(a)' : byAgent[a]'[k] = x.id
  <2>1. SUFFICES ASSUME NEW k \in 1..(l + m)
                 PROVE  \E x \in Involving(a)' : byAgent[a]'[k] = x.id
    BY <1>9, Zenon
  <2>2. CASE k \in 1..l
    <3>1. PICK x \in Involving(a) : byAgent[a][k] = x.id
      BY <1>8, <2>2, Zenon DEF Counted
    <3> QED
      BY <1>9, <1>10, <1>11, <2>2, <3>1
  <2>3. CASE k \in (l + 1)..(l + m)
    <3>1. m # 0
      BY <2>3
    <3>2. Sides(att, a) # {}
      BY <1>3, <3>1, SidesFinite
    <3> QED
      BY <1>9, <1>10, <2>3, <3>2
  <2> QED
    BY <2>2, <2>3
<1>14. \A x \in Involving(a)' : \E k \in DOMAIN byAgent[a]' : byAgent[a]'[k] = x.id
  <2>1. SUFFICES ASSUME NEW x \in Involving(a)'
                 PROVE  \E k \in 1..(l + m) : byAgent[a]'[k] = x.id
    BY <1>9, Zenon
  <2>2. CASE x \in Involving(a)
    <3>1. PICK k \in 1..l : byAgent[a][k] = x.id
      BY <1>8, <2>2, Zenon DEF Counted
    <3>2. k \in 1..(l + m)
      BY <3>1
    <3> QED
      BY <1>9, <3>1, <3>2, Zenon
  <2>3. CASE x \notin Involving(a)
    <3>1. x = att /\ Sides(att, a) # {}
      BY <1>10, <1>11, <2>1, <2>3
    <3>2. m # 0
      BY <1>3, <3>1, SidesFinite
    <3>3. l + 1 \in (l + 1)..(l + m) /\ l + 1 \in 1..(l + m)
      BY <3>2
    <3> QED
      BY <1>9, <3>1, <3>3, Zenon
  <2> QED
    BY <2>2, <2>3
<1>13. ASSUME ~DealsWithItself(a)'
       PROVE  /\ Len(byAgent[a]') = Cardinality(Involving(a)')
              /\ Len(byAgent[a]') = Cardinality(SessionsOf(a)')
  <2>1. \A x \in Stored \union {att} : ~(Cardinality(Sides(x, a)) > 1)
    BY <1>2, <1>13 DEF DealsWithItself, Sides
  <2>2. ~DealsWithItself(a)
    BY <2>1 DEF DealsWithItself
  <2>3. l = Cardinality(Involving(a)) /\ l = Cardinality(SessionsOf(a))
    BY <1>8, <2>2 DEF Counted
  <2>4. CASE Sides(att, a) = {} /\ Cardinality(Sides(att, a)) = 0
    <3>1. Involving(a)' = Involving(a)
      BY <1>10, <1>11, <2>4
    <3>2. SessionsOf(a)' = SessionsOf(a)
      BY <3>1 DEF SessionsOf
    <3>4. Len(byAgent[a]') = l
      BY <1>3, <1>9, <2>4
    <3>3. Len(byAgent[a]') = l /\ Cardinality(Involving(a)') = l /\ Cardinality(SessionsOf(a)') = l
      BY <2>3, <3>1, <3>2, <3>4, Zenon
    <3> QED
      BY <3>3, Zenon
  <2>5. CASE Cardinality(Sides(att, a)) = 1 /\ \E i \in DOMAIN att.parties : Sides(att, a) = {i}
    <3>1. Involving(a)' = Involving(a) \union {att}
      BY <1>10, <1>11, <2>5
    <3>2. SessionsOf(a)' = SessionsOf(a) \union {att.sid}
      BY <3>1 DEF SessionsOf
    <3>3. att \notin Involving(a) /\ att.sid \notin SessionsOf(a)
      BY <1>2, <1>11 DEF SessionsOf
    <3>4. /\ Cardinality(Involving(a)') = l + 1
          /\ Cardinality(SessionsOf(a)') = l + 1
      <4>1. /\ Cardinality(Involving(a) \union {att}) = l + 1
            /\ Cardinality(SessionsOf(a) \union {att.sid}) = l + 1
        BY <2>3, <3>3, InvolvingFinite, FS_AddElement, ZenonT(30)
      <4> QED
        BY <3>1, <3>2, <4>1, Zenon
    <3>5. Len(byAgent[a]') = l + 1
      BY <1>3, <1>9, <2>5
    <3> QED
      BY <3>4, <3>5, Zenon
  <2> QED
    BY <2>1, <2>4, <2>5, OneSide
<1> QED
  BY <1>9, <1>12, <1>13, <1>14

LEMMA CountedKept == Spec => []Counted
<1>1. Init => Counted
  <2>1. SUFFICES ASSUME Init, NEW a \in Agents
                 PROVE  /\ byAgent[a] \in Seq(Ids)
                        /\ DOMAIN byAgent[a] = {}
                        /\ Involving(a) = {}
                        /\ Len(byAgent[a]) = Cardinality(Involving(a))
                        /\ Len(byAgent[a]) = Cardinality(SessionsOf(a))
    BY DEF Counted
  <2>2. byId = <<>> /\ byAgent[a] = <<>>
    BY <2>1 DEF Init
  <2>3. Involving(a) = {} /\ SessionsOf(a) = {}
    BY <2>2 DEF Involving, Stored, SessionsOf
  <2> QED
    BY <2>2, <2>3, FS_EmptySet
<1>2. Recorded /\ Counted /\ [Next]_vars => Counted'
  <2>1. SUFFICES ASSUME Recorded, Counted, [Next]_vars PROVE Counted'
    OBVIOUS
  <2>2. CASE Next
    <3>1. PICK att \in Submissions : Ingest(att)
      BY <2>2 DEF Next
    <3> QED
      BY <2>1, <3>1, IngestCounts DEF Counted
  <2>3. CASE UNCHANGED vars
    <3>1. byId' = byId /\ byAgent' = byAgent
      BY <2>3 DEF vars
    <3>2. Stored' = Stored
      BY <3>1 DEF Stored
    <3>3. \A a \in Agents : /\ Involving(a)' = Involving(a)
                            /\ DealsWithItself(a)' <=> DealsWithItself(a)
      BY <3>2, Zenon DEF Involving, DealsWithItself
    <3>4. \A a \in Agents : SessionsOf(a)' = SessionsOf(a)
      BY <3>3, Zenon DEF SessionsOf
    <3> QED
      BY <2>1, <3>1, <3>3, <3>4, Zenon DEF Counted
  <2> QED
    BY <2>1, <2>2, <2>3
<1> QED
  BY <1>1, <1>2, RecordedKept, PTL DEF Spec

(***************************************************************************)
(* What is counted                                                         *)
(***************************************************************************)

\* What the store returns for an agent is what is stored of it.
LEMMA EntriesAreRecords ==
  ASSUME Recorded, Counted, NEW a \in Agents
  PROVE  /\ Len(byAgent[a]) \in Nat
         /\ DOMAIN GetByAgent(a) = 1..Len(byAgent[a])
         /\ \A k \in 1..Len(byAgent[a]) :
              GetByAgent(a)[k].att \in Involving(a) /\ GetByAgent(a)[k] \in Record
<1>1. PICK l \in Nat : l = Len(byAgent[a]) /\ DOMAIN byAgent[a] = 1..l
  BY DEF Counted
<1>2. /\ DOMAIN GetByAgent(a) = 1..l
      /\ \A k \in 1..l : GetByAgent(a)[k] = Get(byAgent[a][k])
  BY <1>1 DEF GetByAgent
<1>3. ASSUME NEW k \in 1..l
      PROVE  Get(byAgent[a][k]).att \in Involving(a) /\ Get(byAgent[a][k]) \in Record
  <2>1. PICK att \in Involving(a) : byAgent[a][k] = att.id
    BY <1>1 DEF Counted
  <2>2. PICK j \in DOMAIN byId : byId[j].att = att
    BY DEF Involving, Stored
  <2>3. PICK id : id = byAgent[a][k]
    OBVIOUS
  <2>4. PICK i : i = CHOOSE x \in DOMAIN byId : byId[x].att.id = id
    OBVIOUS
  <2>5. i \in DOMAIN byId /\ byId[i].att.id = id
    BY <2>1, <2>2, <2>3, <2>4
  <2>6. i = j
    BY <2>1, <2>2, <2>3, <2>5 DEF Recorded
  <2>7. Get(id) = byId[i]
    BY <2>4 DEF Get
  <2>8. byId[i] \in Record
    BY <2>5 DEF Recorded
  <2> QED
    BY <2>2, <2>3, <2>6, <2>7, <2>8
<1> QED
  BY <1>1, <1>2, <1>3

\* How many numbers there are up to one.
LEMMA UpTo ==
  ASSUME NEW n \in Nat
  PROVE  IsFiniteSet(1..n) /\ Cardinality(1..n) = n
<1>1. IsFiniteSet(1..n)
  BY FS_Interval
<1>2. Cardinality(1..n) = IF 1 > n THEN 0 ELSE n - 1 + 1
  BY FS_Interval
<1> QED
  BY <1>1, <1>2

\* Where nothing is with itself, the entries of an agent are those of its sessions, one each.
LEMMA EntriesAreSessions ==
  ASSUME Recorded, Counted, NEW a \in Agents, ~DealsWithItself(a), NEW n \in Nat, n = Len(byAgent[a])
  PROVE  /\ n = Cardinality(SessionsOf(a))
         /\ \A k \in 1..n : GetByAgent(a)[k].att \in Involving(a)
         /\ \A att \in Involving(a) : \E k \in 1..n : GetByAgent(a)[k].att = att
         /\ \A k, l \in 1..n : GetByAgent(a)[k].att.sid = GetByAgent(a)[l].att.sid => k = l
<1>1. DOMAIN byAgent[a] = 1..n
  BY DEF Counted
<1>2. PICK rs : rs = GetByAgent(a)
  OBVIOUS
<1>3. \A k \in 1..n : rs[k].att \in Involving(a)
  BY <1>2, EntriesAreRecords
<1>4. ASSUME NEW att \in Involving(a)
      PROVE  \E k \in 1..n : rs[k].att = att
  <2>1. PICK k \in 1..n : byAgent[a][k] = att.id
    BY <1>1 DEF Counted
  <2>2. PICK j \in DOMAIN byId : byId[j].att = att
    BY DEF Involving, Stored
  <2>3. PICK i : i = CHOOSE x \in DOMAIN byId : byId[x].att.id = att.id
    OBVIOUS
  <2>4. i \in DOMAIN byId /\ byId[i].att.id = att.id
    BY <2>2, <2>3
  <2>5. i = j
    BY <2>2, <2>4 DEF Recorded
  <2>6. rs[k] = byId[i]
    <3>1. rs[k] = Get(byAgent[a][k])
      BY <1>1, <1>2 DEF GetByAgent
    <3>2. Get(att.id) = byId[i]
      BY <2>3 DEF Get
    <3> QED
      BY <2>1, <3>1, <3>2
  <2> QED
    BY <2>2, <2>5, <2>6
<1>5. n = Cardinality(SessionsOf(a))
  BY DEF Counted
<1>6. ASSUME NEW k \in 1..n, NEW l \in 1..n, rs[k].att.sid = rs[l].att.sid
      PROVE  k = l
  <2>1. PICK f : f = [i \in 1..n |-> rs[i].att.sid]
    OBVIOUS
  <2>2. f \in [1..n -> SessionsOf(a)]
    BY <1>3, <2>1 DEF SessionsOf
  <2>3. \A t \in SessionsOf(a) : \E i \in 1..n : f[i] = t
    BY <1>4, <2>1 DEF SessionsOf
  <2>4. f \in Surjection(1..n, SessionsOf(a))
    BY <2>2, <2>3 DEF Surjection
  <2>5. IsFiniteSet(1..n) /\ Cardinality(SessionsOf(a)) = Cardinality(1..n)
    BY <1>5, UpTo
  <2>6. f \in Injection(1..n, SessionsOf(a))
    BY <2>4, <2>5, FS_Surjection, Zenon
  <2>7. f[k] = f[l]
    BY <1>6, <2>1
  <2> QED
    BY <2>6, <2>7 DEF Injection, IsInjective
<1> QED
  BY <1>2, <1>3, <1>4, <1>5, <1>6

\* An agent was in a session in one role.
LEMMA OneRole ==
  ASSUME Recorded, Counted, NEW a \in Agents, ~DealsWithItself(a), NEW role, NEW other,
         SessionsAs(a, role) \intersect SessionsAs(a, other) # {}
  PROVE  role = other
<1>1. PICK sid : sid \in SessionsAs(a, role) /\ sid \in SessionsAs(a, other)
  OBVIOUS
<1>2. PICK x \in Involving(a) : x.sid = sid /\ \E i \in Sides(x, a) : x.parties[i].role = role
  BY <1>1 DEF SessionsAs
<1>3. PICK y \in Involving(a) : y.sid = sid /\ \E i \in Sides(y, a) : y.parties[i].role = other
  BY <1>1 DEF SessionsAs
<1>4. x = y
  <2>1. PICK n \in Nat : n = Len(byAgent[a])
    BY EntriesAreRecords
  <2>2. PICK k \in 1..n : GetByAgent(a)[k].att = x
    BY <2>1, EntriesAreSessions
  <2>3. PICK l \in 1..n : GetByAgent(a)[l].att = y
    BY <2>1, EntriesAreSessions
  <2>4. k = l
    BY <1>2, <1>3, <2>1, <2>2, <2>3, EntriesAreSessions
  <2> QED
    BY <2>2, <2>3, <2>4
<1>5. x \in Submissions /\ ~(Cardinality(Sides(x, a)) > 1) /\ Sides(x, a) # {}
  BY StoredAreSubmitted DEF Involving, DealsWithItself
<1>6. PICK i \in DOMAIN x.parties : Sides(x, a) = {i}
  BY <1>5, OneSide
<1>7. x.parties[i].role = role
  BY <1>2, <1>6
<1>8. x.parties[i].role = other
  BY <1>3, <1>4, <1>6
<1> QED
  BY <1>7, <1>8

\* How many entries have a role is how many sessions have.
LEMMA RoleCounts ==
  ASSUME Recorded, Counted, NEW a \in Agents, ~DealsWithItself(a), NEW n \in Nat, n = Len(byAgent[a]),
         NEW role, NEW K, K = {k \in 1..n : HadRole(GetByAgent(a)[k], a, role)}
  PROVE  Cardinality(K) = Cardinality(SessionsAs(a, role))
<1>1. PICK rs : rs = GetByAgent(a)
  OBVIOUS
<1>2. /\ \A k \in 1..n : rs[k].att \in Involving(a)
      /\ \A att \in Involving(a) : \E k \in 1..n : rs[k].att = att
  BY <1>1, EntriesAreSessions
<1>3. \A k, l \in 1..n : rs[k].att.sid = rs[l].att.sid => k = l
  BY <1>1, EntriesAreSessions
<1>4. \A k \in K : k \in 1..n /\ \E i \in Sides(rs[k].att, a) : rs[k].att.parties[i].role = role
  BY <1>1 DEF HadRole, Sides
<1>5. \A k \in 1..n : (\E i \in Sides(rs[k].att, a) : rs[k].att.parties[i].role = role) => k \in K
  BY <1>1 DEF HadRole, Sides
<1>6. PICK f : f = [k \in K |-> rs[k].att.sid]
  OBVIOUS
<1>7. f \in [K -> SessionsAs(a, role)]
  <2>1. \A k \in K : rs[k].att.sid \in SessionsAs(a, role)
    BY <1>2, <1>4 DEF SessionsAs
  <2> QED
    BY <1>6, <2>1
<1>8. \A t \in SessionsAs(a, role) : \E k \in K : f[k] = t
  <2> SUFFICES ASSUME NEW t \in SessionsAs(a, role) PROVE \E k \in K : f[k] = t
    OBVIOUS
  <2>1. PICK x \in Involving(a) : x.sid = t /\ \E i \in Sides(x, a) : x.parties[i].role = role
    BY DEF SessionsAs
  <2>2. PICK k \in 1..n : rs[k].att = x
    BY <1>2
  <2>3. k \in K
    BY <1>5, <2>1, <2>2
  <2> QED
    BY <1>6, <2>1, <2>2, <2>3
<1>9. f \in Surjection(K, SessionsAs(a, role))
  BY <1>7, <1>8 DEF Surjection
<1>10. f \in Injection(K, SessionsAs(a, role))
  BY <1>3, <1>4, <1>6, <1>7 DEF Injection, IsInjective
<1>11. IsFiniteSet(K)
  BY UpTo, FS_Subset
<1> QED
  BY <1>9, <1>10, <1>11, FS_Surjection, Zenon

\* The roles in use share an agent's record out between them: each session it was in is counted
\* once, under the role it had there and no other, whatever came twice, under another id, or
\* was refused.
THEOREM SessionsCountOnce == Spec => []EachSessionCountsOnce
<1>1. Recorded /\ Counted => EachSessionCountsOnce
  <2>1. SUFFICES ASSUME Recorded, Counted, NEW a \in Agents, ~DealsWithItself(a)
                 PROVE  /\ Handle(a, Anything).count = Cardinality(SessionsOf(a))
                        /\ \A role \in RolesInUse :
                             Handle(a, [Anything EXCEPT !.role = role]).count = Cardinality(SessionsAs(a, role))
                        /\ \A role, other \in RolesInUse \union {None} :
                             SessionsAs(a, role) \intersect SessionsAs(a, other) # {} => role = other
    BY Zenon DEF EachSessionCountsOnce
  <2>2. PICK n \in Nat : n = Len(byAgent[a])
    BY <2>1, EntriesAreRecords
  <2>3. DOMAIN GetByAgent(a) = 1..n
    BY <2>1, <2>2, EntriesAreRecords
  <2>4. n = Cardinality(SessionsOf(a))
    BY <2>1, <2>2, EntriesAreSessions
  <2>5. Handle(a, Anything).count = n
    <3>1. Handle(a, Anything).count = Cardinality({k \in 1..n : Passes(GetByAgent(a)[k], a, Anything)})
      BY <2>3, AnswerCounts
    <3>2. \A r : Passes(r, a, Anything)
      BY DEF Passes, Anything
    <3>3. {k \in 1..n : Passes(GetByAgent(a)[k], a, Anything)} = 1..n
      BY <3>2
    <3>4. Cardinality(1..n) = n
      BY UpTo
    <3> QED
      BY <3>1, <3>3, <3>4, Zenon
  <2>6. ASSUME NEW role \in RolesInUse
        PROVE  Handle(a, [Anything EXCEPT !.role = role]).count = Cardinality(SessionsAs(a, role))
    <3>1. PICK q : q = [Anything EXCEPT !.role = role]
      OBVIOUS
    <3>2. q.category = None /\ q.range = None /\ q.role = role
      BY <3>1 DEF Anything
    <3>3. role # None
      BY Zenon DEF RolesInUse
    <3>4. \A r : Passes(r, a, q) <=> HadRole(r, a, role)
      BY <3>2, <3>3, Zenon DEF Passes
    <3>5. Handle(a, q).count = Cardinality({k \in 1..n : Passes(GetByAgent(a)[k], a, q)})
      BY <2>3, AnswerCounts
    <3>6. PICK K : K = {k \in 1..n : HadRole(GetByAgent(a)[k], a, role)}
      OBVIOUS
    <3>7. {k \in 1..n : Passes(GetByAgent(a)[k], a, q)} = K
      BY <3>4, <3>6
    <3>8. Cardinality(K) = Cardinality(SessionsAs(a, role))
      BY <2>1, <2>2, <3>6, RoleCounts
    <3> QED
      BY <3>1, <3>5, <3>7, <3>8, Zenon
  <2>7. \A role, other : SessionsAs(a, role) \intersect SessionsAs(a, other) # {} => role = other
    BY <2>1, OneRole, Zenon
  <2> QED
    BY <2>4, <2>5, <2>6, <2>7, Zenon
<1> QED
  BY <1>1, RecordedKept, CountedKept, PTL

(***************************************************************************)
(* Loops                                                                   *)
(***************************************************************************)

\* An agent's counterparties are whom it met in what is stored.
Met == \A a \in Agents : counterparties[a] = UNION {Opposite(att, a) : att \in Stored}

LEMMA MetKept == Spec => []Met
<1>1. Init => Met
  <2>1. SUFFICES ASSUME Init, NEW a \in Agents
                 PROVE  counterparties[a] = UNION {Opposite(att, a) : att \in Stored}
    BY DEF Met
  <2>2. Stored = {} /\ counterparties[a] = {}
    BY <2>1 DEF Init, Stored
  <2> QED
    BY <2>2
<1>2. Recorded /\ Met /\ [Next]_vars => Met'
  <2>1. SUFFICES ASSUME Recorded, Met, [Next]_vars, NEW a \in Agents
                 PROVE  counterparties'[a] = UNION {Opposite(att, a) : att \in Stored'}
    BY DEF Met, Opposite, Sides
  <2>2. counterparties[a] = UNION {Opposite(att, a) : att \in Stored}
    BY <2>1 DEF Met
  <2>3. CASE Next
    <3>1. PICK att \in Submissions : Ingest(att)
      BY <2>3 DEF Next
    <3>2. PICK n \in Nat : n = Len(byId)
      BY <2>1 DEF Recorded
    <3>3. Stored' = Stored \union {att}
      BY <2>1, <3>1, <3>2, IngestStores
    <3>4. counterparties'[a] = counterparties[a] \union Opposite(att, a)
      BY <3>1 DEF Ingest
    <3> QED
      BY <2>2, <3>3, <3>4
  <2>4. CASE UNCHANGED vars
    <3>1. Stored' = Stored /\ counterparties' = counterparties
      BY <2>4 DEF Stored, vars
    <3> QED
      BY <2>2, <3>1
  <2> QED
    BY <2>1, <2>3, <2>4
<1> QED
  BY <1>1, <1>2, RecordedKept, PTL DEF Spec

\* Two on one side each meet one another, and only.
LEMMA TwoMeet ==
  ASSUME NEW att \in Submissions, NEW a, NEW b, a # b,
         Len(att.parties) = 2, Pair(att) = {a, b}
  PROVE  /\ Sides(att, a) # {} /\ Opposite(att, a) = {b}
         /\ ~(Cardinality(Sides(att, a)) > 1)
<1>1. PICK p : p = att.parties /\ DOMAIN p = 1..2
  BY SidesFinite
<1>2. 1 \in 1..2 /\ 2 \in 1..2 /\ \A i \in 1..2 : i = 1 \/ i = 2
  OBVIOUS
<1>3. Pair(att) = {p[1].agent, p[2].agent}
  BY <1>1, <1>2 DEF Pair
<1>4. \/ p[1].agent = a /\ p[2].agent = b
      \/ p[1].agent = b /\ p[2].agent = a
  BY <1>3
<1>5. \E i, j \in 1..2 : i # j /\ p[i].agent = a /\ p[j].agent = b /\ Sides(att, a) = {i} /\ 1..2 = {i, j}
  BY <1>1, <1>2, <1>4 DEF Sides
<1>6. PICK i \in 1..2, j \in 1..2 :
        i # j /\ p[i].agent = a /\ p[j].agent = b /\ Sides(att, a) = {i} /\ 1..2 = {i, j}
  BY <1>5
<1>7. Opposite(att, a) = {b}
  <2>1. {k \in DOMAIN att.parties : Sides(att, a) \ {k} # {}} = {j}
    BY <1>1, <1>6
  <2> QED
    BY <1>1, <1>6, <2>1 DEF Opposite
<1>8. Cardinality(Sides(att, a)) = 1
  BY <1>6, FS_Singleton
<1> QED
  BY <1>6, <1>7, <1>8

MeetsOnly(att, a, b) == \A z \in Opposite(att, a) : z = b

\* On the other sides than its own is whom an agent meets.
LEMMA Across ==
  ASSUME NEW att, NEW k \in DOMAIN att.parties, NEW l \in DOMAIN att.parties, l # k
  PROVE  att.parties[l].agent \in Opposite(att, att.parties[k].agent)
<1>1. k \in Sides(att, att.parties[k].agent) \ {l}
  BY DEF Sides
<1> QED
  BY <1>1 DEF Opposite

\* Whoever meets one other only is in twos with it.
LEMMA OnlyTwo ==
  ASSUME NEW att \in Submissions, NEW a, NEW b, a # b,
         MeetsOnly(att, a, b), MeetsOnly(att, b, a),
         Sides(att, a) # {}, Len(att.parties) >= 2
  PROVE  Len(att.parties) = 2 /\ Pair(att) = {a, b}
<1>1. PICK n \in Nat : n = Len(att.parties) /\ DOMAIN att.parties = 1..n /\ n >= 2
  BY SidesFinite
<1>2. PICK i \in DOMAIN att.parties : att.parties[i].agent = a
  BY <1>1 DEF Sides
<1>3. PICK j \in DOMAIN att.parties : j # i
  <2>1. 1 \in 1..n /\ 2 \in 1..n /\ 1 # 2
    BY <1>1
  <2> QED
    BY <1>1, <2>1
<1>4. \A k \in DOMAIN att.parties : k # i => att.parties[k].agent = b
  BY <1>2, Across DEF MeetsOnly
<1>5. att.parties[j].agent = b
  BY <1>3, <1>4
<1>6. \A k \in DOMAIN att.parties : k = i \/ k = j
  <2>1. \A k \in DOMAIN att.parties : k # j => att.parties[k].agent = a
    BY <1>5, Across DEF MeetsOnly
  <2> QED
    BY <1>4, <2>1
<1>7. Pair(att) = {a, b}
  BY <1>1, <1>2, <1>5, <1>6 DEF Pair
<1>8. n = 2
  <2>0. n \in Nat /\ n >= 2
    BY <1>1
  <2>1. SUFFICES ASSUME n # 2 PROVE FALSE
    OBVIOUS
  <2>2. 1 \in 1..n /\ 2 \in 1..n /\ 3 \in 1..n
    BY <2>0, <2>1
  <2>3. (1 = i \/ 1 = j) /\ (2 = i \/ 2 = j) /\ (3 = i \/ 3 = j)
    BY <1>1, <1>6, <2>2
  <2> QED
    BY <2>3
<1> QED
  BY <1>1, <1>7, <1>8

\* Against what is stored, the signal of a step is the property's.
Touching(pair) == {x \in Stored : Pair(x) \intersect pair # {}}

LEMMA SignalIsRight ==
  ASSUME Recorded, Counted, Met, NEW att \in Submissions, Valid(att),
         Len(att.parties) = 2, Cardinality(Pair(att)) = 2
  PROVE  ClosedLoop(att) <=>
           /\ Cardinality(Touching(Pair(att))) >= LoopHistory
           /\ \A x \in Touching(Pair(att)) : Pair(x) = Pair(att) /\ Len(x.parties) = 2
<1>1. PICK a, b : a = att.parties[1].agent /\ b = att.parties[2].agent
  OBVIOUS
<1>2. DOMAIN att.parties = 1..2 /\ 1 \in 1..2 /\ 2 \in 1..2 /\ \A i \in 1..2 : i = 1 \/ i = 2
  BY SidesFinite
<1>3. Pair(att) = {a, b}
  BY <1>1, <1>2 DEF Pair
<1>4. a # b
  <2>1. SUFFICES ASSUME a = b PROVE FALSE
    OBVIOUS
  <2>2. Pair(att) = {a}
    BY <1>3, <2>1
  <2>3. Cardinality(Pair(att)) = 1
    BY <2>2, FS_Singleton
  <2> QED
    BY <2>3
<1>5. a \in Agents /\ b \in Agents
  BY <1>1, <1>2, ReputationAssumption DEF Valid
<1>6. \A x \in Stored : x \in Submissions /\ Len(x.parties) \in Nat /\ Len(x.parties) >= 2
  <2>1. SUFFICES ASSUME NEW i \in DOMAIN byId PROVE Len(byId[i].att.parties) >= 2
    BY StoredAreSubmitted, SidesFinite DEF Stored
  <2> QED
    BY <2>1 DEF Recorded, Valid
<1>7. ClosedLoop(att) <=> /\ counterparties[a] = {b} /\ counterparties[b] = {a}
                          /\ Len(byAgent[a]) >= LoopHistory /\ Len(byAgent[b]) >= LoopHistory
  BY <1>1, <1>4 DEF ClosedLoop, AgentCount
<1>8. \A x \in Stored : x \in Touching(Pair(att)) <=> Sides(x, a) # {} \/ Sides(x, b) # {}
  BY <1>3 DEF Touching, Pair, Sides
<1>9. ASSUME \A x \in Touching(Pair(att)) : Pair(x) = Pair(att) /\ Len(x.parties) = 2
      PROVE  /\ Involving(a) = Touching(Pair(att)) /\ Involving(b) = Touching(Pair(att))
             /\ ~DealsWithItself(a) /\ ~DealsWithItself(b)
             /\ Len(byAgent[a]) = Cardinality(Touching(Pair(att)))
             /\ Len(byAgent[b]) = Cardinality(Touching(Pair(att)))
  <2>1. \A x \in Touching(Pair(att)) :
          /\ Sides(x, a) # {} /\ ~(Cardinality(Sides(x, a)) > 1)
          /\ Sides(x, b) # {} /\ ~(Cardinality(Sides(x, b)) > 1)
    <3>1. SUFFICES ASSUME NEW x \in Touching(Pair(att))
                   PROVE  /\ Sides(x, a) # {} /\ ~(Cardinality(Sides(x, a)) > 1)
                          /\ Sides(x, b) # {} /\ ~(Cardinality(Sides(x, b)) > 1)
      OBVIOUS
    <3>2. x \in Submissions /\ Len(x.parties) = 2 /\ Pair(x) = {a, b} /\ Pair(x) = {b, a}
      BY <1>3, <1>6, <1>9 DEF Touching
    <3> QED
      BY <1>4, <3>2, TwoMeet
  <2>2. Involving(a) = Touching(Pair(att)) /\ Involving(b) = Touching(Pair(att))
    BY <1>8, <2>1 DEF Involving, Touching
  <2>3. \A x \in Stored \ Touching(Pair(att)) :
          ~(Cardinality(Sides(x, a)) > 1) /\ ~(Cardinality(Sides(x, b)) > 1)
    BY <1>8, FS_EmptySet, SMTT(30)
  <2>4. ~DealsWithItself(a) /\ ~DealsWithItself(b)
    BY <2>1, <2>3 DEF DealsWithItself
  <2>5. /\ Len(byAgent[a]) = Cardinality(Involving(a))
        /\ Len(byAgent[b]) = Cardinality(Involving(b))
    <3>1. \A x \in Agents : ~DealsWithItself(x) => Len(byAgent[x]) = Cardinality(Involving(x))
      BY Zenon DEF Counted
    <3> QED
      BY <1>5, <2>4, <3>1, Zenon
  <2> QED
    BY <2>2, <2>4, <2>5
<1>10. ASSUME ClosedLoop(att)
       PROVE  /\ Cardinality(Touching(Pair(att))) >= LoopHistory
              /\ \A x \in Touching(Pair(att)) : Pair(x) = Pair(att) /\ Len(x.parties) = 2
  <2>1. \A x \in Stored : MeetsOnly(x, a, b) /\ MeetsOnly(x, b, a)
    <3>1. UNION {Opposite(x, a) : x \in Stored} = {b} /\ UNION {Opposite(x, b) : x \in Stored} = {a}
      BY <1>5, <1>7, <1>10 DEF Met
    <3> QED
      BY <3>1 DEF MeetsOnly
  <2>2. ASSUME NEW x \in Touching(Pair(att))
        PROVE  Pair(x) = Pair(att) /\ Len(x.parties) = 2
    <3>1. x \in Stored /\ x \in Submissions /\ Len(x.parties) >= 2
      BY <1>6 DEF Touching
    <3>2. Sides(x, a) # {} \/ Sides(x, b) # {}
      BY <1>8, <3>1
    <3>3. CASE Sides(x, a) # {}
      <4>1. Len(x.parties) = 2 /\ Pair(x) = {a, b}
        BY <1>4, <2>1, <3>1, <3>3, OnlyTwo, Zenon
      <4> QED
        BY <1>3, <4>1
    <3>4. CASE Sides(x, b) # {}
      <4>1. Len(x.parties) = 2 /\ Pair(x) = {b, a}
        BY <1>4, <2>1, <3>1, <3>4, OnlyTwo, Zenon
      <4> QED
        BY <1>3, <4>1
    <3> QED
      BY <3>2, <3>3, <3>4
  <2>3. Len(byAgent[a]) = Cardinality(Touching(Pair(att)))
    BY <1>9, <2>2
  <2> QED
    BY <1>7, <1>10, <2>2, <2>3
<1>11. ASSUME /\ Cardinality(Touching(Pair(att))) >= LoopHistory
              /\ \A x \in Touching(Pair(att)) : Pair(x) = Pair(att) /\ Len(x.parties) = 2
       PROVE  ClosedLoop(att)
  <2>1. Touching(Pair(att)) # {}
    <3>1. SUFFICES ASSUME Touching(Pair(att)) = {} PROVE FALSE
      OBVIOUS
    <3>2. Cardinality(Touching(Pair(att))) = 0
      BY <3>1, FS_EmptySet, Zenon
    <3> QED
      BY <1>11, <3>2, ReputationAssumption
  <2>2. PICK y \in Touching(Pair(att)) : TRUE
    BY <2>1
  <2>3. \A x \in Touching(Pair(att)) : Opposite(x, a) = {b} /\ Opposite(x, b) = {a}
    <3>1. SUFFICES ASSUME NEW x \in Touching(Pair(att))
                   PROVE  Opposite(x, a) = {b} /\ Opposite(x, b) = {a}
      OBVIOUS
    <3>2. x \in Submissions /\ Len(x.parties) = 2 /\ Pair(x) = {a, b} /\ Pair(x) = {b, a}
      BY <1>3, <1>6, <1>11 DEF Touching
    <3> QED
      BY <1>4, <3>2, TwoMeet, SMTT(30)
  <2>4. \A x \in Stored \ Touching(Pair(att)) : Opposite(x, a) = {} /\ Opposite(x, b) = {}
    BY <1>8 DEF Opposite
  <2>5. y \in Stored
    BY DEF Touching
  <2>6. counterparties[a] = {b} /\ counterparties[b] = {a}
    <3>1. UNION {Opposite(x, a) : x \in Stored} = {b}
      BY <2>2, <2>3, <2>4, <2>5
    <3>2. UNION {Opposite(x, b) : x \in Stored} = {a}
      BY <2>2, <2>3, <2>4, <2>5
    <3> QED
      BY <1>5, <3>1, <3>2 DEF Met
  <2> QED
    BY <1>7, <1>9, <1>11, <2>6
<1> QED
  BY <1>10, <1>11

\* What the property says of one record, and what was stored before.
Flagged(r, before) ==
  LET touching == {x \in before : Pair(x) \intersect Pair(r.att) # {}}
  IN Len(r.att.parties) = 2 /\ Cardinality(Pair(r.att)) = 2 =>
       ("closed_loop" \in r.signals <=>
          /\ Cardinality(touching) >= LoopHistory
          /\ \A x \in touching : Pair(x) = Pair(r.att) /\ Len(x.parties) = 2)

LEMMA FlaggedIsAll ==
  /\ LoopsAreFlagged <=> \A i \in DOMAIN byId : Flagged(byId[i], Before(i))
  /\ LoopsAreFlagged' <=> \A i \in DOMAIN byId' : Flagged(byId'[i], Before(i)')
<1>1. LoopsAreFlagged <=> \A i \in DOMAIN byId : Flagged(byId[i], Before(i))
  BY Zenon DEF LoopsAreFlagged, Flagged
<1>2. LoopsAreFlagged' <=> \A i \in DOMAIN byId' : Flagged(byId'[i], Before(i)')
  BY Zenon DEF LoopsAreFlagged, Flagged, Pair
<1> QED
  BY <1>1, <1>2

\* When two agents have only ever dealt with each other, each on one side, every attestation
\* of theirs after the first LoopHistory is flagged, in whichever order they came; and a loop
\* is never seen where one of the two had dealt with somebody else, or with itself, before.
THEOREM ClosedLoopsFlagged == Spec => []LoopsAreFlagged
<1>1. Init => LoopsAreFlagged
  BY DEF Init, LoopsAreFlagged
<1>2. Recorded /\ Counted /\ Met /\ LoopsAreFlagged /\ [Next]_vars => LoopsAreFlagged'
  <2>1. SUFFICES ASSUME Recorded, Counted, Met, LoopsAreFlagged, [Next]_vars
                 PROVE  LoopsAreFlagged'
    OBVIOUS
  <2>2. CASE Next
    <3>1. PICK att \in Submissions : Ingest(att)
      BY <2>2 DEF Next
    <3>2. PICK n \in Nat : n = Len(byId)
      BY <2>1 DEF Recorded
    <3>3. /\ DOMAIN byId = 1..n /\ DOMAIN byId' = 1..(n + 1)
          /\ \A i \in 1..n : byId'[i] = byId[i]
          /\ byId'[n + 1] = [att |-> att, signals |-> Check(att)]
      BY <2>1, <3>1, <3>2, IngestStores
    <3>4. \A i \in 1..(n + 1) : Before(i)' = Before(i)
      <4>1. SUFFICES ASSUME NEW i \in 1..(n + 1) PROVE Before(i)' = Before(i)
        OBVIOUS
      <4>2. \A j \in 1..(i - 1) : byId'[j] = byId[j]
        BY <3>3
      <4> QED
        BY <4>2 DEF Before
    <3>5. Before(n + 1) = Stored
      BY <3>3 DEF Before, Stored
    <3>6. SUFFICES ASSUME NEW i \in 1..(n + 1) PROVE Flagged(byId'[i], Before(i)')
      BY <3>3, FlaggedIsAll
    <3>7. CASE i \in 1..n
      BY <2>1, <3>3, <3>4, <3>7, FlaggedIsAll
    <3>8. CASE i = n + 1
      <4>1. PICK r : r = byId'[i]
        OBVIOUS
      <4>2. r.att = att /\ ("closed_loop" \in r.signals <=> ClosedLoop(att))
        BY <3>3, <3>8, <4>1, RecordMade
      <4>3. Valid(att)
        BY <3>1 DEF Ingest
      <4>4. Flagged(r, Stored)
        BY <2>1, <4>2, <4>3, SignalIsRight, Zenon DEF Flagged, Touching
      <4> QED
        BY <3>4, <3>5, <3>8, <4>1, <4>4
    <3> QED
      BY <3>7, <3>8
  <2>3. CASE UNCHANGED vars
    <3>1. byId' = byId /\ \A i : Before(i)' = Before(i)
      BY <2>3 DEF Before, vars
    <3> QED
      BY <2>1, <3>1, FlaggedIsAll
  <2> QED
    BY <2>1, <2>2, <2>3
<1> QED
  BY <1>1, <1>2, RecordedKept, CountedKept, MetKept, PTL DEF Spec
(***************************************************************************)
(* Confidence                                                              *)
(***************************************************************************)

LEMMA Times ==
  ASSUME NEW x \in Nat, NEW y \in Nat, NEW b \in Nat, x <= y
  PROVE  x * b <= y * b
OBVIOUS

LEMMA TimesBack ==
  ASSUME NEW x \in Int, NEW y \in Int, NEW b \in Nat \ {0}, x * b < y * b
  PROVE  x < y
OBVIOUS

LEMMA Quotient ==
  ASSUME NEW x \in Nat, NEW b \in Nat \ {0}
  PROVE  /\ x \div b \in Nat
         /\ (x \div b) * b <= x /\ x < ((x \div b) * b) + b
OBVIOUS

\* A quotient grows by no more than what its dividend grows by, in the divisor, and not with
\* its divisor.
LEMMA QuotientGrows ==
  ASSUME NEW x \in Nat, NEW y \in Nat, NEW b \in Nat \ {0}, NEW c \in Nat \ {0},
         NEW d \in Nat, y <= x + (d * b), b <= c
  PROVE  y \div c <= (x \div b) + d
<1>1. PICK q \in Nat, r \in Nat : q = x \div b /\ r = y \div c
  BY Quotient
<1>2. x < (q * b) + b /\ r * c <= y
  BY <1>1, Quotient
<1>3. r * b <= r * c
  BY <1>1, Times
<1>4. r * b < ((q + d) + 1) * b
  <2>1. PICK u \in Nat, v \in Nat, w \in Nat, z \in Nat : u = r * b /\ v = r * c /\ w = q * b /\ z = d * b
    BY <1>1
  <2>2. u < w + z + b
    BY <1>2, <1>3, <2>1
  <2>3. ((q + d) + 1) * b = w + z + b
    BY <1>1, <2>1
  <2> QED
    BY <2>1, <2>2, <2>3
<1>5. r < (q + d) + 1
  BY <1>1, <1>4, TimesBack
<1> QED
  BY <1>1, <1>5

\* What flags leave of the confidence c, when f of t records are flagged.
Left(c, f, t) == c - ((c * 3 * f) \div (10 * t))

LEMMA LeftGrows ==
  ASSUME NEW c \in Nat, NEW d \in Nat, c <= d, NEW f \in Nat, NEW t \in Nat \ {0}, f <= t,
         NEW u \in Nat \ {0}, t <= u
  PROVE  Left(c, f, t) <= Left(d, f, u)
<1>1. PICK e \in Nat : d = c + e
  <2>1. d - c \in Nat /\ d = c + (d - c)
    OBVIOUS
  <2> QED
    BY <2>1
<1>2. PICK x \in Nat, y \in Nat, g \in Nat : x = c * 3 * f /\ y = d * 3 * f /\ g = 3 * f
  OBVIOUS
<1>3. PICK b \in Nat \ {0}, h \in Nat \ {0} : b = 10 * t /\ h = 10 * u
  OBVIOUS
<1>4. g <= b /\ b <= h
  BY <1>2, <1>3
<1>5. y = x + (g * e)
  BY <1>1, <1>2
<1>6. g * e <= b * e /\ b * e = e * b
  BY <1>4, Times
<1>7. y <= x + (e * b)
  BY <1>5, <1>6
<1>8. y \div h <= (x \div b) + e
  BY <1>4, <1>7, QuotientGrows
<1>9. x \div b \in Nat /\ y \div h \in Nat
  BY Quotient
<1>10. Left(c, f, t) = c - (x \div b) /\ Left(d, f, u) = d - (y \div h)
  BY <1>2, <1>3 DEF Left
<1> QED
  BY <1>1, <1>8, <1>9, <1>10

\* Kept apart: the provers are slow with large numbers.
LEMMA WholeIsNumber == Whole \in Nat
BY DEF Whole

\* Entries of a table of parts of the whole; an entry of one that is at its bound beyond l.
Table(v, l) == \A k \in 1..l : v[k] \in 0..Whole
Entry(x, v, l, n) == /\ n >= l => x = Whole
                     /\ n < l => x = v[n + 1]

LEMMA EntryIsPart ==
  ASSUME NEW l \in Nat, NEW v, Table(v, l), NEW n \in Nat, NEW x, Entry(x, v, l, n)
  PROVE  x \in 0..Whole
<1>1. CASE n >= l
  BY <1>1, WholeIsNumber DEF Entry
<1>2. CASE n < l
  <2>1. n + 1 \in 1..l
    BY <1>2
  <2>2. v[n + 1] \in 0..Whole
    BY <2>1 DEF Table
  <2>3. x = v[n + 1]
    BY <1>2 DEF Entry
  <2> QED
    BY <2>2, <2>3
<1> QED
  BY <1>1, <1>2

\* A table that grows up to its end, and is at its bound from there on, never decreases.
LEMMA TableGrows ==
  ASSUME NEW l \in Nat, NEW v, Table(v, l),
         NEW n \in Nat, NEW m \in Nat, n <= m, m < l => v[n + 1] <= v[m + 1],
         NEW x, Entry(x, v, l, n), NEW y, Entry(y, v, l, m)
  PROVE  x \in 0..Whole /\ y \in 0..Whole /\ x <= y
<1>1. x \in 0..Whole /\ y \in 0..Whole
  BY EntryIsPart
<1>2. CASE m >= l
  <2>1. y = Whole
    BY <1>2 DEF Entry
  <2> QED
    BY <1>1, <2>1
<1>3. CASE m < l
  <2>1. v[n + 1] <= v[m + 1]
    BY <1>3
  <2>2. x = v[n + 1] /\ y = v[m + 1]
    BY <1>3 DEF Entry
  <2> QED
    BY <1>1, <2>1, <2>2
<1> QED
  BY <1>2, <1>3

\* The logarithms of scorer.py never decrease.
LEMMA VolumeGrows ==
  ASSUME NEW n \in Nat, NEW m \in Nat, m = n + 1
  PROVE  Volume(n) \in 0..Whole /\ Volume(m) \in 0..Whole /\ Volume(n) <= Volume(m)
<1>1. Table(Volumes, 50)
  <2>1. \A k \in 1..50 : Volumes[k] \in Int
    BY DEF Volumes
  <2>2. \A k \in 1..50 : Volumes[k] <= Whole
    BY DEF Volumes, Whole
  <2>3. \A k \in 1..50 : 0 <= Volumes[k]
    BY DEF Volumes
  <2> QED
    BY <2>1, <2>2, <2>3 DEF Table
<1>2. m < 50 => Volumes[n + 1] <= Volumes[m + 1]
  <2>1. \A j \in 1..50, k \in 1..50 : k = j + 1 => Volumes[j] <= Volumes[k]
    BY DEF Volumes
  <2>2. SUFFICES ASSUME m < 50 PROVE Volumes[n + 1] <= Volumes[m + 1]
    OBVIOUS
  <2>3. n + 1 \in 1..50 /\ m + 1 \in 1..50 /\ m + 1 = (n + 1) + 1
    BY <2>2
  <2> QED
    BY <2>1, <2>3
<1>3. Len(Volumes) = 50
  BY DEF Volumes
<1>4. Entry(Volume(n), Volumes, 50, n) /\ Entry(Volume(m), Volumes, 50, m)
  BY <1>3 DEF Entry, Volume
<1>5. n <= m
  OBVIOUS
<1> QED
  BY <1>1, <1>2, <1>4, <1>5, TableGrows

LEMMA DiversityGrows ==
  ASSUME NEW n \in Nat, NEW m \in Nat, n <= m
  PROVE  Diversity(n) \in 0..Whole /\ Diversity(m) \in 0..Whole /\ Diversity(n) <= Diversity(m)
<1>1. Table(Diversities, 20)
  <2>1. \A k \in 1..20 : Diversities[k] \in Int
    BY DEF Diversities
  <2>2. \A k \in 1..20 : Diversities[k] <= Whole
    BY DEF Diversities, Whole
  <2>3. \A k \in 1..20 : 0 <= Diversities[k]
    BY DEF Diversities
  <2> QED
    BY <2>1, <2>2, <2>3 DEF Table
<1>2. m < 20 => Diversities[n + 1] <= Diversities[m + 1]
  <2>1. \A j \in 1..20, k \in 1..20 : j <= k => Diversities[j] <= Diversities[k]
    BY DEF Diversities
  <2>2. SUFFICES ASSUME m < 20 PROVE Diversities[n + 1] <= Diversities[m + 1]
    OBVIOUS
  <2>3. n + 1 \in 1..20 /\ m + 1 \in 1..20 /\ n + 1 <= m + 1
    BY <2>2
  <2> QED
    BY <2>1, <2>3
<1>3. Len(Diversities) = 20
  BY DEF Diversities
<1>4. Entry(Diversity(n), Diversities, 20, n) /\ Entry(Diversity(m), Diversities, 20, m)
  BY <1>3 DEF Entry, Diversity
<1> QED
  BY <1>1, <1>2, <1>4, TableGrows

LEMMA ConfidenceGrows ==
  ASSUME NEW s, NEW r, s.total \in Nat, r.total = s.total + 1,
         s.others \in Nat, r.others \in Nat, s.others <= r.others
  PROVE  Confidence(s) \in Nat /\ Confidence(r) \in Nat /\ Confidence(s) <= Confidence(r)
<1>1. PICK v \in 0..Whole, w \in 0..Whole : v = Volume(s.total) /\ w = Volume(r.total) /\ v <= w
  <2>1. PICK p \in Nat, q \in Nat : p = s.total /\ q = r.total /\ q = p + 1
    OBVIOUS
  <2>2. /\ Volume(p) \in 0..Whole /\ Volume(q) \in 0..Whole
        /\ Volume(p) <= Volume(q)
    BY <2>1, VolumeGrows
  <2> QED
    BY <2>1, <2>2
<1>2. PICK d \in 0..Whole, e \in 0..Whole : d = Diversity(s.others) /\ e = Diversity(r.others) /\ d <= e
  BY DiversityGrows
<1>3. /\ Confidence(s) = Capped(((6 * v) + (4 * d)) \div 10)
      /\ Confidence(r) = Capped(((6 * w) + (4 * e)) \div 10)
  BY <1>1, <1>2 DEF Confidence
<1>4. PICK p \in Nat, q \in Nat : p = (6 * v) + (4 * d) /\ q = (6 * w) + (4 * e) /\ p <= q
  <2>1. (6 * v) + (4 * d) \in Nat /\ (6 * w) + (4 * e) \in Nat
    OBVIOUS
  <2>2. (6 * v) + (4 * d) <= (6 * w) + (4 * e)
    BY <1>1, <1>2
  <2> QED
    BY <2>1, <2>2
<1>5. p \div 10 \in Nat /\ q \div 10 \in Nat /\ p \div 10 <= q \div 10
  BY <1>4
<1>6. Confidence(s) = Capped(p \div 10) /\ Confidence(r) = Capped(q \div 10)
  BY <1>3, <1>4
<1> QED
  BY <1>5, <1>6, WholeIsNumber DEF Capped

\* Whom an agent met in finitely many records is finitely many.
Parties(r) == {r.att.parties[j].agent : j \in DOMAIN r.att.parties}

LEMMA OthersFinite ==
  ASSUME NEW n \in Nat, NEW rs, DOMAIN rs = 1..n,
         \A i \in 1..n : rs[i].att \in Submissions, NEW a
  PROVE  IsFiniteSet(Others(rs, a)) /\ Cardinality(Others(rs, a)) \in Nat
<1>1. PICK each : each = {Parties(rs[i]) : i \in 1..n}
  OBVIOUS
<1>2. IsFiniteSet(each)
  <2>1. PICK f : f = [i \in 1..n |-> Parties(rs[i])]
    OBVIOUS
  <2>2. f \in Surjection(1..n, each)
    BY <1>1, <2>1 DEF Surjection
  <2> QED
    BY <2>2, UpTo, FS_Surjection, Zenon
<1>3. ASSUME NEW P \in each
      PROVE  IsFiniteSet(P)
  <2>1. PICK i \in 1..n : P = Parties(rs[i])
    BY <1>1
  <2>2. PICK p, l : p = rs[i].att.parties /\ l = Len(p)
    OBVIOUS
  <2>3. l \in Nat /\ DOMAIN p = 1..l
    BY <2>2, SidesFinite
  <2>4. PICK f : f = [j \in 1..l |-> p[j].agent]
    OBVIOUS
  <2>5. P = {p[j].agent : j \in 1..l}
    BY <2>1, <2>2, <2>3 DEF Parties
  <2>6. f \in Surjection(1..l, P)
    BY <2>4, <2>5 DEF Surjection
  <2> QED
    BY <2>3, <2>6, UpTo, FS_Surjection, Zenon
<1>4. IsFiniteSet(UNION each)
  BY <1>2, <1>3, FS_UNION
<1>5. Others(rs, a) \subseteq UNION each
  BY <1>1 DEF Others, Parties
<1>6. IsFiniteSet(Others(rs, a))
  BY <1>4, <1>5, FS_Subset, Zenon
<1> QED
  BY <1>6, FS_CardinalityType, Zenon

\* What one more record that is not flagged changes about the signals.
LEMMA SignalsGrow ==
  ASSUME NEW n \in Nat, n > 1, NEW rs, rs \in Seq(Record), Len(rs) = n, rs[n].signals = {},
         NEW fr, fr = Front(rs), NEW a,
         NEW s, s = ExtractSignals(fr, a), NEW r, r = ExtractSignals(rs, a)
  PROVE  /\ s.total = n - 1 /\ r.total = n
         /\ s.others \in Nat /\ r.others \in Nat /\ s.others <= r.others
         /\ s.flagged \in Nat /\ s.flagged <= n - 1 /\ r.flagged = s.flagged
<1>1. PICK m \in Nat : m = n - 1 /\ n = m + 1
  OBVIOUS
<1>2. DOMAIN rs = 1..n /\ \A i \in 1..n : rs[i] \in Record
  OBVIOUS
<1>3. fr \in Seq(Record) /\ Len(fr) = m /\ \A i \in 1..m : fr[i] = rs[i]
  <2>1. fr = SubSeq(rs, 1, m)
    BY <1>1 DEF Front
  <2>2. \A i \in 1..m : rs[i] \in Record
    BY <1>1, <1>2
  <2> QED
    BY <1>1, <2>1, <2>2, SubSeqProperties
<1>4. DOMAIN fr = 1..m
  BY <1>3
<1>5. \A i \in 1..n : rs[i].att \in Submissions
  BY <1>2 DEF Record
<1>6. \A i \in 1..m : fr[i].att \in Submissions
  BY <1>1, <1>3, <1>5
<1>7. /\ IsFiniteSet(Others(rs, a)) /\ Cardinality(Others(rs, a)) \in Nat
      /\ IsFiniteSet(Others(fr, a)) /\ Cardinality(Others(fr, a)) \in Nat
  BY <1>2, <1>4, <1>5, <1>6, OthersFinite
<1>8. Others(fr, a) \subseteq Others(rs, a)
  <2>1. 1..m \subseteq 1..n
    BY <1>1
  <2> QED
    BY <1>2, <1>3, <1>4, <2>1, SMTT(30) DEF Others
<1>9. Cardinality(Others(fr, a)) <= Cardinality(Others(rs, a))
  BY <1>7, <1>8, FS_Subset
<1>10. {i \in DOMAIN rs : rs[i].signals # {}} = {i \in DOMAIN fr : fr[i].signals # {}}
  <2>1. \A i \in 1..n : i \in 1..m \/ i = n
    BY <1>1
  <2>2. 1..m \subseteq 1..n
    BY <1>1
  <2> QED
    BY <1>2, <1>3, <1>4, <2>1, <2>2
<1>11. PICK F : F = {i \in DOMAIN fr : fr[i].signals # {}}
  OBVIOUS
<1>12. F \subseteq 1..m
  BY <1>4, <1>11
<1>13. IsFiniteSet(F) /\ Cardinality(F) <= Cardinality(1..m)
  BY <1>12, UpTo, FS_Subset
<1>14. Cardinality(F) \in Nat /\ Cardinality(F) <= m
  <2>1. Cardinality(F) \in Nat /\ Cardinality(1..m) = m
    BY <1>13, UpTo, FS_CardinalityType
  <2> QED
    BY <1>13, <2>1, Zenon
<1>15. /\ s.total = Len(fr) /\ s.others = Cardinality(Others(fr, a)) /\ s.flagged = Cardinality(F)
       /\ r.total = Len(rs) /\ r.others = Cardinality(Others(rs, a)) /\ r.flagged = Cardinality(F)
  BY <1>10, <1>11 DEF ExtractSignals
<1> QED
  BY <1>1, <1>3, <1>7, <1>9, <1>14, <1>15

LEMMA ScoreLeaves ==
  ASSUME NEW rs, rs # <<>>, NEW a, NEW s, s = ExtractSignals(rs, a)
  PROVE  ScoreOf(rs, a).confidence = Left(Confidence(s), s.flagged, s.total)
BY DEF ScoreOf, Left

\* Evidence nobody suspects never makes the service less sure of an agent, of whatever the
\* agent had come before (_compute_confidence and score).
THEOREM EvidenceReassures == Spec => []EvidenceBuildsConfidence
<1>1. Recorded /\ Counted => EvidenceBuildsConfidence
  <2>1. SUFFICES ASSUME Recorded, Counted, NEW a \in Agents,
                        NEW rs, rs = GetByAgent(a), Len(rs) > 1, Last(rs).signals = {}
                 PROVE  ScoreOf(rs, a).confidence >= ScoreOf(Front(rs), a).confidence
    BY DEF EvidenceBuildsConfidence
  <2>2. PICK n \in Nat : n = Len(byAgent[a]) /\ DOMAIN rs = 1..n
    BY <2>1, EntriesAreRecords
  <2>3. rs \in Seq(Record) /\ Len(rs) = n
    <3>1. \A k \in 1..n : rs[k] \in Record
      BY <2>1, <2>2, EntriesAreRecords
    <3>2. PICK g : g = [k \in DOMAIN byAgent[a] |-> Get(byAgent[a][k])]
      OBVIOUS
    <3>3. rs = g
      BY <2>1, <3>2 DEF GetByAgent
    <3>4. DOMAIN byAgent[a] = 1..n
      BY <2>2, <3>2, <3>3
    <3>5. \A k \in 1..n : Get(byAgent[a][k]) \in Record
      BY <3>1, <3>2, <3>3, <3>4
    <3> QED
      BY <3>2, <3>3, <3>4, <3>5
  <2>4. n > 1 /\ rs[n].signals = {}
    BY <2>1, <2>3 DEF Last
  <2>5. PICK fr, s, r : fr = Front(rs) /\ s = ExtractSignals(fr, a) /\ r = ExtractSignals(rs, a)
    OBVIOUS
  <2>6. /\ s.total = n - 1 /\ r.total = n
        /\ s.others \in Nat /\ r.others \in Nat /\ s.others <= r.others
        /\ s.flagged \in Nat /\ s.flagged <= n - 1 /\ r.flagged = s.flagged
    BY <2>3, <2>4, <2>5, SignalsGrow
  <2>7. PICK c \in Nat, d \in Nat : c = Confidence(s) /\ d = Confidence(r) /\ c <= d
    <3>1. s.total \in Nat /\ r.total = s.total + 1
      BY <2>4, <2>6
    <3> QED
      BY <2>6, <3>1, ConfidenceGrows
  <2>8. n - 1 \in Nat \ {0} /\ n \in Nat \ {0} /\ n - 1 <= n
    BY <2>4
  <2>9. PICK f \in Nat : f = s.flagged /\ f = r.flagged /\ f <= n - 1
    BY <2>6
  <2>10. Left(c, f, n - 1) <= Left(d, f, n)
    BY <2>7, <2>8, <2>9, LeftGrows
  <2>11. rs # <<>> /\ fr # <<>>
    <3>1. Len(rs) > 1
      BY <2>3, <2>4
    <3>2. s.total = Len(fr)
      BY <2>5 DEF ExtractSignals
    <3>3. Len(fr) # 0
      BY <2>6, <2>8, <3>2
    <3> QED
      BY <3>1, <3>3
  <2>12. /\ ScoreOf(rs, a).confidence = Left(d, f, n)
         /\ ScoreOf(fr, a).confidence = Left(c, f, n - 1)
    BY <2>5, <2>6, <2>7, <2>9, <2>11, ScoreLeaves
  <2> QED
    <3>1. Left(d, f, n) >= Left(c, f, n - 1)
      BY <2>10, <2>7, <2>8, <2>9
    <3> QED
      BY <2>5, <2>12, <3>1
<1> QED
  BY <1>1, RecordedKept, CountedKept, PTL
=============================================================================
