--------------------------- MODULE DiscoveryProofs ---------------------------
(***************************************************************************)
(* What TLAPS proves of the ways agents find one another, whatever the     *)
(* agents, contents, profiles and limits: the registry of Wants and Haves  *)
(* (module WantRegistry), and the peers met through profiles and proposals *)
(* (module Peers).                                                         *)
(*                                                                         *)
(* The registry takes three kinds of steps: an entry is posted, entries    *)
(* are dropped, an entry elapses; each part of its invariant is proved of  *)
(* each kind.  Of the peers, UprightAndForemost is the invariant behind    *)
(* the upgrades: what is upgraded comes before the others of its proposal. *)
(* Marked is behind the searches: the mark of a stored profile tells       *)
(* whether its signature was verified.                                     *)
(***************************************************************************)
EXTENDS WantRegistry, Peers, TLAPS, FiniteSetTheorems, SequenceTheorems, WellFoundedInduction

(***************************************************************************)
(* The first k of a finite set of numbers                                  *)
(***************************************************************************)

\* A set of naturals that is not empty has a least element.
LEMMA LeastNatural ==
  ASSUME NEW S, S \subseteq Nat, S # {}
  PROVE  \E x \in S : \A y \in S : x <= y
<1> DEFINE R == StrictSubsetOrdering(Nat)
           T == {0..x : x \in S}
<1>1. T \subseteq FiniteSubsetsOf(Nat) /\ T # {}
  <2>1. ASSUME NEW x \in S PROVE 0..x \in SUBSET Nat /\ IsFiniteSet(0..x)
    <3>1. x \in Int /\ 0 \in Int
      OBVIOUS
    <3>2. IsFiniteSet(0..x)
      BY <3>1, FS_Interval
    <3> QED
      BY <3>2
  <2> QED
    BY <2>1 DEF FiniteSubsetsOf
<1>2. IsWellFoundedOn(R, FiniteSubsetsOf(Nat))
  BY FS_StrictSubsetOrderingWellFounded
<1>3. PICK t \in T : \A u \in T : <<u, t>> \notin R
  <2> HIDE DEF R, T
  <2> QED
    BY <1>1, <1>2, WFMin
<1>4. PICK x \in S : t = 0..x
  OBVIOUS
<1>5. \A y \in S : x <= y
  <2> SUFFICES ASSUME NEW y \in S, y < x PROVE FALSE
    OBVIOUS
  <2>1. 0..y \subseteq 0..x /\ 0..y # 0..x /\ 0..y \in SUBSET Nat /\ 0..x \in SUBSET Nat
    OBVIOUS
  <2>2. <<0..y, 0..x>> \in R
    BY <2>1 DEF StrictSubsetOrdering
  <2> QED
    BY <1>3, <1>4, <2>2
<1> QED
  BY <1>4, <1>5

\* A bounded set of naturals that is not empty has a greatest element.
LEMMA GreatestNatural ==
  ASSUME NEW n \in Nat, NEW S, S \subseteq Nat, S # {}, \A x \in S : x <= n
  PROVE  \E m \in S : \A x \in S : x <= m
<1> DEFINE U == {m \in Nat : \A x \in S : x <= m}
<1>1. n \in U /\ U \subseteq Nat /\ U # {}
  OBVIOUS
<1>2. PICK m \in U : \A y \in U : m <= y
  <2> HIDE DEF U
  <2> QED
    BY <1>1, LeastNatural
<1>3. m \in Nat /\ \A x \in S : x <= m
  OBVIOUS
<1>4. ASSUME m \notin S PROVE FALSE
  <2>1. \A x \in S : x \in Nat /\ x <= m - 1
    BY <1>3, <1>4
  <2>2. m - 1 \in Nat
    <3>1. PICK x \in S : x \in Nat /\ x <= m - 1
      BY <2>1
    <3> QED
      BY <1>3, <3>1
  <2>3. m - 1 \in U
    BY <2>1, <2>2
  <2> QED
    BY <1>2, <1>3, <2>3
<1> QED
  BY <1>3, <1>4

\* The elements of F below o.
Below(F, o) == {p \in F : p < o}

\* They are those of F that are less.
LEMMA InBelow == ASSUME NEW F, NEW o, NEW p PROVE p \in Below(F, o) <=> p \in F /\ p < o
BY DEF Below

\* There are more below a greater one.
LEMMA BelowGrows ==
  ASSUME NEW F, F \subseteq Nat, IsFiniteSet(F), NEW o \in Nat, NEW p \in Nat, p <= o
  PROVE  Cardinality(Below(F, p)) <= Cardinality(Below(F, o))
<1>1. ASSUME NEW q \in Below(F, p) PROVE q \in Below(F, o)
  <2>1. q \in F /\ q < p /\ q \in Nat
    BY <1>1, InBelow
  <2> QED
    BY <2>1, InBelow
<1>2. Below(F, o) \subseteq F
  BY InBelow
<1>3. IsFiniteSet(Below(F, o))
  BY <1>2, FS_Subset
<1> QED
  BY <1>1, <1>3, FS_Subset

\* There are finitely many.
LEMMA BelowFinite ==
  ASSUME NEW F, IsFiniteSet(F), NEW o
  PROVE  IsFiniteSet(Below(F, o)) /\ Cardinality(Below(F, o)) \in Nat
<1>1. Below(F, o) \subseteq F
  BY InBelow
<1> QED
  BY <1>1, FS_Subset, FS_CardinalityType

\* The elements with fewer than k before them are no more than k, and just k when they
\* are not all.
LEMMA FirstOnes ==
  ASSUME NEW n \in Nat, NEW F, F \subseteq 1..n, NEW k \in Nat, NEW K, K \subseteq F,
         \A o \in F : o \in K <=> Cardinality(Below(F, o)) < k
  PROVE  /\ IsFiniteSet(K)
         /\ Cardinality(K) <= k
         /\ K # F => Cardinality(K) = k
<1>1. F \subseteq Nat /\ \A o \in F : o <= n
  OBVIOUS
<1>2. IsFiniteSet(F)
  <2>1. IsFiniteSet(1..n)
    BY FS_Interval
  <2> QED
    BY <2>1, FS_Subset
<1>3. IsFiniteSet(K) /\ Cardinality(K) \in Nat
  BY <1>2, FS_Subset, FS_CardinalityType
<1>4. Cardinality(K) <= k
  <2>1. CASE K = {}
    BY <2>1, FS_EmptySet
  <2>2. CASE K # {}
    <3>1. PICK m \in K : \A o \in K : o <= m
      BY <1>1, <2>2, GreatestNatural
    <3>2. Cardinality(Below(F, m)) < k /\ m \in F /\ m \in Nat
      BY <1>1
    <3>3. ASSUME NEW p \in Below(F, m) PROVE p \in K
      <4>0. p \in F /\ p < m
        BY <3>3, InBelow
      <4>1. p \in F /\ p \in Nat /\ p <= m
        BY <1>1, <3>2, <4>0
      <4>2. Cardinality(Below(F, p)) <= Cardinality(Below(F, m))
        BY <1>1, <1>2, <3>2, <4>1, BelowGrows
      <4>3. Cardinality(Below(F, p)) \in Nat /\ Cardinality(Below(F, m)) \in Nat
        BY <1>2, BelowFinite
      <4>4. Cardinality(Below(F, p)) < k
        BY <3>2, <4>2, <4>3
      <4> QED
        BY <4>1, <4>4
    <3>4. ASSUME NEW p \in K, p # m PROVE p \in Below(F, m)
      <4>1. p \in F /\ p \in Nat /\ p <= m
        BY <1>1, <3>1
      <4>2. p < m
        BY <3>2, <3>4, <4>1
      <4> QED
        BY <4>1, <4>2, InBelow
    <3>5. m \notin Below(F, m)
      BY <3>2, InBelow
    <3>6. K = Below(F, m) \union {m}
      BY <3>3, <3>4
    <3>7. Cardinality(K) = Cardinality(Below(F, m)) + 1
      BY <1>2, <3>5, <3>6, BelowFinite, FS_AddElement
    <3>8. Cardinality(Below(F, m)) \in Nat
      BY <1>2, BelowFinite
    <3> QED
      BY <3>2, <3>7, <3>8
  <2> QED
    BY <2>1, <2>2
<1>5. ASSUME K # F PROVE Cardinality(K) >= k
  <2>1. F \ K \subseteq Nat /\ F \ K # {}
    BY <1>1, <1>5
  <2>2. PICK o \in F \ K : \A y \in F \ K : o <= y
    BY <2>1, LeastNatural
  <2>3. ASSUME NEW p \in Below(F, o) PROVE p \in K
    <3>1. p \in F /\ p < o /\ p \in Nat /\ o \in Nat
      BY <1>1, <2>3, InBelow
    <3> QED
      BY <2>2, <3>1
  <2>4. Cardinality(Below(F, o)) <= Cardinality(K)
    BY <1>3, <2>3, FS_Subset
  <2>5. Cardinality(Below(F, o)) \in Nat
    BY <1>2, BelowFinite
  <2>6. ~(Cardinality(Below(F, o)) < k)
    BY <2>2
  <2> QED
    BY <1>3, <2>4, <2>5, <2>6
<1> QED
  BY <1>3, <1>4, <1>5

(***************************************************************************)
(* Kinds of steps                                                          *)
(***************************************************************************)

\* Types, with finite sets of numbers for entries.
Typed ==
  /\ entry \in Seq(Entry)
  /\ listed \subseteq Posted
  /\ index \in [Sides -> [Agents -> SUBSET Posted]]
  /\ matches \subseteq Posted \X Posted
  /\ told \subseteq Posted \X Posted
  /\ lapsed \subseteq Posted
  /\ raised \subseteq Posted

\* The entries of a side, and of an agent on a side, in a list of entries.
OnIn(e, s) == {i \in DOMAIN e : e[i].side = s}
OwnedIn(e, s, a) == {i \in DOMAIN e : e[i].side = s /\ e[i].agent = a}

\* The entries now, and after a step.
LEMMA OnOwned ==
  ASSUME NEW s, NEW a
  PROVE  /\ On(s) = OnIn(entry, s) /\ On(s)' = OnIn(entry', s)
         /\ Owned(s, a) = OwnedIn(entry, s, a) /\ Owned(s, a)' = OwnedIn(entry', s, a)
BY DEF On, Owned, OnIn, OwnedIn, Posted

StepPost == \E s \in Sides, a \in Agents, c \in Contents.want \union Contents.have, dead \in BOOLEAN :
              Post(s, a, c, dead)
StepDrop == /\ \E gone \in SUBSET listed : Drop(gone)
            /\ UNCHANGED <<entry, matches, lapsed, told, raised>>
StepLapse == /\ \E i \in Live : lapsed' = lapsed \union {i}
             /\ UNCHANGED <<entry, listed, index, matches, told, raised>>

\* Every action is one of these steps.
LEMMA Steps ==
  ASSUME [Next]_vars
  PROVE  StepPost \/ StepDrop \/ StepLapse \/ UNCHANGED vars
<1>1. ASSUME NEW s \in Sides, NEW a \in Agents, NEW c \in Contents[s], NEW dead \in Lives,
             Post(s, a, c, dead)
      PROVE  StepPost
  <2>1. c \in Contents.want \union Contents.have /\ dead \in BOOLEAN
    BY WantRegistryAssumption DEF Sides
  <2> QED
    BY <1>1, <2>1 DEF StepPost
<1>2. ASSUME NEW s \in Sides, NEW a \in Agents, PostRefused(s, a)
      PROVE  StepDrop
  BY <1>2 DEF PostRefused, Overdue, StepDrop
<1>3. ASSUME NEW s \in Sides, Browse(s) PROVE StepDrop
  BY <1>3 DEF Browse, Overdue, StepDrop
<1>4. ASSUME NEW i \in listed, NEW a \in Agents, Get(i) \/ Withdraw(i, a) PROVE StepDrop
  BY <1>4 DEF Get, Withdraw, StepDrop
<1>5. ASSUME NEW i \in listed, Get(i) PROVE StepDrop
  BY <1>5 DEF Get, StepDrop
<1>6. ASSUME NEW i \in listed, Lapse(i) PROVE StepLapse
  BY <1>6 DEF Lapse, StepLapse
<1>7. ASSUME Stats PROVE StepDrop
  BY <1>7 DEF Stats, StepDrop
<1> QED
  BY <1>1, <1>2, <1>3, <1>4, <1>5, <1>6, <1>7 DEF Next

\* The list of entries has grown by one, posted by agent a on side s.
Grown(s, a, new, longer) ==
  /\ new = Len(entry) + 1 /\ new \in Nat /\ new \notin Posted /\ Posted = 1..Len(entry)
  /\ longer \in Seq(Entry) /\ DOMAIN longer = Posted \union {new}
  /\ longer[new].side = s /\ longer[new].agent = a
  /\ \A i \in Posted : longer[i] = entry[i]
  /\ OnIn(longer, s) = On(s) \union {new} /\ OnIn(longer, Other(s)) = On(Other(s))
  /\ \A t \in Sides, b \in Agents :
       OwnedIn(longer, t, b) = IF t = s /\ b = a THEN Owned(t, b) \union {new} ELSE Owned(t, b)

\* Posting makes the list grow so.
LEMMA Posting ==
  ASSUME Typed, NEW s \in Sides, NEW a \in Agents,
         NEW c \in Contents.want \union Contents.have, NEW dead \in BOOLEAN, Post(s, a, c, dead)
  PROVE  Grown(s, a, Len(entry) + 1, entry')
<1> DEFINE new == Len(entry) + 1
           e   == [side |-> s, agent |-> a, content |-> c]
<1>1. Len(entry) \in Nat /\ DOMAIN entry = 1..Len(entry)
  BY LenProperties DEF Typed
<1>2. e \in Entry
  BY DEF Entry
<1>3. entry' = Append(entry, e)
  BY DEF Post
<1>4. /\ entry' \in Seq(Entry) /\ Len(entry') = new /\ DOMAIN entry' = 1..new
      /\ entry'[new] = e
      /\ \A i \in 1..Len(entry) : entry'[i] = entry[i]
  <2> HIDE DEF e
  <2> QED
    BY <1>1, <1>2, <1>3, AppendProperties DEF Typed
<1>5. new \notin Posted /\ Posted' = Posted \union {new}
  BY <1>1, <1>4 DEF Posted
<1>6. /\ entry'[new].side = s /\ entry'[new].agent = a
      /\ \A i \in Posted : entry'[i] = entry[i]
  BY <1>1, <1>4 DEF Posted
<1>7. OnIn(entry', s) = On(s) \union {new} /\ OnIn(entry', Other(s)) = On(Other(s))
  <2>1. Other(s) # s
    BY DEF Other, Sides
  <2> QED
    BY <1>5, <1>6, <2>1 DEF On, OnIn, Posted
<1>8. ASSUME NEW t \in Sides, NEW b \in Agents
      PROVE  OwnedIn(entry', t, b) = IF t = s /\ b = a THEN Owned(t, b) \union {new} ELSE Owned(t, b)
  <2> HIDE DEF new
  <2>1. Posted' = Posted \union {new} /\ new \notin Posted
    BY <1>5
  <2> QED
    BY <1>6, <2>1 DEF On, Owned, OwnedIn, Posted
<1> QED
  BY <1>1, <1>4, <1>5, <1>6, <1>7, <1>8 DEF Posted, Grown

\* Every set of entries is finite.
LEMMA EntriesFinite ==
  ASSUME Typed, NEW S, S \subseteq Posted
  PROVE  IsFiniteSet(S) /\ Cardinality(S) \in Nat
<1>1. Posted = 1..Len(entry) /\ Len(entry) \in Nat
  BY LenProperties DEF Typed, Posted
<1>2. IsFiniteSet(Posted)
  BY <1>1, FS_Interval
<1> QED
  BY <1>2, FS_Subset, FS_CardinalityType

(***************************************************************************)
(* Types, index and quotas                                                 *)
(***************************************************************************)

\* Every step keeps the types.
LEMMA TypedKept ==
  ASSUME Typed, [Next]_vars
  PROVE  Typed'
<1>1. CASE StepPost
  <2>1. PICK s \in Sides, a \in Agents, c \in Contents.want \union Contents.have, dead \in BOOLEAN :
          Post(s, a, c, dead)
    BY <1>1 DEF StepPost
  <2> DEFINE new == Len(entry) + 1
             e   == [side |-> s, agent |-> a, content |-> c]
  <2>2. entry' \in Seq(Entry) /\ Posted' = Posted \union {new}
    <3>1. Grown(s, a, new, entry')
      BY <2>1, Posting
    <3> QED
      BY <3>1 DEF Grown, Posted
  <2>3. listed' \subseteq Posted'
    BY <2>1, <2>2 DEF Post, Typed
  <2>4. index' \in [Sides -> [Agents -> SUBSET Posted']]
    <3> HIDE DEF new
    <3>1. index' = [t \in Sides |-> [b \in Agents |->
                      (index[t][b] \ Overdue(s)) \union (IF <<t, b>> = <<s, a>> THEN {new} ELSE {})]]
      BY <2>1 DEF Post, new
    <3>2. \A t \in Sides, b \in Agents :
            (index[t][b] \ Overdue(s)) \union (IF <<t, b>> = <<s, a>> THEN {new} ELSE {}) \in SUBSET Posted'
      BY <2>2 DEF Typed
    <3> QED
      BY <3>1, <3>2
  <2>5. \A o \in Found(e, dead) : Pair(s, new, o) \in Posted' \X Posted'
    <3>1. \A o \in Found(e, dead) : o \in Posted
      BY DEF Found, Compared, Candidates, Live, Typed
    <3> QED
      BY <2>2, <3>1 DEF Pair
  <2>6. matches' \subseteq Posted' \X Posted' /\ told' \subseteq Posted' \X Posted'
    <3>1. Kept(Found(e, dead)) \subseteq Found(e, dead)
      BY DEF Kept
    <3>2. /\ matches' = matches \union {Pair(s, new, o) : o \in Kept(Found(e, dead))}
          /\ told' \subseteq told \union {Pair(s, new, o) : o \in Found(e, dead)}
      BY <2>1 DEF Post
    <3> HIDE DEF e, new
    <3> QED
      BY <2>2, <2>5, <3>1, <3>2 DEF Typed
  <2>7. lapsed' \subseteq Posted' /\ raised' \subseteq Posted'
    BY <2>1, <2>2 DEF Post, Typed
  <2> QED
    BY <2>2, <2>3, <2>4, <2>6, <2>7 DEF Typed
<1>2. CASE StepDrop
  BY <1>2 DEF StepDrop, Drop, Typed, Posted
<1>3. CASE StepLapse
  BY <1>3 DEF StepLapse, Live, Typed, Posted
<1>4. CASE UNCHANGED vars
  BY <1>4 DEF vars, Typed, Posted
<1> QED
  BY <1>1, <1>2, <1>3, <1>4, Steps

\* While nothing is added, no quota is exceeded.
LEMMA QuotasShrink ==
  ASSUME Typed, IndexAgrees, entry' = entry, listed' \subseteq listed, Live' \subseteq Live
  PROVE  /\ \A s \in Sides, a \in Agents : Cardinality(Live \intersect Owned(s, a))' <= MaxActive
         /\ \A s \in Sides : Cardinality(listed \intersect On(s))' <= MaxListed
<1>1. \A s \in Sides : On(s)' = On(s) /\ \A a \in Agents : Owned(s, a)' = Owned(s, a)
  BY DEF On, Owned, Posted
<1>2. MaxActive \in Nat /\ MaxListed \in Nat
  BY WantRegistryAssumption
<1>3. ASSUME NEW S, NEW T, S \subseteq T, T \subseteq Posted
      PROVE  /\ Cardinality(S) <= Cardinality(T)
             /\ Cardinality(S) \in Nat /\ Cardinality(T) \in Nat
  <2>1. S \subseteq Posted
    BY <1>3
  <2> QED
    BY <1>3, <2>1, EntriesFinite, FS_Subset
<1>4. ASSUME NEW s \in Sides, NEW a \in Agents
      PROVE  Cardinality(Live' \intersect Owned(s, a)') <= MaxActive
  <2>1. Live' \intersect Owned(s, a) \subseteq Live \intersect Owned(s, a)
    OBVIOUS
  <2>2. Live \intersect Owned(s, a) \subseteq Posted
    BY DEF Owned, On
  <2>3. Cardinality(Live \intersect Owned(s, a)) <= MaxActive
    BY DEF IndexAgrees
  <2> QED
    BY <1>1, <1>2, <1>3, <2>1, <2>2, <2>3
<1>5. ASSUME NEW s \in Sides
      PROVE  Cardinality(listed' \intersect On(s)') <= MaxListed
  <2>1. listed' \intersect On(s) \subseteq listed \intersect On(s)
    OBVIOUS
  <2>2. listed \intersect On(s) \subseteq Posted
    BY DEF On
  <2>3. Cardinality(listed \intersect On(s)) <= MaxListed
    BY DEF IndexAgrees
  <2> QED
    BY <1>1, <1>2, <1>3, <2>1, <2>2, <2>3
<1> QED
  BY <1>4, <1>5

\* Every step keeps the index and the quotas.
LEMMA IndexKept ==
  ASSUME Typed, IndexAgrees, [Next]_vars
  PROVE  IndexAgrees'
<1>1. \A s \in Sides, a \in Agents : index[s][a] = listed \intersect Owned(s, a)
  BY DEF IndexAgrees
<1>2. MaxActive \in Nat /\ MaxListed \in Nat
  BY WantRegistryAssumption
<1>3. CASE StepPost
  <2>1. PICK s \in Sides, a \in Agents, c \in Contents.want \union Contents.have, dead \in BOOLEAN :
          Post(s, a, c, dead)
    BY <1>3 DEF StepPost
  <2> DEFINE new == Len(entry) + 1
  <2>2. /\ new \notin Posted
        /\ OnIn(entry', s) = On(s) \union {new} /\ OnIn(entry', Other(s)) = On(Other(s))
        /\ \A t \in Sides, b \in Agents :
             OwnedIn(entry', t, b) = IF t = s /\ b = a THEN Owned(t, b) \union {new} ELSE Owned(t, b)
    <3>1. Grown(s, a, new, entry')
      BY <2>1, Posting
    <3> QED
      BY <3>1 DEF Grown
  <2>3. /\ listed' = (listed \ Overdue(s)) \union {new}
        /\ \A t \in Sides, b \in Agents :
             index'[t][b] = (index[t][b] \ Overdue(s)) \union (IF t = s /\ b = a THEN {new} ELSE {})
        /\ lapsed \subseteq lapsed'
    BY <2>1 DEF Post
  <2> HIDE DEF new
  <2>4. /\ \A t \in Sides, b \in Agents : Owned(t, b) \subseteq Posted /\ new \notin Owned(t, b)
        /\ \A t \in Sides : On(t) \subseteq Posted /\ new \notin On(t)
    BY <2>2 DEF Owned, On
  <2>5. ASSUME NEW t \in Sides, NEW b \in Agents
        PROVE  index'[t][b] = listed' \intersect Owned(t, b)'
    <3>1. index[t][b] = listed \intersect Owned(t, b) /\ new \notin Owned(t, b)
      BY <1>1, <2>4
    <3>2. CASE t = s /\ b = a
      <4>1. Owned(t, b)' = Owned(t, b) \union {new}
        BY <2>2, <3>2, OnOwned
      <4>2. index'[t][b] = (index[t][b] \ Overdue(s)) \union {new}
        BY <2>3, <3>2
      <4> QED
        BY <2>3, <3>1, <4>1, <4>2
    <3>3. CASE ~(t = s /\ b = a)
      <4>1. Owned(t, b)' = Owned(t, b)
        BY <2>2, <3>3, OnOwned
      <4>2. index'[t][b] = index[t][b] \ Overdue(s)
        BY <2>3, <3>3
      <4> QED
        BY <2>3, <3>1, <4>1, <4>2
    <3> QED
      BY <3>2, <3>3
  <2>6. ASSUME NEW S, S \subseteq Posted, NEW n \in Nat, Cardinality(S) < n,
               NEW T, T \subseteq S \union {new}
        PROVE  Cardinality(T) <= n
    <3>1. IsFiniteSet(S) /\ Cardinality(S) \in Nat /\ new \notin S
      BY <2>2, <2>6, EntriesFinite
    <3>2. IsFiniteSet(S \union {new}) /\ Cardinality(S \union {new}) = Cardinality(S) + 1
      BY <3>1, FS_AddElement
    <3>3. Cardinality(T) <= Cardinality(S \union {new}) /\ Cardinality(T) \in Nat
      BY <2>6, <3>2, FS_Subset, FS_CardinalityType
    <3> QED
      BY <2>6, <3>1, <3>2, <3>3
  <2>7. ASSUME NEW S, S \subseteq Posted, NEW n \in Nat, Cardinality(S) <= n, NEW T, T \subseteq S
        PROVE  Cardinality(T) <= n
    <3>1. IsFiniteSet(S) /\ Cardinality(S) \in Nat
      BY <2>7, EntriesFinite
    <3>2. Cardinality(T) <= Cardinality(S) /\ Cardinality(T) \in Nat
      BY <2>7, <3>1, FS_Subset, FS_CardinalityType
    <3> QED
      BY <2>7, <3>1, <3>2
  <2>8. ASSUME NEW t \in Sides, NEW b \in Agents
        PROVE  Cardinality(Live' \intersect Owned(t, b)') <= MaxActive
    <3> DEFINE S == Live \intersect Owned(t, b)
               T == Live' \intersect Owned(t, b)'
    <3>1. S \subseteq Posted
      BY <2>4
    <3>2. CASE t = s /\ b = a
      <4>1. Cardinality(index[s][a] \intersect (On(s) \intersect Live)) < MaxActive
        BY <2>1 DEF Post, Room
      <4>2. index[s][a] \intersect (On(s) \intersect Live) = S
        BY <1>1, <3>2 DEF Owned, Live
      <4>3. T \subseteq S \union {new}
        BY <2>2, <2>3, <3>2, OnOwned DEF Live
      <4> HIDE DEF S, T
      <4>4. Cardinality(S) < MaxActive
        BY <4>1, <4>2
      <4>5. Cardinality(T) <= MaxActive
        BY <1>2, <2>6, <3>1, <4>3, <4>4
      <4> QED
        BY <4>5 DEF T
    <3>3. CASE ~(t = s /\ b = a)
      <4>1. T \subseteq S
        BY <2>2, <2>3, <2>4, <3>3, OnOwned DEF Live
      <4>2. Cardinality(S) <= MaxActive
        BY DEF IndexAgrees
      <4> HIDE DEF S, T
      <4>3. Cardinality(T) <= MaxActive
        BY <1>2, <2>7, <3>1, <4>1, <4>2
      <4> QED
        BY <4>3 DEF T
    <3> QED
      BY <3>2, <3>3
  <2>9. ASSUME NEW t \in Sides
        PROVE  Cardinality(listed' \intersect On(t)') <= MaxListed
    <3> DEFINE S == On(s) \intersect Live
               U == listed \intersect On(t)
               T == listed' \intersect On(t)'
    <3>1. S \subseteq Posted /\ U \subseteq Posted
      BY <2>4
    <3>2. CASE t = s
      <4>1. Cardinality(S) < MaxListed
        BY <2>1 DEF Post, Room
      <4>2. T \subseteq S \union {new}
        BY <2>2, <2>3, <3>2, OnOwned DEF Live, Overdue
      <4> HIDE DEF S, T
      <4>3. Cardinality(T) <= MaxListed
        BY <1>2, <2>6, <3>1, <4>1, <4>2
      <4> QED
        BY <4>3 DEF T
    <3>3. CASE t # s
      <4>1. t = Other(s)
        BY <3>3 DEF Other, Sides
      <4>2. T \subseteq U
        BY <2>2, <2>3, <2>4, <4>1, OnOwned
      <4>3. Cardinality(U) <= MaxListed
        BY DEF IndexAgrees
      <4> HIDE DEF U, T
      <4>4. Cardinality(T) <= MaxListed
        BY <1>2, <2>7, <3>1, <4>2, <4>3
      <4> QED
        BY <4>4 DEF T
    <3> QED
      BY <3>2, <3>3
  <2> QED
    BY <2>5, <2>8, <2>9 DEF IndexAgrees
<1>4. CASE StepDrop
  <2>1. PICK gone \in SUBSET listed : Drop(gone)
    BY <1>4 DEF StepDrop
  <2>2. entry' = entry /\ listed' = listed \ gone /\ Live' \subseteq Live
    BY <1>4, <2>1 DEF StepDrop, Drop, Live
  <2>3. \A s \in Sides, a \in Agents : Owned(s, a)' = Owned(s, a)
    BY <2>2 DEF Owned, On, Posted
  <2>4. \A s \in Sides, a \in Agents : index'[s][a] = index[s][a] \ gone
    BY <2>1 DEF Drop
  <2>5. \A s \in Sides, a \in Agents : index'[s][a] = listed' \intersect Owned(s, a)'
    BY <1>1, <2>2, <2>3, <2>4
  <2> QED
    BY <2>2, <2>5, QuotasShrink DEF IndexAgrees
<1>5. CASE StepLapse
  <2>1. entry' = entry /\ listed' = listed /\ index' = index /\ Live' \subseteq Live
    BY <1>5 DEF StepLapse, Live
  <2>2. \A s \in Sides, a \in Agents : Owned(s, a)' = Owned(s, a)
    BY <2>1 DEF Owned, On, Posted
  <2> QED
    BY <1>1, <2>1, <2>2, QuotasShrink DEF IndexAgrees
<1>6. CASE UNCHANGED vars
  <2>1. entry' = entry /\ listed' = listed /\ index' = index /\ Live' \subseteq Live
    BY <1>6 DEF vars, Live
  <2>2. \A s \in Sides, a \in Agents : Owned(s, a)' = Owned(s, a)
    BY <2>1 DEF Owned, On, Posted
  <2> QED
    BY <1>1, <2>1, <2>2, QuotasShrink DEF IndexAgrees
<1> QED
  BY <1>3, <1>4, <1>5, <1>6, Steps

(***************************************************************************)
(* Matches                                                                 *)
(***************************************************************************)

\* What is not new is on offer only if it was, on the side and from the agent it was.
LEMMA Older ==
  ASSUME Typed, [Next]_vars, NEW i \in Posted
  PROVE  /\ i \in Posted' /\ entry'[i] = entry[i]
         /\ \A t \in Sides : i \in On(t)' <=> i \in On(t)
         /\ i \in Live' => i \in Live
         /\ i \in listed' => i \in listed
         /\ i \in raised => i \in raised'
<1>1. CASE StepPost
  <2>1. PICK s \in Sides, a \in Agents, c \in Contents.want \union Contents.have, dead \in BOOLEAN :
          Post(s, a, c, dead)
    BY <1>1 DEF StepPost
  <2> DEFINE new == Len(entry) + 1
  <2>2. Grown(s, a, new, entry')
    BY <2>1, Posting
  <2>3. i \in Posted' /\ entry'[i] = entry[i] /\ i # new
    BY <2>2 DEF Grown, Posted
  <2>4. /\ listed' = (listed \ Overdue(s)) \union {new}
        /\ lapsed \subseteq lapsed' /\ raised \subseteq raised'
    BY <2>1 DEF Post
  <2> HIDE DEF new
  <2>5. \A t \in Sides : i \in On(t)' <=> i \in On(t)
    BY <2>3 DEF On
  <2> QED
    BY <2>3, <2>4, <2>5 DEF Live
<1>2. CASE StepDrop
  BY <1>2 DEF StepDrop, Drop, Live, On, Posted
<1>3. CASE StepLapse
  BY <1>3 DEF StepLapse, Live, On, Posted
<1>4. CASE UNCHANGED vars
  BY <1>4 DEF vars, Live, On, Posted
<1> QED
  BY <1>1, <1>2, <1>3, <1>4, Steps

\* A new entry is paired with every older one on offer that fits, unless it raised.
LEMMA NewPair ==
  ASSUME Typed, NEW s \in Sides, NEW a \in Agents,
         NEW c \in Contents.want \union Contents.have, NEW dead \in BOOLEAN, Post(s, a, c, dead),
         NEW new, new = Len(entry) + 1, new \in Live', new \notin raised',
         NEW o \in Live, entry[o].side = Other(s), entry[o].agent # a,
         FitsWith([side |-> s, agent |-> a, content |-> c], o)
  PROVE  Pair(s, new, o) \in told'
<1> DEFINE e == [side |-> s, agent |-> a, content |-> c]
<1>1. ~dead
  BY DEF Post, Live
<1>2. o \in Candidates(e, dead)
  BY <1>1 DEF Candidates
<1>3. Compared(e, dead) = Candidates(e, dead)
  BY DEF Post
<1>4. o \in Found(e, dead)
  <2> HIDE DEF e
  <2>1. FitsWith(e, o)
    BY DEF e
  <2> QED
    BY <1>2, <1>3, <2>1 DEF Found
<1> QED
  BY <1>3, <1>4 DEF Post

\* Every step keeps what fits brought together.
LEMMA PairsKept ==
  ASSUME Typed, PairsFound, [Next]_vars
  PROVE  PairsFound'
<1> SUFFICES ASSUME NEW w \in Live' \intersect On("want")', NEW h \in Live' \intersect On("have")',
                    entry'[w].agent # entry'[h].agent, Fits(entry'[w].content, entry'[h].content),
                    {w, h} \intersect raised' = {}
             PROVE  <<w, h>> \in told'
  BY DEF PairsFound
<1>1. w \in Posted' /\ h \in Posted' /\ entry'[w].side = "want" /\ entry'[h].side = "have"
  BY DEF On
<1>2. told \subseteq told'
  <2>1. ASSUME StepPost PROVE told \subseteq told'
    BY <2>1 DEF StepPost, Post
  <2> QED
    BY <2>1, Steps DEF StepDrop, StepLapse, vars
<1>3. CASE w \in Posted /\ h \in Posted
  <2>1. w \in Live \intersect On("want") /\ h \in Live \intersect On("have")
    BY <1>3, Older DEF Sides
  <2>2. entry'[w] = entry[w] /\ entry'[h] = entry[h] /\ {w, h} \intersect raised = {}
    BY <1>3, Older
  <2> QED
    BY <1>2, <2>1, <2>2 DEF PairsFound
<1>4. CASE ~(w \in Posted /\ h \in Posted)
  <2>1. StepPost
    BY <1>1, <1>4, Steps DEF StepDrop, StepLapse, vars, Posted
  <2>2. PICK s \in Sides, a \in Agents, c \in Contents.want \union Contents.have, dead \in BOOLEAN :
          Post(s, a, c, dead)
    BY <2>1 DEF StepPost
  <2> DEFINE new == Len(entry) + 1
             e   == [side |-> s, agent |-> a, content |-> c]
  <2>3. Grown(s, a, new, entry')
    BY <2>2, Posting
  <2>4. entry'[new] = e
    <3>1. entry' = Append(entry, e) /\ Len(entry) \in Nat
      BY <2>2, LenProperties DEF Post, Typed
    <3>2. e \in Entry
      BY DEF Entry
    <3> HIDE DEF e
    <3> QED
      BY <3>1, <3>2, AppendProperties DEF Typed
  <2>5. Posted' = Posted \union {new} /\ new \notin Posted
    BY <2>3 DEF Grown, Posted
  <2>6. entry'[new].side = s /\ entry'[new].agent = a /\ entry'[new].content = c
    BY <2>4
  <2> HIDE DEF new, e
  <2>7. CASE w = new
    <3>1. s = "want" /\ h \in Posted
      BY <1>1, <2>5, <2>6, <2>7
    <3>2. h \in Live /\ entry'[h] = entry[h]
      BY <3>1, Older
    <3>3. entry[h].side = Other(s) /\ entry[h].agent # a
      BY <1>1, <2>6, <2>7, <3>1, <3>2 DEF Other
    <3>4. FitsWith(e, h)
      BY <2>6, <2>7, <3>1, <3>2 DEF FitsWith, e
    <3>5. Pair(s, new, h) \in told'
      BY <2>2, <2>7, <3>2, <3>3, <3>4, NewPair DEF new, e
    <3> QED
      BY <2>7, <3>1, <3>5 DEF Pair
  <2>8. CASE h = new
    <3>1. s = "have" /\ w \in Posted
      BY <1>1, <2>5, <2>6, <2>8
    <3>2. w \in Live /\ entry'[w] = entry[w]
      BY <3>1, Older
    <3>3. entry[w].side = Other(s) /\ entry[w].agent # a
      BY <1>1, <2>6, <2>8, <3>1, <3>2 DEF Other
    <3>4. FitsWith(e, w)
      BY <2>6, <2>8, <3>1, <3>2 DEF FitsWith, e
    <3>5. Pair(s, new, w) \in told'
      BY <2>2, <2>8, <3>2, <3>3, <3>4, NewPair DEF new, e
    <3> QED
      BY <2>8, <3>1, <3>5 DEF Pair
  <2> QED
    BY <1>1, <1>4, <2>5, <2>7, <2>8
<1> QED
  BY <1>3, <1>4

\* A match in a list of entries names a want and a have of two agents that fit.
Deal(es, m) ==
  /\ m[1] \in OnIn(es, "want") /\ m[2] \in OnIn(es, "have")
  /\ es[m[1]].agent # es[m[2]].agent
  /\ Fits(es[m[1]].content, es[m[2]].content)

\* What was a match stays one.
LEMMA DealsStay ==
  ASSUME Typed, [Next]_vars, NEW m \in Posted \X Posted, Deal(entry, m)
  PROVE  Deal(entry', m)
<1>1. m[1] \in Posted /\ m[2] \in Posted
  OBVIOUS
<1>2. /\ entry'[m[1]] = entry[m[1]] /\ entry'[m[2]] = entry[m[2]]
      /\ m[1] \in On("want")' /\ m[2] \in On("have")'
  BY <1>1, Older, OnOwned DEF Deal, Sides
<1> QED
  BY <1>2, OnOwned DEF Deal

\* What is found for a new entry is a match.
LEMMA DealsFound ==
  ASSUME Typed, NEW s \in Sides, NEW a \in Agents,
         NEW c \in Contents.want \union Contents.have, NEW dead \in BOOLEAN, Post(s, a, c, dead),
         NEW new, new = Len(entry) + 1, NEW e, e = [side |-> s, agent |-> a, content |-> c],
         NEW o \in Found(e, dead)
  PROVE  /\ o \in Posted
         /\ Deal(entry', Pair(s, new, o))
<1>1. /\ o \in Posted /\ entry[o].side = Other(s) /\ entry[o].agent # a /\ FitsWith(e, o)
  BY DEF Found, Compared, Candidates, Live, Typed
<1>2. Grown(s, a, new, entry')
  BY Posting
<1>3. entry'[new] = e
  <2>1. entry' = Append(entry, e) /\ Len(entry) \in Nat
    BY LenProperties DEF Post, Typed
  <2>2. e \in Entry
    BY DEF Entry
  <2> QED
    BY <2>1, <2>2, AppendProperties DEF Typed
<1>4. entry'[o] = entry[o] /\ o \in Posted' /\ new \in Posted'
  BY <1>1, <1>2 DEF Grown, Posted
<1>5. e.side = s /\ e.agent = a /\ e.content = c
  OBVIOUS
<1>6. CASE s = "want"
  <2>1. Fits(c, entry[o].content) /\ entry[o].side = "have"
    BY <1>1, <1>5, <1>6 DEF FitsWith, Other
  <2>2. new \in On("want")' /\ o \in On("have")'
    BY <1>3, <1>4, <1>5, <1>6, <2>1 DEF On
  <2>3. Pair(s, new, o) = <<new, o>>
    BY <1>6 DEF Pair
  <2> QED
    BY <1>1, <1>3, <1>4, <1>5, <2>1, <2>2, <2>3, OnOwned DEF Deal
<1>7. CASE s = "have"
  <2>1. Fits(entry[o].content, c) /\ entry[o].side = "want"
    BY <1>1, <1>5, <1>7 DEF FitsWith, Other
  <2>2. new \in On("have")' /\ o \in On("want")'
    BY <1>3, <1>4, <1>5, <1>7, <2>1 DEF On
  <2>3. Pair(s, new, o) = <<o, new>>
    BY <1>7 DEF Pair
  <2>4. /\ entry'[o].agent # entry'[new].agent
        /\ Fits(entry'[o].content, entry'[new].content)
    BY <1>1, <1>3, <1>4, <1>5, <2>1
  <2>5. o \in OnIn(entry', "want") /\ new \in OnIn(entry', "have")
    BY <2>2, OnOwned
  <2>6. Deal(entry', <<o, new>>)
    BY <2>4, <2>5 DEF Deal
  <2> QED
    BY <1>1, <2>3, <2>6
<1> QED
  BY <1>1, <1>6, <1>7 DEF Sides

\* The pairs of one new entry are as many as the entries it is paired with.
LEMMA PairsCount ==
  ASSUME NEW s \in Sides, NEW new, NEW K, IsFiniteSet(K)
  PROVE  LET P == {Pair(s, new, o) : o \in K}
         IN IsFiniteSet(P) /\ Cardinality(P) = Cardinality(K)
<1> DEFINE P == {Pair(s, new, o) : o \in K}
           f == [o \in K |-> Pair(s, new, o)]
<1>1. f \in Surjection(K, P)
  BY DEF Surjection
<1>2. \A o, p : Pair(s, new, o) = Pair(s, new, p) => o = p
  BY DEF Pair
<1>3. f \in Injection(K, P)
  BY <1>2 DEF Injection, IsInjective
<1> QED
  BY <1>1, <1>3, FS_Surjection

\* The matches of a new entry fill the store no further than it goes, and are all kept
\* unless they fill it.
LEMMA StoreFills ==
  ASSUME Typed, NEW s \in Sides, NEW new, new \notin Posted,
         NEW F, F \subseteq Posted, Cardinality(matches) <= MaxMatches,
         NEW more, more = matches \union {Pair(s, new, o) : o \in Kept(F)}
  PROVE  /\ IsFiniteSet(more) /\ Cardinality(more) <= MaxMatches
         /\ Kept(F) # F => Cardinality(more) = MaxMatches
         /\ Cardinality(matches) = MaxMatches => Cardinality(more) = MaxMatches
<1> DEFINE K == Kept(F)
           P == {Pair(s, new, o) : o \in K}
           k == MaxMatches - Cardinality(matches)
<1>1. IsFiniteSet(matches) /\ Cardinality(matches) \in Nat
  <2>1. IsFiniteSet(Posted)
    BY EntriesFinite
  <2>2. IsFiniteSet(Posted \X Posted)
    BY <2>1, FS_Product
  <2> QED
    BY <2>2, FS_Subset, FS_CardinalityType DEF Typed
<1>2. k \in Nat /\ MaxMatches \in Nat
  BY <1>1, WantRegistryAssumption
<1>3. Len(entry) \in Nat /\ F \subseteq 1..Len(entry)
  BY LenProperties DEF Typed, Posted
<1>4. ASSUME NEW o \in F PROVE o \in K <=> Cardinality(Below(F, o)) < k
  <2>1. IsFiniteSet(Below(F, o)) /\ Cardinality(Below(F, o)) \in Nat
    BY EntriesFinite, BelowFinite
  <2>2. o \in K <=> Cardinality(Below(F, o)) + Cardinality(matches) < MaxMatches
    BY DEF Kept, Below
  <2> QED
    BY <1>1, <1>2, <2>1, <2>2
<1>5. K \subseteq F
  BY DEF Kept
<1> HIDE DEF K, k
<1>6. IsFiniteSet(K) /\ Cardinality(K) <= k /\ (K # F => Cardinality(K) = k)
  BY <1>2, <1>3, <1>4, <1>5, FirstOnes, ZenonT(30)
<1>7. IsFiniteSet(P) /\ Cardinality(P) = Cardinality(K)
  BY <1>6, PairsCount
<1>8. matches \intersect P = {}
  <2> SUFFICES ASSUME NEW o \in K, Pair(s, new, o) \in matches PROVE FALSE
    OBVIOUS
  <2>1. Pair(s, new, o) \in Posted \X Posted
    BY DEF Typed
  <2> QED
    BY <2>1 DEF Pair
<1>9. more = matches \union P
  BY DEF K
<1> HIDE DEF P
<1>10. IsFiniteSet(more) /\ Cardinality(more) = Cardinality(matches) + Cardinality(K)
  <2>1. /\ IsFiniteSet(matches \union P)
        /\ Cardinality(matches \union P) =
             Cardinality(matches) + Cardinality(P) - Cardinality(matches \intersect P)
    BY <1>1, <1>7, FS_Union
  <2>2. Cardinality(matches \intersect P) = 0
    BY <1>8, FS_EmptySet
  <2>3. Cardinality(K) \in Nat
    BY <1>6, FS_CardinalityType
  <2>4. Cardinality(matches \union P) = Cardinality(matches) + Cardinality(K)
    BY <1>1, <1>7, <2>1, <2>2, <2>3
  <2> QED
    BY <1>9, <2>1, <2>4
<1>11. Cardinality(K) \in Nat
  BY <1>6, FS_CardinalityType
<1>12. k = MaxMatches - Cardinality(matches)
  BY DEF k
<1>13. K = Kept(F)
  BY DEF K
<1> QED
  BY <1>1, <1>2, <1>6, <1>10, <1>11, <1>12, <1>13

\* Every step keeps the matches accounted for.
LEMMA MatchesKept ==
  ASSUME Typed, MatchesAccounted, [Next]_vars
  PROVE  MatchesAccounted'
<1>1. \A m \in told \union matches : m \in Posted \X Posted /\ Deal(entry, m)
  BY OnOwned DEF Typed, MatchesAccounted, Deal
<1>2. /\ \A m \in matches \ told : {m[1], m[2]} \intersect raised # {}
      /\ told \subseteq matches \/ Cardinality(matches) = MaxMatches
      /\ Cardinality(matches) <= MaxMatches
  BY DEF MatchesAccounted
<1>3. \A m \in told \union matches : Deal(entry', m)
  BY <1>1, DealsStay
<1>4. SUFFICES /\ \A m \in told' \union matches' : Deal(entry', m)
               /\ \A m \in matches' \ told' : {m[1], m[2]} \intersect raised' # {}
               /\ told' \subseteq matches' \/ Cardinality(matches') = MaxMatches
               /\ Cardinality(matches') <= MaxMatches
  BY OnOwned DEF MatchesAccounted, Deal
<1>5. CASE told' = told /\ matches' = matches /\ raised' = raised
  BY <1>2, <1>3, <1>5
<1>6. CASE StepPost
  <2>1. PICK s \in Sides, a \in Agents, c \in Contents.want \union Contents.have, dead \in BOOLEAN :
          Post(s, a, c, dead)
    BY <1>6 DEF StepPost
  <2> DEFINE new == Len(entry) + 1
             e   == [side |-> s, agent |-> a, content |-> c]
             F   == Found(e, dead)
             through == Compared(e, dead) = Candidates(e, dead)
  <2>2. /\ matches' = matches \union {Pair(s, new, o) : o \in Kept(F)}
        /\ told' = IF through THEN told \union {Pair(s, new, o) : o \in F} ELSE told
        /\ raised' = IF through THEN raised ELSE raised \union {new}
    BY <2>1 DEF Post
  <2>3. new \notin Posted
    <3>1. Grown(s, a, new, entry')
      BY <2>1, Posting
    <3> QED
      BY <3>1 DEF Grown
  <2>4. ASSUME NEW o \in F
        PROVE  o \in Posted /\ Deal(entry', Pair(s, new, o))
    BY <2>1, DealsFound
  <2>5. Kept(F) \subseteq F
    BY DEF Kept
  <2> HIDE DEF new, e, F, through
  <2>6. F \subseteq Posted
    BY <2>4
  <2>7. /\ Cardinality(matches') <= MaxMatches
        /\ Kept(F) # F => Cardinality(matches') = MaxMatches
        /\ Cardinality(matches) = MaxMatches => Cardinality(matches') = MaxMatches
    BY <1>2, <2>2, <2>3, <2>6, StoreFills
  <2>8. ASSUME NEW m \in told' \union matches' PROVE Deal(entry', m)
    <3>1. CASE m \in told \union matches
      BY <1>3, <3>1
    <3>2. CASE m \notin told \union matches
      <4>1. PICK o \in F : m = Pair(s, new, o)
        BY <2>2, <2>5, <3>2
      <4> QED
        BY <2>4, <4>1
    <3> QED
      BY <3>1, <3>2
  <2>9. ASSUME NEW m \in matches' \ told' PROVE {m[1], m[2]} \intersect raised' # {}
    <3>1. CASE m \in matches
      BY <1>2, <2>2, <2>9, <3>1
    <3>2. CASE m \notin matches
      <4>1. PICK o \in Kept(F) : m = Pair(s, new, o)
        BY <2>2, <2>9, <3>2
      <4>2. ~through
        BY <2>2, <2>5, <2>9, <4>1
      <4>3. new \in raised'
        BY <2>2, <4>2
      <4> QED
        BY <4>1, <4>3 DEF Pair
    <3> QED
      BY <3>1, <3>2
  <2>10. ASSUME Cardinality(matches') # MaxMatches PROVE told' \subseteq matches'
    <3>1. Kept(F) = F /\ told \subseteq matches
      BY <1>2, <2>7, <2>10
    <3> QED
      BY <2>2, <3>1
  <2> QED
    BY <2>7, <2>8, <2>9, <2>10
<1> QED
  BY <1>5, <1>6, Steps DEF StepDrop, StepLapse, vars

(***************************************************************************)
(* The registry                                                            *)
(***************************************************************************)

IInv == Typed /\ IndexAgrees /\ PairsFound /\ MatchesAccounted

\* The invariant holds of an empty registry.
THEOREM Initially == Init => IInv
<1> SUFFICES ASSUME Init PROVE IInv
  OBVIOUS
<1>1. /\ entry = <<>> /\ listed = {} /\ matches = {} /\ lapsed = {} /\ told = {} /\ raised = {}
      /\ index = [s \in Sides |-> [a \in Agents |-> {}]]
  BY DEF Init
<1>2. Posted = {} /\ entry \in Seq(Entry)
  BY <1>1, EmptySeq DEF Posted
<1>3. Typed
  BY <1>1, <1>2 DEF Typed
<1>4. Cardinality({}) = 0 /\ {MaxListed, MaxActive, MaxMatches} \subseteq Nat
  BY FS_EmptySet, WantRegistryAssumption
<1>5. IndexAgrees
  <2>1. \A s \in Sides, a \in Agents :
          /\ index[s][a] = {} /\ Owned(s, a) = {} /\ On(s) = {}
    BY <1>1, <1>2 DEF Owned, On
  <2>2. ASSUME NEW s \in Sides, NEW a \in Agents
        PROVE  /\ index[s][a] = listed \intersect Owned(s, a)
               /\ Cardinality(Live \intersect Owned(s, a)) <= MaxActive
    <3>1. listed \intersect Owned(s, a) = {} /\ Live \intersect Owned(s, a) = {}
      BY <2>1
    <3>2. 0 <= MaxActive
      BY <1>4
    <3> QED
      BY <1>4, <2>1, <3>1, <3>2
  <2>3. ASSUME NEW s \in Sides PROVE Cardinality(listed \intersect On(s)) <= MaxListed
    <3>1. listed \intersect On(s) = {} /\ 0 <= MaxListed
      BY <1>1, <1>4
    <3> QED
      BY <1>4, <3>1
  <2> QED
    BY <2>2, <2>3 DEF IndexAgrees
<1>6. PairsFound
  BY <1>1 DEF PairsFound, Live
<1>7. MatchesAccounted
  BY <1>1, <1>4 DEF MatchesAccounted
<1> QED
  BY <1>3, <1>5, <1>6, <1>7 DEF IInv

\* Each part is kept by every step.
THEOREM Inductive == IInv /\ [Next]_vars => IInv'
BY TypedKept, IndexKept, PairsKept, MatchesKept DEF IInv

\* And so the invariant holds in every state of every behaviour.
THEOREM Invariance == Spec => []IInv
<1> QED
  BY Initially, Inductive, PTL DEF Spec

\* IndexAgrees: the index holds what is listed, and no quota is exceeded.
THEOREM QuotasHold == Spec => []IndexAgrees
<1>1. IInv => IndexAgrees
  BY DEF IInv
<1> QED
  BY <1>1, Invariance, PTL

\* PairsFound: entries that fit and are both on offer were brought together.
THEOREM PairsAreFound == Spec => []PairsFound
<1>1. IInv => PairsFound
  BY DEF IInv
<1> QED
  BY <1>1, Invariance, PTL

\* MatchesAccounted: matches are true, told unless an exception kept them from it, and kept
\* unless the store is full.
THEOREM MatchesAreAccounted == Spec => []MatchesAccounted
<1>1. IInv => MatchesAccounted
  BY DEF IInv
<1> QED
  BY <1>1, Invariance, PTL

\* GoneForGood: what left the registry or has elapsed comes into no new match.
THEOREM GoneIsGone == Spec => GoneForGood
<1> DEFINE A == /\ listed' \intersect Posted \subseteq listed
                /\ \A m \in matches' \ matches : \A i \in {m[1], m[2]} :
                     i \in Posted => i \in Live
<1>1. ASSUME IInv, [Next]_vars PROVE A
  <2>1. listed' \intersect Posted \subseteq listed
    BY <1>1, Older DEF IInv
  <2>2. ASSUME NEW m \in matches' \ matches, NEW i \in {m[1], m[2]}, i \in Posted PROVE i \in Live
    <3>1. StepPost
      BY <1>1, <2>2, Steps DEF StepDrop, StepLapse, vars
    <3>2. PICK s \in Sides, a \in Agents, c \in Contents.want \union Contents.have, dead \in BOOLEAN :
            Post(s, a, c, dead)
      BY <3>1 DEF StepPost
    <3> DEFINE new == Len(entry) + 1
               e   == [side |-> s, agent |-> a, content |-> c]
    <3>3. PICK o \in Kept(Found(e, dead)) : m = Pair(s, new, o)
      BY <2>2, <3>2 DEF Post
    <3>4. o \in Live
      BY DEF Kept, Found, Compared, Candidates
    <3>5. new \notin Posted
      <4>1. Grown(s, a, new, entry')
        BY <1>1, <3>2, Posting DEF IInv
      <4> QED
        BY <4>1 DEF Grown
    <3> HIDE DEF new, e
    <3> QED
      BY <2>2, <3>3, <3>4, <3>5 DEF Pair
  <2> QED
    BY <2>1, <2>2
<1> QED
  BY <1>1, Invariance, PTL DEF Spec, GoneForGood

(***************************************************************************)
(* Peers                                                                   *)
(***************************************************************************)

USE InteractionsAssumption

Message == [round : Nat, by : {"peer", "system"}]
Interaction ==
  [proposal : 0..Unproposed, mode : {"degraded", "upgraded"}, rounds : Nat, messages : Seq(Message)]

(***************************************************************************)
(* Interactions                                                            *)
(***************************************************************************)

\* Whether the system has written into the messages.
BySystem(ms) == \E n \in DOMAIN ms : ms[n].by = "system"

LEMMA SystemWrites ==
  ASSUME NEW ms \in Seq(Message), NEW x
  PROVE  BySystem(Append(ms, x)) <=> BySystem(ms) \/ x.by = "system"
<1>1. PICK n \in Nat : n = Len(ms) /\ DOMAIN ms = 1..n
  OBVIOUS
<1>2. /\ DOMAIN Append(ms, x) = 1..(n + 1)
      /\ Append(ms, x)[n + 1] = x
      /\ \A i \in 1..n : Append(ms, x)[i] = ms[i]
  BY <1>1
<1>3. n + 1 \in 1..(n + 1) /\ 1..n \subseteq 1..(n + 1) /\ \A i \in 1..(n + 1) : i \in 1..n \/ i = n + 1
  OBVIOUS
<1> QED
  BY <1>1, <1>2, <1>3 DEF BySystem

\* A record of an interaction with one more message.
LEMMA MessageAdded ==
  ASSUME NEW r \in Interaction
  PROVE  /\ WithMessage(r) \in Interaction
         /\ WithMessage(r).mode = r.mode /\ WithMessage(r).proposal = r.proposal
         /\ BySystem(WithMessage(r).messages) <=> BySystem(r.messages)
         /\ Upgraded(r) \in Interaction
         /\ Upgraded(r).mode = "upgraded" /\ Upgraded(r).proposal = r.proposal
         /\ BySystem(Upgraded(r).messages)
<1>0. /\ r.proposal \in 0..Unproposed /\ r.mode \in {"degraded", "upgraded"}
      /\ r.rounds \in Nat /\ r.messages \in Seq(Message)
      /\ r = [proposal |-> r.proposal, mode |-> r.mode, rounds |-> r.rounds, messages |-> r.messages]
  BY DEF Interaction
<1>1. PICK x, y : x = [round |-> r.rounds + 1, by |-> "peer"] /\ y = [round |-> r.rounds + 1, by |-> "system"]
  OBVIOUS
<1>2. x \in Message /\ y \in Message /\ x.by = "peer" /\ y.by = "system"
  BY <1>0, <1>1 DEF Message
<1>3. PICK m, s : m = Append(r.messages, x) /\ s = Append(r.messages, y)
  OBVIOUS
<1>4. /\ m \in Seq(Message) /\ s \in Seq(Message)
      /\ BySystem(m) <=> BySystem(r.messages)
      /\ BySystem(s)
  BY <1>0, <1>2, <1>3, SystemWrites
<1>5. WithMessage(r) = [r EXCEPT !.rounds = r.rounds + 1, !.messages = m]
  BY <1>0, <1>1, <1>3 DEF WithMessage
<1>6. Upgraded(r) = [r EXCEPT !.mode = "upgraded", !.messages = s]
  BY <1>0, <1>1, <1>3 DEF Upgraded
<1>7. /\ WithMessage(r) = [proposal |-> r.proposal, mode |-> r.mode, rounds |-> r.rounds + 1, messages |-> m]
      /\ Upgraded(r) = [proposal |-> r.proposal, mode |-> "upgraded", rounds |-> r.rounds, messages |-> s]
  BY <1>0, <1>5, <1>6
<1>8. /\ WithMessage(r) \in Interaction /\ WithMessage(r).messages = m
      /\ WithMessage(r).mode = r.mode /\ WithMessage(r).proposal = r.proposal
  BY <1>0, <1>4, <1>7 DEF Interaction
<1>9. /\ Upgraded(r) \in Interaction /\ Upgraded(r).messages = s
      /\ Upgraded(r).mode = "upgraded" /\ Upgraded(r).proposal = r.proposal
  BY <1>0, <1>4, <1>7 DEF Interaction
<1> QED
  BY <1>4, <1>8, <1>9

\* Parties and messages of what there is.
InteractionsTyped ==
  /\ proposals \in 0..MaxProposals
  /\ interactions \in Seq(Interaction) /\ Len(interactions) <= MaxInteractions
  /\ \A x \in accepted : x[2] \in 0..Len(interactions)

\* An interaction begins, gets a message or is upgraded.
Begun(p) ==
  /\ interactions' = Append(interactions,
                       [proposal |-> p, mode |-> "degraded", rounds |-> 0, messages |-> <<>>])
  /\ accepted' = accepted

LEMMA InteractionsGrow ==
  ASSUME InteractionsTyped, NEW p \in 0..Unproposed, Begun(p),
         NEW n \in Nat, n = Len(interactions)
  PROVE  /\ interactions' \in Seq(Interaction)
         /\ DOMAIN interactions = 1..n
         /\ DOMAIN interactions' = 1..(n + 1)
         /\ \A i \in 1..n : interactions'[i] = interactions[i]
         /\ Len(interactions') = n + 1
         /\ interactions'[n + 1].mode = "degraded"
         /\ ~BySystem(interactions'[n + 1].messages)
<1>1. PICK r : r = [proposal |-> p, mode |-> "degraded", rounds |-> 0, messages |-> <<>>]
  OBVIOUS
<1>5. r \in Interaction
  <2>1. <<>> \in Seq(Message)
    OBVIOUS
  <2> QED
    BY <1>1, <2>1 DEF Interaction
<1>2. interactions \in Seq(Interaction) /\ interactions' = Append(interactions, r)
  BY <1>1, <1>5 DEF InteractionsTyped, Begun
<1>3. r.mode = "degraded" /\ r.messages = <<>>
  BY <1>1
<1>4. ~BySystem(<<>>)
  BY DEF BySystem
<1> QED
  BY <1>2, <1>3, <1>4, <1>5

LEMMA InteractionChanges ==
  ASSUME InteractionsTyped, NEW i \in DOMAIN interactions, NEW r \in Interaction,
         interactions' = [interactions EXCEPT ![i] = r]
  PROVE  /\ interactions' \in Seq(Interaction)
         /\ DOMAIN interactions' = DOMAIN interactions
         /\ Len(interactions') = Len(interactions)
         /\ interactions'[i] = r
         /\ \A j \in DOMAIN interactions : j # i => interactions'[j] = interactions[j]
BY DEF InteractionsTyped

\* The steps that touch an interaction, or a proposal.
LEMMA InteractionSteps ==
  ASSUME InteractionsTyped, [PeersNext]_peersVars
  PROVE  \/ Propose
         \/ \E p \in 0..Unproposed : StartDegraded(p)
         \/ \E p \in 1..Unproposed : Accept(p)
         \/ \E i \in DOMAIN interactions : AddMessage(i)
         \/ UNCHANGED interactionVars
<1>1. NoProposal \in 0..Unproposed /\ Nameable \subseteq 1..Unproposed /\ Nameable \subseteq 0..Unproposed
  BY DEF NoProposal, Nameable, Unproposed, InteractionsTyped
<1>2. InteractionStep \/ UNCHANGED interactionVars
  BY DEF PeersNext, peersVars, interactionVars
<1> QED
  BY <1>1, <1>2 DEF InteractionStep

LEMMA InteractionsTypedKept == PeersSpec => []InteractionsTyped
<1>1. PeersInit => InteractionsTyped
  BY DEF PeersInit, InteractionsInit, InteractionsTyped
<1>2. InteractionsTyped /\ [PeersNext]_peersVars => InteractionsTyped'
  <2> SUFFICES ASSUME InteractionsTyped, [PeersNext]_peersVars
               PROVE  InteractionsTyped'
    OBVIOUS
  <2>0. PICK n \in Nat : n = Len(interactions) /\ n <= MaxInteractions
    BY DEF InteractionsTyped
  <2>1. CASE Propose
    BY <2>1 DEF Propose, InteractionsTyped
  <2>2. ASSUME NEW p \in 0..Unproposed, StartDegraded(p)
        PROVE  InteractionsTyped'
    <3>1. Begun(p) /\ UNCHANGED proposals /\ n < MaxInteractions
      BY <2>0, <2>2 DEF StartDegraded, Begun
    <3>2. interactions' \in Seq(Interaction) /\ Len(interactions') = n + 1
      BY <2>0, <3>1, InteractionsGrow
    <3>3. \A x \in accepted : x[2] \in 0..n
      BY <2>0 DEF InteractionsTyped
    <3>4. 0..n \subseteq 0..(n + 1) /\ n + 1 <= MaxInteractions
      BY <3>1
    <3> QED
      BY <3>1, <3>2, <3>3, <3>4 DEF InteractionsTyped, Begun
  <2>3. ASSUME NEW p \in 1..Unproposed, Accept(p)
        PROVE  InteractionsTyped'
    <3>1. \A x \in accepted' : x[2] \in 0..n
      <4>1. accepted' = accepted \union {<<p, n>>} /\ n \in 0..n
        BY <2>0, <2>3 DEF Accept
      <4> QED
        BY <2>0, <4>1 DEF InteractionsTyped
    <3>2. CASE UNCHANGED interactions
      BY <2>0, <2>3, <3>1, <3>2 DEF Accept, InteractionsTyped
    <3>3. ASSUME NEW i \in Upgradable(p), interactions' = [interactions EXCEPT ![i] = Upgraded(@)]
          PROVE  InteractionsTyped'
      <4>1. i \in DOMAIN interactions /\ interactions[i] \in Interaction
        BY DEF Upgradable, InteractionsTyped
      <4>2. PICK r \in Interaction : r = Upgraded(interactions[i])
        BY <4>1, MessageAdded
      <4>3. interactions' \in Seq(Interaction) /\ Len(interactions') = n
        BY <2>0, <3>3, <4>1, <4>2, InteractionChanges
      <4> QED
        BY <2>0, <2>3, <3>1, <4>3 DEF Accept, InteractionsTyped
    <3> QED
      BY <2>3, <3>2, <3>3 DEF Accept
  <2>4. ASSUME NEW i \in DOMAIN interactions, AddMessage(i)
        PROVE  InteractionsTyped'
    <3>1. interactions[i] \in Interaction
      BY DEF InteractionsTyped
    <3>2. PICK r \in Interaction : r = WithMessage(interactions[i])
      BY <3>1, MessageAdded
    <3>3. interactions' \in Seq(Interaction) /\ Len(interactions') = n
      BY <2>0, <2>4, <3>2, InteractionChanges DEF AddMessage
    <3> QED
      BY <2>0, <2>4, <3>3 DEF AddMessage, InteractionsTyped
  <2>5. CASE UNCHANGED interactionVars
    BY <2>5 DEF interactionVars, InteractionsTyped
  <2> QED
    BY <2>1, <2>2, <2>3, <2>4, <2>5, InteractionSteps
<1> QED
  BY <1>1, <1>2, PTL DEF PeersSpec

\* What the property says of an interaction: that an acceptance of its identifier came since
\* it was started, and that it is the oldest.
Answered(i, p) == \E n \in i..MaxInteractions : <<p, n>> \in accepted

Foremost(i) ==
  \A j \in DOMAIN interactions : interactions[j].proposal = interactions[i].proposal => i <= j

Upright(i) ==
  /\ interactions[i].mode = "upgraded" <=> BySystem(interactions[i].messages)
  /\ interactions[i].mode = "upgraded" <=> Answered(i, interactions[i].proposal) /\ Foremost(i)

LEMMA UprightIs == UpgradedByAcceptance <=> \A i \in DOMAIN interactions : Upright(i)
BY DEF UpgradedByAcceptance, Upright, Answered, Foremost, BySystem

LEMMA UprightIsNext == UpgradedByAcceptance' <=> \A i \in DOMAIN interactions' : Upright(i)'
BY DEF UpgradedByAcceptance, Upright, Answered, Foremost, BySystem

\* Who is the oldest does not change while no interaction is started.
ProposalsStay ==
  /\ DOMAIN interactions' = DOMAIN interactions
  /\ \A j \in DOMAIN interactions : interactions'[j].proposal = interactions[j].proposal

LEMMA ForemostStays ==
  ASSUME ProposalsStay, NEW i \in DOMAIN interactions
  PROVE  Foremost(i)' <=> Foremost(i)
BY DEF ProposalsStay, Foremost

LEMMA AnsweredStays ==
  ASSUME UNCHANGED accepted, NEW i, NEW p
  PROVE  Answered(i, p)' <=> Answered(i, p)
BY DEF Answered

\* An acceptance answers for what it names among the interactions there are.
LEMMA AnsweredMore ==
  ASSUME InteractionsTyped, NEW q \in 1..Unproposed, Accept(q),
         NEW i \in DOMAIN interactions, NEW p
  PROVE  Answered(i, p)' <=> Answered(i, p) \/ p = q
<1>1. PICK n \in Nat : n = Len(interactions) /\ n <= MaxInteractions /\ DOMAIN interactions = 1..n
  BY DEF InteractionsTyped
<1>2. accepted' = accepted \union {<<q, n>>}
  BY <1>1 DEF Accept
<1>3. n \in i..MaxInteractions
  BY <1>1
<1> QED
  BY <1>2, <1>3 DEF Answered

\* An interaction is upgraded exactly when its identifier was accepted since it was started
\* and it is the oldest that names it (degradation.py, handle_response).
THEOREM OldestUpgraded == PeersSpec => []UpgradedByAcceptance
<1>1. PeersInit => UpgradedByAcceptance
  BY DEF PeersInit, InteractionsInit, UpgradedByAcceptance
<1>2. InteractionsTyped /\ UpgradedByAcceptance /\ [PeersNext]_peersVars => UpgradedByAcceptance'
  <2> SUFFICES ASSUME InteractionsTyped, UpgradedByAcceptance, [PeersNext]_peersVars
               PROVE  UpgradedByAcceptance'
    OBVIOUS
  <2>1. \A i \in DOMAIN interactions : Upright(i)
    BY UprightIs
  <2>2. PICK n \in Nat : n = Len(interactions) /\ DOMAIN interactions = 1..n
    BY DEF InteractionsTyped
  <2>3. ASSUME UNCHANGED <<interactions, accepted>>
        PROVE  UpgradedByAcceptance'
    BY <2>3 DEF UpgradedByAcceptance
  <2>4. ASSUME NEW p \in 0..Unproposed, StartDegraded(p)
        PROVE  UpgradedByAcceptance'
    <3>1. Begun(p) /\ UNCHANGED accepted
      BY <2>4 DEF StartDegraded, Begun
    <3>2. /\ DOMAIN interactions' = 1..(n + 1)
          /\ \A i \in 1..n : interactions'[i] = interactions[i]
          /\ interactions'[n + 1].mode = "degraded"
          /\ ~BySystem(interactions'[n + 1].messages)
      BY <2>2, <3>1, InteractionsGrow
    <3>3. ASSUME NEW i \in 1..n
          PROVE  Upright(i)'
      <4>1. Upright(i)
        BY <2>1, <2>2
      <4>2. Foremost(i)' <=> Foremost(i)
        BY <2>2, <3>2 DEF Foremost
      <4>3. interactions'[i] = interactions[i]
        BY <3>2
      <4>4. Answered(i, interactions[i].proposal)' <=> Answered(i, interactions[i].proposal)
        BY <3>1, <4>3 DEF Answered
      <4> QED
        BY <4>1, <4>2, <4>3, <4>4 DEF Upright
    <3>4. Upright(n + 1)'
      <4>1. ASSUME NEW q
            PROVE  ~\E m \in (n + 1)..MaxInteractions : <<q, m>> \in accepted'
        <5>1. \A x \in accepted : x[2] \in 0..n
          BY <2>2 DEF InteractionsTyped
        <5>2. \A m \in (n + 1)..MaxInteractions : m \notin 0..n
          OBVIOUS
        <5> QED
          BY <3>1, <5>1, <5>2
      <4> QED
        BY <3>2, <4>1 DEF Upright, Answered
    <3>5. \A i \in 1..(n + 1) : i \in 1..n \/ i = n + 1
      OBVIOUS
    <3> QED
      BY <3>2, <3>3, <3>4, <3>5, UprightIsNext
  <2>6. ASSUME NEW p \in 1..Unproposed, Accept(p)
        PROVE  UpgradedByAcceptance'
    <3>1. ASSUME NEW i \in Upgradable(p), \A j \in Upgradable(p) : i <= j,
                 interactions' = [interactions EXCEPT ![i] = Upgraded(@)]
          PROVE  UpgradedByAcceptance'
      <4>1. i \in DOMAIN interactions /\ interactions[i].proposal = p /\ interactions[i] \in Interaction
        BY DEF Upgradable, InteractionsTyped
      <4>2. PICK r \in Interaction : r = Upgraded(interactions[i])
        BY <4>1, MessageAdded
      <4>3. r.mode = "upgraded" /\ r.proposal = p /\ BySystem(r.messages)
        BY <4>1, <4>2, MessageAdded
      <4>4. /\ DOMAIN interactions' = DOMAIN interactions
            /\ interactions'[i] = r
            /\ \A j \in DOMAIN interactions : j # i => interactions'[j] = interactions[j]
        BY <3>1, <4>1, <4>2, InteractionChanges
      <4>5. ProposalsStay
        BY <4>1, <4>3, <4>4 DEF ProposalsStay
      <4>6. Foremost(i)
        BY <3>1, <4>1 DEF Foremost, Upgradable
      <4>7. Upright(i)'
        <5>1. Foremost(i)' /\ Answered(i, p)'
          BY <2>6, <4>1, <4>5, <4>6, ForemostStays, AnsweredMore
        <5>2. Answered(i, interactions[i].proposal)' <=> Answered(i, p)'
          BY <4>3, <4>4 DEF Answered
        <5> QED
          BY <4>3, <4>4, <5>1, <5>2 DEF Upright
      <4>8. ASSUME NEW j \in DOMAIN interactions, j # i
            PROVE  Upright(j)'
        <5>1. Upright(j) /\ interactions'[j] = interactions[j]
          BY <2>1, <4>4, <4>8
        <5>2. Foremost(j)' <=> Foremost(j)
          BY <4>5, ForemostStays
        <5>3. Foremost(j) => interactions[j].proposal # p
          BY <2>2, <3>1, <4>1, <4>8 DEF Foremost, Upgradable
        <5>4. Answered(j, interactions[j].proposal)'
                <=> Answered(j, interactions[j].proposal) \/ interactions[j].proposal = p
          <6>1. PICK q : q = interactions[j].proposal
            OBVIOUS
          <6>2. Answered(j, q)' <=> Answered(j, q) \/ q = p
            BY <2>6, AnsweredMore
          <6>3. Answered(j, interactions[j].proposal)' <=> Answered(j, q)'
            BY <5>1, <6>1 DEF Answered
          <6> QED
            BY <6>1, <6>2, <6>3
        <5> QED
          BY <5>1, <5>2, <5>3, <5>4 DEF Upright
      <4> QED
        BY <4>1, <4>4, <4>7, <4>8, UprightIsNext
    <3>2. ASSUME Upgradable(p) = {}, UNCHANGED interactions
          PROVE  UpgradedByAcceptance'
      <4>1. ASSUME NEW j \in DOMAIN interactions
            PROVE  Upright(j)'
        <5>1. Upright(j) /\ interactions[j].proposal # p
          BY <2>1, <3>2 DEF Upgradable
        <5>2. Foremost(j)' <=> Foremost(j)
          BY <3>2 DEF Foremost
        <5>3. Answered(j, interactions[j].proposal)' <=> Answered(j, interactions[j].proposal)
          <6>1. PICK q : q = interactions[j].proposal
            OBVIOUS
          <6>2. Answered(j, q)' <=> Answered(j, q)
            BY <2>6, <5>1, <6>1, AnsweredMore
          <6>3. Answered(j, interactions[j].proposal)' <=> Answered(j, q)'
            BY <3>2, <6>1 DEF Answered
          <6> QED
            BY <6>1, <6>2, <6>3
        <5> QED
          BY <3>2, <5>1, <5>2, <5>3 DEF Upright
      <4> QED
        BY <3>2, <4>1, UprightIsNext
    <3> QED
      BY <2>6, <3>1, <3>2 DEF Accept
  <2>7. ASSUME NEW i \in DOMAIN interactions, AddMessage(i)
        PROVE  UpgradedByAcceptance'
    <3>1. interactions[i] \in Interaction
      BY DEF InteractionsTyped
    <3>2. PICK r \in Interaction : r = WithMessage(interactions[i])
      BY <3>1, MessageAdded
    <3>3. /\ r.mode = interactions[i].mode /\ r.proposal = interactions[i].proposal
          /\ BySystem(r.messages) <=> BySystem(interactions[i].messages)
      BY <3>1, <3>2, MessageAdded
    <3>4. interactions' = [interactions EXCEPT ![i] = r] /\ accepted' = accepted
      BY <2>7, <3>2 DEF AddMessage
    <3>5. /\ DOMAIN interactions' = DOMAIN interactions
          /\ interactions'[i] = r
          /\ \A j \in DOMAIN interactions : j # i => interactions'[j] = interactions[j]
      BY <3>4, InteractionChanges
    <3>6. ProposalsStay
      BY <3>3, <3>5 DEF ProposalsStay
    <3>7. ASSUME NEW j \in DOMAIN interactions
          PROVE  Upright(j)'
      <4>1. /\ interactions'[j].mode = interactions[j].mode
            /\ BySystem(interactions'[j].messages) <=> BySystem(interactions[j].messages)
        BY <3>3, <3>5
      <4>2. Foremost(j)' <=> Foremost(j)
        BY <3>6, ForemostStays
      <4>3. Answered(j, interactions[j].proposal)' <=> Answered(j, interactions[j].proposal)
        BY <3>4, <3>6 DEF Answered, ProposalsStay
      <4>4. Upright(j)
        BY <2>1
      <4> QED
        BY <4>1, <4>2, <4>3, <4>4 DEF Upright
    <3> QED
      BY <3>5, <3>7, UprightIsNext
  <2>8. ASSUME Propose
        PROVE  UpgradedByAcceptance'
    BY <2>3, <2>8 DEF Propose
  <2>9. ASSUME UNCHANGED interactionVars
        PROVE  UpgradedByAcceptance'
    BY <2>3, <2>9 DEF interactionVars
  <2> QED
    BY <2>4, <2>6, <2>7, <2>8, <2>9, InteractionSteps
<1> QED
  BY <1>1, <1>2, InteractionsTypedKept, PTL DEF PeersSpec

(***************************************************************************)
(* Profiles                                                                *)
(***************************************************************************)

\* What is stored has its type, and is marked as verified when it is.
Marked ==
  /\ DOMAIN profiles = ProfileOwners
  /\ \A a \in Stored :
       /\ profiles[a].body \in Bodies /\ profiles[a].verified \in BOOLEAN
       /\ a \in checked <=> profiles[a].verified = TRUE

\* A step keeps a profile and its mark, drops it, or stores one with the mark it is due.
LEMMA ProfileSteps ==
  ASSUME Marked, [PeersNext]_peersVars
  PROVE  /\ DOMAIN profiles' = ProfileOwners
         /\ \A o \in ProfileOwners :
              \/ profiles'[o] = profiles[o] /\ (o \in checked' <=> o \in checked)
              \/ profiles'[o] = NoProfile
              \/ /\ profiles'[o].body \in Bodies /\ profiles'[o].verified \in BOOLEAN
                 /\ (o \in checked' <=> profiles'[o].verified = TRUE)
<1> DEFINE Goal ==
      /\ DOMAIN profiles' = ProfileOwners
      /\ \A o \in ProfileOwners :
           \/ profiles'[o] = profiles[o] /\ (o \in checked' <=> o \in checked)
           \/ profiles'[o] = NoProfile
           \/ /\ profiles'[o].body \in Bodies /\ profiles'[o].verified \in BOOLEAN
              /\ (o \in checked' <=> profiles'[o].verified = TRUE)
<1>1. ASSUME NEW gone, Forget(gone)
      PROVE  Goal
  BY <1>1 DEF Forget
<1>2. ASSUME UNCHANGED <<profiles, checked>>
      PROVE  Goal
  BY <1>2 DEF Marked
<1>3. ASSUME NEW a \in ProfileOwners, NEW b \in Bodies, NEW s \in {"none", "valid", "invalid"},
             Publish(a, b, s)
      PROVE  Goal
  <2>1. PICK v \in BOOLEAN : v = (s = "valid")
    OBVIOUS
  <2>2. PICK r : r = [body |-> b, verified |-> v]
    OBVIOUS
  <2>3. r.body = b /\ r.verified = v
    BY <2>2
  <2>4. profiles' = [profiles EXCEPT ![a] = r]
    BY <1>3, <2>1, <2>2, Zenon DEF Publish
  <2>5. checked' = (IF s = "valid" THEN checked \union {a} ELSE checked \ {a})
    BY <1>3 DEF Publish
  <2>6. a \in checked' <=> v = TRUE
    BY <2>1, <2>5
  <2>7. \A o \in ProfileOwners : o # a => (o \in checked' <=> o \in checked)
    BY <2>5
  <2> QED
    BY <2>3, <2>4, <2>6, <2>7 DEF Marked
<1>4. ASSUME NEW a \in ProfileOwners, NEW b \in Bodies, PublishByTool(a, b)
      PROVE  Goal
  <2>1. PICK v \in BOOLEAN : v = FALSE
    OBVIOUS
  <2>2. PICK r : r = [body |-> b, verified |-> v]
    OBVIOUS
  <2>3. r.body = b /\ r.verified = v
    BY <2>2
  <2>4. profiles' = [o \in ProfileOwners |-> IF o = a THEN r ELSE IF o \in aged THEN NoProfile ELSE profiles[o]]
    BY <1>4, <2>1, <2>2, Zenon DEF PublishByTool
  <2>5. checked' = checked \ (aged \union {a})
    BY <1>4 DEF PublishByTool
  <2> QED
    BY <2>1, <2>3, <2>4, <2>5
<1>5. ASSUME ProfileStep
      PROVE  Goal
  <2> HIDE DEF Goal
  <2> QED
    BY <1>1, <1>2, <1>3, <1>4, <1>5
       DEF ProfileStep, GetProfile, ListProfiles, DeleteProfile, Search, Age
<1>6. Goal
  <2> HIDE DEF Goal
  <2> QED
    BY <1>2, <1>5 DEF PeersNext, profileVars, peersVars, Recommend
<1> QED
  BY <1>6

LEMMA MarkedKept == PeersSpec => []Marked
<1>1. PeersInit => Marked
  BY DEF PeersInit, ProfilesInit, Marked, Stored
<1>2. Marked /\ [PeersNext]_peersVars => Marked'
  <2> SUFFICES ASSUME Marked, [PeersNext]_peersVars
               PROVE  Marked'
    OBVIOUS
  <2> QED
    BY ProfileSteps DEF Marked, Stored
<1> QED
  BY <1>1, <1>2, PTL DEF PeersSpec

\* A search returns no more than it may, and nothing worse than what it leaves out: no
\* unverified profile for a verified one, and none of a lower key for one of a higher
\* (profile_store.py, search).
THEOREM BestFound == PeersSpec => SearchFindsBest
<1>1. Marked /\ [PeersNext]_peersVars =>
        [\A s \in search' \ search :
           LET Better(a, o) ==
                 /\ o \in checked => a \in checked
                 /\ (o \in checked <=> a \in checked) =>
                      SortKey(profiles[a].body, s.filter) >= SortKey(profiles[o].body, s.filter)
           IN
           /\ s.found \subseteq Current
           /\ Cardinality(s.found) <= s.filter.limit
           /\ \A o \in Current \ s.found : MatchesFilters(profiles[o].body, s.filter) =>
                /\ Cardinality(s.found) = s.filter.limit
                /\ \A a \in s.found : Better(a, o)]_peersVars
  <2> SUFFICES ASSUME Marked, PeersNext, NEW s \in search' \ search
               PROVE  /\ s.found \subseteq Current
                      /\ Cardinality(s.found) <= s.filter.limit
                      /\ \A o \in Current \ s.found : MatchesFilters(profiles[o].body, s.filter) =>
                           /\ Cardinality(s.found) = s.filter.limit
                           /\ \A a \in s.found :
                                /\ o \in checked => a \in checked
                                /\ (o \in checked <=> a \in checked) =>
                                     SortKey(profiles[a].body, s.filter) >= SortKey(profiles[o].body, s.filter)
    BY Zenon
  <2>1. PICK f \in Filters : Search(f)
    BY DEF PeersNext, ProfileStep, Publish, PublishByTool, GetProfile, ListProfiles, DeleteProfile, Age,
           Recommend, profileVars
  <2>2. PICK found \in SUBSET Chosen(f) :
         /\ Cardinality(found) = IF Cardinality(Chosen(f)) < f.limit THEN Cardinality(Chosen(f)) ELSE f.limit
         /\ \A a \in found, o \in Chosen(f) \ found : ~Before(profiles[o], profiles[a], f)
         /\ search' = {[filter |-> f, found |-> found]}
    BY <2>1 DEF Search
  <2>3. s.filter = f /\ s.found = found
    BY <2>2
  <2>4. f.limit \in Nat
    BY AgentProfilesAssumption
  <2>5. Chosen(f) \subseteq ProfileOwners /\ Chosen(f) \subseteq Current
    BY DEF Chosen, Current, Stored
  <2>6. IsFiniteSet(Chosen(f)) /\ Cardinality(Chosen(f)) \in Nat
    BY <2>5, FS_Subset, FS_CardinalityType, AgentProfilesAssumption
  <2>7. Cardinality(found) <= f.limit
    BY <2>2, <2>4, <2>6
  <2>8. ASSUME NEW o \in Current \ found, MatchesFilters(profiles[o].body, f)
        PROVE  Cardinality(found) = f.limit
    <3>1. o \in Chosen(f) \ found
      BY <2>8 DEF Chosen
    <3>2. Cardinality(found) # Cardinality(Chosen(f))
      BY <2>2, <2>6, <3>1, FS_Subset
    <3> QED
      BY <2>2, <3>2
  <2>9. ASSUME NEW o \in Current \ found, MatchesFilters(profiles[o].body, f), NEW a \in found
        PROVE  /\ o \in checked => a \in checked
               /\ (o \in checked <=> a \in checked) =>
                    SortKey(profiles[a].body, f) >= SortKey(profiles[o].body, f)
    <3>1. o \in Chosen(f) \ found
      BY <2>9 DEF Chosen
    <3>2. ~Before(profiles[o], profiles[a], f)
      BY <2>2, <3>1
    <3>3. a \in Stored /\ o \in Stored
      BY <2>5 DEF Current
    <3>4. /\ o \in checked <=> profiles[o].verified = TRUE
          /\ a \in checked <=> profiles[a].verified = TRUE
          /\ SortKey(profiles[a].body, f) \in Int /\ SortKey(profiles[o].body, f) \in Int
      BY <3>3, AgentProfilesAssumption DEF Marked, SortKey
    <3>5. PICK v \in BOOLEAN, w \in BOOLEAN : v = profiles[o].verified /\ w = profiles[a].verified
      BY <3>3 DEF Marked
    <3>6. ~(v = TRUE /\ w = FALSE)
      BY <3>2, <3>5 DEF Before
    <3>7. ~(v = w /\ SortKey(profiles[o].body, f) > SortKey(profiles[a].body, f))
      BY <3>2, <3>5 DEF Before
    <3>8. o \in checked <=> v = TRUE
      BY <3>4, <3>5
    <3>9. a \in checked <=> w = TRUE
      BY <3>4, <3>5
    <3>10. (o \in checked <=> a \in checked) => v = w
      BY <3>8, <3>9
    <3> QED
      BY <3>4, <3>6, <3>7, <3>8, <3>9, <3>10
  <2> QED
    BY <2>2, <2>3, <2>5, <2>7, <2>8, <2>9
<1> QED
  BY <1>1, MarkedKept, PTL DEF PeersSpec, SearchFindsBest
==============================================================================
