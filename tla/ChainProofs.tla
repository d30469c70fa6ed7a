----------------------------- MODULE ChainProofs -----------------------------
(***************************************************************************)
(* What TLAPS proves of ChainSession and of Closure, for every set of      *)
(* holders, number of participants and deadline, and for all trees, deals  *)
(* and commitments.  A step of a chain changes at most one object, so what *)
(* an object keeps is proved of the four ways to change one, and the       *)
(* invariants of the session follow by saying whose object it was.  What   *)
(* closes a deal is proved of the trees by induction over their height.    *)
(***************************************************************************)
EXTENDS ChainSession, Closure, TLAPS, FiniteSetTheorems, SequenceTheorems, WellFoundedInduction

USE ChainSessionAssumption

(***************************************************************************)
(* One object                                                              *)
(***************************************************************************)

\* An object has a record for each transition, and its stamps are of its end.
WellFormed(c) ==
  /\ Len(c.transitions) = CASE c.state = "PROPOSED" -> 0
                            [] c.state = "OPEN"     -> 1
                            [] OTHER                -> 2
  /\ c.state = "OPEN" => c.transitions[1].hash \in FirstHash
  /\ c.state = "ACTIVATED" => c.activated \in Nat /\ c.activated < Deadline
  /\ c.state = "EXPIRED" => c.dissolved \in Nat /\ c.dissolved >= Deadline

\* One of its records is not what its hash says.
Shows(c) == \E i \in DOMAIN c.transitions : c.transitions[i].hash # ComputeHash(c.transitions[i])

\* A transcript with such a record does not verify.
LEMMA ShowsAlteration == \A c : Shows(c) => ~VerifyTranscript(c.transitions)
BY DEF Shows, VerifyTranscript

\* A legal transition keeps an object well formed, a transcript that tells the state
\* telling it, and an alteration showing.
LEMMA MovedKeeps ==
  ASSUME NEW c \in Object, WellFormed(c), NEW time \in Nat,
         NEW to \in Legal(c.state), Allowed(c, to, time)
  PROVE  /\ Moved(c, to, time) \in Object
         /\ WellFormed(Moved(c, to, time))
         /\ Tells(c) => Tells(Moved(c, to, time))
         /\ Shows(c) => Shows(Moved(c, to, time))
<1> DEFINE ts == c.transitions
           r  == Added(c, to, time)
           d  == Moved(c, to, time)
           us == Append(ts, r)
<1>1. /\ ts \in Seq(Record) /\ c.state \in States /\ to \in States
      /\ Len(ts) \in Nat /\ DOMAIN ts = 1..Len(ts)
  BY LenProperties DEF Object, Legal, States
<1>2. \/ c.state = "PROPOSED" /\ Len(ts) = 0 /\ ts = <<>> /\ to = "OPEN"
      \/ c.state = "OPEN" /\ Len(ts) = 1 /\ ts # <<>> /\ to \in {"ACTIVATED", "DISSOLVED", "EXPIRED"}
  BY <1>1, EmptySeq DEF WellFormed, Legal, States
<1>3. /\ r \in Record
      /\ to = "OPEN" => r.hash \in FirstHash
  BY <1>1, <1>2 DEF Added, ComputeHash, Record, FirstHash, NextHash, WellFormed
<1>4. /\ us \in Seq(Record) /\ Len(us) = Len(ts) + 1 /\ DOMAIN us = 1..(Len(ts) + 1)
      /\ us[Len(us)] = r
      /\ \A i \in 1..Len(ts) : us[i] = ts[i]
  BY <1>1, <1>3, AppendProperties
<1> HIDE DEF ts, r, us
<1>5. /\ d.state = to /\ d.proof = c.proof /\ d.unwind = c.unwind /\ d.transitions = us
      /\ d.activated = IF to = "ACTIVATED" THEN time ELSE c.activated
      /\ d.dissolved = IF to \in {"DISSOLVED", "EXPIRED"} THEN time ELSE c.dissolved
  BY DEF Moved, ts, us, r
<1>6. d \in Object
  BY <1>1, <1>4 DEF Moved, Object, ts, us, r
<1> HIDE DEF d
<1>7. WellFormed(d)
  <2>1. Len(us) = CASE to = "PROPOSED" -> 0 [] to = "OPEN" -> 1 [] OTHER -> 2
    BY <1>2, <1>4
  <2>2. to = "OPEN" => us[1].hash \in FirstHash
    BY <1>2, <1>3, <1>4
  <2>3. to = "ACTIVATED" => time < Deadline
    BY DEF Allowed
  <2>4. to = "EXPIRED" => time >= Deadline
    BY DEF Allowed
  <2> QED
    BY <1>5, <2>1, <2>2, <2>3, <2>4 DEF WellFormed
<1>8. ASSUME Tells(c) PROVE Tells(d)
  <2>1. /\ \A i \in 1..Len(ts) : /\ ts[i].prev = IF i = 1 THEN None ELSE ts[i - 1].hash
                                 /\ ts[i].hash = ComputeHash(ts[i])
                                 /\ ts[i].from = IF i = 1 THEN "PROPOSED" ELSE ts[i - 1].to
        /\ c.state = IF ts = <<>> THEN "PROPOSED" ELSE ts[Len(ts)].to
    BY <1>1, <1>8 DEF Tells, VerifyTranscript, ts
  <2>2. /\ r.prev = IF ts = <<>> THEN None ELSE ts[Len(ts)].hash
        /\ r.hash = ComputeHash(r) /\ r.from = c.state /\ r.to = to
    BY DEF Added, ComputeHash, r, ts
  <2>3. \A i \in 1..Len(us) : /\ us[i].prev = IF i = 1 THEN None ELSE us[i - 1].hash
                              /\ us[i].hash = ComputeHash(us[i])
                              /\ us[i].from = IF i = 1 THEN "PROPOSED" ELSE us[i - 1].to
    <3>1. CASE Len(ts) = 0
      BY <1>2, <1>4, <2>2, <3>1
    <3>2. CASE Len(ts) = 1
      BY <1>2, <1>4, <2>1, <2>2, <3>2
    <3> QED
      BY <1>2, <3>1, <3>2
  <2>4. us # <<>> /\ us[Len(us)].to = to
    BY <1>1, <1>4, <2>2
  <2> QED
    BY <1>4, <1>5, <2>3, <2>4 DEF Tells, VerifyTranscript
<1>9. ASSUME Shows(c) PROVE Shows(d)
  <2>1. PICK i \in 1..Len(ts) : ts[i].hash # ComputeHash(ts[i])
    BY <1>1, <1>9 DEF Shows, ts
  <2>2. i \in DOMAIN us /\ us[i] = ts[i]
    BY <1>1, <1>4, <2>1
  <2> QED
    BY <1>5, <2>1, <2>2 DEF Shows
<1> QED
  BY <1>6, <1>7, <1>8, <1>9 DEF d

\* The object of a new session is well formed, and its empty transcript tells its state.
LEMMA ProposedIs ==
  Proposed \in Object /\ WellFormed(Proposed) /\ Tells(Proposed)
<1>1. Proposed \in Object
  BY EmptySeq DEF Proposed, Object, States
<1>2. Proposed.transitions = <<>> /\ Proposed.state = "PROPOSED" /\ Len(<<>>) = 0 /\ DOMAIN <<>> = {}
  BY DEF Proposed
<1> QED
  BY <1>1, <1>2 DEF WellFormed, Tells, VerifyTranscript

\* What the host sets does not touch the records.
LEMMA SetKeeps ==
  ASSUME NEW c \in Object, NEW d \in {[c EXCEPT !.proof = TRUE], [c EXCEPT !.unwind = TRUE]}
  PROVE  /\ d \in Object
         /\ WellFormed(c) => WellFormed(d)
         /\ Tells(c) => Tells(d)
         /\ Shows(c) => Shows(d)
<1>1. d \in Object
  BY DEF Object
<1>2. /\ d.state = c.state /\ d.transitions = c.transitions
      /\ d.activated = c.activated /\ d.dissolved = c.dissolved
  BY DEF Object
<1> QED
  BY <1>1, <1>2 DEF WellFormed, Tells, Shows

\* An altered record shows: its hash covers the time that was altered.
LEMMA AlterKeeps ==
  ASSUME NEW c \in Object, WellFormed(c), Tells(c),
         NEW i \in DOMAIN c.transitions, NEW time \in Nat, c.transitions[i].at # time,
         NEW d, d = [c EXCEPT !.transitions[i].at = time]
  PROVE  d \in Object /\ WellFormed(d) /\ Shows(d)
<1> DEFINE ts == c.transitions
           r  == [ts[i] EXCEPT !.at = time]
           us == [ts EXCEPT ![i] = r]
<1>1. ts \in Seq(Record) /\ Len(ts) \in Nat /\ DOMAIN ts = 1..Len(ts) /\ ts[i] \in Record
  BY LenProperties, ElementOfSeq DEF Object
<1>2. /\ r \in Record /\ r.at = time /\ r.hash = ts[i].hash
      /\ r.from = ts[i].from /\ r.to = ts[i].to /\ r.prev = ts[i].prev
  BY <1>1 DEF Record
<1>3. /\ us \in Seq(Record) /\ Len(us) = Len(ts) /\ DOMAIN us = DOMAIN ts
      /\ \A j \in DOMAIN ts : us[j] = IF j = i THEN r ELSE ts[j]
  BY <1>1, <1>2, ExceptSeq
<1> HIDE DEF r
<1>4. d = [c EXCEPT !.transitions = us]
  BY DEF r
<1> HIDE DEF us
<1>5. /\ d \in Object /\ d.transitions = us /\ d.state = c.state
      /\ d.activated = c.activated /\ d.dissolved = c.dissolved
  BY <1>3, <1>4 DEF Object
<1>6. DOMAIN us # {} => us[1].hash = ts[1].hash
  BY <1>1, <1>2, <1>3, SMTT(30)
<1>7. WellFormed(d)
  BY <1>1, <1>3, <1>5, <1>6 DEF WellFormed
<1>8. ts[i].hash = ComputeHash(ts[i])
  BY DEF Tells, VerifyTranscript
<1>9. us[i].hash # ComputeHash(us[i])
  BY <1>2, <1>3, <1>8 DEF ComputeHash
<1> QED
  BY <1>3, <1>5, <1>7, <1>9 DEF Shows

(***************************************************************************)
(* The session                                                             *)
(***************************************************************************)

IInv ==
  /\ TypeOK
  /\ \A h \in Held : WellFormed(chain[h])
  /\ \A h \in Held \ altered : Tells(chain[h])
  /\ \A h \in altered : Shows(chain[h])

\* A step changes at most one object, as one of the four ways to change it would, or
\* makes one out of another.
Changed(h) ==
  \/ \E to \in Legal(chain[h].state) :
       Allowed(chain[h], to, now) /\ chain'[h] = Moved(chain[h], to, now)
  \/ chain'[h] \in {[chain[h] EXCEPT !.proof = TRUE], [chain[h] EXCEPT !.unwind = TRUE]}

StepOf(h) ==
  /\ Changed(h) /\ altered' = altered
  /\ \A k \in Holders \ {h} : chain'[k] = chain[k]
StepAlters(h) ==
  /\ h \notin altered /\ altered' = altered \union {h}
  /\ \E i \in DOMAIN chain[h].transitions, time \in Nat :
       /\ chain[h].transitions[i].at # time
       /\ chain'[h] = [chain[h] EXCEPT !.transitions[i].at = time]
  /\ \A k \in Holders \ {h} : chain'[k] = chain[k]
StepCopies(h, k) ==
  /\ chain[k] = None /\ chain'[k] = chain[h]
  /\ altered' = IF h \in altered THEN altered \union {k} ELSE altered
  /\ \A l \in Holders \ {k} : chain'[l] = chain[l]

\* Every action is one of these steps, and keeps the shared list and the clock in bounds.
LEMMA Steps ==
  ASSUME TypeOK, [Next]_vars
  PROVE  /\ chain' \in [Holders -> {chain'[h] : h \in Holders}]
         /\ commitments' \in 0..MaxCommitments /\ now' \in 0..MaxTime
         /\ \/ UNCHANGED <<chain, altered>>
            \/ \E h \in Held : \/ StepOf(h)
                               \/ StepAlters(h)
                               \/ \E k \in Holders : StepCopies(h, k)
<1>1. CASE Commit
  BY <1>1 DEF Commit, TypeOK
<1>2. CASE Tick
  BY <1>2 DEF Tick, TypeOK
<1>3. ASSUME NEW h \in Held, NEW to \in States, TransitionTo(h, to)
      PROVE  StepOf(h) /\ commitments' = commitments /\ now' = now
             /\ chain' \in [Holders -> {chain'[k] : k \in Holders}]
  BY <1>3 DEF TransitionTo, StepOf, Changed, TypeOK, Held
<1>4. ASSUME NEW h \in Held, SetProof(h) \/ SetUnwind(h)
      PROVE  StepOf(h) /\ commitments' = commitments /\ now' = now
             /\ chain' \in [Holders -> {chain'[k] : k \in Holders}]
  BY <1>4 DEF SetProof, SetUnwind, StepOf, Changed, TypeOK, Held
<1>5. ASSUME NEW h \in Held, NEW k \in Holders, HandOver(h, k)
      PROVE  StepCopies(h, k) /\ commitments' = commitments /\ now' = now
             /\ chain' \in [Holders -> {chain'[l] : l \in Holders}]
  BY <1>5 DEF HandOver, StepCopies, TypeOK, Held
<1>6. ASSUME NEW h \in Held, NEW i \in DOMAIN chain[h].transitions, NEW time \in 0..MaxTime,
             Alter(h, i, time)
      PROVE  StepAlters(h) /\ commitments' = commitments /\ now' = now
             /\ chain' \in [Holders -> {chain'[l] : l \in Holders}]
  <2>1. chain' = [chain EXCEPT ![h] = [chain[h] EXCEPT !.transitions[i].at = time]]
    BY <1>6 DEF Alter
  <2>2. /\ chain'[h] = [chain[h] EXCEPT !.transitions[i].at = time]
        /\ \A k \in Holders \ {h} : chain'[k] = chain[k]
        /\ chain' \in [Holders -> {chain'[l] : l \in Holders}]
    <3> DEFINE d == [chain[h] EXCEPT !.transitions[i].at = time]
    <3>1. chain' = [chain EXCEPT ![h] = d]
      BY <2>1
    <3> HIDE DEF d
    <3>2. /\ chain'[h] = d
          /\ \A k \in Holders \ {h} : chain'[k] = chain[k]
          /\ chain' \in [Holders -> {chain'[l] : l \in Holders}]
      BY <3>1 DEF TypeOK, Held
    <3> QED
      BY <3>2 DEF d
  <2>3. time \in Nat
    OBVIOUS
  <2> QED
    BY <1>6, <2>2, <2>3 DEF Alter, StepAlters
<1>7. CASE UNCHANGED vars
  BY <1>7 DEF vars, TypeOK
<1> QED
  BY <1>1, <1>2, <1>3, <1>4, <1>5, <1>6, <1>7 DEF Next, TypeOK

\* The invariant holds of a new session.
THEOREM Initially == Init => IInv
<1> SUFFICES ASSUME Init PROVE IInv
  OBVIOUS
<1>1. chain \in [Holders -> Object \union {None}] /\ altered = {}
  BY ProposedIs DEF Init
<1>2. \A h \in Held : chain[h] = Proposed
  BY DEF Held, Init
<1>3. TypeOK
  BY <1>1 DEF TypeOK, Init
<1> QED
  BY <1>1, <1>2, <1>3, ProposedIs DEF IInv

\* The invariant is kept: of the one object that a step changes by what is proved of that
\* change, of the others because they and their alteration stay as they were.
THEOREM Inductive == IInv /\ [Next]_vars => IInv'
<1> SUFFICES ASSUME IInv, [Next]_vars PROVE IInv'
  OBVIOUS
<1> DEFINE Well(h)  == chain'[h] \in Object /\ WellFormed(chain'[h])
                       /\ (h \notin altered' => Tells(chain'[h]))
                       /\ (h \in altered' => Shows(chain'[h]))
<1>1. \A h \in Held : /\ chain[h] \in Object /\ WellFormed(chain[h])
                      /\ (h \notin altered => Tells(chain[h]))
                      /\ (h \in altered => Shows(chain[h]))
  BY DEF IInv, TypeOK, Held
<1>2. now \in Nat /\ altered \subseteq Held /\ Held \subseteq Holders
  BY DEF IInv, TypeOK, Held
<1>3. SUFFICES /\ \A h \in Holders : chain'[h] = None \/ Well(h)
               /\ \A h \in altered' : h \in Holders /\ Well(h)
  <2>1. \A h \in Holders : chain'[h] = None \/ Well(h)
    BY <1>3
  <2>2. chain' \in [Holders -> Object \union {None}]
    BY <2>1, Steps DEF IInv
  <2>3. altered' \subseteq Held'
    BY <1>3, NoneAssumption DEF Held
  <2>4. TypeOK'
    BY <2>2, <2>3, Steps DEF IInv, TypeOK
  <2> QED
    BY <1>3, <2>1, <2>3, <2>4 DEF IInv, Held
<1>4. CASE UNCHANGED <<chain, altered>>
  BY <1>1, <1>2, <1>4 DEF Held
<1>5. ASSUME NEW h \in Held, StepOf(h)
      PROVE  \A k \in Holders : k \in Held => Well(k)
  <2>1. Well(h)
    <3>1. CASE \E to \in Legal(chain[h].state) :
                 Allowed(chain[h], to, now) /\ chain'[h] = Moved(chain[h], to, now)
      BY <1>1, <1>2, <1>5, <3>1, MovedKeeps DEF StepOf
    <3>2. CASE chain'[h] \in {[chain[h] EXCEPT !.proof = TRUE], [chain[h] EXCEPT !.unwind = TRUE]}
      BY <1>1, <1>5, <3>2, SetKeeps DEF StepOf
    <3> QED
      BY <1>5, <3>1, <3>2 DEF StepOf, Changed
  <2> QED
    BY <1>1, <1>2, <1>5, <2>1 DEF StepOf
<1>6. ASSUME NEW h \in Held, StepAlters(h)
      PROVE  \A k \in Holders : k \in Held => Well(k)
  <2>1. Well(h)
    BY <1>1, <1>6, AlterKeeps DEF StepAlters
  <2> QED
    BY <1>1, <1>2, <1>6, <2>1 DEF StepAlters
<1>7. ASSUME NEW h \in Held, NEW k \in Holders, StepCopies(h, k)
      PROVE  /\ \A l \in Holders : l \in Held \union {k} => Well(l)
             /\ altered' \subseteq Held \union {k}
             /\ \A l \in Holders \ {k} : chain'[l] = chain[l]
  <2>1. k # h /\ k \notin altered
    BY <1>2, <1>7 DEF StepCopies, Held
  <2>2. Well(k)
    BY <1>1, <1>7, <2>1 DEF StepCopies
  <2> QED
    BY <1>1, <1>2, <1>7, <2>1, <2>2 DEF StepCopies
<1>8. CASE \E h \in Held : StepOf(h) \/ StepAlters(h)
  <2>1. PICK h \in Held : StepOf(h) \/ StepAlters(h)
    BY <1>8
  <2>2. /\ \A k \in Held : Well(k)
        /\ altered' \subseteq Held
        /\ \A k \in Holders \ Held : chain'[k] = chain[k]
    BY <1>2, <1>5, <1>6, <2>1 DEF StepOf, StepAlters
  <2> QED
    BY <1>2, <2>2 DEF Held
<1>9. CASE \E h \in Held, k \in Holders : StepCopies(h, k)
  BY <1>2, <1>7, <1>9 DEF Held
<1> QED
  BY <1>4, <1>8, <1>9, Steps DEF IInv

\* And so it holds in every state of every behaviour.
THEOREM Invariance == Spec => []IInv
<1> QED
  BY Initially, Inductive, PTL DEF Spec

(***************************************************************************)
(* The properties                                                          *)
(***************************************************************************)

\* TypeOK: the objects, the shared list and the clock keep their types.
THEOREM TypeCorrect == Spec => []TypeOK
<1>1. IInv => TypeOK
  BY DEF IInv
<1> QED
  BY <1>1, Invariance, PTL

\* TranscriptTellsState: the transcript of an unaltered object leads to its state.
THEOREM TranscriptsTell == Spec => []TranscriptTellsState
<1>1. IInv => TranscriptTellsState
  BY DEF IInv, TranscriptTellsState
<1> QED
  BY <1>1, Invariance, PTL

\* AlterationShows: an altered record fails verification ever after.
THEOREM AlterationsShow == Spec => []AlterationShows
<1>1. IInv => AlterationShows
  BY ShowsAlteration DEF IInv, AlterationShows
<1> QED
  BY <1>1, Invariance, PTL

\* ExpiryFollowsActivation: of two holders, none expires before the other is activated.
THEOREM ExpiryIsAfterActivation == Spec => []ExpiryFollowsActivation
<1>1. IInv => ExpiryFollowsActivation
  BY DEF IInv, ExpiryFollowsActivation, WellFormed
<1> QED
  BY <1>1, Invariance, PTL

\* EndsForGood: an end is final, and an object with an activation proof does not expire.
THEOREM EndsAreFinal == Spec => EndsForGood
<1> DEFINE A == \A h \in Held :
       /\ Legal(chain[h].state) = {} =>
            /\ chain'[h].state = chain[h].state
            /\ chain'[h].activated = chain[h].activated
            /\ chain'[h].dissolved = chain[h].dissolved
       /\ chain[h].proof /\ chain[h].state # "EXPIRED" => chain'[h].state # "EXPIRED"
<1>1. ASSUME IInv, [Next]_vars PROVE A
  <2>1. \A h \in Held : chain[h] \in Object
    BY <1>1 DEF IInv, TypeOK, Held
  <2> SUFFICES ASSUME NEW h \in Held, chain'[h] # chain[h]
               PROVE  /\ Legal(chain[h].state) = {} =>
                           /\ chain'[h].state = chain[h].state
                           /\ chain'[h].activated = chain[h].activated
                           /\ chain'[h].dissolved = chain[h].dissolved
                      /\ chain[h].proof /\ chain[h].state # "EXPIRED" => chain'[h].state # "EXPIRED"
    OBVIOUS
  <2>2. chain[h] \in Object /\ h \in Holders
    BY <2>1 DEF Held
  <2>3. CASE Changed(h)
    <3>1. CASE \E to \in Legal(chain[h].state) :
                 Allowed(chain[h], to, now) /\ chain'[h] = Moved(chain[h], to, now)
      <4>1. PICK to \in Legal(chain[h].state) :
              Allowed(chain[h], to, now) /\ chain'[h] = Moved(chain[h], to, now)
        BY <3>1
      <4>2. chain'[h].state = to
        BY <4>1 DEF Moved
      <4>3. to = "EXPIRED" => ~chain[h].proof
        BY <4>1 DEF Allowed
      <4> QED
        BY <4>1, <4>2, <4>3
    <3>2. CASE chain'[h] \in {[chain[h] EXCEPT !.proof = TRUE], [chain[h] EXCEPT !.unwind = TRUE]}
      BY <2>2, <3>2 DEF Object
    <3> QED
      BY <2>3, <3>1, <3>2 DEF Changed
  <2>4. CASE StepAlters(h)
    <3>1. PICK i \in DOMAIN chain[h].transitions, time \in Nat :
            chain'[h] = [chain[h] EXCEPT !.transitions[i].at = time]
      BY <2>4 DEF StepAlters
    <3> QED
      BY <2>2, <3>1 DEF Object
  <2>5. Changed(h) \/ StepAlters(h)
    <3>1. PICK k \in Held : StepOf(k) \/ StepAlters(k) \/ \E l \in Holders : StepCopies(k, l)
      BY <1>1, Steps DEF IInv
    <3> QED
      BY <2>2, <3>1 DEF StepOf, StepAlters, StepCopies, Held
  <2> QED
    BY <2>3, <2>4, <2>5
<1> QED
  BY <1>1, Invariance, PTL DEF Spec, EndsForGood

HIDE ChainSessionAssumption

(***************************************************************************)
(* Numbers up to a bound                                                   *)
(***************************************************************************)

\* A set of numbers has a least element.
LEMMA LeastNatural ==
  ASSUME NEW S, S \subseteq Nat, S # {}
  PROVE  \E x \in S : \A y \in S : x <= y
<1> DEFINE R == StrictSubsetOrdering(Nat)
           T == {0..x : x \in S}
<1>1. T \subseteq FiniteSubsetsOf(Nat) /\ T # {}
  <2>1. ASSUME NEW x \in S PROVE 0..x \in SUBSET Nat /\ IsFiniteSet(0..x)
    <3>1. x \in Int /\ 0 \in Int
      OBVIOUS
    <3>2. IsFiniteSet(0..x)
      BY <3>1, FS_Interval
    <3> QED
      BY <3>2
  <2> QED
    BY <2>1 DEF FiniteSubsetsOf
<1>2. IsWellFoundedOn(R, FiniteSubsetsOf(Nat))
  BY FS_StrictSubsetOrderingWellFounded
<1>3. PICK t \in T : \A u \in T : <<u, t>> \notin R
  <2> HIDE DEF R, T
  <2> QED
    BY <1>1, <1>2, WFMin
<1>4. PICK x \in S : t = 0..x
  OBVIOUS
<1>5. \A y \in S : x <= y
  <2> SUFFICES ASSUME NEW y \in S, y < x PROVE FALSE
    OBVIOUS
  <2>1. 0..y \subseteq 0..x /\ 0..y # 0..x /\ 0..y \in SUBSET Nat /\ 0..x \in SUBSET Nat
    OBVIOUS
  <2>2. <<0..y, 0..x>> \in R
    BY <2>1 DEF StrictSubsetOrdering
  <2> QED
    BY <1>3, <1>4, <2>2
<1> QED
  BY <1>4, <1>5

\* Induction up to a bound, over a set.
LEMMA UpToBound ==
  ASSUME NEW d \in Nat, NEW T, 0 \in T, \A n \in Nat : n < d /\ n \in T => n + 1 \in T
  PROVE  \A n \in 0..d : n \in T
<1> DEFINE S == {n \in 0..d : n \notin T}
<1> SUFFICES ASSUME S # {} PROVE FALSE
  OBVIOUS
<1>1. S \subseteq Nat
  OBVIOUS
<1>2. PICK x \in S : \A y \in S : x <= y
  <2> HIDE DEF S
  <2> QED
    BY <1>1, LeastNatural
<1>3. x \in 0..d /\ x \notin T /\ x # 0
  BY <1>2
<1>4. x - 1 \in Nat /\ x - 1 < d /\ x - 1 \in 0..d
  BY <1>3
<1>5. x - 1 \in T
  BY <1>2, <1>3, <1>4
<1>6. (x - 1) + 1 = x
  BY <1>3
<1> QED
  BY <1>3, <1>4, <1>5, <1>6

(***************************************************************************)
(* Sums                                                                    *)
(***************************************************************************)

\* s has the sums of the first of f's n values.
Sums(s, f, n) == s \in [0..n -> Int] /\ s[0] = 0 /\ \A k \in 1..n : s[k] = s[k - 1] + f[k]
Summed(s, f, n) == f \in [1..n -> Int] /\ Sums(s, f, n)

LEMMA SumsExist ==
  ASSUME NEW n \in Nat, NEW f \in [1..n -> Int]
  PROVE  \E s : Sums(s, f, n)
<1> DEFINE T == {m \in Nat : m <= n => \E s : Sums(s, f, m)}
<1>1. 0 \in T
  <2>1. PICK s : s = [k \in 0..0 |-> 0]
    OBVIOUS
  <2>2. Sums(s, f, 0)
    BY <2>1 DEF Sums
  <2> QED
    BY <2>2
<1>2. ASSUME NEW m \in Nat, m < n, m \in T PROVE m + 1 \in T
  <2>1. PICK s : Sums(s, f, m)
    BY <1>2
  <2>2. PICK t : t = [k \in 0..(m + 1) |-> IF k = m + 1 THEN s[m] + f[m + 1] ELSE s[k]]
    OBVIOUS
  <2>3. f[m + 1] \in Int /\ s[m] \in Int /\ \A k \in 0..m : s[k] \in Int
    BY <1>2, <2>1 DEF Sums
  <2>4. \A k \in 0..(m + 1) : k # m + 1 => k \in 0..m
    OBVIOUS
  <2>5. t \in [0..(m + 1) -> Int]
    BY <2>2, <2>3, <2>4
  <2>6. t[0] = 0
    BY <2>1, <2>2 DEF Sums
  <2>7. ASSUME NEW k \in 1..(m + 1) PROVE t[k] = t[k - 1] + f[k]
    <3>1. CASE k = m + 1
      <4>1. k - 1 = m /\ m \in 0..(m + 1) /\ m # m + 1
        BY <3>1
      <4> QED
        BY <2>2, <3>1, <4>1
    <3>2. CASE k # m + 1
      <4>1. k \in 1..m /\ k \in 0..(m + 1) /\ k - 1 \in 0..(m + 1) /\ k - 1 # m + 1
        BY <3>2
      <4> QED
        BY <2>1, <2>2, <3>2, <4>1 DEF Sums
    <3> QED
      BY <3>1, <3>2
  <2>8. Sums(t, f, m + 1)
    BY <2>5, <2>6, <2>7 DEF Sums
  <2> QED
    BY <2>8
<1>3. \A m \in 0..n : m \in T
  <2> HIDE DEF T
  <2> QED
    BY <1>1, <1>2, UpToBound
<1> QED
  BY <1>3

\* g is f without its k-th value.
Skipping(g, f, k, m, n) ==
  /\ n = m + 1 /\ k \in 1..n /\ f \in [1..n -> Int] /\ g \in [1..m -> Int]
  /\ \A i \in 1..m : g[i] = IF i < k THEN f[i] ELSE f[i + 1]

\* Adding one value to a sum that is less by v leaves it less by v.
LEMMA LessKept ==
  ASSUME NEW x \in Int, NEW y \in Int, NEW u \in Int, NEW v \in Int,
         NEW x1, x1 = x + u, NEW w, w = u, NEW y1, y1 = y + w, y = x - v
  PROVE  y1 = x1 - v
OBVIOUS

\* With the k-th value left out, the sum is less by that value.
LEMMA SumsSkip ==
  ASSUME NEW n \in Nat, NEW l, NEW f, NEW g, NEW k, Skipping(g, f, k, n, l),
         NEW s, Summed(s, f, l), NEW t, Summed(t, g, n)
  PROVE  s[l] = t[n] + f[k]
<1>l. l = n + 1
  BY DEF Skipping
<1>k. k \in 1..(n + 1)
  BY DEF Skipping
<1>a. /\ f \in [1..(n + 1) -> Int] /\ g \in [1..n -> Int]
      /\ Sums(s, f, n + 1) /\ Sums(t, g, n)
  BY <1>l DEF Summed
<1>g. \A i \in 1..n : g[i] = IF i < k THEN f[i] ELSE f[i + 1]
  BY DEF Skipping
<1> USE <1>k, <1>a, <1>g
<1> DEFINE T == {m \in Nat : m <= n =>
                   (m < k => t[m] = s[m]) /\ (k <= m => t[m] = s[m + 1] - f[k])}
<1>0. /\ \A i \in 0..(n + 1) : s[i] \in Int
      /\ \A i \in 0..n : t[i] \in Int
      /\ \A i \in 1..(n + 1) : f[i] \in Int /\ s[i] = s[i - 1] + f[i]
      /\ \A i \in 1..n : t[i] = t[i - 1] + g[i]
  BY <1>a DEF Sums
<1>1. 0 \in T
  BY <1>a DEF Sums
<1>2. ASSUME NEW m \in Nat, m < n, m \in T PROVE m + 1 \in T
  <2>1. /\ m + 1 \in 1..n /\ m \in 0..n /\ m + 1 \in 1..(n + 1) /\ m + 2 \in 1..(n + 1)
        /\ (m + 1) - 1 = m /\ (m + 2) - 1 = m + 1 /\ (m + 1) + 1 = m + 2
    BY <1>2
  <2>2. t[m + 1] = t[m] + g[m + 1]
    BY <1>0, <2>1
  <2>3. s[m + 1] = s[m] + f[m + 1] /\ s[m + 2] = s[m + 1] + f[m + 2]
    BY <1>0, <2>1
  <2>4. /\ s[m] \in Int /\ s[m + 1] \in Int /\ t[m] \in Int
        /\ f[m + 2] \in Int /\ f[k] \in Int
    BY <1>0, <2>1
  <2>5. (m < k => t[m] = s[m]) /\ (k <= m => t[m] = s[m + 1] - f[k])
    BY <1>2
  <2>6. CASE m + 1 < k
    <3>1. g[m + 1] = f[m + 1]
      BY <2>1, <2>6, <1>g
    <3>2. t[m + 1] = s[m + 1]
      BY <2>2, <2>3, <2>5, <2>6, <3>1
    <3> QED
      BY <2>6, <3>2
  <2>7. CASE k <= m + 1
    <3>1. g[m + 1] = f[m + 2]
      BY <2>1, <2>7, <1>g
    <3>2. CASE k = m + 1
      <4>1. t[m] = s[m]
        BY <2>5, <3>2
      <4>2. t[m] = s[m + 1] - f[k]
        BY <2>3, <2>4, <3>2, <4>1
      <4>3. t[m + 1] = s[m + 2] - f[k]
        BY <2>2, <2>3, <2>4, <3>1, <4>2, LessKept
      <4> QED
        BY <2>1, <3>2, <4>3
    <3>3. CASE k <= m
      <4>1. t[m] = s[m + 1] - f[k]
        BY <2>5, <3>3
      <4>2. t[m + 1] = s[m + 2] - f[k]
        BY <2>2, <2>3, <2>4, <3>1, <4>1, LessKept
      <4> QED
        BY <2>1, <3>3, <4>2
    <3> QED
      BY <2>7, <3>2, <3>3
  <2> QED
    BY <2>6, <2>7
<1>3. \A m \in 0..n : m \in T
  <2> HIDE DEF T
  <2> QED
    BY <1>1, <1>2, UpToBound
<1>4. (n < k => t[n] = s[n]) /\ (k <= n => t[n] = s[n + 1] - f[k])
  BY <1>3
<1>5. s[n] \in Int /\ s[n + 1] \in Int /\ f[k] \in Int /\ s[n + 1] = s[n] + f[n + 1]
  <2>1. n + 1 \in 1..(n + 1) /\ (n + 1) - 1 = n /\ n \in 0..n /\ n \in 0..(n + 1)
    OBVIOUS
  <2> QED
    BY <1>0, <2>1
<1> HIDE <1>k, <1>a, <1>g
<1>6. n < k => k = n + 1
  BY <1>k
<1>7. n < k \/ k <= n
  BY <1>k
<1>8. n < k => s[n + 1] = t[n] + f[k]
  BY <1>4, <1>5, <1>6
<1>9. k <= n => s[n + 1] = t[n] + f[k]
  BY <1>4, <1>5
<1> QED
  BY <1>l, <1>7, <1>8, <1>9

\* The places 1..n in some order.
Order(order, n) ==
  order \in [1..n -> 1..n] /\ \A i, j \in 1..n : order[i] = order[j] => i = j

\* Nothing is left out.
LEMMA OrderHitsAll ==
  ASSUME NEW n \in Nat, NEW order, Order(order, n)
  PROVE  \A k \in 1..n : \E i \in 1..n : order[i] = k
<1>1. IsFiniteSet(1..n)
  BY FS_Interval
<1>2. order \in Injection(1..n, 1..n)
  BY DEF Order, Injection, IsInjective
<1>3. order \in Surjection(1..n, 1..n)
  BY <1>1, <1>2, FS_Injection
<1> QED
  BY <1>3 DEF Surjection

\* g is f in some order.
Shuffled(g, f, order, n) == Order(order, n) /\ \A i \in 1..n : g[i] = f[order[i]]

\* Any m numbers have the same sum in any order.
Alike(m) ==
  \A f, g, order, s, t :
    Shuffled(g, f, order, m) /\ Summed(s, f, m) /\ Summed(t, g, m) => s[m] = t[m]

\* What is left of an order of 1..(m + 1) without its k-th place, which m + 1 is at.
LEMMA OrderSkips ==
  ASSUME NEW m \in Nat, NEW n \in Nat, n = m + 1, NEW order, Order(order, n),
         NEW k \in 1..n, order[k] = n
  PROVE  Order([i \in 1..m |-> IF i < k THEN order[i] ELSE order[i + 1]], m)
<1>1. \A i \in 1..n : order[i] \in 1..n
  BY DEF Order
<1>2. \A i, j \in 1..n : order[i] = order[j] => i = j
  BY DEF Order
<1>3. PICK a : a = [i \in 1..m |-> IF i < k THEN order[i] ELSE order[i + 1]]
  OBVIOUS
<1>4. \A i \in 1..m : i \in 1..n /\ i + 1 \in 1..n
  OBVIOUS
<1>5. ASSUME NEW i \in 1..m PROVE a[i] \in 1..m
  <2>1. PICK j \in 1..n : j # k /\ a[i] = order[j]
    BY <1>3, <1>4
  <2>2. order[j] # n
    BY <1>2, <2>1
  <2>3. order[j] \in 1..n
    BY <1>1
  <2> QED
    BY <2>1, <2>2, <2>3
<1>6. ASSUME NEW i \in 1..m, NEW j \in 1..m, a[i] = a[j] PROVE i = j
  <2>1. PICK i1 \in 1..n : i1 = (IF i < k THEN i ELSE i + 1) /\ a[i] = order[i1]
    BY <1>3, <1>4
  <2>2. PICK j1 \in 1..n : j1 = (IF j < k THEN j ELSE j + 1) /\ a[j] = order[j1]
    BY <1>3, <1>4
  <2>3. i1 = j1
    BY <1>2, <1>6, <2>1, <2>2
  <2> QED
    BY <2>1, <2>2, <2>3
<1>7. a \in [1..m -> 1..m]
  BY <1>3, <1>5
<1>8. Order(a, m)
  BY <1>6, <1>7 DEF Order
<1> QED
  BY <1>3, <1>8

LEMMA AlikeMove ==
  ASSUME NEW m \in Nat, NEW n \in Nat, n = m + 1, Alike(m),
         NEW f, NEW g, NEW order, Shuffled(g, f, order, n),
         NEW s, Summed(s, f, n), NEW t, Summed(t, g, n)
  PROVE  s[n] = t[n]
<1>1. n \in 1..n /\ Order(order, n)
  BY DEF Shuffled
<1>2. PICK k \in 1..n : order[k] = n
  BY <1>1, OrderHitsAll
<1>3. PICK z : z = [i \in 1..m |-> f[i]]
  OBVIOUS
<1>4. PICK w : w = [i \in 1..m |-> IF i < k THEN g[i] ELSE g[i + 1]]
  OBVIOUS
<1>5. PICK a : a = [i \in 1..m |-> IF i < k THEN order[i] ELSE order[i + 1]]
  OBVIOUS
<1>6. \A i \in 1..m : i \in 1..n /\ i + 1 \in 1..n
  OBVIOUS
<1>7. f \in [1..n -> Int] /\ g \in [1..n -> Int]
  BY DEF Summed
<1>8. z \in [1..m -> Int] /\ w \in [1..m -> Int]
  BY <1>3, <1>4, <1>6, <1>7
<1>9. Order(a, m)
  BY <1>1, <1>2, <1>5, OrderSkips
<1>10. ASSUME NEW i \in 1..m PROVE w[i] = z[a[i]]
  <2>1. PICK j \in 1..n : w[i] = g[j] /\ a[i] = order[j]
    BY <1>4, <1>5, <1>6
  <2>2. g[j] = f[order[j]]
    BY DEF Shuffled
  <2>3. a[i] \in 1..m
    BY <1>9 DEF Order
  <2>4. z[a[i]] = f[a[i]]
    BY <1>3, <2>3
  <2> QED
    BY <2>1, <2>2, <2>4
<1>11. PICK b : Sums(b, z, m)
  BY <1>8, SumsExist
<1>12. PICK c : Sums(c, w, m)
  BY <1>8, SumsExist
<1>13. Shuffled(w, z, a, m) /\ Summed(b, z, m) /\ Summed(c, w, m)
  BY <1>8, <1>9, <1>10, <1>11, <1>12 DEF Shuffled, Summed
<1>14. b[m] = c[m]
  BY <1>13 DEF Alike
<1>15. Skipping(w, g, k, m, n)
  BY <1>4, <1>7, <1>8 DEF Skipping
<1>16. Skipping(z, f, n, m, n)
  BY <1>1, <1>3, <1>7, <1>8 DEF Skipping
<1>17. t[n] = c[m] + g[k]
  BY <1>13, <1>15, SumsSkip
<1>18. s[n] = b[m] + f[n]
  BY <1>13, <1>16, SumsSkip
<1>19. g[k] = f[n]
  BY <1>2 DEF Shuffled
<1> QED
  BY <1>14, <1>17, <1>18, <1>19

LEMMA AlikeGrows ==
  ASSUME NEW m \in Nat, Alike(m)
  PROVE  Alike(m + 1)
<1>1. PICK n \in Nat : n = m + 1
  OBVIOUS
<1>2. \A f, g, order, s, t :
        Shuffled(g, f, order, n) /\ Summed(s, f, n) /\ Summed(t, g, n) => s[n] = t[n]
  BY <1>1, AlikeMove
<1>3. Alike(n)
  BY <1>2 DEF Alike
<1> QED
  BY <1>1, <1>3

\* The sum of numbers does not depend on their order.
LEMMA SumsPermute ==
  ASSUME NEW n \in Nat, NEW f, NEW g, NEW order, Shuffled(g, f, order, n),
         NEW s, Summed(s, f, n), NEW t, Summed(t, g, n)
  PROVE  s[n] = t[n]
<1> DEFINE T == {m \in Nat : Alike(m)}
<1>1. 0 \in T
  <2>1. \A f1, s1 : Summed(s1, f1, 0) => s1[0] = 0
    BY DEF Summed, Sums
  <2>2. Alike(0)
    BY <2>1 DEF Alike
  <2> QED
    BY <2>2
<1>2. \A m \in Nat : m < n /\ m \in T => m + 1 \in T
  BY AlikeGrows
<1>3. \A m \in 0..n : m \in T
  <2> HIDE DEF T
  <2> QED
    BY <1>1, <1>2, UpToBound
<1>4. Alike(n)
  BY <1>3
<1> QED
  BY <1>4 DEF Alike

\* t has the totals of vs as floats add them.
Rounds(t, vs, n) ==
  t = [k \in 0..n |-> IF k = 0 THEN 0 ELSE Float(t[k - 1] + Float(vs[k].value))]

LEMMA RoundsExist ==
  ASSUME NEW n \in Nat, NEW vs
  PROVE  \E t : Rounds(t, vs, n)
<1> DEFINE T == {m \in Nat : m <= n => \E t : Rounds(t, vs, m)}
<1>1. 0 \in T
  <2>1. PICK t : t = [k \in 0..0 |-> 0]
    OBVIOUS
  <2>2. Rounds(t, vs, 0)
    BY <2>1 DEF Rounds
  <2> QED
    BY <2>2
<1>2. ASSUME NEW m \in Nat, m < n, m \in T PROVE m + 1 \in T
  <2>1. PICK s : Rounds(s, vs, m)
    BY <1>2
  <2>2. PICK v : v = Float(s[m] + Float(vs[m + 1].value))
    OBVIOUS
  <2>3. PICK t : t = [k \in 0..(m + 1) |-> IF k = m + 1 THEN v ELSE s[k]]
    OBVIOUS
  <2>4. \A k \in 0..(m + 1) : k # m + 1 => k \in 0..m /\ (k # 0 => k - 1 \in 0..m)
    OBVIOUS
  <2>5. \A k \in 0..m : t[k] = s[k]
    BY <2>3
  <2>6. \A k \in 0..m : s[k] = IF k = 0 THEN 0 ELSE Float(s[k - 1] + Float(vs[k].value))
    BY <2>1 DEF Rounds
  <2>7. ASSUME NEW k \in 0..(m + 1)
        PROVE  t[k] = IF k = 0 THEN 0 ELSE Float(t[k - 1] + Float(vs[k].value))
    <3>1. CASE k = m + 1
      <4>1. k - 1 = m /\ m \in 0..m /\ k # 0
        BY <3>1
      <4>2. t[k - 1] = s[m]
        BY <4>1, <2>5
      <4>3. t[k] = v
        BY <2>3, <3>1
      <4> QED
        BY <2>2, <3>1, <4>1, <4>2, <4>3
    <3>2. CASE k # m + 1
      BY <2>4, <2>5, <2>6, <3>2
    <3> QED
      BY <3>1, <3>2
  <2>8. DOMAIN t = 0..(m + 1) /\ t = [k \in 0..(m + 1) |-> t[k]]
    BY <2>3
  <2>9. Rounds(t, vs, m + 1)
    BY <2>7, <2>8 DEF Rounds
  <2> QED
    BY <2>9
<1>3. \A m \in 0..n : m \in T
  <2> HIDE DEF T
  <2> QED
    BY <1>1, <1>2, UpToBound
<1> QED
  BY <1>3

LEMMA TotalsStart ==
  ASSUME NEW vs, NEW n \in Nat, Len(vs) = n
  PROVE  Totals(vs)[0] = 0
<1> DEFINE Is(x) == x = [k \in 0..n |-> IF k = 0 THEN 0 ELSE Float(x[k - 1] + Float(vs[k].value))]
<1>1. PICK t : Is(t)
  BY RoundsExist DEF Rounds
<1>2. PICK l : l = CHOOSE x : Is(x)
  OBVIOUS
<1>3. Is(l)
  <2> HIDE DEF Is
  <2> QED
    BY <1>1, <1>2
<1>4. Totals(vs) = l
  BY <1>2 DEF Totals
<1>5. 0 \in 0..n
  OBVIOUS
<1> QED
  BY <1>3, <1>4, <1>5

\* Unless an addition was rounded, the total is the sum.
LEMMA TotalIs ==
  ASSUME NEW vs, NEW n \in Nat, Len(vs) = n, \A i \in 1..n : vs[i].value \in Int, Exact(vs)
  PROVE  \E s : Sums(s, [i \in 1..n |-> vs[i].value], n) /\ Total(vs) = s[n]
<1> DEFINE f == [i \in 1..n |-> vs[i].value]
<1>1. f \in [1..n -> Int]
  OBVIOUS
<1>2. PICK s : Sums(s, f, n)
  BY <1>1, SumsExist
<1>3. PICK l : l = Totals(vs)
  OBVIOUS
<1>4. l[0] = 0
  BY <1>3, TotalsStart
<1>5. \A k \in 1..n : l[k] = l[k - 1] + vs[k].value
  BY <1>3 DEF Exact
<1>6. Total(vs) = l[n]
  BY <1>3 DEF Total
<1> DEFINE T == {m \in Nat : m <= n => l[m] = s[m]}
<1>7. s[0] = 0 /\ \A k \in 1..n : s[k] = s[k - 1] + vs[k].value
  BY <1>2 DEF Sums
<1>8. 0 \in T
  BY <1>4, <1>7
<1>9. ASSUME NEW m \in Nat, m < n, m \in T PROVE m + 1 \in T
  <2>1. m + 1 \in 1..n /\ (m + 1) - 1 = m
    BY <1>9
  <2>2. l[m + 1] = l[m] + vs[m + 1].value /\ s[m + 1] = s[m] + vs[m + 1].value
    BY <1>5, <1>7, <2>1
  <2>3. l[m] = s[m]
    BY <1>9
  <2> QED
    BY <2>2, <2>3
<1>10. \A m \in 0..n : m \in T
  <2> HIDE DEF T
  <2> QED
    BY <1>8, <1>9, UpToBound
<1>11. l[n] = s[n]
  BY <1>10
<1>12. Sums(s, f, n) /\ Total(vs) = s[n]
  BY <1>2, <1>6, <1>11
<1> QED
  BY <1>12

\* ws are the n values of vs in the order given.
Rearranged(ws, vs, order, n) ==
  /\ DOMAIN vs = 1..n
  /\ DOMAIN ws = 1..n
  /\ Order(order, n)
  /\ \A i \in 1..n : ws[i] = vs[order[i]]

\* The n values of both are the same.
Among(ws, vs, n) ==
  /\ \A i \in 1..n : \E k \in 1..n : ws[i] = vs[k]
  /\ \A k \in 1..n : \E i \in 1..n : vs[k] = ws[i]

LEMMA RearrangedHas ==
  ASSUME NEW n \in Nat, NEW ws, NEW vs, NEW order, Rearranged(ws, vs, order, n)
  PROVE  Among(ws, vs, n)
<1>1. Order(order, n) /\ \A i \in 1..n : ws[i] = vs[order[i]]
  BY DEF Rearranged
<1>2. \A k \in 1..n : \E i \in 1..n : order[i] = k
  BY <1>1, OrderHitsAll
<1>3. \A i \in 1..n : order[i] \in 1..n
  BY <1>1 DEF Order
<1> QED
  BY <1>1, <1>2, <1>3 DEF Among

LEMMA TotalRearranged ==
  ASSUME NEW n \in Nat, NEW ws, NEW vs, NEW order, Rearranged(ws, vs, order, n),
         Len(vs) = n, Len(ws) = n, \A i \in 1..n : vs[i].value \in Int, Exact(vs), Exact(ws)
  PROVE  Total(ws) = Total(vs)
<1>1. PICK f : f = [i \in 1..n |-> vs[i].value]
  OBVIOUS
<1>2. PICK g : g = [i \in 1..n |-> ws[i].value]
  OBVIOUS
<1>3. Order(order, n) /\ \A i \in 1..n : ws[i] = vs[order[i]]
  BY DEF Rearranged
<1>4. \A i \in 1..n : order[i] \in 1..n
  BY <1>3 DEF Order
<1>5. \A i \in 1..n : ws[i].value \in Int
  BY <1>3, <1>4
<1>6. f \in [1..n -> Int] /\ g \in [1..n -> Int]
  BY <1>1, <1>2, <1>5
<1>7. Shuffled(g, f, order, n)
  BY <1>1, <1>2, <1>3, <1>4 DEF Shuffled
<1>8. PICK s : Sums(s, f, n) /\ Total(vs) = s[n]
  BY <1>1, TotalIs
<1>9. PICK t : Sums(t, g, n) /\ Total(ws) = t[n]
  BY <1>2, <1>5, TotalIs
<1>10. Summed(s, f, n) /\ Summed(t, g, n)
  BY <1>6, <1>8, <1>9 DEF Summed
<1>11. s[n] = t[n]
  BY <1>7, <1>10, SumsPermute
<1> QED
  BY <1>8, <1>9, <1>11

(***************************************************************************)
(* Trees                                                                   *)
(***************************************************************************)

\* The trees of the lowest n heights.
Low(n) == UNION {Trees[m] : m \in 1..n}

LEMMA Heights ==
  /\ Len(Trees) \in Nat
  /\ Low(0) = {}
  /\ Low(Len(Trees)) = Expressions
  /\ \A n \in Nat : Low(n) \subseteq Low(n + 1)
  /\ \A n \in Nat : n < Len(Trees) => \A e \in Low(n + 1) : Range(e.args) \subseteq Low(n)
<1>1. Trees \in Seq(SUBSET Expressions)
  BY ClosureAssumption DEF ClosureAssumption
<1>2. PICK h : h = Len(Trees)
  OBVIOUS
<1>3. h \in Nat /\ DOMAIN Trees = 1..h
  BY <1>1, <1>2, LenProperties
<1>4. \A n \in 1..h : \A e \in Trees[n] : \A a \in Range(e.args) :
        \E m \in 1..(n - 1) : a \in Trees[m]
  BY <1>3, ClosureAssumption DEF ClosureAssumption
<1>5. Low(0) = {}
  BY DEF Low
<1>6. Low(h) = Expressions
  BY <1>3 DEF Low, Expressions, Range
<1>7. ASSUME NEW n \in Nat PROVE Low(n) \subseteq Low(n + 1)
  <2>1. \A m \in 1..n : m \in 1..(n + 1)
    OBVIOUS
  <2> QED
    BY <2>1 DEF Low
<1>8. ASSUME NEW n \in Nat, n < h, NEW e \in Low(n + 1), NEW a \in Range(e.args)
      PROVE  a \in Low(n)
  <2>1. PICK m \in 1..(n + 1) : e \in Trees[m]
    BY DEF Low
  <2>2. m \in 1..h
    BY <1>3, <1>8
  <2>3. PICK k \in 1..(m - 1) : a \in Trees[k]
    BY <1>4, <2>1, <2>2
  <2>4. k \in 1..n
    OBVIOUS
  <2> QED
    BY <2>3, <2>4 DEF Low
<1> QED
  BY <1>2, <1>3, <1>5, <1>6, <1>7, <1>8

LEMMA LowExpressions ==
  ASSUME NEW n \in Nat, n <= Len(Trees)
  PROVE  Low(n) \subseteq Expressions
<1>1. PICK h \in Nat : h = Len(Trees)
  BY Heights
<1>2. DOMAIN Trees = 1..h
  BY <1>1, ClosureAssumption, LenProperties DEF ClosureAssumption
<1>3. \A m \in 1..n : m \in DOMAIN Trees
  BY <1>1, <1>2
<1> QED
  BY <1>3 DEF Low, Expressions, Range

\* Induction over trees: what holds of a tree when it holds of those right below it.
LEMMA TreesInduct ==
  ASSUME NEW P, \A e \in Expressions : Range(e.args) \subseteq P => e \in P
  PROVE  Expressions \subseteq P
<1> DEFINE T == {n \in Nat : Low(n) \subseteq P}
<1>1. PICK h \in Nat : h = Len(Trees)
  BY Heights
<1>2. 0 \in T
  BY Heights
<1>3. ASSUME NEW n \in Nat, n < h, n \in T PROVE n + 1 \in T
  <2>1. \A e \in Low(n + 1) : Range(e.args) \subseteq Low(n)
    BY <1>1, <1>3, Heights
  <2>2. Low(n + 1) \subseteq Expressions
    BY <1>1, <1>3, LowExpressions
  <2>3. Low(n + 1) \subseteq P
    BY <1>3, <2>1, <2>2
  <2> QED
    BY <2>3
<1>4. \A n \in 0..h : n \in T
  <2> HIDE DEF T
  <2> QED
    BY <1>2, <1>3, UpToBound
<1>5. Low(h) \subseteq P
  BY <1>4
<1> QED
  BY <1>1, <1>5, Heights

\* What a tree comes to when f says what those below it come to.
ValueBy(f, e, cs) ==
  IF e.args = <<>> THEN LeafValue(e, cs)
  ELSE NodeValue(e, [i \in DOMAIN e.args |-> f[e.args[i]]])

LEMMA ValueBySame ==
  ASSUME NEW e, NEW f, NEW g, \A a \in Range(e.args) : f[a] = g[a], NEW cs
  PROVE  ValueBy(f, e, cs) = ValueBy(g, e, cs)
<1>1. \A i \in DOMAIN e.args : f[e.args[i]] = g[e.args[i]]
  BY DEF Range
<1>2. [i \in DOMAIN e.args |-> f[e.args[i]]] = [i \in DOMAIN e.args |-> g[e.args[i]]]
  BY <1>1
<1> QED
  BY <1>2 DEF ValueBy

\* Evaluate is the evaluation of the trees, from those below.
LEMMA EvaluateIs ==
  ASSUME NEW cs
  PROVE  \A e \in Expressions : Evaluate(cs)[e] = ValueBy(Evaluate(cs), e, cs)
<1> DEFINE Is(f) == f = [e \in Expressions |->
                      IF e.args = <<>> THEN LeafValue(e, cs)
                      ELSE NodeValue(e, [i \in DOMAIN e.args |-> f[e.args[i]]])]
           Up(n) == \E f : /\ f = [e \in Expressions |-> f[e]]
                           /\ \A e \in Low(n) : f[e] = ValueBy(f, e, cs)
           T == {n \in Nat : Up(n)}
<1>1. PICK h \in Nat : h = Len(Trees)
  BY Heights
<1>2. 0 \in T
  <2>1. PICK f : f = [e \in Expressions |-> 0]
    OBVIOUS
  <2>2. f = [e \in Expressions |-> f[e]]
    BY <2>1
  <2>3. \A e \in Low(0) : f[e] = ValueBy(f, e, cs)
    BY Heights
  <2> QED
    BY <2>2, <2>3
<1>3. ASSUME NEW n \in Nat, n < h, n \in T PROVE n + 1 \in T
  <2>1. PICK f : /\ f = [e \in Expressions |-> f[e]]
                 /\ \A e \in Low(n) : f[e] = ValueBy(f, e, cs)
    BY <1>3
  <2>2. PICK g : g = [e \in Expressions |-> IF e \in Low(n) THEN f[e] ELSE ValueBy(f, e, cs)]
    OBVIOUS
  <2>3. Low(n) \subseteq Low(n + 1) /\ \A e \in Low(n + 1) : Range(e.args) \subseteq Low(n)
    BY <1>1, <1>3, Heights
  <2>4. Low(n + 1) \subseteq Expressions
    BY <1>1, <1>3, LowExpressions
  <2>5. ASSUME NEW e \in Low(n + 1) PROVE g[e] = ValueBy(g, e, cs)
    <3>1. \A a \in Range(e.args) : f[a] = g[a]
      BY <2>2, <2>3, <2>4
    <3>2. ValueBy(f, e, cs) = ValueBy(g, e, cs)
      BY <3>1, ValueBySame
    <3>3. g[e] = ValueBy(f, e, cs)
      BY <2>1, <2>2, <2>4
    <3> QED
      BY <3>2, <3>3
  <2>6. g = [e \in Expressions |-> g[e]]
    BY <2>2
  <2> QED
    BY <2>5, <2>6
<1>4. \A n \in 0..h : n \in T
  <2> HIDE DEF T
  <2> QED
    BY <1>2, <1>3, UpToBound
<1>5. Up(h)
  BY <1>4
<1>6. PICK f : /\ f = [e \in Expressions |-> f[e]]
               /\ \A e \in Expressions : f[e] = ValueBy(f, e, cs)
  BY <1>1, <1>5, Heights
<1>7. Is(f)
  <2>1. f = [e \in Expressions |-> ValueBy(f, e, cs)]
    BY <1>6
  <2> QED
    BY <2>1 DEF ValueBy
<1>8. PICK l : l = CHOOSE x : Is(x)
  OBVIOUS
<1>9. Is(l)
  <2> HIDE DEF Is
  <2> QED
    BY <1>7, <1>8
<1>10. l = Evaluate(cs)
  BY <1>8 DEF Evaluate
<1>11. \A e \in Expressions : l[e] = ValueBy(l, e, cs)
  BY <1>9 DEF ValueBy
<1> QED
  BY <1>10, <1>11

\* What belongs to a tree when f says what belongs to those below it.
PartsBy(f, e) == {e} \union UNION {f[a] : a \in Range(e.args)}

LEMMA PartsBySame ==
  ASSUME NEW e, NEW f, NEW g, \A a \in Range(e.args) : f[a] = g[a]
  PROVE  PartsBy(f, e) = PartsBy(g, e)
<1>1. {f[a] : a \in Range(e.args)} = {g[a] : a \in Range(e.args)}
  OBVIOUS
<1> QED
  BY <1>1 DEF PartsBy

LEMMA PartsIs == \A e \in Expressions : Parts[e] = PartsBy(Parts, e)
<1> DEFINE Is(f) == f = [e \in Expressions |-> {e} \union UNION {f[a] : a \in Range(e.args)}]
           Up(n) == \E f : /\ f = [e \in Expressions |-> f[e]]
                           /\ \A e \in Low(n) : f[e] = PartsBy(f, e)
           T == {n \in Nat : Up(n)}
<1>1. PICK h \in Nat : h = Len(Trees)
  BY Heights
<1>2. 0 \in T
  <2>1. PICK f : f = [e \in Expressions |-> 0]
    OBVIOUS
  <2>2. f = [e \in Expressions |-> f[e]]
    BY <2>1
  <2>3. \A e \in Low(0) : f[e] = PartsBy(f, e)
    BY Heights
  <2> QED
    BY <2>2, <2>3
<1>3. ASSUME NEW n \in Nat, n < h, n \in T PROVE n + 1 \in T
  <2>1. PICK f : /\ f = [e \in Expressions |-> f[e]]
                 /\ \A e \in Low(n) : f[e] = PartsBy(f, e)
    BY <1>3
  <2>2. PICK g : g = [e \in Expressions |-> IF e \in Low(n) THEN f[e] ELSE PartsBy(f, e)]
    OBVIOUS
  <2>3. Low(n) \subseteq Low(n + 1) /\ \A e \in Low(n + 1) : Range(e.args) \subseteq Low(n)
    BY <1>1, <1>3, Heights
  <2>4. Low(n + 1) \subseteq Expressions
    BY <1>1, <1>3, LowExpressions
  <2>5. ASSUME NEW e \in Low(n + 1) PROVE g[e] = PartsBy(g, e)
    <3>1. \A a \in Range(e.args) : f[a] = g[a]
      BY <2>2, <2>3, <2>4
    <3>2. PartsBy(f, e) = PartsBy(g, e)
      BY <3>1, PartsBySame
    <3>3. g[e] = PartsBy(f, e)
      BY <2>1, <2>2, <2>4
    <3> QED
      BY <3>2, <3>3
  <2>6. g = [e \in Expressions |-> g[e]]
    BY <2>2
  <2> QED
    BY <2>5, <2>6
<1>4. \A n \in 0..h : n \in T
  <2> HIDE DEF T
  <2> QED
    BY <1>2, <1>3, UpToBound
<1>5. Up(h)
  BY <1>4
<1>6. PICK f : /\ f = [e \in Expressions |-> f[e]]
               /\ \A e \in Expressions : f[e] = PartsBy(f, e)
  BY <1>1, <1>5, Heights
<1>7. Is(f)
  <2>1. f = [e \in Expressions |-> PartsBy(f, e)]
    BY <1>6
  <2> QED
    BY <2>1 DEF PartsBy
<1>8. PICK l : l = CHOOSE x : Is(x)
  OBVIOUS
<1>9. Is(l)
  <2> HIDE DEF Is
  <2> QED
    BY <1>7, <1>8
<1>10. l = Parts
  BY <1>8 DEF Parts
<1>11. \A e \in Expressions : l[e] = PartsBy(l, e)
  BY <1>9 DEF PartsBy
<1> QED
  BY <1>10, <1>11

(***************************************************************************)
(* Failing closed                                                          *)
(***************************************************************************)

\* What could be evaluated.
Sound(v) == v.class # "malformed"

LEMMA Answers ==
  ASSUME NEW sound, NEW truth
  PROVE  /\ sound => Answer(sound, truth) = Flag(truth)
         /\ ~sound => ~Sound(Answer(sound, truth))
BY DEF Answer, Flag, Malformed, Sound

LEMMA ArgsAre ==
  ASSUME NEW e \in Expressions
  PROVE  /\ Range(e.args) \subseteq Expressions
         /\ Range(e.args) = {e.args[i] : i \in DOMAIN e.args}
         /\ e.args # <<>> => 1 \in DOMAIN e.args
         /\ e.args # <<>> => e.op \in {"and", "or", "not", "compare"}
         /\ e.args # <<>> /\ e.op \in {"not", "compare"} => DOMAIN e.args = {1}
<1>1. PICK s : s = e.args
  OBVIOUS
<1>2. s \in Seq(Expressions) /\ (e.op \in {"not", "compare"} => Len(s) <= 1)
  BY <1>1, ClosureAssumption DEF ClosureAssumption
<1>3. PICK n \in Nat : n = Len(s) /\ DOMAIN s = 1..n /\ \A i \in 1..n : s[i] \in Expressions
  BY <1>2, LenProperties, ElementOfSeq
<1>4. s # <<>> => n # 0
  BY <1>2, <1>3, EmptySeq
<1>5. e.args # <<>> => e.op \in {"and", "or", "not", "compare"}
  BY ClosureAssumption DEF ClosureAssumption
<1>6. Range(s) \subseteq Expressions
  BY <1>3 DEF Range
<1>7. s # <<>> => 1 \in DOMAIN s
  BY <1>3, <1>4
<1>8. s # <<>> /\ e.op \in {"not", "compare"} => DOMAIN s = {1}
  BY <1>2, <1>3, <1>4
<1> QED
  BY <1>1, <1>5, <1>6, <1>7, <1>8 DEF Range

\* A node is evaluated only when all below it are.
LEMMA NodeNeedsArgs ==
  ASSUME NEW e \in Expressions, e.args # <<>>, NEW args, DOMAIN args = DOMAIN e.args,
         Sound(NodeValue(e, args))
  PROVE  \A i \in DOMAIN args : Sound(args[i])
<1>1. CASE e.op = "and"
  <2>1. Sound(AllOf(args))
    BY <1>1 DEF NodeValue
  <2>2. Booleans(args)
    BY <2>1, Answers DEF AllOf
  <2> QED
    BY <2>2 DEF Booleans, Sound
<1>2. CASE e.op = "or"
  <2>1. Sound(AnyOf(args))
    BY <1>2 DEF NodeValue
  <2>2. Booleans(args)
    BY <2>1, Answers DEF AnyOf
  <2> QED
    BY <2>2 DEF Booleans, Sound
<1>3. CASE e.op = "not"
  <2>1. Sound(Negated(args[1]))
    BY <1>3 DEF NodeValue
  <2>2. args[1].class = "bool"
    BY <2>1, Answers DEF Negated
  <2> QED
    BY <1>3, <2>2, ArgsAre DEF Sound
<1>4. CASE e.op = "compare"
  <2>1. Sound(Compared(e.rel, args, e.value))
    BY <1>4 DEF NodeValue
  <2>2. \A i \in DOMAIN args : args[i].class \in Comparable
    BY <2>1, Answers DEF Compared
  <2> QED
    BY <2>2 DEF Comparable, Sound
<1> QED
  BY <1>1, <1>2, <1>3, <1>4, ArgsAre

LEMMA ColumnIs ==
  ASSUME NEW cs, NEW f
  PROVE  /\ DOMAIN Column(cs, f) = DOMAIN cs
         /\ \A i \in DOMAIN cs : Column(cs, f)[i] = Field(cs[i], f)
         /\ cs = <<>> => Column(cs, f) = <<>>
<1>1. DOMAIN Column(cs, f) = DOMAIN cs /\ \A i \in DOMAIN cs : Column(cs, f)[i] = Field(cs[i], f)
  BY DEF Column
<1>2. ASSUME cs = <<>> PROVE Column(cs, f) = <<>>
  <2>1. DOMAIN cs = {}
    BY <1>2
  <2> QED
    BY <2>1 DEF Column
<1> QED
  BY <1>1, <1>2

\* Nothing is found of no commitments, and nothing compared that cannot be.
LEMMA LeafNeedsCommitments ==
  ASSUME NEW e, NEW cs, Sound(LeafValue(e, cs))
  PROVE  /\ cs # <<>>
         /\ e.op = "compare" =>
              \A i \in DOMAIN cs : Field(cs[i], e.field).class \in Comparable
<1>1. CASE e.op = "compare"
  <2>1. PICK vs : vs = Column(cs, e.field)
    OBVIOUS
  <2>2. Sound(Compared(e.rel, vs, e.value))
    BY <1>1, <2>1 DEF LeafValue
  <2>3. vs # <<>> /\ \A i \in DOMAIN vs : vs[i].class \in Comparable
    BY <2>2, Answers DEF Compared
  <2> QED
    BY <2>1, <2>3, ColumnIs
<1>2. CASE e.op = "in"
  <2>1. PICK vs : vs = Column(cs, e.field)
    OBVIOUS
  <2>2. Sound(Member(vs, e.values))
    BY <1>2, <2>1 DEF LeafValue
  <2>3. vs # <<>>
    BY <2>2, Answers DEF Member
  <2> QED
    BY <1>2, <2>1, <2>3, ColumnIs
<1>3. CASE e.op = "time"
  <2>1. PICK vs : vs = Column(cs, e.field)
    OBVIOUS
  <2>2. Sound(Timed(e.rel, vs, e.value))
    BY <1>3, <2>1 DEF LeafValue
  <2>3. vs # <<>>
    BY <2>2, Answers DEF Timed
  <2> QED
    BY <1>3, <2>1, <2>3, ColumnIs
<1>4. CASE e.op \in {"sum", "min", "max", "count"}
  <2>1. Sound(Aggregated(e.op, cs, e.field))
    BY <1>4 DEF LeafValue
  <2> QED
    BY <1>4, <2>1 DEF Aggregated, Sound, Malformed
<1>5. CASE e.op \notin {"compare", "in", "time", "sum", "min", "max", "count"}
  <2>1. LeafValue(e, cs) = Malformed
    BY <1>5 DEF LeafValue
  <2> QED
    BY <2>1 DEF Sound, Malformed
<1> QED
  BY <1>1, <1>2, <1>3, <1>4, <1>5

LEMMA PartsAre ==
  ASSUME NEW e \in Expressions
  PROVE  /\ e \in Parts[e]
         /\ \A a \in Range(e.args) : Parts[a] \subseteq Parts[e]
         /\ \A x \in Parts[e] : x = e \/ \E a \in Range(e.args) : x \in Parts[a]
BY PartsIs DEF PartsBy

\* When a tree can be evaluated, so can all of its parts.
SoundAll(e, cs) ==
  Sound(Evaluate(cs)[e]) =>
    /\ cs # <<>>
    /\ \A x \in Parts[e] :
         /\ Sound(Evaluate(cs)[x])
         /\ FieldComparison(x) =>
              \A i \in DOMAIN cs : Field(cs[i], x.field).class \in Comparable

LEMMA SoundThroughout ==
  ASSUME NEW cs
  PROVE  \A e \in Expressions : SoundAll(e, cs)
<1> DEFINE P == {e \in Expressions : SoundAll(e, cs)}
<1>1. ASSUME NEW e \in Expressions, Range(e.args) \subseteq P, Sound(Evaluate(cs)[e])
      PROVE  /\ cs # <<>>
             /\ \A x \in Parts[e] :
                  /\ Sound(Evaluate(cs)[x])
                  /\ FieldComparison(x) =>
                       \A i \in DOMAIN cs : Field(cs[i], x.field).class \in Comparable
  <2>1. PICK f : f = Evaluate(cs)
    OBVIOUS
  <2>2. Sound(ValueBy(f, e, cs))
    BY <1>1, <2>1, EvaluateIs
  <2>3. CASE e.args = <<>>
    <3>1. Sound(LeafValue(e, cs))
      BY <2>2, <2>3 DEF ValueBy
    <3>2. cs # <<>> /\ (e.op = "compare" =>
            \A i \in DOMAIN cs : Field(cs[i], e.field).class \in Comparable)
      BY <3>1, LeafNeedsCommitments
    <3>3. Range(e.args) = {}
      BY <2>3 DEF Range
    <3>4. \A x \in Parts[e] : x = e
      BY <3>3, PartsAre
    <3> QED
      BY <1>1, <3>2, <3>4 DEF FieldComparison
  <2>4. CASE e.args # <<>>
    <3>1. PICK args : args = [i \in DOMAIN e.args |-> f[e.args[i]]]
      OBVIOUS
    <3>2. Sound(NodeValue(e, args))
      BY <2>2, <2>4, <3>1 DEF ValueBy
    <3>3. \A i \in DOMAIN e.args : Sound(f[e.args[i]])
      BY <2>4, <3>1, <3>2, NodeNeedsArgs
    <3>4. \A a \in Range(e.args) : Sound(Evaluate(cs)[a])
      BY <2>1, <3>3, ArgsAre
    <3>5. \A a \in Range(e.args) : SoundAll(a, cs)
      BY <1>1
    <3>6. Range(e.args) # {}
      BY <2>4, ArgsAre
    <3>7. cs # <<>>
      BY <3>4, <3>5, <3>6 DEF SoundAll
    <3>8. ~FieldComparison(e)
      BY <2>4 DEF FieldComparison
    <3>9. ASSUME NEW x \in Parts[e], x # e
          PROVE  /\ Sound(Evaluate(cs)[x])
                 /\ FieldComparison(x) =>
                      \A i \in DOMAIN cs : Field(cs[i], x.field).class \in Comparable
      <4>1. PICK a \in Range(e.args) : x \in Parts[a]
        BY <3>9, PartsAre
      <4> QED
        BY <3>4, <3>5, <4>1 DEF SoundAll
    <3> QED
      BY <1>1, <3>7, <3>8, <3>9
  <2> QED
    BY <2>3, <2>4
<1>2. \A e \in Expressions : Range(e.args) \subseteq P => e \in P
  <2>1. ASSUME NEW e \in Expressions, Range(e.args) \subseteq P PROVE SoundAll(e, cs)
    <3> HIDE DEF P
    <3> QED
      BY <1>1, <2>1 DEF SoundAll
  <2> QED
    BY <2>1
<1>3. Expressions \subseteq P
  <2> HIDE DEF P
  <2> QED
    BY <1>2, TreesInduct
<1> QED
  BY <1>3

\* What is in u is in s or in t.
FromBoth(u, s, t) ==
  \A j \in DOMAIN u : (\E k \in 1..Len(s) : u[j] = s[k]) \/ (\E k \in 1..Len(t) : u[j] = t[k])

LEMMA JoinedHas ==
  ASSUME NEW S, NEW s \in Seq(S), NEW t \in Seq(S), NEW u, u = s \o t
  PROVE  FromBoth(u, s, t)
<1> SUFFICES ASSUME NEW j \in DOMAIN u
             PROVE  (\E k \in 1..Len(s) : u[j] = s[k]) \/ (\E k \in 1..Len(t) : u[j] = t[k])
  BY DEF FromBoth
<1>1. PICK a, b : a = Len(s) /\ b = Len(t)
  OBVIOUS
<1>2. a \in Nat /\ b \in Nat
  BY <1>1, LenProperties
<1>3. s \o t \in Seq(S) /\ Len(s \o t) = Len(s) + Len(t)
  BY ConcatProperties
<1>4. \A i \in 1..Len(s) + Len(t) : (s \o t)[i] = IF i <= Len(s) THEN s[i] ELSE t[i - Len(s)]
  BY ConcatProperties
<1>5. u \in Seq(S) /\ Len(u) = a + b
  BY <1>1, <1>3
<1>6. j \in 1..(a + b)
  BY <1>5, LenProperties
<1>7. u[j] = IF j <= a THEN s[j] ELSE t[j - a]
  BY <1>1, <1>4, <1>6
<1>8. CASE j <= a
  <2>1. j \in 1..a /\ u[j] = s[j]
    BY <1>2, <1>6, <1>7, <1>8
  <2> QED
    BY <1>1, <2>1
<1>9. CASE ~(j <= a)
  <2>1. j - a \in 1..b /\ u[j] = t[j - a]
    BY <1>2, <1>6, <1>7, <1>9
  <2> QED
    BY <1>1, <2>1
<1> QED
  BY <1>8, <1>9

\* What is left without the i-th of them was at another place.
LEMMA RemovedFrom ==
  ASSUME NEW S, NEW cs \in Seq(S), NEW n \in Nat, n = Len(cs), NEW i \in 1..n,
         NEW ds, ds = RemoveAt(cs, i)
  PROVE  \A j \in DOMAIN ds : \E k \in 1..n : k # i /\ ds[j] = cs[k]
<1>1. PICK s, t : s = SubSeq(cs, 1, i - 1) /\ t = SubSeq(cs, i + 1, n)
  OBVIOUS
<1>2. \A k \in 1..n : cs[k] \in S
  BY ElementOfSeq, Zenon
<1>3. /\ s \in Seq(S) /\ Len(s) = i - 1
      /\ \A k \in 1..(i - 1) : s[k] = cs[k]
  BY <1>1, <1>2, SubSeqProperties
<1>4. /\ t \in Seq(S) /\ Len(t) = n - i
      /\ \A k \in 1..(n - i) : t[k] = cs[i + k]
  BY <1>1, <1>2, SubSeqProperties
<1>5. ds = s \o t
  BY <1>1 DEF RemoveAt
<1>6. \A k \in 1..Len(s) : \E m \in 1..n : m # i /\ s[k] = cs[m]
  BY <1>3
<1>7. \A k \in 1..Len(t) : \E m \in 1..n : m # i /\ t[k] = cs[m]
  BY <1>4
<1>8. FromBoth(ds, s, t)
  <2>1. s \in Seq(S) /\ t \in Seq(S)
    BY <1>3, <1>4
  <2> QED
    BY <1>5, <2>1, JoinedHas
<1> QED
  BY <1>6, <1>7, <1>8 DEF FromBoth

\* A bilateral deal that was closed is open without any one of its commitments.
LEMMA BilateralNeedsAll ==
  ASSUME NEW S, NEW cs \in Seq(S), NEW p, NEW time, Bilateral(p, cs, time), NEW i \in DOMAIN cs,
         NEW ds, ds = RemoveAt(cs, i)
  PROVE  ~Committers(p, ds)
<1>1. PICK n \in Nat : n = Len(cs) /\ DOMAIN cs = 1..n
  BY LenProperties
<1>2. i \in 1..n
  BY <1>1
<1>3. PICK did : did = Column(cs, "committer_did")
  OBVIOUS
<1>4. IsInjective(did) /\ Range(did) = Range(p.participants)
  BY <1>3 DEF Bilateral, Committers
<1>5. \A j \in DOMAIN ds : \E k \in 1..n : k # i /\ ds[j] = cs[k]
  BY <1>1, <1>2, RemovedFrom
<1>6. \A k \in 1..n : did[k] = Field(cs[k], "committer_did")
  BY <1>1, <1>3, ColumnIs
<1>7. DOMAIN did = 1..n
  BY <1>1, <1>3, ColumnIs
<1>8. PICK did1 : did1 = Column(ds, "committer_did")
  OBVIOUS
<1>9. ASSUME NEW j \in DOMAIN did1 PROVE did1[j] # did[i]
  <2>1. j \in DOMAIN ds /\ did1[j] = Field(ds[j], "committer_did")
    BY <1>8, <1>9, ColumnIs
  <2>2. PICK k \in 1..n : k # i /\ ds[j] = cs[k]
    BY <1>5, <2>1
  <2>3. did1[j] = did[k]
    BY <1>6, <2>1, <2>2
  <2> QED
    BY <1>2, <1>4, <1>7, <2>2, <2>3 DEF IsInjective
<1>10. did[i] \in Range(did) /\ did[i] \notin Range(did1)
  BY <1>2, <1>7, <1>9 DEF Range
<1>11. Range(did1) # Range(p.participants)
  BY <1>4, <1>10
<1> QED
  BY <1>8, <1>11 DEF Committers

ClosureTypeOK ==
  /\ predicate \in Predicates
  /\ commitmentList \in Seq(Commitments)
  /\ evaluationNow \in Nat

\* The commitments are a sequence of what participants may commit to.
THEOREM ClosureTypeCorrect == ClosureSpec => []ClosureTypeOK
<1>1. ClosureInit => ClosureTypeOK
  BY DEF ClosureInit, ClosureTypeOK
<1>2. ClosureTypeOK /\ [ClosureNext]_closureVars => ClosureTypeOK'
  <2> SUFFICES ASSUME ClosureTypeOK, [ClosureNext]_closureVars PROVE ClosureTypeOK'
    OBVIOUS
  <2>1. ASSUME NEW c \in Commitments, Submit(c) PROVE ClosureTypeOK'
    BY <2>1, AppendProperties DEF ClosureTypeOK, Submit
  <2>2. CASE Elapse
    BY <2>2 DEF ClosureTypeOK, Elapse
  <2>3. CASE UNCHANGED closureVars
    BY <2>3 DEF ClosureTypeOK, closureVars
  <2> QED
    BY <2>1, <2>2, <2>3 DEF ClosureNext
<1> QED
  BY <1>1, <1>2, PTL DEF ClosureSpec

\* A closed deal has all its parts evaluated and everybody's commitment, whatever else the
\* tree or the other commitments are (evaluate_predicate).
THEOREM ClosesNothingMalformed == ClosureSpec => []FailsClosed
<1>1. ClosureTypeOK => FailsClosed
  <2> SUFFICES ASSUME ClosureTypeOK, Satisfied(predicate, commitmentList, evaluationNow)
               PROVE  /\ commitmentList # <<>>
                      /\ predicate.type = "closure" =>
                           \A e \in Parts[predicate.expression] :
                             /\ Evaluate(commitmentList)[e] # Malformed
                             /\ FieldComparison(e) => \A i \in DOMAIN commitmentList :
                                  Field(commitmentList[i], e.field).class \in Comparable
                      /\ predicate.type = "bilateral" =>
                           \A i \in DOMAIN commitmentList :
                             ~Satisfied(predicate, RemoveAt(commitmentList, i), evaluationNow)
    BY DEF FailsClosed
  <2>1. PICK p, cs, time : p = predicate /\ cs = commitmentList /\ time = evaluationNow
    OBVIOUS
  <2>2. p \in Predicates /\ cs \in Seq(Commitments) /\ Satisfied(p, cs, time)
    BY <2>1 DEF ClosureTypeOK
  <2>3. CASE p.type = "bilateral"
    <3>1. Bilateral(p, cs, time)
      BY <2>2, <2>3 DEF Satisfied
    <3>2. cs # <<>>
      BY <3>1 DEF Bilateral, Committers
    <3>3. ASSUME NEW i \in DOMAIN cs PROVE ~Satisfied(p, RemoveAt(cs, i), time)
      <4>1. PICK ds : ds = RemoveAt(cs, i)
        OBVIOUS
      <4>2. ~Committers(p, ds)
        BY <2>2, <3>1, <4>1, BilateralNeedsAll
      <4> QED
        BY <2>3, <4>1, <4>2 DEF Satisfied, Bilateral
    <3> QED
      BY <2>1, <2>3, <3>2, <3>3
  <2>4. CASE p.type = "closure"
    <3>1. PICK e : e = p.expression
      OBVIOUS
    <3>2. e \in Expressions
      BY <2>2, <2>4, <3>1, ClosureAssumption DEF ClosureAssumption
    <3>3. Evaluate(cs)[e] = Flag(TRUE)
      BY <2>2, <2>4, <3>1 DEF Satisfied
    <3>4. Sound(Evaluate(cs)[e])
      BY <3>3 DEF Sound, Flag
    <3>5. SoundAll(e, cs)
      BY <3>2, SoundThroughout
    <3>6. /\ cs # <<>>
          /\ \A x \in Parts[e] :
               /\ Evaluate(cs)[x] # Malformed
               /\ FieldComparison(x) =>
                    \A i \in DOMAIN cs : Field(cs[i], x.field).class \in Comparable
      BY <3>4, <3>5 DEF SoundAll, Sound, Malformed
    <3> QED
      BY <2>1, <2>4, <3>1, <3>6
  <2> QED
    BY <2>2, <2>3, <2>4 DEF Satisfied
<1> QED
  BY <1>1, ClosureTypeCorrect, PTL

(***************************************************************************)
(* The order of commitments                                                *)
(***************************************************************************)

LEMMA FieldIsValue == \A c \in Commitments : \A f : Field(c, f) \in Value
<1>1. ASSUME NEW c \in Commitments, NEW f PROVE Field(c, f) \in Value
  <2>1. Missing \in Value
    BY DEF Missing, Value
  <2>2. c.record => \A g \in DOMAIN c.fields : c.fields[g] \in Value
    BY ClosureAssumption DEF ClosureAssumption
  <2> QED
    BY <2>1, <2>2 DEF Field
<1> QED
  BY <1>1

\* ds are the n commitments cs in another order.
Shuffle(ds, cs, order, n) ==
  /\ cs \in Seq(Commitments) /\ n = Len(cs)
  /\ Order(order, n)
  /\ ds = Reordered(cs, order)

LEMMA ShuffleIs ==
  ASSUME NEW n \in Nat, NEW cs, NEW ds, NEW order, Shuffle(ds, cs, order, n)
  PROVE  /\ DOMAIN cs = 1..n /\ DOMAIN ds = 1..n
         /\ ds \in Seq(Commitments) /\ Len(ds) = n
         /\ \A i \in 1..n : cs[i] \in Commitments /\ ds[i] \in Commitments
         /\ ds = <<>> <=> cs = <<>>
         /\ Rearranged(ds, cs, order, n)
<1>1. cs \in Seq(Commitments) /\ n = Len(cs) /\ Order(order, n) /\ ds = Reordered(cs, order)
  BY DEF Shuffle
<1>2. DOMAIN cs = 1..n /\ \A i \in 1..n : cs[i] \in Commitments
  BY <1>1, LenProperties, ElementOfSeq
<1>3. ds = [i \in 1..n |-> cs[order[i]]]
  BY <1>1, <1>2 DEF Reordered
<1>4. \A i \in 1..n : order[i] \in 1..n
  BY <1>1 DEF Order
<1>5. ds \in [1..n -> Commitments]
  BY <1>2, <1>3, <1>4
<1>6. ds \in Seq(Commitments) /\ Len(ds) = n
  BY <1>5
<1>7. (cs = <<>> <=> n = 0) /\ (ds = <<>> <=> n = 0)
  BY <1>1, <1>6, EmptySeq
<1>8. Rearranged(ds, cs, order, n)
  BY <1>1, <1>2, <1>3 DEF Rearranged
<1> QED
  BY <1>2, <1>3, <1>5, <1>6, <1>7, <1>8

\* ws are the n values vs in another order.
Same(ws, vs, order, n) ==
  /\ Rearranged(ws, vs, order, n)
  /\ ws \in Seq(Value) /\ Len(ws) = n
  /\ vs \in Seq(Value) /\ Len(vs) = n
  /\ Among(ws, vs, n)
  /\ ws = <<>> <=> vs = <<>>

LEMMA ColumnsSame ==
  ASSUME NEW n \in Nat, NEW cs, NEW ds, NEW order, Shuffle(ds, cs, order, n), NEW f
  PROVE  Same(Column(ds, f), Column(cs, f), order, n)
<1>1. PICK vs, ws : vs = Column(cs, f) /\ ws = Column(ds, f)
  OBVIOUS
<1>2. /\ DOMAIN cs = 1..n /\ DOMAIN ds = 1..n
      /\ \A i \in 1..n : cs[i] \in Commitments /\ ds[i] \in Commitments
      /\ Rearranged(ds, cs, order, n)
  BY ShuffleIs
<1>3. vs = [i \in 1..n |-> Field(cs[i], f)] /\ ws = [i \in 1..n |-> Field(ds[i], f)]
  BY <1>1, <1>2 DEF Column
<1>4. Order(order, n) /\ \A i \in 1..n : ds[i] = cs[order[i]]
  BY <1>2 DEF Rearranged
<1>5. \A i \in 1..n : order[i] \in 1..n
  BY <1>4 DEF Order
<1>6. \A i \in 1..n : ws[i] = vs[order[i]]
  BY <1>3, <1>4, <1>5
<1>7. Rearranged(ws, vs, order, n)
  BY <1>3, <1>4, <1>6 DEF Rearranged
<1>8. vs \in [1..n -> Value] /\ ws \in [1..n -> Value]
  BY <1>2, <1>3, FieldIsValue
<1>9. vs \in Seq(Value) /\ Len(vs) = n /\ ws \in Seq(Value) /\ Len(ws) = n
  BY <1>8
<1>10. (vs = <<>> <=> n = 0) /\ (ws = <<>> <=> n = 0)
  BY <1>9, EmptySeq
<1>11. Among(ws, vs, n)
  BY <1>7, RearrangedHas
<1>12. ws = <<>> <=> vs = <<>>
  BY <1>10
<1>13. Same(ws, vs, order, n)
  BY <1>7, <1>9, <1>11, <1>12 DEF Same
<1> QED
  BY <1>1, <1>13

LEMMA SameHas ==
  ASSUME NEW n \in Nat, NEW ws, NEW vs, NEW order, Same(ws, vs, order, n)
  PROVE  /\ DOMAIN vs = 1..n /\ DOMAIN ws = 1..n
         /\ \A i \in DOMAIN ws : \E k \in DOMAIN vs : ws[i] = vs[k]
         /\ \A k \in DOMAIN vs : \E i \in DOMAIN ws : vs[k] = ws[i]
         /\ ws = <<>> <=> vs = <<>>
         /\ Range(ws) = Range(vs)
<1>1. DOMAIN vs = 1..n /\ DOMAIN ws = 1..n
  BY DEF Same, Rearranged
<1>2. /\ \A i \in DOMAIN ws : \E k \in DOMAIN vs : ws[i] = vs[k]
      /\ \A k \in DOMAIN vs : \E i \in DOMAIN ws : vs[k] = ws[i]
  BY <1>1 DEF Same, Among
<1>3. Range(ws) = Range(vs)
  <2>1. ASSUME NEW i \in DOMAIN ws PROVE ws[i] \in Range(vs)
    BY <1>2 DEF Range
  <2>2. ASSUME NEW k \in DOMAIN vs PROVE vs[k] \in Range(ws)
    BY <1>2 DEF Range
  <2> QED
    BY <2>1, <2>2 DEF Range
<1>4. ws = <<>> <=> vs = <<>>
  BY DEF Same
<1> QED
  BY <1>1, <1>2, <1>3, <1>4

\* Unless they are mixed, the first value that is not paired with w is found.
LEMMA FirstUnpaired ==
  ASSUME NEW n \in Nat, NEW vs, DOMAIN vs = 1..n, NEW rel, NEW w, ~Mixed(rel, vs, w),
         NEW i \in 1..n, ~Paired(rel, vs[i], w)
  PROVE  \E k \in 1..n : /\ ~Paired(rel, vs[k], w)
                         /\ \A j \in 1..(k - 1) : Related(rel, vs[j].value, w.value)
<1> DEFINE S == {k \in 1..n : ~Paired(rel, vs[k], w)}
<1>1. S \subseteq Nat /\ S # {}
  OBVIOUS
<1>2. PICK k \in S : \A j \in S : k <= j
  <2> HIDE DEF S
  <2> QED
    BY <1>1, LeastNatural
<1>3. \A j \in 1..(k - 1) : j \in 1..n /\ Paired(rel, vs[j], w)
  BY <1>2
<1>4. \A j \in 1..n : Paired(rel, vs[j], w) => Related(rel, vs[j].value, w.value)
  BY DEF Mixed
<1> QED
  BY <1>2, <1>3, <1>4

\* A comparison that could be made, of values that are not mixed.
Pairs(rel, vs, w) ==
  /\ vs # <<>> /\ w.class \in Comparable
  /\ \A i \in DOMAIN vs : vs[i].class \in Comparable
  /\ \A i \in DOMAIN vs : Paired(rel, vs[i], w)

Compares(rel, vs, w) ==
  Answer(Pairs(rel, vs, w), \A i \in DOMAIN vs : Related(rel, vs[i].value, w.value))

LEMMA ComparedUnmixed ==
  ASSUME NEW n \in Nat, NEW vs, DOMAIN vs = 1..n, NEW rel, NEW w, ~Mixed(rel, vs, w)
  PROVE  Compared(rel, vs, w) = Compares(rel, vs, w)
<1> DEFINE Reached == \A i \in DOMAIN vs :
             (\A j \in 1..(i - 1) : Related(rel, vs[j].value, w.value)) => Paired(rel, vs[i], w)
<1>1. ASSUME NEW i \in DOMAIN vs, ~Paired(rel, vs[i], w) PROVE ~Reached
  <2>1. PICK k \in 1..n : /\ ~Paired(rel, vs[k], w)
                          /\ \A j \in 1..(k - 1) : Related(rel, vs[j].value, w.value)
    BY <1>1, FirstUnpaired
  <2> QED
    BY <2>1
<1>2. Reached <=> \A i \in DOMAIN vs : Paired(rel, vs[i], w)
  BY <1>1
<1>3. Pairs(rel, vs, w) <=>
        /\ vs # <<>> /\ w.class \in Comparable
        /\ \A i \in DOMAIN vs : vs[i].class \in Comparable
        /\ Reached
  <2> HIDE DEF Reached
  <2> QED
    BY <1>2 DEF Pairs
<1> QED
  BY <1>3 DEF Compared, Compares, Answer

LEMMA ComparedSame ==
  ASSUME NEW n \in Nat, NEW ws, NEW vs, NEW order, Same(ws, vs, order, n),
         NEW rel, NEW w, ~Mixed(rel, vs, w)
  PROVE  Compared(rel, ws, w) = Compared(rel, vs, w)
<1>1. /\ DOMAIN vs = 1..n /\ DOMAIN ws = 1..n
      /\ \A i \in DOMAIN ws : \E k \in DOMAIN vs : ws[i] = vs[k]
      /\ \A k \in DOMAIN vs : \E i \in DOMAIN ws : vs[k] = ws[i]
      /\ ws = <<>> <=> vs = <<>>
  BY SameHas
<1>2. ~Mixed(rel, ws, w)
  BY <1>1 DEF Mixed
<1>3. Pairs(rel, ws, w) <=> Pairs(rel, vs, w)
  BY <1>1 DEF Pairs
<1>4. (\A i \in DOMAIN ws : Related(rel, ws[i].value, w.value))
        <=> \A i \in DOMAIN vs : Related(rel, vs[i].value, w.value)
  BY <1>1
<1>5. Compared(rel, ws, w) = Compares(rel, ws, w) /\ Compared(rel, vs, w) = Compares(rel, vs, w)
  BY <1>1, <1>2, ComparedUnmixed
<1>6. Compares(rel, ws, w) = Compares(rel, vs, w)
  BY <1>3, <1>4 DEF Compares, Answer, Flag
<1> QED
  BY <1>5, <1>6

LEMMA MemberSame ==
  ASSUME NEW n \in Nat, NEW ws, NEW vs, NEW order, Same(ws, vs, order, n), NEW accepted
  PROVE  Member(ws, accepted) = Member(vs, accepted)
<1>1. /\ \A i \in DOMAIN ws : \E k \in DOMAIN vs : ws[i] = vs[k]
      /\ \A k \in DOMAIN vs : \E i \in DOMAIN ws : vs[k] = ws[i]
      /\ ws = <<>> <=> vs = <<>>
  BY SameHas
<1>2. PICK classes : classes = {w.class : w \in accepted}
  OBVIOUS
<1>3. (\A i \in DOMAIN ws : ws[i].class \in classes) <=> \A i \in DOMAIN vs : vs[i].class \in classes
  BY <1>1
<1>4. (\A i \in DOMAIN ws : ws[i] \in accepted) <=> \A i \in DOMAIN vs : vs[i] \in accepted
  BY <1>1
<1> QED
  BY <1>1, <1>2, <1>3, <1>4 DEF Member, Answer

LEMMA TimedSame ==
  ASSUME NEW n \in Nat, NEW ws, NEW vs, NEW order, Same(ws, vs, order, n), NEW rel, NEW w
  PROVE  Timed(rel, ws, w) = Timed(rel, vs, w)
<1>1. /\ \A i \in DOMAIN ws : \E k \in DOMAIN vs : ws[i] = vs[k]
      /\ \A k \in DOMAIN vs : \E i \in DOMAIN ws : vs[k] = ws[i]
      /\ ws = <<>> <=> vs = <<>>
  BY SameHas
<1>2. (\A i \in DOMAIN ws : ws[i].class = "instant") <=> \A i \in DOMAIN vs : vs[i].class = "instant"
  BY <1>1
<1>3. (\A i \in DOMAIN ws : Related(rel, ws[i].value, w.value))
        <=> \A i \in DOMAIN vs : Related(rel, vs[i].value, w.value)
  BY <1>1
<1> QED
  BY <1>1, <1>2, <1>3 DEF Timed, Answer

LEMMA TotalSame ==
  ASSUME NEW n \in Nat, NEW ws, NEW vs, NEW order, Same(ws, vs, order, n), Exact(vs), Exact(ws)
  PROVE  Total(ws) = Total(vs)
<1>1. /\ Rearranged(ws, vs, order, n)
      /\ vs \in Seq(Value) /\ Len(vs) = n /\ Len(ws) = n
  BY DEF Same
<1>2. \A i \in 1..n : vs[i] \in Value
  BY <1>1, ElementOfSeq
<1>3. \A i \in 1..n : vs[i].value \in Int
  BY <1>2 DEF Value
<1> QED
  BY <1>1, <1>3, TotalRearranged

\* The aggregate f of cs is not a sum, or one that was not rounded.
Exactly(op, cs, f) == op = "sum" => Exact(Column(cs, f))

LEMMA AggregatedSame ==
  ASSUME NEW n \in Nat, NEW cs, NEW ds, NEW order, Shuffle(ds, cs, order, n), NEW op, NEW f,
         Exactly(op, cs, f), Exactly(op, ds, f)
  PROVE  Aggregated(op, ds, f) = Aggregated(op, cs, f)
<1>1. PICK vs, ws : vs = Column(cs, f) /\ ws = Column(ds, f)
  OBVIOUS
<1>2. Same(ws, vs, order, n)
  BY <1>1, ColumnsSame
<1>3. /\ DOMAIN cs = 1..n /\ DOMAIN ds = 1..n /\ Len(cs) = n /\ Len(ds) = n
      /\ ds = <<>> <=> cs = <<>>
      /\ Rearranged(ds, cs, order, n)
  BY ShuffleIs DEF Shuffle
<1>4. Among(ds, cs, n)
  BY <1>3, RearrangedHas
<1>5. (\E i \in DOMAIN ds : ~ds[i].record) <=> \E i \in DOMAIN cs : ~cs[i].record
  BY <1>3, <1>4 DEF Among
<1>6. /\ \A i \in DOMAIN ws : \E k \in DOMAIN vs : ws[i] = vs[k]
      /\ \A k \in DOMAIN vs : \E i \in DOMAIN ws : vs[k] = ws[i]
      /\ Range(ws) = Range(vs)
  BY <1>2, SameHas
<1>7. (\A i \in DOMAIN ws : ws[i].class = "number") <=> \A i \in DOMAIN vs : vs[i].class = "number"
  BY <1>6
<1>8. ASSUME op = "sum" PROVE Total(ws) = Total(vs) /\ Finite(ws) /\ Finite(vs)
  <2>1. Exact(vs) /\ Exact(ws)
    BY <1>1, <1>8 DEF Exactly
  <2> QED
    BY <1>2, <2>1, TotalSame DEF Exact
<1>9. Least(ws) = Least(vs) /\ Most(ws) = Most(vs)
  BY <1>6 DEF Least, Most
<1> QED
  BY <1>1, <1>3, <1>5, <1>7, <1>8, <1>9 DEF Aggregated

LEMMA LeafSame ==
  ASSUME NEW n \in Nat, NEW cs, NEW ds, NEW order, Shuffle(ds, cs, order, n),
         NEW e, e.args = <<>>, ~MixedPart(e, cs),
         Exactly(e.op, cs, e.field), Exactly(e.op, ds, e.field)
  PROVE  LeafValue(e, ds) = LeafValue(e, cs)
<1>1. Same(Column(ds, e.field), Column(cs, e.field), order, n)
  BY ColumnsSame
<1>2. ASSUME e.op = "compare"
      PROVE  Compared(e.rel, Column(ds, e.field), e.value) = Compared(e.rel, Column(cs, e.field), e.value)
  <2>1. ~Mixed(e.rel, Column(cs, e.field), e.value)
    BY <1>2 DEF MixedPart, FieldComparison
  <2> QED
    BY <1>1, <2>1, ComparedSame
<1>3. Member(Column(ds, e.field), e.values) = Member(Column(cs, e.field), e.values)
  BY <1>1, MemberSame
<1>4. Timed(e.rel, Column(ds, e.field), e.value) = Timed(e.rel, Column(cs, e.field), e.value)
  BY <1>1, TimedSame
<1>5. Aggregated(e.op, ds, e.field) = Aggregated(e.op, cs, e.field)
  BY AggregatedSame
<1> QED
  BY <1>2, <1>3, <1>4, <1>5 DEF LeafValue

\* In this part of a tree the orders of cs and ds make no difference.
Harmless(x, cs, ds) ==
  ~MixedPart(x, cs) /\ Exactly(x.op, cs, x.field) /\ Exactly(x.op, ds, x.field)

\* A tree of such parts comes to the same in both.
EvaluatesAlike(e, cs, ds) ==
  (\A x \in Parts[e] : Harmless(x, cs, ds)) => Evaluate(ds)[e] = Evaluate(cs)[e]

LEMMA EvaluateSame ==
  ASSUME NEW n \in Nat, NEW cs, NEW ds, NEW order, Shuffle(ds, cs, order, n)
  PROVE  \A e \in Expressions : EvaluatesAlike(e, cs, ds)
<1> DEFINE P == {e \in Expressions : EvaluatesAlike(e, cs, ds)}
<1>1. ASSUME NEW e \in Expressions, Range(e.args) \subseteq P, \A x \in Parts[e] : Harmless(x, cs, ds)
      PROVE  Evaluate(ds)[e] = Evaluate(cs)[e]
  <2>1. PICK f, g : f = Evaluate(cs) /\ g = Evaluate(ds)
    OBVIOUS
  <2>2. f[e] = ValueBy(f, e, cs) /\ g[e] = ValueBy(g, e, ds)
    BY <2>1, EvaluateIs
  <2>3. CASE e.args = <<>>
    <3>1. Harmless(e, cs, ds)
      BY <1>1, PartsAre
    <3>2. LeafValue(e, ds) = LeafValue(e, cs)
      BY <2>3, <3>1, LeafSame DEF Harmless
    <3> QED
      BY <2>1, <2>2, <2>3, <3>2 DEF ValueBy
  <2>4. CASE e.args # <<>>
    <3>1. \A a \in Range(e.args) : f[a] = g[a]
      <4>1. \A a \in Range(e.args) : \A x \in Parts[a] : Harmless(x, cs, ds)
        BY <1>1, PartsAre
      <4>2. \A a \in Range(e.args) : EvaluatesAlike(a, cs, ds)
        BY <1>1
      <4> QED
        BY <2>1, <4>1, <4>2 DEF EvaluatesAlike
    <3>2. ValueBy(f, e, cs) = ValueBy(g, e, cs)
      BY <3>1, ValueBySame
    <3>3. ValueBy(g, e, cs) = ValueBy(g, e, ds)
      BY <2>4 DEF ValueBy
    <3> QED
      BY <2>1, <2>2, <3>2, <3>3
  <2> QED
    BY <2>3, <2>4
<1>2. \A e \in Expressions : Range(e.args) \subseteq P => e \in P
  <2>1. ASSUME NEW e \in Expressions, Range(e.args) \subseteq P PROVE EvaluatesAlike(e, cs, ds)
    <3> HIDE DEF P
    <3> QED
      BY <1>1, <2>1 DEF EvaluatesAlike
  <2> QED
    BY <2>1
<1>3. Expressions \subseteq P
  <2> HIDE DEF P
  <2> QED
    BY <1>2, TreesInduct
<1> QED
  BY <1>3

LEMMA CommittersSame ==
  ASSUME NEW n \in Nat, NEW cs, NEW ds, NEW order, Shuffle(ds, cs, order, n), NEW p
  PROVE  Committers(p, ds) <=> Committers(p, cs)
<1>1. PICK vs, ws : vs = Column(cs, "committer_did") /\ ws = Column(ds, "committer_did")
  OBVIOUS
<1>2. Same(ws, vs, order, n)
  BY <1>1, ColumnsSame
<1>3. /\ DOMAIN vs = 1..n /\ DOMAIN ws = 1..n
      /\ \A i \in DOMAIN ws : \E k \in DOMAIN vs : ws[i] = vs[k]
      /\ \A k \in DOMAIN vs : \E i \in DOMAIN ws : vs[k] = ws[i]
      /\ Range(ws) = Range(vs)
  BY <1>2, SameHas
<1>4. /\ DOMAIN cs = 1..n /\ DOMAIN ds = 1..n /\ (ds = <<>> <=> cs = <<>>)
  BY ShuffleIs
<1>5. (\A i \in 1..n : Distinct(ws[i])) <=> \A i \in 1..n : Distinct(vs[i])
  BY <1>3
<1>6. Order(order, n) /\ \A i \in 1..n : ws[i] = vs[order[i]]
  BY <1>2 DEF Same, Rearranged
<1>7. /\ \A i \in 1..n : order[i] \in 1..n
      /\ \A i, j \in 1..n : order[i] = order[j] => i = j
      /\ \A k \in 1..n : \E i \in 1..n : order[i] = k
  <2>1. \A k \in 1..n : \E i \in 1..n : order[i] = k
    BY <1>6, OrderHitsAll
  <2> QED
    BY <1>6, <2>1 DEF Order
<1>8. ASSUME IsInjective(vs) PROVE IsInjective(ws)
  <2>1. ASSUME NEW a \in 1..n, NEW b \in 1..n, ws[a] = ws[b] PROVE a = b
    <3>1. PICK i \in 1..n : order[a] = i
      BY <1>7
    <3>2. PICK j \in 1..n : order[b] = j
      BY <1>7
    <3>3. vs[i] = vs[j]
      BY <1>6, <2>1, <3>1, <3>2
    <3>4. i = j
      BY <1>3, <1>8, <3>3 DEF IsInjective
    <3> QED
      BY <1>7, <3>1, <3>2, <3>4
  <2> QED
    BY <1>3, <2>1 DEF IsInjective
<1>9. ASSUME IsInjective(ws) PROVE IsInjective(vs)
  <2>1. ASSUME NEW a \in 1..n, NEW b \in 1..n, vs[a] = vs[b] PROVE a = b
    <3>1. PICK i \in 1..n : order[i] = a
      BY <1>7
    <3>2. PICK j \in 1..n : order[j] = b
      BY <1>7
    <3>3. ws[i] = ws[j]
      BY <1>6, <2>1, <3>1, <3>2
    <3>4. i = j
      BY <1>3, <1>9, <3>3 DEF IsInjective
    <3> QED
      BY <3>1, <3>2, <3>4
  <2> QED
    BY <1>3, <2>1 DEF IsInjective
<1>10. IsInjective(ws) <=> IsInjective(vs)
  BY <1>8, <1>9
<1> QED
  BY <1>1, <1>3, <1>4, <1>5, <1>10 DEF Committers

LEMMA SumsUpSame ==
  ASSUME NEW n \in Nat, NEW cs, NEW ds, NEW order, Shuffle(ds, cs, order, n), NEW p,
         Exact(Column(cs, "quantity")), Exact(Column(ds, "quantity"))
  PROVE  SumsUp(p, ds) <=> SumsUp(p, cs)
<1>1. PICK vs, ws : vs = Column(cs, "quantity") /\ ws = Column(ds, "quantity")
  OBVIOUS
<1>2. Same(ws, vs, order, n)
  BY <1>1, ColumnsSame
<1>3. /\ \A i \in DOMAIN ws : \E k \in DOMAIN vs : ws[i] = vs[k]
      /\ \A k \in DOMAIN vs : \E i \in DOMAIN ws : vs[k] = ws[i]
  BY <1>2, SameHas
<1>4. DOMAIN cs = 1..n /\ DOMAIN ds = 1..n /\ DOMAIN vs = 1..n /\ DOMAIN ws = 1..n
  BY <1>2, ShuffleIs, SameHas
<1>5. (\A i \in DOMAIN ws : ws[i].class = "number") <=> \A i \in DOMAIN vs : vs[i].class = "number"
  BY <1>3
<1>6. Total(ws) = Total(vs) /\ Finite(ws) /\ Finite(vs)
  BY <1>1, <1>2, TotalSame DEF Exact
<1> QED
  BY <1>1, <1>4, <1>5, <1>6 DEF SumsUp

LEMMA BilateralSame ==
  ASSUME NEW n \in Nat, NEW cs, NEW ds, NEW order, Shuffle(ds, cs, order, n), NEW p, NEW time,
         Exact(Column(cs, "quantity")), Exact(Column(ds, "quantity"))
  PROVE  Bilateral(p, ds, time) <=> Bilateral(p, cs, time)
<1>1. /\ DOMAIN cs = 1..n /\ DOMAIN ds = 1..n /\ Rearranged(ds, cs, order, n)
  BY ShuffleIs
<1>2. Among(ds, cs, n)
  BY <1>1, RearrangedHas
<1>3. (\A i \in 1..n : Field(ds[i], "mandate_proof_id") \notin {Missing, Text(0)})
        <=> \A i \in 1..n : Field(cs[i], "mandate_proof_id") \notin {Missing, Text(0)}
  BY <1>2 DEF Among
<1>4. (Committers(p, ds) <=> Committers(p, cs)) /\ (SumsUp(p, ds) <=> SumsUp(p, cs))
  BY CommittersSame, SumsUpSame
<1> QED
  BY <1>1, <1>3, <1>4 DEF Bilateral

\* The order in which commitments came decides nothing, unless a comparison of the tree met
\* values of its class and of another (_evaluate_comparison), or a float addition was rounded
\* or overflowed (_evaluate_aggregation, evaluate_bilateral_chain_closure_v1).
THEOREM OnlyMixedOrRoundedOrderMatters == ClosureSpec => []OrderMattersOnlyMixedOrRounded
<1>1. ClosureTypeOK => OrderMattersOnlyMixedOrRounded
  <2> SUFFICES ASSUME ClosureTypeOK,
                      predicate.type = "closure" =>
                        \A e \in Parts[predicate.expression] : ~MixedPart(e, commitmentList),
                      NEW order \in SetToSeqs(DOMAIN commitmentList),
                      SumsExactly(predicate, commitmentList),
                      SumsExactly(predicate, Reordered(commitmentList, order))
               PROVE  Satisfied(predicate, Reordered(commitmentList, order), evaluationNow)
                        <=> Satisfied(predicate, commitmentList, evaluationNow)
    BY DEF OrderMattersOnlyMixedOrRounded
  <2>1. PICK p, cs, time : p = predicate /\ cs = commitmentList /\ time = evaluationNow
    OBVIOUS
  <2>2. PICK ds : ds = Reordered(cs, order)
    OBVIOUS
  <2>3. p \in Predicates /\ cs \in Seq(Commitments)
    BY <2>1 DEF ClosureTypeOK
  <2>4. PICK n \in Nat : n = Len(cs) /\ DOMAIN cs = 1..n
    BY <2>3, LenProperties
  <2>5. Order(order, n)
    <3>1. Cardinality(1..n) = n
      BY FS_Interval
    <3>2. order \in SetToSeqs(1..n)
      BY <2>1, <2>4
    <3> QED
      BY <3>1, <3>2 DEF SetToSeqs, Order
  <2>6. Shuffle(ds, cs, order, n)
    BY <2>2, <2>3, <2>4, <2>5 DEF Shuffle
  <2>e. SumsExactly(p, cs) /\ SumsExactly(p, ds)
    BY <2>1, <2>2
  <2>7. ASSUME p.type = "bilateral" PROVE Bilateral(p, ds, time) <=> Bilateral(p, cs, time)
    BY <2>6, <2>7, <2>e, BilateralSame DEF SumsExactly
  <2>8. ASSUME p.type = "closure" PROVE Evaluate(ds)[p.expression] = Evaluate(cs)[p.expression]
    <3>1. p.expression \in Expressions
      BY <2>3, <2>8, ClosureAssumption DEF ClosureAssumption
    <3>2. \A x \in Parts[p.expression] : Harmless(x, cs, ds)
      BY <2>1, <2>8, <2>e DEF Harmless, Exactly, SumsExactly
    <3>3. EvaluatesAlike(p.expression, cs, ds)
      BY <2>6, <3>1, EvaluateSame
    <3> QED
      BY <3>2, <3>3 DEF EvaluatesAlike
  <2>9. Satisfied(p, ds, time) <=> Satisfied(p, cs, time)
    BY <2>7, <2>8 DEF Satisfied
  <2> QED
    BY <2>1, <2>2, <2>9
<1> QED
  BY <1>1, ClosureTypeCorrect, PTL
=============================================================================
