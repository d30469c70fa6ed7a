--------------------------- MODULE SessionProofs ---------------------------
(***************************************************************************)
(* What TLAPS proves of Session, for every set of agents, every limit and  *)
(* every set of kinds: the types and the four kinds of step that the later *)
(* proofs distinguish; the safety properties, from inductive invariants;   *)
(* the behavior records; that a session implements NegotiationLog; and     *)
(* that the SDK's session, of SdkSession, stands where the Python one      *)
(* stands.                                                                 *)
(*                                                                         *)
(* Ordered is the invariant behind the chain.  An envelope is younger than *)
(* the one it was built on, so identities grow along a chain, and an       *)
(* envelope that was applied is too old for every later tip: a copy that   *)
(* arrives late is refused although the session remembers no identities.   *)
(* OffersRemembered is the one behind the behavior records: the offer a    *)
(* session compares the next one with is the last the agent made.          *)
(***************************************************************************)
EXTENDS SdkSession, TLAPS, FiniteSetTheorems, SequenceTheorems

USE SessionAssumption

(***************************************************************************)
(* Types                                                                   *)
(***************************************************************************)

LEMMA TipTyped ==
  ASSUME TypeOK
  PROVE  Tip(transcript) \in 0..MaxMessages
<1>1. CASE transcript = <<>>
  BY <1>1 DEF Tip, Genesis
<1>2. CASE transcript # <<>>
  <2>1. transcript[Len(transcript)] \in Envelope
    BY <1>2 DEF TypeOK
  <2> QED
    BY <1>2, <2>1 DEF Tip, Hash, Envelope
<1> QED
  BY <1>1, <1>2

LEMMA PayloadTyped ==
  ASSUME NEW k, NEW v \in Payload(k)
  PROVE  v \in Values \union {NoTerms}
  BY DEF Payload

LEMMA BuildTyped ==
  ASSUME TypeOK, built < MaxMessages,
         NEW a \in Agents, NEW k \in Kinds, NEW v \in Values \union {NoTerms}
  PROVE  /\ Build(a, k, v) \in Envelope
         /\ [Build(a, k, v) EXCEPT !.session = OtherSid, !.prev = Genesis] \in Envelope
<1>1. built + 1 \in 1..MaxMessages /\ Tip(transcript) \in 0..MaxMessages /\ 0 \in 0..MaxMessages
  BY TipTyped DEF TypeOK
<1> QED
  BY <1>1 DEF Build, Envelope, Genesis

LEMMA TravelTyped ==
  ASSUME TypeOK, NEW m \in wire \union Applied
  PROVE  m \in Envelope
  BY DEF TypeOK, Applied

LEMMA AfterTyped ==
  ASSUME NEW k
  PROVE  After(k) \in {"proposed", "active", "agreed", "rejected"}
  BY DEF After

LEMMA OfferedTyped ==
  ASSUME NEW b \in Behaviors, NEW conceded \in BOOLEAN
  PROVE  Offered(b, conceded) \in Behaviors
<1> DEFINE counted == [b EXCEPT !.offers = @ + 1]
<1>1. counted \in Behaviors
  BY DEF Behaviors
<1>2. Offered(b, conceded) = IF conceded THEN [counted EXCEPT !.concessions = @ + 1] ELSE counted
  BY DEF Offered
<1> HIDE DEF counted
<1>3. [counted EXCEPT !.concessions = @ + 1] \in Behaviors
  BY <1>1 DEF Behaviors
<1> QED
  BY <1>1, <1>2, <1>3

LEMMA ObservedTyped ==
  ASSUME NEW b \in Behaviors, NEW m \in Envelope
  PROVE  Observed(b, m) \in Behaviors
<1>1. CASE m.kind \in OfferKinds
  <2>1. Observed(b, m) = Offered(b, Concedes(lastOffer[m.from], m.terms))
    BY <1>1 DEF Observed, OfferKinds
  <2>2. Concedes(lastOffer[m.from], m.terms) \in BOOLEAN
    BY DEF Concedes
  <2> QED
    BY <2>1, <2>2, OfferedTyped
<1>2. CASE m.kind \notin OfferKinds
  <2>1. CASE m.kind = "signal"
    BY <1>2, <2>1 DEF Observed, OfferKinds, Behaviors
  <2>2. CASE m.kind = "constrain"
    BY <1>2, <2>2 DEF Observed, OfferKinds, Behaviors
  <2>3. CASE m.kind = "withdraw"
    BY <1>2, <2>3 DEF Observed, OfferKinds, Behaviors
  <2>4. CASE m.kind \notin {"signal", "constrain", "withdraw"}
    BY <1>2, <2>4 DEF Observed, OfferKinds
  <2> QED
    BY <2>1, <2>2, <2>3, <2>4
<1> QED
  BY <1>1, <1>2

LEMMA FireTyped ==
  ASSUME TypeOK, NEW s \in Terminal, FireTerminal(s)
  PROVE  terminalFired' \in BOOLEAN /\ reports' \in Seq(Terminal)
<1>1. reports \in Seq(Terminal) /\ terminalFired \in BOOLEAN
  BY DEF TypeOK
<1>2. CASE callback /\ ~terminalFired
  BY <1>1, <1>2 DEF FireTerminal
<1>3. CASE ~(callback /\ ~terminalFired)
  BY <1>1, <1>3, Zenon DEF FireTerminal
<1> QED
  BY <1>2, <1>3

LEMMA ConcludeTyped ==
  ASSUME TypeOK, NEW s, Conclude(s)
  PROVE  concludedAt' \in Int /\ terminalFired' \in BOOLEAN /\ reports' \in Seq(Terminal)
<1>1. CASE s \in {"agreed", "rejected"} /\ s # state
  <2>1. concludedAt' = Len(transcript) + 1 /\ FireTerminal(s) /\ s \in Terminal
    BY <1>1 DEF Conclude, Terminal
  <2>2. Len(transcript) \in Nat
    BY DEF TypeOK
  <2> QED
    BY <2>1, <2>2, FireTyped
<1>2. CASE ~(s \in {"agreed", "rejected"} /\ s # state)
  BY <1>2 DEF Conclude, TypeOK
<1> QED
  BY <1>1, <1>2

LEMMA RecordTyped ==
  ASSUME TypeOK, NEW m \in Envelope, Record(m)
  PROVE  /\ transcript' \in Seq(Envelope)
         /\ terms' \in Values \union {NoTerms}
         /\ roundCount' \in Nat
         /\ behavior' \in [Agents -> Behaviors]
         /\ lastOffer' \in [Agents -> Values \union {NoTerms}]
         /\ concludedAt' \in Int
         /\ terminalFired' \in BOOLEAN
         /\ reports' \in Seq(Terminal)
<1>1. m.terms \in Values \union {NoTerms} /\ m.from \in Agents
  BY DEF Envelope
<1>2. behavior' \in [Agents -> Behaviors]
  BY <1>1, ObservedTyped DEF TypeOK, Record, TrackBehavior
<1>3. lastOffer' \in [Agents -> Values \union {NoTerms}]
  BY <1>1 DEF TypeOK, Record, TrackBehavior
<1>4. concludedAt' \in Int /\ terminalFired' \in BOOLEAN /\ reports' \in Seq(Terminal)
  BY ConcludeTyped DEF Record
<1>5. transcript' \in Seq(Envelope) /\ terms' \in Values \union {NoTerms} /\ roundCount' \in Nat
  BY <1>1 DEF TypeOK, Record, TrackBehavior
<1> QED
  BY <1>2, <1>3, <1>4, <1>5

\* Every reachable state is well typed.
THEOREM TypeCorrect == Spec => []TypeOK
<1>1. Init => TypeOK
  <2> SUFFICES ASSUME Init PROVE TypeOK
    OBVIOUS
  <2>1. NoBehavior \in Behaviors
    BY DEF NoBehavior, Behaviors
  <2>2. behavior \in [Agents -> Behaviors] /\ lastOffer \in [Agents -> Values \union {NoTerms}]
    BY <2>1 DEF Init
  <2>3. parties \in [Agents -> {"initiator", "responder", "none"}]
    BY DEF Init
  <2>4. transcript \in Seq(Envelope) /\ reports \in Seq(Terminal)
    BY DEF Init
  <2>5. wire \in SUBSET Envelope /\ built \in 0..MaxMessages
    BY DEF Init
  <2>6. state \in States /\ terms \in Values \union {NoTerms}
        /\ roundCount \in Nat /\ concludedAt \in Int
    BY DEF Init, States
  <2>7. callback \in BOOLEAN /\ reactivatable \in BOOLEAN /\ terminalFired \in BOOLEAN
    BY DEF Init
  <2> QED
    BY <2>2, <2>3, <2>4, <2>5, <2>6, <2>7 DEF TypeOK
<1>2. TypeOK /\ [Next]_vars => TypeOK'
  <2> SUFFICES ASSUME TypeOK, [Next]_vars PROVE TypeOK'
    OBVIOUS
  <2>1. ASSUME NEW a \in Agents, Join(a) PROVE TypeOK'
    BY <2>1 DEF Join, TypeOK, record, outcome, States, Terminal
  <2>2. ASSUME NEW a \in Agents, NEW k \in Speech, NEW v \in Payload(k), Send(a, k, v)
        PROVE  TypeOK'
    <3>1. Build(a, k, v) \in Envelope
      BY <2>2, BuildTyped, PayloadTyped DEF Fresh, Send
    <3>2. Record(Build(a, k, v)) /\ state' = After(k) /\ UNCHANGED reactivatable
      BY <2>2 DEF Send, Apply, Build
    <3>3. state' \in States
      BY <3>2, AfterTyped DEF States, Terminal
    <3>4. built' \in 0..MaxMessages
      BY <2>2 DEF Send, Fresh, TypeOK
    <3>5. UNCHANGED <<parties, callback, wire>>
      BY <2>2 DEF Send
    <3> QED
      BY <3>1, <3>2, <3>3, <3>4, <3>5, RecordTyped DEF TypeOK
  <2>3. ASSUME NEW a \in Agents, NEW k \in Speech, NEW v \in Payload(k), Mail(a, k, v)
        PROVE  TypeOK'
    <3>1. Build(a, k, v) \in Envelope
      BY <2>3, BuildTyped, PayloadTyped DEF Fresh, Mail
    <3> QED
      BY <2>3, <3>1 DEF Mail, Fresh, Post, TypeOK, record, outcome, States, Terminal
  <2>4. ASSUME NEW a \in Agents, NEW k \in Speech, NEW v \in Payload(k), MailElsewhere(a, k, v)
        PROVE  TypeOK'
    <3>1. [Build(a, k, v) EXCEPT !.session = OtherSid, !.prev = Genesis] \in Envelope
      BY <2>4, BuildTyped, PayloadTyped DEF Fresh, MailElsewhere
    <3> QED
      BY <2>4, <3>1 DEF MailElsewhere, Fresh, Post, TypeOK, record, outcome, States, Terminal
  <2>5. ASSUME NEW a \in Agents, WithdrawReactivatable(a) PROVE TypeOK'
    <3> DEFINE m == Build(a, "withdraw", NoTerms)
    <3>1. m \in Envelope
      BY <2>5, BuildTyped DEF WithdrawReactivatable, Fresh, Kinds
    <3>2. Record(m) /\ state' = "dormant" /\ reactivatable' = TRUE
      BY <2>5 DEF WithdrawReactivatable
    <3>3. UNCHANGED <<parties, callback, wire>> /\ built' \in 0..MaxMessages
      BY <2>5 DEF WithdrawReactivatable, Fresh, TypeOK
    <3> HIDE DEF m
    <3> QED
      BY <3>1, <3>2, <3>3, RecordTyped DEF TypeOK, States
  <2>6. ASSUME NEW m \in wire \union Applied, Deliver(m) PROVE TypeOK'
    <3>1. m \in Envelope
      BY TravelTyped
    <3>2. Record(m) /\ state' = After(m.kind) /\ UNCHANGED reactivatable
      BY <2>6 DEF Deliver, Apply
    <3>3. state' \in States
      BY <3>2, AfterTyped DEF States, Terminal
    <3>4. UNCHANGED <<parties, callback, built>> /\ wire' \in SUBSET Envelope
      BY <2>6 DEF Deliver, TypeOK
    <3> QED
      BY <3>1, <3>2, <3>3, <3>4, RecordTyped DEF TypeOK
  <2>7. ASSUME NEW m \in wire, Lose(m) PROVE TypeOK'
    BY <2>7 DEF Lose, TypeOK, record, outcome, States, Terminal
  <2>8. ASSUME NEW m \in wire, Spoil(m) PROVE TypeOK'
    <3>1. m \in Envelope
      BY DEF TypeOK
    <3>2. [m EXCEPT !.intact = FALSE] \in Envelope
      BY <3>1 DEF Envelope
    <3> QED
      BY <2>8, <3>2 DEF Spoil, TypeOK, record, outcome, States, Terminal
  <2>9. CASE Expire
    <3>1. terminalFired' \in BOOLEAN /\ reports' \in Seq(Terminal)
      BY <2>9, FireTyped DEF Expire, Terminal
    <3>2. Len(transcript) \in Nat
      BY DEF TypeOK
    <3> QED
      BY <2>9, <3>1, <3>2 DEF Expire, TypeOK, record, States, Terminal
  <2>10. CASE MakeDormant
    BY <2>10 DEF MakeDormant, TypeOK, record, States, Terminal
  <2>11. CASE UNCHANGED vars
    BY <2>11 DEF vars, TypeOK, record, outcome, States, Terminal
  <2> QED
    BY <2>1, <2>2, <2>3, <2>4, <2>5, <2>6, <2>7, <2>8, <2>9, <2>10, <2>11 DEF Next
<1> QED
  BY <1>1, <1>2, PTL DEF Spec

(***************************************************************************)
(* Steps                                                                   *)
(***************************************************************************)

\* The messages that exist and those that could be built at once.
Sayable ==
  wire \union Applied \union
    {Build(a, k, v) : a \in Agents, k \in Kinds, v \in Values \union {NoTerms}}

\* The session takes the message m, sent or delivered.
Takes(m) ==
  /\ m \in Sayable
  /\ Acceptable(m)
  /\ Record(m)
  /\ \/ state' = After(m.kind) /\ UNCHANGED reactivatable
     \/ m.kind = "withdraw" /\ state' = "dormant" /\ reactivatable' = TRUE

\* Nothing happens to the session itself.
Quiet == UNCHANGED <<record, outcome>>

\* Every step is of one of four kinds.
LEMMA StepKinds ==
  ASSUME TypeOK, [Next]_vars
  PROVE  \/ \E m \in Envelope : Takes(m)
         \/ Quiet
         \/ Expire
         \/ MakeDormant
<1>1. ASSUME NEW a \in Agents, Join(a) PROVE Quiet
  BY <1>1 DEF Join, Quiet
<1>2. ASSUME NEW a \in Agents, NEW k \in Speech, NEW v \in Payload(k), Send(a, k, v)
      PROVE  \E m \in Envelope : Takes(m)
  <2>1. Build(a, k, v) \in Envelope
    BY <1>2, BuildTyped, PayloadTyped DEF Fresh, Send
  <2>2. Build(a, k, v) \in Sayable
    BY PayloadTyped DEF Sayable
  <2> QED
    BY <1>2, <2>1, <2>2 DEF Send, Apply, Takes
<1>3. ASSUME NEW a \in Agents, WithdrawReactivatable(a)
      PROVE  \E m \in Envelope : Takes(m)
  <2>1. Build(a, "withdraw", NoTerms) \in Envelope
    BY <1>3, BuildTyped DEF Fresh, WithdrawReactivatable, Kinds
  <2>2. Build(a, "withdraw", NoTerms).kind = "withdraw"
    BY DEF Build
  <2>3. Build(a, "withdraw", NoTerms) \in Sayable
    BY DEF Sayable, Kinds
  <2> QED
    BY <1>3, <2>1, <2>2, <2>3 DEF WithdrawReactivatable, Takes
<1>4. ASSUME NEW m \in wire \union Applied, Deliver(m)
      PROVE  \E e \in Envelope : Takes(e)
  BY <1>4, TravelTyped DEF Deliver, Apply, Takes, Sayable
<1>5. ASSUME NEW a \in Agents, NEW k \in Speech, NEW v \in Payload(k),
             Mail(a, k, v) \/ MailElsewhere(a, k, v)
      PROVE  Quiet
  BY <1>5 DEF Mail, MailElsewhere, Quiet
<1>6. ASSUME NEW m \in wire, Lose(m) \/ Spoil(m) PROVE Quiet
  BY <1>6 DEF Lose, Spoil, Quiet
<1>7. CASE UNCHANGED vars
  BY <1>7 DEF vars, Quiet
<1> QED
  BY <1>1, <1>2, <1>3, <1>4, <1>5, <1>6, <1>7 DEF Next

(***************************************************************************)
(* The transcript after a message                                          *)
(***************************************************************************)

LEMMA TranscriptGrows ==
  ASSUME TypeOK, NEW m \in Envelope, Record(m)
  PROVE  /\ Len(transcript) \in Nat
         /\ Positions = 1..Len(transcript)
         /\ Positions' = 1..(Len(transcript) + 1)
         /\ Len(transcript') = Len(transcript) + 1
         /\ \A i \in Positions : transcript'[i] = transcript[i]
         /\ transcript'[Len(transcript) + 1] = m
         /\ Applied' = Applied \union {m}
<1>1. transcript \in Seq(Envelope) /\ transcript' = Append(transcript, m)
  BY DEF TypeOK, Record
<1>2. /\ Len(transcript) \in Nat
      /\ Positions = 1..Len(transcript)
      /\ Positions' = 1..(Len(transcript) + 1)
      /\ Len(transcript') = Len(transcript) + 1
      /\ \A i \in Positions : transcript'[i] = transcript[i]
      /\ transcript'[Len(transcript) + 1] = m
  BY <1>1 DEF Positions
<1>3. Applied' = Applied \union {m}
  BY <1>2 DEF Applied, Positions
<1> QED
  BY <1>2, <1>3

LEMMA TypedPositions ==
  ASSUME TypeOK
  PROVE  /\ Len(transcript) \in Nat
         /\ Positions = 1..Len(transcript)
         /\ \A i \in Positions : transcript[i] \in Envelope /\ transcript[i] \in Applied
  BY DEF TypeOK, Positions, Applied

(***************************************************************************)
(* The chain                                                               *)
(***************************************************************************)

\* Every envelope is younger than the one it was built on, and none is younger than the
\* last one built.
Elders == \A m \in wire \union Applied : m.prev < m.id /\ m.id <= built

\* Identities grow along the transcript.
Growing == \A i, j \in Positions : i < j => transcript[i].id < transcript[j].id

Ordered == Elders /\ ChainedTranscript /\ Growing

LEMMA TipIsOld ==
  ASSUME TypeOK, Elders
  PROVE  Tip(transcript) \in 0..built
<1>1. CASE transcript = <<>>
  BY <1>1 DEF Tip, Genesis, TypeOK
<1>2. CASE transcript # <<>>
  <2>1. Len(transcript) \in Positions
    BY <1>2 DEF TypeOK, Positions
  <2>2. transcript[Len(transcript)] \in Applied /\ transcript[Len(transcript)] \in Envelope
    BY <2>1, TypedPositions
  <2> QED
    BY <1>2, <2>2 DEF Tip, Hash, Elders, Envelope, TypeOK
<1> QED
  BY <1>1, <1>2

\* What an agent builds is younger than what it builds on.
LEMMA BuildsOnElders ==
  ASSUME TypeOK, Elders, NEW a, NEW k, NEW v
  PROVE  /\ Build(a, k, v).id = built + 1
         /\ Build(a, k, v).prev < built + 1
         /\ [Build(a, k, v) EXCEPT !.session = OtherSid, !.prev = Genesis].id = built + 1
         /\ [Build(a, k, v) EXCEPT !.session = OtherSid, !.prev = Genesis].prev < built + 1
  BY TipIsOld DEF Build, TypeOK, Genesis

\* The envelopes after a step are the ones before it, perhaps spoiled, and the one built
\* in the step.
LEMMA EldersStay ==
  ASSUME TypeOK, Elders, [Next]_vars
  PROVE  Elders'
<1>1. built \in Nat /\ built + 1 \in Nat
  BY DEF TypeOK
<1>2. ASSUME NEW a \in Agents, Join(a) PROVE Elders'
  BY <1>2 DEF Join, Elders, Applied, record
<1>3. ASSUME NEW a \in Agents, NEW k \in Speech, NEW v \in Payload(k), Send(a, k, v)
      PROVE  Elders'
  <2> DEFINE m == Build(a, k, v)
  <2>1. m \in Envelope
    BY <1>3, BuildTyped, PayloadTyped DEF Fresh, Send
  <2>2. Record(m) /\ wire' = wire /\ built' = built + 1
    BY <1>3 DEF Send, Fresh, Apply
  <2>3. m.id = built + 1 /\ m.prev < built + 1
    BY BuildsOnElders
  <2> HIDE DEF m
  <2>4. Applied' = Applied \union {m}
    BY <2>1, <2>2, TranscriptGrows
  <2> QED
    BY <1>1, <2>2, <2>3, <2>4, TravelTyped DEF Elders, Envelope
<1>4. ASSUME NEW a \in Agents, WithdrawReactivatable(a) PROVE Elders'
  <2> DEFINE m == Build(a, "withdraw", NoTerms)
  <2>1. m \in Envelope
    BY <1>4, BuildTyped DEF Fresh, WithdrawReactivatable, Kinds
  <2>2. Record(m) /\ wire' = wire /\ built' = built + 1
    BY <1>4 DEF WithdrawReactivatable, Fresh
  <2>3. m.id = built + 1 /\ m.prev < built + 1
    BY BuildsOnElders
  <2> HIDE DEF m
  <2>4. Applied' = Applied \union {m}
    BY <2>1, <2>2, TranscriptGrows
  <2> QED
    BY <1>1, <2>2, <2>3, <2>4, TravelTyped, SMTT(30) DEF Elders, Envelope
<1>5. ASSUME NEW a \in Agents, NEW k \in Speech, NEW v \in Payload(k), Mail(a, k, v)
      PROVE  Elders'
  <2> DEFINE m == Build(a, k, v)
  <2>1. wire' = wire \union {m} /\ built' = built + 1 /\ transcript' = transcript
    BY <1>5 DEF Mail, Fresh, Post, record
  <2>2. m.id = built + 1 /\ m.prev < built + 1
    BY BuildsOnElders
  <2> HIDE DEF m
  <2>3. Applied' = Applied
    BY <2>1 DEF Applied
  <2> QED
    BY <1>1, <2>1, <2>2, <2>3, TravelTyped DEF Elders, Envelope
<1>6. ASSUME NEW a \in Agents, NEW k \in Speech, NEW v \in Payload(k), MailElsewhere(a, k, v)
      PROVE  Elders'
  <2> DEFINE m == [Build(a, k, v) EXCEPT !.session = OtherSid, !.prev = Genesis]
  <2>1. wire' = wire \union {m} /\ built' = built + 1 /\ transcript' = transcript
    BY <1>6 DEF MailElsewhere, Fresh, Post, record
  <2>2. m.id = built + 1 /\ m.prev < built + 1
    BY BuildsOnElders
  <2> HIDE DEF m
  <2>3. Applied' = Applied
    BY <2>1 DEF Applied
  <2> QED
    BY <1>1, <2>1, <2>2, <2>3, TravelTyped DEF Elders, Envelope
<1>7. ASSUME NEW m \in wire \union Applied, Deliver(m) PROVE Elders'
  <2>1. Record(m) /\ wire' = wire \ {m} /\ built' = built
    BY <1>7 DEF Deliver, Apply
  <2>2. Applied' = Applied \union {m}
    BY <2>1, TravelTyped, TranscriptGrows
  <2> QED
    BY <2>1, <2>2 DEF Elders
<1>8. ASSUME NEW m \in wire, Lose(m) \/ Spoil(m) PROVE Elders'
  <2>1. Applied' = Applied /\ built' = built
    BY <1>8 DEF Lose, Spoil, Applied, record
  <2>2. wire' \subseteq wire \union {[m EXCEPT !.intact = FALSE]}
    BY <1>8 DEF Lose, Spoil
  <2>3. /\ [m EXCEPT !.intact = FALSE].prev = m.prev
        /\ [m EXCEPT !.intact = FALSE].id = m.id
    BY TravelTyped DEF Envelope
  <2> QED
    BY <2>1, <2>2, <2>3 DEF Elders
<1>9. CASE Expire \/ MakeDormant \/ UNCHANGED vars
  BY <1>9 DEF Expire, MakeDormant, vars, record, Elders, Applied
<1> QED
  BY <1>2, <1>3, <1>4, <1>5, <1>6, <1>7, <1>8, <1>9 DEF Next

\* A message that chains is younger than the whole transcript.
LEMMA TakenIsYoungest ==
  ASSUME TypeOK, Ordered, NEW m \in Envelope, m.prev < m.id, Chains(m),
         NEW i \in Positions
  PROVE  transcript[i].id < m.id
<1>1. Len(transcript) \in Positions /\ transcript # <<>>
  BY TypedPositions DEF TypeOK, Positions
<1>2. m.prev = transcript[Len(transcript)].id
  BY <1>1 DEF Chains, Tip, Hash
<1>3. transcript[i].id <= transcript[Len(transcript)].id
  <2>1. CASE i = Len(transcript)
    BY <2>1, TypedPositions DEF Envelope
  <2>2. CASE i # Len(transcript)
    <3>1. i < Len(transcript)
      BY <2>2, TypedPositions
    <3> QED
      BY <1>1, <3>1, TypedPositions DEF Ordered, Growing, Envelope
  <2> QED
    BY <2>1, <2>2
<1> QED
  BY <1>1, <1>2, <1>3, TypedPositions DEF Envelope

LEMMA SayableIsYounger ==
  ASSUME TypeOK, Elders, NEW m \in Sayable
  PROVE  m.prev < m.id
<1>1. CASE m \in wire \union Applied
  BY <1>1 DEF Elders
<1>2. ASSUME NEW a \in Agents, NEW k \in Kinds, NEW v \in Values \union {NoTerms},
             m = Build(a, k, v)
      PROVE  m.prev < m.id
  BY <1>2, BuildsOnElders
<1> QED
  BY <1>1, <1>2 DEF Sayable

LEMMA OrderedStays ==
  ASSUME TypeOK, TypeOK', Ordered, [Next]_vars
  PROVE  Ordered'
<1>1. Elders'
  BY EldersStay DEF Ordered
<1>2. ASSUME NEW m \in Envelope, Takes(m) PROVE ChainedTranscript' /\ Growing'
  <2>1. Record(m) /\ Chains(m) /\ m.prev < m.id
    BY <1>2, SayableIsYounger DEF Takes, Acceptable, Ordered
  <2> DEFINE n == Len(transcript)
  <2>2. /\ n \in Nat /\ Positions = 1..n /\ Positions' = 1..(n + 1)
        /\ \A i \in 1..n : transcript'[i] = transcript[i]
        /\ transcript'[n + 1] = m
    BY <2>1, TranscriptGrows
  <2>3. ChainedTranscript'
    <3> SUFFICES ASSUME NEW i \in 1..(n + 1)
                 PROVE  transcript'[i].prev =
                          IF i = 1 THEN Genesis ELSE Hash(transcript'[i - 1])
      BY <2>2 DEF ChainedTranscript, Hash
    <3>1. CASE i \in 1..n
      <4>1. i # 1 => transcript'[i - 1] = transcript[i - 1]
        BY <2>2, <3>1
      <4> QED
        BY <2>2, <3>1, <4>1 DEF Ordered, ChainedTranscript
    <3>2. CASE i = n + 1
      <4>1. n = 0 <=> transcript = <<>>
        BY DEF TypeOK
      <4>2. n # 0 => transcript'[n] = transcript[n]
        BY <2>2
      <4> QED
        BY <2>1, <2>2, <3>2, <4>1, <4>2 DEF Chains, Tip
    <3> QED
      BY <2>2, <3>1, <3>2
  <2>4. Growing'
    <3> SUFFICES ASSUME NEW i \in 1..(n + 1), NEW j \in 1..(n + 1), i < j
                 PROVE  transcript'[i].id < transcript'[j].id
      BY <2>2 DEF Growing
    <3>1. i \in 1..n
      BY <2>2
    <3>2. CASE j \in 1..n
      BY <2>2, <3>1, <3>2 DEF Ordered, Growing
    <3>3. CASE j = n + 1
      BY <2>1, <2>2, <3>1, <3>3, TakenIsYoungest
    <3> QED
      BY <2>2, <3>2, <3>3
  <2> QED
    BY <2>3, <2>4
<1>3. CASE Quiet \/ Expire \/ MakeDormant
  <2>1. transcript' = transcript
    BY <1>3 DEF Quiet, Expire, MakeDormant, record
  <2>2. ChainedTranscript' /\ Growing'
    BY <2>1 DEF Ordered, ChainedTranscript, Growing, Positions, Hash
  <2> QED
    BY <1>1, <2>2 DEF Ordered
<1> QED
  BY <1>1, <1>2, <1>3, StepKinds DEF Ordered

\* The order of the chain and of its identities is kept by every step.
THEOREM OrderKept == Spec => []Ordered
<1>1. Init => Ordered
  BY DEF Init, Ordered, Elders, ChainedTranscript, Growing, Positions, Applied
<1>2. TypeOK /\ TypeOK' /\ Ordered /\ [Next]_vars => Ordered'
  BY OrderedStays
<1> QED
  BY <1>1, <1>2, TypeCorrect, PTL DEF Spec

\* Every envelope in the transcript was built on the one before it.
THEOREM TranscriptIsChained == Spec => []ChainedTranscript
<1>1. Ordered => ChainedTranscript
  BY DEF Ordered
<1> QED
  BY <1>1, OrderKept, PTL

\* No envelope is applied twice.
THEOREM EachAppliedOnce == Spec => []AppliedOnce
<1>1. TypeOK /\ Ordered => AppliedOnce
  <2> SUFFICES ASSUME TypeOK, Ordered, NEW i \in Positions, NEW j \in Positions,
                      transcript[i].id = transcript[j].id
               PROVE  i = j
    BY DEF AppliedOnce
  <2>1. ~(i < j) /\ ~(j < i)
    BY TypedPositions DEF Ordered, Growing, Envelope
  <2> QED
    BY <2>1, TypedPositions
<1> QED
  BY <1>1, TypeCorrect, OrderKept, PTL

(***************************************************************************)
(* Agreement                                                               *)
(***************************************************************************)

\* Where a message that is taken leads: to an agreement if and only if it makes one.
LEMMA TakenLeads ==
  ASSUME TypeOK, NEW m \in Envelope, Takes(m)
  PROVE  /\ state # "agreed"
         /\ state' = "agreed" <=> m.kind \in {"accept", "commit"}
<1>1. Legal(state, m.kind)
  BY DEF Takes, Acceptable
<1>2. state # "agreed"
  BY <1>1 DEF Legal
<1>3. After(m.kind) = "agreed" <=> m.kind \in {"accept", "commit"}
  <2>1. CASE m.kind = "open"
    BY <2>1 DEF After
  <2>2. CASE m.kind \in {"accept", "commit"}
    BY <2>2 DEF After
  <2>3. CASE m.kind \in {"reject", "withdraw", "decline_session"}
    BY <2>3 DEF After
  <2>4. CASE m.kind \notin {"open", "accept", "commit", "reject", "withdraw", "decline_session"}
    BY <2>4 DEF After
  <2> QED
    BY <2>1, <2>2, <2>3, <2>4
<1>4. state' = After(m.kind) \/ (m.kind = "withdraw" /\ state' = "dormant")
  BY DEF Takes
<1> QED
  BY <1>2, <1>3, <1>4

LEMMA AgreementClosesStays ==
  ASSUME TypeOK, AgreementCloses, [Next]_vars
  PROVE  AgreementCloses'
<1>1. ASSUME NEW m \in Envelope, Takes(m) PROVE AgreementCloses'
  <2> DEFINE n == Len(transcript)
  <2>1. /\ n \in Nat /\ Positions = 1..n /\ Positions' = 1..(n + 1)
        /\ Len(transcript') = n + 1
        /\ \A i \in 1..n : transcript'[i] = transcript[i]
        /\ transcript'[n + 1] = m
    BY <1>1, TranscriptGrows DEF Takes
  <2>2. state # "agreed" /\ (state' = "agreed" <=> m.kind \in {"accept", "commit"})
    BY <1>1, TakenLeads
  <2>3. \A i \in 1..n : transcript[i].kind \notin {"accept", "commit"}
    BY <2>1, <2>2 DEF AgreementCloses
  <2>4. transcript' # <<>>
    BY <2>1
  <2> HIDE DEF n
  <2> QED
    BY <2>1, <2>2, <2>3, <2>4 DEF AgreementCloses
<1>2. CASE Quiet
  BY <1>2 DEF Quiet, record, outcome, AgreementCloses, Positions
<1>3. CASE Expire \/ MakeDormant
  <2>1. transcript' = transcript /\ state # "agreed" /\ state' # "agreed"
    BY <1>3 DEF Expire, MakeDormant, record
  <2> QED
    BY <2>1 DEF AgreementCloses, Positions
<1> QED
  BY <1>1, <1>2, <1>3, StepKinds

\* An accept or a commit ends the transcript of an agreed session and stands in no other.
THEOREM AgreementIsLast == Spec => []AgreementCloses
<1>1. Init => AgreementCloses
  BY DEF Init, AgreementCloses, Positions
<1>2. TypeOK /\ AgreementCloses /\ [Next]_vars => AgreementCloses'
  BY AgreementClosesStays
<1> QED
  BY <1>1, <1>2, TypeCorrect, PTL DEF Spec

\* No step leads out of an agreement or changes what was agreed on.
THEOREM AgreementIsFinal == Spec => AgreedIsFinal
<1>1. TypeOK /\ [Next]_vars => [state = "agreed" => UNCHANGED <<record, outcome>>]_vars
  <2> SUFFICES ASSUME TypeOK, [Next]_vars, state = "agreed"
               PROVE  UNCHANGED <<record, outcome>>
    OBVIOUS
  <2>1. ~Expire /\ ~MakeDormant
    BY DEF Expire, MakeDormant
  <2>2. \A m \in Envelope : ~Takes(m)
    BY TakenLeads
  <2> QED
    BY <2>1, <2>2, StepKinds DEF Quiet
<1> QED
  BY <1>1, TypeCorrect, PTL DEF Spec, AgreedIsFinal

\* Every party can conclude an active session whatever its offers and rounds.
THEOREM CanConclude == Spec => []AlwaysConcludable
<1>1. TypeOK => AlwaysConcludable
  <2> SUFFICES ASSUME state = "active", NEW a \in Agents,
                      NEW k \in {"accept", "reject", "withdraw", "commit"},
                      parties[a] # "none"
               PROVE  Acceptable(Build(a, k, NoTerms))
    BY DEF AlwaysConcludable
  <2> DEFINE m == Build(a, k, NoTerms)
  <2>1. /\ m.kind = k /\ m.from = a /\ m.session = Sid /\ m.intact
        /\ m.prev = Tip(transcript)
    BY DEF Build
  <2> HIDE DEF m
  <2>2. Legal(state, m.kind) /\ WithinRounds(m)
    BY <2>1 DEF Legal, ActiveKinds, Kinds, WithinRounds, OfferKinds
  <2>3. Authentic(m) /\ BoundHere(m) /\ Chains(m)
    BY <2>1 DEF Authentic, BoundHere, Chains
  <2>4. Acceptable(m)
    BY <2>2, <2>3 DEF Acceptable
  <2> QED
    BY <2>4 DEF m
<1> QED
  BY <1>1, TypeCorrect, PTL

(***************************************************************************)
(* Whose messages                                                          *)
(***************************************************************************)

\* A party stays a party.
LEMMA PartiesStay ==
  ASSUME TypeOK, [Next]_vars, NEW a \in Agents, parties[a] # "none"
  PROVE  parties'[a] # "none"
<1>1. ASSUME NEW b \in Agents, Join(b) PROVE parties'[a] # "none"
  BY <1>1 DEF Join, TypeOK
<1>2. CASE parties' = parties
  BY <1>2
<1>3. (\E b \in Agents : Join(b)) \/ parties' = parties
  BY DEF Next, vars, Send, Mail, MailElsewhere, WithdrawReactivatable, Deliver, Lose,
         Spoil, Expire, MakeDormant
<1> QED
  BY <1>1, <1>2, <1>3

LEMMA OwnTranscriptStays ==
  ASSUME TypeOK, OwnTranscript, [Next]_vars
  PROVE  OwnTranscript'
<1>1. ASSUME NEW m \in Envelope, Takes(m) PROVE OwnTranscript'
  <2> DEFINE n == Len(transcript)
  <2>1. /\ n \in Nat /\ Positions = 1..n /\ Positions' = 1..(n + 1)
        /\ \A i \in 1..n : transcript'[i] = transcript[i]
        /\ transcript'[n + 1] = m
    BY <1>1, TranscriptGrows DEF Takes
  <2>2. m.from \in Agents /\ \A i \in 1..n : transcript[i].from \in Agents
    BY <2>1, TypedPositions DEF Envelope
  <2>3. m.session = Sid /\ m.intact /\ parties[m.from] # "none"
    BY <1>1 DEF Takes, Acceptable, Authentic, BoundHere
  <2> HIDE DEF n
  <2> QED
    BY <2>1, <2>2, <2>3, PartiesStay DEF OwnTranscript
<1>2. CASE Quiet \/ Expire \/ MakeDormant
  <2>1. transcript' = transcript
    BY <1>2 DEF Quiet, Expire, MakeDormant, record
  <2>2. \A i \in Positions : transcript[i].from \in Agents
    BY TypedPositions DEF Envelope
  <2> QED
    BY <2>1, <2>2, PartiesStay DEF OwnTranscript, Positions
<1> QED
  BY <1>1, <1>2, StepKinds

\* Every message of the transcript was signed for this session by one of its parties.
THEOREM TranscriptIsOwn == Spec => []OwnTranscript
<1>1. Init => OwnTranscript
  BY DEF Init, OwnTranscript, Positions
<1>2. TypeOK /\ OwnTranscript /\ [Next]_vars => OwnTranscript'
  BY OwnTranscriptStays
<1> QED
  BY <1>1, <1>2, TypeCorrect, PTL DEF Spec

(***************************************************************************)
(* Rounds                                                                  *)
(***************************************************************************)

LEMMA OffersAreFinite ==
  ASSUME TypeOK
  PROVE  IsFiniteSet(Offers)
<1>1. Offers \subseteq 1..Len(transcript) /\ Len(transcript) \in Nat
  BY TypedPositions DEF Offers
<1>2. IsFiniteSet(1..Len(transcript))
  BY <1>1, FS_Interval
<1> QED
  BY <1>1, <1>2, FS_Subset

LEMMA RoundsStay ==
  ASSUME TypeOK, RoundsAreOffers, [Next]_vars
  PROVE  RoundsAreOffers'
<1>1. ASSUME NEW m \in Envelope, Takes(m) PROVE RoundsAreOffers'
  <2> DEFINE n == Len(transcript)
  <2>1. /\ n \in Nat /\ Positions = 1..n /\ Positions' = 1..(n + 1)
        /\ \A i \in 1..n : transcript'[i] = transcript[i]
        /\ transcript'[n + 1] = m
    BY <1>1, TranscriptGrows DEF Takes
  <2>2. WithinRounds(m) /\ TrackBehavior(m)
    BY <1>1 DEF Takes, Acceptable, Record
  <2>3. n + 1 \notin Offers
    BY <2>1 DEF Offers
  <2> HIDE DEF n
  <2>4. CASE m.kind \in OfferKinds
    <3>1. Offers' = Offers \union {n + 1}
      BY <2>1, <2>4 DEF Offers
    <3>2. Cardinality(Offers') = Cardinality(Offers) + 1
      BY <2>3, <3>1, OffersAreFinite, FS_AddElement
    <3>3. roundCount' = roundCount + 1 /\ roundCount < MaxRounds /\ roundCount \in Nat
      BY <2>2, <2>4 DEF WithinRounds, TrackBehavior, TypeOK
    <3> QED
      BY <3>2, <3>3 DEF RoundsAreOffers
  <2>5. CASE m.kind \notin OfferKinds
    <3>1. Offers' = Offers
      BY <2>1, <2>5 DEF Offers
    <3>2. roundCount' = roundCount
      BY <2>2, <2>5 DEF TrackBehavior
    <3> QED
      BY <3>1, <3>2 DEF RoundsAreOffers
  <2> QED
    BY <2>4, <2>5
<1>2. CASE Quiet \/ Expire \/ MakeDormant
  <2>1. transcript' = transcript /\ roundCount' = roundCount
    BY <1>2 DEF Quiet, Expire, MakeDormant, record
  <2>2. Offers' = Offers
    BY <2>1 DEF Offers, Positions
  <2> QED
    BY <2>1, <2>2 DEF RoundsAreOffers
<1> QED
  BY <1>1, <1>2, StepKinds

\* The round counter counts the offers of the whole transcript and stays within its limit.
THEOREM RoundsCounted == Spec => []RoundsAreOffers
<1>1. Init => RoundsAreOffers
  <2> SUFFICES ASSUME Init PROVE RoundsAreOffers
    OBVIOUS
  <2>1. Offers = {} /\ roundCount = 0
    BY DEF Init, Offers, Positions
  <2> QED
    BY <2>1, FS_EmptySet DEF RoundsAreOffers
<1>2. TypeOK /\ RoundsAreOffers /\ [Next]_vars => RoundsAreOffers'
  BY RoundsStay
<1> QED
  BY <1>1, <1>2, TypeCorrect, PTL DEF Spec

(***************************************************************************)
(* The callback                                                            *)
(***************************************************************************)

\* A fired callback was fired by a conclusion.
Reported == ReportedOnce /\ (terminalFired => callback /\ concludedAt # -1)

\* A conclusion in state s, which is reported unless one was before.
LEMMA ConclusionReported ==
  ASSUME TypeOK, Reported, NEW s \in Terminal, FireTerminal(s), callback' = callback,
         concludedAt' \in Nat, s = "agreed" => state' = "agreed", state # "agreed"
  PROVE  Reported'
<1>1. reports \in Seq(Terminal) /\ concludedAt' # -1
  BY DEF TypeOK
<1>2. CASE callback /\ ~terminalFired
  <2>1. Len(reports) = 0 /\ concludedAt = -1
    BY <1>1, <1>2 DEF Reported, ReportedOnce
  <2>2. terminalFired' /\ reports' = <<s>>
    BY <1>1, <1>2, <2>1 DEF FireTerminal
  <2>3. Len(reports') = 1 /\ reports'[1] = s
    BY <2>2
  <2>4. reports' = <<"agreed">> => state' = "agreed"
    BY <2>2
  <2> QED
    BY <1>1, <1>2, <2>2, <2>3, <2>4 DEF Reported, ReportedOnce
<1>3. CASE ~callback
  <2>1. terminalFired' = terminalFired /\ reports' = reports
    BY <1>3 DEF FireTerminal
  <2>2. Len(reports) = 0 /\ ~terminalFired
    BY <1>3 DEF Reported, ReportedOnce
  <2>3. reports # <<"agreed">>
    BY <2>2
  <2> QED
    BY <1>1, <1>3, <2>1, <2>2, <2>3 DEF Reported, ReportedOnce
<1>4. CASE callback /\ terminalFired
  <2>1. terminalFired' = terminalFired /\ reports' = reports
    BY <1>4 DEF FireTerminal
  <2>2. Len(reports) = 1 /\ reports[1] \in Terminal /\ reports # <<"agreed">>
    BY <1>4 DEF Reported, ReportedOnce
  <2> QED
    BY <1>1, <1>4, <2>1, <2>2 DEF Reported, ReportedOnce
<1> QED
  BY <1>2, <1>3, <1>4

LEMMA CallbackStays ==
  ASSUME [Next]_vars
  PROVE  callback' = callback
  BY DEF Next, vars, Join, Send, Mail, MailElsewhere, WithdrawReactivatable, Deliver, Lose,
         Spoil, Expire, MakeDormant

LEMMA ReportedStays ==
  ASSUME TypeOK, Reported, [Next]_vars
  PROVE  Reported'
<1>1. callback' = callback
  BY CallbackStays
<1>2. Len(transcript) \in Nat
  BY TypedPositions
<1>3. ASSUME NEW m \in Envelope, Takes(m) PROVE Reported'
  <2>1. Conclude(After(m.kind)) /\ state # "agreed" /\ After(m.kind) # "expired"
    BY <1>3, TakenLeads, AfterTyped DEF Takes, Record
  <2>2. CASE After(m.kind) \in {"agreed", "rejected"} /\ After(m.kind) # state
    <3>1. FireTerminal(After(m.kind)) /\ concludedAt' = Len(transcript) + 1
      BY <2>1, <2>2 DEF Conclude
    <3>2. After(m.kind) = "agreed" => state' = "agreed"
      <4>1. After(m.kind) = "agreed" => m.kind # "withdraw"
        BY DEF After
      <4> QED
        BY <1>3, <4>1 DEF Takes
    <3> QED
      BY <1>1, <1>2, <2>1, <2>2, <3>1, <3>2, ConclusionReported DEF Terminal
  <2>3. CASE ~(After(m.kind) \in {"agreed", "rejected"} /\ After(m.kind) # state)
    <3>1. UNCHANGED <<concludedAt, terminalFired, reports>>
      BY <2>1, <2>3 DEF Conclude
    <3>2. reports # <<"agreed">>
      BY <2>1 DEF Reported, ReportedOnce
    <3> QED
      BY <1>1, <3>1, <3>2 DEF Reported, ReportedOnce
  <2> QED
    BY <2>2, <2>3
<1>4. CASE Quiet
  BY <1>1, <1>4 DEF Quiet, outcome, Reported, ReportedOnce
<1>5. CASE Expire
  BY <1>1, <1>2, <1>5, ConclusionReported DEF Expire, Terminal
<1>6. CASE MakeDormant
  <2>1. UNCHANGED <<concludedAt, terminalFired, reports>> /\ state # "agreed"
    BY <1>6 DEF MakeDormant
  <2> QED
    BY <1>1, <2>1 DEF Reported, ReportedOnce
<1> QED
  BY <1>3, <1>4, <1>5, <1>6, StepKinds

\* The callback is told the first conclusion, at once and only once.
THEOREM FirstConclusionReported == Spec => []ReportedOnce
<1>1. Init => Reported
  BY DEF Init, Reported, ReportedOnce
<1>2. TypeOK /\ Reported /\ [Next]_vars => Reported'
  BY ReportedStays
<1>3. Reported => ReportedOnce
  BY DEF Reported
<1> QED
  BY <1>1, <1>2, <1>3, TypeCorrect, PTL DEF Spec

LEMMA StampStays ==
  ASSUME TypeOK, ConclusionStamped, [Next]_vars
  PROVE  ConclusionStamped'
<1>1. ASSUME NEW m \in Envelope, Takes(m) PROVE ConclusionStamped'
  <2>1. Len(transcript') = Len(transcript) + 1 /\ Conclude(After(m.kind))
    BY <1>1, TranscriptGrows DEF Takes, Record
  <2>2. state \notin {"agreed", "rejected"}
    BY <1>1 DEF Takes, Acceptable, Legal
  <2>3. CASE After(m.kind) \in {"agreed", "rejected"}
    BY <2>1, <2>2, <2>3 DEF Conclude, ConclusionStamped
  <2>4. CASE After(m.kind) \in {"proposed", "active"}
    <3>1. m.kind # "withdraw"
      BY <2>4 DEF After
    <3> QED
      BY <1>1, <2>4, <3>1 DEF Takes, ConclusionStamped, Terminal
  <2> QED
    BY <2>3, <2>4, AfterTyped
<1>2. CASE Quiet
  BY <1>2 DEF Quiet, record, outcome, ConclusionStamped
<1>3. CASE Expire \/ MakeDormant
  BY <1>3 DEF Expire, MakeDormant, record, ConclusionStamped, Terminal
<1> QED
  BY <1>1, <1>2, <1>3, StepKinds

\* A session at rest carries the stamp of the conclusion that put it there.
THEOREM RestIsStamped == Spec => []ConclusionStamped
<1>1. Init => ConclusionStamped
  BY DEF Init, ConclusionStamped, Terminal
<1>2. TypeOK /\ ConclusionStamped /\ [Next]_vars => ConclusionStamped'
  BY StampStays
<1> QED
  BY <1>1, <1>2, TypeCorrect, PTL DEF Spec

(***************************************************************************)
(* Behavior records                                                        *)
(***************************************************************************)

\* The offers with terms an agent made so far.
Proposed(a) == {j \in By(a, OfferKinds) : transcript[j].terms # NoTerms}

\* The last of them is what the session remembers of the agent.
Remembered(a) ==
  \/ Proposed(a) = {} /\ lastOffer[a] = NoTerms
  \/ \E j \in Proposed(a) :
       (\A l \in Proposed(a) : l <= j) /\ lastOffer[a] = transcript[j].terms

OffersRemembered == \A a \in Agents : Remembered(a)

\* What a message adds to the messages of an agent of some kinds: itself, at the end.
LEMMA ByGrows ==
  ASSUME TypeOK, NEW m \in Envelope, Record(m), NEW a, NEW ks,
         NEW n \in Nat, n = Len(transcript)
  PROVE  /\ By(a, ks)' = By(a, ks) \union
                           {i \in {n + 1} : m.from = a /\ m.kind \in ks}
         /\ By(a, ks) \subseteq 1..n
         /\ IsFiniteSet(By(a, ks))
         /\ n + 1 \notin By(a, ks)
<1>1. /\ Positions = 1..n /\ Positions' = 1..(n + 1)
      /\ \A i \in 1..n : transcript'[i] = transcript[i]
      /\ transcript'[n + 1] = m
  BY TranscriptGrows
<1>2. By(a, ks) \subseteq 1..n
  BY <1>1 DEF By
<1>3. IsFiniteSet(By(a, ks))
  <2>1. IsFiniteSet(1..n)
    BY FS_Interval
  <2> QED
    BY <1>2, <2>1, FS_Subset
<1>4. n + 1 \notin By(a, ks)
  BY <1>2
<1>5. By(a, ks)' = {i \in 1..(n + 1) : transcript'[i].from = a /\ transcript'[i].kind \in ks}
  BY <1>1 DEF By
<1>6. By(a, ks) = {i \in 1..n : transcript[i].from = a /\ transcript[i].kind \in ks}
  BY <1>1 DEF By
<1>7. By(a, ks)' = By(a, ks) \union {i \in {n + 1} : m.from = a /\ m.kind \in ks}
  BY <1>1, <1>5, <1>6
<1> QED
  BY <1>2, <1>3, <1>4, <1>7

LEMMA ProposedGrows ==
  ASSUME TypeOK, NEW m \in Envelope, Record(m), NEW a,
         NEW n \in Nat, n = Len(transcript)
  PROVE  /\ Proposed(a)' = Proposed(a) \union
              {i \in {n + 1} : m.from = a /\ m.kind \in OfferKinds /\ m.terms # NoTerms}
         /\ Proposed(a) \subseteq 1..n
<1> DEFINE B == By(a, OfferKinds)
<1>1. /\ \A i \in 1..n : transcript'[i] = transcript[i]
      /\ transcript'[n + 1] = m
  BY TranscriptGrows
<1>2. /\ B' = B \union {i \in {n + 1} : m.from = a /\ m.kind \in OfferKinds}
      /\ B \subseteq 1..n
  BY ByGrows
<1>3. /\ Proposed(a) = {j \in B : transcript[j].terms # NoTerms}
      /\ Proposed(a)' = {j \in B' : transcript'[j].terms # NoTerms}
  BY DEF Proposed
<1> HIDE DEF B
<1> QED
  BY <1>1, <1>2, <1>3

\* What an agent offered before a position is in the transcript for good; at the end of it,
\* that is all it ever offered.
LEMMA EarlierStays ==
  ASSUME TypeOK, NEW m \in Envelope, Record(m), NEW a,
         NEW n \in Nat, n = Len(transcript)
  PROVE  /\ \A i \in 1..n : Earlier(a, i)' = Earlier(a, i)
         /\ \A i \in {n + 1} : Earlier(a, i)' = Proposed(a)
         /\ \A i \in Nat : Earlier(a, i) = {j \in Proposed(a) : j < i}
<1>1. /\ Proposed(a)' = Proposed(a) \union
           {i \in {n + 1} : m.from = a /\ m.kind \in OfferKinds /\ m.terms # NoTerms}
      /\ Proposed(a) \subseteq 1..n
  BY ProposedGrows
<1>2. ASSUME NEW i PROVE Earlier(a, i) = {j \in Proposed(a) : j < i}
  BY DEF Earlier, Proposed
<1>3. ASSUME NEW i PROVE Earlier(a, i)' = {j \in Proposed(a)' : j < i}
  BY DEF Earlier, Proposed
<1>4. ASSUME NEW i \in 1..n PROVE Earlier(a, i)' = Earlier(a, i)
  <2>1. Earlier(a, i) = {j \in Proposed(a) : j < i} /\ Earlier(a, i)' = {j \in Proposed(a)' : j < i}
    BY <1>2, <1>3
  <2> QED
    BY <1>1, <2>1
<1>5. ASSUME NEW i \in {n + 1} PROVE Earlier(a, i)' = Proposed(a)
  <2>1. Earlier(a, i)' = {j \in Proposed(a)' : j < i}
    BY <1>3
  <2> QED
    BY <1>1, <2>1
<1> QED
  BY <1>2, <1>4, <1>5

LEMMA RememberedStays ==
  ASSUME TypeOK, OffersRemembered, NEW m \in Envelope, Record(m)
  PROVE  OffersRemembered'
<1> SUFFICES ASSUME NEW a \in Agents PROVE Remembered(a)'
  BY DEF OffersRemembered
<1>1. PICK n \in Nat : n = Len(transcript)
  BY TypedPositions
<1> DEFINE offered == m.from = a /\ m.kind \in OfferKinds /\ m.terms # NoTerms
<1>2. /\ \A i \in 1..n : transcript'[i] = transcript[i]
      /\ transcript'[n + 1] = m
  BY <1>1, TranscriptGrows
<1>3. /\ Proposed(a) \subseteq 1..n
      /\ Proposed(a)' = Proposed(a) \union {j \in {n + 1} : offered}
  BY <1>1, ProposedGrows
<1>4. lastOffer'[a] = IF offered THEN m.terms ELSE lastOffer[a]
  BY DEF Record, TrackBehavior, TypeOK
<1>5. Remembered(a)
  BY DEF OffersRemembered
<1> HIDE DEF offered
<1>6. CASE offered
  <2>1. n + 1 \in Proposed(a)' /\ lastOffer'[a] = transcript'[n + 1].terms
    BY <1>2, <1>3, <1>4, <1>6
  <2>2. \A l \in Proposed(a)' : l <= n + 1
    BY <1>3, <1>6
  <2> QED
    BY <2>1, <2>2 DEF Remembered
<1>7. CASE ~offered
  <2>1. Proposed(a)' = Proposed(a) /\ lastOffer'[a] = lastOffer[a]
    BY <1>3, <1>4, <1>7
  <2> QED
    BY <1>2, <1>3, <1>5, <2>1 DEF Remembered
<1> QED
  BY <1>6, <1>7

\* Whether message i of agent a was a concession, whatever came before it.
Conceded(a, i) ==
  \E j \in Earlier(a, i) :
    /\ \A l \in Earlier(a, i) : l <= j
    /\ transcript[j].terms # 0
    /\ transcript[i].terms \notin {NoTerms, transcript[j].terms}

\* A new offer is a concession on the record if it is one in the transcript.
LEMMA NewConcession ==
  ASSUME TypeOK, OffersRemembered, NEW m \in Envelope, Record(m), NEW a \in Agents,
         NEW n \in Nat, n = Len(transcript), NEW i \in {n + 1}
  PROVE  Conceded(a, i)' <=> Concedes(lastOffer[a], m.terms)
<1> DEFINE all == Proposed(a)
<1>1. /\ \A l \in 1..n : transcript'[l] = transcript[l] /\ transcript[l] \in Envelope
      /\ transcript'[i] = m
  BY TranscriptGrows, TypedPositions
<1>2. all \subseteq 1..n
  BY ProposedGrows
<1>3. \A j \in all : transcript[j].terms \in Values
  BY <1>1, <1>2 DEF Proposed, Envelope
<1>4. Earlier(a, i)' = all
  BY EarlierStays
<1>5. \/ all = {} /\ lastOffer[a] = NoTerms
      \/ \E j \in all : (\A l \in all : l <= j) /\ lastOffer[a] = transcript[j].terms
  BY DEF OffersRemembered, Remembered
<1>6. m.terms \in Values <=> m.terms # NoTerms
  BY DEF Envelope
<1> HIDE DEF all
<1>7. Conceded(a, i)' <=>
        \E j \in all : /\ \A l \in all : l <= j
                       /\ transcript[j].terms # 0
                       /\ m.terms \notin {NoTerms, transcript[j].terms}
  BY <1>1, <1>2, <1>4 DEF Conceded
<1>8. CASE all = {}
  BY <1>5, <1>7, <1>8 DEF Concedes
<1>9. ASSUME NEW j \in all, \A l \in all : l <= j, lastOffer[a] = transcript[j].terms
      PROVE  Conceded(a, i)' <=> Concedes(lastOffer[a], m.terms)
  <2>1. ASSUME NEW k \in all, \A l \in all : l <= k PROVE k = j
    BY <1>2, <1>9, <2>1
  <2>2. Conceded(a, i)' <=>
          transcript[j].terms # 0 /\ m.terms \notin {NoTerms, transcript[j].terms}
    BY <1>7, <1>9, <2>1
  <2> QED
    BY <1>3, <1>6, <1>9, <2>2 DEF Concedes
<1> QED
  BY <1>5, <1>8, <1>9

LEMMA ConcededGrows ==
  ASSUME TypeOK, OffersRemembered, NEW m \in Envelope, Record(m), NEW a \in Agents,
         NEW n \in Nat, n = Len(transcript)
  PROVE  /\ ConcededAt(a)' = ConcededAt(a) \union
              {i \in {n + 1} : m.from = a /\ m.kind \in OfferKinds
                                 /\ Concedes(lastOffer[a], m.terms)}
         /\ IsFiniteSet(ConcededAt(a))
         /\ n + 1 \notin ConcededAt(a)
<1> DEFINE B == By(a, OfferKinds)
<1>1. /\ B' = B \union {i \in {n + 1} : m.from = a /\ m.kind \in OfferKinds}
      /\ B \subseteq 1..n
      /\ IsFiniteSet(B)
  BY ByGrows
<1>2. /\ ConcededAt(a) = {i \in B : Conceded(a, i)}
      /\ ConcededAt(a)' = {i \in B' : Conceded(a, i)'}
  BY DEF ConcededAt, Conceded
<1> HIDE DEF B
<1>3. ASSUME NEW i \in 1..n PROVE Conceded(a, i)' <=> Conceded(a, i)
  <2>1. \A l \in 1..n : transcript'[l] = transcript[l]
    BY TranscriptGrows
  <2>2. Earlier(a, i)' = Earlier(a, i)
    BY EarlierStays
  <2>3. Earlier(a, i) \subseteq 1..n
    BY ByGrows DEF Earlier
  <2> QED
    BY <2>1, <2>2, <2>3 DEF Conceded
<1>4. \A i \in {n + 1} : Conceded(a, i)' <=> Concedes(lastOffer[a], m.terms)
  BY NewConcession
<1>5. IsFiniteSet(ConcededAt(a)) /\ n + 1 \notin ConcededAt(a)
  BY <1>1, <1>2, FS_Subset
<1>6. ASSUME NEW i \in 1..(n + 1)
      PROVE  i \in ConcededAt(a)' <=>
               \/ i \in ConcededAt(a)
               \/ /\ i = n + 1
                  /\ m.from = a /\ m.kind \in OfferKinds
                  /\ Concedes(lastOffer[a], m.terms)
  <2>1. CASE i \in 1..n
    <3>1. i \in B' <=> i \in B
      BY <1>1, <2>1
    <3> QED
      BY <1>2, <1>3, <2>1, <3>1
  <2>2. CASE i = n + 1
    <3>1. i \in B' <=> m.from = a /\ m.kind \in OfferKinds
      BY <1>1, <2>2
    <3>2. Conceded(a, i)' <=> Concedes(lastOffer[a], m.terms)
      BY <1>4, <2>2
    <3> QED
      BY <1>1, <1>2, <2>2, <3>1, <3>2
  <2> QED
    BY <2>1, <2>2
<1>7. ConcededAt(a)' \subseteq 1..(n + 1) /\ ConcededAt(a) \subseteq 1..n
  <2>1. \A i \in B' : i \in 1..(n + 1)
    BY <1>1
  <2> QED
    BY <1>1, <1>2, <2>1
<1> QED
  BY <1>5, <1>6, <1>7

LEMMA OfferFields ==
  ASSUME NEW o \in Nat, NEW c \in Nat, NEW s, NEW k, NEW w,
         NEW b, b = [offers |-> o, concessions |-> c, signals |-> s, constraints |-> k,
                     withdrawal |-> w],
         NEW conceded
  PROVE  Offered(b, conceded) =
           [offers |-> o + 1, concessions |-> IF conceded THEN c + 1 ELSE c, signals |-> s,
            constraints |-> k, withdrawal |-> w]
<1>1. PICK d : d = [b EXCEPT !.offers = @ + 1]
  OBVIOUS
<1>2. d = [offers |-> o + 1, concessions |-> c, signals |-> s, constraints |-> k,
           withdrawal |-> w]
  BY <1>1
<1>3. Offered(b, conceded) = IF conceded THEN [d EXCEPT !.concessions = @ + 1] ELSE d
  BY <1>1 DEF Offered
<1>4. [d EXCEPT !.concessions = @ + 1] =
        [offers |-> o + 1, concessions |-> c + 1, signals |-> s, constraints |-> k,
         withdrawal |-> w]
  BY <1>2
<1> QED
  BY <1>2, <1>3, <1>4

LEMMA WithdrawalField ==
  ASSUME NEW b, NEW t, t = TRUE
  PROVE  [b EXCEPT !.withdrawal = TRUE] = [b EXCEPT !.withdrawal = t]
  OBVIOUS

\* What the transcript says of an agent.
Told(a) == [offers      |-> Cardinality(By(a, OfferKinds)),
            concessions |-> Cardinality(ConcededAt(a)),
            signals     |-> Cardinality(By(a, {"signal"})),
            constraints |-> Cardinality(By(a, {"constrain"})),
            withdrawal  |-> By(a, {"withdraw"}) # {}]

\* What one more message adds to it is what _track_behavior adds to the record.
LEMMA ToldGrows ==
  ASSUME TypeOK, OffersRemembered, NEW m \in Envelope, Record(m), NEW a \in Agents
  PROVE  Told(a)' = IF m.from = a THEN Observed(Told(a), m) ELSE Told(a)
<1>1. PICK n \in Nat : n = Len(transcript)
  BY TypedPositions
<1> DEFINE Speaks(ks) == m.from = a /\ m.kind \in ks
           O == By(a, OfferKinds)
           C == ConcededAt(a)
           S == By(a, {"signal"})
           K == By(a, {"constrain"})
           W == By(a, {"withdraw"})
           left == W # {}
           concedes == Concedes(lastOffer[a], m.terms)
<1>2. /\ Cardinality(O) \in Nat
      /\ Cardinality(O') = IF Speaks(OfferKinds) THEN Cardinality(O) + 1 ELSE Cardinality(O)
  <2>1. /\ O' = O \union {i \in {n + 1} : Speaks(OfferKinds)}
        /\ IsFiniteSet(O) /\ n + 1 \notin O
    BY <1>1, ByGrows
  <2>2. /\ Speaks(OfferKinds) => O' = O \union {n + 1}
        /\ ~Speaks(OfferKinds) => O' = O
    BY <2>1
  <2> HIDE DEF O
  <2> QED
    BY <2>1, <2>2, FS_CardinalityType, FS_AddElement
<1>3. /\ Cardinality(C) \in Nat
      /\ Cardinality(C') = IF Speaks(OfferKinds) /\ concedes
                           THEN Cardinality(C) + 1 ELSE Cardinality(C)
  <2>1. /\ C' = C \union {i \in {n + 1} : Speaks(OfferKinds) /\ concedes}
        /\ IsFiniteSet(C) /\ n + 1 \notin C
    BY <1>1, ConcededGrows
  <2>2. /\ Speaks(OfferKinds) /\ concedes => C' = C \union {n + 1}
        /\ ~(Speaks(OfferKinds) /\ concedes) => C' = C
    BY <2>1
  <2> HIDE DEF C
  <2> QED
    BY <2>1, <2>2, FS_CardinalityType, FS_AddElement
<1>4. /\ Cardinality(S) \in Nat
      /\ Cardinality(S') = IF Speaks({"signal"}) THEN Cardinality(S) + 1 ELSE Cardinality(S)
  <2>1. /\ S' = S \union {i \in {n + 1} : Speaks({"signal"})}
        /\ IsFiniteSet(S) /\ n + 1 \notin S
    BY <1>1, ByGrows
  <2>2. /\ Speaks({"signal"}) => S' = S \union {n + 1}
        /\ ~Speaks({"signal"}) => S' = S
    BY <2>1
  <2> HIDE DEF S
  <2> QED
    BY <2>1, <2>2, FS_CardinalityType, FS_AddElement
<1>5. /\ Cardinality(K) \in Nat
      /\ Cardinality(K') = IF Speaks({"constrain"}) THEN Cardinality(K) + 1 ELSE Cardinality(K)
  <2>1. /\ K' = K \union {i \in {n + 1} : Speaks({"constrain"})}
        /\ IsFiniteSet(K) /\ n + 1 \notin K
    BY <1>1, ByGrows
  <2>2. /\ Speaks({"constrain"}) => K' = K \union {n + 1}
        /\ ~Speaks({"constrain"}) => K' = K
    BY <2>1
  <2> HIDE DEF K
  <2> QED
    BY <2>1, <2>2, FS_CardinalityType, FS_AddElement
<1>6. /\ left \in BOOLEAN
      /\ Speaks({"withdraw"}) => left' = TRUE
      /\ ~Speaks({"withdraw"}) => left' = left
  <2>1. W' = W \union {i \in {n + 1} : Speaks({"withdraw"})}
    BY <1>1, ByGrows
  <2> HIDE DEF W
  <2>2. Speaks({"withdraw"}) => n + 1 \in W'
    BY <2>1
  <2>3. ~Speaks({"withdraw"}) => W' = W
    BY <2>1
  <2> HIDE DEF Speaks
  <2> QED
    BY <2>2, <2>3
<1>7. /\ Told(a) = [offers |-> Cardinality(O), concessions |-> Cardinality(C),
                    signals |-> Cardinality(S), constraints |-> Cardinality(K),
                    withdrawal |-> left]
      /\ Told(a)' = [offers |-> Cardinality(O'), concessions |-> Cardinality(C'),
                     signals |-> Cardinality(S'), constraints |-> Cardinality(K'),
                     withdrawal |-> left']
  BY DEF Told
<1> HIDE DEF O, C, S, K, left, concedes
<1>8. PICK o, c, s, k, w : /\ o = Cardinality(O) /\ c = Cardinality(C)
                            /\ s = Cardinality(S) /\ k = Cardinality(K) /\ w = left
  OBVIOUS
<1>9. /\ o \in Nat /\ c \in Nat /\ s \in Nat /\ k \in Nat
       /\ Told(a) = [offers |-> o, concessions |-> c, signals |-> s, constraints |-> k,
                     withdrawal |-> w]
  BY <1>2, <1>3, <1>4, <1>5, <1>7, <1>8
<1>10. CASE m.from # a
  BY <1>2, <1>3, <1>4, <1>5, <1>6, <1>7, <1>10
<1>11. CASE m.from = a /\ m.kind \in OfferKinds
  <2>1. Observed(Told(a), m) = Offered(Told(a), Concedes(lastOffer[m.from], m.terms))
    BY <1>11 DEF Observed, OfferKinds
  <2>2. Speaks(OfferKinds) /\ ~Speaks({"signal"}) /\ ~Speaks({"constrain"})
        /\ ~Speaks({"withdraw"})
    BY <1>11 DEF OfferKinds
  <2> HIDE DEF Speaks
  <2>3. Cardinality(O') = o + 1 /\ Cardinality(S') = s /\ Cardinality(K') = k /\ left' = w
    BY <1>2, <1>4, <1>5, <1>6, <1>8, <2>2
  <2>5. Cardinality(C') = IF concedes THEN c + 1 ELSE c
    BY <1>3, <1>8, <2>2
  <2>6. Offered(Told(a), concedes) =
          [offers |-> o + 1, concessions |-> IF concedes THEN c + 1 ELSE c, signals |-> s,
           constraints |-> k, withdrawal |-> w]
    BY <1>9, OfferFields
  <2>7. Told(a)' = Offered(Told(a), concedes)
    BY <1>7, <2>3, <2>5, <2>6
  <2> QED
    BY <1>11, <2>1, <2>7 DEF concedes
<1>12. CASE m.from = a /\ m.kind = "signal"
  BY <1>2, <1>3, <1>4, <1>5, <1>6, <1>7, <1>12 DEF Observed, OfferKinds
<1>13. CASE m.from = a /\ m.kind = "constrain"
  BY <1>2, <1>3, <1>4, <1>5, <1>6, <1>7, <1>13 DEF Observed, OfferKinds
<1>14. CASE m.from = a /\ m.kind = "withdraw"
  <2>1. /\ Observed(Told(a), m) = [Told(a) EXCEPT !.withdrawal = TRUE]
        /\ Speaks({"withdraw"}) /\ ~Speaks(OfferKinds) /\ ~Speaks({"signal"})
        /\ ~Speaks({"constrain"})
    BY <1>14 DEF Observed, OfferKinds
  <2>2. left' = TRUE
    BY <1>6, <2>1
  <2>3. Told(a)' = [Told(a) EXCEPT !.withdrawal = TRUE]
    <3> HIDE DEF Speaks
    <3>1. Cardinality(O') = o /\ Cardinality(C') = c /\ Cardinality(S') = s /\ Cardinality(K') = k
      BY <1>2, <1>3, <1>4, <1>5, <1>8, <2>1
    <3>2. [Told(a) EXCEPT !.withdrawal = TRUE] = [Told(a) EXCEPT !.withdrawal = left']
      BY <2>2, WithdrawalField
    <3> QED
      BY <1>7, <1>9, <3>1, <3>2
  <2> QED
    BY <1>14, <2>1, <2>3
<1>15. CASE m.from = a /\ m.kind \notin OfferKinds \union {"signal", "constrain", "withdraw"}
  BY <1>2, <1>3, <1>4, <1>5, <1>6, <1>7, <1>15 DEF Observed, OfferKinds
<1> QED
  BY <1>10, <1>11, <1>12, <1>13, <1>14, <1>15

LEMMA BehaviorStays ==
  ASSUME TypeOK, OffersRemembered, BehaviorFollowsTranscript, [Next]_vars
  PROVE  OffersRemembered' /\ BehaviorFollowsTranscript'
<1>1. \A a \in Agents : behavior[a] = Told(a)
  BY DEF BehaviorFollowsTranscript, Told
<1>2. BehaviorFollowsTranscript' <=> \A a \in Agents : behavior'[a] = Told(a)'
  BY DEF BehaviorFollowsTranscript, Told
<1>3. ASSUME NEW m \in Envelope, Takes(m)
      PROVE  OffersRemembered' /\ BehaviorFollowsTranscript'
  <2>1. Record(m)
    BY <1>3 DEF Takes
  <2>2. behavior' = [behavior EXCEPT ![m.from] = Observed(@, m)] /\ m.from \in Agents
    BY <2>1 DEF Record, TrackBehavior, Envelope
  <2>3. ASSUME NEW a \in Agents PROVE behavior'[a] = Told(a)'
    <3>1. Told(a)' = IF m.from = a THEN Observed(Told(a), m) ELSE Told(a)
      BY <2>1, ToldGrows
    <3>2. behavior'[a] = IF m.from = a THEN Observed(behavior[a], m) ELSE behavior[a]
      BY <2>2 DEF TypeOK
    <3> QED
      BY <1>1, <3>1, <3>2
  <2> QED
    BY <1>2, <2>1, <2>3, RememberedStays
<1>4. CASE Quiet \/ Expire \/ MakeDormant
  <2>1. transcript' = transcript /\ lastOffer' = lastOffer /\ behavior' = behavior
    BY <1>4 DEF Quiet, Expire, MakeDormant, record
  <2>2. OffersRemembered'
    BY <2>1 DEF OffersRemembered, Remembered, Proposed, By, Positions
  <2>3. \A a \in Agents : Told(a)' = Told(a)
    BY <2>1 DEF Told, ConcededAt, Earlier, By, Positions
  <2> QED
    BY <1>1, <1>2, <2>1, <2>2, <2>3
<1> QED
  BY <1>3, <1>4, StepKinds

\* The behavior record of every party is what the transcript says of it: no offer,
\* concession, signal or constraint is counted twice, missed or put down to another.
THEOREM RecordsAreTrue == Spec => []BehaviorFollowsTranscript
<1>1. Init => OffersRemembered /\ BehaviorFollowsTranscript
  <2> SUFFICES ASSUME Init PROVE OffersRemembered /\ BehaviorFollowsTranscript
    OBVIOUS
  <2>1. \A a, ks : By(a, ks) = {}
    BY DEF Init, By, Positions
  <2>2. \A a \in Agents : Proposed(a) = {} /\ ConcededAt(a) = {}
    BY <2>1 DEF Proposed, ConcededAt
  <2> QED
    BY <2>1, <2>2, FS_EmptySet
       DEF Init, OffersRemembered, Remembered, BehaviorFollowsTranscript, NoBehavior
<1>2. TypeOK /\ OffersRemembered /\ BehaviorFollowsTranscript /\ [Next]_vars
        => OffersRemembered' /\ BehaviorFollowsTranscript'
  BY BehaviorStays
<1> QED
  BY <1>1, <1>2, TypeCorrect, PTL DEF Spec

(***************************************************************************)
(* Refinement of NegotiationLog                                            *)
(*                                                                         *)
(* The envelopes of a session are built, mailed, delayed, repeated and     *)
(* lost, and what the parties see is one log in which every message stands *)
(* once.  A message taken is a Take, an expiry a Lapse, a session put      *)
(* aside a Shelve; everything else leaves the log and its status as they   *)
(* are.                                                                    *)
(***************************************************************************)

\* The log the transcript stands for.
LogOf == [i \in DOMAIN transcript |-> LogEntry(transcript[i])]

\* The legal kinds and where they lead are the abstract ones.
LEMMA SameTable ==
  ASSUME NEW s \in States, NEW k \in Kinds
  PROVE  /\ Legal(s, k) => k \in Log!Listens(s)
         /\ After(k) = Log!Becomes(k)
<1>1. After(k) = Log!Becomes(k)
  BY DEF After, Log!Becomes
<1>2. Legal(s, k) => k \in Log!Listens(s)
  <2>1. CASE s = "proposed"
    BY <2>1 DEF Legal, Log!Listens
  <2>2. CASE s = "active"
    BY <2>2 DEF Legal, Log!Listens, ActiveKinds, Kinds, Log!Kinds
  <2>3. CASE s = "dormant"
    BY <2>3 DEF Legal, Log!Listens
  <2>4. CASE s \notin {"proposed", "active", "dormant"}
    BY <2>4 DEF Legal
  <2> QED
    BY <2>1, <2>2, <2>3, <2>4
<1> QED
  BY <1>1, <1>2

\* A message that is taken was never logged, and becomes the new last entry.
LEMMA TakenIsLogged ==
  ASSUME TypeOK, Ordered, RoundsAreOffers, NEW m \in Envelope, Takes(m)
  PROVE  Log!Next
<1> DEFINE n == Len(transcript)
<1> DEFINE e == LogEntry(m)
<1>1. /\ n \in Nat /\ Positions = 1..n /\ Positions' = 1..(n + 1)
      /\ \A i \in 1..n : transcript'[i] = transcript[i]
      /\ transcript'[n + 1] = m
  BY TranscriptGrows DEF Takes
<1>2. DOMAIN LogOf = 1..n /\ DOMAIN LogOf' = 1..(n + 1)
  BY <1>1 DEF LogOf, Positions
<1>3. Len(LogOf) = n
  BY <1>1, <1>2
<1>4. LogOf' = Append(LogOf, e)
  <2>1. \A i \in 1..n : LogOf'[i] = LogOf[i]
    BY <1>1, <1>2 DEF LogOf, LogEntry, Positions
  <2>2. LogOf'[n + 1] = e
    BY <1>1, <1>2 DEF LogOf, LogEntry, Positions
  <2>3. \A i \in 1..n : LogOf[i] \in Log!Entry
    BY <1>1, TypedPositions
       DEF LogOf, LogEntry, Positions, Envelope, Log!Entry, Kinds, Log!Kinds
  <2>4. e \in Log!Entry
    BY DEF LogEntry, Envelope, Log!Entry, Kinds, Log!Kinds
  <2>5. LogOf = [i \in 1..n |-> LogOf[i]] /\ LogOf' = [i \in 1..(n + 1) |-> LogOf'[i]]
    BY <1>1 DEF LogOf, Positions
  <2> HIDE DEF e, n
  <2>6. LogOf \in Seq(Log!Entry)
    BY <1>1, <2>3, <2>5
  <2>7. LogOf' \in Seq(Log!Entry)
    BY <1>1, <2>1, <2>2, <2>3, <2>4, <2>5
  <2>8. /\ Append(LogOf, e) \in Seq(Log!Entry)
        /\ Len(Append(LogOf, e)) = n + 1
        /\ \A i \in 1..n : Append(LogOf, e)[i] = LogOf[i]
        /\ Append(LogOf, e)[n + 1] = e
    BY <1>3, <2>4, <2>6
  <2>9. Len(LogOf') = n + 1
    BY <1>1, <1>2, <2>7
  <2> QED
    BY <1>1, <2>1, <2>2, <2>7, <2>8, <2>9, SeqEqual
<1>5. e \in Log!Entry
  BY DEF LogEntry, Envelope, Log!Entry, Kinds, Log!Kinds
<1>6. e.kind = m.kind /\ e.id = m.id
  BY DEF LogEntry
<1>7. e.kind \in Log!Listens(state)
  BY <1>6, SameTable DEF Takes, Acceptable, TypeOK, Envelope
<1>8. e.id \notin Log!Logged
  <2>1. Chains(m) /\ m.prev < m.id
    BY SayableIsYounger DEF Takes, Acceptable, Ordered
  <2>2. \A i \in 1..n : transcript[i].id < m.id
    BY <1>1, <2>1, TakenIsYoungest
  <2>3. \A i \in 1..n : LogOf[i].id = transcript[i].id
    BY <1>1 DEF LogOf, LogEntry, Positions
  <2>4. Log!Logged = {LogOf[i].id : i \in 1..n}
    BY <1>1 DEF Log!Logged, LogOf, Positions
  <2>5. \A i \in 1..n : transcript[i].id \in Int /\ m.id \in Int
    BY <1>1, TypedPositions DEF Envelope
  <2> HIDE DEF e, n
  <2> QED
    BY <1>6, <2>2, <2>3, <2>4, <2>5
<1>9. e.kind \in {"offer", "counter"} => Cardinality(Log!Bids) < MaxRounds
  <2>1. Log!Bids = Offers
    BY <1>1 DEF Log!Bids, Offers, OfferKinds, LogEntry, Positions
  <2>2. e.kind \in {"offer", "counter"} => roundCount < MaxRounds
    BY <1>6 DEF Takes, Acceptable, WithinRounds, OfferKinds
  <2> QED
    BY <2>1, <2>2 DEF RoundsAreOffers
<1>10. state' = Log!Becomes(e.kind) \/ (e.kind = "withdraw" /\ state' = "dormant")
  BY <1>6, SameTable DEF Takes, Envelope, TypeOK
<1>11. Log!Take(e)
  <2>1. Log!Cardinality(Log!Bids) = Cardinality(Log!Bids)
    BY DEF Log!Cardinality, Cardinality
  <2> HIDE DEF e, n
  <2> QED
    BY <1>4, <1>5, <1>7, <1>8, <1>9, <1>10, <2>1 DEF Log!Take, LogOf
<1>12. e \in Log!Added
  <2>1. LogOf'[n + 1] = e /\ n + 1 \in DOMAIN LogOf' \ DOMAIN LogOf
    BY <1>1, <1>2 DEF LogOf, LogEntry, Positions
  <2> HIDE DEF e, n
  <2> QED
    BY <2>1 DEF Log!Added, LogOf
<1> QED
  BY <1>11, <1>12 DEF Log!Next

\* The session, with everything that happens to its envelopes, implements the log.
THEOREM SessionImplementsLog == Spec => ImplementsLog
<1>1. Init => Log!Init
  BY DEF Init, Log!Init
<1>2. TypeOK /\ Ordered /\ RoundsAreOffers /\ [Next]_vars => [Log!Next]_(Log!vars)
  <2> SUFFICES ASSUME TypeOK, Ordered, RoundsAreOffers, [Next]_vars
               PROVE  [Log!Next]_(Log!vars)
    OBVIOUS
  <2>1. ASSUME NEW m \in Envelope, Takes(m) PROVE Log!Next
    BY <2>1, TakenIsLogged
  <2>2. CASE Quiet
    <3>1. state' = state /\ transcript' = transcript
      BY <2>2 DEF Quiet, record, outcome
    <3> QED
      BY <3>1 DEF Log!vars, LogEntry
  <2>3. CASE Expire
    <3>1. transcript' = transcript
      BY <2>3 DEF Expire, record
    <3>2. Log!Lapse
      BY <2>3, <3>1 DEF Expire, Log!Lapse, LogEntry
    <3> QED
      BY <3>2 DEF Log!Next
  <2>4. CASE MakeDormant
    <3>1. transcript' = transcript
      BY <2>4 DEF MakeDormant, record
    <3>2. Log!Shelve
      BY <2>4, <3>1 DEF MakeDormant, Log!Shelve, LogEntry
    <3> QED
      BY <3>2 DEF Log!Next
  <2> QED
    BY <2>1, <2>2, <2>3, <2>4, StepKinds
<1> QED
  BY <1>1, <1>2, TypeCorrect, OrderKept, RoundsCounted, PTL DEF Spec, ImplementsLog, Log!Spec

(***************************************************************************)
(* The session of the TypeScript SDK                                       *)
(***************************************************************************)

\* TRANSITIONS is the table of session.py.
LEMMA SameTransitions ==
  ASSUME NEW s, NEW k
  PROVE  /\ (\E x \in Transitions : x[1] = s /\ x[2] = k) <=> Legal(s, k)
         /\ \A x \in Transitions : x[2] = k => x[3] = After(k)
<1> DEFINE Stays == {"offer", "counter", "signal", "inquire", "constrain",
                     "propose_mediator", "resolve"}
<1>1. Stays = ActiveKinds \ {"accept", "commit", "reject", "withdraw"}
  BY DEF ActiveKinds, Kinds
<1>2. \A x \in Transitions :
        \/ x \in {<<"proposed", "open", "proposed">>, <<"proposed", "accept_session", "active">>,
                  <<"proposed", "decline_session", "rejected">>, <<"dormant", "offer", "active">>,
                  <<"active", "accept", "agreed">>, <<"active", "commit", "agreed">>,
                  <<"active", "reject", "rejected">>, <<"active", "withdraw", "rejected">>}
        \/ x[1] = "active" /\ x[2] \in Stays /\ x[3] = "active"
  BY DEF Transitions
<1>3. ASSUME NEW x \in Transitions, x[2] = k PROVE x[3] = After(k)
  <2>1. CASE x[2] \in Stays
    <3>1. After(k) = "active" /\ k \notin {"open", "accept_session", "decline_session"}
      BY <1>3, <2>1 DEF After
    <3>2. x[3] = "active"
      BY <1>2, <1>3, <2>1
    <3> QED
      BY <3>1, <3>2
  <2>2. CASE x[2] \notin Stays
    BY <1>2, <1>3, <2>2 DEF After
  <2> QED
    BY <2>1, <2>2
<1>4. ASSUME NEW x \in Transitions PROVE Legal(x[1], x[2])
  BY <1>2 DEF Legal, ActiveKinds, Kinds
<1>5. ASSUME Legal(s, k) PROVE \E x \in Transitions : x[1] = s /\ x[2] = k
  <2>1. CASE s = "active" /\ k \in Stays
    <3>1. <<"active", k, "active">> \in Transitions
      BY <2>1 DEF Transitions
    <3> QED
      BY <2>1, <3>1
  <2>2. /\ <<"proposed", "open", "proposed">> \in Transitions
        /\ <<"proposed", "accept_session", "active">> \in Transitions
        /\ <<"proposed", "decline_session", "rejected">> \in Transitions
        /\ <<"dormant", "offer", "active">> \in Transitions
        /\ <<"active", "accept", "agreed">> \in Transitions
        /\ <<"active", "commit", "agreed">> \in Transitions
        /\ <<"active", "reject", "rejected">> \in Transitions
        /\ <<"active", "withdraw", "rejected">> \in Transitions
    BY DEF Transitions
  <2>3. CASE s = "active" /\ k \in {"accept", "commit", "reject", "withdraw"}
    BY <2>2, <2>3
  <2>4. CASE s = "dormant" /\ k = "offer"
    BY <2>2, <2>4
  <2>5. CASE s = "proposed" /\ k \in {"open", "accept_session", "decline_session"}
    BY <2>2, <2>5
  <2> QED
    BY <1>1, <1>5, <2>1, <2>3, <2>4, <2>5 DEF Legal
<1> QED
  BY <1>3, <1>4, <1>5

\* The SDK accepts what is authentic and legal, and goes where the table says.
LEMMA SdkTable ==
  ASSUME NEW t, NEW m
  PROVE  /\ SdkAccepts(t, m) <=> Authentic(m) /\ Legal(t.state, m.kind)
         /\ SdkAccepts(t, m) => SdkNext(t, m) = After(m.kind)
<1>1. SdkAccepts(t, m) <=> Authentic(m) /\ Legal(t.state, m.kind)
  BY SameTransitions DEF SdkAccepts
<1>2. ASSUME SdkAccepts(t, m) PROVE SdkNext(t, m) = After(m.kind)
  <2> DEFINE P(x) == x \in Transitions /\ x[1] = t.state /\ x[2] = m.kind
  <2>1. PICK y : P(y)
    BY <1>2 DEF SdkAccepts
  <2>2. PICK z : z = CHOOSE x \in Transitions : x[1] = t.state /\ x[2] = m.kind
    OBVIOUS
  <2>3. z \in Transitions /\ z[2] = m.kind
    BY <2>1, <2>2
  <2>4. SdkNext(t, m) = z[3]
    BY <2>2 DEF SdkNext
  <2> QED
    BY <2>3, <2>4, SameTransitions
<1> QED
  BY <1>1, <1>2

\* What the SDK's session is to be.
Same == [state |-> state, transcript |-> transcript, terms |-> terms, rounds |-> roundCount,
         behavior |-> behavior, last |-> lastOffer, concludedAt |-> concludedAt,
         reactivatable |-> reactivatable, fired |-> terminalFired, told |-> reports]

\* trackBehavior comes to what _track_behavior comes to.
LEMMA SameObserved ==
  ASSUME TypeOK, NEW m \in Envelope, NEW t, t.behavior = behavior, t.last = lastOffer
  PROVE  SdkObserved(t, m) = Observed(behavior[m.from], m)
<1> DEFINE b == behavior[m.from]
<1>1. b \in Behaviors /\ m.from \in Agents
  BY DEF TypeOK, Envelope
<1>2. SdkConcedes(t.last[m.from], m.terms) <=> Concedes(lastOffer[m.from], m.terms)
  BY DEF SdkConcedes, Concedes
<1>3. CASE m.kind \in OfferKinds
  <2>1. Observed(b, m) = Offered(b, Concedes(lastOffer[m.from], m.terms))
    BY <1>3 DEF Observed, OfferKinds
  <2>2. SdkObserved(t, m) =
          [b EXCEPT !.offers = @ + 1,
                    !.concessions = IF Concedes(lastOffer[m.from], m.terms) THEN @ + 1 ELSE @]
    BY <1>2, <1>3 DEF SdkObserved
  <2> HIDE DEF b
  <2>3. PICK d : d = [b EXCEPT !.offers = @ + 1]
    OBVIOUS
  <2>4. d \in Behaviors /\ d.concessions = b.concessions
    BY <1>1, <2>3 DEF Behaviors
  <2>5. Observed(b, m) = IF Concedes(lastOffer[m.from], m.terms)
                         THEN [d EXCEPT !.concessions = @ + 1] ELSE d
    BY <2>1, <2>3 DEF Offered
  <2>6. SdkObserved(t, m) = IF Concedes(lastOffer[m.from], m.terms)
                            THEN [d EXCEPT !.concessions = @ + 1]
                            ELSE d
    <3>1. CASE Concedes(lastOffer[m.from], m.terms)
      <4>1. SdkObserved(t, m) = [b EXCEPT !.offers = @ + 1, !.concessions = @ + 1]
        BY <2>2, <3>1
      <4> QED
        BY <1>1, <2>3, <3>1, <4>1 DEF Behaviors
    <3>2. CASE ~Concedes(lastOffer[m.from], m.terms)
      <4>1. SdkObserved(t, m) = [b EXCEPT !.offers = @ + 1, !.concessions = @]
        BY <2>2, <3>2
      <4> QED
        BY <1>1, <2>3, <3>2, <4>1 DEF Behaviors
    <3> QED
      BY <3>1, <3>2
  <2> QED
    BY <2>5, <2>6 DEF b
<1>4. CASE m.kind \notin OfferKinds
  <2>1. CASE m.kind = "signal"
    BY <1>4, <2>1 DEF Observed, SdkObserved, OfferKinds
  <2>2. CASE m.kind = "constrain"
    BY <1>4, <2>2 DEF Observed, SdkObserved, OfferKinds
  <2>3. CASE m.kind = "withdraw"
    BY <1>4, <2>3 DEF Observed, SdkObserved, OfferKinds
  <2>4. CASE m.kind \notin {"signal", "constrain", "withdraw"}
    BY <1>4, <2>4 DEF Observed, SdkObserved, OfferKinds
  <2> QED
    BY <2>1, <2>2, <2>3, <2>4
<1> QED
  BY <1>3, <1>4

\* fireTerminal of a session in state s does what _fire_terminal does.
LEMMA SameFire ==
  ASSUME NEW s, FireTerminal(s), terminalFired \in BOOLEAN, NEW t,
         NEW tr, NEW te, NEW n, NEW b, NEW l, NEW c, NEW re,
         t = [state |-> s, transcript |-> tr, terms |-> te, rounds |-> n,
              behavior |-> b, last |-> l, concludedAt |-> c,
              reactivatable |-> re, fired |-> terminalFired, told |-> reports]
  PROVE  SdkFire(t) =
             [state |-> s, transcript |-> tr, terms |-> te, rounds |-> n,
              behavior |-> b, last |-> l, concludedAt |-> c,
              reactivatable |-> re, fired |-> terminalFired', told |-> reports']
<1>1. t.state = s /\ t.fired = terminalFired /\ t.told = reports
  OBVIOUS
<1>2. CASE callback /\ ~terminalFired
  <2>1. terminalFired' = TRUE /\ reports' = Append(reports, s)
    BY <1>2 DEF FireTerminal
  <2>2. SdkFire(t) = [t EXCEPT !.fired = TRUE, !.told = Append(@, t.state)]
    BY <1>1, <1>2 DEF SdkFire
  <2>3. PICK f, r : f = terminalFired' /\ r = Append(reports, s)
    OBVIOUS
  <2>4. f = TRUE
    BY <2>1, <2>3
  <2>5. [t EXCEPT !.fired = TRUE, !.told = r] = [t EXCEPT !.fired = f, !.told = r]
    BY <2>4
  <2>6. [t EXCEPT !.fired = TRUE, !.told = Append(@, t.state)] = [t EXCEPT !.fired = TRUE, !.told = r]
    BY <1>1, <2>3
  <2>7. SdkFire(t) = [t EXCEPT !.fired = f, !.told = r]
    <3>1. SdkFire(t) = [t EXCEPT !.fired = TRUE, !.told = r]
      BY <2>2, <2>6, Zenon
    <3> QED
      BY <2>5, <3>1, Zenon
  <2>8. [t EXCEPT !.fired = f, !.told = r] =
          [state |-> s, transcript |-> tr, terms |-> te, rounds |-> n,
           behavior |-> b, last |-> l, concludedAt |-> c,
           reactivatable |-> re, fired |-> f, told |-> r]
    <3>1. PICK u : u = [t EXCEPT !.fired = f]
      OBVIOUS
    <3>2. u = [state |-> s, transcript |-> tr, terms |-> te, rounds |-> n, behavior |-> b,
               last |-> l, concludedAt |-> c, reactivatable |-> re, fired |-> f, told |-> reports]
      BY <3>1
    <3>3. [u EXCEPT !.told = r] =
            [state |-> s, transcript |-> tr, terms |-> te, rounds |-> n, behavior |-> b,
             last |-> l, concludedAt |-> c, reactivatable |-> re, fired |-> f, told |-> r]
      BY <3>2
    <3>4. [t EXCEPT !.fired = f, !.told = r] = [u EXCEPT !.told = r]
      BY <3>1
    <3> QED
      BY <3>3, <3>4
  <2>9. f = terminalFired' /\ r = reports'
    BY <2>1, <2>3
  <2> QED
    BY <2>7, <2>8, <2>9
<1>3. CASE ~(callback /\ ~terminalFired)
  <2>1. terminalFired' = terminalFired /\ reports' = reports
    BY <1>3, Zenon DEF FireTerminal
  <2>2. SdkFire(t) = t
    BY <1>1, <1>3 DEF SdkFire
  <2> QED
    BY <2>1, <2>2
<1> QED
  BY <1>2, <1>3

LEMMA SdkTakes ==
  ASSUME TypeOK, TypeOK', twin = Same, NEW m \in Envelope, Takes(m)
  PROVE  Handed = Same'
<1> DEFINE moved == [twin EXCEPT !.transcript = Append(@, m),
                                 !.terms = IF m.kind = "open" THEN m.terms ELSE @,
                                 !.behavior[m.from] = SdkObserved(twin, m),
                                 !.last[m.from] = LastOf(twin, m),
                                 !.rounds = IF m.kind \in OfferKinds THEN @ + 1 ELSE @,
                                 !.state = SdkNext(twin, m)]
           s == After(m.kind)
<1>1. Record(m) /\ Acceptable(m) /\ m.from \in Agents
  BY DEF Takes, Envelope
<1>2. SdkAccepts(twin, m) /\ SdkNext(twin, m) = s
  BY <1>1, SdkTable DEF Acceptable, Same
<1>3. SdkApply(twin, m) = IF s \in {"agreed", "rejected"} /\ s # state
                          THEN SdkConclude(moved) ELSE moved
  <2>1. moved.state = s /\ twin.state = state
    BY <1>2 DEF Same
  <2>2. SdkApply(twin, m) =
          IF ~SdkAccepts(twin, m) THEN twin
          ELSE IF moved.state \in {"agreed", "rejected"} /\ moved.state # twin.state
          THEN SdkConclude(moved) ELSE moved
    BY DEF SdkApply
  <2> HIDE DEF moved, s
  <2> QED
    BY <1>2, <2>1, <2>2
<1>4. moved = [state |-> s, transcript |-> transcript', terms |-> terms',
               rounds |-> roundCount', behavior |-> behavior', last |-> lastOffer',
               concludedAt |-> concludedAt, reactivatable |-> reactivatable,
               fired |-> terminalFired, told |-> reports]
  <2>1. SdkObserved(twin, m) = Observed(behavior[m.from], m)
    BY SameObserved DEF Same
  <2>2. /\ transcript' = Append(transcript, m)
        /\ terms' = IF m.kind = "open" THEN m.terms ELSE terms
        /\ roundCount' = IF m.kind \in OfferKinds THEN roundCount + 1 ELSE roundCount
        /\ behavior' = [behavior EXCEPT ![m.from] = Observed(@, m)]
    BY <1>1 DEF Record, TrackBehavior
  <2>3. lastOffer' = [lastOffer EXCEPT ![m.from] = LastOf(twin, m)]
    BY <1>1 DEF Record, TrackBehavior, LastOf, Same, TypeOK
  <2>4. moved =
          [state |-> SdkNext(twin, m), transcript |-> Append(transcript, m),
           terms |-> IF m.kind = "open" THEN m.terms ELSE terms,
           rounds |-> IF m.kind \in OfferKinds THEN roundCount + 1 ELSE roundCount,
           behavior |-> [behavior EXCEPT ![m.from] = SdkObserved(twin, m)],
           last |-> [lastOffer EXCEPT ![m.from] = LastOf(twin, m)],
           concludedAt |-> concludedAt, reactivatable |-> reactivatable,
           fired |-> terminalFired, told |-> reports]
    <3>1. PICK t, n, l, o, ter, r :
            /\ t = twin /\ n = SdkNext(twin, m) /\ l = LastOf(twin, m) /\ o = SdkObserved(twin, m)
            /\ ter = (IF m.kind = "open" THEN m.terms ELSE terms)
            /\ r = (IF m.kind \in OfferKinds THEN roundCount + 1 ELSE roundCount)
      OBVIOUS
    <3>2. moved = [t EXCEPT !.transcript = Append(@, m), !.terms = ter, !.behavior[m.from] = o,
                            !.last[m.from] = l, !.rounds = r, !.state = n]
      BY <3>1 DEF Same
    <3>3. PICK b, p : b = [behavior EXCEPT ![m.from] = o] /\ p = [lastOffer EXCEPT ![m.from] = l]
      OBVIOUS
    <3>4. moved = [t EXCEPT !.transcript = Append(@, m), !.terms = ter, !.behavior = b,
                            !.last = p, !.rounds = r, !.state = n]
      BY <3>1, <3>2, <3>3 DEF Same
    <3> HIDE DEF moved
    <3>5. moved = [state |-> n, transcript |-> Append(transcript, m), terms |-> ter,
                   rounds |-> r, behavior |-> b, last |-> p,
                   concludedAt |-> concludedAt, reactivatable |-> reactivatable,
                   fired |-> terminalFired, told |-> reports]
      BY <3>1, <3>4 DEF Same
    <3> QED
      BY <3>1, <3>3, <3>5
  <2> HIDE DEF moved, s
  <2> QED
    BY <1>2, <2>1, <2>2, <2>3, <2>4
<1> HIDE DEF moved
<1>5. SdkApply(twin, m) =
        [state |-> s, transcript |-> transcript', terms |-> terms',
         rounds |-> roundCount', behavior |-> behavior', last |-> lastOffer',
         concludedAt |-> concludedAt', reactivatable |-> reactivatable,
         fired |-> terminalFired', told |-> reports']
  <2>1. Conclude(s)
    BY <1>1 DEF Record
  <2>2. CASE s \in {"agreed", "rejected"} /\ s # state
    <3> DEFINE stamped == [moved EXCEPT !.concludedAt = Len(moved.transcript)]
    <3>1. concludedAt' = Len(transcript) + 1 /\ FireTerminal(s)
      BY <2>1, <2>2 DEF Conclude
    <3>2. Len(moved.transcript) = concludedAt'
      BY <1>1, <1>4, <3>1, TranscriptGrows
    <3>3. stamped = [state |-> s, transcript |-> transcript', terms |-> terms',
                     rounds |-> roundCount', behavior |-> behavior', last |-> lastOffer',
                     concludedAt |-> concludedAt', reactivatable |-> reactivatable,
                     fired |-> terminalFired, told |-> reports]
      BY <1>4, <3>2
    <3>4. SdkApply(twin, m) = SdkFire(stamped)
      BY <1>3, <2>2 DEF SdkConclude
    <3> HIDE DEF stamped, s
    <3>5. PICK t : t = stamped
      OBVIOUS
    <3>6. /\ t.transcript = transcript' /\ t.terms = terms' /\ t.rounds = roundCount'
          /\ t.behavior = behavior' /\ t.last = lastOffer' /\ t.concludedAt = concludedAt'
          /\ t.reactivatable = reactivatable
      BY <3>3, <3>5
    <3>7. terminalFired \in BOOLEAN
      BY DEF TypeOK
    <3> QED
      BY <3>1, <3>3, <3>4, <3>5, <3>6, <3>7, SameFire
  <2>3. CASE ~(s \in {"agreed", "rejected"} /\ s # state)
    <3>1. UNCHANGED <<concludedAt, terminalFired, reports>>
      BY <2>1, <2>3, Zenon DEF Conclude
    <3> QED
      BY <1>3, <1>4, <2>3, <3>1
  <2> QED
    BY <2>2, <2>3
<1>6. Handed = IF state' = "dormant" THEN SdkMakeDormant(SdkApply(twin, m)) ELSE SdkApply(twin, m)
  <2>1. transcript' # transcript /\ transcript'[Len(transcript')] = m
    BY <1>1, TranscriptGrows
  <2> QED
    BY <2>1 DEF Handed
<1>7. CASE state' = s /\ UNCHANGED reactivatable
  <2>1. s # "dormant"
    BY AfterTyped
  <2> QED
    BY <1>5, <1>6, <1>7, <2>1 DEF Same
<1>8. CASE state' = "dormant" /\ reactivatable' = TRUE
  <2>1. PICK a, f : a = SdkApply(twin, m) /\ f = reactivatable'
    OBVIOUS
  <2>2. f = TRUE
    BY <1>8, <2>1
  <2>3. Handed = [a EXCEPT !.state = "dormant", !.reactivatable = TRUE]
    BY <1>6, <1>8, <2>1 DEF SdkMakeDormant
  <2>4. [a EXCEPT !.state = "dormant", !.reactivatable = TRUE] =
          [a EXCEPT !.state = "dormant", !.reactivatable = f]
    BY <2>2
  <2>5. Handed = [a EXCEPT !.state = "dormant", !.reactivatable = f]
    BY <2>3, <2>4, Zenon
  <2>6. [a EXCEPT !.state = "dormant", !.reactivatable = f] =
          [state |-> "dormant", transcript |-> transcript', terms |-> terms',
           rounds |-> roundCount', behavior |-> behavior', last |-> lastOffer',
           concludedAt |-> concludedAt', reactivatable |-> f,
           fired |-> terminalFired', told |-> reports']
    <3>1. PICK u : u = [a EXCEPT !.state = "dormant"]
      OBVIOUS
    <3>2. u = [state |-> "dormant", transcript |-> transcript', terms |-> terms',
               rounds |-> roundCount', behavior |-> behavior', last |-> lastOffer',
               concludedAt |-> concludedAt', reactivatable |-> reactivatable,
               fired |-> terminalFired', told |-> reports']
      BY <1>5, <2>1, <3>1
    <3>3. [u EXCEPT !.reactivatable = f] =
            [state |-> "dormant", transcript |-> transcript', terms |-> terms',
             rounds |-> roundCount', behavior |-> behavior', last |-> lastOffer',
             concludedAt |-> concludedAt', reactivatable |-> f,
             fired |-> terminalFired', told |-> reports']
      BY <3>2
    <3>4. [a EXCEPT !.state = "dormant", !.reactivatable = f] = [u EXCEPT !.reactivatable = f]
      BY <3>1
    <3> QED
      BY <3>3, <3>4
  <2>7. state' = "dormant"
    BY <1>8
  <2> QED
    BY <2>1, <2>5, <2>6, <2>7 DEF Same
<1> QED
  BY <1>7, <1>8 DEF Takes

\* Whatever happens to the Python session, the SDK's stands where it stands.
LEMMA SameStays ==
  ASSUME TypeOK, TypeOK', twin = Same, TwinNext \/ UNCHANGED <<vars, twin>>
  PROVE  twin' = Same'
<1>1. CASE UNCHANGED <<vars, twin>>
  BY <1>1 DEF Same, vars, record, outcome
<1>2. CASE TwinNext
  <2>1. twin' = Handed /\ [Next]_vars
    BY <1>2 DEF TwinNext
  <2>2. ASSUME NEW m \in Envelope, Takes(m) PROVE twin' = Same'
    BY <2>1, <2>2, SdkTakes
  <2>3. CASE Quiet
    <3>1. transcript' = transcript /\ state' = state /\ Same' = Same
      BY <2>3 DEF Quiet, Same, record, outcome
    <3> QED
      BY <2>1, <3>1 DEF Handed
  <2>4. CASE Expire
    <3>1. /\ transcript' = transcript /\ state' = "expired" /\ state # "expired"
          /\ concludedAt' = Len(transcript) /\ FireTerminal("expired")
          /\ UNCHANGED <<terms, roundCount, behavior, lastOffer, reactivatable>>
      BY <2>4 DEF Expire, record
    <3>2. PICK u : u = [twin EXCEPT !.state = "expired"]
      OBVIOUS
    <3>3. u = [state |-> "expired", transcript |-> transcript, terms |-> terms,
               rounds |-> roundCount, behavior |-> behavior, last |-> lastOffer,
               concludedAt |-> concludedAt, reactivatable |-> reactivatable,
               fired |-> terminalFired, told |-> reports]
      BY <3>2 DEF Same
    <3>4. PICK t : t = [u EXCEPT !.concludedAt = Len(u.transcript)]
      OBVIOUS
    <3>5. t = [state |-> "expired", transcript |-> transcript, terms |-> terms,
               rounds |-> roundCount, behavior |-> behavior, last |-> lastOffer,
               concludedAt |-> concludedAt', reactivatable |-> reactivatable,
               fired |-> terminalFired, told |-> reports]
      BY <3>1, <3>3, <3>4
    <3>6. Handed = SdkFire(t)
      BY <3>1, <3>2, <3>4 DEF Handed, SdkExpire, SdkConclude
    <3>7. terminalFired \in BOOLEAN
      BY DEF TypeOK
    <3>8. SdkFire(t) = [state |-> "expired", transcript |-> transcript, terms |-> terms,
                        rounds |-> roundCount, behavior |-> behavior, last |-> lastOffer,
                        concludedAt |-> concludedAt', reactivatable |-> reactivatable,
                        fired |-> terminalFired', told |-> reports']
      BY <3>1, <3>5, <3>7, SameFire
    <3> QED
      BY <2>1, <3>1, <3>6, <3>8 DEF Same
  <2>5. CASE MakeDormant
    <3>1. /\ transcript' = transcript /\ state' = "dormant" /\ state # "dormant"
          /\ reactivatable' = TRUE
          /\ UNCHANGED <<terms, roundCount, behavior, lastOffer, concludedAt, terminalFired, reports>>
      BY <2>5 DEF MakeDormant, record
    <3>2. Handed = [twin EXCEPT !.state = "dormant", !.reactivatable = TRUE]
      BY <3>1 DEF Handed, SdkMakeDormant
    <3>3. PICK f : f = reactivatable'
      OBVIOUS
    <3>4. f = TRUE
      BY <3>1, <3>3
    <3>5. [twin EXCEPT !.state = "dormant", !.reactivatable = TRUE] =
            [twin EXCEPT !.state = "dormant", !.reactivatable = f]
      BY <3>4
    <3>6. [twin EXCEPT !.state = "dormant", !.reactivatable = f] =
            [state |-> "dormant", transcript |-> transcript, terms |-> terms,
             rounds |-> roundCount, behavior |-> behavior, last |-> lastOffer,
             concludedAt |-> concludedAt, reactivatable |-> f,
             fired |-> terminalFired, told |-> reports]
      <4>1. PICK u : u = [twin EXCEPT !.state = "dormant"]
        OBVIOUS
      <4>2. u = [state |-> "dormant", transcript |-> transcript, terms |-> terms,
                 rounds |-> roundCount, behavior |-> behavior, last |-> lastOffer,
                 concludedAt |-> concludedAt, reactivatable |-> reactivatable,
                 fired |-> terminalFired, told |-> reports]
        BY <4>1 DEF Same
      <4>3. [u EXCEPT !.reactivatable = f] =
              [state |-> "dormant", transcript |-> transcript, terms |-> terms,
               rounds |-> roundCount, behavior |-> behavior, last |-> lastOffer,
               concludedAt |-> concludedAt, reactivatable |-> f,
               fired |-> terminalFired, told |-> reports]
        BY <4>2
      <4>4. [twin EXCEPT !.state = "dormant", !.reactivatable = f] = [u EXCEPT !.reactivatable = f]
        BY <4>1
      <4> QED
        BY <4>3, <4>4
    <3>7. Handed = [state |-> "dormant", transcript |-> transcript, terms |-> terms,
                    rounds |-> roundCount, behavior |-> behavior, last |-> lastOffer,
                    concludedAt |-> concludedAt, reactivatable |-> f,
                    fired |-> terminalFired, told |-> reports]
      BY <3>2, <3>5, <3>6, Zenon
    <3>8. /\ state' = "dormant"
          /\ UNCHANGED <<transcript, terms, roundCount, behavior, lastOffer, concludedAt,
                         terminalFired, reports>>
      BY <3>1
    <3> QED
      BY <2>1, <3>3, <3>7, <3>8 DEF Same
  <2> QED
    BY <2>1, <2>2, <2>3, <2>4, <2>5, StepKinds
<1> QED
  BY <1>1, <1>2

\* A message that does not chain makes the transcript one that validateChain refuses.
LEMMA ChainValidated ==
  ASSUME TypeOK, NEW m, ValidateChain(Append(transcript, m))
  PROVE  Chains(m)
<1> DEFINE n == Len(transcript)
           longer == Append(transcript, m)
<1>1. /\ n \in Nat /\ n + 1 \in DOMAIN longer /\ longer[n + 1] = m
      /\ n # 0 => longer[n] = transcript[n]
      /\ n = 0 <=> transcript = <<>>
  BY DEF TypeOK
<1>2. longer[n + 1].prev = IF n + 1 = 1 THEN Genesis ELSE Hash(longer[(n + 1) - 1])
  BY <1>1 DEF ValidateChain
<1>3. (n + 1) - 1 = n /\ (n + 1 = 1 <=> n = 0)
  BY <1>1
<1> HIDE DEF longer
<1> QED
  BY <1>1, <1>2, <1>3 DEF Chains, Tip

\* Two implementations in two languages come to the same state, terms, records and reports
\* of every negotiation, and the SDK lets nothing through beyond what its documents own up
\* to: messages of another session and offers beyond the cap.
THEOREM SdkFollowsPython == TwinSpec => []SdkFollows
<1>1. TwinSpec => Spec
  <2>1. TwinInit => Init
    BY DEF TwinInit
  <2>2. [TwinNext]_<<vars, twin>> => [Next]_vars
    BY DEF TwinNext
  <2> QED
    BY <2>1, <2>2, PTL DEF TwinSpec, Spec
<1>2. TwinInit => twin = Same
  BY DEF TwinInit, Init, SdkNew, Same
<1>3. TypeOK /\ TypeOK' /\ twin = Same /\ [TwinNext]_<<vars, twin>> => (twin = Same)'
  BY SameStays
<1>4. TypeOK /\ twin = Same => SdkFollows
  <2> SUFFICES ASSUME TypeOK, twin = Same PROVE SdkFollows
    OBVIOUS
  <2>1. twin.state = state /\ twin.transcript = transcript
    BY DEF Same
  <2>2. ASSUME NEW m \in wire \union Applied, Acceptable(m) PROVE SdkAccepts(twin, m)
    BY <2>1, <2>2, SdkTable DEF Acceptable
  <2>3. ASSUME NEW m \in wire \union Applied, SdkAccepts(twin, m),
               ValidateChain(Append(twin.transcript, m))
        PROVE  Acceptable(m) \/ ~BoundHere(m) \/ ~WithinRounds(m)
    <3>1. Authentic(m) /\ Legal(state, m.kind)
      BY <2>1, <2>3, SdkTable
    <3>2. Chains(m)
      BY <2>1, <2>3, ChainValidated
    <3> QED
      BY <3>1, <3>2 DEF Acceptable
  <2> QED
    BY <2>2, <2>3 DEF SdkFollows, Same
<1> QED
  BY <1>1, <1>2, <1>3, <1>4, TypeCorrect, PTL DEF TwinSpec
=============================================================================
