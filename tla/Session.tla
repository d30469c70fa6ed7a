------------------------------ MODULE Session ------------------------------
(***************************************************************************)
(* One Concordia negotiation session (src/concordia/session.py), the       *)
(* agents that speak in it (agent.py) and the envelopes they exchange      *)
(* (message.py).                                                           *)
(*                                                                         *)
(* An agent builds an envelope on the tip of the transcript it sees.  The  *)
(* envelope either reaches the session at once (Agent._send) or travels:   *)
(* on `wire' it can be delayed, overtaken, spoiled, lost, and delivered    *)
(* again after it was applied.  Envelopes of another session of the same   *)
(* agents, who sign with the same keys, travel on the same wire.           *)
(*                                                                         *)
(* The bodies of messages are mappings, as the agents build them: then     *)
(* everything apply_message refuses it refuses before it changes anything, *)
(* so a refusal is the absence of a step.                                  *)
(***************************************************************************)
EXTENDS Integers, Sequences, FiniteSets

CONSTANTS
  Agents,       \* the agents that may take part
  Initiator,    \* the one that opens the session
  Sid,          \* this session's identifier
  OtherSid,     \* another session between the same agents
  Values,       \* what an offer can propose: the value of one numeric term
  NoTerms,      \* the terms of a message that carries none
  MaxRounds,    \* timing.max_rounds
  MaxMessages,  \* bound: envelopes ever built
  MaxWire,      \* bound: envelopes travelling at a time
  Speech        \* bound: the message kinds agents use in this instance

Kinds == {"open", "accept_session", "decline_session", "offer", "counter",
          "accept", "reject", "inquire", "constrain", "signal", "withdraw",
          "propose_mediator", "resolve", "commit"}

OfferKinds == {"offer", "counter"}

ASSUME SessionAssumption ==
  /\ Initiator \in Agents
  /\ Sid # OtherSid
  /\ Values \subseteq Int
  /\ NoTerms \notin Values
  /\ MaxRounds \in Nat
  /\ MaxMessages \in Nat
  /\ MaxWire \in Nat
  /\ Speech \subseteq Kinds

VARIABLES
  state,          \* SessionState
  transcript,     \* the envelopes applied, oldest first
  terms,          \* _terms: the terms of the opening message
  roundCount,     \* offers and counters so far
  parties,        \* agent -> role, "none" when not a party
  behavior,       \* agent -> BehaviorRecord
  lastOffer,      \* agent -> terms of its last offer that had any
  concludedAt,    \* length of the transcript at the last conclusion, -1 for None
  reactivatable,
  callback,       \* an on_terminal callback is attached
  terminalFired,  \* _terminal_fired
  reports,        \* history: the states the callback was told, oldest first
  wire,           \* envelopes built and not yet applied
  built           \* how many envelopes were built: the last identity used

record == <<transcript, terms, roundCount, behavior, lastOffer>>
outcome == <<state, concludedAt, reactivatable, terminalFired, reports>>
vars == <<record, outcome, parties, callback, wire, built>>

(***************************************************************************)
(* Envelopes                                                               *)
(***************************************************************************)

\* The hash of an envelope is abstracted by its identity: equal hashes, equal
\* envelopes.  No envelope has the identity Genesis.
Genesis == 0
Hash(m) == m.id

Tip(t) == IF t = <<>> THEN Genesis ELSE Hash(t[Len(t)])

Envelope == [id : 1..MaxMessages, kind : Kinds, from : Agents,
             session : {Sid, OtherSid}, prev : 0..MaxMessages,
             terms : Values \union {NoTerms}, intact : BOOLEAN]

\* What agent a signs when it builds its next envelope on the tip it sees.
Build(a, k, v) ==
  [id |-> built + 1, kind |-> k, from |-> a, session |-> Sid,
   prev |-> Tip(transcript), terms |-> v, intact |-> TRUE]

\* Only the messages that propose terms carry any.
Payload(k) ==
  IF k \in OfferKinds \union {"open"} THEN Values \union {NoTerms} ELSE {NoTerms}

(***************************************************************************)
(* The transition table                                                    *)
(***************************************************************************)

ActiveKinds == Kinds \ {"open", "accept_session", "decline_session"}

\* Fault: an agreement still listens to a commit.
LegalAfterAgreement(s, k) ==
  \/ s = "proposed" /\ k \in {"open", "accept_session", "decline_session"}
  \/ s = "active"   /\ k \in ActiveKinds
  \/ s = "dormant"  /\ k = "offer"
  \/ s = "agreed"   /\ k \in {"accept", "commit"}

Legal(s, k) ==
  \/ s = "proposed" /\ k \in {"open", "accept_session", "decline_session"}
  \/ s = "active"   /\ k \in ActiveKinds
  \/ s = "dormant"  /\ k = "offer"

\* Where a legal message leads.
After(k) ==
  CASE k = "open"                                      -> "proposed"
    [] k \in {"accept", "commit"}                      -> "agreed"
    [] k \in {"reject", "withdraw", "decline_session"} -> "rejected"
    [] OTHER                                           -> "active"

Terminal == {"agreed", "rejected", "expired"}

(***************************************************************************)
(* apply_message                                                           *)
(***************************************************************************)

\* The resolver knows the keys of the parties; the signature verifies.
Authentic(m) == parties[m.from] # "none" /\ m.intact

\* Fault: no session binding.
BoundAnywhere(m) == TRUE

BoundHere(m) == m.session = Sid

\* Faults: no chain check; one that lets every first message of a chain through.
ChainsUnchecked(m) == TRUE
ChainsOrStarts(m) == m.prev \in {Genesis, Tip(transcript)}

Chains(m) == m.prev = Tip(transcript)

\* Faults: the limit is off by one; the limit holds for every kind.
WithinRoundsPlusOne(m) == m.kind \in OfferKinds => roundCount <= MaxRounds
AllWithinRounds(m) == roundCount < MaxRounds

WithinRounds(m) == m.kind \in OfferKinds => roundCount < MaxRounds

Acceptable(m) ==
  /\ Authentic(m)
  /\ BoundHere(m)
  /\ Chains(m)
  /\ Legal(state, m.kind)
  /\ WithinRounds(m)

\* Fault: a movement away from zero counts.
ConcedesFromZero(old, new) == old \in Values /\ new \in Values /\ new # old

\* _compute_concession is positive: the value moved, and not away from zero,
\* by which the movement would be divided.
Concedes(old, new) == old \in Values /\ new \in Values /\ old # 0 /\ new # old

\* One more offer in record b, and with it one more concession if it conceded.
Offered(b, conceded) ==
  LET counted == [b EXCEPT !.offers = @ + 1] IN
  IF conceded THEN [counted EXCEPT !.concessions = @ + 1] ELSE counted

\* _track_behavior: the sender's record after message m.
Observed(b, m) ==
  CASE m.kind \in OfferKinds -> Offered(b, Concedes(lastOffer[m.from], m.terms))
    [] m.kind = "signal"    -> [b EXCEPT !.signals = @ + 1]
    [] m.kind = "constrain" -> [b EXCEPT !.constraints = @ + 1]
    [] m.kind = "withdraw"  -> [b EXCEPT !.withdrawal = TRUE]
    [] OTHER                -> b

TrackBehavior(m) ==
  /\ behavior' = [behavior EXCEPT ![m.from] = Observed(@, m)]
  /\ roundCount' = IF m.kind \in OfferKinds THEN roundCount + 1 ELSE roundCount
  /\ lastOffer' = IF m.kind \in OfferKinds /\ m.terms # NoTerms
                  THEN [lastOffer EXCEPT ![m.from] = m.terms] ELSE lastOffer

\* Faults: the callback runs before the state changes; it runs at every conclusion.
FireTerminalEarly(s) ==
  IF callback /\ ~terminalFired
  THEN terminalFired' = TRUE /\ reports' = Append(reports, state)
  ELSE UNCHANGED <<terminalFired, reports>>

FireTerminalAgain(s) ==
  IF callback
  THEN terminalFired' = TRUE /\ reports' = Append(reports, s)
  ELSE UNCHANGED <<terminalFired, reports>>

\* _fire_terminal, told the state s.
FireTerminal(s) ==
  IF callback /\ ~terminalFired
  THEN terminalFired' = TRUE /\ reports' = Append(reports, s)
  ELSE UNCHANGED <<terminalFired, reports>>

\* Fault: only the first conclusion is stamped.
ConcludeOnce(s) ==
  IF s \in {"agreed", "rejected"} /\ s # state
  THEN /\ concludedAt' = IF concludedAt = -1 THEN Len(transcript) + 1 ELSE concludedAt
       /\ FireTerminal(s)
  ELSE UNCHANGED <<concludedAt, terminalFired, reports>>

Conclude(s) ==
  IF s \in {"agreed", "rejected"} /\ s # state
  THEN concludedAt' = Len(transcript) + 1 /\ FireTerminal(s)
  ELSE UNCHANGED <<concludedAt, terminalFired, reports>>

\* What apply_message does to all but the state of an acceptable m.
Record(m) ==
  /\ transcript' = Append(transcript, m)
  /\ terms' = IF m.kind = "open" THEN m.terms ELSE terms
  /\ TrackBehavior(m)
  /\ Conclude(After(m.kind))

Apply(m) ==
  /\ Acceptable(m)
  /\ Record(m)
  /\ state' = After(m.kind)
  /\ UNCHANGED reactivatable

(***************************************************************************)
(* The agents                                                              *)
(***************************************************************************)

NoBehavior == [offers |-> 0, concessions |-> 0, signals |-> 0,
               constraints |-> 0, withdrawal |-> FALSE]

\* Agent.open_session up to its _send: a new session, with its initiator.
Init ==
  /\ state = "proposed"
  /\ transcript = <<>>
  /\ terms = NoTerms
  /\ roundCount = 0
  /\ parties = [a \in Agents |-> IF a = Initiator THEN "initiator" ELSE "none"]
  /\ behavior = [a \in Agents |-> NoBehavior]
  /\ lastOffer = [a \in Agents |-> NoTerms]
  /\ concludedAt = -1
  /\ reactivatable = FALSE
  /\ callback \in BOOLEAN
  /\ terminalFired = FALSE
  /\ reports = <<>>
  /\ wire = {}
  /\ built = 0

\* Agent.join_session: whoever joins does so as the responder.
Join(a) ==
  /\ parties' = [parties EXCEPT ![a] = "responder"]
  /\ UNCHANGED <<record, outcome, callback, wire, built>>

Fresh == built < MaxMessages /\ built' = built + 1

\* Agent._send: build on the tip and apply, in one go.
Send(a, k, v) ==
  /\ Fresh
  /\ Apply(Build(a, k, v))
  /\ UNCHANGED <<parties, callback, wire>>

\* Agent.withdraw(reactivatable=True): the session is made dormant in the same call.
WithdrawReactivatable(a) ==
  LET m == Build(a, "withdraw", NoTerms) IN
  /\ Fresh
  /\ Acceptable(m)
  /\ Record(m)
  /\ state' = "dormant"
  /\ reactivatable' = TRUE
  /\ UNCHANGED <<parties, callback, wire>>

\* build_envelope by an agent that hands the envelope to a transport.
Post(m) == Cardinality(wire) < MaxWire /\ wire' = wire \union {m}

Mail(a, k, v) ==
  /\ Fresh
  /\ Post(Build(a, k, v))
  /\ UNCHANGED <<record, outcome, parties, callback>>

\* The same agent, in the other session, whose first message is built on Genesis too.
MailElsewhere(a, k, v) ==
  /\ Fresh
  /\ Post([Build(a, k, v) EXCEPT !.session = OtherSid, !.prev = Genesis])
  /\ UNCHANGED <<record, outcome, parties, callback>>

(***************************************************************************)
(* The transport                                                           *)
(***************************************************************************)

\* An envelope arrives: one that travels, or once more one that was applied.
Deliver(m) ==
  /\ Apply(m)
  /\ wire' = wire \ {m}
  /\ UNCHANGED <<parties, callback, built>>

Lose(m) ==
  /\ wire' = wire \ {m}
  /\ UNCHANGED <<record, outcome, parties, callback, built>>

\* The content no longer matches the signature.
Spoil(m) ==
  /\ wire' = (wire \ {m}) \union {[m EXCEPT !.intact = FALSE]}
  /\ UNCHANGED <<record, outcome, parties, callback, built>>

(***************************************************************************)
(* The host application                                                    *)
(***************************************************************************)

\* Session.expire, called when the host finds the TTL elapsed.
Expire ==
  /\ state \in {"proposed", "active"}
  /\ state' = "expired"
  /\ concludedAt' = Len(transcript)
  /\ FireTerminal("expired")
  /\ UNCHANGED <<record, reactivatable, parties, callback, wire, built>>

\* Fault: any terminal session can be put aside.
MakeAnyDormant ==
  /\ state \in Terminal
  /\ state' = "dormant"
  /\ reactivatable' = TRUE
  /\ UNCHANGED <<record, concludedAt, terminalFired, reports,
                 parties, callback, wire, built>>

\* Session.make_dormant
MakeDormant ==
  /\ state \in {"rejected", "expired"}
  /\ state' = "dormant"
  /\ reactivatable' = TRUE
  /\ UNCHANGED <<record, concludedAt, terminalFired, reports,
                 parties, callback, wire, built>>

Applied == {transcript[i] : i \in DOMAIN transcript}

Next ==
  \/ \E a \in Agents : Join(a)
  \/ \E a \in Agents, k \in Speech : \E v \in Payload(k) :
        \/ Send(a, k, v)
        \/ Mail(a, k, v)
        \/ MailElsewhere(a, k, v)
  \/ \E a \in Agents : WithdrawReactivatable(a)
  \/ \E m \in wire \union Applied : Deliver(m)
  \/ \E m \in wire : Lose(m) \/ Spoil(m)
  \/ Expire
  \/ MakeDormant

Spec == Init /\ [][Next]_vars

(***************************************************************************)
(* Properties                                                              *)
(***************************************************************************)

Behaviors == [offers : Nat, concessions : Nat, signals : Nat,
              constraints : Nat, withdrawal : BOOLEAN]

States == Terminal \union {"proposed", "active", "dormant"}

\* Every variable has the type its attribute has in session.py.
TypeOK ==
  /\ state \in States
  /\ transcript \in Seq(Envelope)
  /\ terms \in Values \union {NoTerms}
  /\ roundCount \in Nat
  /\ parties \in [Agents -> {"initiator", "responder", "none"}]
  /\ behavior \in [Agents -> Behaviors]
  /\ lastOffer \in [Agents -> Values \union {NoTerms}]
  /\ concludedAt \in Int
  /\ reactivatable \in BOOLEAN
  /\ callback \in BOOLEAN
  /\ terminalFired \in BOOLEAN
  /\ reports \in Seq(Terminal)
  /\ wire \in SUBSET Envelope
  /\ built \in 0..MaxMessages

Positions == DOMAIN transcript

\* apply_message keeps what message.validate_chain checks of a whole transcript: each
\* envelope was built on the one before it, so its sender had seen all the earlier
\* ones, however late it arrived and whatever overtook it.
ChainedTranscript ==
  \A i \in Positions :
    transcript[i].prev = IF i = 1 THEN Genesis ELSE Hash(transcript[i - 1])

\* No envelope is applied twice, although a copy can arrive at any time and
\* apply_message remembers no identities: the chain tip alone must exclude it.
AppliedOnce ==
  \A i, j \in Positions : transcript[i].id = transcript[j].id => i = j

\* What was applied was signed for this session by one of its parties; nothing that
\* travelled for another session of the same agents was.
OwnTranscript ==
  \A i \in Positions :
    LET m == transcript[i] IN
    m.session = Sid /\ m.intact /\ parties[m.from] # "none"

\* The round counter is the number of offers in the transcript, whoever made them and
\* however often the session was reopened, and stays within max_rounds.
Offers == {i \in Positions : transcript[i].kind \in OfferKinds}

RoundsAreOffers == roundCount = Cardinality(Offers) /\ roundCount <= MaxRounds

\* An accept or a commit is the last message of the transcript of an agreed session, and
\* an agreed session has one: SPEC 5.1 calls the state terminal and immutable.
AgreementCloses ==
  /\ \A i \in Positions :
       transcript[i].kind \in {"accept", "commit"} =>
         state = "agreed" /\ i = Len(transcript)
  /\ state = "agreed" =>
       transcript # <<>> /\ transcript[Len(transcript)].kind \in {"accept", "commit"}

\* No step leads out of an agreement or touches what was agreed on.
AgreedIsFinal == [][state = "agreed" => UNCHANGED <<record, outcome>>]_vars

\* An active session can always be concluded, even with its offers used up (the comment
\* on max_rounds in apply_message): every party can still accept, reject or commit.
AlwaysConcludable ==
  state = "active" =>
    \A a \in Agents, k \in {"accept", "reject", "withdraw", "commit"} :
      parties[a] # "none" => Acceptable(Build(a, k, NoTerms))

\* The callback is told the first conclusion and only that: never twice, never a state
\* that was not terminal, and not later than the conclusion, through expiry, dormancy,
\* reopening and a second conclusion.
ReportedOnce ==
  /\ Len(reports) = IF callback /\ concludedAt # -1 THEN 1 ELSE 0
  /\ Len(reports) = 1 => terminalFired /\ reports[1] \in Terminal
  /\ reports = <<"agreed">> => state = "agreed"

\* A session at rest was stamped by the conclusion that put it there, not by an earlier
\* one it was reopened from.
ConclusionStamped ==
  state \in Terminal \union {"dormant"} => concludedAt = Len(transcript)

\* SPEC 5.4: what is recorded of a party follows from the signed transcript.
By(a, ks) == {i \in Positions : transcript[i].from = a /\ transcript[i].kind \in ks}

\* The last offer of a before position i that carried terms.
Earlier(a, i) == {j \in By(a, OfferKinds) : j < i /\ transcript[j].terms # NoTerms}

ConcededAt(a) ==
  {i \in By(a, OfferKinds) :
     \E j \in Earlier(a, i) :
       /\ \A l \in Earlier(a, i) : l <= j
       /\ transcript[j].terms # 0
       /\ transcript[i].terms \notin {NoTerms, transcript[j].terms}}

BehaviorFollowsTranscript ==
  \A a \in Agents :
    behavior[a] = [offers      |-> Cardinality(By(a, OfferKinds)),
                   concessions |-> Cardinality(ConcededAt(a)),
                   signals     |-> Cardinality(By(a, {"signal"})),
                   constraints |-> Cardinality(By(a, {"constrain"})),
                   withdrawal  |-> By(a, {"withdraw"}) # {}]

(***************************************************************************)
(* The session is a negotiation log                                        *)
(***************************************************************************)

LogEntry(m) == [id |-> m.id, kind |-> m.kind, from |-> m.from]

Log == INSTANCE NegotiationLog
  WITH status <- state,
       log <- [i \in DOMAIN transcript |-> LogEntry(transcript[i])],
       Ids <- 1..MaxMessages

\* The session, with its late and repeated envelopes, implements the log in which every
\* message is taken once.
ImplementsLog == Log!Spec

(***************************************************************************)
(* What the documents say and the code does not do                         *)
(***************************************************************************)

\* SPEC.md 5.1: "Dormant sessions can be reactivated with a new negotiate.offer message."
DormantCanReopen ==
  state = "dormant" =>
    \E a \in Agents : Acceptable(Build(a, "offer", NoTerms))

\* SPEC.md 5.2: ACTIVE to AGREED takes "negotiate.accept from all parties".
AgreedByAll ==
  state = "agreed" =>
    \A a \in Agents : parties[a] # "none" => By(a, {"accept", "commit"}) # {}
=============================================================================
