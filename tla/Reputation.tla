----------------------------- MODULE Reputation -----------------------------
(***************************************************************************)
(* The reputation service (src/concordia/reputation): the store validates, *)
(* deduplicates, screens and indexes attestations (store.py), the scorer   *)
(* reads them back by agent (scorer.py) and the query handler answers      *)
(* (query.py).                                                             *)
(*                                                                         *)
(* Attestations come in any order; what an attestation is flagged for      *)
(* depends on those that came before.  Scores are in ten-thousandths,      *)
(* rounded down at each division.                                          *)
(***************************************************************************)
EXTENDS Integers, FiniteSets, SequencesExt

CONSTANTS
  Agents,          \* agent ids
  Known,           \* the agents whose key the resolver has
  Submissions,     \* the attestations that clients submit
  None,            \* no filter, no key, a field that is not there or empty
  Bad,             \* a value outside the domain of its field
  LoopHistory,     \* CLOSED_LOOP_MIN_HISTORY
  MaxAttestations  \* AttestationStore.MAX_ATTESTATIONS

ASSUME ReputationAssumption ==
  /\ Known \subseteq Agents
  /\ LoopHistory \in Nat \ {0} /\ MaxAttestations \in Nat
  /\ \A att \in Submissions : att.parties \in Seq(Range(att.parties))

VARIABLES
  byId,            \* _by_id, oldest first: the attestation with its signals
  bySession,       \* _by_session: the sessions that have one
  byAgent,         \* _by_agent: agent -> ids
  counterparties   \* _counterparties: agent -> agents

vars == <<byId, bySession, byAgent, counterparties>>

Whole == 10000

-----------------------------------------------------------------------------
(* The store *)

Statuses == {"agreed", "rejected", "expired", "withdrawn"}

\* _validate_behavior.
BehaviorHolds(p) == p.magnitude # Bad /\ p.magnitude \in 0..Whole /\ p.offers # Bad /\ p.offers >= 0

\* _validate: a party signs its own record, not the outcome.  A status may be empty, and a
\* role is any value or empty: only that the fields are there is looked at.
Valid(att) ==
  /\ att.complete
  /\ att.status \in Statuses \union {None}
  /\ att.rounds # Bad /\ att.rounds >= 0
  /\ Len(att.parties) >= 2
  /\ \A i \in DOMAIN att.parties :
       LET p == att.parties[i] IN BehaviorHolds(p) /\ p.agent \in Known /\ p.signed

\* Fault: only the attestation's own identifier tells duplicates.
NewById(att) == \A i \in DOMAIN byId : byId[i].att.id # att.id

New(att) == (\A i \in DOMAIN byId : byId[i].att.id # att.id) /\ att.sid \notin bySession

AgentCount(a) == Len(byAgent[a])

\* The sides of an attestation that an agent is on.
Sides(att, a) == {i \in DOMAIN att.parties : att.parties[i].agent = a}

\* Fault: it takes one side to deal with the other only.
ClosedLoopOneSided(att) ==
  /\ Len(att.parties) = 2
  /\ LET a == att.parties[1].agent
         b == att.parties[2].agent
     IN a # b /\ counterparties[a] = {b} /\ AgentCount(a) >= LoopHistory

\* Two agents that have dealt with each other only, and often enough.
ClosedLoop(att) ==
  /\ Len(att.parties) = 2
  /\ LET a == att.parties[1].agent
         b == att.parties[2].agent
     IN /\ a # b
        /\ counterparties[a] = {b} /\ counterparties[b] = {a}
        /\ AgentCount(a) >= LoopHistory /\ AgentCount(b) >= LoopHistory

SelfDealing(att) == att.parties[1].agent = att.parties[2].agent

Symmetric(att) ==
  att.parties[1].magnitude = att.parties[2].magnitude /\ att.parties[1].magnitude > 0

\* SybilSignals.check: flagged, not refused.
Check(att) ==
  {s \in {"self_dealing", "suspiciously_fast", "symmetric_concessions", "closed_loop"} :
     CASE s = "self_dealing"          -> SelfDealing(att)
       [] s = "suspiciously_fast"     -> att.duration < 5
       [] s = "symmetric_concessions" -> Symmetric(att)
       [] s = "closed_loop"           -> ClosedLoop(att)}

\* Whom an agent on one side of an attestation meets on the others, be it itself.
Opposite(att, a) ==
  {att.parties[j].agent : j \in {k \in DOMAIN att.parties : Sides(att, a) \ {k} # {}}}

\* AttestationStore.ingest: the agent index has an entry for each side.
Ingest(att) ==
  /\ Valid(att)
  /\ New(att)
  /\ Len(byId) < MaxAttestations
  /\ byId' = Append(byId, [att |-> att, signals |-> Check(att)])
  /\ bySession' = bySession \union {att.sid}
  /\ byAgent' = [a \in Agents |->
       byAgent[a] \o [i \in 1..Cardinality(Sides(att, a)) |-> att.id]]
  /\ counterparties' = [a \in Agents |-> counterparties[a] \union Opposite(att, a)]

Init ==
  /\ byId = <<>>
  /\ bySession = {}
  /\ byAgent = [a \in Agents |-> <<>>]
  /\ counterparties = [a \in Agents |-> {}]

Next == \E att \in Submissions : Ingest(att)

Spec == Init /\ [][Next]_vars

-----------------------------------------------------------------------------
(* The scorer *)

\* get, get_by_agent.
Get(id) == byId[CHOOSE i \in DOMAIN byId : byId[i].att.id = id]
GetByAgent(a) == [i \in DOMAIN byAgent[a] |-> Get(byAgent[a][i])]

HadRole(r, a, role) ==
  \E i \in DOMAIN r.att.parties : r.att.parties[i].agent = a /\ r.att.parties[i].role = role

\* A category is one with all that begin like it.
Passes(r, a, q) ==
  /\ q.category # None => IsPrefix(q.category, r.att.category)
  /\ q.range # None => r.att.range = q.range
  /\ q.role # None => HadRole(r, a, q.role)

\* _filter: what passes, in its order; the k-th is that with k of them up to it.
Filter(rs, a, q) ==
  LET kept == {i \in DOMAIN rs : Passes(rs[i], a, q)}
  IN [k \in 1..Cardinality(kept) |-> rs[CHOOSE i \in kept : Cardinality({j \in kept : j <= i}) = k]]

Total(s) == FoldSeq(LAMBDA x, y : x + y, 0, s)
Agreements(rs) == {i \in DOMAIN rs : rs[i].att.status = "agreed"}

\* What a itself did in each of them, once for each side it is on.
Own(rs, a) ==
  FlattenSeq([i \in DOMAIN rs |-> SelectSeq(rs[i].att.parties, LAMBDA p : p.agent = a)])

Others(rs, a) ==
  (UNION {{rs[i].att.parties[j].agent : j \in DOMAIN rs[i].att.parties} : i \in DOMAIN rs}) \ {a}

MedianRounds(rs) ==
  LET agreed == SelectSeq(rs, LAMBDA r : r.att.status = "agreed")
      sorted == SortSeq([i \in DOMAIN agreed |-> agreed[i].att.rounds], <)
  IN IF sorted = <<>> THEN 0 ELSE sorted[(Len(sorted) \div 2) + 1]

\* _extract_signals.
ExtractSignals(rs, a) ==
  LET own == Own(rs, a)
      applicable == {i \in Agreements(rs) : rs[i].att.fulfillment # None}
  IN [total        |-> Len(rs),
      agreements   |-> Cardinality(Agreements(rs)),
      applicable   |-> Cardinality(applicable),
      fulfilled    |-> Cardinality({i \in applicable : rs[i].att.fulfillment = "fulfilled"}),
      reasoned     |-> Cardinality({i \in DOMAIN own : own[i].reasoned}),
      magnitudes   |-> [i \in DOMAIN own |-> own[i].magnitude],
      offers       |-> [i \in DOMAIN own |-> own[i].offers],
      median       |-> MedianRounds(rs),
      categories   |-> {rs[i].att.category : i \in DOMAIN rs} \ {<<>>},
      others       |-> Cardinality(Others(rs, a)),
      flagged      |-> Cardinality({i \in DOMAIN rs : rs[i].signals # {}})]

Capped(x) == IF x > Whole THEN Whole ELSE IF x < 0 THEN 0 ELSE x

\* Moderate concessions are best.
ConcessionScore(avg) ==
  Capped(IF avg <= 3000 THEN (avg * Whole) \div 3000 ELSE Whole - ((avg - 3000) \div 2))

\* The square root, rounded down.
Root[x \in Nat] == CHOOSE r \in 0..x : r * r <= x /\ x < (r + 1) * (r + 1)

\* One over one more than the standard deviation of the offers, in hundredths.
Consistency(offers) ==
  LET n == Len(offers)
      spread == (n * Total([i \in 1..n |-> offers[i] * offers[i]])) - (Total(offers) * Total(offers))
  IN IF n < 2 THEN Whole \div 2 ELSE (100 * Whole) \div (100 + (Root[spread * 10000] \div n))

Responsiveness(offers) ==
  LET avg == (Total(offers) * Whole) \div Len(offers)
  IN IF avg <= 5 * Whole
     THEN Capped(avg \div 3)
     ELSE LET less == Whole - ((avg - (5 * Whole)) \div 10)
          IN IF less < Whole \div 2 THEN Whole \div 2 ELSE less

\* _compute_components, of at least one attestation.
Components(s) ==
  [agreement      |-> (s.agreements * Whole) \div s.total,
   concession     |-> ConcessionScore(Total(s.magnitudes) \div Len(s.magnitudes)),
   fulfillment    |-> IF s.applicable = 0 THEN Whole ELSE (s.fulfilled * Whole) \div s.applicable,
   reasoning      |-> (s.reasoned * Whole) \div s.total,
   consistency    |-> Consistency(s.offers),
   responsiveness |-> Responsiveness(s.offers)]

\* DEFAULT_WEIGHTS, in hundredths.
Overall(c) ==
  Capped(((25 * c.agreement) + (15 * c.concession) + (25 * c.fulfillment) + (10 * c.reasoning)
            + (10 * c.consistency) + (15 * c.responsiveness)) \div 100)

\* ln(1 + n) / ln(51) and ln(1 + n) / ln(21), which are at most one.
Volumes ==
  <<0, 1763, 2794, 3526, 4093, 4557, 4949, 5289, 5588, 5856, 6099, 6320, 6524,
    6712, 6888, 7052, 7206, 7351, 7489, 7619, 7743, 7862, 7975, 8083, 8187, 8286,
    8382, 8475, 8564, 8650, 8734, 8815, 8893, 8969, 9042, 9114, 9184, 9252, 9318,
    9382, 9445, 9506, 9566, 9625, 9682, 9738, 9792, 9846, 9898, 9950>>
Diversities ==
  <<0, 2277, 3608, 4553, 5286, 5885, 6392, 6830, 7217, 7563, 7876, 8162, 8425,
    8668, 8895, 9107, 9306, 9494, 9671, 9840>>
Volume(n) == IF n >= Len(Volumes) THEN Whole ELSE Volumes[n + 1]
Diversity(n) == IF n >= Len(Diversities) THEN Whole ELSE Diversities[n + 1]

\* Fault: it is the share of different counterparties that counts.
ConfidenceShare(s) == Capped(((6 * Volume(s.total)) + ((4 * Whole * s.others) \div s.total)) \div 10)

\* _compute_confidence.
Confidence(s) == Capped(((6 * Volume(s.total)) + (4 * Diversity(s.others))) \div 10)

\* What the records rs say of a: flags cost up to half the score and three tenths of the
\* confidence.
ScoreOf(rs, a) ==
  LET s == ExtractSignals(rs, a)
      overall == Overall(Components(s))
  IN IF rs = <<>> THEN None
     ELSE [overall    |-> overall - ((overall * s.flagged) \div (2 * s.total)),
           confidence |-> Confidence(s) - ((Confidence(s) * 3 * s.flagged) \div (10 * s.total)),
           components |-> Components(s),
           signals    |-> s]

Score(a, q) == ScoreOf(Filter(GetByAgent(a), a, q), a)

-----------------------------------------------------------------------------
(* The query handler *)

Anything == [category |-> None, range |-> None, role |-> None]

\* _compute_flags.
Flags(score) ==
  LET s == score.signals
      c == score.components
  IN {f \in {"new_agent", "low_confidence", "sybil_signals_detected", "low_fulfillment", "low_agreement_rate"} :
        CASE f = "new_agent"              -> s.total < 5
          [] f = "low_confidence"         -> score.confidence < 3000
          [] f = "sybil_signals_detected" -> s.flagged > 0
          [] f = "low_fulfillment"        -> c.fulfillment < 8000 /\ s.agreements > 0
          [] f = "low_agreement_rate"     -> c.agreement < 3000 /\ s.total >= 5}

\* _context_specific: a score for each filter by itself.
ContextSpecific(a, q) ==
  [f \in {g \in DOMAIN q : q[g] # None} |-> Score(a, [Anything EXCEPT ![f] = q[f]])]

\* _attestation_time_range, over all of the agent's.
TimeRange(a) == {GetByAgent(a)[i].att.time : i \in DOMAIN byAgent[a]}

\* handle, of a query that is well formed.
Handle(a, q) ==
  LET rs == Filter(GetByAgent(a), a, q)
      score == ScoreOf(rs, a)
  IN IF rs = <<>>
     THEN [score |-> None, context |-> <<>>, flags |-> {"new_agent", "no_data"}, count |-> 0, times |-> {}]
     ELSE [score |-> score, context |-> ContextSpecific(a, q), flags |-> Flags(score),
           count |-> score.signals.total, times |-> TimeRange(a)]

-----------------------------------------------------------------------------
(* Properties *)

Stored == {byId[i].att : i \in DOMAIN byId}
Involving(a) == {att \in Stored : Sides(att, a) # {}}
DealsWithItself(a) == \E att \in Stored : Cardinality(Sides(att, a)) > 1

\* The roles in use, whatever they are called, share an agent's record out between them: each
\* session it was in is counted once, under the role it had there and no other, whatever came
\* twice, under another id, or was refused; without a filter all are counted, those where its
\* role was left empty too.
RolesInUse == (UNION {{att.parties[i].role : i \in DOMAIN att.parties} : att \in Stored}) \ {None}

SessionsOf(a) == {att.sid : att \in Involving(a)}
SessionsAs(a, role) ==
  {att.sid : att \in {x \in Involving(a) : \E i \in Sides(x, a) : x.parties[i].role = role}}

EachSessionCountsOnce ==
  \A a \in Agents :
    ~DealsWithItself(a) =>
      /\ Handle(a, Anything).count = Cardinality(SessionsOf(a))
      /\ \A role \in RolesInUse :
           Handle(a, [Anything EXCEPT !.role = role]).count = Cardinality(SessionsAs(a, role))
      /\ \A role, other \in RolesInUse \union {None} :
           SessionsAs(a, role) \intersect SessionsAs(a, other) # {} => role = other

\* When two agents have only ever dealt with each other, each on one side, every attestation
\* of theirs after the first LoopHistory is flagged, in whichever order they came; and a loop
\* is never seen where one of the two had dealt with somebody else, or with itself, before.
Before(i) == {byId[j].att : j \in 1..(i - 1)}
Pair(att) == {att.parties[j].agent : j \in DOMAIN att.parties}

LoopsAreFlagged ==
  \A i \in DOMAIN byId :
    LET pair == Pair(byId[i].att)
        touching == {att \in Before(i) : Pair(att) \intersect pair # {}}
    IN Len(byId[i].att.parties) = 2 /\ Cardinality(pair) = 2 =>
         ("closed_loop" \in byId[i].signals <=>
            /\ Cardinality(touching) >= LoopHistory
            /\ \A att \in touching : Pair(att) = pair /\ Len(att.parties) = 2)

\* Evidence nobody suspects never makes the service less sure of an agent, of whatever the
\* agent had come before (scorer.py: "a confidence value that increases with attestation
\* count and counterparty diversity").
EvidenceBuildsConfidence ==
  \A a \in Agents :
    LET rs == GetByAgent(a)
    IN Len(rs) > 1 /\ Last(rs).signals = {} =>
         ScoreOf(rs, a).confidence >= ScoreOf(Front(rs), a).confidence

-----------------------------------------------------------------------------
(* What the documents say and the code does not do *)

\* schemas/attestation.schema.json: the reasoning rate, like every rate of a response, lies
\* between 0.0 and 1.0, a "Fraction of negotiations where reasoning was provided."
RatesAreRates ==
  \A a \in Agents :
    LET score == Handle(a, Anything).score
    IN score # None => /\ score.components.reasoning \in 0..Whole
                       /\ score.components.agreement \in 0..Whole
=============================================================================
