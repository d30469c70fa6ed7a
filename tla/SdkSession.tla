---------------------------- MODULE SdkSession ----------------------------
(***************************************************************************)
(* The TypeScript SDK's session (src/js-sdk/src/session/session.ts), kept  *)
(* beside the Python one: a peer that runs the SDK is handed every message *)
(* the session applied and does what the host does with the session.       *)
(*                                                                         *)
(* The step of the Python session decides what the SDK is handed, so `twin'*)
(* adds no behavior; what it comes to by its own rules is compared.        *)
(***************************************************************************)
EXTENDS Session

VARIABLE twin   \* the SDK's Session object

-----------------------------------------------------------------------------
(* session.ts *)

\* TRANSITIONS: from, kind, to.
Transitions ==
  {<<"proposed", "open", "proposed">>, <<"proposed", "accept_session", "active">>,
   <<"proposed", "decline_session", "rejected">>, <<"dormant", "offer", "active">>,
   <<"active", "accept", "agreed">>, <<"active", "commit", "agreed">>,
   <<"active", "reject", "rejected">>, <<"active", "withdraw", "rejected">>}
  \union {<<"active", k, "active">> : k \in {"offer", "counter", "signal", "inquire", "constrain",
                                             "propose_mediator", "resolve"}}

\* applyMessage as far as it refuses: neither the session a message was signed for nor the
\* message it follows nor the number of rounds is looked at.
SdkAccepts(t, m) == Authentic(m) /\ \E x \in Transitions : x[1] = t.state /\ x[2] = m.kind

SdkNext(t, m) == (CHOOSE x \in Transitions : x[1] = t.state /\ x[2] = m.kind)[3]

\* Fault: an offer without terms is taken for one.
LastKept(t, m) == IF m.kind \in OfferKinds THEN m.terms ELSE t.last[m.from]

LastOf(t, m) == IF m.kind \in OfferKinds /\ m.terms # NoTerms THEN m.terms ELSE t.last[m.from]

\* computeConcession of one term is positive; a movement away from zero is skipped.
SdkConcedes(prior, current) == {prior, current} \subseteq Values /\ prior # 0 /\ current # prior

\* trackBehavior
SdkObserved(t, m) ==
  LET b == t.behavior[m.from] IN
  IF m.kind \in OfferKinds
  THEN [b EXCEPT !.offers = @ + 1,
                 !.concessions = IF SdkConcedes(t.last[m.from], m.terms) THEN @ + 1 ELSE @]
  ELSE IF m.kind = "signal"    THEN [b EXCEPT !.signals = @ + 1]
  ELSE IF m.kind = "constrain" THEN [b EXCEPT !.constraints = @ + 1]
  ELSE IF m.kind = "withdraw"  THEN [b EXCEPT !.withdrawal = TRUE]
  ELSE b

\* fireTerminal
SdkFire(t) ==
  IF t.fired \/ ~callback THEN t
  ELSE [t EXCEPT !.fired = TRUE, !.told = Append(@, t.state)]

SdkConclude(t) == SdkFire([t EXCEPT !.concludedAt = Len(t.transcript)])

\* applyMessage: what it refuses changes nothing.
SdkApply(t, m) ==
  LET moved == [t EXCEPT !.transcript = Append(@, m),
                         !.terms = IF m.kind = "open" THEN m.terms ELSE @,
                         !.behavior[m.from] = SdkObserved(t, m),
                         !.last[m.from] = LastOf(t, m),
                         !.rounds = IF m.kind \in OfferKinds THEN @ + 1 ELSE @,
                         !.state = SdkNext(t, m)]
  IN IF ~SdkAccepts(t, m) THEN t
     ELSE IF moved.state \in {"agreed", "rejected"} /\ moved.state # t.state
     THEN SdkConclude(moved) ELSE moved

\* expire and makeDormant
SdkExpire(t) == SdkConclude([t EXCEPT !.state = "expired"])
SdkMakeDormant(t) == [t EXCEPT !.state = "dormant", !.reactivatable = TRUE]

\* validateChain of message.ts
ValidateChain(ms) == \A i \in DOMAIN ms : ms[i].prev = IF i = 1 THEN Genesis ELSE Hash(ms[i - 1])

SdkNew ==
  [state |-> "proposed", transcript |-> <<>>, terms |-> NoTerms, rounds |-> 0,
   behavior |-> [a \in Agents |-> NoBehavior], last |-> [a \in Agents |-> NoTerms],
   concludedAt |-> -1, reactivatable |-> FALSE, fired |-> FALSE, told |-> <<>>]

-----------------------------------------------------------------------------
(* The two sessions side by side *)

\* The host of the SDK session follows that of the other.
Handed ==
  IF transcript' # transcript
  THEN LET applied == SdkApply(twin, transcript'[Len(transcript')])
       IN IF state' = "dormant" THEN SdkMakeDormant(applied) ELSE applied
  ELSE IF state' = state     THEN twin
  ELSE IF state' = "expired" THEN SdkExpire(twin)
  ELSE SdkMakeDormant(twin)

TwinInit == Init /\ twin = SdkNew
TwinNext == Next /\ twin' = Handed
TwinSpec == TwinInit /\ [][TwinNext]_<<vars, twin>>

-----------------------------------------------------------------------------
(* Properties *)

\* The SDK takes every message the Python session takes and comes to the same state, terms,
\* rounds, behavior records and report of the same transcript; and of what else reaches it,
\* applyMessage and validateChain together let through no more than messages of another
\* session and offers beyond the cap.
SdkFollows ==
  /\ twin = [state |-> state, transcript |-> transcript, terms |-> terms, rounds |-> roundCount,
             behavior |-> behavior, last |-> lastOffer, concludedAt |-> concludedAt,
             reactivatable |-> reactivatable, fired |-> terminalFired, told |-> reports]
  /\ \A m \in wire \union Applied :
       /\ Acceptable(m) => SdkAccepts(twin, m)
       /\ SdkAccepts(twin, m) /\ ValidateChain(Append(twin.transcript, m)) =>
            Acceptable(m) \/ ~BoundHere(m) \/ ~WithinRounds(m)

-----------------------------------------------------------------------------
(* What the documents say and the code does not do *)

\* js-sdk/README.md: "the same validation result in both languages"; applyMessage omits the
\* check of the chain because Python "does NOT validate `message["prev_hash"]`".
SdkRefusesAlike == \A m \in wire \union Applied : SdkAccepts(twin, m) => Acceptable(m)
=============================================================================
