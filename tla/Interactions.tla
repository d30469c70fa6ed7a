---------------------------- MODULE Interactions ----------------------------
(***************************************************************************)
(* Peers that do not speak Concordia (src/concordia/degradation.py): a     *)
(* proposal to do so, the answer to it, and the unstructured interaction   *)
(* kept meanwhile, which an acceptance upgrades.                           *)
(***************************************************************************)
EXTENDS Integers, Sequences, FiniteSets

CONSTANTS
  MaxProposals,     \* bound: proposals ever made
  MaxInteractions,  \* bound: interactions ever started
  MaxRounds         \* bound: messages in an interaction, the system's included

ASSUME InteractionsAssumption ==
  {MaxProposals, MaxInteractions, MaxRounds} \subseteq Nat

VARIABLES
  proposals,     \* _proposals: how many have been made; a proposal is its number
  interactions,  \* _interactions, oldest first
  accepted       \* history: each acceptance, with how many interactions there were

interactionVars == <<proposals, interactions, accepted>>

NoProposal == 0

\* An identifier that no proposal has: nothing looks up what a caller names.
Unproposed == MaxProposals + 1

Nameable == 1..proposals \union {Unproposed}

InteractionsInit ==
  /\ proposals = 0
  /\ interactions = <<>>
  /\ accepted = {}

Propose ==
  /\ proposals < MaxProposals
  /\ proposals' = proposals + 1
  /\ UNCHANGED <<interactions, accepted>>

\* start_degraded: the proposal is named by the caller and not looked up; nor is it asked
\* whether it has been answered.
StartDegraded(p) ==
  /\ Len(interactions) < MaxInteractions
  /\ interactions' = Append(interactions,
       [proposal |-> p, mode |-> "degraded", rounds |-> 0, messages |-> <<>>])
  /\ UNCHANGED <<proposals, accepted>>

WithMessage(r) ==
  [r EXCEPT !.rounds = @ + 1, !.messages = Append(@, [round |-> r.rounds + 1, by |-> "peer"])]

\* add_message, in an upgraded interaction as well.
AddMessage(i) ==
  /\ Len(interactions[i].messages) < MaxRounds
  /\ interactions' = [interactions EXCEPT ![i] = WithMessage(@)]
  /\ UNCHANGED <<proposals, accepted>>

Upgraded(r) ==
  [r EXCEPT !.mode = "upgraded",
            !.messages = Append(@, [round |-> r.rounds + 1, by |-> "system"])]

\* Fault: whichever interaction is the oldest is upgraded.
UpgradableAny(p) == DOMAIN interactions

Upgradable(p) == {i \in DOMAIN interactions : interactions[i].proposal = p}

\* handle_response: an acceptance upgrades the oldest interaction that names the proposal,
\* be it one that was made or not, and again if it was upgraded before; a refusal changes
\* nothing.
Accept(p) ==
  /\ accepted' = accepted \union {<<p, Len(interactions)>>}
  /\ \/ Upgradable(p) = {} /\ UNCHANGED interactions
     \/ \E i \in Upgradable(p) :
          /\ \A j \in Upgradable(p) : i <= j
          /\ Len(interactions[i].messages) < MaxRounds
          /\ interactions' = [interactions EXCEPT ![i] = Upgraded(@)]
  /\ UNCHANGED proposals
=============================================================================
