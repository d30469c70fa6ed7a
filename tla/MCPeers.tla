------------------------------- MODULE MCPeers -------------------------------
(* A small instance of Peers for TLC. *)
EXTENDS Peers, TLC

OwnerSymmetry == Permutations(ProfileOwners)

Body(categories, reputation) ==
  [categories |-> categories, reputation |-> reputation, tier |-> reputation,
   offerTypes |-> {"basic"}, jurisdictions |-> {"EU"}, preferred |-> TRUE, sessions |-> 1]

\* "infrastructure.compute" and "infra".
CBodies == {Body({<<"infra", "structure", ".", "compute">>}, 1), Body({<<"infra">>}, 2)}

Filter(categories, reputation, limit) ==
  [categories |-> categories, minReputation |-> reputation, minTier |-> 0,
   offerTypes |-> {"basic"}, jurisdictions |-> {"EU"}, preferred |-> {}, sortBy |-> "reputation",
   limit |-> limit]

CFilters == {Filter({}, 0, 1), Filter({<<"infra", "structure">>}, 2, 2)}

\* Profiles and interactions share no state: beside those of the one, the other need not be
\* explored.
OnePartAtATime ==
  \/ profiles = [a \in ProfileOwners |-> NoProfile] /\ search = {} /\ recommended = {}
  \/ interactions = <<>> /\ accepted = {} /\ proposals = 0
=============================================================================
