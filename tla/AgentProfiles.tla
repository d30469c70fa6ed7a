---------------------------- MODULE AgentProfiles ----------------------------
(***************************************************************************)
(* The store of capability profiles and the tools that search it           *)
(* (src/concordia/agent_profile/profile_store.py, tools.py).               *)
(*                                                                         *)
(* A profile is published signed or not, replaces the agent's former one,  *)
(* and is pruned by whoever meets it after its time to live.  A category   *)
(* is the sequence of the pieces of its text, dots included, so that one   *)
(* may begin with another in the middle of a word.                         *)
(***************************************************************************)
EXTENDS Integers, SequencesExt, FiniteSets

CONSTANTS
  ProfileOwners,  \* the agents that publish
  NoProfile,
  Bodies,         \* bound: what profiles say
  Filters,        \* bound: what is searched for
  MaxProfiles     \* MAX_PROFILES

ASSUME AgentProfilesAssumption ==
  /\ MaxProfiles \in Nat
  /\ NoProfile \notin [body : Bodies, verified : BOOLEAN]
  /\ IsFiniteSet(ProfileOwners)
  /\ \A b \in Bodies : {b.reputation, b.sessions} \subseteq Int
  /\ \A f \in Filters : f.limit \in Nat

VARIABLES
  profiles,  \* _profiles: agent -> its profile
  aged,      \* the agents whose profile is past its time to live
  checked,   \* history: the agents whose stored profile carried a signature that verified
  search     \* history: the last search and its answer, once there is one

profileVars == <<profiles, aged, checked, search>>

Stored == {a \in ProfileOwners : profiles[a] # NoProfile}
Current == Stored \ aged

\* _category_compatible: the texts are compared, not their segments.
TextCompatible(p, f) == IsPrefix(f, p) \/ IsPrefix(p, f)

\* A filter left out is the empty set; all that are given must hold.
MatchesFilters(b, f) ==
  /\ f.categories # {} =>
       \E p \in b.categories, c \in f.categories : TextCompatible(p, c)
  /\ b.reputation >= f.minReputation
  /\ b.tier >= f.minTier
  /\ f.offerTypes \subseteq b.offerTypes
  /\ f.jurisdictions # {} => b.jurisdictions \intersect f.jurisdictions # {}
  /\ f.preferred # {} => b.preferred \in f.preferred

\* _compute_match_score, in hundredths.
MatchScore(b, f) ==
  LET hits  == Cardinality({h \in b.categories \X f.categories : TextCompatible(h[1], h[2])})
      share == IF f.categories = {} THEN 0 ELSE (30 * hits) \div Cardinality(f.categories)
      kinds == IF f.offerTypes = {} THEN 0 ELSE 20
      places == IF f.jurisdictions = {} THEN 0
                ELSE (10 * Cardinality(b.jurisdictions \intersect f.jurisdictions))
                       \div Cardinality(f.jurisdictions)
      sum == 50 + share + kinds + places
  IN IF sum < 100 THEN sum ELSE 100

SortKey(b, f) == IF f.sortBy = "reputation" THEN b.reputation ELSE b.sessions

\* The order results come in; ties keep the order of the store.
Before(p, q, f) ==
  \/ p.verified /\ ~q.verified
  \/ p.verified = q.verified /\ SortKey(p.body, f) > SortKey(q.body, f)
  \/ /\ p.verified = q.verified /\ SortKey(p.body, f) = SortKey(q.body, f)
     /\ MatchScore(p.body, f) > MatchScore(q.body, f)

ProfilesInit ==
  /\ profiles = [a \in ProfileOwners |-> NoProfile]
  /\ aged = {}
  /\ checked = {}
  /\ search = {}

\* A full store still takes a new profile of who is in it already.
RoomFor(a) == Cardinality(Stored) < MaxProfiles \/ a \in Stored

\* Fault: the mark of a former, signed profile is kept.
PublishSticky(a, b, signature) ==
  /\ RoomFor(a)
  /\ signature # "invalid"
  /\ profiles' = [profiles EXCEPT ![a] =
       [body |-> b, verified |-> \/ signature = "valid"
                                 \/ a \in Stored /\ profiles[a].verified]]
  /\ aged' = aged \ {a}
  /\ checked' = IF signature = "valid" THEN checked \union {a} ELSE checked \ {a}
  /\ UNCHANGED search

\* publish: a signature is looked at only when the caller has a key; one that does not
\* verify stores nothing.
Publish(a, b, signature) ==
  /\ RoomFor(a)
  /\ signature # "invalid"
  /\ profiles' = [profiles EXCEPT ![a] = [body |-> b, verified |-> signature = "valid"]]
  /\ aged' = aged \ {a}
  /\ checked' = IF signature = "valid" THEN checked \union {a} ELSE checked \ {a}
  /\ UNCHANGED search

Forget(gone) ==
  /\ profiles' = [a \in ProfileOwners |-> IF a \in gone THEN NoProfile ELSE profiles[a]]
  /\ aged' = aged \ gone
  /\ checked' = checked \ gone

\* tool_agent_profile_publish: never with a key, and its answer counts the profiles, which
\* prunes the store.
PublishByTool(a, b) ==
  /\ RoomFor(a)
  /\ profiles' = [o \in ProfileOwners |->
       IF o = a THEN [body |-> b, verified |-> FALSE]
       ELSE IF o \in aged THEN NoProfile ELSE profiles[o]]
  /\ aged' = {}
  /\ checked' = checked \ (aged \union {a})
  /\ UNCHANGED search

\* get, list_all and delete.
GetProfile(a) == a \in Stored \intersect aged /\ Forget({a}) /\ UNCHANGED search
ListProfiles == Forget(aged) /\ UNCHANGED search
DeleteProfile(a) == a \in Stored /\ Forget({a}) /\ UNCHANGED search

Chosen(f) == {a \in Current : MatchesFilters(profiles[a].body, f)}

\* The first `limit' of the chosen, in an order that Before admits.
Search(f) ==
  /\ Forget(aged)
  /\ \E found \in SUBSET Chosen(f) :
       /\ Cardinality(found) = IF Cardinality(Chosen(f)) < f.limit
                               THEN Cardinality(Chosen(f)) ELSE f.limit
       /\ \A a \in found, o \in Chosen(f) \ found : ~Before(profiles[o], profiles[a], f)
       /\ search' = {[filter |-> f, found |-> found]}

Age(a) ==
  /\ a \in Current
  /\ aged' = aged \union {a}
  /\ UNCHANGED <<profiles, checked, search>>
=============================================================================
