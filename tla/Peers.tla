-------------------------------- MODULE Peers --------------------------------
(***************************************************************************)
(* Finding peers and dealing with those that do not speak Concordia: the   *)
(* two parts of the server that serve the agent before a session is opened *)
(* (src/concordia/mcp_server.py, tool_propose_protocol to the agent        *)
(* discovery tools), and the recommendation of profiles for a Want.        *)
(***************************************************************************)
EXTENDS AgentProfiles, Interactions

VARIABLE recommended  \* history: how recommendations were answered

peersVars == <<profiles, aged, checked, search, proposals, interactions, accepted, recommended>>

PeersInit ==
  /\ ProfilesInit
  /\ InteractionsInit
  /\ recommended = {}

\* tool_agent_discovery_recommend: the Want that get_want returns is an object, and is
\* asked for its category as if it were a dict; no profile is ever searched for.
Recommend(found) ==
  /\ recommended' = recommended \union {IF found THEN "failed" ELSE "not found"}
  /\ UNCHANGED profileVars

ProfileStep ==
  \/ \E a \in ProfileOwners :
       \/ \E b \in Bodies :
            \/ PublishByTool(a, b)
            \/ \E s \in {"none", "valid", "invalid"} : Publish(a, b, s)
       \/ GetProfile(a)
       \/ DeleteProfile(a)
       \/ Age(a)
  \/ ListProfiles
  \/ \E f \in Filters : Search(f)

InteractionStep ==
  \/ Propose
  \/ \E p \in Nameable : Accept(p) \/ StartDegraded(p)
  \/ StartDegraded(NoProposal)
  \/ \E i \in DOMAIN interactions : AddMessage(i)

PeersNext ==
  \/ ProfileStep /\ UNCHANGED <<interactionVars, recommended>>
  \/ InteractionStep /\ UNCHANGED <<profileVars, recommended>>
  \/ \E found \in BOOLEAN : Recommend(found) /\ UNCHANGED interactionVars

PeersSpec == PeersInit /\ [][PeersNext]_peersVars

-----------------------------------------------------------------------------
(* Properties *)

Profile == [body : Bodies, verified : BOOLEAN]

\* Every variable has the type its attribute has in the code.
PeersTypeOK ==
  /\ profiles \in [ProfileOwners -> Profile \union {NoProfile}]
  /\ {aged, checked} \subseteq SUBSET ProfileOwners
  /\ search \subseteq [filter : Filters, found : SUBSET ProfileOwners]
  /\ proposals \in 0..MaxProposals
  /\ interactions \in Seq([proposal : 0..Unproposed, mode : {"degraded", "upgraded"},
       rounds : Nat, messages : Seq([round : Nat, by : {"peer", "system"}])])
  /\ accepted \subseteq (1..Unproposed) \X (0..MaxInteractions)
  /\ recommended \subseteq {"failed", "not found", "answered"}

\* A search returns current profiles only, as many as it may, and leaves out none that was
\* stored with a signature for one that was not, whatever the agent had published, pruned or
\* deleted before, nor a better one for a worse.
SearchFindsBest ==
  [][\A s \in search' \ search :
       LET Better(a, o) ==
             /\ o \in checked => a \in checked
             /\ (o \in checked <=> a \in checked) =>
                  SortKey(profiles[a].body, s.filter) >= SortKey(profiles[o].body, s.filter)
       IN
       /\ s.found \subseteq Current
       /\ Cardinality(s.found) <= s.filter.limit
       /\ \A o \in Current \ s.found : MatchesFilters(profiles[o].body, s.filter) =>
            /\ Cardinality(s.found) = s.filter.limit
            /\ \A a \in s.found : Better(a, o)]_peersVars

\* An interaction is upgraded, and says so, exactly when its identifier was accepted since
\* it was started and it is the oldest that names it: an acceptance that came before it, a
\* second one, or one of what nobody proposed upgrades no other (handle_response).
UpgradedByAcceptance ==
  \A i \in DOMAIN interactions :
    LET r == interactions[i] IN
    /\ r.mode = "upgraded" <=> \E n \in DOMAIN r.messages : r.messages[n].by = "system"
    /\ r.mode = "upgraded" <=>
         /\ \E n \in i..MaxInteractions : <<r.proposal, n>> \in accepted
         /\ \A j \in DOMAIN interactions : interactions[j].proposal = r.proposal => i <= j

-----------------------------------------------------------------------------
(* What the documentation says and the code does not do *)

\* tool_agent_discovery_recommend: "Looks up a Want by ID, extracts its category, and
\* searches for agents with matching capabilities."
RecommendationsAnswer == "failed" \notin recommended

\* InteractionMode.UPGRADED: "Peer accepted Concordia mid-interaction"; tool_propose_protocol:
\* "If the peer accepts, the interaction upgrades to Concordia."  Nobody has to have proposed
\* it.
UpgradesWereProposed ==
  \A i \in DOMAIN interactions :
    interactions[i].mode = "upgraded" => interactions[i].proposal \in 1..proposals
=============================================================================
