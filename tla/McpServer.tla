----------------------------- MODULE McpServer -----------------------------
(***************************************************************************)
(* The MCP server (src/concordia/mcp_server.py): the tools that open a     *)
(* session, negotiate in it, hand out its receipt, register agents, ingest *)
(* attestations and bundle them, over the session store, the token store   *)
(* (AuthTokens), the discovery registry (registry.py), the attestation     *)
(* store (reputation/store.py) and the bundle store (receipt_bundle.py).   *)
(*                                                                         *)
(* One tool call runs at a time, so each is a step; between two of them    *)
(* the clock moves and the process may be restarted, which loses           *)
(* everything but the token file and what the clients hold.                *)
(*                                                                         *)
(* Inside a session only what its tools look at is kept (Session.tla has   *)
(* the rest); a call that is refused without effect is no step.            *)
(***************************************************************************)
EXTENDS AuthTokens

CONSTANTS
  MaxSessions,     \* SessionStore.MAX_SESSIONS
  MaxActive,       \* MAX_ACTIVE_NEGOTIATION_SESSIONS_PER_INITIATOR
  SessionTTLs,     \* the session_ttl callers ask for, at most MAX_TTL_SECONDS
  MaxRounds,       \* max_rounds
  RegistrationTTL, \* RegisteredAgent.ttl
  MaxAgents,       \* AgentRegistry.MAX_AGENTS
  MaxAttestations, \* AttestationStore.MAX_ATTESTATIONS
  MaxBundles,      \* BundleStore.MAX_BUNDLES
  MaxReceipts,     \* bound: receipts ever made
  MaxChanges       \* bound: what a client changes about a receipt it submits

ASSUME ServerAssumption ==
  /\ SessionTTLs \subseteq Nat
  /\ {MaxSessions, MaxActive, MaxRounds, RegistrationTTL, MaxAgents,
      MaxAttestations, MaxBundles, MaxReceipts, MaxChanges} \subseteq Nat

VARIABLES
  store,        \* SessionStore._sessions: identifier -> session, Absent
  keyRegistry,  \* _key_registry: agent -> the session whose key pair it holds, None
  seen,         \* AgentRegistry._agents: agent -> last_seen, None
  receipts,     \* the receipts handed out, which the clients keep
  attested,     \* AttestationStore: the attestations ingested
  bundles       \* BundleStore

sessionVars == <<store, keyRegistry, born>>
reputation == <<receipts, attested, bundles>>
vars == <<now, tokenVars, owner, sessionVars, seen, reputation>>

Absent == [state |-> "absent"]

\* Of a session the tools read its state, who may speak, its age and its offers.
Session == [state : {"active", "agreed", "rejected"}, initiator : Agents,
            responder : Agents, ttl : SessionTTLs, rounds : 0..MaxRounds]

Stored == {s \in Sids : store[s] # Absent}

PartiesOf(s) == {store[s].initiator, store[s].responder}

Outcomes == {"agreed", "rejected"}
Versions == {"current", "legacy"}

\* A receipt: which session it attests, of whom, with what outcome, and its identifier.
Receipt == [id : 1..MaxReceipts, sid : Sids, parties : SUBSET Agents, outcome : Outcomes]

\* An attestation as a client submits it: a receipt with its signatures, and what it says
\* now of its identifier, outcome, version and parties, of which the parties' signatures,
\* each over its own record, cover nothing; a record given twice makes two parties of one.
Attestation == [receipt : Receipt, id : 1..MaxReceipts, told : Outcomes,
                version : Versions, parties : SUBSET Agents]

(***************************************************************************)
(* Sessions                                                                *)
(***************************************************************************)

\* _is_ttl_elapsed.  A session is created when its identifier is born.
TTLElapsed(s) == now - born[s] > store[s].ttl

\* _active_session_count_for_initiator
ActiveOf(a) ==
  {s \in Stored : store[s].initiator = a /\ store[s].state = "active" /\ ~TTLElapsed(s)}

\* The identifiers no session has had.
Unborn == {s \in Sids : born[s] = None}

\* Fault: the limits are off by one.
RoomForOneMore(i) == Cardinality(Stored) <= MaxSessions /\ Cardinality(ActiveOf(i)) <= MaxActive

RoomFor(i) == Cardinality(Stored) < MaxSessions /\ Cardinality(ActiveOf(i)) < MaxActive

\* tool_open_session: SessionStore.create opens, joins and accepts in one call; both keys
\* are registered, both tokens issued.
OpenSession(s, i, r, ttl) ==
  /\ s \in Unborn
  /\ \A x \in Unborn : s <= x
  /\ RoomFor(i)
  /\ i # r
  /\ store' = [store EXCEPT ![s] = [state |-> "active", initiator |-> i, responder |-> r,
                                    ttl |-> ttl, rounds |-> 0]]
  /\ born' = [born EXCEPT ![s] = now]
  /\ keyRegistry' = [a \in Agents |-> IF a \in {i, r} THEN s ELSE keyRegistry[a]]
  /\ Issue(s)
  /\ UNCHANGED <<now, owner, seen, reputation>>

\* A negotiating tool, called with the token of k: the session is there and active.
Speaks(k) ==
  /\ Validated(k)
  /\ store[k[1]] # Absent
  /\ store[k[1]].state = "active"
  /\ UNCHANGED <<now, owner, keyRegistry, born, seen, reputation>>

\* Fault: the round limit is not looked at.
ProposeOn(k) == Speaks(k) /\ store' = [store EXCEPT ![k[1]].rounds = @ + 1]

\* tool_propose and tool_counter
Propose(k) ==
  /\ Speaks(k)
  /\ store[k[1]].rounds < MaxRounds
  /\ store' = [store EXCEPT ![k[1]].rounds = @ + 1]

Becomes(k, state) == Speaks(k) /\ store' = [store EXCEPT ![k[1]].state = state]

\* tool_accept, tool_commit and tool_reject
Accept(k) == Becomes(k, "agreed")
Commit(k) == Becomes(k, "agreed")
Reject(k) == Becomes(k, "rejected")

\* Any of them, called with a token that has expired.
Refuse(k) == Outdated(k) /\ UNCHANGED <<now, owner, sessionVars, seen, reputation>>

\* tool_session_status, and every other tool that takes the token of either role.
View(k) == LookUp(k) /\ UNCHANGED <<now, owner, sessionVars, seen, reputation>>

\* Fault: a receipt at any time.
MakeReceiptEarly(k) ==
  /\ LookUp(k)
  /\ Accepts(k)
  /\ store[k[1]] # Absent
  /\ Cardinality(receipts) < MaxReceipts
  /\ receipts' = receipts \union {[id |-> Cardinality(receipts) + 1, sid |-> k[1],
       parties |-> PartiesOf(k[1]), outcome |-> IF store[k[1]].state = "agreed" THEN "agreed" ELSE "rejected"]}
  /\ UNCHANGED <<now, owner, sessionVars, seen, attested, bundles>>

\* tool_session_receipt: a new attestation at every call.
MakeReceipt(k) ==
  /\ LookUp(k)
  /\ Accepts(k)
  /\ store[k[1]] # Absent
  /\ store[k[1]].state # "active"
  /\ Cardinality(receipts) < MaxReceipts
  /\ receipts' = receipts \union {[id |-> Cardinality(receipts) + 1, sid |-> k[1],
                                   parties |-> PartiesOf(k[1]), outcome |-> store[k[1]].state]}
  /\ UNCHANGED <<now, owner, sessionVars, seen, attested, bundles>>

(***************************************************************************)
(* Agents                                                                  *)
(***************************************************************************)

\* RegisteredAgent.is_expired, of an agent that is there.
Lapsed(a) == seen[a] # None /\ now - seen[a] > RegistrationTTL

Registered(a) == seen[a] # None /\ ~Lapsed(a)

\* AgentRegistry.count, by which the tools that change the registry end, prunes it.
Pruned(agents) == [a \in Agents |-> IF agents[a] # None /\ now - agents[a] > RegistrationTTL
                                    THEN None ELSE agents[a]]

\* Fault: whoever asks.
EntitledAnyone(a, c) == TRUE

\* The ownership gate: an agent that is registered is registered again by its owner only.
Entitled(a, c) == Registered(a) => owner[a] = c

\* Agents in the registry when a's entry, if it has lapsed, was pruned by the gate.
Entries(a) == {b \in Agents : seen[b] # None /\ (b = a => ~Lapsed(b))}

\* tool_register_agent
Register(a, c) ==
  /\ Entitled(a, c)
  /\ a \in Entries(a) \/ Cardinality(Entries(a)) < MaxAgents
  /\ seen' = Pruned([seen EXCEPT ![a] = now])
  /\ Hand(a, c)
  /\ UNCHANGED <<now, tokenVars, sessionVars, reputation>>

\* The registry is full, of lapsed entries perhaps: the call fails after the gate.
FailToRegister(a) ==
  /\ a \notin Entries(a)
  /\ Cardinality(Entries(a)) >= MaxAgents
  /\ seen' = [seen EXCEPT ![a] = None]
  /\ UNCHANGED <<now, tokenVars, owner, sessionVars, reputation>>

\* Fault: the agent keeps its place in the registry.
DeregisterTokenOnly(a, c) ==
  /\ owner[a] = c
  /\ Revoke(a)
  /\ seen' = Pruned(seen)
  /\ UNCHANGED <<now, tokenVars, sessionVars, reputation>>

\* tool_deregister_agent
Deregister(a, c) ==
  /\ owner[a] = c
  /\ Revoke(a)
  /\ seen' = Pruned([seen EXCEPT ![a] = None])
  /\ UNCHANGED <<now, tokenVars, sessionVars, reputation>>

\* list_all, and search and get for the agents they come across.
Prune(as) ==
  /\ seen' = [a \in Agents |-> IF a \in as THEN Pruned(seen)[a] ELSE seen[a]]
  /\ UNCHANGED <<now, tokenVars, owner, sessionVars, reputation>>

(***************************************************************************)
(* Reputation                                                              *)
(***************************************************************************)

\* Fault: duplicates are told by the attestation's own identifier only.
NewById(att) == \A q \in attested : q.id # att.id

NewAttestation(att) == \A q \in attested : q.id # att.id /\ q.receipt.sid # att.receipt.sid

\* tool_ingest_attestation, called for agent a with an attestation made of a receipt.  Only
\* the signatures of the parties' records are checked, with the keys of its session, which
\* must be there: what else it says may have been changed.
Ingest(a, att) ==
  /\ owner[a] # Nobody
  /\ att.receipt \in receipts
  /\ store[att.receipt.sid] # Absent
  /\ NewAttestation(att)
  /\ Cardinality(attested) < MaxAttestations
  /\ attested' = attested \union {att}
  /\ UNCHANGED <<now, tokenVars, owner, sessionVars, seen, receipts, bundles>>

\* What an attestation says that its receipt did not.
Changes(att) ==
  {change \in {<<"id", att.id # att.receipt.id>>, <<"outcome", att.told # att.receipt.outcome>>,
               <<"version", att.version # "current">>,
               <<"parties", att.parties # att.receipt.parties>>} : change[2]}

\* Agent a ingests what some client has made of the receipt r.
Submit(a, r) ==
  \E n \in 1..MaxReceipts, told \in Outcomes, v \in Versions,
     ps \in (SUBSET r.parties) \ {{}} :
    LET att == [receipt |-> r, id |-> n, told |-> told, version |-> v, parties |-> ps]
    IN  Cardinality(Changes(att)) <= MaxChanges /\ Ingest(a, att)

\* get_by_agent
AttestedOf(a) == {att \in attested : a \in att.parties}

\* Fault: the agent's latest session.
HoldsLatestKey(a, s) ==
  /\ s \in Stored
  /\ a \in PartiesOf(s)
  /\ \A t \in Stored : a \in PartiesOf(t) => t <= s

\* _find_agent_key_pair: s is the agent's first session in the store, if it has one.
HoldsKey(a, s) ==
  /\ s \in Stored
  /\ a \in PartiesOf(s)
  /\ \A t \in Stored : a \in PartiesOf(t) => s <= t

\* tool_create_receipt_bundle, of the attestations that its filters let through.
MakeBundle(a, atts, s) ==
  /\ owner[a] # Nobody
  /\ HoldsKey(a, s)
  /\ Cardinality(bundles) < MaxBundles
  /\ bundles' = bundles \union {[agent |-> a, key |-> s, attestations |-> atts]}
  /\ keyRegistry' = [keyRegistry EXCEPT ![a] = s]
  /\ UNCHANGED <<now, tokenVars, owner, store, born, seen, receipts, attested>>

\* evaluate_outcome_binding: the parties have countersigned all the receipt says.
Bound(att) == Changes(att) = {}

\* What a bundle may hold and be valid: an attestation below version 0.2.0 is only reported
\* as unbound.
Sound(b) == \A att \in b.attestations : Bound(att) \/ att.version = "legacy"

\* tool_verify_receipt_bundle: the bundle's signature is checked with the registered key,
\* its attestations' with the keys of their sessions, or, of a session that is gone, with
\* the registered keys, none of which can be of that session any more.
Verifies(b) ==
  /\ keyRegistry[b.agent] = b.key
  /\ \A att \in b.attestations : store[att.receipt.sid] # Absent
  /\ Sound(b)

(***************************************************************************)
(* The process                                                             *)
(***************************************************************************)

\* The server is started again and finds its token file.
Restart ==
  /\ Reload
  /\ store' = [s \in Sids |-> Absent]
  /\ keyRegistry' = [a \in Agents |-> None]
  /\ seen' = [a \in Agents |-> None]
  /\ attested' = {}
  /\ bundles' = {}
  /\ UNCHANGED <<now, born, receipts>>

Init ==
  /\ AuthInit
  /\ store = [s \in Sids |-> Absent]
  /\ keyRegistry = [a \in Agents |-> None]
  /\ seen = [a \in Agents |-> None]
  /\ receipts = {}
  /\ attested = {}
  /\ bundles = {}

Next ==
  \/ \E s \in Sids, i, r \in Agents, ttl \in SessionTTLs : OpenSession(s, i, r, ttl)
  \/ \E k \in Keys : \/ Propose(k) \/ Accept(k) \/ Commit(k) \/ Reject(k)
                     \/ Refuse(k) \/ View(k) \/ MakeReceipt(k)
  \/ \E a \in Agents, c \in Clients : Register(a, c) \/ Deregister(a, c)
  \/ \E a \in Agents : FailToRegister(a)
  \/ \E as \in SUBSET Agents : Prune(as)
  \/ \E a \in Agents, r \in receipts : Submit(a, r)
  \/ \E a \in Agents, s \in Sids :
        \E atts \in (SUBSET AttestedOf(a)) \ {{}} : MakeBundle(a, atts, s)
  \/ Restart
  \/ Tick /\ UNCHANGED <<tokenVars, owner, sessionVars, seen, reputation>>

Spec == Init /\ [][Next]_vars

(***************************************************************************)
(* Properties                                                              *)
(***************************************************************************)

\* Every variable has the type of the attribute it stands for.
TypeOK ==
  /\ AuthTypeOK
  /\ store \in [Sids -> Session \union {Absent}]
  /\ keyRegistry \in [Agents -> Sids \union {None}]
  /\ seen \in [Agents -> Times \union {None}]
  /\ receipts \subseteq Receipt
  /\ attested \subseteq Attestation
  /\ \A att \in attested : att.receipt \in receipts
  /\ \A b \in bundles : /\ b.agent \in Agents /\ b.key \in Sids
                        /\ b.attestations \subseteq attested

\* The session store never holds more sessions, nor more live ones of an initiator, than
\* its limits, although sessions leave the live ones in silence, by getting old.
WithinLimits ==
  /\ Cardinality(Stored) <= MaxSessions
  /\ \A a \in Agents : Cardinality(ActiveOf(a)) <= MaxActive

\* A registered agent has an owner: the registry and the token store, changed one after
\* the other, never part so that nobody could register the agent again or remove it.
RegistrationsAreOwned == \A a \in Agents : Registered(a) => owner[a] # Nobody

\* While an agent is registered its token passes to no other client (the comment on the
\* gate in tool_register_agent), whatever was pruned, deregistered or refused before.
NoTakeover ==
  [][\A a \in Agents :
       Registered(a) /\ owner[a] # Nobody => owner'[a] \in {owner[a], Nobody}]_vars

\* A session is attested once, however many receipts were made of it and kept, and
\* whatever identifiers they are shown with.
AttestedOnce == \A q, r \in attested : q.receipt.sid = r.receipt.sid => q = r

\* Whatever was changed about a receipt before it was ingested, a bundle that verifies
\* tells of its sessions, each at most once, what they came to, but for what it reports as
\* unbound: no receipt is made before the outcome is settled, and nothing else is
\* countersigned (verify_bundle's step (f), for the server's own sessions).
VerifiedBundlesTellTruth ==
  \A b \in bundles :
    Verifies(b) =>
      /\ \A att \in b.attestations : Bound(att) => store[att.receipt.sid].state = att.told
      /\ \A att, other \in b.attestations : att.receipt.sid = other.receipt.sid => att = other

\* When a bundle is made, it and every earlier bundle of the agent verify, but for those
\* with a changed attestation in them, although sessions opened between them have
\* registered other keys: all are signed with the agent's first key, which it registers.
BundlesVerifyAgain ==
  [][\A b \in bundles' \ bundles : \A c \in bundles' :
       c.agent = b.agent /\ Sound(c) => Verifies(c)']_vars

(***************************************************************************)
(* What the documents say and the code does not do                         *)
(***************************************************************************)

\* SPEC.md 5.2: an active session expires when its TTL has elapsed.
DealsInTime ==
  [][\A s \in Stored :
       store[s].state = "active" /\ store'[s] # Absent /\ store'[s].state = "agreed"
         => ~TTLElapsed(s)]_vars

\* auth.py: session tokens are kept on disk so that clients can reconnect to their
\* session across server restarts.
TokensLeadSomewhere == \A k \in Keys : Accepts(k) => store[k[1]] # Absent
=============================================================================
