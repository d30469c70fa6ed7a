-------------------------- MODULE McpServerProofs --------------------------
(***************************************************************************)
(* What TLAPS proves of McpServer, for every set of agents, clients and    *)
(* session identifiers and for every limit.  Each of the three lemmas      *)
(* TokenSteps, SessionSteps and RegistrySteps tells the steps of the       *)
(* server apart by what they do to one of its stores; the invariants of    *)
(* that store are then proved by these few kinds of step: first those of   *)
(* the tokens, then those of the registry, the sessions and the            *)
(* reputation stores.                                                      *)
(***************************************************************************)
EXTENDS McpServer, TLAPS, FiniteSetTheorems

USE AuthAssumption, ServerAssumption

(***************************************************************************)
(* Kinds of steps                                                          *)
(***************************************************************************)

LEMMA IngestSteps ==
  ASSUME NEW a \in Agents, NEW r \in receipts, Submit(a, r)
  PROVE  \E att : /\ Ingest(a, att) /\ att.receipt = r
                  /\ \E n \in 1..MaxReceipts, told \in Outcomes, v \in Versions,
                        ps \in SUBSET r.parties :
                       att = [receipt |-> r, id |-> n, told |-> told, version |-> v,
                              parties |-> ps]
  BY DEF Submit

\* Ingesting changes nothing but the attestations.
LEMMA SubmitLeaves ==
  ASSUME NEW a \in Agents, NEW r \in receipts, Submit(a, r)
  PROVE  UNCHANGED <<now, tokenVars, owner, sessionVars, seen, receipts, bundles>>
  BY IngestSteps DEF Ingest

\* Tokens stay as they are, are dropped, are issued for a new session, loaded or not found.
TokensStay == UNCHANGED <<now, tokenVars, born>>
TokensAge == Tick /\ UNCHANGED <<tokenVars, born>>
TokensIssued(s) ==
  s \in Unborn /\ Issue(s) /\ born' = [born EXCEPT ![s] = now] /\ now' = now
TokensDropped(ks) ==
  /\ expires' = Dropped(ks)
  /\ Persist(expires', loaded) \/ UNCHANGED <<disk, saved, loaded>>
  /\ UNCHANGED <<now, born>>
TokensLoaded == Load /\ UNCHANGED <<now, born>>
TokensNotFound == FailToLoad /\ UNCHANGED <<now, born>>

LEMMA TokenSteps ==
  ASSUME [Next]_vars
  PROVE  \/ TokensStay \/ TokensAge \/ TokensLoaded \/ TokensNotFound
         \/ \E s \in Sids : TokensIssued(s)
         \/ \E ks : TokensDropped(ks)
<1>1. CASE \E s \in Sids, i, r \in Agents, ttl \in SessionTTLs : OpenSession(s, i, r, ttl)
  BY <1>1 DEF OpenSession, TokensIssued
<1>2. ASSUME NEW k \in Keys, Propose(k) \/ Accept(k) \/ Commit(k) \/ Reject(k)
      PROVE  TokensStay
  BY <1>2 DEF Propose, Accept, Commit, Reject, Becomes, Speaks, Validated, tokenVars, TokensStay
<1>3. ASSUME NEW k \in Keys, Refuse(k) \/ View(k) \/ MakeReceipt(k)
      PROVE  \E ks : TokensDropped(ks)
  <2>1. CASE Refuse(k)
    <3>1. TokensDropped({k})
      BY <2>1 DEF Refuse, Outdated, TokensDropped, sessionVars
    <3> QED
      BY <3>1
  <2>2. CASE View(k) \/ MakeReceipt(k)
    <3>1. TokensDropped(Visited(k))
      BY <2>2 DEF View, MakeReceipt, LookUp, TokensDropped, sessionVars
    <3> QED
      BY <3>1
  <2> QED
    BY <1>3, <2>1, <2>2
<1>4. CASE \/ \E a \in Agents, c \in Clients : Register(a, c) \/ Deregister(a, c)
           \/ \E a \in Agents : FailToRegister(a)
           \/ \E as \in SUBSET Agents : Prune(as)
           \/ \E a \in Agents, s \in Sids : \E atts \in (SUBSET AttestedOf(a)) \ {{}} :
                MakeBundle(a, atts, s)
           \/ UNCHANGED vars
  BY <1>4 DEF Register, Deregister, FailToRegister, Prune, MakeBundle, vars,
              sessionVars, tokenVars, TokensStay
<1>7. CASE \E a \in Agents, r \in receipts : Submit(a, r)
  BY <1>7, SubmitLeaves DEF sessionVars, TokensStay
<1>5. CASE Restart
  BY <1>5 DEF Restart, Reload, TokensLoaded, TokensNotFound
<1>6. CASE Tick /\ UNCHANGED <<tokenVars, owner, sessionVars, seen, reputation>>
  BY <1>6 DEF sessionVars, TokensAge
<1> QED
  BY <1>1, <1>2, <1>3, <1>4, <1>5, <1>6, <1>7 DEF Next

\* Sessions stay as they are, a new one is opened, one that is active moves on, a receipt
\* is made or ingested, or everything is lost but the receipts.
SessionsStay == UNCHANGED <<store, born, receipts, attested>>
Moves(k) ==
  /\ store[k[1]] # Absent
  /\ store[k[1]].state = "active"
  /\ \/ Propose(k)
     \/ \E state \in {"agreed", "rejected"} : store' = [store EXCEPT ![k[1]].state = state]
  /\ UNCHANGED <<born, receipts, attested>>

LEMMA SessionSteps ==
  ASSUME [Next]_vars
  PROVE  \/ SessionsStay
         \/ \E s \in Sids, i, r \in Agents, ttl \in SessionTTLs : OpenSession(s, i, r, ttl)
         \/ \E k \in Keys : Moves(k) \/ MakeReceipt(k)
         \/ \E a \in Agents, r \in receipts : Submit(a, r)
         \/ Restart
<1>1. ASSUME NEW k \in Keys, Propose(k)
      PROVE  Moves(k)
  BY <1>1 DEF Propose, Speaks, Moves, reputation
<1>2. ASSUME NEW k \in Keys, Accept(k) \/ Commit(k) \/ Reject(k)
      PROVE  Moves(k)
  <2>1. \E state \in {"agreed", "rejected"} : Becomes(k, state)
    BY <1>2 DEF Accept, Commit, Reject
  <2> QED
    BY <2>1 DEF Becomes, Speaks, Moves, reputation
<1>3. CASE \/ \E k \in Keys : Refuse(k) \/ View(k)
           \/ \E a \in Agents, c \in Clients : Register(a, c) \/ Deregister(a, c)
           \/ \E a \in Agents : FailToRegister(a)
           \/ \E as \in SUBSET Agents : Prune(as)
           \/ \E a \in Agents, s \in Sids : \E atts \in (SUBSET AttestedOf(a)) \ {{}} :
                MakeBundle(a, atts, s)
           \/ Tick /\ UNCHANGED <<tokenVars, owner, sessionVars, seen, reputation>>
           \/ UNCHANGED vars
  BY <1>3 DEF Refuse, View, Register, Deregister, FailToRegister, Prune, MakeBundle, vars,
              sessionVars, reputation, SessionsStay
<1> QED
  BY <1>1, <1>2, <1>3 DEF Next

\* The registry loses entries at most, time passes, or one of the tools that change it runs.
RegistryShrinks ==
  /\ UNCHANGED owner
  /\ now' \in {now, now + 1}
  /\ \A a \in Agents : seen'[a] \in {seen[a], None}

LEMMA RegistrySteps ==
  ASSUME TypeOK, [Next]_vars
  PROVE  \/ RegistryShrinks
         \/ \E a \in Agents, c \in Clients : Register(a, c) \/ Deregister(a, c)
         \/ Restart
<1>1. CASE \E s \in Sids, i, r \in Agents, ttl \in SessionTTLs : OpenSession(s, i, r, ttl)
  BY <1>1 DEF OpenSession, RegistryShrinks
<1>2. ASSUME NEW k \in Keys, \/ Propose(k) \/ Accept(k) \/ Commit(k) \/ Reject(k)
                             \/ Refuse(k) \/ View(k) \/ MakeReceipt(k)
      PROVE  RegistryShrinks
  BY <1>2 DEF Propose, Accept, Commit, Reject, Becomes, Speaks, Refuse, View, MakeReceipt,
              RegistryShrinks
<1>3. CASE \E a \in Agents : FailToRegister(a)
  BY <1>3 DEF FailToRegister, RegistryShrinks, TypeOK
<1>4. CASE \E as \in SUBSET Agents : Prune(as)
  BY <1>4 DEF Prune, Pruned, RegistryShrinks, TypeOK
<1>5. CASE \/ \E a \in Agents, r \in receipts : Submit(a, r)
           \/ \E a \in Agents, s \in Sids : \E atts \in (SUBSET AttestedOf(a)) \ {{}} :
                MakeBundle(a, atts, s)
           \/ UNCHANGED vars
  BY <1>5, SubmitLeaves DEF MakeBundle, vars, RegistryShrinks
<1>6. CASE Tick /\ UNCHANGED <<tokenVars, owner, sessionVars, seen, reputation>>
  BY <1>6 DEF Tick, RegistryShrinks
<1> QED
  BY <1>1, <1>2, <1>3, <1>4, <1>5, <1>6 DEF Next

(***************************************************************************)
(* Types                                                                   *)
(***************************************************************************)

\* The receipts are numbered as they are made, which takes that they are finitely many.
Typed == TypeOK /\ IsFiniteSet(receipts)

TokensAreTyped ==
  /\ expires \in [Keys -> Expiries] /\ disk \in [Keys -> Expiries]
  /\ saved \in BOOLEAN /\ loaded \in BOOLEAN

LEMMA IssuedTyped ==
  ASSUME AuthTypeOK, NEW s \in Sids, Issue(s)
  PROVE  TokensAreTyped'
<1>1. now + TokenTTL \in Expiries
  BY DEF AuthTypeOK, Expiries
<1>2. expires' \in [Keys -> Expiries]
  BY <1>1 DEF Issue, AuthTypeOK
<1> QED
  BY <1>2 DEF Issue, Persist, AuthTypeOK, TokensAreTyped

LEMMA DroppedTyped ==
  ASSUME AuthTypeOK, NEW ks
  PROVE  Dropped(ks) \in [Keys -> Expiries]
  BY DEF AuthTypeOK, Dropped, Expiries

LEMMA LoadedTyped ==
  ASSUME AuthTypeOK
  PROVE  Loaded \in [Keys -> Expiries]
  BY DEF AuthTypeOK, Loaded, Expiries

LEMMA TokensTyped ==
  ASSUME AuthTypeOK, [Next]_vars
  PROVE  now' \in Times /\ born' \in [Sids -> Times \union {None}] /\ TokensAreTyped'
<1>1. CASE TokensStay
  BY <1>1 DEF TokensStay, tokenVars, AuthTypeOK, TokensAreTyped
<1>2. CASE TokensAge
  BY <1>2 DEF TokensAge, Tick, Times, tokenVars, AuthTypeOK, TokensAreTyped
<1>3. CASE TokensLoaded
  BY <1>3, LoadedTyped DEF TokensLoaded, Load, Persist, AuthTypeOK, TokensAreTyped
<1>4. CASE TokensNotFound
  BY <1>4 DEF TokensNotFound, FailToLoad, AuthTypeOK, TokensAreTyped, Expiries
<1>5. ASSUME NEW s \in Sids, TokensIssued(s)
      PROVE  now' \in Times /\ born' \in [Sids -> Times \union {None}] /\ TokensAreTyped'
  BY <1>5, IssuedTyped DEF TokensIssued, AuthTypeOK
<1>6. ASSUME NEW ks, TokensDropped(ks)
      PROVE  now' \in Times /\ born' \in [Sids -> Times \union {None}] /\ TokensAreTyped'
  BY <1>6, DroppedTyped DEF TokensDropped, Persist, AuthTypeOK, TokensAreTyped
<1> QED
  BY <1>1, <1>2, <1>3, <1>4, <1>5, <1>6, TokenSteps

LEMMA RegistryTyped ==
  ASSUME TypeOK, [Next]_vars
  PROVE  /\ owner' \in [Agents -> Clients \union {Nobody}]
         /\ seen' \in [Agents -> Times \union {None}]
<1> USE DEF TypeOK, AuthTypeOK
<1>1. ASSUME NEW agents \in [Agents -> Times \union {None}]
      PROVE  Pruned(agents) \in [Agents -> Times \union {None}]
  BY DEF Pruned
<1>2. ASSUME NEW a \in Agents, NEW c \in Clients, Register(a, c) \/ Deregister(a, c)
      PROVE  /\ owner' \in [Agents -> Clients \union {Nobody}]
             /\ seen' \in [Agents -> Times \union {None}]
  <2>1. /\ [seen EXCEPT ![a] = now] \in [Agents -> Times \union {None}]
        /\ [seen EXCEPT ![a] = None] \in [Agents -> Times \union {None}]
    OBVIOUS
  <2>2. seen' = Pruned([seen EXCEPT ![a] = now]) \/ seen' = Pruned([seen EXCEPT ![a] = None])
    BY <1>2 DEF Register, Deregister
  <2>3. seen' \in [Agents -> Times \union {None}]
    BY <2>1, <2>2 DEF Pruned
  <2>4. owner' = [owner EXCEPT ![a] = c] \/ owner' = [owner EXCEPT ![a] = Nobody]
    BY <1>2 DEF Register, Deregister, Revoke, Hand
  <2> QED
    BY <2>3, <2>4
<1>3. ASSUME NEW a \in Agents, FailToRegister(a)
      PROVE  /\ owner' \in [Agents -> Clients \union {Nobody}]
             /\ seen' \in [Agents -> Times \union {None}]
  BY <1>3 DEF FailToRegister
<1>4. ASSUME NEW as \in SUBSET Agents, Prune(as)
      PROVE  /\ owner' \in [Agents -> Clients \union {Nobody}]
             /\ seen' \in [Agents -> Times \union {None}]
  BY <1>4, <1>1 DEF Prune
<1>5. CASE Restart
  BY <1>5 DEF Restart, Reload
<1>6. CASE \/ \E s \in Sids, i, r \in Agents, ttl \in SessionTTLs : OpenSession(s, i, r, ttl)
           \/ \E k \in Keys : \/ Propose(k) \/ Accept(k) \/ Commit(k) \/ Reject(k)
                              \/ Refuse(k) \/ View(k) \/ MakeReceipt(k)
           \/ \E a \in Agents, r \in receipts : Submit(a, r)
           \/ \E a \in Agents, s \in Sids : \E atts \in (SUBSET AttestedOf(a)) \ {{}} :
                MakeBundle(a, atts, s)
           \/ Tick /\ UNCHANGED <<tokenVars, owner, sessionVars, seen, reputation>>
           \/ UNCHANGED vars
  <2>1. UNCHANGED <<owner, seen>>
    BY <1>6, SubmitLeaves DEF OpenSession, Propose, Accept, Commit, Reject, Becomes, Speaks,
                Refuse, View, MakeReceipt, MakeBundle, vars
  <2> QED
    BY <2>1
<1> QED
  BY <1>2, <1>3, <1>4, <1>5, <1>6 DEF Next

\* The session of a token: typed, and there if it is not absent.
LEMMA SessionTyped ==
  ASSUME TypeOK, NEW s \in Sids
  PROVE  /\ store[s] # Absent => store[s] \in Session
         /\ Absent \notin Session
  BY DEF TypeOK, Session, Absent

LEMMA StoreTyped ==
  ASSUME TypeOK, [Next]_vars
  PROVE  store' \in [Sids -> Session \union {Absent}]
<1>1. CASE SessionsStay
  BY <1>1 DEF SessionsStay, TypeOK
<1>2. ASSUME NEW s \in Sids, NEW i \in Agents, NEW r \in Agents, NEW ttl \in SessionTTLs,
             OpenSession(s, i, r, ttl)
      PROVE  store' \in [Sids -> Session \union {Absent}]
  <2>1. [state |-> "active", initiator |-> i, responder |-> r, ttl |-> ttl, rounds |-> 0]
          \in Session
    BY DEF Session
  <2> QED
    BY <1>2, <2>1 DEF OpenSession, TypeOK
<1>3. ASSUME NEW k \in Keys, Moves(k)
      PROVE  store' \in [Sids -> Session \union {Absent}]
  <2>1. k[1] \in Sids
    BY DEF Keys
  <2> DEFINE old == store[k[1]]
  <2>2. old \in Session
    BY <1>3, <2>1, SessionTyped DEF Moves
  <2>3. CASE Propose(k)
    <3>1. old.rounds + 1 \in 0..MaxRounds
      BY <2>2, <2>3 DEF Propose, Session
    <3>2. [old EXCEPT !.rounds = old.rounds + 1] \in Session
      BY <2>2, <3>1 DEF Session
    <3>3. store' = [store EXCEPT ![k[1]] = [old EXCEPT !.rounds = old.rounds + 1]]
      BY <2>3 DEF Propose
    <3> QED
      BY <3>2, <3>3 DEF TypeOK
  <2>4. ASSUME NEW state \in {"agreed", "rejected"}, store' = [store EXCEPT ![k[1]].state = state]
        PROVE  store' \in [Sids -> Session \union {Absent}]
    <3>1. [old EXCEPT !.state = state] \in Session
      BY <2>2 DEF Session
    <3>2. store' = [store EXCEPT ![k[1]] = [old EXCEPT !.state = state]]
      BY <2>4
    <3> QED
      BY <3>1, <3>2 DEF TypeOK
  <2> QED
    BY <1>3, <2>3, <2>4 DEF Moves
<1>4. CASE (\E k \in Keys : MakeReceipt(k)) \/ (\E a \in Agents, r \in receipts : Submit(a, r))
  BY <1>4, SubmitLeaves DEF MakeReceipt, sessionVars, TypeOK
<1>5. CASE Restart
  BY <1>5 DEF Restart, TypeOK
<1> QED
  BY <1>1, <1>2, <1>3, <1>4, <1>5, SessionSteps

LEMMA KeysTyped ==
  ASSUME TypeOK, [Next]_vars
  PROVE  keyRegistry' \in [Agents -> Sids \union {None}]
<1> USE DEF TypeOK
<1>1. ASSUME NEW s \in Sids, NEW i \in Agents, NEW r \in Agents, NEW ttl \in SessionTTLs,
             OpenSession(s, i, r, ttl)
      PROVE  keyRegistry' \in [Agents -> Sids \union {None}]
  BY <1>1 DEF OpenSession
<1>2. ASSUME NEW a \in Agents, NEW s \in Sids, NEW atts, MakeBundle(a, atts, s)
      PROVE  keyRegistry' \in [Agents -> Sids \union {None}]
  BY <1>2 DEF MakeBundle
<1>3. CASE Restart
  BY <1>3 DEF Restart
<1>4. CASE \/ \E k \in Keys : \/ Propose(k) \/ Accept(k) \/ Commit(k) \/ Reject(k)
                              \/ Refuse(k) \/ View(k) \/ MakeReceipt(k)
           \/ \E a \in Agents, c \in Clients : Register(a, c) \/ Deregister(a, c)
           \/ \E a \in Agents : FailToRegister(a)
           \/ \E as \in SUBSET Agents : Prune(as)
           \/ \E a \in Agents, r \in receipts : Submit(a, r)
           \/ Tick /\ UNCHANGED <<tokenVars, owner, sessionVars, seen, reputation>>
           \/ UNCHANGED vars
  <2>1. UNCHANGED keyRegistry
    BY <1>4, SubmitLeaves DEF Propose, Accept, Commit, Reject, Becomes, Speaks, Refuse, View,
                MakeReceipt, Register, Deregister, FailToRegister, Prune, vars, sessionVars
  <2> QED
    BY <2>1
<1> QED
  BY <1>1, <1>2, <1>3, <1>4 DEF Next

BundleTyped(b) == b.agent \in Agents /\ b.key \in Sids /\ b.attestations \subseteq attested
BundlesTyped == \A b \in bundles : BundleTyped(b)
AttestationsTyped ==
  attested \subseteq Attestation /\ \A att \in attested : att.receipt \in receipts

LEMMA ReputationTyped ==
  ASSUME Typed, [Next]_vars
  PROVE  /\ receipts' \subseteq Receipt
         /\ IsFiniteSet(receipts')
         /\ AttestationsTyped'
         /\ BundlesTyped'
<1> USE DEF Typed, TypeOK
<1>0. AttestationsTyped /\ BundlesTyped
  BY DEF AttestationsTyped, BundlesTyped, BundleTyped
<1>1. ASSUME NEW k \in Keys, MakeReceipt(k)
      PROVE  receipts' \subseteq Receipt /\ IsFiniteSet(receipts') /\ receipts \subseteq receipts'
  <2>1. k[1] \in Sids
    BY DEF Keys
  <2>2. store[k[1]].state \in {"agreed", "rejected"}
    BY <1>1, <2>1, SessionTyped DEF MakeReceipt, Session
  <2>3. Cardinality(receipts) \in Nat /\ Cardinality(receipts) < MaxReceipts
    BY <1>1, FS_CardinalityType DEF MakeReceipt
  <2>4. PartiesOf(k[1]) \subseteq Agents
    BY <1>1, <2>1, SessionTyped DEF MakeReceipt, Session, PartiesOf
  <2>5. [id |-> Cardinality(receipts) + 1, sid |-> k[1], parties |-> PartiesOf(k[1]),
         outcome |-> store[k[1]].state] \in Receipt
    BY <2>1, <2>2, <2>3, <2>4 DEF Receipt, Outcomes
  <2> QED
    BY <1>1, <2>5, FS_AddElement DEF MakeReceipt
<1>2. ASSUME NEW k \in Keys, MakeReceipt(k)
      PROVE  AttestationsTyped' /\ BundlesTyped'
  BY <1>0, <1>1, <1>2 DEF MakeReceipt, AttestationsTyped, BundlesTyped, BundleTyped
<1>3. ASSUME NEW a \in Agents, NEW r \in receipts, Submit(a, r)
      PROVE  AttestationsTyped' /\ BundlesTyped' /\ UNCHANGED receipts
  <2>1. PICK att : /\ Ingest(a, att) /\ att.receipt = r
                   /\ \E n \in 1..MaxReceipts, told \in Outcomes, v \in Versions,
                         ps \in SUBSET r.parties :
                        att = [receipt |-> r, id |-> n, told |-> told, version |-> v,
                               parties |-> ps]
    BY <1>3, IngestSteps
  <2>2. att \in Attestation
    <3>1. r \in Receipt /\ r.parties \subseteq Agents
      BY DEF Receipt
    <3> QED
      BY <2>1, <3>1 DEF Attestation
  <2>3. attested' = attested \union {att} /\ UNCHANGED <<receipts, bundles>>
    BY <2>1 DEF Ingest
  <2> QED
    BY <1>0, <2>1, <2>2, <2>3 DEF AttestationsTyped, BundlesTyped, BundleTyped
<1>4. ASSUME NEW a \in Agents, NEW s \in Sids, NEW atts \in (SUBSET AttestedOf(a)) \ {{}},
             MakeBundle(a, atts, s)
      PROVE  /\ UNCHANGED <<receipts, attested>>
             /\ AttestationsTyped' /\ BundlesTyped'
  <2>1. bundles' = bundles \union {[agent |-> a, key |-> s, attestations |-> atts]}
    BY <1>4 DEF MakeBundle
  <2>2. BundleTyped([agent |-> a, key |-> s, attestations |-> atts])
    BY DEF BundleTyped, AttestedOf
  <2>3. UNCHANGED <<receipts, attested>>
    BY <1>4 DEF MakeBundle
  <2> QED
    BY <1>0, <2>1, <2>2, <2>3 DEF AttestationsTyped, BundlesTyped, BundleTyped
<1>5. CASE Restart
  BY <1>0, <1>5 DEF Restart, AttestationsTyped, BundlesTyped
<1>6. CASE \/ \E s \in Sids, i, r \in Agents, ttl \in SessionTTLs : OpenSession(s, i, r, ttl)
           \/ \E k \in Keys : \/ Propose(k) \/ Accept(k) \/ Commit(k) \/ Reject(k)
                              \/ Refuse(k) \/ View(k)
           \/ \E a \in Agents, c \in Clients : Register(a, c) \/ Deregister(a, c)
           \/ \E a \in Agents : FailToRegister(a)
           \/ \E as \in SUBSET Agents : Prune(as)
           \/ Tick /\ UNCHANGED <<tokenVars, owner, sessionVars, seen, reputation>>
           \/ UNCHANGED vars
  <2>1. UNCHANGED reputation
    BY <1>6 DEF OpenSession, Propose, Accept, Commit, Reject, Becomes, Speaks, Refuse, View,
                Register, Deregister, FailToRegister, Prune, vars
  <2> QED
    BY <1>0, <2>1 DEF reputation, AttestationsTyped, BundlesTyped, BundleTyped
<1>7. CASE \E k \in Keys : MakeReceipt(k)
  BY <1>1, <1>2, <1>7
<1>8. CASE \E a \in Agents, r \in receipts : Submit(a, r)
  BY <1>3, <1>8
<1>9. CASE \E a \in Agents, s \in Sids : \E atts \in (SUBSET AttestedOf(a)) \ {{}} : MakeBundle(a, atts, s)
  BY <1>4, <1>9
<1> QED
  BY <1>5, <1>6, <1>7, <1>8, <1>9 DEF Next

LEMMA TypedKept == Typed /\ [Next]_vars => Typed'
<1> SUFFICES ASSUME Typed, [Next]_vars
             PROVE  Typed'
  OBVIOUS
<1>1. TypeOK /\ AuthTypeOK
  BY DEF Typed, TypeOK
<1>2. AuthTypeOK'
  BY <1>1, TokensTyped, RegistryTyped DEF AuthTypeOK, TokensAreTyped
<1>3. /\ store' \in [Sids -> Session \union {Absent}]
      /\ keyRegistry' \in [Agents -> Sids \union {None}]
      /\ seen' \in [Agents -> Times \union {None}]
  BY <1>1, StoreTyped, KeysTyped, RegistryTyped
<1>4. /\ receipts' \subseteq Receipt /\ IsFiniteSet(receipts')
      /\ AttestationsTyped' /\ BundlesTyped'
  BY ReputationTyped
<1> QED
  BY <1>2, <1>3, <1>4 DEF Typed, TypeOK, AttestationsTyped, BundlesTyped, BundleTyped

LEMMA TypedKeeps == Spec => []Typed
<1>1. Init => Typed
  BY FS_EmptySet DEF Init, AuthInit, Typed, TypeOK, AuthTypeOK, Times, Expiries
<1> QED
  BY <1>1, TypedKept, PTL DEF Spec

\* Every variable keeps the type of the attribute it stands for.
THEOREM ServerTypeCorrect == Spec => []TypeOK
<1>1. Typed => TypeOK
  BY DEF Typed
<1> QED
  BY <1>1, TypedKeeps, PTL

(***************************************************************************)
(* Tokens                                                                  *)
(***************************************************************************)

\* What the two properties of the tokens say of one that is loaded, and of one that is
\* dropped or not: dropping and loading take a token or leave it as it is.
LEMMA DroppedLeaves ==
  ASSUME TypeOK, NEW ks, NEW k \in Keys
  PROVE  /\ Dropped(ks)[k] \in {None, expires[k]}
         /\ Alive(expires[k]) => Dropped(ks)[k] = expires[k]
<1>1. now \in Int /\ expires[k] \in Int
  BY DEF TypeOK, AuthTypeOK, Times, Expiries, None
<1> QED
  BY <1>1 DEF Dropped, Alive, Elapsed

LEMMA LoadedLeaves ==
  ASSUME NEW k \in Keys
  PROVE  /\ Loaded[k] \in {None, disk[k]}
         /\ Alive(disk[k]) => Loaded[k] = disk[k]
         /\ Alive(Loaded[k]) => Loaded[k] = disk[k]
  BY DEF Loaded, Alive

\* A token expires at the time it was issued for, through drops, failed writes and restarts.
THEOREM TermKept == Spec => []TokensKeepTheirTerm
<1>1. Init => TokensKeepTheirTerm
  BY DEF Init, AuthInit, TokensKeepTheirTerm
<1>2. TypeOK /\ TokensKeepTheirTerm /\ [Next]_vars => TokensKeepTheirTerm'
  <2> SUFFICES ASSUME TypeOK, TokensKeepTheirTerm, [Next]_vars,
                      NEW k \in Keys, NEW e \in {expires[k], disk[k]}', e # None
               PROVE  born'[k[1]] # None /\ e = born'[k[1]] + TokenTTL
    BY DEF TokensKeepTheirTerm
  <2> DEFINE Kept(x) == x # None => born[k[1]] # None /\ x = born[k[1]] + TokenTTL
  <2>1. Kept(expires[k]) /\ Kept(disk[k])
    BY DEF TokensKeepTheirTerm
  <2>2. k[1] \in Sids
    BY DEF Keys
  <2>3. CASE TokensStay \/ TokensAge
    BY <2>1, <2>3 DEF TokensStay, TokensAge, tokenVars
  <2>4. CASE TokensLoaded
    BY <2>1, <2>4, LoadedLeaves DEF TokensLoaded, Load, Persist
  <2>7. CASE TokensNotFound
    BY <2>1, <2>7 DEF TokensNotFound, FailToLoad
  <2>5. ASSUME NEW ks, TokensDropped(ks)
        PROVE  born'[k[1]] # None /\ e = born'[k[1]] + TokenTTL
    BY <2>1, <2>5, DroppedLeaves DEF TokensDropped, Persist
  <2>6. ASSUME NEW s \in Sids, TokensIssued(s)
        PROVE  born'[k[1]] # None /\ e = born'[k[1]] + TokenTTL
    <3>1. expires'[k] = IF k[1] = s THEN now + TokenTTL ELSE expires[k]
      BY <2>6 DEF TokensIssued, Issue
    <3>2. born'[k[1]] = IF k[1] = s THEN now ELSE born[k[1]]
      BY <2>2, <2>6 DEF TokensIssued, TypeOK, AuthTypeOK
    <3>3. disk'[k] \in {expires'[k], disk[k]}
      BY <2>6 DEF TokensIssued, Issue, Persist
    <3>4. k[1] = s => disk[k] = None
      BY <2>1, <2>6 DEF TokensIssued, Unborn
    <3>5. now # None
      BY DEF TypeOK, AuthTypeOK, Times, None
    <3> QED
      BY <2>1, <3>1, <3>2, <3>3, <3>4, <3>5
  <2> QED
    BY <2>3, <2>4, <2>5, <2>6, <2>7, TokenSteps
<1> QED
  BY <1>1, <1>2, ServerTypeCorrect, PTL DEF Spec

\* Memory and file agree about every live token that no failure has kept from either.
LEMMA FileKeepsUp == Spec => []FileAgrees
<1>1. Init => FileAgrees
  BY DEF Init, AuthInit, FileAgrees, Alive
<1>2. TypeOK /\ TokensKeepTheirTerm /\ FileAgrees /\ [Next]_vars => FileAgrees'
  <2> SUFFICES ASSUME TypeOK, TokensKeepTheirTerm, FileAgrees, [Next]_vars,
                      NEW k \in Keys
               PROVE  /\ loaded' /\ Alive(disk[k])' => expires'[k] = disk'[k]
                      /\ saved' /\ Alive(expires[k])' => disk'[k] = expires'[k]
    BY DEF FileAgrees
  <2>1. /\ loaded /\ Alive(disk[k]) => expires[k] = disk[k]
        /\ saved /\ Alive(expires[k]) => disk[k] = expires[k]
    BY DEF FileAgrees
  <2>2. CASE TokensStay
    BY <2>1, <2>2 DEF TokensStay, tokenVars, Alive
  <2>3. CASE TokensAge
    <3>1. (Alive(disk[k])' => Alive(disk[k])) /\ (Alive(expires[k])' => Alive(expires[k]))
      BY <2>3 DEF TokensAge, Tick, tokenVars, Alive, TypeOK, AuthTypeOK, Times, Expiries, None
    <3> QED
      BY <2>1, <2>3, <3>1 DEF TokensAge, tokenVars
  <2>4. CASE TokensLoaded
    <3>1. expires' = Loaded /\ now' = now
      BY <2>4 DEF TokensLoaded, Load
    <3>2. disk' = Loaded \/ disk' = disk
      BY <2>4 DEF TokensLoaded, Load, Persist
    <3> QED
      BY <3>1, <3>2, LoadedLeaves DEF Alive
  <2>7. CASE TokensNotFound
    <3>1. expires'[k] = None /\ loaded' = FALSE
      BY <2>7 DEF TokensNotFound, FailToLoad
    <3> QED
      BY <3>1 DEF Alive
  <2>5. ASSUME NEW ks, TokensDropped(ks)
        PROVE  /\ loaded' /\ Alive(disk[k])' => expires'[k] = disk'[k]
               /\ saved' /\ Alive(expires[k])' => disk'[k] = expires'[k]
    <3>1. expires'[k] \in {None, expires[k]} /\ now' = now
      BY <2>5, DroppedLeaves DEF TokensDropped
    <3>2. Alive(expires[k]) => expires'[k] = expires[k]
      BY <2>5, DroppedLeaves DEF TokensDropped
    <3>3. CASE disk' = expires'
      BY <3>3
    <3>4. CASE disk' = disk /\ (saved' = FALSE \/ saved' = saved) /\ loaded' = loaded
      BY <2>1, <3>1, <3>2, <3>4 DEF Alive
    <3> QED
      BY <2>5, <3>3, <3>4 DEF TokensDropped, Persist
  <2>6. ASSUME NEW s \in Sids, TokensIssued(s)
        PROVE  /\ loaded' /\ Alive(disk[k])' => expires'[k] = disk'[k]
               /\ saved' /\ Alive(expires[k])' => disk'[k] = expires'[k]
    <3>1. CASE disk' = expires'
      BY <3>1
    <3>2. CASE disk' = disk /\ saved' = FALSE /\ loaded' = loaded
      <4>1. k[1] = s => disk[k] = None
        BY <2>6 DEF TokensIssued, Unborn, TokensKeepTheirTerm
      <4>2. k[1] # s => expires'[k] = expires[k]
        BY <2>6 DEF TokensIssued, Issue
      <4>3. now' = now
        BY <2>6 DEF TokensIssued
      <4> QED
        BY <2>1, <3>2, <4>1, <4>2, <4>3 DEF Alive
    <3> QED
      BY <2>6, <3>1, <3>2 DEF TokensIssued, Issue, Persist
  <2> QED
    BY <2>2, <2>3, <2>4, <2>5, <2>6, <2>7, TokenSteps
<1> QED
  BY <1>1, <1>2, ServerTypeCorrect, TermKept, PTL DEF Spec

\* A live token is lost from memory only by a restart that cannot read the file or that
\* follows a failed write, and from the file only after it could not be read.
THEOREM OnlyFailuresLose == Spec => LostByFailureOnly
<1>1. TypeOK /\ TokensKeepTheirTerm /\ FileAgrees /\ [Next]_vars =>
        \A k \in Keys :
          /\ Alive(expires[k]) /\ expires'[k] # expires[k] => ~saved \/ ~loaded'
          /\ Alive(disk[k]) /\ disk'[k] # disk[k] => ~loaded
  <2> SUFFICES ASSUME TypeOK, TokensKeepTheirTerm, FileAgrees, [Next]_vars, NEW k \in Keys
               PROVE  /\ Alive(expires[k]) /\ expires'[k] # expires[k] => ~saved \/ ~loaded'
                      /\ Alive(disk[k]) /\ disk'[k] # disk[k] => ~loaded
    OBVIOUS
  <2>1. /\ loaded /\ Alive(disk[k]) => expires[k] = disk[k]
        /\ saved /\ Alive(expires[k]) => disk[k] = expires[k]
    BY DEF FileAgrees
  <2>2. CASE TokensStay \/ TokensAge
    BY <2>2 DEF TokensStay, TokensAge, tokenVars
  <2>3. CASE TokensLoaded
    <3>1. expires' = Loaded /\ (disk' = Loaded \/ disk' = disk)
      BY <2>3 DEF TokensLoaded, Load, Persist
    <3> QED
      BY <2>1, <3>1, LoadedLeaves
  <2>4. CASE TokensNotFound
    BY <2>4 DEF TokensNotFound, FailToLoad
  <2>5. ASSUME NEW ks, TokensDropped(ks)
        PROVE  /\ Alive(expires[k]) => expires'[k] = expires[k]
               /\ Alive(disk[k]) /\ disk'[k] # disk[k] => ~loaded
    <3>1. expires' = Dropped(ks) /\ (disk' = expires' \/ disk' = disk)
      BY <2>5 DEF TokensDropped, Persist
    <3> QED
      BY <2>1, <3>1, DroppedLeaves
  <2>6. ASSUME NEW s \in Sids, TokensIssued(s)
        PROVE  /\ Alive(expires[k]) => expires'[k] = expires[k]
               /\ Alive(disk[k]) /\ disk'[k] # disk[k] => ~loaded
    <3>1. k[1] = s => expires[k] = None /\ disk[k] = None
      BY <2>6 DEF TokensIssued, Unborn, TokensKeepTheirTerm
    <3>2. k[1] # s => expires'[k] = expires[k]
      BY <2>6 DEF TokensIssued, Issue
    <3>3. disk' = expires' \/ disk' = disk
      BY <2>6 DEF TokensIssued, Issue, Persist
    <3> QED
      BY <2>1, <3>1, <3>2, <3>3 DEF Alive
  <2> QED
    BY <2>2, <2>3, <2>4, <2>5, <2>6, TokenSteps
<1>2. [\A k \in Keys :
          /\ Alive(expires[k]) /\ expires'[k] # expires[k] => ~saved \/ ~loaded'
          /\ Alive(disk[k]) /\ disk'[k] # disk[k] => ~loaded]_vars
      => [\A k \in Keys :
          /\ Alive(expires[k]) /\ expires'[k] # expires[k] => ~saved \/ ~loaded'
          /\ Alive(disk[k]) /\ disk'[k] # disk[k] => ~loaded]_tokenVars
  BY DEF vars
<1> QED
  BY <1>1, <1>2, ServerTypeCorrect, TermKept, FileKeepsUp, PTL DEF Spec, LostByFailureOnly

(***************************************************************************)
(* The registry                                                            *)
(***************************************************************************)

\* Pruning takes an entry or leaves it as it is.
LEMMA PrunedLeaves ==
  ASSUME NEW agents, NEW a \in Agents
  PROVE  Pruned(agents)[a] \in {agents[a], None}
  BY DEF Pruned

\* An entry that time or pruning leaves registered was registered before.
LEMMA RegisteredBefore ==
  ASSUME TypeOK, NEW a \in Agents,
         now' \in {now, now + 1}, seen'[a] \in {seen[a], None}, Registered(a)'
  PROVE  Registered(a)
<1>1. now \in Int /\ seen[a] \in Int /\ RegistrationTTL \in Int
  BY DEF TypeOK, AuthTypeOK, Times, None
<1> QED
  BY <1>1 DEF Registered, Lapsed

LEMMA OthersRegisteredBefore ==
  ASSUME TypeOK, NEW a \in Agents, NEW c \in Clients,
         Register(a, c) \/ Deregister(a, c),
         NEW b \in Agents, b # a
  PROVE  /\ owner'[b] = owner[b]
         /\ Registered(b)' => Registered(b)
<1>1. owner'[b] = owner[b]
  BY DEF Register, Deregister, Revoke, Hand, TypeOK, AuthTypeOK
<1>2. now' = now
  BY DEF Register, Deregister
<1>3. seen'[b] \in {seen[b], None}
  <2>1. [seen EXCEPT ![a] = now][b] = seen[b] /\ [seen EXCEPT ![a] = None][b] = seen[b]
    BY DEF TypeOK
  <2>2. seen' = Pruned([seen EXCEPT ![a] = now]) \/ seen' = Pruned([seen EXCEPT ![a] = None])
    BY DEF Register, Deregister
  <2> QED
    BY <2>1, <2>2, PrunedLeaves
<1> QED
  BY <1>1, <1>2, <1>3, RegisteredBefore

\* A registered agent has an owner: registry and token store never part.
THEOREM RegistrationsOwned == Spec => []RegistrationsAreOwned
<1>1. Init => RegistrationsAreOwned
  BY DEF Init, RegistrationsAreOwned, Registered
<1>2. TypeOK /\ RegistrationsAreOwned /\ [Next]_vars => RegistrationsAreOwned'
  <2> SUFFICES ASSUME TypeOK, RegistrationsAreOwned, [Next]_vars,
                      NEW b \in Agents, Registered(b)'
               PROVE  owner'[b] # Nobody
    BY DEF RegistrationsAreOwned
  <2>1. CASE RegistryShrinks
    BY <2>1, RegisteredBefore DEF RegistryShrinks, RegistrationsAreOwned
  <2>2. ASSUME NEW a \in Agents, NEW c \in Clients, Register(a, c)
        PROVE  owner'[b] # Nobody
    <3>1. CASE b = a
      BY <2>2, <3>1 DEF Register, Hand, TypeOK, AuthTypeOK
    <3> QED
      BY <2>2, <3>1, OthersRegisteredBefore DEF RegistrationsAreOwned
  <2>3. ASSUME NEW a \in Agents, NEW c \in Clients, Deregister(a, c)
        PROVE  owner'[b] # Nobody
    <3>1. CASE b = a
      <4>1. [seen EXCEPT ![a] = None][a] = None
        BY DEF TypeOK
      <4>2. seen'[a] = None
        BY <2>3, <4>1, PrunedLeaves DEF Deregister
      <4> QED
        BY <3>1, <4>2 DEF Registered
    <3> QED
      BY <2>3, <3>1, OthersRegisteredBefore DEF RegistrationsAreOwned
  <2>4. CASE Restart
    BY <2>4 DEF Restart, Registered
  <2> QED
    BY <2>1, <2>2, <2>3, <2>4, RegistrySteps
<1> QED
  BY <1>1, <1>2, ServerTypeCorrect, PTL DEF Spec

\* While an agent is registered its token passes to no other client.
THEOREM NobodyTakesOver == Spec => NoTakeover
<1>1. TypeOK /\ [Next]_vars =>
        \A a \in Agents : Registered(a) /\ owner[a] # Nobody => owner'[a] \in {owner[a], Nobody}
  <2> SUFFICES ASSUME TypeOK, [Next]_vars, NEW b \in Agents, Registered(b)
               PROVE  owner'[b] \in {owner[b], Nobody}
    OBVIOUS
  <2>1. CASE RegistryShrinks
    BY <2>1 DEF RegistryShrinks
  <2>2. ASSUME NEW a \in Agents, NEW c \in Clients, Register(a, c)
        PROVE  owner'[b] \in {owner[b], Nobody}
    BY <2>2, OthersRegisteredBefore DEF Register, Hand, Entitled, TypeOK, AuthTypeOK
  <2>3. ASSUME NEW a \in Agents, NEW c \in Clients, Deregister(a, c)
        PROVE  owner'[b] \in {owner[b], Nobody}
    BY <2>3, OthersRegisteredBefore DEF Deregister, Revoke, Hand, TypeOK, AuthTypeOK
  <2>4. CASE Restart
    BY <2>4 DEF Restart, Reload
  <2> QED
    BY <2>1, <2>2, <2>3, <2>4, RegistrySteps
<1> QED
  BY <1>1, ServerTypeCorrect, PTL DEF Spec, NoTakeover

(***************************************************************************)
(* The session store                                                       *)
(***************************************************************************)

LEMMA TimePasses ==
  ASSUME [Next]_vars
  PROVE  now' = now \/ now' = now + 1
  BY TokenSteps DEF TokensStay, TokensAge, Tick, TokensLoaded, TokensNotFound, TokensIssued,
                     TokensDropped

\* When no session is new the store holds no more, and no more live ones of anyone.
LEMMA NoMoreStored ==
  ASSUME TypeOK, [Next]_vars, UNCHANGED born,
         \A s \in Sids : store'[s] # Absent =>
           /\ store[s] # Absent
           /\ store'[s].initiator = store[s].initiator
           /\ store'[s].ttl = store[s].ttl
           /\ store'[s].state = "active" => store[s].state = "active"
  PROVE  /\ Stored' \subseteq Stored
         /\ \A a \in Agents : ActiveOf(a)' \subseteq ActiveOf(a)
<1>1. Stored' \subseteq Stored
  BY DEF Stored
<1>2. ASSUME NEW a \in Agents, NEW s \in ActiveOf(a)'
      PROVE  s \in ActiveOf(a)
  <2>1. s \in Sids /\ store'[s] # Absent
    BY DEF ActiveOf, Stored
  <2>2. now \in Int /\ born[s] \in Int
    BY <2>1 DEF TypeOK, AuthTypeOK, Times, None
  <2>3. now' \in Int /\ now' >= now
    BY <2>2, TimePasses
  <2>4. store[s].ttl \in Int
    <3>1. store[s] \in Session
      BY <2>1, SessionTyped
    <3>2. store[s].ttl \in SessionTTLs
      BY <3>1 DEF Session
    <3>3. SessionTTLs \subseteq Nat
      OBVIOUS
    <3>4. store[s].ttl \in Nat
      BY <3>2, <3>3, Zenon
    <3> QED
      BY <3>4
  <2>5. ~TTLElapsed(s)' => ~TTLElapsed(s)
    <3>1. born'[s] = born[s] /\ store'[s].ttl = store[s].ttl
      BY <2>1
    <3> QED
      BY <2>2, <2>3, <2>4, <3>1 DEF TTLElapsed
  <2> QED
    BY <1>1, <2>1, <2>5 DEF ActiveOf, Stored
<1> QED
  BY <1>1, <1>2

\* A move takes an active session on; the others stay as they are.
LEMMA MovesOn ==
  ASSUME TypeOK, NEW k \in Keys, Moves(k), NEW s \in Sids, store'[s] # Absent
  PROVE  /\ store[s] # Absent
         /\ store'[s].initiator = store[s].initiator
         /\ store'[s].ttl = store[s].ttl
         /\ store'[s].state = "active" => store[s].state = "active"
         /\ s # k[1] => store'[s] = store[s]
<1>1. k[1] \in Sids
  BY DEF Keys
<1>2. CASE s # k[1]
  BY <1>1, <1>2 DEF Moves, Propose, TypeOK
<1>3. CASE s = k[1]
  <2>1. store[s] \in Session /\ store[s].state = "active"
    BY <1>3, SessionTyped DEF Moves
  <2>2. CASE Propose(k)
    <3>1. store'[s] = [store[s] EXCEPT !.rounds = store[s].rounds + 1]
      BY <1>3, <2>2 DEF Propose, TypeOK
    <3> QED
      BY <1>3, <2>1, <3>1 DEF Moves, Session
  <2>3. ASSUME NEW state \in {"agreed", "rejected"}, store' = [store EXCEPT ![k[1]].state = state]
        PROVE  /\ store'[s].initiator = store[s].initiator
               /\ store'[s].ttl = store[s].ttl
    <3>1. store'[s] = [store[s] EXCEPT !.state = state]
      BY <1>3, <2>3 DEF TypeOK
    <3> QED
      BY <2>1, <3>1 DEF Session
  <2> QED
    BY <1>3, <2>1, <2>2, <2>3 DEF Moves
<1> QED
  BY <1>2, <1>3

Limited == IsFiniteSet(Stored) /\ WithinLimits

LEMMA LimitedIfNoMore ==
  ASSUME Limited, Stored' \subseteq Stored, \A a \in Agents : ActiveOf(a)' \subseteq ActiveOf(a)
  PROVE  Limited'
<1>1. IsFiniteSet(Stored)' /\ Cardinality(Stored)' <= Cardinality(Stored)
  BY FS_Subset DEF Limited
<1>2. ASSUME NEW a \in Agents
      PROVE  IsFiniteSet(ActiveOf(a)) /\ Cardinality(ActiveOf(a))' <= Cardinality(ActiveOf(a))
  <2>1. ActiveOf(a) \subseteq Stored
    BY DEF ActiveOf
  <2>2. IsFiniteSet(ActiveOf(a))
    BY <2>1, FS_Subset DEF Limited
  <2> QED
    BY <2>2, FS_Subset
<1>3. /\ Cardinality(Stored) \in Int /\ Cardinality(Stored)' \in Int
      /\ MaxSessions \in Int /\ MaxActive \in Int
  BY <1>1, FS_CardinalityType DEF Limited
<1>4. ASSUME NEW a \in Agents
      PROVE  Cardinality(ActiveOf(a))' <= MaxActive
  <2>1. IsFiniteSet(ActiveOf(a)') /\ IsFiniteSet(ActiveOf(a))
    BY <1>2, FS_Subset
  <2>2. Cardinality(ActiveOf(a)) \in Int /\ Cardinality(ActiveOf(a)') \in Int
    BY <2>1, FS_CardinalityType
  <2> QED
    BY <1>2, <1>3, <2>2 DEF Limited, WithinLimits
<1> QED
  BY <1>1, <1>3, <1>4 DEF Limited, WithinLimits

LEMMA OneMore ==
  ASSUME NEW S, IsFiniteSet(S), NEW x
  PROVE  /\ IsFiniteSet(S \union {x})
         /\ Cardinality(S) \in Int /\ Cardinality(S \union {x}) \in Int
         /\ Cardinality(S \union {x}) <= Cardinality(S) + 1
<1>1. /\ IsFiniteSet(S \union {x})
      /\ Cardinality(S \union {x}) = IF x \in S THEN Cardinality(S) ELSE Cardinality(S) + 1
  BY FS_AddElement
<1>2. Cardinality(S) \in Nat
  BY FS_CardinalityType
<1> QED
  BY <1>1, <1>2

LEMMA LimitedIfOpened ==
  ASSUME TypeOK, Limited,
         NEW s \in Sids, NEW i \in Agents, NEW r \in Agents, NEW ttl \in SessionTTLs,
         OpenSession(s, i, r, ttl)
  PROVE  Limited'
<1>1. /\ \A x \in Sids : x # s => store'[x] = store[x] /\ born'[x] = born[x]
      /\ store'[s].initiator = i
      /\ now' = now
  BY DEF OpenSession, TypeOK, AuthTypeOK
<1>2. Stored' \subseteq Stored \union {s}
  BY <1>1 DEF Stored
<1>3. IsFiniteSet(Stored') /\ Cardinality(Stored') <= MaxSessions
  <2>1. /\ IsFiniteSet(Stored \union {s})
        /\ Cardinality(Stored) \in Int /\ Cardinality(Stored \union {s}) \in Int
        /\ Cardinality(Stored \union {s}) <= Cardinality(Stored) + 1
    BY OneMore DEF Limited
  <2>2. MaxSessions \in Int /\ Cardinality(Stored) < MaxSessions
    BY DEF OpenSession, RoomFor
  <2>3. IsFiniteSet(Stored') /\ Cardinality(Stored') <= Cardinality(Stored \union {s})
    BY <1>2, <2>1, FS_Subset
  <2>4. Cardinality(Stored') \in Int
    BY <2>3, FS_CardinalityType
  <2> QED
    BY <2>1, <2>2, <2>3, <2>4
<1>4. ASSUME NEW a \in Agents
      PROVE  Cardinality(ActiveOf(a)') <= MaxActive
  <2>1. ActiveOf(a) \subseteq Stored
    BY DEF ActiveOf
  <2>2. IsFiniteSet(ActiveOf(a))
    BY <2>1, FS_Subset DEF Limited
  <2>3. /\ IsFiniteSet(ActiveOf(a) \union {s})
        /\ Cardinality(ActiveOf(a)) \in Int /\ Cardinality(ActiveOf(a) \union {s}) \in Int
        /\ Cardinality(ActiveOf(a) \union {s}) <= Cardinality(ActiveOf(a)) + 1
    BY <2>2, OneMore
  <2>4. ActiveOf(a)' \subseteq ActiveOf(a) \union {s}
    BY <1>1, <1>2 DEF ActiveOf, TTLElapsed, Stored
  <2>5. IsFiniteSet(ActiveOf(a)') /\ Cardinality(ActiveOf(a)') \in Int
    BY <2>3, <2>4, FS_Subset, FS_CardinalityType
  <2>6. MaxActive \in Int
    OBVIOUS
  <2>7. CASE a = i
    <3>1. Cardinality(ActiveOf(a)') <= Cardinality(ActiveOf(a) \union {s})
      BY <2>3, <2>4, FS_Subset
    <3>2. Cardinality(ActiveOf(a)) < MaxActive
      BY <2>7 DEF OpenSession, RoomFor
    <3> QED
      BY <2>3, <2>5, <2>6, <3>1, <3>2
  <2>8. CASE a # i
    <3>1. ActiveOf(a)' \subseteq ActiveOf(a)
      BY <1>1, <2>4, <2>8 DEF ActiveOf
    <3>2. Cardinality(ActiveOf(a)') <= Cardinality(ActiveOf(a))
      BY <2>2, <3>1, FS_Subset
    <3> QED
      BY <2>3, <2>5, <2>6, <3>2 DEF Limited, WithinLimits
  <2> QED
    BY <2>7, <2>8
<1> QED
  BY <1>3, <1>4 DEF Limited, WithinLimits

\* The session store and the live sessions of each initiator stay within their limits.
THEOREM LimitsKept == Spec => []WithinLimits
<1>1. Init => Limited
  <2> SUFFICES ASSUME Init
               PROVE  Limited
    OBVIOUS
  <2>1. Stored = {} /\ \A a \in Agents : ActiveOf(a) = {}
    BY DEF Init, Stored, ActiveOf
  <2>2. 0 <= MaxSessions /\ 0 <= MaxActive
    OBVIOUS
  <2> QED
    BY <2>1, <2>2, FS_EmptySet DEF Limited, WithinLimits
<1>2. TypeOK /\ Limited /\ [Next]_vars => Limited'
  <2> SUFFICES ASSUME TypeOK, Limited, [Next]_vars
               PROVE  Limited'
    OBVIOUS
  <2>1. CASE \E s \in Sids, i, r \in Agents, ttl \in SessionTTLs : OpenSession(s, i, r, ttl)
    BY <2>1, LimitedIfOpened
  <2>2. CASE \/ SessionsStay
             \/ \E k \in Keys : MakeReceipt(k)
             \/ \E a \in Agents, r \in receipts : Submit(a, r)
    <3>1. UNCHANGED store /\ UNCHANGED born
      BY <2>2, SubmitLeaves DEF SessionsStay, MakeReceipt, sessionVars
    <3> QED
      BY <3>1, NoMoreStored, LimitedIfNoMore
  <2>3. ASSUME NEW k \in Keys, Moves(k)
        PROVE  Limited'
    <3>1. UNCHANGED born
      BY <2>3 DEF Moves
    <3> QED
      BY <2>3, <3>1, MovesOn, NoMoreStored, LimitedIfNoMore
  <2>4. CASE Restart
    <3>1. UNCHANGED born /\ \A s \in Sids : store'[s] = Absent
      BY <2>4 DEF Restart
    <3>2. Stored' = {} /\ \A a \in Agents : ActiveOf(a)' = {}
      BY <3>1 DEF Stored, ActiveOf
    <3> QED
      BY <3>2, LimitedIfNoMore
  <2> QED
    BY <2>1, <2>2, <2>3, <2>4, SessionSteps
<1>3. Limited => WithinLimits
  BY DEF Limited
<1> QED
  BY <1>1, <1>2, <1>3, ServerTypeCorrect, PTL DEF Spec

(***************************************************************************)
(* Attestations and bundles                                                *)
(***************************************************************************)

\* What an attestation that is bound says is what its receipt said.
LEMMA BoundTells ==
  ASSUME NEW att, Bound(att)
  PROVE  att.told = att.receipt.outcome
<1>1. SUFFICES ASSUME att.told # att.receipt.outcome
               PROVE  FALSE
  OBVIOUS
<1> DEFINE change == <<"outcome", att.told # att.receipt.outcome>>
<1>2. change[2]
  BY <1>1
<1>3. change \in Changes(att)
  BY <1>2 DEF Changes
<1> QED
  BY <1>3 DEF Bound

\* A session is attested once.
THEOREM SessionsAttestedOnce == Spec => []AttestedOnce
<1>1. Init => AttestedOnce
  BY DEF Init, AttestedOnce
<1>2. AttestedOnce /\ [Next]_vars => AttestedOnce'
  <2> SUFFICES ASSUME AttestedOnce, [Next]_vars
               PROVE  AttestedOnce'
    OBVIOUS
  <2>1. ASSUME NEW a \in Agents, NEW r \in receipts, Submit(a, r)
        PROVE  AttestedOnce'
    <3>1. PICK att : Ingest(a, att)
      BY <2>1, IngestSteps
    <3> QED
      BY <3>1 DEF Ingest, NewAttestation, AttestedOnce
  <2>2. CASE Restart
    BY <2>2 DEF Restart, AttestedOnce
  <2>3. CASE \/ SessionsStay
             \/ \E s \in Sids, i, r \in Agents, ttl \in SessionTTLs : OpenSession(s, i, r, ttl)
             \/ \E k \in Keys : Moves(k) \/ MakeReceipt(k)
    <3>1. UNCHANGED attested
      BY <2>3 DEF SessionsStay, OpenSession, Moves, MakeReceipt, reputation
    <3> QED
      BY <3>1 DEF AttestedOnce
  <2> QED
    BY <2>1, <2>2, <2>3, SessionSteps
<1> QED
  BY <1>1, <1>2, PTL DEF Spec

\* Why bundles tell the truth: a receipt is of a session that has been opened, says what
\* that session, if it is still there, has come to, and sessions that are attested are.
Truthful ==
  /\ \A s \in Sids : store[s] # Absent => born[s] # None
  /\ \A r \in receipts : born[r.sid] # None
  /\ \A r \in receipts : store[r.sid] # Absent => store[r.sid].state = r.outcome
  /\ \A att \in attested : store[att.receipt.sid] # Absent

LEMMA TruthfulKept ==
  ASSUME TypeOK, Truthful, [Next]_vars
  PROVE  Truthful'
<1>1. CASE SessionsStay
  BY <1>1 DEF SessionsStay, Truthful
<1>2. ASSUME NEW s \in Sids, NEW i \in Agents, NEW r \in Agents, NEW ttl \in SessionTTLs,
             OpenSession(s, i, r, ttl)
      PROVE  Truthful'
  <2>1. /\ \A x \in Sids : x # s => store'[x] = store[x] /\ born'[x] = born[x]
        /\ born'[s] = now /\ now # None
        /\ born[s] = None
        /\ UNCHANGED <<receipts, attested>>
    BY <1>2 DEF OpenSession, Unborn, reputation, TypeOK, AuthTypeOK, Times, None
  <2>2. \A q \in receipts : q.sid \in Sids /\ q.sid # s
    BY <2>1 DEF Truthful, TypeOK, Receipt
  <2>3. \A att \in attested : att.receipt.sid \in Sids /\ att.receipt.sid # s
    BY <2>2 DEF TypeOK
  <2> QED
    BY <2>1, <2>2, <2>3, ZenonT(30) DEF Truthful
<1>3. ASSUME NEW k \in Keys, Moves(k)
      PROVE  Truthful'
  <2>1. UNCHANGED <<born, receipts, attested>>
    BY <1>3 DEF Moves
  <2>2. \A q \in receipts : q.sid \in Sids /\ q.outcome # "active"
    BY DEF TypeOK, Receipt, Outcomes
  <2>3. \A q \in receipts : q.sid # k[1]
    BY <1>3, <2>2 DEF Truthful, Moves
  <2>4. \A s \in Sids : s # k[1] => store'[s] = store[s]
    BY <1>3 DEF Moves, Propose, TypeOK
  <2>5. \A s \in Sids : store'[s] # Absent => store[s] # Absent
    BY <1>3, <2>4 DEF Moves
  <2>6. \A att \in attested : att.receipt.sid \in Sids /\ att.receipt.sid # k[1]
    BY <2>2, <2>3 DEF TypeOK
  <2> QED
    BY <2>1, <2>2, <2>3, <2>4, <2>5, <2>6 DEF Truthful
<1>4. ASSUME NEW k \in Keys, MakeReceipt(k)
      PROVE  Truthful'
  <2> DEFINE new == [id |-> Cardinality(receipts) + 1, sid |-> k[1],
                     parties |-> PartiesOf(k[1]), outcome |-> store[k[1]].state]
  <2>1. /\ receipts' = receipts \union {new}
        /\ UNCHANGED <<store, born, attested>>
        /\ store[k[1]] # Absent
    BY <1>4 DEF MakeReceipt, sessionVars
  <2>2. new.sid = k[1] /\ new.outcome = store[k[1]].state /\ k[1] \in Sids
    BY DEF Keys
  <2> HIDE DEF new
  <2>3. /\ \A r \in receipts' : born'[r.sid] # None
        /\ \A r \in receipts' : store'[r.sid] # Absent => store'[r.sid].state = r.outcome
    BY <2>1, <2>2 DEF Truthful
  <2>4. /\ \A s \in Sids : store'[s] # Absent => born'[s] # None
        /\ \A att \in attested' : store'[att.receipt.sid] # Absent
    BY <2>1 DEF Truthful
  <2> QED
    BY <2>3, <2>4, Zenon DEF Truthful
<1>5. ASSUME NEW a \in Agents, NEW r \in receipts, Submit(a, r)
      PROVE  Truthful'
  <2>1. PICK att : Ingest(a, att)
    BY <1>5, IngestSteps
  <2> QED
    BY <2>1 DEF Ingest, sessionVars, Truthful
<1>6. CASE Restart
  BY <1>6 DEF Restart, Truthful, TypeOK, Receipt
<1> QED
  BY <1>1, <1>2, <1>3, <1>4, <1>5, <1>6, SessionSteps

LEMMA TruthfulKeeps == Spec => []Truthful
<1>1. Init => Truthful
  BY DEF Init, Truthful
<1>2. TypeOK /\ Truthful /\ [Next]_vars => Truthful'
  BY TruthfulKept
<1> QED
  BY <1>1, <1>2, ServerTypeCorrect, PTL DEF Spec

\* A bundle that verifies tells of its sessions, each at most once, what they came to.
THEOREM BundlesTellTruth == Spec => []VerifiedBundlesTellTruth
<1>1. TypeOK /\ Truthful /\ AttestedOnce => VerifiedBundlesTellTruth
  <2> SUFFICES ASSUME TypeOK, Truthful, AttestedOnce, NEW b \in bundles, Verifies(b)
               PROVE  /\ \A att \in b.attestations :
                           Bound(att) => store[att.receipt.sid].state = att.told
                      /\ \A att, other \in b.attestations :
                           att.receipt.sid = other.receipt.sid => att = other
    BY DEF VerifiedBundlesTellTruth
  <2>1. b.attestations \subseteq attested
    BY DEF TypeOK
  <2>2. ASSUME NEW att \in b.attestations, Bound(att)
        PROVE  store[att.receipt.sid].state = att.told
    <3>1. att.receipt \in receipts /\ store[att.receipt.sid] # Absent
      BY <2>1 DEF TypeOK, Truthful
    <3> QED
      BY <2>2, <3>1, BoundTells DEF Truthful
  <2>3. \A att, other \in b.attestations : att.receipt.sid = other.receipt.sid => att = other
    BY <2>1 DEF AttestedOnce
  <2> QED
    BY <2>2, <2>3
<1> QED
  BY <1>1, ServerTypeCorrect, TruthfulKeeps, SessionsAttestedOnce, PTL

\* Why the agent's bundles stay together: sessions are opened in the order of their
\* identifiers, so the first session of an agent, with whose key it signs, stays the first.
KeysKept ==
  /\ \A x, y \in Sids : born[x] = None /\ born[y] # None => y <= x
  /\ \A s \in Sids : store[s] # Absent => born[s] # None
  /\ \A b \in bundles : HoldsKey(b.agent, b.key)

\* Only making a bundle adds one, and only a restart takes one.
BundlesStay == UNCHANGED bundles
LEMMA BundleSteps ==
  ASSUME [Next]_vars
  PROVE  \/ BundlesStay \/ Restart
         \/ \E a \in Agents, s \in Sids :
              \E atts \in (SUBSET AttestedOf(a)) \ {{}} : MakeBundle(a, atts, s)
<1>1. CASE \/ \E s \in Sids, i, r \in Agents, ttl \in SessionTTLs : OpenSession(s, i, r, ttl)
           \/ \E k \in Keys : \/ Propose(k) \/ Accept(k) \/ Commit(k) \/ Reject(k)
                              \/ Refuse(k) \/ View(k) \/ MakeReceipt(k)
           \/ \E a \in Agents, c \in Clients : Register(a, c) \/ Deregister(a, c)
           \/ \E a \in Agents : FailToRegister(a)
           \/ \E as \in SUBSET Agents : Prune(as)
           \/ Tick /\ UNCHANGED <<tokenVars, owner, sessionVars, seen, reputation>>
           \/ UNCHANGED vars
  BY <1>1 DEF OpenSession, Propose, Accept, Commit, Reject, Becomes, Speaks, Refuse, View,
              MakeReceipt, Register, Deregister, FailToRegister, Prune, vars, reputation,
              BundlesStay
<1>2. CASE \E a \in Agents, r \in receipts : Submit(a, r)
  BY <1>2, SubmitLeaves DEF BundlesStay
<1> QED
  BY <1>1, <1>2 DEF Next

\* Parties of a session that is kept, whatever else of it changes.
PartiesStay ==
  \A s \in Sids : store[s] # Absent =>
    /\ store'[s] # Absent
    /\ store'[s].initiator = store[s].initiator /\ store'[s].responder = store[s].responder

LEMMA HoldsKeyStays ==
  ASSUME PartiesStay, NEW a \in Agents, NEW s \in Sids, HoldsKey(a, s),
         \A t \in Sids : store'[t] # Absent /\ store[t] = Absent => s <= t
  PROVE  HoldsKey(a, s)'
<1>1. s \in Stored' /\ a \in PartiesOf(s)'
  BY DEF HoldsKey, Stored, PartiesOf, PartiesStay
<1>2. ASSUME NEW t \in Sids, store'[t] # Absent, a \in PartiesOf(t)'
      PROVE  s <= t
  BY <1>2 DEF HoldsKey, Stored, PartiesOf, PartiesStay
<1> QED
  BY <1>1, <1>2 DEF HoldsKey, Stored

LEMMA MovesKeepParties ==
  ASSUME TypeOK, NEW k \in Keys, Moves(k)
  PROVE  /\ PartiesStay
         /\ \A s \in Sids : store'[s] # Absent => store[s] # Absent
<1>1. k[1] \in Sids
  BY DEF Keys
<1>2. \A s \in Sids : s # k[1] => store'[s] = store[s]
  BY DEF Moves, Propose, TypeOK
<1> DEFINE old == store[k[1]]
<1>3. old \in Session /\ Absent \notin Session
  BY <1>1, SessionTyped DEF Moves
<1>4. /\ store'[k[1]] \in Session
      /\ store'[k[1]].initiator = old.initiator /\ store'[k[1]].responder = old.responder
  <2>1. CASE Propose(k)
    <3>1. store'[k[1]] = [old EXCEPT !.rounds = old.rounds + 1]
      BY <1>1, <2>1 DEF Propose, TypeOK
    <3>2. old.rounds + 1 \in 0..MaxRounds
      BY <1>3, <2>1 DEF Propose, Session
    <3> QED
      BY <1>3, <3>1, <3>2 DEF Session
  <2>2. ASSUME NEW state \in {"agreed", "rejected"}, store' = [store EXCEPT ![k[1]].state = state]
        PROVE  /\ store'[k[1]] \in Session
               /\ store'[k[1]].initiator = old.initiator
               /\ store'[k[1]].responder = old.responder
    <3>1. store'[k[1]] = [old EXCEPT !.state = state]
      BY <1>1, <2>2 DEF TypeOK
    <3> QED
      BY <1>3, <3>1 DEF Session
  <2> QED
    BY <2>1, <2>2 DEF Moves
<1> QED
  BY <1>2, <1>3, <1>4 DEF PartiesStay

LEMMA KeysKeptOn ==
  ASSUME TypeOK, KeysKept, [Next]_vars
  PROVE  KeysKept'
<1>0. \A b \in bundles : b.agent \in Agents /\ b.key \in Sids
  BY DEF TypeOK
<1>1. ASSUME NEW s \in Sids, NEW i \in Agents, NEW r \in Agents, NEW ttl \in SessionTTLs,
             OpenSession(s, i, r, ttl)
      PROVE  KeysKept'
  <2>1. /\ \A x \in Sids : x # s => store'[x] = store[x] /\ born'[x] = born[x]
        /\ born'[s] = now /\ now # None /\ born[s] = None
    BY <1>1 DEF OpenSession, Unborn, TypeOK, AuthTypeOK, Times, None
  <2>6. (\A x \in Unborn : s <= x) /\ UNCHANGED bundles
    BY <1>1 DEF OpenSession, reputation
  <2>2. \A x, y \in Sids : born'[x] = None /\ born'[y] # None => y <= x
    BY <2>1, <2>6 DEF KeysKept, Unborn
  <2>3. \A x \in Sids : store'[x] # Absent => born'[x] # None
    BY <2>1 DEF KeysKept
  <2>4. PartiesStay /\ store[s] = Absent
    BY <2>1 DEF KeysKept, PartiesStay
  <2>5. ASSUME NEW b \in bundles
        PROVE  HoldsKey(b.agent, b.key)'
    <3>1. HoldsKey(b.agent, b.key) /\ b.key \in Sids /\ b.agent \in Agents
      BY <1>0 DEF KeysKept
    <3>2. b.key <= s
      BY <2>1, <3>1 DEF KeysKept, HoldsKey, Stored
    <3>3. \A t \in Sids : store'[t] # Absent /\ store[t] = Absent => t = s
      BY <2>1
    <3> QED
      BY <2>4, <3>1, <3>2, <3>3, HoldsKeyStays
  <2> QED
    BY <2>2, <2>3, <2>5, <2>6 DEF KeysKept
<1>2. ASSUME PartiesStay, UNCHANGED <<born, bundles>>,
             \A s \in Sids : store'[s] # Absent => store[s] # Absent
      PROVE  KeysKept'
  <2>1. ASSUME NEW b \in bundles
        PROVE  HoldsKey(b.agent, b.key)'
    BY <1>0, <1>2, HoldsKeyStays DEF KeysKept
  <2> QED
    BY <1>2, <2>1 DEF KeysKept
<1>3. ASSUME NEW a \in Agents, NEW s \in Sids, NEW atts, MakeBundle(a, atts, s)
      PROVE  KeysKept'
  <2>1. /\ bundles' = bundles \union {[agent |-> a, key |-> s, attestations |-> atts]}
        /\ UNCHANGED <<store, born>> /\ HoldsKey(a, s)
    BY <1>3 DEF MakeBundle
  <2>2. ASSUME NEW b \in bundles'
        PROVE  HoldsKey(b.agent, b.key)
    BY <2>1, <2>2 DEF KeysKept
  <2>3. ASSUME NEW b \in bundles'
        PROVE  HoldsKey(b.agent, b.key)'
    BY <2>1, <2>2, <2>3 DEF HoldsKey, Stored, PartiesOf
  <2> QED
    BY <2>1, <2>3 DEF KeysKept
<1>4. CASE Restart
  BY <1>4 DEF Restart, KeysKept
<1>5. CASE BundlesStay
  <2>1. CASE SessionsStay
    BY <1>2, <1>5, <2>1 DEF SessionsStay, BundlesStay, PartiesStay
  <2>2. ASSUME NEW k \in Keys, Moves(k) \/ MakeReceipt(k)
        PROVE  KeysKept'
    <3>1. CASE Moves(k)
      <4>1. UNCHANGED born
        BY <3>1 DEF Moves
      <4> QED
        BY <1>2, <1>5, <3>1, <4>1, MovesKeepParties DEF BundlesStay
    <3>2. CASE MakeReceipt(k)
      BY <1>2, <1>5, <3>2 DEF MakeReceipt, sessionVars, BundlesStay, PartiesStay
    <3> QED
      BY <2>2, <3>1, <3>2
  <2>3. ASSUME NEW a \in Agents, NEW r \in receipts, Submit(a, r)
        PROVE  KeysKept'
    BY <1>2, <1>5, <2>3, SubmitLeaves DEF sessionVars, BundlesStay, PartiesStay
  <2> QED
    BY <1>1, <1>4, <2>1, <2>2, <2>3, SessionSteps
<1> QED
  BY <1>3, <1>4, <1>5, BundleSteps

LEMMA KeysKeptAlways == Spec => []KeysKept
<1>1. Init => KeysKept
  BY DEF Init, AuthInit, KeysKept
<1>2. TypeOK /\ KeysKept /\ [Next]_vars => KeysKept'
  BY KeysKeptOn
<1> QED
  BY <1>1, <1>2, ServerTypeCorrect, PTL DEF Spec

\* When a bundle is made, it and the agent's earlier bundles verify, but for changed
\* attestations.
THEOREM EarlierBundlesVerify == Spec => BundlesVerifyAgain
<1>1. TypeOK /\ Truthful /\ KeysKept /\ [Next]_vars =>
        \A b \in bundles' \ bundles : \A c \in bundles' :
          c.agent = b.agent /\ Sound(c) => Verifies(c)'
  <2> SUFFICES ASSUME TypeOK, Truthful, KeysKept, [Next]_vars,
                      NEW b \in bundles' \ bundles, NEW c \in bundles',
                      c.agent = b.agent, Sound(c)
               PROVE  Verifies(c)'
    OBVIOUS
  <2>1. PICK a \in Agents, s \in Sids :
          \E atts \in (SUBSET AttestedOf(a)) \ {{}} : MakeBundle(a, atts, s)
    BY BundleSteps DEF BundlesStay, Restart
  <2>2. PICK atts \in (SUBSET AttestedOf(a)) \ {{}} : MakeBundle(a, atts, s)
    BY <2>1
  <2>3. /\ bundles' = bundles \union {[agent |-> a, key |-> s, attestations |-> atts]}
        /\ UNCHANGED store /\ HoldsKey(a, s) /\ keyRegistry'[a] = s
    BY <2>2 DEF MakeBundle, TypeOK
  <2>4. c.agent = a
    BY <2>3
  <2>5. c.key = s
    <3>1. CASE c \in bundles
      <4>1. HoldsKey(a, c.key) /\ c.key \in Sids
        BY <2>4, <3>1 DEF KeysKept, TypeOK
      <4>2. c.key <= s /\ s <= c.key
        BY <2>3, <4>1 DEF HoldsKey, Stored
      <4>3. c.key \in Nat /\ s \in Nat
        BY <4>1
      <4> QED
        BY <4>2, <4>3
    <3> QED
      BY <2>3, <3>1
  <2>6. c.attestations \subseteq attested
    BY <2>3 DEF TypeOK, AttestedOf
  <2>7. \A att \in c.attestations : store'[att.receipt.sid] # Absent
    BY <2>3, <2>6 DEF Truthful
  <2>8. Sound(c)'
    BY DEF Sound, Bound, Changes
  <2> QED
    BY <2>3, <2>4, <2>5, <2>7, <2>8 DEF Verifies
<1> QED
  BY <1>1, ServerTypeCorrect, TruthfulKeeps, KeysKeptAlways, PTL DEF Spec, BundlesVerifyAgain

=============================================================================
