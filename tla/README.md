# Concordia in TLA+

TLA+ models of the Concordia protocol implementation (`src/concordia`, Python, with the
session and the mandate verifier of the TypeScript SDK beside it), TLC instances that
check them, and TLAPS proofs of what matters most.  The reference is the code: each
definition translates the lines that `PROJECT.json` ("map") gives for it.

## 1. The system

Concordia lets two agents negotiate: they exchange signed, hash-chained messages in a
*session*; an agreement or rejection is turned into a signed *attestation*; attestations
feed a reputation, and their holders show them in bundles and competence proofs.  Agents
find each other through wants, haves and profiles; their authority comes from mandates,
predicates and approval receipts that can be revoked.  An MCP server offers all of that
as tools; a relay stores and forwards messages between agents that are not connected.

| Component | Source | State | Operations | Model |
|---|---|---|---|---|
| Session | `session.py`, `agent.py`, `message.py`, `types.py` | state, transcript, round count, behavior records, conclusion, callback | `apply_message`, `expire`, `make_dormant`, the agents' sends | `NegotiationLog`, `Session` |
| SDK session | `js-sdk/src/session/` | the same, in TypeScript | `applyMessage`, `expire`, `makeDormant`, `validateChain` | `SdkSession` |
| Relay | `relay.py` | relay sessions, mailboxes, transcripts, archives | create, join, send, receive, conclude, archive, get | `Relay` |
| Token store | `auth.py` | agent tokens; session tokens with expiry; a file | register, revoke, validate, persist, load | `AuthTokens` |
| MCP server | `mcp_server.py` | session store, key registry, and the stores below | the tools | `McpServer`, and in the modules of their components |
| Agent registry | `registry.py` | registrations with `last_seen` and TTL | register, deregister, get, search, list, count | in `McpServer` |
| Attestations | `attestation.py` | none | generate, countersign, verify, verify below the current version | `Attestations` |
| Attestation store, scoring, queries | `reputation/` | attestations by id, session, agent; counterparties | ingest, score, answer | `Reputation`; ingestion also in `McpServer` |
| Bundles, competence proofs | `receipt_bundle.py`, `competence_proof.py` | bundles; none | create, commit, prove, verify | `Portfolios` |
| Want registry | `want_registry.py` | wants, haves, index by owner, matches | post, look up, withdraw, expire, match | `WantMatching`, `WantRegistry` |
| Agent profiles | `agent_profile/` | profiles with the mark of a verified signature | publish, get, delete, prune, search, recommend | `AgentProfiles` |
| Degraded interactions | `degradation.py` | proposals, unstructured interactions | propose, answer, start, send, upgrade | `Interactions` |
| Promise chains (CMPC) | `cmpc/` | a `ChainSession` for each holder, its transition records | `transition_to`, the host's attributes, handing over; closure evaluation; cascades | `ChainSession`, `Closure`, `Artifacts` |
| Mandates | `mandate.py`, `models/`, `mandate_resolver.py`, `verification_audit.py` | what the resolver has, the revocation list, the audit log | sign, delegate, resolve, verify | `Mandates` |
| Other mandate verifiers | `js-sdk/src/mandate/`, `conformance/reference-runner/` | none | verify | `MandateVerifiers` |
| Predicates, approval receipts | `predicate.py`, `predicate_resolver.py`, `approval_receipt.py` | the resolver's cache | resolve, verify | `Artifacts` |
| Bridges | `sanctuary_bridge.py`, `adapters/a2cn/` | the bridge's configuration | configure, commit; apply a mediator's settlement | `SanctuaryBridge`, `Attestations` |
| Signing, canonical JSON, schemas, envelopes, Verascore, command line | | none, or I/O | | not modelled |

How they interact: all in one process and by direct calls.  A tool call authenticates
with the token store, finds the session context and drives `Agent`, which builds an
envelope on the session's tip and applies it.  A host that runs sessions itself hands
envelopes to any transport and applies what arrives, in either language.  A session calls
its host back at the first conclusion.  Receipts leave the server with their clients and
come back, any time later, through ingestion; bundles are made of what was ingested and
verified with keys that the latest session of an agent, or its latest bundle, registered.
Documents name one another in `references`; a revocation cascades along them, and
verifiers look at records of what a document refers to.

What is hard here.  There are no threads: `auth.py` and the server rely on one event
loop and no `await` inside an operation, so each tool or method is one atomic step.  The
difficulty is in the *order* of calls: envelopes that arrive late, twice or from another
session; sessions reopened from dormancy; time that passes unnoticed until something
looks at it; polls with filters and limits between sends; stores and indexes that are
changed one after the other and must agree; an exception half way through a posting; a
token file written at some changes only, writes that fail silently, and restarts that
lose everything but that file; documents verified, cached, revoked, altered by their
holder and shown again; two implementations that must agree.  "hazards" of
`PROJECT.json` lists them at their lines.

What makes each component correct is stated by the properties of its module; section 5
sums them up.

## 2. Modules

    NegotiationLog     what a negotiation promises
      ^ implemented by
    Session  <- SdkSession (MCSdkSession) <- SessionProofs
             <- SanctuaryBridge

    AuthTokens <- McpServer (MCMcpServer) <- McpServerProofs

    Relay (MCRelay) <- RelayProofs

    WantMatching <- WantRegistry (MCWantRegistry)     \
    AgentProfiles, Interactions <- Peers (MCPeers)     > DiscoveryProofs

    ChainSession, Closure (MCClosure) <- MCCmpc
                                      <- ChainProofs

    Mandates <- MandateVerifiers (MCMandates) <- MandateProofs

    Attestations <- Artifacts  \
                 <- Portfolios  > Evidence (MCEvidence) <- EvidenceProofs

    Reputation (MCReputation) <- ReputationProofs

An arrow `A <- B` says that B extends A.  Definitions with the comment "Fault" are not
part of the models: each is a plausible bug of the operator defined after it, and each
property is shown to be violated when it takes that operator's place ("mutants").

**NegotiationLog** is the abstract specification: a log of entries and a status.  An
entry is taken once, at the end, when the status lets its kind in; an agreed log takes
nothing more; a log at rest may be put aside and reopened by an offer.

**Session** has one variable for each attribute of `Session` that its behaviour depends
on, and three for what is around it: the envelopes that travel (`wire`), how many were
built (`built`), and what the callback was told (`reports`, a history).

| Action | Code |
|---|---|
| `Send` | `Agent._send`: build on the tip, apply, in one call |
| `WithdrawReactivatable` | `Agent.withdraw(reactivatable=True)`, which makes the session dormant in the same call |
| `Mail`, `MailElsewhere` | `build_envelope` by an agent that hands it to a transport; the same agent in another session |
| `Deliver` | `Session.apply_message` of an envelope that travels, or of one that was already applied |
| `Lose`, `Spoil` | the transport (external) |
| `Expire`, `MakeDormant`, `Join` | `Session.expire`, `make_dormant`, `Agent.join_session` |

`Acceptable` is the sequence of refusals in `apply_message` (signature, session binding,
chain, transition table, round cap), `Record` what the method does once past them.  A
refused envelope has no effect, so it is no step.  A hash is an identity (`id`), a
signature the flag `intact` with the sender's membership; terms are small integers whose
only relevant properties are equality and being zero (`_compute_concession` divides by
the old value).  Bodies are mappings, as the agents build them: of a signed message with
any other body part of the effect precedes the exception (session.py:279-301).
Envelopes without `session_id` or `prev_hash`, which the code lets pass unchecked, are
not among those the agents build and are not modelled.

**SdkSession** keeps the SDK's session as one record, `twin`, and hands it each message
the Python session applied.  `SdkAccepts` has the checks of `applyMessage`, fewer than
Python's; `SdkApply` and the behavior records have its own algorithms, not those of
`Session`.

**SanctuaryBridge** drives a session by the server's tools, from the state in which
`SessionStore.create` leaves it, with the configuration of the bridge and the commitments
it handed out.

**Relay** has an action for each method of `NegotiationRelay` that changes state.
Messages of all transcripts are one sequence, `messages`, so that a transcript is a set
of positions and its order is theirs.  The clock is `overdue` and `stale`: the sessions
and messages whose time has elapsed, at any moment; the methods notice it where the code
does (`Notice`, `Swept`).  `refused` and `inbox` are histories, of the sends that were
answered with None after the transcript had grown and of what was given to each agent.
`Archive` copies each message with the status it has at that moment, and the participants'
counters.  Mailboxes are polled on afterwards, so an archive and its session drift apart
in those.

**AuthTokens** has the two token maps and the file.  A token is identified by the session
and the role it was issued for: identifiers are fresh and tokens issued once, and
presenting anything else changes nothing.  `Persist` is the write to a temporary file
and its renaming: all of it or, if any of it fails, nothing.  Reading may fail as well
(`FailToLoad`; auth.py:91-97 and 259-263 swallow the exception): the store is then empty,
and the next write, whatever it is for, puts that in the file.  `LookUp` drops expired
tokens without writing, as `get_any_session_role` does; `Outdated` writes.

**McpServer** composes it with the stores.  Of a session it keeps what the tools look at.
`Register` is the whole tool: gate (`Entitled`, which prunes the agent's own entry),
entry, token, and the pruning count at the end; `FailToRegister` is the exception at a
full registry, after the gate has pruned.  `Restart` is the end of the process and its
new start: `Reload` and empty stores.  `receipts` is what the clients hold, so it
survives.  A client ingests a receipt as it was made or with something changed: `Submit`
lets it write another id, version, outcome or other parties (`Changes`), which none of the
parties' signatures that ingestion checks is over (store.py:336-409).  A bundle then
carries what was stored.

**WantMatching** is the comparison of a want and a have: categories, terms, prices,
locations, a score in percent.  **WantRegistry** has the listings, the index by owner and
the matches, and an action for posting (which compares, up to an exception that a
malformed term raises on the way), looking, withdrawing and sweeping.

**AgentProfiles**, **Interactions** and **Peers**, which composes them (`PeersSpec`), have
the profile store with its signature mark, the degraded interactions, and the two tools
over them.  `start_degraded` takes any proposal id and an acceptance any id
(degradation.py:307-312), so ids that nobody proposed are among the inputs.

**ChainSession** has a `ChainSession` object for each holder; `HandOver` is `to_dict` and
`from_dict`, after which the objects go apart, but for the list of commitments, which
stays shared.  `Alter` is a record changed on the way (external).

**Closure** evaluates a closure tree, or the bilateral profile, over a sequence of
commitments that grows (`Submit`) while the evaluator's clock runs (`Elapse`).  A value has
a class, as `_TypedComparand` has, and one class is the exception the evaluation ends in.
`Evaluate` is `_evaluate_node`, a function on the trees, which are given by height.
`Compared` stops, as the code does, at the first comparison that is false.  Numbers count
the smallest unit that floats tell apart: `Totals` adds them in the order given and rounds
after each addition to the nearest float (`Float`, `Precision`), what is past `Largest` being
infinite; so 0.1 + 0.2 + 0.3 need not be 0.6.  That is the loop of the bilateral profile, and
`sum` in Python 3.10 and 3.11; from 3.12 on `sum` compensates what it loses, which is the
same where no addition is rounded.  **MCCmpc** is the instance of both CMPC parts: neither
changes the other in the code, so each is explored while the other is at rest.

**Mandates** has the mandates filed with the resolver, the revocation list and its
endpoint, the clock, and the audit log; a mandate is a body and a seal, so altering,
signing again and delegating give every combination.  `Verify` is `verify_mandate` in
the order of its checks; `check_revocation`, which a caller of the tool may switch off
(mandate.py:599 and 755, mcp_server.py:3294 and 3350), is part of a request.
`Altered` is what may be written over a copy that nobody signs again.
**MandateVerifiers** adds the two other verifiers as operators over the same state.

**Attestations**, **Artifacts**, **Portfolios** and **Evidence**: what an issuer makes of
a concluded session and both verifiers make of it; documents, revocation records, the
breadth-first cascade, the resolver's cache; bundles and Merkle proofs; and the holder.
`CascadeRevocation` is the code's queue, a level at a time (`Levels`): what one level adds
is what was not visited before it.

- An issuer signs a document again under the same id with another status, expiry or other
  references (`Republish`).  The cache keeps what it has: it is never fetched again.
- A verifier's records are the mapping it is given: one may take the place of another or
  be left out (`Revoke`, `Withdraw`).
- An issuer's clock may be ahead (`Ahead`), by more or less than verifiers tolerate.
- A holder changes one thing about an attestation, or rewrites the parties in any way, or
  leaves itself alone in it and changes one thing more; it signs its own record again
  and countersigns (`Altered`, `Recountersigned`).  It shows the result alone, in bundles
  and in proofs.  `verify_bundle` asks one party for one countersignature
  (receipt_bundle.py:57-59), so that such an attestation of the holder alone is bound.
- A hash is the text that was hashed, as the list of what was written down in it.
  `competence_proof.py:115-129` puts no prefix before a leaf or a node: a leaf is the hash
  of an id, a node that of two hashes in hexadecimal, and an id that is itself two such
  hashes (`Joined`) is a leaf that equals a node.  Lists may hold an id more than once.

**Reputation** has the store's maps and, as operators, the Sybil signals, the scorer and
the query.  A role may be called anything and be empty, a status may be empty; only a role
that is missing is refused (store.py:327, 362-364).  Scores are in ten-thousandths and
rounded down; logarithms are tables.

## 3. Runs

| Run | Instance | States | What it shows |
|---|---|---|---|
| `session_twins` | 2 agents, accept_session, offer and accept besides withdrawals, terms 0, 1 and none, 4 envelopes, 1 travelling, 2 rounds | 1 200 000 | An agreement closes the transcript; an active session can be concluded; one report, of the first conclusion; counters follow the transcript; refinement of `NegotiationLog`; the SDK comes to the same |
| `relay` | 2 agents, 2 sessions, 3 messages, mailbox and transcript of 2, 2 archives | 1 224 000 | Delivery, order, archives while mailboxes are polled on, no resurrection |
| `server_tokens` | 2 agents, 2 sessions, tokens of 2 ticks, sessions of 0 or 2, 4 ticks, writes and reads that fail | 1 050 000 | Token terms, and what restarts may lose |
| `server_reputation` | 2 agents, 2 clients, 2 sessions, 1 registry place, 2 receipts, 2 attestations, 2 bundles, 1 changed receipt, 1 tick | 357 000 | Ownership of identities; bundles that verify tell the truth; a new bundle leaves the earlier ones valid |
| `discovery` | 2 agents, 4 postings of three kinds a side, 3 places a side, 2 active each, 2 matches | 969 000 | Whatever fits is found and accounted for; index and quotas; what is gone is gone |
| `peers` | 3 profiles for 2 places, 1 proposal, 3 interactions, ids proposed or not, 2 rounds | 175 000 | Search order; upgrades |
| `cmpc` | 2 holders, 2 participants, 3 commitments, 3 instants around the deadline; trees of up to three levels and bilateral deals, up to 3 commitments, 2 instants; floats of up to 9 units, every one up to 4 | 213 000 | Transcripts tell states, alterations show, expiry follows activation, open sessions end; what cannot be evaluated keeps a deal open, and only a comparison of mixed classes and a rounded or overflowing addition tell orders of commitments apart |
| `mandates` | 1 reference, ten mandates, altered copies, chains of up to two delegations, 3 instants, the list asked or not | 107 000 | Grants come from the issuer and only narrow; a listing reaches every copy; three verifiers agree |
| `evidence` | 4 documents with references, 1 revocation record at a time, 2 attestations of 2 agents, an id that is two hashes, issuers 2 ahead where 1 is tolerated, 3 instants | 61 000 | Cascades, refusals, fresh and countersigned evidence, committed aggregates |
| `reputation` | 3 agents, submissions in every order, a store of 4, a role of another name and an empty one | 5 100 | Each session counts once, loops are flagged, evidence builds confidence |
| `closure_types` | the trees and deals of `cmpc` | violated | A value of another class than it is compared with closes a deal |
| `bridge` | 1 session opened on terms 0, 1 or none, 3 further messages | violated | A commitment names the terms of the opening, not those agreed on |

Why the bounds are enough.  Sessions are bilateral, so two agents.  Four envelopes open a
session, accept it, make an offer and agree it, or withdraw, reopen and conclude it again;
an envelope that travels can be overtaken by any number of direct sends, spoiled, lost and
repeated.  In the relay two sessions share a mailbox, so filters and limits interfere; three
messages overflow a mailbox of two.  For tokens, a clock of four and terms of two let a token
be issued, dropped, loaded and outlived in every order.  Two sessions give an agent a first
and a later key.  Of four postings two fit on either side while one is in the way and the
store of matches is full.  Three profiles compete for two places.  Three commitments are one
more than a bilateral deal has participants.  An instant before, at and after a deadline
are all that a comparison of times tells apart.  Two delegations are the fewest whose ends
must join.  Four documents make a chain, a diamond and a cycle.  Three leaves are the
smallest tree with an odd layer, and four, the last one twice, share its root.  Two bundles
of one agent are made with another key registered between them.  A loop needs two agents
with a history of two and a third to break it.  The bounds on counters (named "bound" where the constants are declared) are
guards of the actions that count.  Deadlock is not checked, since each instance stops at
its bounds.

Three runs have a constraint.  `StaleBesideOneArchive` of `relay` only bounds it: messages
that go stale are looked at beside one archive, two archives where none does.
`OnePartAtATime` of `peers`: no action on profiles reads or writes an interaction, nor the
other way round, so each part is explored while the other is as it was at first.  `OneKindAtATime` of `evidence`: an attestation is verified without a
look at documents of other kinds, so attestations are not shown beside predicates and
receipts, and two of them only while the clock stands and nothing is revoked, which is
all that bundles and proofs depend on.

Symmetry is used for the agents of the relay and of the want registry, for the owners of
profiles and for the server's clients; no action and no property tells one from another.

Fairness is stated in one place, `FairSpec` of `ChainSession` (and again in `CmpcSpec`): the clock goes on, and each
holder keeps asking for whatever transition its session may have.  That is the host's
part: the code has no timer, `expire_due_to_timeout` is the host's to call, and a host
that never calls it ends nothing.  `OpenEnds` needs both.  Nothing else in the code runs
by itself: time is only noticed when a caller calls, the transport may lose everything,
and no party has to answer.  What would be liveness elsewhere is stated as the safety
property behind it (`AlwaysConcludable`: a closing message is always acceptable;
`PairsFound`: no pair is left to be found later; `NoResurrection`).

### What the documents say and the code does not do

`bridge` and `closure_types` are run with the project and are its findings.  The others have a
configuration of their own, in which TLC finds the violation within seconds, or are to be
put in place of the properties of the run's configuration:

| Property | How | What it shows |
|---|---|---|
| `RatesAreRates` | `MCReputationDocs.cfg` | An agent that dealt with itself is indexed twice for one attestation (store.py:253) and reasoned twice in each: a reasoning rate of 2.0, where the schema allows 0 to 1 |
| `DormantCanReopen` | `MCSdkSessionDocs.cfg`, `-continue` | SPEC.md 5.1 promises reactivation of a dormant session by an offer; the round cap, counted over all reactivations, refuses it |
| `AgreedByAll` | the same | SPEC.md 5.2 asks for the accept of all parties; one suffices, even of the party that made the offer |
| `SdkRefusesAlike` | the same | The SDK's `applyMessage` looks at neither session, chain nor cap, and says Python does not look at `prev_hash`; it does (session.py:243) |
| `KeptIsMailed`, `NoSelfSession` | `MCRelayDocs.cfg`, `-continue` | A refused message stays in the transcript and is never mailed; the initiator joins its own open session |
| `DealsInTime`, `TokensLeadSomewhere` | `MCMcpServerDocs.cfg`, `-continue` | SPEC.md 5.2 has active sessions expire, and nothing in the server expires one that is overdue until live sessions are counted; tokens survive a restart, the sessions they are for do not |
| `MatchedRangesMeet` | `MCWantRegistryDocs.cfg` | "overlap if ranges intersect": ranges that do not meet are matched |
| `RecommendationsAnswer` | `MCPeersDocs.cfg` | The recommendation tool looks up a Want in a way that raises (agent_profile/tools.py:326) whenever the Want exists |
| `UpgradesWereProposed` | the same, `-continue` | An interaction is upgraded by the acceptance of an id that nobody proposed |
| `RevocationIsOnlySurfaced` | `MCMandatesDocs.cfg` | A resolver that notes `revoked_at` on a mandate breaks its signature, so it is refused, not surfaced |
| `CapHolds` | in `MCClosure.cfg` (MCClosure) | `not(qty > cap)` holds as soon as one commitment is within the cap, since a comparison holds of a field when it holds of every commitment |
| `AggregateCountsOnce` | in `MCEvidence.cfg` | A competence proof counts a session attested twice as two negotiations; a bundle refuses it |

For instance `tlc -continue -config MCSdkSessionDocs.cfg MCSdkSession`.

## 4. Proofs

All for every set of agents, clients, identifiers, documents and kinds, and every limit.
A theorem is named for what it says; most of the rest are the lemmas below it.

**Session.**  `SessionProofs` proves the types (`TypeCorrect`) and sorts the steps into
four kinds: one that takes an envelope, one that leaves the record alone (the wire,
joining), expiry, dormancy (`StepKinds`).

- `OrderKept`: the inductive invariant `Ordered` = the chain, that identities grow along
  the transcript, and `Elders`, that everything that travels or was applied was built
  before the next envelope and on something older than itself.  `AppliedOnce` alone is
  not inductive: that a copy of an applied envelope is refused follows from its `prev`
  being older than the tip, which takes the order of identities.  `TranscriptIsChained`
  and `EachAppliedOnce` follow.
- `AgreementIsLast`, `AgreementIsFinal`, `CanConclude`, `TranscriptIsOwn`,
  `RoundsCounted`, `FirstConclusionReported`, `RestIsStamped`: each by an invariant over
  the four kinds of step.
- `RecordsAreTrue`: the counts and the sum of the behavior records are those of the
  transcript.  What it takes besides is `OffersRemembered`: the offer that the session
  compares the next one with is the last with terms that the agent made.
- `SessionImplementsLog`: initial states map to initial states; a step that takes an
  envelope maps to the log's taking of its entry, which needs `EachAppliedOnce` and the
  order of identities for freshness; the others map to closing, putting aside or
  stuttering.
- `SdkFollowsPython`: the twin equals the Python session, attribute by attribute (`Same`).
  What Python takes the SDK does not refuse (`SdkTakes`), the two tables and the two
  algorithms for the records agree, and `validateChain` finds nothing, by `OrderKept`.

**Server.**  `McpServerProofs` proves the types and sorts the steps by what they do to
the tokens, to the sessions and to the registry (`TokenSteps`, `SessionSteps`,
`RegistrySteps`).  `TermKept`: what is in memory and in the file expires a full term
after its session was born.  `OnlyFailuresLose` needs `FileAgrees` (`FileKeepsUp`): memory and file hold the
same live tokens, but for a write that failed since the last one that did not, and for a
read that failed.  `RegistrationsOwned` and `NobodyTakesOver` by the registry's kinds of
step; `LimitsKept` by the sets `Stored` and `ActiveOf`, which only opening enlarges
(`NoMoreStored`).

- `BundlesTellTruth`: by `Truthful`, a receipt tells what its session, once settled, says
  for ever, and an attestation is bound only while it tells what the receipt does
  (`BoundTells`); `SessionsAttestedOnce` says that no session is stored twice, whatever
  id its receipt was given.
- `EarlierBundlesVerify`: by `KeysKept`.  A bundle is signed with the first key an agent
  had, and an agent's sessions register others.  That a later bundle makes the earlier ones
  good again takes that they were all signed with the same key: sessions are opened in the
  order of their identifiers and stay in the store with their parties (`HoldsKeyStays`,
  `MovesKeepParties`), so an agent's first session stays its first.

**Relay.**  `RelayProofs`: whatever a method does, to each session it does one of a few
things (`Becomes`: keep what an archive tells of it, come to be, become active in time,
end), it writes only to transcripts of open sessions that are not overdue, and it
archives nothing (`Goes`), or it archives one session and changes no other (`Files`).
`NothingResurrected` follows from that at once.  `ArchivesStayFaithful` is by the invariant
`Faithful`, the same archive by archive, and by `Tally`: of each session the counters of a
participant are the messages of the transcript with the status they count
(`CountedRoute`, `CountedReceive`), so that what was copied agrees with itself.  An
archived session takes no message any more, and a message that is not queued never
changes again (`FiledStays`).  The invariant `Typed` says as little as these
need.  Of the messages the invariant is `Delivery`: each is where its status says, a
mailbox ascends, what an agent was given of a session ascends, and all it still awaits of
that session came later.  The last part makes it inductive: a poll moves a first part of
what its filter lets through (`PollIs`), and what it leaves behind is younger only within
a session.  `EveryMessageAccounted` and `PollsInOrder` follow.

**Discovery.**  `DiscoveryProofs`, of the registry: three kinds of step, posting, dropping
and elapsing.  `IInv` is the types and the three invariants of the run together: whether
an entry is on offer is read from the index, and what a posting compares and stores from
the listings, so each needs the others.  `FirstOnes` says how many of the matches found
are kept when there is room for k.  Of the peers: `OldestUpgraded` is inductive with the
types, once it is read record by record (`UprightAndForemost`), for any ids, proposed or
not.  `BestFound` needs
`Marked`: the mark of a stored profile is the truth about its signature, whichever way it
was stored, replaced or pruned; the rest is the comparison of keys.

**Chains.**  `ChainProofs`: a step changes at most one holder's object (`Steps`), so what
an object keeps is proved of the ways to change one (`MovedKeeps`, `SetKeeps`,
`AlterKeeps`).  The invariant `IInv` divides the holders: an object that
nothing altered was handed to tells its own history (`Tells`), every other shows the
alteration (`Shows`), and all are well formed, so that a transition keeps either; `TranscriptsTell`,
`AlterationsShow`, `ExpiryIsAfterActivation` and `EndsAreFinal` follow.

**Closure.**  The second half of `ChainProofs`, for all trees, deals and commitments.
`Evaluate` and `Parts` are recursive functions over trees: they exist (`EvaluateIs`,
`PartsIs`) because every tree has a height, and what holds of a tree when it holds of its
arguments holds of all (`TreesInduct`, by induction over the least height).

- `ClosesNothingMalformed`: `SoundThroughout` says that a tree whose value is true or false
  has no part that could not be evaluated, since a node passes a malformed argument on
  (`NodeNeedsArgs`).  `BilateralNeedsAll` says that a bilateral deal counts the committers,
  so that none can be taken away.
- `OnlyMixedOrRoundedOrderMatters`: exact sums are the same in any order (`SumsPermute`, by
  induction over the length, moving one element at a time), and while every addition of an
  order is exact the rounded sum is the exact one (`TotalIs`), so that two such orders
  agree (`TotalRearranged`).  Membership and time limits do not look at the order; a
  comparison stops at the first commitment that is false or of another class
  (`FirstUnpaired`), and where all are of one kind it is the same one way or the other
  (`ComparedUnmixed`).

**Mandates.**  `MandateProofs`: the audit log keeps what each answer was given on, so
`GrantsAreFounded` says what the checks leave true of every grant on a proof: sealed with
the issuer's key over its present body, active, every link signed by its delegator and
joined to the next, within every limit.  It is inductive with `Shapes` because nothing in
it looks at what is filed or listed later.  `IssuerGrants` and `GrantsNarrow` follow along
the chain.  `ListingReaches` is about what was signed, not about the copy: a grant on a
proof is of a body the seal is over (`NewGrant`), so the id and the endpoint that the
verifier read are those the issuer signed, whatever stands in the file.  `ThreeVerifiers` compares the checks one
by one (`OneSignature`, `OneTime`, `OneChain`, `OneLimit`), for any mandate at all.

**Evidence.**  `EvidenceProofs`: the invariant is `Founded`: what is shown under an id was
issued under it, attestations as a session's issuer signed them, and what a resolver keeps
was once shown and sound (`EvidenceIsFounded`).  That it still refers to what is shown is
not part of it: issuers sign anew.

- `RefusalsHold`: a predicate that was kept is judged by its copy for good, and every
  reason for a refusal but two stays: no step changes the copy or turns back the clock
  (`NothingIsTakenBack`, `RefutedStays`).  The two are in the statement: a record may be
  replaced or left out, and a reference that did not resolve may be published.
- `CascadesAreReach`: for any references and any depth, cycles and diamonds too, the levels
  of the breadth-first cascade are what lies within as many steps of the revoked artifact
  and not within fewer (`QueuedIsReached`, `ReachedIsQueued`).  The recursive functions
  exist (`RecursionExists`) and are taken apart by induction over the levels, which is
  proved from the least element of a set of numbers (`LeastNatural`, `UpToBound`).
  `DependentsStayRefused`: what refers to the revoked artifact in the copy that is judged
  is refused; what the cascade names at distance one refers to it in the copy that is
  shown (`NamedNextRefers`), which is the same but for a kept copy from before.
- `AcceptedStaysFresh`, `CreditsStayCountersigned`: a signature is over the payload and the
  payload tells the attestation it is of (`PayloadTells`), so what an alteration leaves
  verifiable with more than one party is what was issued (`SignedIsIssued`); what remains
  is of the holder alone (`CreditedIsIssued`, `TwoAreNotOne`).
- `AggregatesStayCommitted`: for Merkle trees of any size.  A root determines all below it,
  layer by layer from the top (`RootTellsBelow`): two trees with one root have equally many
  layers because no leaf is a node, which holds of a leaf of one piece of text; hence
  `Plain` ids.  What a root does not determine is how often the last ids occur, and the
  property claims no more than which ones do.  Sorted leaves do the rest (`SortedIs`,
  `MerkleTells`).

**Reputation.**  `ReputationProofs`: `Recorded` (no two records share an id or a session),
`Counted` (an agent's entries are the attestations it is in, one each, or two where it
dealt with itself) and `Met`
(its counterparties are whom it met) tie the store's indexes to what is stored, in whatever
order it came.  Entries correspond to sessions (`EntriesAreSessions`), each of one role
(`OneRole`), so a filter by role counts the sessions of that role (`RoleCounts`), whatever
it is called.  `SessionsCountOnce` and `ClosedLoopsFlagged` compare the answers computed
from the indexes with those computed from the attestations.  `EachSessionCountsOnce`
speaks of agents that never dealt with themselves; the run of `RatesAreRates` shows why.
`EvidenceReassures` follows an agent's confidence through one more record: the tables of
the logarithms do not fall (`TableGrows`), and what rounding takes from a quotient never
outweighs what its dividend gained (`QuotientGrows`, `LeftGrows`).

Assumptions: the ones named in the modules that declare the constants, which TLC evaluates
in the runs, and nothing else.  Those that say more than types and limits:
`MandateAssumption` and `ReputationAssumption`, the fields that `from_dict` and the schema
require; `ClosureAssumption`, that JSON trees end and that fields hold values;
`AgentProfilesAssumption`, finitely many owners; `ArtifactsAssumption`, the kinds
of documents have different ids and a session id is of one session; `PortfoliosAssumption`,
an id that is written as hashes is written as two.  That hashes do not collide, that
signatures are not forged, is in the terms that stand for them.

Only model-checked: `OpenEnds`, since liveness under fairness is out of the prover's reach,
as is ENABLED; every other property of a passing run is a theorem.  What the documents say
and the code does not do is refuted by TLC.

## 5. Properties, by component

- Session: the transcript is a chain of own, authentic, distinct envelopes; what is kept
  beside it (round count, behavior, stamp, report) is what it determines; an agreement
  is final; an active session can always be concluded; the SDK agrees on all of it.
- Relay: each message is waiting, given, stale or refused, and given once and in order;
  an ended session stays ended and an elapsed one is as good as ended; archives are whole,
  one for a session, and agree with themselves, and what they show as given or stale is.
- Tokens and server: no restart lengthens or revives a token, or loses one unless a write
  or a read of the file failed; an identity has one owner as long as it is registered;
  a bundle that verifies tells each session once and, of what it does not report as
  unbound, truly, whatever clients changed; a new bundle leaves the agent's earlier ones
  valid, but for those with changed attestations in them.
- Wants: two entries on offer that fit were brought together when the later came; nothing
  that is gone is matched; quotas are counted from an index that is right.
- Peers: a search never prefers an unsigned profile; an interaction is upgraded by
  the acceptance of the id it names, proposed or not, and only the oldest.
- Chains and closure: each holder's transcript explains its state; an altered record
  shows for good; what could not be evaluated closes no deal, but for a later value of
  another class; the order of commitments decides nothing else but the rounding of floats;
  open chains end.
- Mandates: a grant on a proof goes back to the issuer and is within every limit set on
  the way; who has the list asked is granted nothing that was signed for a listed id; three
  verifiers grant alike.
- Evidence: a cascade reaches what depends on the revoked artifact; a refusal is final but
  for records taken back and references published later; accepted attestations are as
  issued and fresh; credit for dealings with somebody else needs the signatures of all;
  an aggregate is of exactly the ids that were committed to.
- Reputation: each session counts once and under its role, in whatever order and under
  whatever id.

## 6. Seen while modelling

What a reader of the code may want to know, and no property is about:

- Verifiers refuse a document for a revoked artifact in *any* direct reference; a cascade
  follows only fulfills, extends, approves and revokes, but over several steps.  The two
  sets differ both ways.  A record that revokes a predicate itself is looked up by nobody.
- A token file that cannot be read at a restart is taken for an empty one, and the next
  write erases it with all live tokens (auth.py:91-97, 259-263).
- An attestation's outcome is not under its parties' signatures.  Ingestion accepts
  another outcome than was agreed; a bundle reports it as unbound only when it is verified.
- An attestation whose holder left out the other parties and signed again is bound by the
  holder's one countersignature and credited (receipt_bundle.py:57-59), though
  competence_proof.py:443-445 speaks of "dual-countersigned" ones.
- The commitments to `[a, b, c]` and `[a, b, c, c]` have one root, and so have those to
  two ids and to one id that is the two hashes in hexadecimal.
- A mandate in the revocation list is granted when `check_revocation` is switched off.
- The predicate resolver keeps what once was valid for good, with the references it had.  The server's approval
  verification passes no revocation records, and the SDK's verifiers take none.
- The verification of attestations below version 0.5 looks at no clock, no revocation and
  no expected parties.  A window that starts more than 90 days after the issue is signed
  and never accepted.
- An attestation that carries a mediator's settlement (`apply_dispute_resolved_to_attestation`
  adds a `fulfillment`) fits no structure of the current version (attestation.py:948-999)
  and never verifies, even when countersigned again.
- `max_uses` of a mandate is nowhere enforced; `record_approval_verification` has no
  caller.  Timestamps without a zone in a mandate's window raise in Python and are
  refused by the SDK.  The reference runner asks no revocation endpoint, and its mandate-v1
  profile looks at no delegation chain.
- Neither the relay nor the session store ever gives back a place under its cap.
- Self-dealing is counted twice in `agent_count` and in the number of negotiations.
- The bridge is switched on and off for all agents by any of them, and an identity mapping
  stays when its agent is deregistered and its id is taken by another client.

## 7. Not modelled, and why

- Cryptography, canonical JSON, schemas, texts and their sanitizing, envelopes, discovery
  documents: pure functions on bytes, abstracted by identities and forms.
- Cascade decision records and co-signing: one schema, hash and signature check each.
- The relay's link to Concordia sessions, listings, statistics, badges, cards, the signed
  reputation report: they read, or format.  `AgentRegistry.heartbeat` has no caller.
- The reports to Verascore and the reputation payloads of the bridge: network output.
- The SDK's attestation, predicate and receipt layers: ported verifiers without state.
- The conformance runners but for the mandate profiles of the reference runner, the
  generators of vectors and fixtures: they check or write files once and keep no state.
  They are most of the lines that no definition stands for.

What could come next: the refinement of `McpServer`'s coarse session by `Session`; the
SDK's attestation verifier beside that of `Attestations`.
