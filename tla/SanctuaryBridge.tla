-------------------------- MODULE SanctuaryBridge --------------------------
(***************************************************************************)
(* The Sanctuary bridge of the MCP server (mcp_server.py, its tools        *)
(* concordia_sanctuary_bridge_configure and _commit, and                   *)
(* sanctuary_bridge.py) beside one session driven by the server's tools.   *)
(*                                                                         *)
(* A session of the server is opened and accepted in one call, so it is    *)
(* active from the start and both its messages travel nowhere.  The bridge *)
(* hands out commitments, which its client forwards to the Sanctuary.      *)
(***************************************************************************)
EXTENDS Session

CONSTANT Responder  \* the agent the session is opened with

VARIABLES
  enabled,        \* _bridge_config.enabled
  commitOnAgree,  \* _bridge_config.commitment_on_agree
  commitments     \* those handed out: terms, and the chain head they are bound to

bridge == <<enabled, commitOnAgree, commitments>>

\* SessionStore.create on terms v, and the bridge of a server just started.
Created(v) ==
  LET open   == [id |-> 1, kind |-> "open", from |-> Initiator, session |-> Sid,
                 prev |-> Genesis, terms |-> v, intact |-> TRUE]
      accept == [id |-> 2, kind |-> "accept_session", from |-> Responder,
                 session |-> Sid, prev |-> Hash(open), terms |-> NoTerms,
                 intact |-> TRUE]
  IN transcript = <<open, accept>> /\ terms = v

BridgeInit ==
  /\ state = "active"
  /\ \E v \in Values \union {NoTerms} : Created(v)
  /\ roundCount = 0
  /\ parties = [a \in Agents |-> CASE a = Initiator -> "initiator"
                                   [] a = Responder -> "responder"
                                   [] OTHER         -> "none"]
  /\ behavior = [a \in Agents |-> NoBehavior]
  /\ lastOffer = [a \in Agents |-> NoTerms]
  /\ concludedAt = -1
  /\ reactivatable = FALSE
  /\ callback = FALSE
  /\ terminalFired = FALSE
  /\ reports = <<>>
  /\ wire = {}
  /\ built = 2
  /\ enabled = FALSE
  /\ commitOnAgree = TRUE
  /\ commitments = {}

\* tool_sanctuary_bridge_configure, by any registered agent.
Configure(on, agreements) ==
  /\ enabled' = on
  /\ commitOnAgree' = agreements
  /\ UNCHANGED <<vars, commitments>>

\* tool_propose, tool_counter, tool_accept, tool_reject and tool_commit: the server looks at
\* the state before the agent speaks.
ToolKinds == {"offer", "counter", "accept", "reject", "commit"}

Tool(a, k, v) ==
  /\ state = "active"
  /\ Send(a, k, v)
  /\ UNCHANGED bridge

BuildCommitment(agreed) == [terms |-> agreed, head |-> Tip(transcript)]

\* bridge_on_agreement; build_commitment_payload refuses empty terms.
OnAgreement(agreed) ==
  /\ commitOnAgree
  /\ agreed # NoTerms
  /\ commitments' = commitments \union {BuildCommitment(agreed)}

\* tool_sanctuary_bridge_commit: the terms are those of the context, kept since the opening.
CommitTool ==
  /\ enabled
  /\ state = "agreed"
  /\ OnAgreement(terms)
  /\ UNCHANGED <<vars, enabled, commitOnAgree>>

BridgeNext ==
  \/ \E on, agreements \in BOOLEAN : Configure(on, agreements)
  \/ \E a \in {Initiator, Responder}, k \in ToolKinds \cap Speech :
       \E v \in Payload(k) : Tool(a, k, v)
  \/ CommitTool
  \/ Expire /\ UNCHANGED bridge

BridgeSpec == BridgeInit /\ [][BridgeNext]_<<vars, bridge>>

(***************************************************************************)
(* What the documents say and the code does not do                         *)
(***************************************************************************)

\* What is on the table: the terms of the latest message that proposed any.
Proposed(t) == {i \in DOMAIN t : t[i].terms # NoTerms}

OnTheTable(t) == t[CHOOSE i \in Proposed(t) : \A j \in Proposed(t) : j <= i].terms

\* The description of the tool (mcp_server.py:2755): "The commitment binds the agreed terms
\* cryptographically via Sanctuary's L3."  What an accept agrees to is the current offer.
CommitsWhatWasAgreed ==
  \A c \in commitments : c.head = Tip(transcript) /\ c.terms = OnTheTable(transcript)
=============================================================================
