----------------------------- MODULE MCMandates -----------------------------
(* A small instance of MandateVerifiers for TLC. *)
EXTENDS MandateVerifiers

CONSTANTS ref, elsewhere, issuer, broker, vault, agent

Body(id, limit, validity, chain, endpoint) ==
  [id |-> id, issuer |-> issuer, subject |-> agent, limit |-> limit, status |-> "active",
   validity |-> validity, chain |-> chain, endpoint |-> endpoint, revokedAt |-> None, alg |-> "EdDSA"]

Unstated == [mode |-> "none"]
Window == [mode |-> "windowed", from |-> 1, to |-> 1]
InSequence == [mode |-> "sequence", key |-> "s1"]
InState == [mode |-> "state_bound"]

Link(from, to, scope) ==
  SignLink(from, from, to, scope, IF from \in EcSigners THEN "ES256" ELSE "EdDSA")
Narrowing == <<Link(issuer, broker, 1), Link(broker, agent, 2)>>

CBodies ==
  {Body(ref, 2, Window, <<>>, TRUE),
   Body(ref, 2, InSequence, Narrowing, TRUE),
   \* Nobody delegated to the broker, a restriction nobody knows, a link the broker wrote
   \* for the issuer, and another mandate under this reference.
   Body(ref, 2, InState, <<Link(issuer, agent, None), Link(broker, agent, 1)>>, FALSE),
   Body(ref, 2, InState, <<Link(issuer, agent, Unknown)>>, FALSE),
   Body(ref, 2, InState, <<SignLink(broker, issuer, agent, None, "EdDSA")>>, FALSE),
   Body(elsewhere, 2, InState, <<>>, FALSE),
   \* A delegate with a key of the other kind, and a link that names the wrong algorithm.
   Body(ref, 2, InState, <<Link(issuer, vault, None), Link(vault, agent, 1)>>, FALSE),
   Body(ref, 2, InState, <<SignLink(issuer, issuer, agent, None, "ES256")>>, FALSE),
   \* No word of when it is valid; and the issuer's own ES256 in name only.
   Body(ref, 2, Unstated, <<>>, FALSE),
   [Body(ref, 2, InState, <<>>, FALSE) EXCEPT !.alg = "ES256"]}

Request(amount, key) ==
  [amount |-> amount, issuerKey |-> key, keys |-> {issuer, broker, vault}, sequenceKey |-> "s1",
   stateActive |-> TRUE, checkRevocation |-> TRUE]

CRequests ==
  {Request(None, issuer), Request(2, issuer), Request(1, None),
   [Request(None, issuer) EXCEPT !.checkRevocation = FALSE]}
=============================================================================
