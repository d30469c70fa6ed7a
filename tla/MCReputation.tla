---------------------------- MODULE MCReputation ----------------------------
(* A small instance of Reputation for TLC. *)
EXTENDS Reputation

CONSTANTS ann, ben, cleo

Party(agent, role, magnitude, offers) ==
  [agent |-> agent, role |-> role, magnitude |-> magnitude, offers |-> offers,
   reasoned |-> offers > 1, signed |-> TRUE]

Deal(n, parties) ==
  [id |-> n, sid |-> n, complete |-> TRUE, status |-> IF n = 3 THEN "rejected" ELSE "agreed",
   rounds |-> n, duration |-> 60, category |-> <<"toys">>, range |-> "low",
   fulfillment |-> IF n = 2 THEN "failed" ELSE IF n = 1 THEN "fulfilled" ELSE None,
   time |-> n, parties |-> parties]

AnnBen(n) == Deal(n, <<Party(ann, "initiator", 1000, n), Party(ben, "responder", 2000, 1)>>)

CSubmissions ==
  {AnnBen(1), AnnBen(2), AnnBen(3),
   \* The other way round in roles of its own, with a third without a role or a status, of
   \* three, of three sides and two agents, with itself, at once, alike.
   Deal(5, <<Party(ben, "seller", 9000, 7), Party(ann, "buyer", 0, 6)>>),
   [Deal(6, <<Party(ann, None, 0, 3), Party(cleo, "responder", 100, 3)>>) EXCEPT !.status = None],
   Deal(7, <<Party(ann, "initiator", 0, 1), Party(ben, "responder", 100, 1), Party(cleo, "third", 0, 0)>>),
   Deal(4, <<Party(ben, "initiator", 0, 1), Party(ann, "responder", 50, 2), Party(ben, "third", 0, 1)>>),
   Deal(8, <<Party(cleo, "initiator", 0, 2), Party(cleo, "responder", 5, 2)>>),
   [Deal(9, <<Party(ben, "initiator", 3, 1), Party(cleo, "responder", 3, 1)>>) EXCEPT !.duration = 1],
   \* Again under another id, by somebody unknown, not signed, out of its domain.
   [AnnBen(1) EXCEPT !.id = 10],
   Deal(11, <<Party(ann, "initiator", 0, 1), Party(None, "responder", 0, 1)>>),
   [AnnBen(12) EXCEPT !.parties[2].signed = FALSE],
   [AnnBen(13) EXCEPT !.parties[1].magnitude = Bad],
   [AnnBen(14) EXCEPT !.rounds = Bad]}
=============================================================================
