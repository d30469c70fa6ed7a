--------------------------- MODULE NegotiationLog ---------------------------
(***************************************************************************)
(* What a negotiation session promises to its parties, with none of the    *)
(* envelopes, hashes or deliveries that achieve it: one log of messages,   *)
(* in which every message stands at most once, a status that only the      *)
(* messages (or the clock) move, and a bound on the offers that can ever   *)
(* be logged.  Session.tla implements it.                                  *)
(***************************************************************************)
EXTENDS Integers, Sequences, FiniteSets

CONSTANTS
  Agents,      \* who may speak
  Ids,         \* the identities messages can have
  MaxRounds    \* how many offers and counter-offers a log may hold

VARIABLES
  status,      \* where the negotiation stands
  log          \* the messages taken so far, oldest first

vars == <<status, log>>

Kinds == {"open", "accept_session", "decline_session", "offer", "counter",
          "accept", "reject", "inquire", "constrain", "signal", "withdraw",
          "propose_mediator", "resolve", "commit"}

Entry == [id : Ids, kind : Kinds, from : Agents]

\* The kinds each status listens to.  "agreed" listens to none.
Listens(s) ==
  CASE s = "proposed" -> {"open", "accept_session", "decline_session"}
    [] s = "active"   -> Kinds \ {"open", "accept_session", "decline_session"}
    [] s = "dormant"  -> {"offer"}
    [] OTHER          -> {}

\* What a message of kind k makes of the negotiation.
Becomes(k) ==
  CASE k = "open"                                      -> "proposed"
    [] k \in {"accept", "commit"}                      -> "agreed"
    [] k \in {"reject", "withdraw", "decline_session"} -> "rejected"
    [] OTHER                                           -> "active"

Logged == {log[i].id : i \in DOMAIN log}

Bids == {i \in DOMAIN log : log[i].kind \in {"offer", "counter"}}

Init == status = "proposed" /\ log = <<>>

\* A message never seen before is logged and moves the negotiation.
Take(e) ==
  /\ e \in Entry
  /\ e.kind \in Listens(status)
  /\ e.id \notin Logged
  /\ e.kind \in {"offer", "counter"} => Cardinality(Bids) < MaxRounds
  /\ log' = Append(log, e)
  /\ \/ status' = Becomes(e.kind)
     \/ e.kind = "withdraw" /\ status' = "dormant"   \* a withdrawal that may be reopened

\* Time runs out on a negotiation still open.
Lapse == status \in {"proposed", "active"} /\ status' = "expired" /\ UNCHANGED log

\* A failed negotiation is put aside, to be reopened by an offer.
Shelve == status \in {"rejected", "expired"} /\ status' = "dormant" /\ UNCHANGED log

\* The entries a step adds.
Added == {log'[i] : i \in DOMAIN log' \ DOMAIN log}

Next ==
  \/ \E e \in Added : Take(e)
  \/ Lapse
  \/ Shelve

Spec == Init /\ [][Next]_vars
=============================================================================
