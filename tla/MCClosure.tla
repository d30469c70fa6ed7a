------------------------------ MODULE MCClosure ------------------------------
(* A small instance of Closure for TLC. *)
EXTENDS Closure

Compare(rel, field, value) ==
  [op |-> "compare", rel |-> rel, field |-> field, value |-> value, args |-> <<>>]
CompareTo(rel, aggregate, value) ==
  [op |-> "compare", rel |-> rel, value |-> value, args |-> <<aggregate>>]
In(field, values) == [op |-> "in", field |-> field, values |-> values, args |-> <<>>]
Time(rel, field, value) ==
  [op |-> "time", rel |-> rel, field |-> field, value |-> value, args |-> <<>>]
Aggregate(op, field) == [op |-> op, field |-> field, args |-> <<>>]
Join(op, a, b) == [op |-> op, args |-> <<a, b>>]
Not(a) == [op |-> "not", args |-> <<a>>]

Aggregates == {Aggregate(op, "quantity") : op \in {"sum", "min", "max", "count"}}

Leaves ==
  {Compare(">", "quantity", Number(1)), Compare("==", "committer_did", Text(1)),
   In("committer_did", {Text(1), Text(3)}), Time("<", "issued_at", Instant(1)),
   [op |-> "unknown", args |-> <<>>]}
    \union {CompareTo("<=", a, Number(2)) : a \in Aggregates}
    \union {CompareTo(">", Aggregate("sum", "quantity"), Number(6))}

\* A numeric aggregate where a truth value is due, and an order on text.
Odd == {Aggregate("count", "quantity"), Compare("<", "committer_did", Text(2))}

Conditions ==
  {Compare(">", "quantity", Number(1)), In("committer_did", {Text(1), Text(3)}),
   CompareTo("<=", Aggregate("sum", "quantity"), Number(2))}

Once == Leaves \union Odd
Twice ==
  {Not(e) : e \in Once} \union {Join(op, a, b) : op \in {"and", "or"}, a \in Conditions, b \in Once}
Thrice ==
  {Not(Not(e)) : e \in Odd} \union {Not(Join("or", a, b)) : a \in Conditions, b \in Odd}

CTrees == <<Aggregates, Once, Twice, Thrice>>

Deal(participants, tolerance, mandated, deadline) ==
  [type |-> "bilateral", participants |-> participants, required |-> Number(3),
   tolerance |-> tolerance, deadline |-> deadline, mandated |-> mandated]

Both == <<Text(1), Text(2)>>

CPredicates ==
  {[type |-> "closure", expression |-> e] : e \in UNION Range(CTrees)}
    \union {Deal(Both, t, m, Instant(1)) :
             t \in {Number(0), Number(1), Number(-1), NaN}, m \in {Flag(TRUE), Flag(FALSE)}}
    \union {[Deal(<<Text(1), Text(2), Text(3)>>, Number(0), Flag(FALSE), Instant(1))
               EXCEPT !.required = Number(8)]}
    \union {Deal(ps, Number(1), Flag(FALSE), Instant(1)) :
             ps \in {<<Text(1), Text(1)>>, <<Text(1), Number(2)>>, <<>>}}
    \union {Deal(Both, Number(1), Text(0), Instant(1)), Deal(Both, Number(1), Flag(FALSE), Text(4))}
    \union {[type |-> "unheard of"]}

Offer(did, quantity, proof, time) ==
  [record |-> TRUE,
   fields |-> [committer_did |-> did, quantity |-> quantity, mandate_proof_id |-> proof,
               issued_at |-> time]]

CCommitments ==
  {Offer(Text(1), Number(1), Text(1), Instant(0)), Offer(Text(2), Number(2), Text(0), Instant(1)),
   Offer(Text(2), Number(2), Text(1), Instant(0)), Offer(Text(2), NaN, Text(1), Text(5)),
   Offer(Text(3), Number(4), Text(1), Instant(0)), Offer(Text(3), Text(1), Text(1), Instant(0)),
   [record |-> FALSE, fields |-> <<>>]}
=============================================================================
