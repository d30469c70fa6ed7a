------------------------------ MODULE Closure -------------------------------
(***************************************************************************)
(* Whether the commitments made on a chain session close it                *)
(* (evaluate_predicate, src/concordia/cmpc/predicate.py): the bilateral    *)
(* profile and the closure language, over commitments that arrive in any   *)
(* order while the evaluator's clock runs.                                 *)
(*                                                                         *)
(* A value is [class, value]: a number, a string, an instant (text where   *)
(* an instant is parsed, a datetime elsewhere), or none of them.  The      *)
(* words behind a string are numbered, 0 being the empty one.  A number is *)
(* so many of the smallest unit that floats tell apart here; sums of them  *)
(* are rounded, one addition after the other.  A commitment is a record or *)
(* not, and has some of the fields.                                        *)
(***************************************************************************)
EXTENDS Integers, SequencesExt

CONSTANTS
  Trees,           \* closure-language trees by height, with every subtree of each
  Predicates,      \* what may be evaluated
  Commitments,     \* what a participant may commit to
  Precision,       \* whole numbers up to this are floats, every one of them
  Largest,         \* the largest float
  MaxSubmitted,    \* bound
  MaxClock         \* bound

Expressions == UNION Range(Trees)

Value ==
  [class : {"number", "str", "instant", "bool", "nan", "missing", "malformed"}, value : Int]

\* JSON trees end; only Boolean nodes and comparisons have any below them.
ASSUME ClosureAssumption ==
  /\ Trees \in Seq(SUBSET Expressions)
  /\ \A e \in Expressions : e.args \in Seq(Expressions)
  /\ \A n \in DOMAIN Trees : \A e \in Trees[n] : \A a \in Range(e.args) :
       \E m \in 1..(n - 1) : a \in Trees[m]
  /\ \A e \in Expressions : e.args # <<>> => e.op \in {"and", "or", "not", "compare"}
  /\ \A e \in Expressions : e.op \in {"not", "compare"} => Len(e.args) <= 1
  /\ \A p \in Predicates : p.type = "closure" => p.expression \in Expressions
  /\ \A c \in Commitments : c.record => \A f \in DOMAIN c.fields : c.fields[f] \in Value
  /\ {Precision, Largest, MaxSubmitted, MaxClock} \subseteq Nat
  /\ Precision > 0

VARIABLES
  predicate,       \* an EvaluablePredicate
  commitmentList,  \* the commitments given to the evaluator, in the order they came
  evaluationNow    \* the evaluator's clock

closureVars == <<predicate, commitmentList, evaluationNow>>

Number(n) == [class |-> "number", value |-> n]
Text(n) == [class |-> "str", value |-> n]
Instant(n) == [class |-> "instant", value |-> n]
Flag(b) == [class |-> "bool", value |-> IF b THEN 1 ELSE 0]
NaN == [class |-> "nan", value |-> 0]
Missing == [class |-> "missing", value |-> 0]
Malformed == [class |-> "malformed", value |-> 0]

Comparable == {"number", "str", "instant"}

\* _resolve_field: what a dotted path finds in a commitment.
Field(c, f) == IF c.record /\ f \in DOMAIN c.fields THEN c.fields[f] ELSE Missing

Column(cs, f) == [i \in DOMAIN cs |-> Field(cs[i], f)]

\* A truth value, unless what it was found from is malformed.
Answer(sound, truth) == IF sound THEN Flag(truth) ELSE Malformed

-----------------------------------------------------------------------------
(* The closure language *)

Related(rel, x, y) ==
  CASE rel = "==" -> x = y
    [] rel = "!=" -> x # y
    [] rel = ">"  -> x > y
    [] rel = ">=" -> x >= y
    [] rel = "<"  -> x < y
    [] rel = "<=" -> x <= y

\* _typed_compare: the values are of one class, and only numbers are ordered.
Paired(rel, v, w) == v.class = w.class /\ (rel \in {"==", "!="} \/ v.class = "number")

\* Every value must be comparable; but they are compared one after the other up to the
\* first comparison that is false, and what comes after that need not be of w's class.
Compared(rel, vs, w) ==
  LET true(i) == Related(rel, vs[i].value, w.value)
  IN Answer(/\ vs # <<>> /\ w.class \in Comparable
            /\ \A i \in DOMAIN vs : vs[i].class \in Comparable
            /\ \A i \in DOMAIN vs : (\A j \in 1..(i - 1) : true(j)) => Paired(rel, vs[i], w),
            \A i \in DOMAIN vs : true(i))

\* Fault: the first value that is not accepted ends the search.
MemberLazy(vs, accepted) ==
  LET Good(i) == vs[i].class \in {w.class : w \in accepted}
  IN IF \E i \in DOMAIN vs : vs[i] \notin accepted /\ \A j \in 1..i : Good(j)
     THEN Flag(FALSE)
     ELSE Answer(vs # <<>> /\ accepted # {} /\ \A i \in DOMAIN vs : Good(i),
                 \A i \in DOMAIN vs : vs[i] \in accepted)

Member(vs, accepted) ==
  Answer(/\ vs # <<>> /\ accepted # {}
         /\ \A w \in accepted : w.class \in Comparable
         /\ \A i \in DOMAIN vs : vs[i].class \in {w.class : w \in accepted},
         \A i \in DOMAIN vs : vs[i] \in accepted)

Timed(rel, vs, w) ==
  Answer(vs # <<>> /\ w.class = "instant" /\ \A i \in DOMAIN vs : vs[i].class = "instant",
         \A i \in DOMAIN vs : Related(rel, vs[i].value, w.value))

Magnitude(n) == IF n < 0 THEN -n ELSE n

\* How far apart floats of n's size are: twice as far with every power of two.
Spacing(n) ==
  LET size == Magnitude(n)
  IN CHOOSE s \in {2 ^ k : k \in 0..size} :
       size <= Precision * s /\ (s = 1 \/ size > Precision * (s \div 2))

\* float: the nearest float, of two the one with an even significand.
Float(n) ==
  LET s == Spacing(n)
      below == n \div s
      excess == 2 * (n - below * s)
  IN s * IF excess > s \/ (excess = s /\ below % 2 = 1) THEN below + 1 ELSE below

\* The total after each addition, in the order given.
Totals(vs) ==
  LET sum[n \in 0..Len(vs)] == IF n = 0 THEN 0 ELSE Float(sum[n - 1] + Float(vs[n].value))
  IN sum

Total(vs) == Totals(vs)[Len(vs)]

\* A total that has become infinite stays so: no quantity is infinite itself.
Finite(vs) ==
  \A n \in 1..Len(vs) : Magnitude(vs[n].value) <= Largest /\ Magnitude(Totals(vs)[n]) <= Largest

Least(vs) == CHOOSE v \in Range(vs) : \A w \in Range(vs) : v.value <= w.value
Most(vs) == CHOOSE v \in Range(vs) : \A w \in Range(vs) : v.value >= w.value

Aggregated(op, cs, f) ==
  LET vs == Column(cs, f)
      numeric == \A i \in DOMAIN vs : vs[i].class = "number"
  IN IF cs = <<>> \/ (\E i \in DOMAIN cs : ~cs[i].record) \/ (op # "count" /\ ~numeric)
     THEN Malformed
     ELSE IF op = "count" THEN Number(Len(cs))
     ELSE IF op = "sum" THEN (IF Finite(vs) THEN Number(Total(vs)) ELSE NaN)
     ELSE IF op = "min" THEN Number(Float(Least(vs).value))
     ELSE Number(Float(Most(vs).value))

Booleans(vs) == vs # <<>> /\ \A i \in DOMAIN vs : vs[i].class = "bool"

AllOf(vs) == Answer(Booleans(vs), \A i \in DOMAIN vs : vs[i] = Flag(TRUE))

\* Fault: the first child that is true ends the search.
AnyOfLazy(vs) ==
  IF \E i \in DOMAIN vs : vs[i] = Flag(TRUE) /\ \A j \in 1..i : vs[j].class = "bool"
  THEN Flag(TRUE)
  ELSE Answer(Booleans(vs), FALSE)

AnyOf(vs) == Answer(Booleans(vs), \E i \in DOMAIN vs : vs[i] = Flag(TRUE))

Negated(v) == Answer(v.class = "bool", v = Flag(FALSE))

\* _evaluate_node, of a node with no other below it.
LeafValue(e, cs) ==
  IF e.op = "compare" THEN Compared(e.rel, Column(cs, e.field), e.value)
  ELSE IF e.op = "in" THEN Member(Column(cs, e.field), e.values)
  ELSE IF e.op = "time" THEN Timed(e.rel, Column(cs, e.field), e.value)
  ELSE IF e.op \in {"sum", "min", "max", "count"} THEN Aggregated(e.op, cs, e.field)
  ELSE Malformed

\* And of one with others below it, which come to args.
NodeValue(e, args) ==
  IF e.op = "and" THEN AllOf(args)
  ELSE IF e.op = "or" THEN AnyOf(args)
  ELSE IF e.op = "not" THEN Negated(args[1])
  ELSE Compared(e.rel, args, e.value)

\* What each tree comes to over the commitments cs.
Evaluate(cs) ==
  LET value[e \in Expressions] ==
        IF e.args = <<>> THEN LeafValue(e, cs)
        ELSE NodeValue(e, [i \in DOMAIN e.args |-> value[e.args[i]]])
  IN value

-----------------------------------------------------------------------------
(* The bilateral profile *)

Distinct(did) == did.class = "str" /\ did.value # 0

\* Everybody expected has committed once, and nobody else.
Committers(p, cs) ==
  LET did == Column(cs, "committer_did")
  IN /\ cs # <<>>
     /\ \A i \in DOMAIN cs : Distinct(did[i])
     /\ IsInjective(did)
     /\ Range(did) = Range(p.participants)

SumsUp(p, cs) ==
  LET quantity == Column(cs, "quantity")
      gap == Float(Total(quantity) - Float(p.required.value))
  IN /\ \A i \in DOMAIN cs : quantity[i].class = "number"
     /\ Finite(quantity)
     /\ Magnitude(gap) <= Float(p.tolerance.value)

Bilateral(p, cs, time) ==
  /\ p.participants # <<>> /\ \A i \in DOMAIN p.participants : Distinct(p.participants[i])
  /\ p.required.class = "number"
  /\ p.tolerance.class = "number" /\ p.tolerance.value >= 0
  /\ p.deadline.class = "instant"
  /\ p.mandated.class = "bool"
  /\ Committers(p, cs)
  /\ SumsUp(p, cs)
  /\ time < p.deadline.value
  /\ p.mandated = Flag(TRUE) =>
       \A i \in DOMAIN cs : Field(cs[i], "mandate_proof_id") \notin {Missing, Text(0)}

\* evaluate_predicate: everything but a predicate known to hold is unsatisfied.
Satisfied(p, cs, time) ==
  \/ p.type = "bilateral" /\ Bilateral(p, cs, time)
  \/ p.type = "closure" /\ Evaluate(cs)[p.expression] = Flag(TRUE)

-----------------------------------------------------------------------------
ClosureInit ==
  /\ predicate \in Predicates
  /\ commitmentList = <<>>
  /\ evaluationNow = 0

\* A participant's commitment reaches the evaluator.
Submit(c) ==
  /\ Len(commitmentList) < MaxSubmitted
  /\ commitmentList' = Append(commitmentList, c)
  /\ UNCHANGED <<predicate, evaluationNow>>

Elapse ==
  /\ evaluationNow < MaxClock
  /\ evaluationNow' = evaluationNow + 1
  /\ UNCHANGED <<predicate, commitmentList>>

ClosureNext == (\E c \in Commitments : Submit(c)) \/ Elapse

ClosureSpec == ClosureInit /\ [][ClosureNext]_closureVars

-----------------------------------------------------------------------------
(* Properties *)

\* The trees a tree consists of.
Parts ==
  LET parts[e \in Expressions] == {e} \union UNION {parts[a] : a \in Range(e.args)}
  IN parts

\* What a comparison of a field is about.
FieldComparison(e) == e.op = "compare" /\ e.args = <<>>

\* A closure-language tree that is satisfied has no part that could not be evaluated:
\* whatever the other branches come to, and whichever commitment the malformed value is
\* in, it keeps the deal open (the fail-closed contract of the module); nor is any value
\* that a comparison looks at missing, a truth value or not finite.  And a bilateral
\* deal that is closed waited for everybody's commitment: with any of them away, early or
\* late, it is open (evaluate_bilateral_chain_closure_v1).
FailsClosed ==
  Satisfied(predicate, commitmentList, evaluationNow) =>
    /\ commitmentList # <<>>
    /\ predicate.type = "closure" =>
         \A e \in Parts[predicate.expression] :
           /\ Evaluate(commitmentList)[e] # Malformed
           /\ FieldComparison(e) => \A i \in DOMAIN commitmentList :
                Field(commitmentList[i], e.field).class \in Comparable
    /\ predicate.type = "bilateral" =>
         \A i \in DOMAIN commitmentList :
           ~Satisfied(predicate, RemoveAt(commitmentList, i), evaluationNow)

\* Some values may be compared with w and one of them is refuted; others may not.
Mixed(rel, vs, w) ==
  /\ \E i \in DOMAIN vs : Paired(rel, vs[i], w) /\ ~Related(rel, vs[i].value, w.value)
  /\ \E i \in DOMAIN vs : ~Paired(rel, vs[i], w)

MixedPart(e, cs) == FieldComparison(e) /\ Mixed(e.rel, Column(cs, e.field), e.value)

Reordered(cs, order) == [i \in DOMAIN cs |-> cs[order[i]]]

\* No addition of these values was rounded, and none came to infinity.
Exact(vs) ==
  /\ Finite(vs)
  /\ \A n \in 1..Len(vs) : Totals(vs)[n] = Totals(vs)[n - 1] + vs[n].value

\* So in all the sums that p takes of cs.
SumsExactly(p, cs) ==
  /\ p.type = "bilateral" => Exact(Column(cs, "quantity"))
  /\ p.type = "closure" =>
       \A e \in Parts[p.expression] : e.op = "sum" => Exact(Column(cs, e.field))

\* Two evaluators that got the same commitments in different orders agree, unless a
\* comparison of the tree met values of its class and of another, or a sum was rounded
\* or overflowed in one order or the other: floats are added as they come, with no exact
\* summation, so that 0.1, 0.2 and 0.3 make 0.6 or a little more.
OrderMattersOnlyMixedOrRounded ==
  (predicate.type = "closure" =>
     \A e \in Parts[predicate.expression] : ~MixedPart(e, commitmentList))
  => \A order \in SetToSeqs(DOMAIN commitmentList) :
       /\ SumsExactly(predicate, commitmentList)
       /\ SumsExactly(predicate, Reordered(commitmentList, order))
       => (Satisfied(predicate, Reordered(commitmentList, order), evaluationNow)
             <=> Satisfied(predicate, commitmentList, evaluationNow))

-----------------------------------------------------------------------------
(* What the code says of a comparison, and does not do *)

\* _typed_compare: "A cross-type pairing is a malformed predicate, not a validly-unequal
\* one [...] Rejecting the mismatched pairing fails closed."  The comparisons stop at the
\* first that is false, so that a value of another class in a later commitment is not
\* rejected, and a negation is satisfied; in another order it is.
MismatchFailsClosed ==
  predicate.type = "closure" /\ Satisfied(predicate, commitmentList, evaluationNow) =>
    \A e \in Parts[predicate.expression] : FieldComparison(e) =>
      \A i \in DOMAIN commitmentList :
        Paired(e.rel, Field(commitmentList[i], e.field), e.value)

-----------------------------------------------------------------------------
(* What the tests say of a cap, which the code does not keep *)

\* tests/cmpc/test_closure_predicate.py, on direct_comparison_nan_cap: "not(qty > 1000)
\* is a hard quantity cap."  A comparison holds of a field when it holds of every
\* commitment, so its negation is satisfied by one commitment within the cap.
CapHolds ==
  /\ predicate.type = "closure"
  /\ predicate.expression.op = "not"
  /\ predicate.expression.args[1].op = "compare"
  /\ predicate.expression.args[1].args = <<>>
  /\ predicate.expression.args[1].rel = ">"
  /\ Satisfied(predicate, commitmentList, evaluationNow)
  => \A i \in DOMAIN commitmentList :
       Field(commitmentList[i], predicate.expression.args[1].field).value
         <= predicate.expression.args[1].value.value
=============================================================================
