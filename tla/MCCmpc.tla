------------------------------- MODULE MCCmpc -------------------------------
(***************************************************************************)
(* A promise chain and the evaluation of its closure, on small instances.  *)
(* In the code neither changes the other: the host reads the evaluator's   *)
(* answer and sets the activation proof or not (SetProof, at any time).    *)
(* So each is explored by itself, while the other is at rest.              *)
(***************************************************************************)
EXTENDS ChainSession, MCClosure

Unheard == [type |-> "unheard of"]
EvaluatorAtRest == predicate = Unheard /\ commitmentList = <<>> /\ evaluationNow = 0

CmpcInit == Init /\ ClosureInit

CmpcNext ==
  \/ EvaluatorAtRest /\ Next /\ UNCHANGED closureVars
  \/ Init /\ ClosureNext /\ UNCHANGED vars

\* The fairness of ChainSession's FairSpec.
CmpcSpec ==
  /\ CmpcInit
  /\ [][CmpcNext]_<<vars, closureVars>>
  /\ WF_vars(EvaluatorAtRest /\ Tick /\ UNCHANGED closureVars)
  /\ \A h \in Holders :
       WF_vars(/\ EvaluatorAtRest /\ UNCHANGED closureVars
               /\ h \in Held /\ \E to \in States : TransitionTo(h, to))
=============================================================================
