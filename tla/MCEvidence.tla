----------------------------- MODULE MCEvidence -----------------------------
(* A small instance of Evidence: a mandate, two predicates that may refer to *)
(* each other, a receipt that approves the mandate, and two attestations,    *)
(* of one session or of two.  The third id is what the hashes of the first   *)
(* two are, written one after the other.                                     *)
EXTENDS Evidence

CONSTANTS m, p, q, r, a, b

To(id, relationship) == [id |-> id, relationship |-> relationship]

RecordScopes ==
  {[name |-> "single_artifact", depth |-> 3], [name |-> "cascade_to_dependents", depth |-> 1],
   [name |-> "cascade_to_dependents", depth |-> 3]}

\* p fulfills the mandate or extends q, q refers to nothing or extends p and
\* itself, the receipt builds on p, the first attestation fulfills p.
Lists ==
  (p :> {<<To(m, "fulfills")>>, <<To(q, "extends"), To(m, "references")>>})
    @@ (q :> {<<>>, <<To(p, "extends"), To(q, "extends")>>})
    @@ (r :> {<<To(m, "approves"), To(p, "fulfills")>>})
    @@ (1 :> {<<To(p, "fulfills")>>}) @@ (2 :> {<<>>})

Sessions == {[id |-> "s", state |-> "agreed", parties |-> {a, b}], [id |-> "t", state |-> "rejected", parties |-> {a, b}]}

IssuerWindows == {[from |-> 0, until |-> 1], [from |-> 1, until |-> 2]}
\* Bound: attestations are not shown beside documents of other kinds (one may depend on
\* a predicate that is not shown), and beside each other only where bundles and proofs
\* are looked at.
OneKindAtATime ==
  \/ Candidates \cap Attested = {}
  \/ Quiet
  \/ OnlyAttestations /\ Cardinality(Candidates) = 1

JoinedIds == 3 :> <<Hash(<<1>>), Hash(<<2>>)>>

\* Lists that share a root, one of them with an id that is not plain, and with an id
\* that occurs twice.
ASSUME RootsAreShared ==
  /\ MerkleRoot(<<3>>) = MerkleRoot(<<1, 2>>)
  /\ MerkleRoot(<<1, 2, 4>>) = MerkleRoot(<<1, 2, 4, 4>>)
=============================================================================
