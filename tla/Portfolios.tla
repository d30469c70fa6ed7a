----------------------------- MODULE Portfolios -----------------------------
(***************************************************************************)
(* What an agent shows of its attestations: receipt bundles                *)
(* (src/concordia/receipt_bundle.py) and competence proofs with their      *)
(* Merkle commitment (src/concordia/competence_proof.py), and how they are *)
(* verified.  Attestation ids are numbers, sorted as such.  A hash stands  *)
(* for the text it is taken of, and a text is the list of what was written *)
(* down one after the other: nothing tells the text of a leaf from that of *)
(* a node, and an id may itself be two hashes written down so.             *)
(***************************************************************************)
EXTENDS Attestations, SequencesExt

CONSTANT
  Joined  \* id that is written as two hashes -> those hashes

ASSUME PortfoliosAssumption == \A id \in DOMAIN Joined : DOMAIN Joined[id] = {1, 2}

----------------------------------------------------------------------------
\* Merkle trees over lists of ids, in which one may occur more than once.

\* Equal ids stay in their order.
Sorted(ids) ==
  LET rank(i) == Cardinality({j \in DOMAIN ids : ids[j] < ids[i] \/ (ids[j] = ids[i] /\ j <= i)})
  IN  CHOOSE s \in [DOMAIN ids -> Range(ids)] : \A i \in DOMAIN ids : s[rank(i)] = ids[i]

Hash(text) == [sha256 |-> text]

Leaf(id) == Hash(IF id \in DOMAIN Joined THEN Joined[id] ELSE <<id>>)

Node(left, right) == Hash(<<left, right>>)

Leaves(ids) == LET sorted == Sorted(ids) IN [i \in DOMAIN sorted |-> Leaf(sorted[i])]

\* A node without a neighbour is hashed with itself.
Neighbour(layer, i) ==
  LET j == IF i % 2 = 1 THEN i + 1 ELSE i - 1 IN layer[IF j \in DOMAIN layer THEN j ELSE i]

Above(layer) ==
  [i \in 1..((Len(layer) + 1) \div 2) |-> Node(layer[2 * i - 1], Neighbour(layer, 2 * i - 1))]

\* From the leaves up to the root, or to the only layer there is.
Layers(leaves) ==
  LET layer[k \in 0..Len(leaves)] == IF k = 0 THEN leaves ELSE Above(layer[k - 1])
      height == CHOOSE k \in 0..Len(leaves) : Len(layer[k]) <= 1 /\ \A j \in 0..(k - 1) : Len(layer[j]) > 1
  IN  [k \in 1..(height + 1) |-> layer[k - 1]]

MerkleRoot(ids) == IF ids = <<>> THEN None ELSE Last(Layers(Leaves(ids)))[1]

GenerateProof(id, ids) ==
  LET layers == Layers(Leaves(ids))
      index == CHOOSE i \in DOMAIN layers[1] : /\ layers[1][i] = Leaf(id)
                                               /\ \A j \in 1..(i - 1) : layers[1][j] # Leaf(id)
      at[k \in 1..Len(layers)] == IF k = 1 THEN index ELSE (at[k - 1] + 1) \div 2
  IN  [id |-> id, index |-> index, path |-> [k \in 1..(Len(layers) - 1) |-> Neighbour(layers[k], at[k])]]

VerifyProof(id, proof, root) ==
  LET up[k \in 0..Len(proof.path)] ==
        IF k = 0 THEN [hash |-> Leaf(id), index |-> proof.index]
        ELSE LET below == up[k - 1]
             IN  [hash |-> IF below.index % 2 = 1 THEN Node(below.hash, proof.path[k]) ELSE Node(proof.path[k], below.hash),
                  index |-> (below.index + 1) \div 2]
  IN  root # None /\ up[Len(proof.path)].hash = root

----------------------------------------------------------------------------
\* Rates are ratios of these counts and are left out.
ComputeSummary(agent, atts) ==
  [total          |-> Len(atts),
   agreements     |-> Len(SelectSeq(atts, LAMBDA a : a.outcome = "agreed")),
   counterparties |-> UNION {atts[i].parties \ {agent} : i \in DOMAIN atts}]

PartyInEach(agent, atts) == \A i \in DOMAIN atts : agent \in atts[i].parties

\* Signed by the agent, so never other than the agent made it.
CreateBundle(agent, atts) == [agent |-> agent, attestations |-> atts, summary |-> ComputeSummary(agent, atts)]

\* A record whose key is not known is let pass, if it is signed at all.
RecordsHold(att, keys) ==
  \A p \in att.parties : att.records[p] \in {"issued", "resigned"} \/ (att.records[p] # "unsigned" /\ p \notin keys)

Distinct(atts) ==
  \A i, j \in DOMAIN atts : i # j => atts[i].id # atts[j].id /\ atts[i].session # atts[j].session

VerifyBundle(bundle, keys) ==
  LET atts == bundle.attestations
      credited == {i \in DOMAIN atts : OutcomeBound(atts[i], keys) = "bound"}
  IN  [valid |-> /\ bundle.agent \in keys
                 /\ PartyInEach(bundle.agent, atts) /\ Distinct(atts)
                 /\ \A i \in DOMAIN atts : /\ RecordsHold(atts[i], keys)
                                           /\ OutcomeBound(atts[i], keys) # "error"
                                           /\ SetBinding(atts[i]) # "error"
                 /\ atts = <<>> \/ bundle.summary = ComputeSummary(bundle.agent, atts),
       credited |-> {atts[i] : i \in credited}]

----------------------------------------------------------------------------
\* All of it chosen and signed by the agent: the ids committed to, their
\* number, the claims, and what is revealed.
CreateProof(agent, ids, count, claims, revealed) ==
  [agent |-> agent, root |-> MerkleRoot(ids), count |-> count, claims |-> claims, revealed |-> revealed,
   proofs |-> [i \in DOMAIN revealed |-> GenerateProof(revealed[i].id, ids)]]

\* Fault: the root is taken to be of what is revealed when each of it is a leaf.
RootBoundByMembers(proof) == \A i \in DOMAIN proof.revealed : VerifyProof(proof.revealed[i].id, proof.proofs[i], proof.root)

RootBound(proof) ==
  proof.root = MerkleRoot([i \in DOMAIN proof.revealed |-> proof.revealed[i].id])

Members(proof) ==
  LET revealed == proof.revealed
  IN  Cardinality({revealed[i].id : i \in {j \in DOMAIN revealed : VerifyProof(revealed[j].id, proof.proofs[j], proof.root)}})

VerifyCompetence(proof, keys) ==
  LET revealed == proof.revealed
      members == Members(proof)
      full == proof.count > 0 /\ Len(revealed) = proof.count /\ members = proof.count
      sound == /\ proof.agent \in keys
               /\ proof.count = proof.claims.total
               /\ PartyInEach(proof.agent, revealed)
               /\ \A i \in DOMAIN revealed : /\ RecordsHold(revealed[i], keys)
                                             /\ OutcomeBound(revealed[i], keys) # "error"
                                             /\ VerifyProof(revealed[i].id, proof.proofs[i], proof.root)
               /\ full => proof.claims = ComputeSummary(proof.agent, revealed) /\ RootBound(proof)
  IN  [valid |-> sound,
       aggregate |-> sound /\ full /\ \A i \in DOMAIN revealed : OutcomeBound(revealed[i], keys) = "bound"]
=============================================================================
