\* Attestations of three agents, four of which fit into the store, in every order.
CONSTANTS
  ann = ann
  ben = ben
  cleo = cleo
  None = None
  Bad = Bad
  Agents = {ann, ben, cleo}
  Known = {ann, ben, cleo}
  Submissions <- CSubmissions
  LoopHistory = 2
  MaxAttestations = 4
SPECIFICATION Spec
INVARIANTS
  EachSessionCountsOnce
  LoopsAreFlagged
  EvidenceBuildsConfidence
CHECK_DEADLOCK FALSE
