\* Four postings, three kinds on each side, a store of matches that fills up.
CONSTANTS
  Agents = {a1, a2}
  Nowhere = Nowhere
  Anywhere = Anywhere
  Distance <- CDistance
  Contents <- CContents
  Lives = {FALSE}
  MaxListed = 3
  MaxActive = 2
  MaxMatches = 2
  MaxEntries = 4
SPECIFICATION Spec
SYMMETRY AgentSymmetry
INVARIANTS
  PairsFound
  MatchesAccounted
  IndexAgrees
PROPERTIES
  GoneForGood
CHECK_DEADLOCK FALSE
