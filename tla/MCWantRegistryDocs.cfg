\* Contents whose ranges of numbers do not meet.
CONSTANTS
  Agents = {a1, a2}
  Nowhere = Nowhere
  Anywhere = Anywhere
  Distance <- CDistance
  Contents <- CRanges
  Lives = {FALSE}
  MaxListed = 3
  MaxActive = 2
  MaxMatches = 2
  MaxEntries = 3
SPECIFICATION Spec
SYMMETRY AgentSymmetry
INVARIANTS
  MatchedRangesMeet
CHECK_DEADLOCK FALSE
