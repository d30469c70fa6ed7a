\* Two holders of one bilateral session, and three points in time around its deadline; and
\* trees of up to three levels and bilateral deals over up to three commitments.
CONSTANTS
  Holders = {h1, h2}
  First = h1
  Participants = 2
  Deadline = 1
  None = None
  MaxCommitments = 3
  MaxTime = 2
  Trees <- CTrees
  Predicates <- CPredicates
  Commitments <- CCommitments
  Precision = 4
  Largest = 9
  MaxSubmitted = 3
  MaxClock = 1
SPECIFICATION CmpcSpec
INVARIANTS
  TranscriptTellsState
  AlterationShows
  ExpiryFollowsActivation
  FailsClosed
  OrderMattersOnlyMixedOrRounded
PROPERTIES
  OpenEnds
CHECK_DEADLOCK FALSE
