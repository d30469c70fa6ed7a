\* The commitments of which one is not of the class it is compared with.
CONSTANTS
  Trees <- CTrees
  Predicates <- CPredicates
  Commitments <- CCommitments
  Precision = 4
  Largest = 9
  MaxSubmitted = 3
  MaxClock = 1
SPECIFICATION ClosureSpec
INVARIANTS
  MismatchFailsClosed
CHECK_DEADLOCK FALSE
