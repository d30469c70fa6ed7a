\* What an agent dealt with itself is indexed twice and reasoned twice each time.
CONSTANTS
  ann = ann
  ben = ben
  cleo = cleo
  None = None
  Bad = Bad
  Agents = {ann, ben, cleo}
  Known = {ann, ben, cleo}
  Submissions <- CSubmissions
  LoopHistory = 2
  MaxAttestations = 4
SPECIFICATION Spec
INVARIANT
  RatesAreRates
CHECK_DEADLOCK FALSE
