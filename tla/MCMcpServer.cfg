\* Registrations, receipts and bundles of two agents in two sessions, and restarts.
SPECIFICATION Spec
CONSTANTS
  Agents = {a, b}
  Clients = {c, d}
  Nobody = Nobody
  Sids <- TwoSessions
  TokenTTL = 5
  MaxTime = 1
  FileFails = FALSE
  MaxSessions = 2
  MaxActive = 2
  SessionTTLs <- Short
  MaxRounds = 0
  RegistrationTTL = 0
  MaxAgents = 1
  MaxAttestations = 2
  MaxBundles = 2
  MaxReceipts = 2
  MaxChanges = 1
SYMMETRY PartySymmetry
INVARIANTS
  VerifiedBundlesTellTruth
PROPERTIES
  NoTakeover
  BundlesVerifyAgain
CHECK_DEADLOCK FALSE
