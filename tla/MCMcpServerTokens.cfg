\* Tokens, sessions and restarts: a clock that outlives tokens and sessions.
SPECIFICATION Spec
CONSTANTS
  Agents = {a, b}
  Clients = {c}
  Nobody = Nobody
  Sids <- TwoSessions
  TokenTTL = 2
  MaxTime = 4
  FileFails = TRUE
  MaxSessions = 2
  MaxActive = 1
  SessionTTLs <- LongAndShort
  MaxRounds = 1
  RegistrationTTL = 0
  MaxAgents = 0
  MaxAttestations = 0
  MaxBundles = 0
  MaxReceipts = 0
  MaxChanges = 1
INVARIANTS
  TokensKeepTheirTerm
PROPERTIES
  LostByFailureOnly
CHECK_DEADLOCK FALSE
