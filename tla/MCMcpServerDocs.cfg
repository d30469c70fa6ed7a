\* What SPEC.md and auth.py say of sessions and their tokens.
SPECIFICATION Spec
CONSTANTS
  Agents = {a, b}
  Clients = {c}
  Nobody = Nobody
  Sids <- OneSession
  TokenTTL = 3
  MaxTime = 2
  FileFails = TRUE
  MaxSessions = 1
  MaxActive = 1
  SessionTTLs <- Short
  MaxRounds = 1
  RegistrationTTL = 1
  MaxAgents = 1
  MaxAttestations = 1
  MaxBundles = 1
  MaxReceipts = 1
  MaxChanges = 1
INVARIANT TokensLeadSomewhere
PROPERTY DealsInTime
CHECK_DEADLOCK FALSE
