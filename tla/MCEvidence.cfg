CONSTANTS
  m = m
  p = p
  q = q
  r = r
  a = a
  b = b
  Predicates = {p, q}
  Receipts = {r}
  Attested = {1, 2}
  Roots = {m}
  ReferenceLists <- Lists
  Concluded <- Sessions
  Windows <- IssuerWindows
  Forms = {"sound"}
  Statuses = {"active", "suspended"}
  Expiries = {1}
  Scopes <- RecordScopes
  DepthLimit = 2
  MaxDocuments = 3
  MaxRecords = 1
  None = None
  MaxTime = 2
  MaxAge = 1
  Skew = 1
  Ahead = {0, 2}
  Joined <- JoinedIds
  Agents = {a, b}
  OtherVersions = {1, 4, 7}
  CommittedIds = {1, 2, 3}
  MaxCommitted = 3
  MaxShown = 2
SPECIFICATION Spec
CONSTRAINT OneKindAtATime
INVARIANTS CascadeIsReach DependentsRefused AcceptedIsFresh CreditIsCountersigned AggregateIsCommitted
PROPERTY RefusalsAreFinal
CHECK_DEADLOCK FALSE
