\* Two sessions, mailboxes and transcripts that fill up, and an archive limit.
CONSTANTS
  Agents = {a1, a2}
  Nobody = Nobody
  SessionIds = {1, 2}
  Kinds = {"offer", "accept"}
  MaxSessions = 2
  MaxActive = 1
  MaxMailbox = 2
  MaxTranscript = 2
  MaxArchives = 2
  MaxMessages = 3
  Limits = {1}
  AutoAttest = {TRUE}
SPECIFICATION Spec
SYMMETRY AgentSymmetry
INVARIANTS
  Accounted
  InOrder
  ArchivesFaithful
PROPERTIES
  NoResurrection
CONSTRAINT StaleBesideOneArchive
CHECK_DEADLOCK FALSE
