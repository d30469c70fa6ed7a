\* Two sessions, mailboxes and transcripts that fill up, and an archive limit.
CONSTANTS
  Agents = {a1, a2}
  Nobody = Nobody
  SessionIds = {1, 2}
  Kinds = {"offer", "accept"}
  MaxSessions = 2
  MaxActive = 1
  MaxMailbox = 1
  MaxTranscript = 2
  MaxArchives = 1
  MaxMessages = 3
  Limits = {1}
  AutoAttest = {TRUE}
SPECIFICATION Spec
SYMMETRY AgentSymmetry
INVARIANTS
  KeptIsMailed
  NoSelfSession
CHECK_DEADLOCK FALSE
