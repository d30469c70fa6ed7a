\* The resolver notes a revocation on its copy.
CONSTANTS
  ref = ref
  elsewhere = elsewhere
  issuer = issuer
  broker = broker
  vault = vault
  EcSigners = {vault}
  agent = agent
  None = None
  Unknown = Unknown
  Refs = {ref}
  Bodies <- CBodies
  Requests <- CRequests
  Wide = 3
  MaxTime = 2
  MaxEvents = 1
SPECIFICATION Spec
INVARIANT RevocationIsOnlySurfaced
CHECK_DEADLOCK FALSE
