\* One reference, ten mandates that may be filed under it, one verification.
CONSTANTS
  ref = ref
  elsewhere = elsewhere
  issuer = issuer
  broker = broker
  vault = vault
  EcSigners = {vault}
  agent = agent
  None = None
  Unknown = Unknown
  Refs = {ref}
  Bodies <- CBodies
  Requests <- CRequests
  Wide = 3
  MaxTime = 2
  MaxEvents = 1
SPECIFICATION Spec
INVARIANTS
  GrantsComeFromTheIssuer
  GrantsOnlyNarrow
  VerifiersAgree
PROPERTIES
  ListingReachesCopies
CHECK_DEADLOCK FALSE
