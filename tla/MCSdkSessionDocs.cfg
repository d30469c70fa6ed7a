\* What SPEC.md and the SDK say of a session; use -continue to see each of them violated.
CONSTANTS
  Agents = {alice, bob}
  Initiator = alice
  Sid = sid
  OtherSid = otherSid
  Values = {}
  NoTerms = NoTerms
  MaxRounds = 1
  MaxMessages = 4
  MaxWire = 1
  Speech <- DeliveryKinds
SPECIFICATION TwinSpec
INVARIANTS
  DormantCanReopen
  AgreedByAll
  SdkRefusesAlike
CHECK_DEADLOCK FALSE
