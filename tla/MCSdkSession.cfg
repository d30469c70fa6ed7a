\* Late, repeated, spoiled and foreign envelopes, with offers of differing values, zero and none.
CONSTANTS
  Agents = {alice, bob}
  Initiator = alice
  Sid = sid
  OtherSid = otherSid
  Values = {0, 1}
  NoTerms = NoTerms
  MaxRounds = 2
  MaxMessages = 4
  MaxWire = 1
  Speech <- ShortKinds
SPECIFICATION TwinSpec
INVARIANTS
  AgreementCloses
  AlwaysConcludable
  ReportedOnce
  BehaviorFollowsTranscript
  SdkFollows
PROPERTIES
  ImplementsLog
CHECK_DEADLOCK FALSE
