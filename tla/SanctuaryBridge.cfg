\* An offer and its acceptance in a session opened on other terms.
CONSTANTS
  Agents = {alice, bob}
  Initiator = alice
  Responder = bob
  Sid = sid
  OtherSid = otherSid
  Values = {0, 1}
  NoTerms = NoTerms
  MaxRounds = 2
  MaxMessages = 5
  MaxWire = 0
  Speech = {"offer", "counter", "accept", "reject", "commit"}
SPECIFICATION BridgeSpec
INVARIANT
  CommitsWhatWasAgreed
CHECK_DEADLOCK FALSE
