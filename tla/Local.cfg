\* The local state machine, packet and candidate, beside approval and release.
CONSTANTS
  None = None
  Packets <- OnePacket
  PacketScope <- ScopedPacket
  Start <- StartGenerated
  Scopes <- OneScope
  Principals <- Alice
  Trusted <- Alice
  Ops <- LocalOps
  Request <- LocalRequest
  HandSigned <- NoEnvelopes
  Bytes <- GoodContents
  Intact <- GoodContents
  Generated = "receipt1"
  PriorGrants <- RaceGrants
  PriorEvents = 4
  Workers = {w1, w2}
  PacketSteps <- LocalSteps
  CandidateSteps <- CandidateOnly
  Unverified <- LocalUnverified
  MaxEvents = 4
SPECIFICATION Spec
SYMMETRY Symmetry
INVARIANTS
  ChainExplainsState
PROPERTIES
  OnlySignedCrossesAuthority
\* The events are bounded, so a history that used them up stops.
CHECK_DEADLOCK FALSE
