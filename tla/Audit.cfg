\* The audit over every history of the race.
CONSTANTS
  None = None
  Packets <- OnePacket
  PacketScope <- ScopedPacket
  Start <- StartAwaiting
  Scopes <- OneScope
  Principals <- Alice
  Trusted <- Alice
  Ops <- RaceOps
  Request <- RaceRequest
  HandSigned <- NoEnvelopes
  Bytes <- Contents
  Intact <- GoodContents
  Generated = "receipt1"
  PriorGrants <- RaceGrants
  PriorEvents = 4
  Workers = {w1, w2}
  PacketSteps <- NoSteps
  CandidateSteps <- NoSteps
  Unverified <- NoSteps
  MaxEvents = 3
SPECIFICATION Spec
INVARIANTS
  AuditAcceptsEveryHistory
\* The events are bounded, so a history that used them up stops.
CHECK_DEADLOCK FALSE
