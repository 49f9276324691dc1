\* Revoking a grant issued before grants carried a scope.
CONSTANTS
  None = None
  Packets <- OnePacket
  PacketScope <- ScopedPacket
  Start <- StartAwaiting
  Scopes <- OneScope
  Principals <- Alice
  Trusted <- Alice
  Ops <- LegacyOps
  Request <- LegacyRequest
  HandSigned <- NoEnvelopes
  Bytes <- OneContent
  Intact <- OneContent
  Generated = "receipt1"
  PriorGrants <- ScopeGrants
  PriorEvents = 3
  Workers = {w1, w2}
  PacketSteps <- NoSteps
  CandidateSteps <- NoSteps
  Unverified <- NoSteps
  MaxEvents = 2
SPECIFICATION Spec
INVARIANTS
  PreparedRevocationBinds
\* The events are bounded, so a history that used them up stops.
CHECK_DEADLOCK FALSE
