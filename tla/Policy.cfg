\* The capability policy from an empty registry.
CONSTANTS
  None = None
  Packets <- OnePacket
  PacketScope <- ScopedPacket
  Start <- StartAwaiting
  Scopes <- OneScope
  Principals <- AliceAndBob
  Trusted <- Nobody
  Ops <- PolicyOps
  Request <- PolicyRequests
  HandSigned <- PolicyHandSigned
  Bytes <- OneContent
  Intact <- OneContent
  Generated = "receipt1"
  PriorGrants <- NoGrants
  PriorEvents = 0
  Workers = {w1, w2}
  PacketSteps <- NoSteps
  CandidateSteps <- NoSteps
  Unverified <- NoSteps
  MaxEvents = 4
SPECIFICATION Spec
SYMMETRY Symmetry
INVARIANTS
  AdminRemains
  RevokedOnce
  BootstrapsOnce
\* The events are bounded, so a history that used them up stops.
CHECK_DEADLOCK FALSE
