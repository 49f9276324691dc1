\* Two packets in two scopes, with hand-signed envelopes, under fair workers.
CONSTANTS
  None = None
  Packets <- TwoPackets
  PacketScope <- PacketScopes
  Start <- StartAwaiting
  Scopes <- TwoScopes
  Principals <- Alice
  Trusted <- Alice
  Ops <- ScopeOps
  Request <- ScopeRequest
  HandSigned <- ScopeHandSigned
  Bytes <- OneContent
  Intact <- OneContent
  Generated = "receipt1"
  PriorGrants <- ScopeGrants
  PriorEvents = 3
  Workers = {w1, w2}
  PacketSteps <- NoSteps
  CandidateSteps <- NoSteps
  Unverified <- NoSteps
  MaxEvents = 2
SPECIFICATION LiveSpec
INVARIANTS
  AcceptedIsAuthorized
  AuditFlagsOnlyRejections
PROPERTIES
  VerifiedIsConsumed
\* The events are bounded, so a history that used them up stops.
CHECK_DEADLOCK FALSE
