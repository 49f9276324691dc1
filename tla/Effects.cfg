\* Two executor processes over two released packets.
CONSTANTS
  None = None
  p1 = p1
  p2 = p2
  e1 = e1
  x1 = x1
  x2 = x2
  Packets <- TwoPackets
  PacketScope <- ScopeOf
  Bytes <- Contents
  Intact <- SameManifest
  Malformed <- NoManifest
  Generated = "released"
  BindingRequests <- CollidingBindings
  Executors = {e1}
  Processes = {x1, x2}
  HandSigned <- Foreign
  MaxAttempts = 2
  MaxRuns = 3
  MaxEdits = 2
SPECIFICATION AuditSpec
SYMMETRY Symmetry
INVARIANTS
  EffectTypeOK
  TargetsAreSeparate
  ClaimsAreSerial
  ResultsFitClaims
  SuccessIsCaptured
  AuditBlamesOnlyEdits
PROPERTIES
  CaptureIsFinal
  FirstResultStands
  ImplementsEffectLifecycle
\* Attempts and runs are bounded, so a history that used them up stops.
CHECK_DEADLOCK FALSE
