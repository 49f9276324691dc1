\* One executor process and one packet whose files nobody touches.
CONSTANTS
  None = None
  p1 = p1
  p2 = p2
  e1 = e1
  x1 = x1
  x2 = x2
  Packets <- OnePacket
  PacketScope <- OneScopeOf
  Bytes <- ReleasedOnly
  Intact <- ReleasedOnly
  Malformed <- Nothing
  Generated = "released"
  BindingRequests <- OneBinding
  Executors = {e1}
  Processes = {x1}
  HandSigned <- Nothing
  MaxAttempts = 2
  MaxRuns = 2
  MaxEdits = 0
SPECIFICATION AuditSpec
INVARIANTS
  RetryMeansNoEffect
CHECK_DEADLOCK FALSE
