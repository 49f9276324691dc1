\* Two candidates that are twins, share a link, or are unlike.
CONSTANTS
  None = None
  Candidates <- TwoCandidates
  Signals <- ThreeSignals
  Source <- SignalSource
  Identifiers <- NoIdentifiers
  Link <- SignalLink
  Filed <- FiledSignals
  Submissions <- TwoSubmissions
  Packets = {k1, k2, k3}
  Workers = {w1, w2}
  MaxFaults = 1
SPECIFICATION LiveSpec
INVARIANTS
  PipelineTypeOK
  AlikeNeverBothPass
  SuppressedHasMatch
  PreservedIsComplete
  PacketsMirrorCandidates
  NoDirectoryLeft
PROPERTIES
  ImplementsLifecycle
  FinishedOrAbandoned
\* Every candidate may be finished or abandoned and every bound used up.
CHECK_DEADLOCK FALSE
