\* Commands and reconciliations share the receipt log.
CONSTANTS
  Workers = {w1, w2}
  MaxEvents = 3
  Decisions <- FirstDecides
  Damage <- AnyDamage
  Edits = TRUE
  MaxFailures = 2
SPECIFICATION FairSpec
INVARIANTS
  ProjectionTypeOK
  ProjectionFollowsCommit
  CopiesBounded
PROPERTIES
  ProjectedUnlessDamaged
\* The events are bounded: a history that projected all of them stops.
CHECK_DEADLOCK FALSE
