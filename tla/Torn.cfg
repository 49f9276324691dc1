\* One process at a time, and one append that fails.
CONSTANTS
  Workers = {w1}
  MaxEvents = 2
  Decisions <- FirstDecides
  Damage <- AnyDamage
  Edits = FALSE
  MaxFailures = 1
SPECIFICATION FairSpec
PROPERTIES
  AppendIsRecovered
CHECK_DEADLOCK FALSE
