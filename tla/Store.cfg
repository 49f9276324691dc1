\* Two commands migrate databases of earlier releases and append, beside an audit.
CONSTANTS
  None = None
  Workers = {w1, w2}
  Events = {"e1", "e2", "e3"}
  Tables <- AllTables
  GrantTable = "capability_grants"
  ChainTable = "transition_event_chain_state"
  Added <- AddedColumns
  Databases <- OlderDatabases
  MaxFaults = 1
  MaxEdits = 1
SPECIFICATION LiveSpec
INVARIANTS
  StoreTypeOK
  CurrentIsComplete
  ChainTellsEdits
PROPERTIES
  MigrationCompletes
  AuditBlamesOnlyAppends
