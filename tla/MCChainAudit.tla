---------------------------- MODULE MCChainAudit ----------------------------
(***************************************************************************)
(* Instances of ChainAudit for TLC: a database of version 2 that lacks     *)
(* tables, columns and the chain, and one of version 4 with a chain.       *)
(***************************************************************************)
EXTENDS ChainAudit, TLC

AllTables == {"transition_events", "transition_event_chain_state", "capability_grants"}
AddedColumns == <<"transition_events", "transition_events", "capability_grants">>

VersionTwo ==
  [ version |-> 2, tables |-> {"transition_events"}, columns |-> {}, vocabulary |-> FALSE,
    active |-> FALSE, legacy |-> {"e1"}, appended |-> <<>> ]
VersionFour ==
  [ version |-> 4, tables |-> AllTables, columns |-> {1}, vocabulary |-> FALSE,
    active |-> TRUE, legacy |-> {"e1"}, appended |-> <<"e2">> ]
OlderDatabases == {VersionTwo, VersionFour}
=============================================================================
