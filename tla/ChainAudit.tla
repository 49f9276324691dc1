----------------------------- MODULE ChainAudit -----------------------------
(***************************************************************************)
(* verify_integrity on the chain, while commands run.  The audit opens the *)
(* database read-only and without a transaction: the version, the state    *)
(* row, the events joined with their entries, and the entries without an   *)
(* event are read one after the other, each from the database of its own   *)
(* moment.  Audits follow one another; they change nothing, so that one at *)
(* a time stands for any number.                                           *)
(***************************************************************************)
EXTENDS EventStore

CONSTANT ChainTable   \* the table of the state row, created with the entries

ASSUME ChainTableAssumption == ChainTable \in Tables

VARIABLE audit    \* the next read, and what the earlier ones leave to compare

vars == <<storeVars, audit>>

Auditing(at, state, sound) == [at |-> at, state |-> state, sound |-> sound]
NoAudit == Auditing("version", None, TRUE)

ReadVersionAny ==                                \* mutant: the version is not looked at
  /\ audit.at = "version"
  /\ ChainTable \in tables
  /\ audit' = Auditing("state", None, TRUE)
ReadVersion ==
  /\ audit.at = "version"
  /\ version >= 3 /\ ChainTable \in tables       \* else it is "not activated"
  /\ audit' = Auditing("state", None, TRUE)

ReadStateRow ==
  /\ audit.at = "state"
  /\ audit' = Auditing("rows", chain, TRUE)

\* An entry is read with its event, so the join drops one without it.
JoinedEntries == {x \in entries : x.event \in events}

ReadRows ==
  /\ audit.at = "rows"
  /\ audit' = Auditing("orphans", None,
       audit.state # None /\ ChainHolds(audit.state, events, altered, JoinedEntries))

ReadOrphans ==
  /\ audit.at = "orphans"
  /\ audit' = NoAudit

\* What the audit reports once it has read the orphans of this moment.
ReportsInvalid == audit.at = "orphans" /\ ~(audit.sound /\ entries = JoinedEntries)

AuditStep == ReadVersion \/ ReadStateRow \/ ReadRows \/ ReadOrphans

AuditInit == Init /\ audit = NoAudit

Next ==
  \/ StoreNext /\ UNCHANGED audit
  \/ AuditStep /\ UNCHANGED storeVars

Spec == AuditInit /\ [][Next]_vars

\* A command that runs goes on until it ends.
LiveSpec == Spec /\ \A w \in Workers : WF_vars(Step(w) /\ UNCHANGED audit)

-----------------------------------------------------------------------------
\* Properties.

\* If commands keep coming and, after whatever concurrent ones did to each other
\* and whatever failed or died half-way, they come one at a time, a migration
\* completes: nothing left behind stops every later one.  Side by side they may
\* fail each other forever: one creates the index that the other has dropped.
MigrationCompletes ==
  /\ []<>(\E w \in Workers : job[w] # None)
  /\ <>[](\A v, w \in Workers : job[v] # None /\ job[w] # None => v = w)
  => <>(Complete \/ edits > 0)

\* An audit beside running commands reports a sound chain as invalid only if an
\* event was appended, or the chain activated, between its reads of the head and
\* of the rows: nothing else that happens meanwhile is blamed.
AuditBlamesOnlyAppends ==
  [][ ~ReportsInvalid /\ ReportsInvalid' =>
        edits' > 0 \/ (audit.at = "rows" /\ chain # audit.state) ]_vars
=============================================================================
