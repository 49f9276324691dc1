----------------------------- MODULE EventStore -----------------------------
(***************************************************************************)
(* The canonical event store and its schema.  Every command migrates the   *)
(* database before anything else, statement by statement and each one its  *)
(* own transaction, while other commands do the same; then it appends its  *)
(* event to the chain in one transaction.                                  *)
(*                                                                         *)
(* Abstractions.  A table is created with all its columns if it is absent, *)
(* and an older one is given the columns it lacks; Added lists those       *)
(* columns by their table, in the order of the code.  A hash is what it    *)
(* was computed over: the hash of an entry is its event, unless somebody   *)
(* altered it, and the activation hash is the set of legacy events, named  *)
(* None as the predecessor of the first entry.  What an event says is the  *)
(* subject of Authority.                                                   *)
(***************************************************************************)
EXTENDS Naturals, Sequences

CONSTANTS
  None,
  Workers,       \* processes running a command
  Events,        \* event identifiers
  Tables,        \* tables of the schema
  GrantTable,    \* the one whose vocabulary was extended
  Added,         \* table of each column that a migration may have to add
  Databases,     \* databases an earlier release may have left
  MaxFaults,     \* bound on commands that fail or die
  MaxEdits       \* bound on edits behind the program's back

Current == 6

VARIABLES
  version,     \* PRAGMA user_version
  tables,      \* tables that exist
  columns,     \* added columns that exist, by their position in Added
  vocabulary,  \* the grant table admits the current capabilities
  indexed,     \* idx_capability_grants_effective exists
  events,      \* stored transition events
  altered,     \* those whose content was edited after they were hashed
  entries,     \* transition_event_chain_entries
  chain,       \* transition_event_chain_state, None before activation
  job,         \* what each worker is doing
  faults, edits

schema    == <<version, tables, columns, vocabulary, indexed>>
stored    == <<events, altered, entries>>
storeVars == <<version, tables, columns, vocabulary, indexed, events, altered,
               entries, chain, job, faults, edits>>

Columns      == DOMAIN Added
GrantColumns == {c \in Columns : Added[c] = GrantTable}
Entry   == [event : Events, sequence : Nat, previous : Events \cup {None}]
Chain   == [legacy : SUBSET Events, sequence : Nat, head : Events \cup {None}]
Database ==
  [ version : Nat, tables : SUBSET Tables, columns : SUBSET Columns,
    vocabulary : BOOLEAN, active : BOOLEAN, legacy : SUBSET Events, appended : Seq(Events) ]

Phase == {"create", "columns", "add", "vocabulary", "rebuild", "drop", "index",
          "chain", "count", "snapshot", "activate", "checkpoint", "version", "append"}
Job ==
  [ at : Phase, event : Events \cup {None}, old : BOOLEAN, column : Columns \cup {1},
    seen : SUBSET Columns, legacy : SUBSET Events ]

\* What an earlier release can have left: columns only with their table, events
\* in a chain only with its state row, an active chain from version 3 on, and
\* everything in the current version.
Left(d) ==
  /\ d.version <= Current
  /\ \A c \in d.columns : Added[c] \in d.tables
  /\ d.vocabulary => GrantTable \in d.tables
  /\ ~d.active => d.appended = <<>> /\ d.version < 3
  /\ \A i, k \in DOMAIN d.appended : d.appended[i] = d.appended[k] => i = k
  /\ \A i \in DOMAIN d.appended : d.appended[i] \notin d.legacy
  /\ d.version = Current =>
       d.tables = Tables /\ d.columns = Columns /\ d.vocabulary

ASSUME StoreAssumption ==
  /\ Added \in Seq(Tables)
  /\ GrantTable \in Tables
  /\ Databases \subseteq Database
  /\ \A d \in Databases : Left(d)
  /\ MaxFaults \in Nat /\ MaxEdits \in Nat
ASSUME StoreNoneAssumption == None \notin Events /\ None \notin Chain /\ None \notin Job

LinkOf(appended, i) ==
  [ event |-> appended[i], sequence |-> i,
    previous |-> IF i = 1 THEN None ELSE appended[i - 1] ]

Init ==
  /\ \E d \in Databases :
       /\ version = d.version /\ tables = d.tables /\ columns = d.columns
       /\ vocabulary = d.vocabulary /\ indexed = (GrantTable \in d.tables)
       /\ events = d.legacy \cup {d.appended[i] : i \in DOMAIN d.appended}
       /\ entries = {LinkOf(d.appended, i) : i \in DOMAIN d.appended}
       /\ chain = IF ~d.active THEN None
                  ELSE [ legacy |-> d.legacy, sequence |-> Len(d.appended),
                         head |-> IF d.appended = <<>> THEN None
                                  ELSE d.appended[Len(d.appended)] ]
  /\ altered = {}
  /\ job = [w \in Workers |-> None]
  /\ faults = 0 /\ edits = 0

-----------------------------------------------------------------------------
\* Steps of a command.

At(w, phase)   == job[w] # None /\ job[w].at = phase
GoesTo(w, phase) == job' = [job EXCEPT ![w].at = phase]
Ends(w)        == job' = [job EXCEPT ![w] = None]

\* The statement fails, its transaction is rolled back and the command ends.
Raises(w) == Ends(w) /\ UNCHANGED <<schema, stored, chain, faults, edits>>

Mentioned ==
  events \cup {x.event : x \in entries} \cup {x.previous : x \in entries}
    \cup (IF chain = None THEN {} ELSE chain.legacy \cup {chain.head})
    \cup {job[w].event : w \in {v \in Workers : job[v] # None}}

\* Event identifiers are random: any that was never seen will do.
Fresh     == Events \ Mentioned
NextEvent == CHOOSE e \in Fresh : TRUE

\* A command begins with the version of the database it finds; None is a command
\* that appends nothing.
Start(w, e) ==
  /\ job[w] = None
  /\ e # None => Fresh # {} /\ e = NextEvent
  /\ job' = [job EXCEPT ![w] =
       [ at |-> "create", event |-> e, old |-> version < Current, column |-> 1,
         seen |-> {}, legacy |-> {} ]]
  /\ UNCHANGED <<schema, stored, chain, faults, edits>>

\* The schema creates what is absent, the index of the grants last: it names
\* columns that an older table may lack.
CreateTables(w) ==
  /\ At(w, "create")
  /\ tables' = Tables
  /\ columns' = columns \cup {c \in Columns : Added[c] \notin tables}
  /\ vocabulary' = (vocabulary \/ GrantTable \notin tables)
  /\ indexed' = (indexed \/ GrantColumns \subseteq columns')
  /\ IF ~indexed' THEN Ends(w)
     ELSE GoesTo(w, IF Added = <<>> THEN "vocabulary" ELSE "columns")
  /\ UNCHANGED <<version, stored, chain, faults, edits>>

\* The columns of a table are read once, before those it lacks are added.
ReadColumns(w) ==
  /\ At(w, "columns")
  /\ job' = [job EXCEPT ![w].at = "add",
                        ![w].seen = {c \in columns : Added[c] = Added[job[w].column]}]
  /\ UNCHANGED <<schema, stored, chain, faults, edits>>

AfterColumn(c) ==
  IF c + 1 \in Columns /\ Added[c + 1] = Added[c] THEN "add" ELSE "columns"

NextColumnPast(w) ==                             \* mutant: one column too far
  job' = [job EXCEPT ![w].at = AfterColumn(job[w].column),
                     ![w].column = job[w].column + 1]
\* What a worker has read is forgotten where it is no longer used.
NextColumn(w) ==
  LET c == job[w].column IN
  job' = IF c + 1 \in Columns
           THEN [job EXCEPT ![w].at = AfterColumn(c), ![w].column = c + 1]
           ELSE [job EXCEPT ![w].at = "vocabulary", ![w].column = 1, ![w].seen = {}]

\* mutant: the statement is left to the next command
AddColumnLater(w) ==
  /\ At(w, "add")
  /\ NextColumn(w)
  /\ UNCHANGED <<schema, stored, chain, faults, edits>>

\* A column that somebody else added meanwhile is a duplicate.
AddColumn(w) ==
  LET c == job[w].column IN
  /\ At(w, "add")
  /\ IF c \in columns \ job[w].seen THEN Raises(w)
     ELSE /\ columns' = columns \cup {c}
          /\ NextColumn(w)
          /\ UNCHANGED <<version, tables, vocabulary, indexed, stored, chain, faults, edits>>

ReadVocabulary(w) ==
  /\ At(w, "vocabulary")
  /\ GoesTo(w, IF vocabulary THEN "drop" ELSE "rebuild")
  /\ UNCHANGED <<schema, stored, chain, faults, edits>>

\* The grants are copied to a table with the new vocabulary and every column;
\* the index goes with the old table.
Rebuild(w) ==
  /\ At(w, "rebuild")
  /\ vocabulary' = TRUE
  /\ columns' = columns \cup GrantColumns
  /\ indexed' = FALSE
  /\ GoesTo(w, "drop")
  /\ UNCHANGED <<version, tables, stored, chain, faults, edits>>

DropIndexNever(w) ==                             \* mutant: it is left to CREATE INDEX
  /\ At(w, "drop")
  /\ GoesTo(w, "index")
  /\ UNCHANGED <<schema, stored, chain, faults, edits>>
DropIndex(w) ==
  /\ At(w, "drop")
  /\ indexed' = FALSE
  /\ GoesTo(w, "index")
  /\ UNCHANGED <<version, tables, columns, vocabulary, stored, chain, faults, edits>>

CreateIndex(w) ==
  /\ At(w, "index")
  /\ IF indexed THEN Raises(w)
     ELSE /\ indexed' = TRUE
          /\ GoesTo(w, "chain")
          /\ UNCHANGED <<version, tables, columns, vocabulary, stored, chain, faults, edits>>

-----------------------------------------------------------------------------
\* Activation of the chain, and its checkpoint.

ReadChain(w) ==
  /\ At(w, "chain")
  /\ job' = [job EXCEPT ![w].old = FALSE, ![w].at =
                IF chain = None THEN "count"
                ELSE IF job[w].old THEN "checkpoint" ELSE "version"]
  /\ UNCHANGED <<schema, stored, chain, faults, edits>>

CountEntries(w) ==
  /\ At(w, "count")
  /\ IF entries # {} THEN Raises(w)
     ELSE /\ GoesTo(w, "snapshot")
          /\ UNCHANGED <<schema, stored, chain, faults, edits>>

ReadLegacy(w) ==
  /\ At(w, "snapshot")
  /\ job' = [job EXCEPT ![w].at = "activate", ![w].legacy = events]
  /\ UNCHANGED <<schema, stored, chain, faults, edits>>

\* The migration has returned: the command goes on to its own transaction.
Migrated(w) ==
  IF job[w].event = None THEN Ends(w)
  ELSE job' = [job EXCEPT ![w].at = "append", ![w].legacy = {}]

\* The state row is a singleton; the version is set in the same transaction.
Activate(w) ==
  /\ At(w, "activate")
  /\ IF chain # None THEN Raises(w)
     ELSE /\ chain' = [legacy |-> job[w].legacy, sequence |-> 0, head |-> None]
          /\ version' = Current
          /\ Migrated(w)
          /\ UNCHANGED <<tables, columns, vocabulary, indexed, stored, faults, edits>>

Unsequenced == events \ {x.event : x \in entries}

\* The legacy events are those the chain was activated over, unedited.
CheckpointHolds ==
  Unsequenced = chain.legacy /\ Unsequenced \cap altered = {}

Checkpoint(w) ==
  /\ At(w, "checkpoint")
  /\ IF CheckpointHolds
       THEN /\ GoesTo(w, "version")
            /\ UNCHANGED <<schema, stored, chain, faults, edits>>
       ELSE Raises(w)

SetVersion(w) ==
  /\ At(w, "version")
  /\ version' = Current
  /\ Migrated(w)
  /\ UNCHANGED <<tables, columns, vocabulary, indexed, stored, chain, faults, edits>>

-----------------------------------------------------------------------------
\* insert_transition_event, in the transaction of its command.

\* The tail is read back, its hash recomputed, and compared with the head and
\* with its predecessor; before the first entry, the checkpoint is.
HeadHolds ==
  LET n == chain.sequence IN
  IF n = 0 THEN CheckpointHolds
  ELSE \E tail \in entries :
         /\ tail.sequence = n /\ tail.event = chain.head
         /\ tail.event \in events \ altered
         /\ IF n = 1 THEN tail.previous = None
            ELSE \E x \in entries : x.sequence = n - 1 /\ x.event = tail.previous

\* Sequence numbers and predecessors are unique.
Free(sequence, previous) ==
  \A x \in entries : x.sequence # sequence /\ x.previous # previous

MayAppendAnyway == chain # None                  \* mutant: the head is not checked
MayAppend ==
  chain # None /\ HeadHolds /\ Free(chain.sequence + 1, chain.head)

Linked(e) == [event |-> e, sequence |-> chain.sequence + 1, previous |-> chain.head]

AppendEvent(w) ==
  LET e == job[w].event IN
  /\ At(w, "append")
  /\ IF MayAppend
       THEN /\ events' = events \cup {e}
            /\ entries' = entries \cup {Linked(e)}
            /\ chain' = [chain EXCEPT !.sequence = Linked(e).sequence, !.head = e]
            /\ Ends(w)
            /\ UNCHANGED <<schema, altered, faults, edits>>
       ELSE Raises(w)

-----------------------------------------------------------------------------
\* Failures, and edits of an activated database behind the program's back.

\* The command fails or its process dies; open transactions roll back.
Fail(w) ==
  /\ faults < MaxFaults
  /\ job[w] # None
  /\ faults' = faults + 1
  /\ Ends(w)
  /\ UNCHANGED <<schema, stored, chain, edits>>

Alter(e) ==
  /\ e \in events \ altered
  /\ altered' = altered \cup {e}
  /\ UNCHANGED <<events, entries, chain>>

Delete(e) ==
  /\ e \in events
  /\ events' = events \ {e}
  /\ entries' = {x \in entries : x.event # e}
  /\ UNCHANGED <<altered, chain>>

Fabricate(e) ==
  /\ Fresh # {} /\ e = NextEvent
  /\ events' = events \cup {e}
  /\ UNCHANGED <<altered, entries, chain>>

\* The head is set back to the entry before it.
Rewind(e) ==
  /\ \E x \in entries :
       /\ x.event = chain.head /\ e = x.event
       /\ chain' = [chain EXCEPT !.sequence = x.sequence - 1, !.head = x.previous]
  /\ UNCHANGED stored

Edit(e) ==
  /\ chain # None /\ edits < MaxEdits
  /\ edits' = edits + 1
  /\ Alter(e) \/ Delete(e) \/ Fabricate(e) \/ Rewind(e)
  /\ UNCHANGED <<schema, job, faults>>

-----------------------------------------------------------------------------
Step(w) ==
  \/ CreateTables(w) \/ ReadColumns(w) \/ AddColumn(w)
  \/ ReadVocabulary(w) \/ Rebuild(w) \/ DropIndex(w) \/ CreateIndex(w)
  \/ ReadChain(w) \/ CountEntries(w) \/ ReadLegacy(w) \/ Activate(w)
  \/ Checkpoint(w) \/ SetVersion(w) \/ AppendEvent(w)

StoreNext ==
  \/ \E w \in Workers :
       (\E e \in Events \cup {None} : Start(w, e)) \/ Step(w) \/ Fail(w)
  \/ \E e \in Events : Edit(e)

StoreSpec == Init /\ [][StoreNext]_storeVars

-----------------------------------------------------------------------------
\* Properties.

\* Every variable has its type.
StoreTypeOK ==
  /\ version \in Nat
  /\ tables \subseteq Tables
  /\ columns \subseteq Columns
  /\ vocabulary \in BOOLEAN
  /\ indexed \in BOOLEAN
  /\ events \subseteq Events
  /\ altered \subseteq Events
  /\ entries \subseteq Entry
  /\ chain \in Chain \cup {None}
  /\ job \in [Workers -> Job \cup {None}]
  /\ faults \in Nat
  /\ edits \in Nat

\* What an operation of the current release relies on.
Complete ==
  /\ version = Current /\ tables = Tables /\ columns = Columns
  /\ vocabulary /\ chain # None

\* A database that says it is current has every table, column and capability
\* and an active chain, and a command whose migration returned works on such a
\* database: no column is missed, nor taken away again, by a migration that runs
\* beside another, fails or dies half-way, or rebuilds the grants late.
CurrentIsComplete ==
  /\ version = Current => Complete
  /\ \A w \in Workers : At(w, "append") => Complete

\* The checks of verify_integrity on the chain, over one state of the database.
ChainHolds(state, evs, alt, ents) ==
  /\ evs \ {x.event : x \in ents} = state.legacy
  /\ evs \cap alt = {}
  /\ {x.event : x \in ents} \subseteq evs
  /\ \A x \in ents : IF x.sequence = 1 THEN x.previous = None
                      ELSE \E y \in ents : y.sequence + 1 = x.sequence /\ y.event = x.previous
  /\ \A x, y \in ents : x.sequence = y.sequence => x = y
  /\ \A x \in ents : x.sequence \in 1..state.sequence
  /\ IF state.sequence = 0 THEN state.head = None
     ELSE \E x \in ents : x.sequence = state.sequence /\ x.event = state.head

\* The chain holds as long as nobody edited the database, and after one edit it
\* never holds again, whatever is appended and migrated since: no append and no
\* activation buries the damage or forks the chain over it.
ChainTellsEdits ==
  /\ \A x, y \in entries : x.sequence = y.sequence \/ x.previous = y.previous => x = y
  /\ edits = 0 /\ chain # None => ChainHolds(chain, events, altered, entries)
  /\ edits = 1 => ~ChainHolds(chain, events, altered, entries)
=============================================================================
