------------------------- MODULE EventStoreProofs -------------------------
(***************************************************************************)
(* Proofs about the event store, for any number of commands, tables,       *)
(* columns, databases of earlier releases, failures and edits: a current   *)
(* database is complete, its chain is sound until it is edited and unsound *)
(* after one edit, an audit blames nothing but an append, an append to an  *)
(* unedited chain is never refused, and commands that come one at a time   *)
(* are refused nothing at all.                                             *)
(***************************************************************************)
EXTENDS ChainAudit, TLAPS

\* The added columns are numbered from one.
LEMMA ColumnsNumbered == Len(Added) \in Nat /\ Columns = 1..Len(Added)
  BY StoreAssumption DEF Columns

-----------------------------------------------------------------------------
\* Types.

Positive == \A x \in entries : x.sequence >= 1
Typed    == StoreTypeOK /\ Positive

\* What the phases behind a job have made of the database.
Reached(j) ==
  /\ j.at = "create" => j.column = 1
  /\ j.at # "create" => tables = Tables
  /\ j.at \in {"columns", "add"} => j.column \in Columns /\ 1..(j.column - 1) \subseteq columns
  /\ j.at \notin {"create", "columns", "add"} => columns = Columns
  /\ j.at \notin {"create", "columns", "add", "vocabulary", "rebuild"} => vocabulary
  /\ j.at \in {"checkpoint", "version", "append"} => chain # None
  /\ j.at = "append" => version = Current /\ j.event # None

Advanced == \A w \in Workers : job[w] # None => Reached(job[w])

\* A job in the hands of one worker changes and the others stay what they are.
LEMMA JobTyped ==
  ASSUME NEW w \in Workers, NEW r \in Job \cup {None},
         job \in [Workers -> Job \cup {None}],
         job' = [job EXCEPT ![w] = r]
  PROVE  job' \in [Workers -> Job \cup {None}]
  OBVIOUS

\* Ending a command, or sending it to a phase, keeps the type of the jobs.
LEMMA EndsTyped ==
  ASSUME NEW w \in Workers, StoreTypeOK, Ends(w)
  PROVE  job' \in [Workers -> Job \cup {None}]
  BY DEF StoreTypeOK, Ends

LEMMA GoesToTyped ==
  ASSUME NEW w \in Workers, NEW phase \in Phase, StoreTypeOK, job[w] # None, GoesTo(w, phase)
  PROVE  job' \in [Workers -> Job \cup {None}]
  BY DEF StoreTypeOK, GoesTo, Job

\* The database that an earlier release left has the types of the store.
LEMMA TypedInit == Init => Typed
<1> SUFFICES ASSUME Init PROVE Typed
  OBVIOUS
<1>1. PICK d \in Databases :
        /\ version = d.version /\ tables = d.tables /\ columns = d.columns
        /\ vocabulary = d.vocabulary /\ indexed = (GrantTable \in d.tables)
        /\ events = d.legacy \cup {d.appended[i] : i \in DOMAIN d.appended}
        /\ entries = {LinkOf(d.appended, i) : i \in DOMAIN d.appended}
        /\ chain = IF ~d.active THEN None
                   ELSE [ legacy |-> d.legacy, sequence |-> Len(d.appended),
                          head |-> IF d.appended = <<>> THEN None
                                   ELSE d.appended[Len(d.appended)] ]
  BY DEF Init
<1>2. d \in Database
  BY StoreAssumption
<1>3. /\ d.version \in Nat /\ d.tables \subseteq Tables /\ d.columns \subseteq Columns
      /\ d.vocabulary \in BOOLEAN /\ d.legacy \subseteq Events
      /\ d.appended \in Seq(Events)
  BY <1>2 DEF Database
<1>4. /\ Len(d.appended) \in Nat
      /\ DOMAIN d.appended = 1..Len(d.appended)
      /\ \A i \in 1..Len(d.appended) : d.appended[i] \in Events
  BY <1>3
<1>5. events \subseteq Events
  BY <1>1, <1>3, <1>4
<1>6. \A i \in 1..Len(d.appended) :
        LinkOf(d.appended, i) \in Entry /\ LinkOf(d.appended, i).sequence >= 1
  BY <1>4 DEF LinkOf, Entry
<1>7. entries \subseteq Entry /\ Positive
  BY <1>1, <1>4, <1>6 DEF Positive
<1>8. d.appended # <<>> => Len(d.appended) \in 1..Len(d.appended)
  BY <1>3
<1>9. chain \in Chain \cup {None}
  BY <1>1, <1>3, <1>4, <1>8 DEF Chain
<1>10. job \in [Workers -> Job \cup {None}] /\ altered = {} /\ faults = 0 /\ edits = 0
  BY DEF Init
<1> QED
  BY <1>1, <1>3, <1>5, <1>7, <1>9, <1>10 DEF Typed, StoreTypeOK

\* Every step of a command keeps the types.
LEMMA TypedByStep ==
  ASSUME NEW w \in Workers, Typed, Advanced, Step(w)
  PROVE  Typed'
<1> USE DEF Typed, Positive
<1>1. StoreTypeOK
  OBVIOUS
<1>2. job[w] # None /\ job[w] \in Job
  BY DEF StoreTypeOK, Step, At, CreateTables, ReadColumns, AddColumn, ReadVocabulary,
         Rebuild, DropIndex, CreateIndex, ReadChain, CountEntries, ReadLegacy, Activate,
         Checkpoint, SetVersion, AppendEvent
<1>3. ASSUME Raises(w) PROVE Typed'
  BY <1>3, EndsTyped DEF StoreTypeOK, Raises, schema, stored
<1>4. ASSUME NEW phase \in Phase, GoesTo(w, phase) PROVE job' \in [Workers -> Job \cup {None}]
  BY <1>2, <1>4, GoesToTyped
<1>5. ASSUME NextColumn(w) PROVE job' \in [Workers -> Job \cup {None}]
  <2> DEFINE c == job[w].column
             onwards == [job[w] EXCEPT !.at = AfterColumn(c), !.column = c + 1]
             done    == [job[w] EXCEPT !.at = "vocabulary", !.column = 1, !.seen = {}]
  <2>1. AfterColumn(c) \in Phase
    BY DEF AfterColumn, Phase
  <2>2. CASE c + 1 \in Columns
    <3>1. job' = [job EXCEPT ![w] = onwards]
      BY <1>5, <2>2 DEF NextColumn
    <3>2. onwards \in Job
      BY <1>2, <2>1, <2>2 DEF Job
    <3> QED
      BY <3>1, <3>2, JobTyped DEF StoreTypeOK
  <2>3. CASE c + 1 \notin Columns
    <3>1. job' = [job EXCEPT ![w] = done]
      BY <1>5, <2>3 DEF NextColumn
    <3>2. done \in Job
      BY <1>2 DEF Job, Phase
    <3> QED
      BY <3>1, <3>2, JobTyped DEF StoreTypeOK
  <2> QED
    BY <2>2, <2>3
<1>6. ASSUME Migrated(w) PROVE job' \in [Workers -> Job \cup {None}]
  <2> DEFINE appending == [job[w] EXCEPT !.at = "append", !.legacy = {}]
  <2>1. CASE job[w].event = None
    BY <1>6, <2>1, EndsTyped DEF Migrated
  <2>2. CASE job[w].event # None
    <3>1. job' = [job EXCEPT ![w] = appending]
      BY <1>6, <2>2 DEF Migrated
    <3>2. appending \in Job
      BY <1>2 DEF Job, Phase
    <3> QED
      BY <3>1, <3>2, JobTyped DEF StoreTypeOK
  <2> QED
    BY <2>1, <2>2
<1>7. CASE CreateTables(w)
  <2>1. job' \in [Workers -> Job \cup {None}]
    BY <1>4, <1>7, EndsTyped DEF CreateTables, Phase
  <2> QED
    BY <1>7, <2>1 DEF CreateTables, StoreTypeOK, stored, GrantColumns
<1>8. CASE ReadColumns(w)
  <2> DEFINE read == [job[w] EXCEPT !.at = "add",
                        !.seen = {c \in columns : Added[c] = Added[job[w].column]}]
  <2>1. job' = [job EXCEPT ![w] = read]
    BY <1>8 DEF ReadColumns
  <2>2. read \in Job
    BY <1>2 DEF Job, Phase, StoreTypeOK
  <2>3. job' \in [Workers -> Job \cup {None}]
    BY <2>1, <2>2, JobTyped DEF StoreTypeOK
  <2> QED
    BY <1>8, <2>3 DEF ReadColumns, StoreTypeOK, schema, stored
<1>9. CASE AddColumn(w)
  <2>1. CASE Raises(w)
    BY <1>3, <2>1
  <2>2. CASE ~Raises(w)
    <3>1. /\ columns' = columns \cup {job[w].column} /\ NextColumn(w)
          /\ job[w].column \in Columns
          /\ UNCHANGED <<version, tables, vocabulary, indexed, stored, chain, faults, edits>>
      BY <1>2, <1>9, <2>2 DEF AddColumn, At, Advanced, Reached
    <3> QED
      BY <1>5, <3>1 DEF StoreTypeOK, stored
  <2> QED
    BY <2>1, <2>2
<1>10. CASE ReadVocabulary(w)
  BY <1>4, <1>10 DEF ReadVocabulary, StoreTypeOK, schema, stored, Phase
<1>11. CASE Rebuild(w)
  BY <1>4, <1>11 DEF Rebuild, StoreTypeOK, stored, GrantColumns, Phase
<1>12. CASE DropIndex(w)
  BY <1>4, <1>12 DEF DropIndex, StoreTypeOK, stored, Phase
<1>13. CASE CreateIndex(w)
  BY <1>3, <1>4, <1>13 DEF CreateIndex, StoreTypeOK, stored, Phase
<1>14. CASE ReadChain(w)
  <2> DEFINE read == [job[w] EXCEPT !.old = FALSE,
                        !.at = IF chain = None THEN "count"
                               ELSE IF job[w].old THEN "checkpoint" ELSE "version"]
  <2>1. job' = [job EXCEPT ![w] = read]
    BY <1>14 DEF ReadChain
  <2>2. read \in Job
    BY <1>2 DEF Job, Phase
  <2>3. job' \in [Workers -> Job \cup {None}]
    BY <2>1, <2>2, JobTyped DEF StoreTypeOK
  <2> QED
    BY <1>14, <2>3 DEF ReadChain, StoreTypeOK, schema, stored
<1>15. CASE CountEntries(w)
  BY <1>3, <1>4, <1>15 DEF CountEntries, StoreTypeOK, schema, stored, Phase
<1>16. CASE ReadLegacy(w)
  <2> DEFINE read == [job[w] EXCEPT !.at = "activate", !.legacy = events]
  <2>1. job' = [job EXCEPT ![w] = read]
    BY <1>16 DEF ReadLegacy
  <2>2. read \in Job
    BY <1>2 DEF Job, Phase, StoreTypeOK
  <2>3. job' \in [Workers -> Job \cup {None}]
    BY <2>1, <2>2, JobTyped DEF StoreTypeOK
  <2> QED
    BY <1>16, <2>3 DEF ReadLegacy, StoreTypeOK, schema, stored
<1>17. CASE Activate(w)
  <2>1. CASE Raises(w)
    BY <1>3, <2>1
  <2>2. CASE ~Raises(w)
    <3>1. /\ chain' = [legacy |-> job[w].legacy, sequence |-> 0, head |-> None]
          /\ version' = Current /\ Migrated(w)
          /\ UNCHANGED <<tables, columns, vocabulary, indexed, stored, faults, edits>>
      BY <1>17, <2>2 DEF Activate
    <3>2. chain' \in Chain
      BY <1>2, <3>1 DEF Chain, Job
    <3> QED
      BY <1>6, <3>1, <3>2 DEF StoreTypeOK, stored, Current
  <2> QED
    BY <2>1, <2>2
<1>18. CASE Checkpoint(w)
  BY <1>3, <1>4, <1>18 DEF Checkpoint, StoreTypeOK, schema, stored, Phase
<1>19. CASE SetVersion(w)
  BY <1>6, <1>19 DEF SetVersion, StoreTypeOK, stored, Current
<1>20. CASE AppendEvent(w)
  <2>1. CASE Raises(w)
    BY <1>3, <2>1
  <2>2. CASE ~Raises(w)
    <3>1. /\ MayAppend /\ Ends(w)
          /\ events' = events \cup {job[w].event}
          /\ entries' = entries \cup {Linked(job[w].event)}
          /\ chain' = [chain EXCEPT !.sequence = Linked(job[w].event).sequence,
                                    !.head = job[w].event]
          /\ UNCHANGED <<schema, altered, faults, edits>>
      BY <1>20, <2>2 DEF AppendEvent
    <3>2. job[w].event \in Events
      BY <1>2, <1>20 DEF AppendEvent, At, Advanced, Reached, Job
    <3>3. chain \in Chain
      BY <3>1 DEF MayAppend, StoreTypeOK
    <3>4. Linked(job[w].event) \in Entry /\ Linked(job[w].event).sequence >= 1
      BY <3>2, <3>3 DEF Linked, Entry, Chain
    <3>5. chain' \in Chain
      BY <3>1, <3>2, <3>3, <3>4 DEF Chain, Entry
    <3>6. job' \in [Workers -> Job \cup {None}]
      BY <3>1, EndsTyped
    <3> QED
      BY <3>1, <3>2, <3>4, <3>5, <3>6 DEF StoreTypeOK, schema
  <2> QED
    BY <2>1, <2>2
<1> QED
  BY <1>7, <1>8, <1>9, <1>10, <1>11, <1>12, <1>13, <1>14, <1>15, <1>16, <1>17, <1>18,
     <1>19, <1>20 DEF Step

\* And so do the beginning and the failure of a command, and the edits.
LEMMA TypedByStart ==
  ASSUME NEW w \in Workers, NEW e \in Events \cup {None}, Typed, Start(w, e)
  PROVE  Typed'
<1> DEFINE begun == [ at |-> "create", event |-> e, old |-> version < Current,
                      column |-> 1, seen |-> {}, legacy |-> {} ]
<1>1. job' = [job EXCEPT ![w] = begun]
  BY DEF Start
<1>2. begun \in Job
  BY DEF Job, Phase
<1>3. job' \in [Workers -> Job \cup {None}]
  BY <1>1, <1>2, JobTyped DEF Typed, StoreTypeOK
<1> QED
  BY <1>3 DEF Typed, Positive, StoreTypeOK, Start, schema, stored

LEMMA TypedByFail ==
  ASSUME NEW w \in Workers, Typed, Fail(w)
  PROVE  Typed'
  BY EndsTyped DEF Typed, Positive, StoreTypeOK, Fail, schema, stored

LEMMA TypedByEdit ==
  ASSUME NEW e \in Events, Typed, Edit(e)
  PROVE  Typed'
<1> USE DEF Typed, Positive, StoreTypeOK
<1>1. /\ chain # None /\ edits' = edits + 1
      /\ UNCHANGED <<schema, job, faults>>
  BY DEF Edit
<1>2. CASE Alter(e)
  BY <1>1, <1>2 DEF Alter, schema
<1>3. CASE Delete(e)
  BY <1>1, <1>3 DEF Delete, schema
<1>4. CASE Fabricate(e)
  BY <1>1, <1>4 DEF Fabricate, schema
<1>5. CASE Rewind(e)
  <2>1. PICK x \in entries :
          chain' = [chain EXCEPT !.sequence = x.sequence - 1, !.head = x.previous]
    BY <1>5 DEF Rewind
  <2>2. x.sequence \in Nat /\ x.sequence >= 1 /\ x.previous \in Events \cup {None}
    BY DEF Entry
  <2> HIDE DEF StoreTypeOK
  <2> DEFINE before == x.sequence - 1
             link   == x.previous
  <2>3. chain' \in Chain
    <3>1. before \in Nat /\ link \in Events \cup {None}
      BY <2>2
    <3>2. chain \in Chain
      BY <1>1 DEF StoreTypeOK
    <3> HIDE DEF before, link
    <3>3. [chain EXCEPT !.sequence = before, !.head = link] \in Chain
      BY <3>1, <3>2 DEF Chain
    <3> QED
      BY <2>1, <3>3 DEF before, link
  <2>4. UNCHANGED <<events, altered, entries>>
    BY <1>5 DEF Rewind, stored
  <2>5. /\ UNCHANGED <<version, tables, columns, vocabulary, indexed, job, faults>>
        /\ edits' = edits + 1
    BY <1>1 DEF schema
  <2>6. StoreTypeOK'
    BY <2>3, <2>4, <2>5 DEF StoreTypeOK
  <2> QED
    BY <2>4, <2>6
<1> QED
  BY <1>2, <1>3, <1>4, <1>5 DEF Edit

-----------------------------------------------------------------------------
\* A database that says it is current is complete.

VersionMeans ==
  /\ version = Current => Complete
  /\ version >= 3 => chain # None

Migrating == Advanced /\ VersionMeans

\* What a step of anybody keeps: the parts of a schema only come.
Kept ==
  /\ tables = Tables => tables' = Tables
  /\ columns \subseteq columns' /\ columns' \subseteq Columns
  /\ vocabulary => vocabulary'
  /\ chain # None => chain' # None
  /\ version = Current => version' = Current

\* A job that nobody touched has reached what it had.
LEMMA ReachedKept ==
  ASSUME NEW j \in Job, Kept, Reached(j)
  PROVE  Reached(j)'
  BY DEF Kept, Reached, Current

\* What stays true of the version, if it changes only when all is complete.
LEMMA VersionKept ==
  ASSUME Kept, VersionMeans, version' = version
  PROVE  VersionMeans'
  BY DEF Kept, VersionMeans, Complete

\* The advance of all workers follows from that of the one that stepped.
LEMMA AdvancedBy ==
  ASSUME NEW w \in Workers, Typed, Advanced, Kept,
         \A v \in Workers \ {w} : job'[v] = job[v],
         job'[w] # None => Reached(job[w])'
  PROVE  Advanced'
<1> SUFFICES ASSUME NEW v \in Workers, v # w, job'[v] # None PROVE Reached(job[v])'
  BY DEF Advanced
<1>1. job'[v] = job[v] /\ job[v] \in Job /\ Reached(job[v])
  BY DEF Advanced, Typed, StoreTypeOK
<1> DEFINE j == job[v]
<1>2. Reached(j)'
  BY <1>1, ReachedKept DEF Reached, Kept, Current
<1> QED
  BY <1>2

LEMMA MigratingInit == Init => Migrating
<1> SUFFICES ASSUME Init PROVE Migrating
  OBVIOUS
<1>1. Advanced
  BY DEF Init, Advanced
<1>2. PICK d \in Databases :
        /\ version = d.version /\ tables = d.tables /\ columns = d.columns
        /\ vocabulary = d.vocabulary
        /\ chain = IF ~d.active THEN None
                   ELSE [ legacy |-> d.legacy, sequence |-> Len(d.appended),
                          head |-> IF d.appended = <<>> THEN None
                                   ELSE d.appended[Len(d.appended)] ]
  BY DEF Init
<1>3. Left(d) /\ d \in Database
  BY StoreAssumption
<1>4. version >= 3 => d.active
  BY <1>2, <1>3 DEF Left, Database
<1>5. chain \in Chain \cup {None}
  BY TypedInit DEF Typed, StoreTypeOK
<1>6. /\ d.legacy \subseteq Events /\ Len(d.appended) \in Nat
      /\ d.appended # <<>> => d.appended[Len(d.appended)] \in Events
  BY <1>3 DEF Database
<1>7. d.active => chain # None
  BY <1>2, <1>6, StoreNoneAssumption DEF Chain
<1>8. version = Current => Complete
  BY <1>2, <1>3, <1>4, <1>7 DEF Left, Complete, Current
<1> QED
  BY <1>1, <1>4, <1>7, <1>8 DEF Migrating, VersionMeans

\* A record that becomes the chain is not None.
LEMMA ChainIsNotNone == \A c \in Chain : c # None
  BY StoreNoneAssumption

\* Every step keeps what the migration has made.
LEMMA KeptByStep ==
  ASSUME NEW w \in Workers, Typed, Typed', Advanced, Step(w)
  PROVE  Kept
<1>1. columns' \subseteq Columns /\ columns \subseteq Columns /\ chain' \in Chain \cup {None}
  BY DEF Typed, StoreTypeOK
<1>2. CASE UNCHANGED <<version, tables, columns, vocabulary, chain>>
  BY <1>1, <1>2 DEF Kept
<1>3. ASSUME Raises(w) PROVE Kept
  BY <1>2, <1>3 DEF Raises, schema
<1>4. CASE CreateTables(w)
  BY <1>1, <1>4 DEF CreateTables, Kept
<1>5. CASE AddColumn(w)
  BY <1>1, <1>3, <1>5 DEF AddColumn, Kept
<1>6. CASE Rebuild(w)
  BY <1>1, <1>6 DEF Rebuild, Kept, stored
<1>7. CASE Activate(w)
  <2>1. CASE Raises(w)
    BY <1>3, <2>1
  <2>2. CASE ~Raises(w)
    BY <1>1, <1>7, <2>2 DEF Activate, Kept
  <2> QED
    BY <2>1, <2>2
<1>8. CASE SetVersion(w)
  BY <1>1, <1>8 DEF SetVersion, Kept
<1>9. CASE AppendEvent(w)
  <2>1. CASE Raises(w)
    BY <1>3, <2>1
  <2>2. CASE ~Raises(w)
    <3> DEFINE link == Linked(job[w].event)
    <3>1. /\ MayAppend
          /\ chain' = [chain EXCEPT !.sequence = link.sequence, !.head = job[w].event]
          /\ UNCHANGED <<version, tables, columns, vocabulary>>
      BY <1>9, <2>2 DEF AppendEvent, schema
    <3>2. chain \in Chain /\ job[w] \in Job /\ job[w].event \in Events
      BY <1>9, <3>1 DEF MayAppend, AppendEvent, At, Typed, StoreTypeOK, Advanced, Reached, Job
    <3>3. link.sequence \in Nat
      BY <3>2 DEF Linked, Chain
    <3> HIDE DEF link
    <3>4. chain' \in Chain
      BY <3>1, <3>2, <3>3 DEF Chain
    <3>5. chain' # None
      BY <3>4, ChainIsNotNone
    <3> QED
      BY <1>1, <3>1, <3>5 DEF Kept
  <2> QED
    BY <2>1, <2>2
<1>10. CASE \/ ReadColumns(w) \/ ReadVocabulary(w) \/ DropIndex(w) \/ ReadChain(w)
            \/ CountEntries(w) \/ ReadLegacy(w) \/ Checkpoint(w) \/ CreateIndex(w)
  <2>1. Raises(w) \/ UNCHANGED <<version, tables, columns, vocabulary, chain>>
    BY <1>10 DEF ReadColumns, ReadVocabulary, DropIndex, ReadChain, CountEntries,
                 ReadLegacy, Checkpoint, CreateIndex, schema
  <2> QED
    BY <1>2, <1>3, <2>1
<1> QED
  BY <1>4, <1>5, <1>6, <1>7, <1>8, <1>9, <1>10 DEF Step

\* What a job must find in the next state.
ReachedNext(j) ==
  /\ j.at = "create" => j.column = 1
  /\ j.at # "create" => tables' = Tables
  /\ j.at \in {"columns", "add"} => j.column \in Columns /\ 1..(j.column - 1) \subseteq columns'
  /\ j.at \notin {"create", "columns", "add"} => columns' = Columns
  /\ j.at \notin {"create", "columns", "add", "vocabulary", "rebuild"} => vocabulary'
  /\ j.at \in {"checkpoint", "version", "append"} => chain' # None
  /\ j.at = "append" => version' = Current /\ j.event # None

\* The step of a command reaches what its next phase relies on, and makes the
\* version current only when all is complete.
LEMMA MigratingByStep ==
  ASSUME NEW w \in Workers, Typed, Typed', Migrating, Step(w)
  PROVE  Migrating'
<1>1. Kept
  BY KeptByStep DEF Migrating
<1>2. job \in [Workers -> Job \cup {None}] /\ Advanced /\ VersionMeans
  BY DEF Migrating, Typed, StoreTypeOK
<1>3. ASSUME NEW r \in Job \cup {None}, job' = [job EXCEPT ![w] = r],
             r # None => ReachedNext(r)
      PROVE  Advanced'
  <2>1. job'[w] = r /\ \A v \in Workers \ {w} : job'[v] = job[v]
    BY <1>2, <1>3
  <2>2. job'[w] # None => Reached(job[w])'
    BY <1>3, <2>1 DEF Reached, ReachedNext, Columns, Current
  <2> QED
    BY <1>1, <1>2, <2>1, <2>2, AdvancedBy
<1>4. ASSUME Ends(w) PROVE Advanced'
  BY <1>3, <1>4 DEF Ends
<1>5. ASSUME Raises(w) PROVE Migrating'
  BY <1>1, <1>2, <1>4, <1>5, VersionKept DEF Raises, Migrating, schema
<1>6. job[w] # None /\ job[w] \in Job /\ Reached(job[w])
  BY <1>2 DEF Advanced, Step, At, CreateTables, ReadColumns, AddColumn, ReadVocabulary,
         Rebuild, DropIndex, CreateIndex, ReadChain, CountEntries, ReadLegacy, Activate,
         Checkpoint, SetVersion, AppendEvent
<1>7. ASSUME NEW phase \in Phase, GoesTo(w, phase),
             ReachedNext([job[w] EXCEPT !.at = phase])
      PROVE  Advanced'
  <2> DEFINE gone == [job[w] EXCEPT !.at = phase]
  <2>1. job' = [job EXCEPT ![w] = gone]
    BY <1>7 DEF GoesTo
  <2>2. gone \in Job
    BY <1>6, <1>7 DEF Job
  <2> QED
    BY <1>3, <1>7, <2>1, <2>2
<1>8. ASSUME Advanced', version' = version PROVE Migrating'
  BY <1>1, <1>2, <1>8, VersionKept DEF Migrating
<1>9. CASE CreateTables(w)
  <2>1. CASE Ends(w)
    BY <1>4, <1>8, <1>9, <2>1 DEF CreateTables
  <2>2. CASE ~Ends(w)
    <3> DEFINE phase == IF Added = <<>> THEN "vocabulary" ELSE "columns"
    <3>1. GoesTo(w, phase) /\ tables' = Tables /\ job[w].column = 1 /\ version' = version
      BY <1>6, <1>9, <2>2 DEF CreateTables, At, Reached
    <3>2. Added = <<>> => Columns = {}
      BY DEF Columns
    <3>3. Added # <<>> => 1 \in Columns
      BY ColumnsNumbered, StoreAssumption
    <3>4. columns' \subseteq Columns
      BY DEF Typed, StoreTypeOK
    <3>5. ReachedNext([job[w] EXCEPT !.at = phase])
      <4> DEFINE next == [job[w] EXCEPT !.at = phase]
      <4>1. next.at = phase /\ next.column = 1
        BY <1>6, <3>1 DEF Job
      <4>2. 1..(1 - 1) = {}
        OBVIOUS
      <4>3. \/ phase = "vocabulary" /\ columns' = Columns
            \/ phase = "columns" /\ 1 \in Columns
        BY <3>2, <3>3, <3>4
      <4> HIDE DEF next, phase
      <4> QED
        BY <3>1, <4>1, <4>2, <4>3 DEF ReachedNext, next, phase
    <3> QED
      BY <1>7, <1>8, <3>1, <3>5 DEF Phase
  <2> QED
    BY <2>1, <2>2
<1>10. CASE ReadColumns(w)
  <2> DEFINE read == [job[w] EXCEPT !.at = "add",
                        !.seen = {c \in columns : Added[c] = Added[job[w].column]}]
  <2>1. /\ job' = [job EXCEPT ![w] = read]
        /\ job[w].at = "columns"
        /\ UNCHANGED <<version, tables, columns, vocabulary, chain>>
    BY <1>10 DEF ReadColumns, At, schema
  <2>2. read \in Job
    BY <1>6 DEF Job, Phase, Typed, StoreTypeOK
  <2>3. ReachedNext(read)
    BY <1>6, <2>1 DEF ReachedNext, Reached, Job
  <2> QED
    BY <1>3, <1>8, <2>1, <2>2, <2>3
<1>11. CASE AddColumn(w)
  <2>1. CASE Raises(w)
    BY <1>5, <2>1
  <2>2. CASE ~Raises(w)
    <3> DEFINE c == job[w].column
               onwards == [job[w] EXCEPT !.at = AfterColumn(c), !.column = c + 1]
               done    == [job[w] EXCEPT !.at = "vocabulary", !.column = 1, !.seen = {}]
    <3>1. /\ columns' = columns \cup {c} /\ NextColumn(w) /\ job[w].at = "add"
          /\ UNCHANGED <<version, tables, vocabulary, chain>>
      BY <1>11, <2>2 DEF AddColumn, At
    <3>2. c \in Columns /\ 1..(c - 1) \subseteq columns /\ tables = Tables
      BY <1>6, <3>1 DEF Reached
    <3>3. c \in Nat /\ 1..c \subseteq columns'
      BY <3>1, <3>2, ColumnsNumbered
    <3>4. CASE c + 1 \in Columns
      <4>1. job' = [job EXCEPT ![w] = onwards]
        BY <3>1, <3>4 DEF NextColumn
      <4>2. AfterColumn(c) \in {"columns", "add"}
        BY DEF AfterColumn
      <4>3. onwards \in Job
        BY <1>6, <3>4, <4>2 DEF Job, Phase
      <4>4. 1..((c + 1) - 1) \subseteq columns'
        BY <3>3
      <4>5. ReachedNext(onwards)
        BY <1>6, <3>1, <3>2, <3>4, <4>2, <4>4 DEF ReachedNext, Job
      <4> QED
        BY <1>3, <1>8, <3>1, <4>1, <4>3, <4>5
    <3>5. CASE c + 1 \notin Columns
      <4>1. job' = [job EXCEPT ![w] = done]
        BY <3>1, <3>5 DEF NextColumn
      <4>2. done \in Job
        BY <1>6 DEF Job, Phase
      <4>3. columns' = Columns
        <5>1. c = Len(Added)
          BY <3>2, <3>5, ColumnsNumbered
        <5> QED
          BY <3>3, <5>1, ColumnsNumbered DEF Typed, StoreTypeOK
      <4>4. ReachedNext(done)
        BY <1>6, <3>1, <3>2, <4>3 DEF ReachedNext, Job
      <4> QED
        BY <1>3, <1>8, <3>1, <4>1, <4>2, <4>4
    <3> QED
      BY <3>4, <3>5
  <2> QED
    BY <2>1, <2>2
<1>12. CASE ReadVocabulary(w)
  <2> DEFINE phase == IF vocabulary THEN "drop" ELSE "rebuild"
  <2>1. /\ GoesTo(w, phase) /\ job[w].at = "vocabulary"
        /\ UNCHANGED <<version, tables, columns, vocabulary, chain>>
    BY <1>12 DEF ReadVocabulary, At, schema
  <2>2. ReachedNext([job[w] EXCEPT !.at = phase])
    BY <1>6, <2>1 DEF ReachedNext, Reached, Job
  <2> QED
    BY <1>7, <1>8, <2>1, <2>2 DEF Phase
<1>13. CASE Rebuild(w)
  <2>1. /\ GoesTo(w, "drop") /\ job[w].at = "rebuild" /\ vocabulary'
        /\ columns' = columns \cup GrantColumns
        /\ UNCHANGED <<version, tables, chain>>
    BY <1>13 DEF Rebuild, At
  <2>2. columns' = Columns
    BY <1>1, <1>6, <2>1 DEF Kept, Reached
  <2>3. ReachedNext([job[w] EXCEPT !.at = "drop"])
    BY <1>6, <2>1, <2>2 DEF ReachedNext, Reached, Job
  <2> QED
    BY <1>7, <1>8, <2>1, <2>3 DEF Phase
<1>14. CASE DropIndex(w) \/ (CreateIndex(w) /\ ~Raises(w)) \/ (CountEntries(w) /\ ~Raises(w))
  <2> DEFINE phase == IF DropIndex(w) THEN "index"
                      ELSE IF CreateIndex(w) THEN "chain" ELSE "snapshot"
  <2>1. /\ GoesTo(w, phase)
        /\ job[w].at \notin {"create", "columns", "add", "vocabulary", "rebuild"}
        /\ UNCHANGED <<version, tables, columns, vocabulary, chain>>
    BY <1>14 DEF DropIndex, CreateIndex, CountEntries, At, schema
  <2>2. phase \in {"index", "chain", "snapshot"}
    OBVIOUS
  <2> HIDE DEF phase
  <2>3. ReachedNext([job[w] EXCEPT !.at = phase])
    BY <1>6, <2>1, <2>2 DEF ReachedNext, Reached, Job
  <2> QED
    BY <1>7, <1>8, <2>1, <2>2, <2>3 DEF Phase
<1>15. CASE ReadChain(w)
  <2> DEFINE phase == IF chain = None THEN "count"
                      ELSE IF job[w].old THEN "checkpoint" ELSE "version"
             read  == [job[w] EXCEPT !.old = FALSE, !.at = phase]
  <2>1. /\ job' = [job EXCEPT ![w] = read]
        /\ job[w].at = "chain"
        /\ UNCHANGED <<version, tables, columns, vocabulary, chain>>
    BY <1>15 DEF ReadChain, At, schema
  <2>2. phase \in {"count", "checkpoint", "version"} /\ (phase # "count" => chain # None)
    OBVIOUS
  <2> HIDE DEF phase
  <2>3. read \in Job
    BY <1>6, <2>2 DEF Job, Phase
  <2>4. ReachedNext(read)
    BY <1>6, <2>1, <2>2 DEF ReachedNext, Reached, Job
  <2> QED
    BY <1>3, <1>8, <2>1, <2>3, <2>4
<1>16. CASE ReadLegacy(w)
  <2> DEFINE read == [job[w] EXCEPT !.at = "activate", !.legacy = events]
  <2>1. /\ job' = [job EXCEPT ![w] = read]
        /\ job[w].at = "snapshot"
        /\ UNCHANGED <<version, tables, columns, vocabulary, chain>>
    BY <1>16 DEF ReadLegacy, At, schema
  <2>2. read \in Job
    BY <1>6 DEF Job, Phase, Typed, StoreTypeOK
  <2>3. ReachedNext(read)
    BY <1>6, <2>1 DEF ReachedNext, Reached, Job
  <2> QED
    BY <1>3, <1>8, <2>1, <2>2, <2>3
<1>17. ASSUME Migrated(w), version' = Current, Complete'
       PROVE  Migrating'
  <2> DEFINE appending == [job[w] EXCEPT !.at = "append", !.legacy = {}]
  <2>1. Advanced'
    <3>1. CASE job[w].event = None
      BY <1>4, <1>17, <3>1 DEF Migrated
    <3>2. CASE job[w].event # None
      <4>1. job' = [job EXCEPT ![w] = appending]
        BY <1>17, <3>2 DEF Migrated
      <4>2. appending \in Job
        BY <1>6 DEF Job, Phase
      <4>3. ReachedNext(appending)
        BY <1>6, <1>17, <3>2 DEF ReachedNext, Complete, Job, Columns
      <4> QED
        BY <1>3, <4>1, <4>2, <4>3
    <3> QED
      BY <3>1, <3>2
  <2> QED
    BY <1>17, <2>1 DEF Migrating, VersionMeans, Complete
<1>18. CASE Activate(w)
  <2>1. CASE Raises(w)
    BY <1>5, <2>1
  <2>2. CASE ~Raises(w)
    <3>1. /\ chain' = [legacy |-> job[w].legacy, sequence |-> 0, head |-> None]
          /\ version' = Current /\ Migrated(w) /\ job[w].at = "activate"
          /\ UNCHANGED <<tables, columns, vocabulary>>
      BY <1>18, <2>2 DEF Activate, At
    <3>2. chain' \in Chain
      BY <1>6, <3>1 DEF Chain, Job
    <3>3. Complete'
      BY <1>6, <3>1, <3>2, ChainIsNotNone DEF Complete, Reached, Columns, Current
    <3> QED
      BY <1>17, <3>1, <3>3
  <2> QED
    BY <2>1, <2>2
<1>19. CASE Checkpoint(w)
  <2>1. CASE Raises(w)
    BY <1>5, <2>1
  <2>2. CASE ~Raises(w)
    <3>1. /\ GoesTo(w, "version") /\ job[w].at = "checkpoint"
          /\ UNCHANGED <<version, tables, columns, vocabulary, chain>>
      BY <1>19, <2>2 DEF Checkpoint, At, schema
    <3>2. ReachedNext([job[w] EXCEPT !.at = "version"])
      BY <1>6, <3>1 DEF ReachedNext, Reached, Job
    <3> QED
      BY <1>7, <1>8, <3>1, <3>2 DEF Phase
  <2> QED
    BY <2>1, <2>2
<1>20. CASE SetVersion(w)
  <2>1. /\ version' = Current /\ Migrated(w) /\ job[w].at = "version"
        /\ UNCHANGED <<tables, columns, vocabulary, chain>>
    BY <1>20 DEF SetVersion, At
  <2>2. Complete'
    BY <1>6, <2>1 DEF Complete, Reached, Columns, Current
  <2> QED
    BY <1>17, <2>1, <2>2
<1>21. CASE AppendEvent(w)
  BY <1>4, <1>5, <1>8, <1>21 DEF AppendEvent, schema
<1>22. CASE Raises(w)
  BY <1>5, <1>22
<1> QED
  BY <1>9, <1>10, <1>11, <1>12, <1>13, <1>14, <1>15, <1>16, <1>18, <1>19, <1>20, <1>21,
     <1>22 DEF Step

\* A command that begins has reached nothing, and one that fails nothing more.
LEMMA MigratingByStart ==
  ASSUME NEW w \in Workers, NEW e \in Events \cup {None}, Typed, Typed', Migrating, Start(w, e)
  PROVE  Migrating'
<1> DEFINE begun == [ at |-> "create", event |-> e, old |-> version < Current,
                      column |-> 1, seen |-> {}, legacy |-> {} ]
<1>1. /\ job' = [job EXCEPT ![w] = begun]
      /\ UNCHANGED <<version, tables, columns, vocabulary, chain>>
  BY DEF Start, schema
<1>2. Kept
  BY <1>1 DEF Kept, Typed, StoreTypeOK
<1>3. job'[w] = begun /\ \A v \in Workers \ {w} : job'[v] = job[v]
  BY <1>1 DEF Typed, StoreTypeOK
<1>4. Reached(job[w])'
  BY <1>3 DEF Reached
<1>5. Advanced'
  BY <1>2, <1>3, <1>4, AdvancedBy DEF Migrating
<1> QED
  BY <1>1, <1>2, <1>5, VersionKept DEF Migrating

LEMMA MigratingByFail ==
  ASSUME NEW w \in Workers, Typed, Typed', Migrating, Fail(w)
  PROVE  Migrating'
<1>1. /\ job' = [job EXCEPT ![w] = None]
      /\ UNCHANGED <<version, tables, columns, vocabulary, chain>>
  BY DEF Fail, Ends, schema
<1>2. Kept
  BY <1>1 DEF Kept, Typed, StoreTypeOK
<1>3. job'[w] = None /\ \A v \in Workers \ {w} : job'[v] = job[v]
  BY <1>1 DEF Typed, StoreTypeOK
<1>4. Advanced'
  BY <1>2, <1>3, AdvancedBy DEF Migrating
<1> QED
  BY <1>1, <1>2, <1>4, VersionKept DEF Migrating

\* An edit may set the head back, but leaves the chain activated.
LEMMA ChainOutlivesEdit ==
  ASSUME NEW e \in Events, Typed, Edit(e)
  PROVE  chain' # None
<1>1. chain \in Chain
  BY DEF Edit, Typed, StoreTypeOK
<1>2. CASE chain' = chain
  BY <1>1, <1>2, ChainIsNotNone
<1>3. CASE chain' # chain
  <2>1. PICK x \in entries :
          chain' = [chain EXCEPT !.sequence = x.sequence - 1, !.head = x.previous]
    BY <1>3 DEF Edit, Alter, Delete, Fabricate, Rewind
  <2>2. x \in Entry /\ x.sequence >= 1
    BY DEF Typed, StoreTypeOK, Positive
  <2> DEFINE before == x.sequence - 1
             link   == x.previous
  <2>3. before \in Nat /\ link \in Events \cup {None}
    BY <2>2 DEF Entry
  <2> HIDE DEF before, link
  <2>4. [chain EXCEPT !.sequence = before, !.head = link] \in Chain
    BY <1>1, <2>3 DEF Chain
  <2> QED
    BY <2>1, <2>4, ChainIsNotNone DEF before, link
<1> QED
  BY <1>2, <1>3

\* An edit leaves the schema, the jobs and the activation alone.
LEMMA MigratingByEdit ==
  ASSUME NEW e \in Events, Typed, Typed', Migrating, Edit(e)
  PROVE  Migrating'
<1>1. UNCHANGED <<version, tables, columns, vocabulary, job>> /\ chain # None
  BY DEF Edit, schema
<1>2. chain' # None
  BY ChainOutlivesEdit
<1>3. Kept
  BY <1>1, <1>2 DEF Kept, Typed, StoreTypeOK
<1>4. Advanced'
  <2> SUFFICES ASSUME NEW w \in Workers, job'[w] # None PROVE Reached(job[w])'
    BY DEF Advanced
  <2>1. Reached(job[w]) /\ job'[w] = job[w]
    BY <1>1 DEF Migrating, Advanced
  <2> QED
    BY <1>1, <1>2, <2>1 DEF Reached, Columns, Current
<1> QED
  BY <1>1, <1>3, <1>4, VersionKept DEF Migrating

-----------------------------------------------------------------------------
\* The audit only reads, so what every step of the store keeps is invariant.
LEMMA NextOfStore == [Next]_vars => [StoreNext]_storeVars
  BY DEF Next, vars

\* Nothing changes when nobody steps.
LEMMA MigratingStutters ==
  ASSUME Typed, Migrating, UNCHANGED storeVars
  PROVE  Typed' /\ Migrating'
  BY DEF Typed, StoreTypeOK, Positive, Migrating, Advanced, Reached, VersionMeans, Complete,
         storeVars, Columns, Current

LEMMA MigratingNext ==
  ASSUME Typed, Migrating, [StoreNext]_storeVars
  PROVE  Typed' /\ Migrating'
<1>1. ASSUME NEW w \in Workers, NEW e \in Events \cup {None}, Start(w, e)
      PROVE  Typed' /\ Migrating'
  BY <1>1, TypedByStart, MigratingByStart
<1>2. ASSUME NEW w \in Workers, Step(w)
      PROVE  Typed' /\ Migrating'
  BY <1>2, TypedByStep, MigratingByStep DEF Migrating
<1>3. ASSUME NEW w \in Workers, Fail(w)
      PROVE  Typed' /\ Migrating'
  BY <1>3, TypedByFail, MigratingByFail
<1>4. ASSUME NEW e \in Events, Edit(e)
      PROVE  Typed' /\ Migrating'
  BY <1>4, TypedByEdit, MigratingByEdit
<1> QED
  BY <1>1, <1>2, <1>3, <1>4, MigratingStutters DEF StoreNext

\* The tables keep their types, and every command has made of the database what
\* its phase relies on, whatever other commands do.
THEOREM StoreTyped == Spec => [](Typed /\ Migrating)
<1>1. AuditInit => Typed /\ Migrating
  BY TypedInit, MigratingInit DEF AuditInit
<1>2. Typed /\ Migrating /\ [Next]_vars => Typed' /\ Migrating'
  BY MigratingNext, NextOfStore
<1> QED
  BY <1>1, <1>2, PTL DEF Spec

\* Every variable of the store keeps its type.
THEOREM StoreTypeCorrect == Spec => []StoreTypeOK
<1>1. Typed => StoreTypeOK
  BY DEF Typed
<1> QED
  BY <1>1, StoreTyped, PTL

\* A database that says it is current is complete, and so is every one that a
\* command works on after its migration.
THEOREM CurrentStaysComplete == Spec => []CurrentIsComplete
<1>1. Typed /\ Migrating => CurrentIsComplete
  BY DEF Typed, StoreTypeOK, Migrating, Advanced, Reached, VersionMeans, CurrentIsComplete, At
<1> QED
  BY <1>1, StoreTyped, PTL

-----------------------------------------------------------------------------
\* The chain.

Sequenced == {x.event : x \in entries}

\* Every event identifier that the database mentions.
Known ==
  events \cup Sequenced \cup {x.previous : x \in entries}
    \cup (IF chain = None THEN {} ELSE chain.legacy \cup {chain.head})

\* The event of a command is new to the database and its own.
OwnEvents ==
  \A w \in Workers : job[w] # None /\ job[w].event # None =>
    /\ job[w].event \notin Known
    /\ \A v \in Workers \ {w} : job[v] # None => job[v].event # job[w].event

\* No two entries share a place, a predecessor or an event.
Unforked ==
  \A x, y \in entries :
    x.sequence = y.sequence \/ x.previous = y.previous \/ x.event = y.event => x = y

\* Until the chain is activated there are no entries and no edits, and the
\* events that a command is about to activate it over are all there are.
Unactivated ==
  chain = None =>
    /\ entries = {} /\ altered = {} /\ edits = 0
    /\ \A w \in Workers : At(w, "activate") => job[w].legacy = events

\* No place of the chain is empty.
Full == \A i \in 1..chain.sequence : \E x \in entries : x.sequence = i

Sound == ChainHolds(chain, events, altered, entries) /\ altered = {} /\ Full

\* What one edit leaves behind, and no later step undoes: an altered event, a
\* legacy event that is gone, an event from nowhere, a gap, or an entry past the
\* head.
Gap(k) ==
  /\ \A x \in entries : x.sequence # k
  /\ k # chain.sequence => \E x \in entries : x.sequence = k + 1

Damaged ==
  /\ chain # None
  /\ \/ events \cap altered # {}
     \/ \E e \in chain.legacy : e \notin events
     \/ \E e \in events : e \notin Sequenced /\ e \notin chain.legacy
     \/ \E k \in 1..chain.sequence : Gap(k)
     \/ \E x \in entries : x.sequence > chain.sequence

Chained ==
  /\ OwnEvents /\ Unforked /\ Unactivated
  /\ edits = 0 /\ chain # None => Sound
  /\ edits = 1 => Damaged

\* A sound chain holds and a damaged one does not.
LEMMA DamageShows ==
  ASSUME Typed, Damaged
  PROVE  ~ChainHolds(chain, events, altered, entries)
<1> SUFFICES ASSUME ChainHolds(chain, events, altered, entries) PROVE FALSE
  OBVIOUS
<1>1. chain \in Chain /\ entries \subseteq Entry
  BY DEF Damaged, Typed, StoreTypeOK
<1>2. chain.sequence \in Nat /\ \A x \in entries : x.sequence \in Nat /\ x.sequence >= 1
  BY <1>1 DEF Chain, Entry, Typed, Positive
<1>3. CASE \/ events \cap altered # {}
           \/ \E e \in chain.legacy : e \notin events
           \/ \E e \in events : e \notin Sequenced /\ e \notin chain.legacy
           \/ \E x \in entries : x.sequence > chain.sequence
  BY <1>2, <1>3 DEF ChainHolds, Sequenced
<1>4. ASSUME NEW k \in 1..chain.sequence, Gap(k) PROVE FALSE
  <2>1. k \in Nat /\ k >= 1 /\ chain.sequence # 0
    BY <1>2
  <2>2. CASE k = chain.sequence
    BY <1>4, <2>1, <2>2 DEF Gap, ChainHolds
  <2>3. CASE k # chain.sequence
    <3>1. PICK x \in entries : x.sequence = k + 1
      BY <1>4, <2>3 DEF Gap
    <3>2. PICK y \in entries : y.sequence + 1 = x.sequence
      BY <2>1, <3>1 DEF ChainHolds
    <3>3. y.sequence = k
      BY <1>2, <2>1, <3>1, <3>2
    <3> QED
      BY <1>4, <3>3 DEF Gap
  <2> QED
    BY <2>2, <2>3
<1> QED
  BY <1>3, <1>4 DEF Damaged

LEMMA ChainedTells ==
  ASSUME Typed, Chained
  PROVE  ChainTellsEdits
  BY DamageShows DEF Chained, ChainTellsEdits, Unforked, Sound

\* A chain that an earlier release left is sound.
LEMMA ChainedInit == Init => Chained
<1> SUFFICES ASSUME Init PROVE Chained
  OBVIOUS
<1>1. PICK d \in Databases :
        /\ events = d.legacy \cup {d.appended[i] : i \in DOMAIN d.appended}
        /\ entries = {LinkOf(d.appended, i) : i \in DOMAIN d.appended}
        /\ chain = IF ~d.active THEN None
                   ELSE [ legacy |-> d.legacy, sequence |-> Len(d.appended),
                          head |-> IF d.appended = <<>> THEN None
                                   ELSE d.appended[Len(d.appended)] ]
  BY DEF Init
<1>2. /\ altered = {} /\ edits = 0
      /\ \A w \in Workers : job[w] = None
  BY DEF Init
<1>3. Left(d) /\ d \in Database
  BY StoreAssumption
<1> DEFINE s == d.appended
           n == Len(s)
<1>4. /\ n \in Nat /\ DOMAIN s = 1..n
      /\ \A i \in 1..n : s[i] \in Events /\ s[i] # None
      /\ s = <<>> <=> n = 0
  BY <1>3, StoreNoneAssumption DEF Database
<1>5. /\ \A i, k \in 1..n : s[i] = s[k] => i = k
      /\ \A i \in 1..n : s[i] \notin d.legacy
      /\ ~d.active => s = <<>>
  BY <1>3, <1>4 DEF Left
<1>6. /\ events = d.legacy \cup {s[i] : i \in 1..n}
      /\ \A x \in entries : \E i \in 1..n : x = LinkOf(s, i)
      /\ \A i \in 1..n : LinkOf(s, i) \in entries
  BY <1>1, <1>4
<1>7. /\ d.active => /\ chain.legacy = d.legacy /\ chain.sequence = n
                     /\ chain.head = IF n = 0 THEN None ELSE s[n]
      /\ ~d.active => chain = None /\ n = 0
  BY <1>1, <1>4, <1>5
<1>8. \A i \in 1..n :
        /\ LinkOf(s, i).event = s[i] /\ LinkOf(s, i).sequence = i
        /\ LinkOf(s, i).previous = IF i = 1 THEN None ELSE s[i - 1]
  BY DEF LinkOf
<1>9. d.active => chain # None
  <2> SUFFICES ASSUME d.active PROVE chain # None
    OBVIOUS
  <2>1. /\ d.legacy \subseteq Events
        /\ (IF s = <<>> THEN None ELSE s[Len(s)]) \in Events \cup {None}
    BY <1>3, <1>4 DEF Database
  <2>2. chain \in Chain
    BY <1>1, <1>4, <2>1 DEF Chain
  <2> QED
    BY <2>2, ChainIsNotNone
<1> HIDE DEF s, n
<1>10. OwnEvents
  BY <1>2 DEF OwnEvents
<1>11. Unactivated
  BY <1>2, <1>6, <1>7, <1>9 DEF Unactivated, At
<1>12. Unforked
  <2> SUFFICES ASSUME NEW x \in entries, NEW y \in entries,
                      x.sequence = y.sequence \/ x.previous = y.previous \/ x.event = y.event
               PROVE  x = y
    BY DEF Unforked
  <2>1. PICK i \in 1..n : x = LinkOf(s, i)
    BY <1>6
  <2>2. PICK k \in 1..n : y = LinkOf(s, k)
    BY <1>6
  <2>3. CASE x.sequence = y.sequence
    BY <1>8, <2>1, <2>2, <2>3
  <2>4. CASE x.event = y.event
    BY <1>5, <1>8, <2>1, <2>2, <2>4
  <2>5. CASE x.previous = y.previous
    <3>1. CASE i = 1 \/ k = 1
      BY <1>4, <1>8, <2>1, <2>2, <2>5, <3>1
    <3>2. CASE i # 1 /\ k # 1
      <4>1. i - 1 \in 1..n /\ k - 1 \in 1..n /\ s[i - 1] = s[k - 1]
        BY <1>4, <1>8, <2>1, <2>2, <2>5, <3>2
      <4>2. i - 1 = k - 1
        BY <1>5, <4>1
      <4> QED
        BY <1>4, <2>1, <2>2, <4>2
    <3> QED
      BY <3>1, <3>2
  <2> QED
    BY <2>3, <2>4, <2>5
<1>13. ASSUME chain # None PROVE Sound
  <2>1. /\ chain.legacy = d.legacy /\ chain.sequence = n
        /\ chain.head = IF n = 0 THEN None ELSE s[n]
    BY <1>7, <1>13
  <2>2. \A e : e \in Sequenced <=> \E i \in 1..n : e = s[i]
    BY <1>6, <1>8 DEF Sequenced
  <2>3. events \ Sequenced = chain.legacy /\ Sequenced \subseteq events
    BY <1>5, <1>6, <2>1, <2>2
  <2>4. ASSUME NEW x \in entries
        PROVE  /\ x.sequence \in 1..n
               /\ IF x.sequence = 1 THEN x.previous = None
                  ELSE \E y \in entries : y.sequence + 1 = x.sequence /\ y.event = x.previous
    <3>1. PICK i \in 1..n : x = LinkOf(s, i)
      BY <1>6
    <3>2. CASE i = 1
      BY <1>8, <3>1, <3>2
    <3>3. CASE i # 1
      <4>1. i - 1 \in 1..n
        BY <1>4, <3>3
      <4>2. LinkOf(s, i - 1) \in entries /\ LinkOf(s, i - 1).sequence + 1 = x.sequence
            /\ LinkOf(s, i - 1).event = x.previous
        BY <1>6, <1>8, <3>1, <3>3, <4>1
      <4> QED
        BY <1>8, <3>1, <3>3, <4>2
    <3> QED
      BY <3>2, <3>3
  <2>5. \A x, y \in entries : x.sequence = y.sequence => x = y
    BY <1>12 DEF Unforked
  <2>6. IF chain.sequence = 0 THEN chain.head = None
        ELSE \E x \in entries : x.sequence = chain.sequence /\ x.event = chain.head
    <3>1. CASE n = 0
      BY <2>1, <3>1
    <3>2. CASE n # 0
      BY <1>4, <1>6, <1>8, <2>1, <3>2
    <3> QED
      BY <3>1, <3>2
  <2>7. Full
    BY <1>6, <1>8, <2>1 DEF Full
  <2> QED
    BY <1>2, <2>1, <2>3, <2>4, <2>5, <2>6, <2>7 DEF Sound, ChainHolds, Sequenced
<1> QED
  BY <1>2, <1>10, <1>11, <1>12, <1>13 DEF Chained

\* What a step of a command does to its own job: it ends, or it keeps its event
\* and enters the activation only with the events there are.
LEMMA JobStep ==
  ASSUME NEW w \in Workers, Typed, Step(w)
  PROVE  /\ job[w] # None
         /\ \A v \in Workers \ {w} : job'[v] = job[v]
         /\ job'[w] # None =>
              /\ job'[w].event = job[w].event
              /\ job'[w].at = "activate" => job'[w].legacy = events
<1>1. job[w] # None /\ job[w] \in Job
  BY DEF Typed, StoreTypeOK, Step, At, CreateTables, ReadColumns, AddColumn, ReadVocabulary,
         Rebuild, DropIndex, CreateIndex, ReadChain, CountEntries, ReadLegacy, Activate,
         Checkpoint, SetVersion, AppendEvent
<1>2. job \in [Workers -> Job \cup {None}]
  BY DEF Typed, StoreTypeOK
<1> DEFINE Goal == /\ \A v \in Workers \ {w} : job'[v] = job[v]
                   /\ job'[w] # None =>
                        /\ job'[w].event = job[w].event
                        /\ job'[w].at = "activate" => job'[w].legacy = events
<1> DEFINE Fits(r) == /\ r.event = job[w].event
                      /\ r.at = "activate" => r.legacy = events
<1>3. ASSUME NEW r, r = None \/ Fits(r), job' = [job EXCEPT ![w] = r]
      PROVE  Goal
  BY <1>2, <1>3
<1> HIDE DEF Goal
<1>4. ASSUME Ends(w) PROVE Goal
  BY <1>3, <1>4 DEF Ends
<1>5. ASSUME Raises(w) PROVE Goal
  BY <1>4, <1>5 DEF Raises
<1>6. ASSUME NEW phase, phase # "activate", GoesTo(w, phase) PROVE Goal
  <2> DEFINE r == [job[w] EXCEPT !.at = phase]
  <2>1. job' = [job EXCEPT ![w] = r]
    BY <1>6 DEF GoesTo
  <2>2. r.event = job[w].event /\ r.at = phase
    BY <1>1 DEF Job
  <2> QED
    BY <1>3, <1>6, <2>1, <2>2
<1>7. ASSUME NextColumn(w) PROVE Goal
  <2> DEFINE c == job[w].column
             onwards == [job[w] EXCEPT !.at = AfterColumn(c), !.column = c + 1]
             done    == [job[w] EXCEPT !.at = "vocabulary", !.column = 1, !.seen = {}]
  <2>1. onwards.event = job[w].event /\ onwards.at = AfterColumn(c)
    BY <1>1 DEF Job
  <2>2. done.event = job[w].event /\ done.at = "vocabulary"
    BY <1>1 DEF Job
  <2>3. AfterColumn(c) # "activate"
    BY DEF AfterColumn
  <2>4. job' = [job EXCEPT ![w] = onwards] \/ job' = [job EXCEPT ![w] = done]
    BY <1>7 DEF NextColumn
  <2> QED
    BY <1>3, <2>1, <2>2, <2>3, <2>4
<1>8. ASSUME Migrated(w) PROVE Goal
  <2> DEFINE r == [job[w] EXCEPT !.at = "append", !.legacy = {}]
  <2>1. Ends(w) \/ job' = [job EXCEPT ![w] = r]
    BY <1>8 DEF Migrated
  <2>2. r.event = job[w].event /\ r.at = "append"
    BY <1>1 DEF Job
  <2> QED
    BY <1>3, <1>4, <2>1, <2>2
<1>9. ASSUME ReadColumns(w) PROVE Goal
  <2> DEFINE r == [job[w] EXCEPT !.at = "add",
                     !.seen = {c \in columns : Added[c] = Added[job[w].column]}]
  <2>1. job' = [job EXCEPT ![w] = r]
    BY <1>9 DEF ReadColumns
  <2>2. r.event = job[w].event /\ r.at = "add"
    BY <1>1 DEF Job
  <2> QED
    BY <1>3, <2>1, <2>2
<1>10. ASSUME ReadChain(w) PROVE Goal
  <2> DEFINE phase == IF chain = None THEN "count"
                      ELSE IF job[w].old THEN "checkpoint" ELSE "version"
             r == [job[w] EXCEPT !.old = FALSE, !.at = phase]
  <2>1. job' = [job EXCEPT ![w] = r]
    BY <1>10 DEF ReadChain
  <2>2. phase # "activate"
    OBVIOUS
  <2> HIDE DEF phase
  <2>3. r.event = job[w].event /\ r.at = phase
    BY <1>1 DEF Job
  <2> HIDE DEF r
  <2> QED
    BY <1>3, <2>1, <2>2, <2>3
<1>11. ASSUME ReadLegacy(w) PROVE Goal
  <2> DEFINE r == [job[w] EXCEPT !.at = "activate", !.legacy = events]
  <2>1. job' = [job EXCEPT ![w] = r]
    BY <1>11 DEF ReadLegacy
  <2>2. r.event = job[w].event /\ r.legacy = events
    BY <1>1 DEF Job
  <2> QED
    BY <1>3, <2>1, <2>2
<1>12. ASSUME CreateTables(w) PROVE Goal
  BY <1>4, <1>6, <1>12 DEF CreateTables
<1>13. ASSUME AddColumn(w) PROVE Goal
  BY <1>5, <1>7, <1>13 DEF AddColumn
<1>14. ASSUME \/ ReadVocabulary(w) \/ Rebuild(w) \/ DropIndex(w) \/ CreateIndex(w)
              \/ CountEntries(w) \/ Checkpoint(w)
       PROVE  Goal
  BY <1>5, <1>6, <1>14 DEF ReadVocabulary, Rebuild, DropIndex, CreateIndex, CountEntries,
                           Checkpoint
<1>15. ASSUME Activate(w) \/ SetVersion(w) \/ AppendEvent(w) PROVE Goal
  BY <1>4, <1>5, <1>8, <1>15 DEF Activate, SetVersion, AppendEvent
<1>16. Goal
  BY <1>9, <1>10, <1>11, <1>12, <1>13, <1>14, <1>15 DEF Step
<1> QED
  BY <1>1, <1>16 DEF Goal

\* Only two steps of a command touch the chain.
LEMMA QuietSteps ==
  ASSUME NEW w \in Workers, Step(w)
  PROVE  \/ UNCHANGED <<events, altered, entries, chain, edits>>
         \/ Activate(w) /\ ~Raises(w)
         \/ AppendEvent(w) /\ ~Raises(w)
<1>1. CASE Raises(w)
  BY <1>1 DEF Raises, stored
<1>2. CASE CreateTables(w) \/ ReadColumns(w) \/ (AddColumn(w) /\ ~Raises(w)) \/ ReadVocabulary(w)
  BY <1>2 DEF CreateTables, ReadColumns, AddColumn, ReadVocabulary, stored
<1>3. CASE Rebuild(w) \/ DropIndex(w) \/ (CreateIndex(w) /\ ~Raises(w)) \/ ReadChain(w)
  BY <1>3 DEF Rebuild, DropIndex, CreateIndex, ReadChain, stored
<1>4. CASE \/ CountEntries(w) /\ ~Raises(w)
           \/ ReadLegacy(w) \/ (Checkpoint(w) /\ ~Raises(w)) \/ SetVersion(w)
  BY <1>4 DEF CountEntries, ReadLegacy, Checkpoint, SetVersion, stored
<1> QED
  BY <1>1, <1>2, <1>3, <1>4 DEF Step

\* Where the stored events and the chain stay, everything said of them does.
LEMMA ChainedQuiet ==
  ASSUME Chained, UNCHANGED <<events, altered, entries, chain, edits>>,
         \A v \in Workers : job'[v] # None =>
           /\ job[v] # None /\ job'[v].event = job[v].event
           /\ chain = None /\ job'[v].at = "activate" => job'[v].legacy = events
  PROVE  Chained'
<1>1. OwnEvents'
  BY DEF Chained, OwnEvents, Known, Sequenced
<1>2. Unforked' /\ Unactivated'
  BY DEF Chained, Unforked, Unactivated, At
<1>3. (edits = 0 /\ chain # None => Sound)'
  BY DEF Chained, Sound, ChainHolds, Full
<1>4. (edits = 1 => Damaged)'
  BY DEF Chained, Damaged, Gap, Sequenced
<1> QED
  BY <1>1, <1>2, <1>3, <1>4 DEF Chained

\* A command's event stays its own while nothing mentions it but its own append.
LEMMA OwnEventsKept ==
  ASSUME OwnEvents,
         \A v \in Workers : job'[v] # None =>
           /\ job[v] # None /\ job'[v].event = job[v].event
           /\ job[v].event # None => job[v].event \notin Known' \ Known
  PROVE  OwnEvents'
BY DEF OwnEvents

\* The chain is activated over exactly the events there are.
LEMMA ChainedByActivate ==
  ASSUME NEW w \in Workers, Typed, Chained, Step(w), Activate(w), ~Raises(w)
  PROVE  Chained'
<1>1. /\ chain = None /\ At(w, "activate")
      /\ chain' = [legacy |-> job[w].legacy, sequence |-> 0, head |-> None]
      /\ UNCHANGED <<events, altered, entries, edits>>
  BY DEF Activate, stored
<1>2. entries = {} /\ altered = {} /\ edits = 0 /\ job[w].legacy = events
  BY <1>1 DEF Chained, Unactivated
<1>3. chain'.legacy = events /\ chain'.sequence = 0 /\ chain'.head = None
  BY <1>1, <1>2
<1>4. chain' # None
  <2>1. chain' \in Chain
    BY <1>1, <1>2 DEF Chain, Typed, StoreTypeOK
  <2> QED
    BY <2>1, ChainIsNotNone
<1>5. Known' \subseteq Known \cup {None}
  BY <1>1, <1>2, <1>3, <1>4 DEF Known, Sequenced
<1>6. OwnEvents'
  BY <1>5, OwnEventsKept, JobStep DEF Chained
<1>7. Unforked' /\ Unactivated'
  BY <1>1, <1>2, <1>4 DEF Unforked, Unactivated
<1>8. Sound'
  BY <1>1, <1>2, <1>3 DEF Sound, ChainHolds, Full
<1> QED
  BY <1>1, <1>2, <1>6, <1>7, <1>8 DEF Chained

\* An append to a chain that passes its own checks keeps a sound chain sound, and
\* buries no damage.
LEMMA ChainedByAppend ==
  ASSUME NEW w \in Workers, Typed, Migrating, Chained, Step(w), AppendEvent(w), ~Raises(w)
  PROVE  Chained'
<1> DEFINE e == job[w].event
           n == chain.sequence
           l == Linked(e)
<1>1. /\ At(w, "append") /\ MayAppend /\ job'[w] = None
      /\ events' = events \cup {e} /\ entries' = entries \cup {l}
      /\ chain' = [chain EXCEPT !.sequence = n + 1, !.head = e]
      /\ UNCHANGED <<altered, edits>>
  BY DEF AppendEvent, Ends, Linked, Typed, StoreTypeOK
<1>2. /\ chain \in Chain /\ n \in Nat /\ job[w] # None /\ job[w] \in Job
      /\ \A x \in entries : x.sequence \in Nat
  BY <1>1 DEF MayAppend, At, Typed, StoreTypeOK, Chain, Entry
<1>3. e \in Events /\ e # None
  <2>1. Reached(job[w])
    BY <1>2 DEF Migrating, Advanced
  <2> QED
    BY <1>1, <1>2, <2>1 DEF Reached, At, Job
<1>4. /\ chain' \in Chain /\ chain'.legacy = chain.legacy
      /\ chain'.sequence = n + 1 /\ chain'.head = e
  <2> DEFINE k == n + 1
  <2>1. k \in Nat
    BY <1>2
  <2>2. chain' = [chain EXCEPT !.sequence = k, !.head = e]
    BY <1>1
  <2> HIDE DEF k, e
  <2>3. /\ chain' \in Chain /\ chain'.legacy = chain.legacy
        /\ chain'.sequence = k /\ chain'.head = e
    BY <1>2, <1>3, <2>1, <2>2 DEF Chain
  <2> QED
    BY <2>3 DEF k
<1>5. chain # None /\ chain' # None
  BY <1>2, <1>4, ChainIsNotNone
<1>6. l.event = e /\ l.sequence = n + 1 /\ l.previous = chain.head
  BY DEF Linked
<1>7. /\ e \notin events /\ e \notin Sequenced /\ e \notin chain.legacy
      /\ \A v \in Workers \ {w} : job[v] # None => job[v].event # e
  BY <1>2, <1>3, <1>5 DEF Chained, OwnEvents, Known
<1>8. Sequenced' = Sequenced \cup {e}
  BY <1>1, <1>6 DEF Sequenced
<1> HIDE DEF e, n, l
<1>9. OwnEvents'
  <2>1. Known' \subseteq Known \cup {e}
    BY <1>1, <1>4, <1>5, <1>6, <1>8 DEF Known
  <2> QED
    BY <1>1, <1>7, <2>1, OwnEventsKept, JobStep DEF Chained
<1>10. Unforked'
  <2>1. \A x \in entries : x.sequence # l.sequence /\ x.previous # l.previous /\ x.event # l.event
    BY <1>1, <1>6, <1>7 DEF MayAppend, Free, Sequenced, n
  <2> QED
    BY <1>1, <2>1 DEF Chained, Unforked
<1>11. Unactivated'
  BY <1>5 DEF Unactivated
<1>12. ASSUME edits = 0 PROVE Sound'
  <2>1. Sound
    BY <1>5, <1>12 DEF Chained
  <2>2. events' \ Sequenced' = chain'.legacy /\ altered' = {} /\ Sequenced' \subseteq events'
    BY <1>1, <1>4, <1>7, <1>8, <2>1 DEF Sound, ChainHolds, Sequenced
  <2>3. IF l.sequence = 1 THEN l.previous = None
        ELSE \E y \in entries : y.sequence + 1 = l.sequence /\ y.event = l.previous
    BY <1>2, <1>6, <2>1 DEF Sound, ChainHolds, n
  <2>4. \A x \in entries' :
          IF x.sequence = 1 THEN x.previous = None
          ELSE \E y \in entries' : y.sequence + 1 = x.sequence /\ y.event = x.previous
    BY <1>1, <2>1, <2>3 DEF Sound, ChainHolds
  <2>5. /\ \A x \in entries' : x.sequence \in 1..chain'.sequence
        /\ \E x \in entries' : x.sequence = chain'.sequence /\ x.event = chain'.head
        /\ chain'.sequence # 0
    BY <1>1, <1>2, <1>4, <1>6, <2>1 DEF Sound, ChainHolds, n
  <2>6. Full'
    <3> SUFFICES ASSUME NEW i \in 1..(n + 1) PROVE \E x \in entries' : x.sequence = i
      BY <1>4 DEF Full
    <3>1. CASE i = n + 1
      BY <1>1, <1>6, <3>1
    <3>2. CASE i # n + 1
      BY <1>1, <1>2, <2>1, <3>2 DEF Sound, Full, n
    <3> QED
      BY <3>1, <3>2
  <2> QED
    BY <1>10, <2>2, <2>4, <2>5, <2>6 DEF Sound, ChainHolds, Unforked, Sequenced
<1>13. ASSUME edits = 1 PROVE Damaged'
  <2>1. Damaged
    BY <1>13 DEF Chained
  <2>2. CASE \/ events \cap altered # {}
             \/ \E f \in chain.legacy : f \notin events
             \/ \E f \in events : f \notin Sequenced /\ f \notin chain.legacy
    BY <1>1, <1>4, <1>5, <1>7, <1>8, <2>2 DEF Damaged
  <2>3. ASSUME NEW k \in 1..chain.sequence, Gap(k) PROVE Damaged'
    <3>1. k \in Nat /\ k >= 1 /\ k <= n
      BY <1>2, <2>3 DEF n
    <3>2. k # n
      BY <1>1, <2>3, <3>1 DEF Gap, MayAppend, HeadHolds, n
    <3>3. Gap(k)'
      BY <1>1, <1>2, <1>4, <1>6, <2>3, <3>1, <3>2 DEF Gap, n
    <3>4. k \in 1..chain'.sequence
      BY <1>2, <1>4, <3>1
    <3> QED
      BY <1>5, <3>3, <3>4 DEF Damaged
  <2>4. CASE \E x \in entries : x.sequence > chain.sequence
    <3>1. PICK x \in entries : x.sequence > n
      BY <2>4 DEF n
    <3>2. x.sequence # n + 1
      BY <1>1 DEF MayAppend, Free, n
    <3>3. x \in entries' /\ x.sequence > chain'.sequence
      BY <1>1, <1>2, <1>4, <3>1, <3>2
    <3> QED
      BY <1>5, <3>3 DEF Damaged
  <2> QED
    BY <2>1, <2>2, <2>3, <2>4 DEF Damaged
<1> QED
  BY <1>1, <1>9, <1>10, <1>11, <1>12, <1>13 DEF Chained

\* A step of a command keeps what is said of the chain.
LEMMA ChainedByStep ==
  ASSUME NEW w \in Workers, Typed, Migrating, Chained, Step(w)
  PROVE  Chained'
<1>1. CASE UNCHANGED <<events, altered, entries, chain, edits>>
  <2>1. ASSUME NEW v \in Workers, job'[v] # None
        PROVE  /\ job[v] # None /\ job'[v].event = job[v].event
               /\ chain = None /\ job'[v].at = "activate" => job'[v].legacy = events
    BY <2>1, JobStep DEF Chained, Unactivated, At
  <2> QED
    BY <1>1, <2>1, ChainedQuiet
<1> QED
  BY <1>1, QuietSteps, ChainedByActivate, ChainedByAppend

\* A command begins with an event that nothing mentions yet.
LEMMA ChainedByStart ==
  ASSUME NEW w \in Workers, NEW e \in Events \cup {None}, Typed, Chained, Start(w, e)
  PROVE  Chained'
<1> DEFINE begun == [ at |-> "create", event |-> e, old |-> version < Current,
                      column |-> 1, seen |-> {}, legacy |-> {} ]
<1>1. /\ job' = [job EXCEPT ![w] = begun]
      /\ UNCHANGED <<events, altered, entries, chain, edits>>
  BY DEF Start, stored
<1>2. begun.event = e /\ begun.at = "create"
  OBVIOUS
<1> HIDE DEF begun
<1>3. job'[w] = begun /\ \A v \in Workers \ {w} : job'[v] = job[v]
  BY <1>1 DEF Typed, StoreTypeOK
<1>4. e # None => /\ e \notin Known
                  /\ \A v \in Workers : job[v] # None => job[v].event # e
  <2> SUFFICES ASSUME e # None
               PROVE  e \notin Known /\ \A v \in Workers : job[v] # None => job[v].event # e
    OBVIOUS
  <2>1. e \notin Mentioned
    BY DEF Start, NextEvent, Fresh
  <2> QED
    BY <2>1 DEF Mentioned, Known, Sequenced
<1>5. Known' = Known
  BY <1>1 DEF Known, Sequenced
<1>6. OwnEvents'
  <2> SUFFICES ASSUME NEW v \in Workers, job'[v] # None, job'[v].event # None
               PROVE  /\ job'[v].event \notin Known
                      /\ \A u \in Workers \ {v} : job'[u] # None => job'[u].event # job'[v].event
    BY <1>5 DEF OwnEvents
  <2>1. CASE v = w
    BY <1>2, <1>3, <1>4, <2>1
  <2>2. CASE v # w
    BY <1>2, <1>3, <1>4, <2>2 DEF Chained, OwnEvents
  <2> QED
    BY <2>1, <2>2
<1>7. Unactivated'
  BY <1>1, <1>2, <1>3 DEF Chained, Unactivated, At
<1>8. Unforked'
  BY <1>1 DEF Chained, Unforked
<1>9. (edits = 0 /\ chain # None => Sound)'
  BY <1>1 DEF Chained, Sound, ChainHolds, Full
<1>10. (edits = 1 => Damaged)'
  BY <1>1 DEF Chained, Damaged, Gap, Sequenced
<1> QED
  BY <1>6, <1>7, <1>8, <1>9, <1>10 DEF Chained

LEMMA ChainedByFail ==
  ASSUME NEW w \in Workers, Typed, Chained, Fail(w)
  PROVE  Chained'
<1>1. job' = [job EXCEPT ![w] = None] /\ UNCHANGED <<events, altered, entries, chain, edits>>
  BY DEF Fail, Ends, stored
<1>2. job'[w] = None /\ \A v \in Workers \ {w} : job'[v] = job[v]
  BY <1>1 DEF Typed, StoreTypeOK
<1>3. ASSUME NEW v \in Workers, job'[v] # None
      PROVE  /\ job[v] # None /\ job'[v].event = job[v].event
             /\ chain = None /\ job'[v].at = "activate" => job'[v].legacy = events
  BY <1>2, <1>3 DEF Chained, Unactivated, At
<1> QED
  BY <1>1, <1>3, ChainedQuiet

LEMMA ChainedStutters ==
  ASSUME Chained, UNCHANGED storeVars
  PROVE  Chained'
<1>1. UNCHANGED <<events, altered, entries, chain, edits, job>>
  BY DEF storeVars
<1>2. ASSUME NEW v \in Workers, job'[v] # None
      PROVE  /\ job[v] # None /\ job'[v].event = job[v].event
             /\ chain = None /\ job'[v].at = "activate" => job'[v].legacy = events
  BY <1>1, <1>2 DEF Chained, Unactivated, At
<1> QED
  BY <1>1, <1>2, ChainedQuiet

\* The edit of a sound chain leaves it damaged, and any edit leaves the places of
\* the entries, and the events of the commands, their own.
LEMMA ChainedByEdit ==
  ASSUME NEW e \in Events, Typed, Chained, Edit(e)
  PROVE  Chained'
<1>1. /\ chain # None /\ chain' # None /\ chain \in Chain
      /\ edits \in Nat /\ edits' = edits + 1 /\ job' = job
  BY ChainOutlivesEdit DEF Edit, Typed, StoreTypeOK
<1>2. entries' \subseteq entries
  BY DEF Edit, Alter, Delete, Fabricate, Rewind, stored
<1>3. Unforked' /\ Unactivated'
  BY <1>1, <1>2 DEF Chained, Unforked, Unactivated
<1>4. \A x \in entries : x.sequence \in Nat /\ x.sequence >= 1
  BY DEF Typed, StoreTypeOK, Positive, Entry
<1>5. ASSUME Known' \subseteq Known PROVE OwnEvents'
  BY <1>1, <1>5, OwnEventsKept DEF Chained
<1> DEFINE Goal == OwnEvents' /\ (edits = 0 => Damaged')
<1>6. ASSUME Alter(e) PROVE Goal
  <2>1. Known' \subseteq Known
    BY <1>6 DEF Alter, Known, Sequenced
  <2>2. Damaged'
    BY <1>1, <1>6 DEF Alter, Damaged
  <2> QED
    BY <1>5, <2>1, <2>2
<1>7. ASSUME Delete(e) PROVE Goal
  <2>1. events' = events \ {e} /\ entries' = {x \in entries : x.event # e} /\ chain' = chain
    BY <1>7 DEF Delete
  <2>2. Known' \subseteq Known
    BY <2>1 DEF Known, Sequenced
  <2>3. ASSUME edits = 0, e \notin Sequenced PROVE Damaged'
    <3>1. e \in chain'.legacy
      BY <1>1, <1>7, <2>1, <2>3 DEF Chained, Sound, ChainHolds, Sequenced, Delete
    <3> QED
      BY <1>1, <2>1, <3>1 DEF Damaged
  <2>4. ASSUME edits = 0, e \in Sequenced PROVE Damaged'
    <3>1. PICK x \in entries : x.event = e
      BY <2>4 DEF Sequenced
    <3> DEFINE k == x.sequence
    <3>2. Sound /\ Unforked
      BY <1>1, <2>4 DEF Chained
    <3>3. k \in 1..chain.sequence
      BY <3>2 DEF Sound, ChainHolds
    <3>4. \A y \in entries' : y.sequence # k
      BY <2>1, <3>1, <3>2 DEF Unforked
    <3>5. ASSUME k # chain.sequence PROVE \E y \in entries' : y.sequence = k + 1
      <4>1. k + 1 \in 1..chain.sequence
        BY <1>1, <3>3, <3>5 DEF Chain
      <4>2. PICK y \in entries : y.sequence = k + 1
        BY <3>2, <4>1 DEF Sound, Full
      <4>3. y # x
        BY <1>4, <4>2
      <4> QED
        BY <2>1, <3>1, <3>2, <4>2, <4>3 DEF Unforked
    <3>6. Gap(k)'
      BY <2>1, <3>4, <3>5 DEF Gap
    <3> QED
      BY <1>1, <2>1, <3>3, <3>6 DEF Damaged
  <2> QED
    BY <1>5, <2>2, <2>3, <2>4
<1>8. ASSUME Fabricate(e) PROVE Goal
  <2>1. /\ events' = events \cup {e} /\ UNCHANGED <<altered, entries, chain>>
        /\ e \notin Mentioned
    BY <1>8 DEF Fabricate, NextEvent, Fresh
  <2>2. /\ e \notin Sequenced /\ e \notin chain.legacy
        /\ \A v \in Workers : job[v] # None => job[v].event # e
    BY <1>1, <2>1 DEF Mentioned, Sequenced
  <2>3. Known' \subseteq Known \cup {e}
    BY <2>1 DEF Known, Sequenced
  <2>4. OwnEvents'
    BY <1>1, <2>2, <2>3, OwnEventsKept DEF Chained
  <2>5. Damaged'
    BY <1>1, <2>1, <2>2 DEF Damaged, Sequenced
  <2> QED
    BY <2>4, <2>5
<1>9. ASSUME Rewind(e) PROVE Goal
  <2>1. PICK x \in entries :
          chain' = [chain EXCEPT !.sequence = x.sequence - 1, !.head = x.previous]
    BY <1>9 DEF Rewind
  <2> DEFINE before == x.sequence - 1
             link   == x.previous
  <2>2. before \in Nat /\ x.sequence > before
    BY <1>4
  <2>3. chain' = [chain EXCEPT !.sequence = before, !.head = link]
    BY <2>1
  <2>4. link \in {y.previous : y \in entries}
    OBVIOUS
  <2> HIDE DEF before, link
  <2>5. chain'.sequence = before /\ chain'.head = link /\ chain'.legacy = chain.legacy
    BY <1>1, <2>3 DEF Chain
  <2>6. UNCHANGED <<events, altered, entries>>
    BY <1>9 DEF Rewind, stored
  <2>7. Known' \subseteq Known
    BY <1>1, <2>4, <2>5, <2>6 DEF Known, Sequenced
  <2>8. Damaged'
    BY <1>1, <2>2, <2>5, <2>6 DEF Damaged
  <2> QED
    BY <1>5, <2>7, <2>8
<1>10. Goal
  BY <1>6, <1>7, <1>8, <1>9 DEF Edit
<1> QED
  BY <1>1, <1>3, <1>10 DEF Chained

LEMMA ChainedNext ==
  ASSUME Typed, Migrating, Chained, [StoreNext]_storeVars
  PROVE  Chained'
BY ChainedByStart, ChainedByStep, ChainedByFail, ChainedByEdit, ChainedStutters DEF StoreNext

\* What is said of the chain holds always.
THEOREM StoreChained == Spec => [](Typed /\ Migrating /\ Chained)
<1>1. AuditInit => Typed /\ Migrating /\ Chained
  BY TypedInit, MigratingInit, ChainedInit DEF AuditInit
<1>2. Typed /\ Migrating /\ Chained /\ [Next]_vars => Typed' /\ Migrating' /\ Chained'
  BY MigratingNext, ChainedNext, NextOfStore
<1> QED
  BY <1>1, <1>2, PTL DEF Spec

\* A chain that nobody edited passes its checks and never forks, and one that was
\* edited once never passes them again.
THEOREM ChainStaysTelling == Spec => []ChainTellsEdits
<1>1. Typed /\ Migrating /\ Chained => ChainTellsEdits
  BY ChainedTells
<1> QED
  BY <1>1, StoreChained, PTL

-----------------------------------------------------------------------------
\* The audit.

\* An audit that goes beyond the version finds an active chain, and holds its
\* state row when it reads the rows.
Auditable ==
  /\ audit.at \in {"state", "rows", "orphans"} => chain # None
  /\ audit.at = "rows" => audit.state # None

Store == Typed /\ Migrating /\ Chained

\* A chain once activated stays.
LEMMA ChainStays ==
  ASSUME Typed, Typed', Migrating, chain # None, [StoreNext]_storeVars
  PROVE  chain' # None
<1>1. ASSUME NEW w \in Workers, NEW e \in Events \cup {None}, Start(w, e) PROVE chain' # None
  BY <1>1 DEF Start
<1>2. ASSUME NEW w \in Workers, Step(w) PROVE chain' # None
  BY <1>2, KeptByStep DEF Migrating, Kept
<1>3. ASSUME NEW w \in Workers, Fail(w) PROVE chain' # None
  BY <1>3 DEF Fail
<1>4. ASSUME NEW e \in Events, Edit(e) PROVE chain' # None
  BY <1>4, ChainOutlivesEdit
<1>5. CASE UNCHANGED storeVars
  BY <1>5 DEF storeVars
<1> QED
  BY <1>1, <1>2, <1>3, <1>4, <1>5 DEF StoreNext

\* An unedited chain passes both reads of one state of the database.
LEMMA UneditedPasses ==
  ASSUME Chained, edits = 0, chain # None
  PROVE  entries = JoinedEntries /\ ChainHolds(chain, events, altered, JoinedEntries)
<1>1. Sound
  BY DEF Chained
<1>2. entries = JoinedEntries
  BY <1>1 DEF Sound, ChainHolds, JoinedEntries
<1> QED
  BY <1>1, <1>2 DEF Sound

LEMMA AuditableInit == AuditInit => Auditable
  BY DEF AuditInit, Auditable, NoAudit, Auditing

LEMMA AuditableNext ==
  ASSUME Store, Store', Auditable, [Next]_vars
  PROVE  Auditable'
<1>1. CASE UNCHANGED audit /\ [StoreNext]_storeVars
  BY <1>1, ChainStays DEF Auditable, Store
<1>2. CASE ReadVersion /\ UNCHANGED storeVars
  BY <1>2 DEF ReadVersion, Auditing, Auditable, Store, Migrating, VersionMeans, storeVars
<1>3. CASE ReadStateRow /\ UNCHANGED storeVars
  BY <1>3 DEF ReadStateRow, Auditing, Auditable, storeVars
<1>4. CASE ReadRows /\ UNCHANGED storeVars
  BY <1>4 DEF ReadRows, Auditing, Auditable, storeVars
<1>5. CASE ReadOrphans /\ UNCHANGED storeVars
  BY <1>5 DEF ReadOrphans, NoAudit, Auditing, Auditable
<1> QED
  BY <1>1, <1>2, <1>3, <1>4, <1>5 DEF Next, AuditStep, vars

Blames ==
  ~ReportsInvalid /\ ReportsInvalid' =>
    edits' > 0 \/ (audit.at = "rows" /\ chain # audit.state)

LEMMA BlamesNext ==
  ASSUME Store, Store', Auditable, Auditable', [Next]_vars
  PROVE  Blames
<1> SUFFICES ASSUME ~ReportsInvalid, ReportsInvalid', edits' = 0
             PROVE  audit.at = "rows" /\ chain # audit.state
  BY DEF Blames, Store, Typed, StoreTypeOK
<1>1. entries' = JoinedEntries'
  <2>1. chain' # None
    BY DEF ReportsInvalid, Auditable
  <2>2. edits' = 0 /\ Chained'
    BY DEF Store
  <2>3. Sound'
    BY <2>1, <2>2 DEF Chained
  <2> QED
    BY <2>3 DEF Sound, ChainHolds, JoinedEntries
<1>2. audit'.at = "orphans" /\ ~audit'.sound
  BY <1>1 DEF ReportsInvalid
<1>3. CASE UNCHANGED audit
  <2>1. audit.sound /\ entries = JoinedEntries
    BY <1>2, <1>3 DEF ReportsInvalid
  <2> QED
    BY <1>2, <1>3, <2>1
<1>4. CASE ReadRows /\ UNCHANGED storeVars
  <2>1. audit.at = "rows" /\ audit.state # None /\ chain # None /\ edits = 0
    BY <1>4 DEF ReadRows, Auditable, storeVars
  <2>2. audit.state # None /\ ChainHolds(audit.state, events, altered, JoinedEntries) => audit'.sound
    BY <1>4 DEF ReadRows, Auditing
  <2> QED
    BY <1>2, <2>1, <2>2, UneditedPasses DEF Store
<1>5. CASE ReadVersion \/ ReadStateRow \/ ReadOrphans
  BY <1>2, <1>5 DEF ReadVersion, ReadStateRow, ReadOrphans, NoAudit, Auditing
<1> QED
  BY <1>3, <1>4, <1>5 DEF Next, AuditStep, vars

\* An audit beside running commands reports an unedited chain as invalid only
\* where an event was appended between its reads of the head and of the rows.
THEOREM AuditsBlameAppends == Spec => AuditBlamesOnlyAppends
<1>1. AuditInit => Store /\ Auditable
  BY TypedInit, MigratingInit, ChainedInit, AuditableInit DEF AuditInit, Store
<1>2. Store /\ Auditable /\ [Next]_vars => Store' /\ Auditable'
  BY MigratingNext, ChainedNext, NextOfStore, AuditableNext DEF Store
<1>3. Store /\ Auditable /\ [Next]_vars => [Blames]_vars
  BY <1>2, BlamesNext
<1>4. Spec => [](Store /\ Auditable)
  BY <1>1, <1>2, PTL DEF Spec
<1>5. Spec => [][Blames]_vars
  BY <1>3, <1>4, PTL DEF Spec
<1> QED
  BY <1>5 DEF AuditBlamesOnlyAppends, Blames

-----------------------------------------------------------------------------
(***************************************************************************)
(* When a command is refused.  An append never is while nobody edits the   *)
(* database, and nothing is refused while commands come one at a time: the *)
(* safety half of MigrationCompletes.                                      *)
(***************************************************************************)

\* The index of the grants can be created over the columns there are: it exists,
\* or its table will be created with all of them.
Indexable == indexed \/ GrantTable \notin tables \/ GrantColumns \subseteq columns

\* The statements that fail, each with what it finds.
Refused(w) ==
  \/ CreateTables(w) /\ ~indexed'
  \/ AddColumn(w) /\ job[w].column \in columns \ job[w].seen
  \/ CreateIndex(w) /\ indexed
  \/ CountEntries(w) /\ entries # {}
  \/ Activate(w) /\ chain # None
  \/ Checkpoint(w) /\ ~CheckpointHolds
  \/ AppendEvent(w) /\ ~MayAppend

\* A step that ends a command refuses it, or the command is done.
LEMMA RefusedOrDone ==
  ASSUME NEW w \in Workers, Typed, Step(w), job'[w] = None, ~Refused(w)
  PROVE  /\ job[w].event = None \/ AppendEvent(w)
         /\ AppendEvent(w) \/ SetVersion(w) \/ Activate(w)
         /\ AppendEvent(w) => version' = version /\ \E x \in entries' : x.event = job[w].event
         /\ ~AppendEvent(w) => version' = Current
<1>1. job[w] # None /\ job[w] \in Job /\ job \in [Workers -> Job \cup {None}]
  BY JobStep DEF Typed, StoreTypeOK
<1>2. ASSUME NEW r \in Job, job' = [job EXCEPT ![w] = r] PROVE FALSE
  BY <1>1, <1>2, StoreNoneAssumption
<1>3. ASSUME NEW phase \in Phase, GoesTo(w, phase) PROVE FALSE
  <2>1. [job[w] EXCEPT !.at = phase] \in Job
    BY <1>1 DEF Job
  <2> QED
    BY <1>2, <1>3, <2>1 DEF GoesTo
<1>4. ASSUME CreateTables(w) PROVE FALSE
  BY <1>3, <1>4 DEF CreateTables, Refused, Phase
<1>5. ASSUME ReadColumns(w) PROVE FALSE
  <2> DEFINE r == [job[w] EXCEPT !.at = "add",
                     !.seen = {c \in columns : Added[c] = Added[job[w].column]}]
  <2>1. r \in Job
    BY <1>1 DEF Job, Phase, Typed, StoreTypeOK
  <2>2. job' = [job EXCEPT ![w] = r]
    BY <1>5 DEF ReadColumns
  <2> QED
    BY <1>2, <2>1, <2>2
<1>6. ASSUME AddColumn(w) PROVE FALSE
  <2> DEFINE c == job[w].column
             onwards == [job[w] EXCEPT !.at = AfterColumn(c), !.column = c + 1]
             done    == [job[w] EXCEPT !.at = "vocabulary", !.column = 1, !.seen = {}]
  <2>1. NextColumn(w)
    BY <1>6 DEF AddColumn, Refused
  <2>2. c + 1 \in Columns => onwards \in Job
    BY <1>1 DEF Job, Phase, AfterColumn
  <2>3. done \in Job
    BY <1>1 DEF Job, Phase
  <2>4. \/ c + 1 \in Columns /\ job' = [job EXCEPT ![w] = onwards]
        \/ job' = [job EXCEPT ![w] = done]
    BY <2>1 DEF NextColumn
  <2> QED
    BY <1>2, <2>2, <2>3, <2>4
<1>7. ASSUME ReadChain(w) PROVE FALSE
  <2> DEFINE phase == IF chain = None THEN "count"
                      ELSE IF job[w].old THEN "checkpoint" ELSE "version"
             r == [job[w] EXCEPT !.old = FALSE, !.at = phase]
  <2>1. phase \in Phase
    BY DEF Phase
  <2>2. job' = [job EXCEPT ![w] = r]
    BY <1>7 DEF ReadChain
  <2> HIDE DEF phase
  <2>3. r \in Job
    BY <1>1, <2>1 DEF Job
  <2> QED
    BY <1>2, <2>2, <2>3
<1>8. ASSUME ReadLegacy(w) PROVE FALSE
  <2> DEFINE r == [job[w] EXCEPT !.at = "activate", !.legacy = events]
  <2>1. r \in Job
    BY <1>1 DEF Job, Phase, Typed, StoreTypeOK
  <2>2. job' = [job EXCEPT ![w] = r]
    BY <1>8 DEF ReadLegacy
  <2> QED
    BY <1>2, <2>1, <2>2
<1>9. ASSUME ReadVocabulary(w) \/ Rebuild(w) \/ DropIndex(w) PROVE FALSE
  BY <1>3, <1>9 DEF ReadVocabulary, Rebuild, DropIndex, Phase
<1>10. ASSUME CreateIndex(w) \/ CountEntries(w) \/ Checkpoint(w) PROVE FALSE
  BY <1>3, <1>10 DEF CreateIndex, CountEntries, Checkpoint, Refused, Phase
<1>11. CASE Activate(w) \/ SetVersion(w)
  <2>1. Migrated(w) /\ version' = Current
    BY <1>11 DEF Activate, SetVersion, Refused
  <2>2. [job[w] EXCEPT !.at = "append", !.legacy = {}] \in Job
    BY <1>1 DEF Job, Phase
  <2>3. job[w].event = None
    BY <1>2, <2>1, <2>2 DEF Migrated
  <2>4. ~AppendEvent(w)
    BY <1>11 DEF Activate, SetVersion, AppendEvent, At
  <2> QED
    BY <1>11, <2>1, <2>3, <2>4
<1>12. CASE AppendEvent(w)
  <2>1. MayAppend
    BY <1>12 DEF Refused
  <2>2. entries' = entries \cup {Linked(job[w].event)} /\ version' = version
    BY <1>12, <2>1 DEF AppendEvent, schema
  <2>3. Linked(job[w].event).event = job[w].event
    BY DEF Linked
  <2> QED
    BY <1>12, <2>2, <2>3
<1> QED
  BY <1>4, <1>5, <1>6, <1>7, <1>8, <1>9, <1>10, <1>11, <1>12 DEF Step

\* The checkpoint of an unedited chain holds, and its head can be followed.
LEMMA UneditedAdmits ==
  ASSUME Typed, Chained, edits = 0, chain # None
  PROVE  CheckpointHolds /\ MayAppend
<1>1. Sound /\ Unforked
  BY DEF Chained
<1>2. chain \in Chain /\ entries \subseteq Entry /\ events \subseteq Events
  BY DEF Typed, StoreTypeOK
<1>3. chain.sequence \in Nat /\ \A x \in entries : x.sequence \in Nat /\ x.event \in Events
  BY <1>2 DEF Chain, Entry
<1>4. CheckpointHolds
  BY <1>1 DEF CheckpointHolds, Unsequenced, Sound, ChainHolds
<1>5. CASE chain.sequence = 0
  <2>1. entries = {}
    BY <1>1, <1>5 DEF Sound, ChainHolds
  <2> QED
    BY <1>4, <1>5, <2>1 DEF MayAppend, HeadHolds, Free
<1>6. CASE chain.sequence # 0
  <2>1. PICK t \in entries : t.sequence = chain.sequence /\ t.event = chain.head
    BY <1>1, <1>6 DEF Sound, ChainHolds
  <2>2. t.event \in events \ altered
    BY <1>1, <2>1 DEF Sound, ChainHolds
  <2>3. IF t.sequence = 1 THEN t.previous = None
        ELSE \E y \in entries : y.sequence + 1 = t.sequence /\ y.event = t.previous
    BY <1>1, <2>1 DEF Sound, ChainHolds
  <2>4. HeadHolds
    <3>1. CASE t.sequence = 1
      BY <1>6, <2>1, <2>2, <2>3, <3>1 DEF HeadHolds
    <3>2. CASE t.sequence # 1
      <4>1. PICK y \in entries : y.sequence + 1 = t.sequence /\ y.event = t.previous
        BY <2>3, <3>2
      <4>2. y.sequence = chain.sequence - 1
        BY <1>3, <2>1, <4>1
      <4> QED
        BY <1>6, <2>1, <2>2, <3>2, <4>1, <4>2 DEF HeadHolds
    <3> QED
      BY <3>1, <3>2
  <2>5. ASSUME NEW x \in entries
        PROVE  x.sequence # chain.sequence + 1 /\ x.previous # chain.head
    <3>1. x.sequence \in 1..chain.sequence
      BY <1>1 DEF Sound, ChainHolds
    <3>2. IF x.sequence = 1 THEN x.previous = None
          ELSE \E y \in entries : y.sequence + 1 = x.sequence /\ y.event = x.previous
      BY <1>1 DEF Sound, ChainHolds
    <3>3. chain.head # None
      BY <1>3, <2>1, StoreNoneAssumption
    <3>4. ASSUME x.previous = chain.head PROVE FALSE
      <4>1. PICK y \in entries : y.sequence + 1 = x.sequence /\ y.event = x.previous
        BY <3>2, <3>3, <3>4
      <4>2. y = t
        BY <1>1, <2>1, <3>4, <4>1 DEF Unforked
      <4> QED
        BY <1>3, <2>1, <3>1, <4>1, <4>2
    <3> QED
      BY <1>3, <3>1, <3>4
  <2> QED
    BY <1>4, <2>4, <2>5 DEF MayAppend, Free
<1> QED
  BY <1>5, <1>6

\* A command that ends although it did not fail.
Went(w) == job[w] # None /\ job'[w] = None /\ faults' = faults

\* Its event is in the chain.
Appended(w) == \E x \in entries' : x.event = job[w].event

AppendsGoThrough ==
  edits = 0 => \A w \in Workers : Went(w) /\ At(w, "append") => Appended(w)

\* Only a step of its own, or a fault, ends a command.
LEMMA WentByStep ==
  ASSUME Typed, [StoreNext]_storeVars, NEW w \in Workers, Went(w)
  PROVE  Step(w)
<1>1. ASSUME NEW v \in Workers, NEW e \in Events \cup {None}, Start(v, e) PROVE FALSE
  <2> DEFINE r == [ at |-> "create", event |-> e, old |-> version < Current, column |-> 1,
                    seen |-> {}, legacy |-> {} ]
  <2>1. r \in Job /\ job' = [job EXCEPT ![v] = r]
    BY <1>1 DEF Start, Job, Phase
  <2>2. r # None
    BY <2>1, StoreNoneAssumption
  <2> HIDE DEF r
  <2> QED
    BY <2>1, <2>2 DEF Went, Typed, StoreTypeOK
<1>2. ASSUME NEW v \in Workers, Fail(v) PROVE FALSE
  BY <1>2 DEF Fail, Went, Typed, StoreTypeOK
<1>3. ASSUME NEW e \in Events, Edit(e) PROVE FALSE
  BY <1>3 DEF Edit, Went
<1>4. ASSUME NEW v \in Workers, Step(v) PROVE v = w
  BY <1>4, JobStep DEF Went
<1>5. CASE UNCHANGED storeVars
  BY <1>5 DEF storeVars, Went
<1> QED
  BY <1>1, <1>2, <1>3, <1>4, <1>5 DEF StoreNext

\* A command that has come to its append appends its event unless it fails, how
\* many others append and migrate meanwhile: the head it links to is read in its
\* own transaction (insert_transition_event).
THEOREM AppendsAreNotRefused == Spec => [][AppendsGoThrough]_vars
<1>1. Store /\ [Next]_vars => AppendsGoThrough
  <2> SUFFICES ASSUME Store, [StoreNext]_storeVars, edits = 0,
                      NEW w \in Workers, Went(w), At(w, "append")
               PROVE  Appended(w)
    BY NextOfStore DEF AppendsGoThrough
  <2>1. Step(w)
    BY WentByStep DEF Store
  <2>2. AppendEvent(w)
    BY <2>1 DEF At, Step, CreateTables, ReadColumns, AddColumn, ReadVocabulary, Rebuild,
                DropIndex, CreateIndex, ReadChain, CountEntries, ReadLegacy, Activate,
                Checkpoint, SetVersion, AppendEvent
  <2>3. chain # None
    BY DEF Store, Migrating, Advanced, Reached, At
  <2>4. ~Refused(w)
    BY <2>2, <2>3, UneditedAdmits DEF Store, At, Refused, CreateTables, AddColumn, CreateIndex,
                CountEntries, Activate, Checkpoint, AppendEvent
  <2> QED
    BY <2>1, <2>2, <2>4, RefusedOrDone DEF Store, Went, Appended
<1> QED
  BY <1>1, StoreChained, PTL DEF Spec, Store

-----------------------------------------------------------------------------
\* Commands that come one at a time.

OneAtATime == \A v, w \in Workers : job[v] # None /\ job[w] # None => v = w

Idle == \A w \in Workers : job[w] = None

\* What a command has read is still so when it relies on it: the index is gone
\* that it drops, no column came to the table it has listed, nobody activated
\* the chain.
Alone ==
  \A w \in Workers : job[w] # None =>
    /\ job[w].at = "index" => ~indexed
    /\ job[w].at = "add" =>
         \A c \in columns : c >= job[w].column /\ Added[c] = Added[job[w].column]
                              => c \in job[w].seen
    /\ job[w].at \in {"count", "snapshot", "activate"} => chain = None

\* A command done, on a complete database and with its event in the chain.
EndsDone ==
  edits = 0 => \A w \in Workers : Went(w) =>
    Complete' /\ (job[w].event # None => Appended(w))

LEMMA IndexableInit == Init => Indexable
  BY DEF Init, Indexable

\* The index is dropped only where its columns are all there.
LEMMA IndexableNext ==
  ASSUME Typed, Typed', Migrating, Indexable, [StoreNext]_storeVars
  PROVE  Indexable'
<1>1. CASE UNCHANGED <<tables, columns, indexed>>
  BY <1>1 DEF Indexable
<1>2. ASSUME NEW w \in Workers, Step(w) PROVE Indexable'
  <2>1. Kept /\ GrantColumns \subseteq Columns
    BY <1>2, KeptByStep DEF Migrating, GrantColumns
  <2>2. ASSUME tables' = tables, indexed' = indexed PROVE Indexable'
    BY <2>1, <2>2 DEF Indexable, Kept
  <2>3. ASSUME GrantColumns \subseteq columns' PROVE Indexable'
    BY <2>3 DEF Indexable
  <2>4. ASSUME Raises(w) PROVE Indexable'
    BY <1>1, <2>4 DEF Raises, schema
  <2>5. CASE CreateTables(w)
    <3>1. /\ columns' = columns \cup {c \in Columns : Added[c] \notin tables}
          /\ indexed' = (indexed \/ GrantColumns \subseteq columns')
      BY <2>5 DEF CreateTables
    <3>2. GrantTable \notin tables => GrantColumns \subseteq columns'
      BY <3>1 DEF GrantColumns
    <3> QED
      BY <3>1, <3>2 DEF Indexable
  <2>6. CASE Rebuild(w)
    BY <2>3, <2>6 DEF Rebuild
  <2>7. CASE DropIndex(w)
    <3>1. columns = Columns
      BY <2>7 DEF DropIndex, At, Migrating, Advanced, Reached
    <3> QED
      BY <2>1, <2>3, <3>1 DEF Kept
  <2>8. CASE CreateIndex(w)
    <3>1. Raises(w) \/ indexed'
      BY <2>8 DEF CreateIndex
    <3> QED
      BY <2>4, <3>1 DEF Indexable
  <2>9. CASE AddColumn(w) \/ CountEntries(w) \/ Activate(w) \/ Checkpoint(w) \/ AppendEvent(w)
    <3>1. Raises(w) \/ (tables' = tables /\ indexed' = indexed)
      BY <2>9 DEF AddColumn, CountEntries, Activate, Checkpoint, AppendEvent, schema
    <3> QED
      BY <2>2, <2>4, <3>1
  <2>10. CASE \/ ReadColumns(w) \/ ReadVocabulary(w) \/ ReadChain(w) \/ ReadLegacy(w)
              \/ SetVersion(w)
    BY <2>2, <2>10 DEF ReadColumns, ReadVocabulary, ReadChain, ReadLegacy, SetVersion, schema
  <2> QED
    BY <1>2, <2>5, <2>6, <2>7, <2>8, <2>9, <2>10 DEF Step
<1>3. ASSUME NEW w \in Workers, NEW e \in Events \cup {None}, Start(w, e) PROVE Indexable'
  BY <1>1, <1>3 DEF Start, schema
<1>4. ASSUME NEW w \in Workers, Fail(w) PROVE Indexable'
  BY <1>1, <1>4 DEF Fail, schema
<1>5. ASSUME NEW e \in Events, Edit(e) PROVE Indexable'
  BY <1>1, <1>5 DEF Edit, schema
<1>6. CASE UNCHANGED storeVars
  BY <1>1, <1>6 DEF storeVars
<1> QED
  BY <1>2, <1>3, <1>4, <1>5, <1>6 DEF StoreNext

\* What a lone command must find in the next state.
AloneNext(j) ==
  /\ j.at = "index" => ~indexed'
  /\ j.at = "add" =>
       \A c \in columns' : c >= j.column /\ Added[c] = Added[j.column] => c \in j.seen
  /\ j.at \in {"count", "snapshot", "activate"} => chain' = None

\* The step of a lone command changes nothing behind its own back.
LEMMA AloneByStep ==
  ASSUME NEW w \in Workers, Typed, Alone, OneAtATime, Step(w)
  PROVE  Alone'
<1>1. /\ job[w] # None /\ job[w] \in Job
      /\ \A v \in Workers : v # w => job[v] = None
      /\ job \in [Workers -> Job \cup {None}]
  BY JobStep DEF Typed, StoreTypeOK, OneAtATime
<1>2. ASSUME NEW r, r = None \/ AloneNext(r), job' = [job EXCEPT ![w] = r]
      PROVE  Alone'
  <2>1. job'[w] = r /\ \A v \in Workers : v # w => job'[v] = None
    BY <1>1, <1>2
  <2> QED
    BY <1>2, <2>1 DEF Alone, AloneNext
<1>3. ASSUME Ends(w) PROVE Alone'
  BY <1>2, <1>3 DEF Ends
<1>4. ASSUME Raises(w) PROVE Alone'
  BY <1>3, <1>4 DEF Raises
<1>5. ASSUME NEW phase, GoesTo(w, phase), phase # "add",
             phase = "index" => ~indexed',
             phase \in {"count", "snapshot", "activate"} => chain' = None
      PROVE  Alone'
  <2> DEFINE r == [job[w] EXCEPT !.at = phase]
  <2>1. job' = [job EXCEPT ![w] = r] /\ r.at = phase
    BY <1>1, <1>5 DEF GoesTo, Job
  <2> HIDE DEF r
  <2> QED
    BY <1>2, <1>5, <2>1 DEF AloneNext
<1>6. ASSUME CreateTables(w) PROVE Alone'
  BY <1>3, <1>5, <1>6 DEF CreateTables
<1>7. ASSUME ReadColumns(w) PROVE Alone'
  <2> DEFINE r == [job[w] EXCEPT !.at = "add",
                     !.seen = {c \in columns : Added[c] = Added[job[w].column]}]
  <2>1. job' = [job EXCEPT ![w] = r] /\ columns' = columns
    BY <1>7 DEF ReadColumns, schema
  <2>2. /\ r.at = "add" /\ r.column = job[w].column
        /\ r.seen = {c \in columns : Added[c] = Added[job[w].column]}
    BY <1>1 DEF Job
  <2> HIDE DEF r
  <2> QED
    BY <1>2, <2>1, <2>2 DEF AloneNext
<1>8. ASSUME AddColumn(w) PROVE Alone'
  <2>1. CASE Raises(w)
    BY <1>4, <2>1
  <2>2. CASE ~Raises(w)
    <3> DEFINE c == job[w].column
               onwards == [job[w] EXCEPT !.at = AfterColumn(c), !.column = c + 1]
               done    == [job[w] EXCEPT !.at = "vocabulary", !.column = 1, !.seen = {}]
    <3>1. columns' = columns \cup {c} /\ NextColumn(w) /\ job[w].at = "add"
      BY <1>8, <2>2 DEF AddColumn, At
    <3>2. onwards.at = AfterColumn(c) /\ onwards.column = c + 1 /\ onwards.seen = job[w].seen
      BY <1>1 DEF Job
    <3>3. done.at = "vocabulary"
      BY <1>1 DEF Job
    <3>4. job' = [job EXCEPT ![w] = onwards] \/ job' = [job EXCEPT ![w] = done]
      BY <3>1 DEF NextColumn
    <3>5. c \in Nat /\ columns \subseteq Nat
      BY <1>1, ColumnsNumbered DEF Job, Typed, StoreTypeOK
    <3>6. \A d \in columns : d >= c /\ Added[d] = Added[c] => d \in job[w].seen
      BY <1>1, <3>1 DEF Alone
    <3>7. AfterColumn(c) \in {"add", "columns"} /\ (AfterColumn(c) = "add" => Added[c + 1] = Added[c])
      BY DEF AfterColumn
    <3> HIDE DEF c, onwards, done
    <3>8. ASSUME AfterColumn(c) = "add", NEW d \in columns', d >= c + 1, Added[d] = Added[c + 1]
          PROVE  d \in job[w].seen
      BY <3>1, <3>5, <3>6, <3>7, <3>8
    <3>9. AloneNext(onwards)
      BY <3>2, <3>7, <3>8 DEF AloneNext
    <3>10. AloneNext(done)
      BY <3>3 DEF AloneNext
    <3> QED
      BY <1>2, <3>4, <3>9, <3>10
  <2> QED
    BY <2>1, <2>2
<1>9. ASSUME ReadVocabulary(w) \/ Rebuild(w) \/ DropIndex(w) PROVE Alone'
  BY <1>5, <1>9 DEF ReadVocabulary, Rebuild, DropIndex
<1>10. ASSUME CreateIndex(w) \/ Checkpoint(w) PROVE Alone'
  BY <1>4, <1>5, <1>10 DEF CreateIndex, Checkpoint
<1>11. ASSUME ReadChain(w) PROVE Alone'
  <2> DEFINE phase == IF chain = None THEN "count"
                      ELSE IF job[w].old THEN "checkpoint" ELSE "version"
             r == [job[w] EXCEPT !.old = FALSE, !.at = phase]
  <2>1. job' = [job EXCEPT ![w] = r] /\ chain' = chain
    BY <1>11 DEF ReadChain
  <2>2. phase \in {"checkpoint", "version"} \/ (phase = "count" /\ chain = None)
    OBVIOUS
  <2> HIDE DEF phase
  <2>3. r.at = phase
    BY <1>1 DEF Job
  <2> HIDE DEF r
  <2> QED
    BY <1>2, <2>1, <2>2, <2>3 DEF AloneNext
<1>12. ASSUME CountEntries(w) PROVE Alone'
  <2>1. chain = None
    BY <1>1, <1>12 DEF CountEntries, At, Alone
  <2> QED
    BY <1>4, <1>5, <1>12, <2>1 DEF CountEntries
<1>13. ASSUME ReadLegacy(w) PROVE Alone'
  <2> DEFINE r == [job[w] EXCEPT !.at = "activate", !.legacy = events]
  <2>1. job' = [job EXCEPT ![w] = r] /\ chain' = chain /\ chain = None
    BY <1>1, <1>13 DEF ReadLegacy, At, Alone
  <2>2. r.at = "activate"
    BY <1>1 DEF Job
  <2> HIDE DEF r
  <2> QED
    BY <1>2, <2>1, <2>2 DEF AloneNext
<1>14. ASSUME Migrated(w) PROVE Alone'
  <2> DEFINE r == [job[w] EXCEPT !.at = "append", !.legacy = {}]
  <2>1. Ends(w) \/ job' = [job EXCEPT ![w] = r]
    BY <1>14 DEF Migrated
  <2>2. r.at = "append"
    BY <1>1 DEF Job
  <2> HIDE DEF r
  <2> QED
    BY <1>2, <1>3, <2>1, <2>2 DEF AloneNext
<1>15. ASSUME Activate(w) \/ SetVersion(w) \/ AppendEvent(w) PROVE Alone'
  BY <1>3, <1>4, <1>14, <1>15 DEF Activate, SetVersion, AppendEvent
<1> QED
  BY <1>6, <1>7, <1>8, <1>9, <1>10, <1>11, <1>12, <1>13, <1>15 DEF Step

\* Nobody else changes what a lone command has read: a chain that is not active
\* is not edited.
LEMMA AloneNextStep ==
  ASSUME Typed, Alone, OneAtATime, [StoreNext]_storeVars
  PROVE  Alone'
<1>1. ASSUME NEW w \in Workers, Step(w) PROVE Alone'
  BY <1>1, AloneByStep
<1>2. ASSUME UNCHANGED <<columns, indexed, chain>>,
             NEW w \in Workers, NEW r, r = None \/ r.at = "create",
             job' = [job EXCEPT ![w] = r]
      PROVE  Alone'
  <2>1. job'[w] = r /\ \A v \in Workers : v # w => job'[v] = job[v]
    BY <1>2 DEF Typed, StoreTypeOK
  <2> QED
    BY <1>2, <2>1 DEF Alone
<1>3. ASSUME NEW w \in Workers, NEW e \in Events \cup {None}, Start(w, e) PROVE Alone'
  <2> DEFINE r == [ at |-> "create", event |-> e, old |-> version < Current, column |-> 1,
                    seen |-> {}, legacy |-> {} ]
  <2>1. job' = [job EXCEPT ![w] = r] /\ r.at = "create" /\ UNCHANGED <<columns, indexed, chain>>
    BY <1>3 DEF Start, schema
  <2> HIDE DEF r
  <2> QED
    BY <1>2, <2>1
<1>4. ASSUME NEW w \in Workers, Fail(w) PROVE Alone'
  BY <1>2, <1>4 DEF Fail, Ends, schema
<1>5. ASSUME NEW e \in Events, Edit(e) PROVE Alone'
  BY <1>5 DEF Edit, Alone, schema
<1>6. CASE UNCHANGED storeVars
  BY <1>6 DEF storeVars, Alone
<1> QED
  BY <1>1, <1>3, <1>4, <1>5, <1>6 DEF StoreNext

\* A lone command finds nothing that a statement of its would fail on.
LEMMA LoneStepsPass ==
  ASSUME NEW w \in Workers, Store, Indexable, Alone, edits = 0, Step(w)
  PROVE  ~Refused(w)
<1>1. Typed /\ Migrating /\ Chained /\ job[w] # None /\ job[w] \in Job
  BY JobStep DEF Store, Typed, StoreTypeOK
<1>2. ASSUME CreateTables(w), ~indexed' PROVE FALSE
  <2>1. /\ columns' = columns \cup {c \in Columns : Added[c] \notin tables}
        /\ indexed' = (indexed \/ GrantColumns \subseteq columns')
    BY <1>2 DEF CreateTables
  <2> QED
    BY <1>2, <2>1 DEF Indexable, GrantColumns
<1>3. ASSUME AddColumn(w), job[w].column \in columns \ job[w].seen PROVE FALSE
  <2>1. job[w].column >= job[w].column
    BY <1>1, ColumnsNumbered DEF Job
  <2> QED
    BY <1>1, <1>3, <2>1 DEF AddColumn, At, Alone
<1>4. ASSUME CreateIndex(w), indexed PROVE FALSE
  BY <1>1, <1>4 DEF CreateIndex, At, Alone
<1>5. ASSUME CountEntries(w), entries # {} PROVE FALSE
  <2>1. chain = None
    BY <1>1, <1>5 DEF CountEntries, At, Alone
  <2> QED
    BY <1>1, <1>5, <2>1 DEF Chained, Unactivated
<1>6. ASSUME Activate(w), chain # None PROVE FALSE
  BY <1>1, <1>6 DEF Activate, At, Alone
<1>7. ASSUME Checkpoint(w) \/ AppendEvent(w) PROVE CheckpointHolds /\ MayAppend
  <2>1. chain # None
    BY <1>1, <1>7 DEF Checkpoint, AppendEvent, At, Migrating, Advanced, Reached
  <2> QED
    BY <1>1, <2>1, UneditedAdmits
<1> QED
  BY <1>2, <1>3, <1>4, <1>5, <1>6, <1>7 DEF Refused

\* So it ends with all it had to do done.
LEMMA LoneCommandEnds ==
  ASSUME Store, Store', Indexable, Alone, [Next]_vars
  PROVE  EndsDone
<1> SUFFICES ASSUME edits = 0, NEW w \in Workers, Went(w)
             PROVE  Complete' /\ (job[w].event # None => Appended(w))
  BY DEF EndsDone
<1>1. Step(w) /\ job'[w] = None
  BY WentByStep, NextOfStore DEF Store, Went
<1>2. ~Refused(w)
  BY <1>1, LoneStepsPass
<1>3. /\ job[w].event = None \/ AppendEvent(w)
      /\ AppendEvent(w) => version' = version /\ \E x \in entries' : x.event = job[w].event
      /\ ~AppendEvent(w) => version' = Current
  BY <1>1, <1>2, RefusedOrDone DEF Store
<1>4. AppendEvent(w) => version = Current
  BY DEF AppendEvent, At, Store, Migrating, Advanced, Reached
<1>5. version' = Current
  BY <1>3, <1>4
<1>6. Complete'
  BY <1>5 DEF Store, Migrating, VersionMeans, Current
<1> QED
  BY <1>3, <1>6 DEF Appended

\* From any state without a command, whatever earlier ones left half-way, as long
\* as commands come one at a time and nobody edits the database, none is refused:
\* one that ends without failing leaves a complete database and its event in the
\* chain (_migrate_schema, insert_transition_event).
THEOREM LoneCommandsComplete ==
  Spec => [](Idle /\ []OneAtATime => [][EndsDone]_vars)
<1>1. AuditInit => Store /\ Indexable
  BY TypedInit, MigratingInit, ChainedInit, IndexableInit DEF AuditInit, Store
<1>2. Store /\ Indexable /\ [Next]_vars => Store' /\ Indexable'
  BY MigratingNext, ChainedNext, NextOfStore, IndexableNext DEF Store
<1>3. Idle => Alone
  BY DEF Idle, Alone
<1>4. Store /\ Alone /\ OneAtATime /\ [Next]_vars => Alone'
  BY AloneNextStep, NextOfStore DEF Store
<1>5. Store /\ Indexable /\ Alone /\ [Next]_vars => [EndsDone]_vars
  BY <1>2, LoneCommandEnds
<1>6. Spec => [](Store /\ Indexable)
  BY <1>1, <1>2, PTL DEF Spec
<1> QED
  BY <1>3, <1>4, <1>5, <1>6, PTL DEF Spec

=============================================================================
