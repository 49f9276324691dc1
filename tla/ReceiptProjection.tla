------------------------- MODULE ReceiptProjection -------------------------
(***************************************************************************)
(* The outward projection of the event chain.  A command commits its event *)
(* in SQLite, then searches the JSONL receipt log for it, appends the      *)
(* receipt and marks the event projected, each step on its own; reconcile  *)
(* does the same for every event that was pending when it looked.  Nothing *)
(* locks the log: commands and reconciliations interleave at every step.   *)
(*                                                                         *)
(* Events are numbered in chain order, and a receipt is the number of its  *)
(* event: the payload was committed with the event and is copied as it is. *)
(* A receipt is written by one append to the file, which succeeds, or      *)
(* fails and leaves a part of the line behind.                             *)
(***************************************************************************)
EXTENDS Integers, Sequences, FiniteSets

CONSTANTS
  Workers,       \* processes that run commands and reconciliations
  MaxEvents,     \* bound on the committed events
  Decisions,     \* events of accepted decisions, which also get a JSON file
  Damage,        \* what a failed append may leave: "prefix", "unterminated"
  Edits,         \* whether somebody may edit a line of the log
  MaxFailures    \* bound on failures, crashes and edits

ASSUME ProjectionAssumption ==
  /\ IsFiniteSet(Workers)
  /\ MaxEvents \in Nat /\ MaxFailures \in Nat
  /\ Decisions \subseteq 1..MaxEvents
  /\ Damage \subseteq {"prefix", "unterminated"}
  /\ Edits \in BOOLEAN

VARIABLES
  committed,     \* number of events in the chain
  marked,        \* events whose receipt_projected_at_utc is set
  lines,         \* the receipt log
  terminated,    \* the log ends with a newline
  files,         \* decisions whose approval file exists
  job,           \* what each process has in hand
  failures       \* what has gone wrong so far

vars == <<committed, marked, lines, terminated, files, job, failures>>

Event == 1..MaxEvents
Body  == {"whole", "altered", "torn"}
Line  == [event : Event, body : Body]
Phase == {"idle", "search", "append", "mark", "file"}
Job   == [phase : Phase, todo : SUBSET Event, command : BOOLEAN]
Idle  == [phase |-> "idle", todo |-> {}, command |-> FALSE]

Init ==
  /\ committed = 0 /\ marked = {} /\ files = {} /\ failures = 0
  /\ lines = <<>> /\ terminated = TRUE
  /\ job = [w \in Workers |-> Idle]

-----------------------------------------------------------------------------
\* The search reads the log from the top: the first line that names the event
\* answers it, and the first line that does not parse ends it with an error.
Names(i, e) == lines[i].event = e /\ lines[i].body # "torn"
Torn        == {i \in DOMAIN lines : lines[i].body = "torn"}

FoundNever(e) == FALSE                           \* mutant: append without looking
Found(e)   == \E i \in DOMAIN lines : Names(i, e) /\ \A t \in Torn : i < t
Missing(e) == ~ Found(e) /\ Torn = {}
Altered(e) ==
  \E i \in DOMAIN lines : /\ Names(i, e) /\ lines[i].body = "altered"
                          /\ \A k \in DOMAIN lines : k < i => ~ Names(k, e)

\* mutant: only what came after the last projected event is pending
PendingCursor == {e \in 1..committed : \A m \in marked : e > m}
Pending == {e \in 1..committed : e \notin marked}

\* Events are projected in the order of the chain.
Current(w) == CHOOSE e \in job[w].todo : \A f \in job[w].todo : e <= f
Turn(w, phase) == job' = [job EXCEPT ![w].phase = phase]
Stop(w)        == job' = [job EXCEPT ![w] = Idle]

-----------------------------------------------------------------------------
\* A command commits its event, pending, and goes on to project it.
Commit(w) ==
  /\ job[w] = Idle /\ committed < MaxEvents
  /\ committed' = committed + 1
  /\ job' = [job EXCEPT ![w] = [phase |-> "search", todo |-> {committed + 1},
                                command |-> TRUE]]
  /\ UNCHANGED <<marked, lines, terminated, files, failures>>

Reconcile(w) ==
  /\ job[w] = Idle /\ Pending # {}
  /\ job' = [job EXCEPT ![w] = [phase |-> "search", todo |-> Pending,
                                command |-> FALSE]]
  /\ UNCHANGED <<committed, marked, lines, terminated, files, failures>>

AfterMissingMarks == "mark"                      \* mutant: mark before the append
AfterMissing == "append"

\* A receipt with another content, or a line that does not parse before the
\* event is found, ends the whole call with ReceiptProjectionError.
Search(w) ==
  LET e == Current(w)
  IN  /\ job[w].phase = "search"
      /\ \/ Missing(e) /\ Turn(w, AfterMissing)
         \/ Found(e) /\ ~ Altered(e) /\ Turn(w, "mark")
         \/ Found(e) /\ Altered(e) /\ Stop(w)
         \/ ~ Found(e) /\ ~ Missing(e) /\ Stop(w)
      /\ UNCHANGED <<committed, marked, lines, terminated, files, failures>>

\* What an append of this body makes of the log: behind a line that was left
\* without its newline the two become one line, which does not parse.
Extended(e, body) ==
  IF terminated THEN Append(lines, [event |-> e, body |-> body])
  ELSE [lines EXCEPT ![Len(lines)].body = "torn"]

AppendReceipt(w) ==
  /\ job[w].phase = "append"
  /\ lines' = Extended(Current(w), "whole") /\ terminated' = TRUE
  /\ Turn(w, "mark")
  /\ UNCHANGED <<committed, marked, files, failures>>

\* The write fails, or the process dies in it, after a part of the line: some
\* of it, or all but the newline.
AppendFails(w) ==
  /\ job[w].phase = "append" /\ failures < MaxFailures
  /\ \/ "prefix" \in Damage /\ lines' = Extended(Current(w), "torn")
     \/ "unterminated" \in Damage /\ lines' = Extended(Current(w), "whole")
  /\ terminated' = FALSE /\ failures' = failures + 1
  /\ Stop(w)
  /\ UNCHANGED <<committed, marked, files>>

\* mutant: every command writes a file
WritesFileAlways(w) == job[w].command
WritesFile(w) == job[w].command /\ Current(w) \in Decisions

\* The update is conditional on the mark being NULL; a second mark is no error.
Mark(w) ==
  LET e == Current(w)
      rest == job[w].todo \ {e}
  IN  /\ job[w].phase = "mark"
      /\ marked' = marked \cup {e}
      /\ IF WritesFile(w) THEN Turn(w, "file")
         ELSE IF rest = {} THEN Stop(w)
         ELSE job' = [job EXCEPT ![w].phase = "search", ![w].todo = rest]
      /\ UNCHANGED <<committed, lines, terminated, files, failures>>

\* Only the command that decided writes the approval file, and only once.
WriteFile(w) ==
  /\ job[w].phase = "file"
  /\ files' = files \cup {Current(w)}
  /\ Stop(w)
  /\ UNCHANGED <<committed, marked, lines, terminated, failures>>

\* Any step may raise, or its process die, without having written anything.
Fail(w) ==
  /\ job[w] # Idle /\ failures < MaxFailures
  /\ failures' = failures + 1
  /\ Stop(w)
  /\ UNCHANGED <<committed, marked, lines, terminated, files>>

EditLine(i) ==
  /\ Edits /\ failures < MaxFailures
  /\ lines[i].body = "whole"
  /\ lines' = [lines EXCEPT ![i].body = "altered"]
  /\ failures' = failures + 1
  /\ UNCHANGED <<committed, marked, terminated, files, job>>

Project(w) == Search(w) \/ AppendReceipt(w) \/ Mark(w) \/ WriteFile(w)

Next ==
  \/ \E w \in Workers : \/ Commit(w) \/ Reconcile(w) \/ Project(w)
                        \/ AppendFails(w) \/ Fail(w)
  \/ \E i \in DOMAIN lines : EditLine(i)

Spec == Init /\ [][Next]_vars

(***************************************************************************)
(* Fairness: a process that is not killed runs on, and the operator, whom  *)
(* the documentation tells to run reconcile-receipts after an interrupted  *)
(* projection, does so again while something is pending.                   *)
(***************************************************************************)
FairSpec ==
  /\ Spec
  /\ \A w \in Workers : WF_vars(Project(w))
  /\ WF_vars(\E w \in Workers : Reconcile(w))

-----------------------------------------------------------------------------
ProjectionTypeOK ==
  /\ committed \in 0..MaxEvents
  /\ marked \subseteq Event /\ files \subseteq Decisions
  /\ lines \in Seq(Line) /\ terminated \in BOOLEAN
  /\ job \in [Workers -> Job]
  /\ failures \in 0..MaxFailures

Damaged == ~ terminated \/ \E i \in DOMAIN lines : lines[i].body # "whole"

Copies(e) == {i \in DOMAIN lines : Names(i, e)}

(***************************************************************************)
(* The projection never runs ahead of the chain: an approval file follows  *)
(* its mark, a mark follows its line, a line follows its commit, so the    *)
(* audit finds no orphan receipt, and no marked event without a receipt    *)
(* unless a failed append or an edit damaged the log                       *)
(* (project_transition_event; orphan_native_receipt and                    *)
(* missing_projected_receipt in verify_integrity).                         *)
(***************************************************************************)
ProjectionFollowsCommit ==
  /\ files \subseteq marked
  /\ \A e \in marked : Copies(e) # {} \/ Damaged
  /\ \A i \in DOMAIN lines : lines[i].event <= committed

(***************************************************************************)
(* Retries do not multiply receipts: however often an append or a mark     *)
(* fails and is reconciled, an event has at most one line per process,     *)
(* because only a process that searched before the first append can add    *)
(* another.                                                                *)
(***************************************************************************)
CopiesBounded == \A e \in Event : Cardinality(Copies(e)) <= Cardinality(Workers)

(***************************************************************************)
(* Every committed event is marked in the end, whatever crashed, unless    *)
(* the log itself was damaged.                                             *)
(***************************************************************************)
ProjectedUnlessDamaged ==
  \A e \in Event : e <= committed ~> (e \in marked \/ Damaged)

(***************************************************************************)
(* What the documentation promises of reconciliation: it recovers an       *)
(* interrupted append (docs/local-first-operation.md:136), so that no      *)
(* event stays pending for ever.                                           *)
(***************************************************************************)
AppendIsRecovered == \A e \in Event : e <= committed ~> e \in marked
=============================================================================
