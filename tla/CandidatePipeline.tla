------------------------- MODULE CandidatePipeline -------------------------
(***************************************************************************)
(* The commands that turn a signal into a packet awaiting approval:        *)
(* ingest, normalize, deduplicate, qualify and generate.                   *)
(*                                                                         *)
(* A worker is a process that runs one command at a time, and a command is *)
(* a series of separate transactions and file writes: each of them is an   *)
(* action, and other commands, exceptions and crashes fall in between.     *)
(* Only the update of a state is conditional on the state read before it.  *)
(* An exception (a lock that times out, a migration or a projection that   *)
(* fails, a file that exists) runs the handlers of the command; a crash    *)
(* does not.                                                               *)
(*                                                                         *)
(* Abstractions.  Every ingest mints a new candidate identifier, so that a *)
(* retried ingest is another candidate of the same signal.  What a         *)
(* candidate is compared by is fixed by its signal: the identity of the    *)
(* source, its development identifiers and its normalized link, of which   *)
(* the last is in the row only after normalize.  A command that is refused *)
(* at its first check changes nothing here; the canonical event of a       *)
(* refused or accepted transition is the subject of Authority and          *)
(* ReceiptProjection.                                                      *)
(***************************************************************************)
EXTENDS Workflow, Naturals

CONSTANTS
  None,
  Candidates,      \* candidate identifiers ingest may mint
  Signals,         \* what is ingested: a link, with or without a file
  Source,          \* source identity of each: hash of its file or of its link
  Identifiers,     \* development identifiers found in its link
  Link,            \* its normalized link
  Filed,           \* the signals with a source file
  Submissions,     \* which signal each ingest may be given
  Packets,         \* packet identifiers generate may mint
  Workers,         \* processes running a command
  MaxFaults        \* bound on exceptions and on processes that die

ASSUME PipelineConstantsAssumption ==
  /\ Submissions \subseteq [Candidates -> Signals]
  /\ MaxFaults \in Nat

VARIABLES
  signal,      \* the signal behind each candidate
  row,         \* candidate rows: state, and whether normalize has written to it
  evidence,    \* candidates with an evidence row
  files,       \* files written exclusively, <<kind, candidate>>
  packet,      \* packet rows
  directory,   \* packet directories
  job,         \* what each worker is doing
  failures, crashes

vars == <<signal, row, evidence, files, packet, directory, job, failures, crashes>>

Command  == {"ingest", "normalize", "deduplicate", "qualify", "generate"}
FileKind == {"copy", "candidate", "evidence", "normalized"}

\* Where a command stands: the next thing it does.
Phase == {"copy", "insert", "evidence", "candidateFile", "evidenceFile",
          "normalFile", "normalRow", "compare", "classify", "materialize",
          "read", "commit", "submitRead", "submit"}

CandidateRow == [state : WorkflowState, normalized : BOOLEAN]
PacketRow    == [candidate : Candidates, state : WorkflowState]
Job ==
  [ command : Command, candidate : Candidates, at : Phase,
    requested : WorkflowState \cup {None}, read : WorkflowState \cup {None},
    normalized : BOOLEAN, decision : BOOLEAN, packet : Packets \cup {None} ]

ASSUME PipelineNoneAssumption ==
  /\ None \notin Candidates \cup Packets \cup WorkflowState
  /\ None \notin CandidateRow /\ None \notin PacketRow /\ None \notin Job

Init ==
  /\ signal \in Submissions
  /\ row = [c \in Candidates |-> None]
  /\ evidence = {}
  /\ files = {}
  /\ packet = [k \in Packets |-> None]
  /\ directory = [k \in Packets |-> "none"]
  /\ job = [w \in Workers |-> None]
  /\ failures = 0
  /\ crashes = 0

-----------------------------------------------------------------------------
\* Steps every command is made of.

InState(c, states) == row[c] # None /\ row[c].state \in states

\* The states of a candidate that deduplicate found to be unique.
Passed == {"DUPLICATE_CHECKED", "QUALIFIED", "PACKET_GENERATED", "AWAITING_APPROVAL"}

At(w, phase) == job[w] # None /\ job[w].at = phase

Run(w, command, c, phase) ==
  [ command |-> command, candidate |-> c, at |-> phase, requested |-> None,
    read |-> None, normalized |-> FALSE, decision |-> FALSE, packet |-> None ]

Starts(w, command, c, phase) ==
  /\ job[w] = None
  /\ job' = [job EXCEPT ![w] = Run(w, command, c, phase)]

GoesTo(w, phase) == job' = [job EXCEPT ![w].at = phase]

\* The command hands its candidate to transition_candidate.
Asks(w, requested) ==
  job' = [job EXCEPT ![w].at = "read", ![w].requested = requested,
                     ![w].normalized = FALSE]

Ends(w) == job' = [job EXCEPT ![w] = None]

\* mutant: only the temporary directory is removed
CleanedUpTemporary(w) ==
  IF At(w, "materialize") THEN [directory EXCEPT ![job[w].packet] = "none"]
  ELSE directory

\* mutant: the directory is removed although its row was committed
CleanedUpAlways(w) ==
  IF job[w].packet # None THEN [directory EXCEPT ![job[w].packet] = "none"]
  ELSE directory

\* What the handlers of generate leave of its directory.
CleanedUp(w) ==
  LET k == job[w].packet IN
  IF k # None /\ packet[k] = None
    THEN [directory EXCEPT ![k] = "none"]
    ELSE directory

\* The command raises: the handlers run and the process ends.
Raises(w) ==
  /\ Ends(w)
  /\ directory' = CleanedUp(w)
  /\ UNCHANGED <<signal, row, evidence, files, packet, failures, crashes>>

-----------------------------------------------------------------------------
\* ingest: the copy of the source file, two rows and two files, in that order.

Fresh(c) ==
  /\ row[c] = None
  /\ <<"copy", c>> \notin files
  /\ \A w \in Workers : job[w] # None => job[w].candidate # c

StartIngest(w, c) ==
  /\ Fresh(c)
  /\ Starts(w, "ingest", c, IF signal[c] \in Filed THEN "copy" ELSE "insert")
  /\ UNCHANGED <<signal, row, evidence, files, packet, directory, failures, crashes>>

\* mutant: a file that cannot be written is passed over
WritesSkipped(w, kind, phase) ==
  /\ GoesTo(w, phase)
  /\ UNCHANGED <<signal, row, evidence, files, packet, directory, failures, crashes>>

\* A file is created exclusively; one that exists ends the command.
Writes(w, kind, phase) ==
  LET file == <<kind, job[w].candidate>> IN
  IF file \in files
    THEN Raises(w)
    ELSE /\ files' = files \cup {file}
         /\ GoesTo(w, phase)
         /\ UNCHANGED <<signal, row, evidence, packet, directory, failures, crashes>>

CopySource(w) == At(w, "copy") /\ Writes(w, "copy", "insert")

InsertCandidate(w) ==
  /\ At(w, "insert")
  /\ row' = [row EXCEPT ![job[w].candidate] =
               [state |-> "DISCOVERED", normalized |-> FALSE]]
  /\ GoesTo(w, "evidence")
  /\ UNCHANGED <<signal, evidence, files, packet, directory, failures, crashes>>

InsertEvidence(w) ==
  /\ At(w, "evidence")
  /\ evidence' = evidence \cup {job[w].candidate}
  /\ GoesTo(w, "candidateFile")
  /\ UNCHANGED <<signal, row, files, packet, directory, failures, crashes>>

WriteCandidateFile(w) ==
  At(w, "candidateFile") /\ Writes(w, "candidate", "evidenceFile")

WriteEvidenceFile(w) ==
  LET file == <<"evidence", job[w].candidate>> IN
  /\ At(w, "evidenceFile")
  /\ files' = files \cup {file}
  /\ Asks(w, "EVIDENCE_PRESERVED")
  /\ UNCHANGED <<signal, row, evidence, packet, directory, failures, crashes>>

-----------------------------------------------------------------------------
\* normalize: its file, then the row, then the state.

StartNormalize(w, c) ==
  /\ row[c] # None
  /\ ValidTransition(row[c].state, "NORMALIZED")
  /\ Starts(w, "normalize", c, "normalFile")
  /\ UNCHANGED <<signal, row, evidence, files, packet, directory, failures, crashes>>

WriteNormalFile(w) == At(w, "normalFile") /\ Writes(w, "normalized", "normalRow")

UpdateNormalized(w) ==
  /\ At(w, "normalRow")
  /\ row' = [row EXCEPT ![job[w].candidate].normalized = TRUE]
  /\ Asks(w, "NORMALIZED")
  /\ UNCHANGED <<signal, evidence, files, packet, directory, failures, crashes>>

-----------------------------------------------------------------------------
\* deduplicate: its own row, then every other row, whatever their states.

\* Any later state can only be refused, whatever happens before the transition.
StartDeduplicate(w, c) ==
  /\ InState(c, {"DISCOVERED", "EVIDENCE_PRESERVED", "NORMALIZED", "DUPLICATE_CHECKED"})
  /\ job[w] = None
  /\ job' = [job EXCEPT ![w] = [Run(w, "deduplicate", c, "compare")
                                  EXCEPT !.normalized = row[c].normalized]]
  /\ UNCHANGED <<signal, row, evidence, files, packet, directory, failures, crashes>>

\* Alike by what is in the row from its insertion on.
Alike(c, d) ==
  \/ Source[signal[c]] = Source[signal[d]]
  \/ Identifiers[signal[c]] \cap Identifiers[signal[d]] # {}

\* mutant: two rows without a normalized link match
MatchesUnset(c, normalized, d) ==
  \/ Alike(c, d)
  \/ normalized = row[d].normalized /\ (normalized => Link[signal[c]] = Link[signal[d]])

\* c, whose own row was read as normalized or not, matches the row of d.
Matches(c, normalized, d) ==
  \/ Alike(c, d)
  \/ normalized /\ row[d].normalized /\ Link[signal[c]] = Link[signal[d]]

\* mutant: compared with the candidates that were found unique only
OthersUnique(c) == {d \in Candidates \ {c} : InState(d, Passed)}

Others(c) == {d \in Candidates \ {c} : row[d] # None}

Compare(w) ==
  LET c == job[w].candidate IN
  /\ At(w, "compare")
  /\ Asks(w, IF \E d \in Others(c) : Matches(c, job[w].normalized, d)
               THEN "SUPPRESSED" ELSE "DUPLICATE_CHECKED")
  /\ UNCHANGED <<signal, row, evidence, files, packet, directory, failures, crashes>>

-----------------------------------------------------------------------------
\* qualify: the classification is stored, whatever it proposes, and read by no
\* command; only a positive one asks for the state.

StartQualify(w, c, decision) ==
  /\ InState(c, {"DUPLICATE_CHECKED"})
  /\ job[w] = None
  /\ job' = [job EXCEPT ![w] = [Run(w, "qualify", c, "classify")
                                  EXCEPT !.decision = decision]]
  /\ UNCHANGED <<signal, row, evidence, files, packet, directory, failures, crashes>>

\* mutant: the classification is stored and no state is asked for
StoreClassificationOnly(w) ==
  /\ At(w, "classify")
  /\ Ends(w)
  /\ UNCHANGED <<signal, row, evidence, files, packet, directory, failures, crashes>>

StoreClassification(w) ==
  /\ At(w, "classify")
  /\ IF job[w].decision THEN Asks(w, "QUALIFIED") ELSE Ends(w)
  /\ UNCHANGED <<signal, row, evidence, files, packet, directory, failures, crashes>>

-----------------------------------------------------------------------------
\* generate: a temporary directory, its final name, the packet row together
\* with the candidate's state, and then the packet and the candidate once more.

Unused(k) ==
  /\ directory[k] = "none"
  /\ packet[k] = None
  /\ \A w \in Workers : job[w] # None => job[w].packet # k

\* Identifiers are minted at random: any unused one will do.
NextPacket == CHOOSE k \in Packets : Unused(k)

StartGenerate(w, c) ==
  /\ row[c] # None
  /\ ValidTransition(row[c].state, "PACKET_GENERATED")
  /\ \E k \in Packets : Unused(k)
  /\ job[w] = None
  /\ job' = [job EXCEPT ![w] = [Run(w, "generate", c, "materialize")
                                  EXCEPT !.packet = NextPacket]]
  /\ directory' = [directory EXCEPT ![NextPacket] = "temporary"]
  /\ UNCHANGED <<signal, row, evidence, files, packet, failures, crashes>>

Materialize(w) ==
  /\ At(w, "materialize")
  /\ directory' = [directory EXCEPT ![job[w].packet] = "final"]
  /\ Asks(w, "PACKET_GENERATED")
  /\ UNCHANGED <<signal, row, evidence, files, packet, failures, crashes>>

-----------------------------------------------------------------------------
\* transition_candidate, as every command ends with it.

ReadState(w) ==
  LET prior == row[job[w].candidate].state IN
  /\ At(w, "read")
  /\ IF ValidTransition(prior, job[w].requested)
       THEN /\ job' = [job EXCEPT ![w].read = prior, ![w].at = "commit"]
            /\ UNCHANGED <<signal, row, evidence, files, packet, directory, failures, crashes>>
       ELSE Raises(w)

StateHeldAnyway(c, prior) == TRUE                \* mutant: an unconditional update
\* The candidate is still in the state it was read in.
StateHeld(c, prior) == row[c].state = prior

\* mutant: the two identifiers are swapped
WithPacketSwapped(w) ==
  IF job[w].packet = None THEN packet
  ELSE [packet EXCEPT ![job[w].packet] =
          [candidate |-> job[w].packet, state |-> "PACKET_GENERATED"]]

\* The row generate inserts in the transaction of its transition.
WithPacket(w) ==
  IF job[w].packet = None THEN packet
  ELSE [packet EXCEPT ![job[w].packet] =
          [candidate |-> job[w].candidate, state |-> "PACKET_GENERATED"]]

Commit(w) ==
  LET c == job[w].candidate IN
  /\ At(w, "commit")
  /\ IF StateHeld(c, job[w].read)
       THEN /\ row' = [row EXCEPT ![c].state = job[w].requested]
            /\ packet' = WithPacket(w)
            /\ IF job[w].packet = None THEN Ends(w) ELSE GoesTo(w, "submitRead")
            /\ UNCHANGED <<signal, evidence, files, directory, failures, crashes>>
       ELSE Raises(w)

\* transition_packet to AWAITING_APPROVAL, the second half of generate.
SubmitRead(w) ==
  LET prior == packet[job[w].packet].state IN
  /\ At(w, "submitRead")
  /\ IF ValidTransition(prior, "AWAITING_APPROVAL")
       THEN /\ job' = [job EXCEPT ![w].read = prior, ![w].at = "submit"]
            /\ UNCHANGED <<signal, row, evidence, files, packet, directory, failures, crashes>>
       ELSE Raises(w)

Submit(w) ==
  LET k == job[w].packet
      c == packet[k].candidate IN
  /\ At(w, "submit")
  /\ IF packet[k].state = job[w].read /\ row[c].state = job[w].read
       THEN /\ packet' = [packet EXCEPT ![k].state = "AWAITING_APPROVAL"]
            /\ row' = [row EXCEPT ![c].state = "AWAITING_APPROVAL"]
            /\ Ends(w)
            /\ UNCHANGED <<signal, evidence, files, directory, failures, crashes>>
       ELSE Raises(w)

-----------------------------------------------------------------------------
\* Exceptions and crashes, anywhere in a command.

Fail(w) ==
  /\ failures + crashes < MaxFaults
  /\ job[w] # None
  /\ failures' = failures + 1
  /\ Ends(w)
  /\ directory' = CleanedUp(w)
  /\ UNCHANGED <<signal, row, evidence, files, packet, crashes>>

Crash(w) ==
  /\ failures + crashes < MaxFaults
  /\ job[w] # None
  /\ crashes' = crashes + 1
  /\ Ends(w)
  /\ UNCHANGED <<signal, row, evidence, files, packet, directory, failures>>

-----------------------------------------------------------------------------
\* One step of the command a worker runs.
Step(w) ==
  \/ CopySource(w) \/ InsertCandidate(w) \/ InsertEvidence(w)
  \/ WriteCandidateFile(w) \/ WriteEvidenceFile(w)
  \/ WriteNormalFile(w) \/ UpdateNormalized(w)
  \/ Compare(w) \/ StoreClassification(w) \/ Materialize(w)
  \/ ReadState(w) \/ Commit(w) \/ SubmitRead(w) \/ Submit(w)

Start(w) ==
  \E c \in Candidates :
    \/ StartIngest(w, c)
    \/ StartNormalize(w, c)
    \/ StartDeduplicate(w, c)
    \/ \E decision \in BOOLEAN : StartQualify(w, c, decision)
    \/ StartGenerate(w, c)

Next == \E w \in Workers : Start(w) \/ Step(w) \/ Fail(w) \/ Crash(w)

Spec == Init /\ [][Next]_vars

\* A running command goes on, and whoever operates the pipeline asks again for
\* the next command of a candidate that waits for it.
Proceeds(c) ==
  \E w \in Workers :
    \/ StartNormalize(w, c)
    \/ InState(c, {"NORMALIZED"}) /\ StartDeduplicate(w, c)
    \/ StartQualify(w, c, TRUE)
    \/ StartGenerate(w, c)

LiveSpec ==
  /\ Spec
  /\ \A w \in Workers : WF_vars(Step(w))
  /\ \A c \in Candidates : SF_vars(Proceeds(c))

-----------------------------------------------------------------------------
\* Properties.

\* The rows seen as the lifecycle of each candidate.
Lifecycle ==
  INSTANCE CandidateLifecycle WITH
    status    <- [c \in Candidates |-> IF row[c] = None THEN None ELSE row[c].state],
    packetsOf <- [c \in Candidates |->
                    {k \in Packets : packet[k] # None /\ packet[k].candidate = c}]

\* The pipeline implements the lifecycle: whatever two commands read before,
\* a candidate moves along the map one state at a time and gets one packet.
ImplementsLifecycle == Lifecycle!Spec

\* Every variable has its type.
PipelineTypeOK ==
  /\ signal \in Submissions
  /\ row \in [Candidates -> CandidateRow \cup {None}]
  /\ evidence \subseteq Candidates
  /\ files \subseteq FileKind \X Candidates
  /\ packet \in [Packets -> PacketRow \cup {None}]
  /\ directory \in [Packets -> {"none", "temporary", "final"}]
  /\ job \in [Workers -> Job \cup {None}]
  /\ failures \in Nat
  /\ crashes \in Nat

\* Of two candidates with the same source or a common development identifier
\* at most one is ever found unique, however their ingestions and duplicate
\* checks interleave, crash and are repeated: each check reads the other rows
\* after its own candidate is in the table.
AlikeNeverBothPass ==
  \A c, d \in Candidates :
    c # d /\ InState(c, Passed) /\ InState(d, Passed) => ~Alike(c, d)

\* A candidate is suppressed only for the sake of another one that matches it:
\* no candidate is lost to a duplicate that never was.
SuppressedHasMatch ==
  \A c \in Candidates :
    InState(c, {"SUPPRESSED"}) =>
      \E d \in Candidates \ {c} :
        /\ row[d] # None
        /\ \/ Alike(c, d)
           \/ row[d].normalized /\ Link[signal[c]] = Link[signal[d]]

\* A candidate past DISCOVERED has its evidence complete: the row, both JSON
\* files and, if it came with a file, the preserved copy, whatever died when.
PreservedIsComplete ==
  \A c \in Candidates :
    row[c] # None /\ row[c].state # "DISCOVERED" =>
      /\ c \in evidence
      /\ {<<"candidate", c>>, <<"evidence", c>>} \subseteq files
      /\ signal[c] \in Filed => <<"copy", c>> \in files

\* Every packet row has its directory and mirrors the state of its candidate,
\* and every candidate from PACKET_GENERATED on has such a row.
PacketsMirrorCandidates ==
  /\ \A k \in Packets :
       packet[k] # None => /\ directory[k] = "final"
                           /\ InState(packet[k].candidate, {packet[k].state})
  /\ \A c \in Candidates :
       InState(c, {"PACKET_GENERATED", "AWAITING_APPROVAL"}) =>
         \E k \in Packets : packet[k] # None /\ packet[k].candidate = c

\* As long as no process died, every packet directory belongs to a packet row
\* or to a generate that is still running: exceptions leave none behind.
NoDirectoryLeft ==
  crashes = 0 =>
    \A k \in Packets :
      directory[k] # "none" =>
        packet[k] # None \/ \E w \in Workers : job[w] # None /\ job[w].packet = k

-----------------------------------------------------------------------------
\* What a command that ended early leaves behind for good: an ingest that did
\* not reach its transition, a normalize that wrote its file and not the state
\* (the file cannot be created again), a generate between its transitions.
RunningOn(c, command) ==
  \E w \in Workers :
    /\ job[w] # None
    /\ job[w].candidate = c
    /\ job[w].command = command
    /\ job[w].at # "normalFile"

Abandoned(c) ==
  \/ InState(c, {"DISCOVERED"}) /\ ~RunningOn(c, "ingest")
  \/ /\ InState(c, {"EVIDENCE_PRESERVED"}) /\ ~RunningOn(c, "normalize")
     /\ <<"normalized", c>> \in files
  \/ InState(c, {"PACKET_GENERATED"}) /\ ~RunningOn(c, "generate")

Finished(c) == InState(c, {"SUPPRESSED", "AWAITING_APPROVAL"})

\* Every candidate in the table ends up suppressed or awaiting approval, or in
\* one of the three places from which no command moves it: a crash or an
\* exception anywhere else is made good by asking again.
FinishedOrAbandoned ==
  \A c \in Candidates : row[c] # None ~> Finished(c) \/ Abandoned(c)
=============================================================================
