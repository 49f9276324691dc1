------------------------ MODULE CandidateSafetyProofs ------------------------
(***************************************************************************)
(* The safety of the candidate pipeline, and that it implements the        *)
(* lifecycle of a candidate, for any candidates, signals, packets, workers *)
(* and number of faults.  Every invariant is inductive relative to the     *)
(* ones before it.                                                         *)
(***************************************************************************)
EXTENDS CandidatePipelineProofs

-----------------------------------------------------------------------------
(* The seven kinds of step a running command takes.                        *)

\* Nothing but the job, the evidence and the files changes; only qualify ends so.
Quiet(w) ==
  /\ UNCHANGED <<row, packet, directory, crashes>>
  /\ job'[w] = None => At(w, "classify")
  /\ job[w].at \notin {"materialize", "commit", "submit"}

Committing(w) == Commit(w) /\ StateHeld(job[w].candidate, job[w].read)

Submitting(w) ==
  /\ Submit(w)
  /\ packet[job[w].packet].state = job[w].read
  /\ row[packet[job[w].packet].candidate].state = job[w].read

\* Every step is of one of these kinds.
LEMMA StepKinds ==
  ASSUME Typed, NEW w \in Workers, Step(w)
  PROVE  \/ InsertCandidate(w) \/ UpdateNormalized(w) \/ Materialize(w)
         \/ Committing(w) \/ Submitting(w) \/ Raises(w) \/ Quiet(w)
  <1> USE DEF Typed, PipelineTypeOK
  <1> job[w] # None
    BY DEF Step, CopySource, InsertCandidate, InsertEvidence, WriteCandidateFile,
           WriteEvidenceFile, WriteNormalFile, UpdateNormalized, Compare,
           StoreClassification, Materialize, ReadState, Commit, SubmitRead, Submit, At
  <1>0. job[w] \in Job
    BY JobAfter
  <1>1. ASSUME NEW phase \in Phase, GoesTo(w, phase)
        PROVE  job'[w] # None
    <2>1. job' = [job EXCEPT ![w] = [job[w] EXCEPT !.at = phase]]
          /\ [job[w] EXCEPT !.at = phase] \in Job
      BY <1>1, JobAfter
    <2> QED BY <2>1, PipelineNoneAssumption
  <1>2. ASSUME NEW s \in WorkflowState, Asks(w, s)
        PROVE  job'[w] # None
    <2> DEFINE j == [job[w] EXCEPT !.at = "read", !.requested = s, !.normalized = FALSE]
    <2>1. job' = [job EXCEPT ![w] = j] /\ j \in Job
      BY <1>2, JobAfter
    <2> QED BY <2>1, PipelineNoneAssumption
  <1>3. ASSUME NEW kind \in FileKind, NEW phase \in Phase, Writes(w, kind, phase),
               job[w].at \notin {"materialize", "commit", "submit"}
        PROVE  Raises(w) \/ Quiet(w)
    BY <1>1, <1>3 DEF Writes, Quiet
  <1>4. CASE CopySource(w) \/ WriteCandidateFile(w) \/ WriteNormalFile(w)
    BY <1>3, <1>4 DEF CopySource, WriteCandidateFile, WriteNormalFile, FileKind, Phase, At
  <1>5. CASE InsertEvidence(w)
    BY <1>1, <1>5 DEF InsertEvidence, Phase, Quiet, At
  <1>6. CASE WriteEvidenceFile(w) \/ Compare(w)
    BY <1>2, <1>6 DEF WriteEvidenceFile, Compare, WorkflowState, Quiet, At
  <1>7. CASE StoreClassification(w)
    BY <1>2, <1>7 DEF StoreClassification, Quiet, At
  <1>8. CASE ReadState(w)
    <2> DEFINE prior == row[job[w].candidate].state
    <2>0. prior \in WorkflowState
      BY <1>8, TransitionReady DEF ReadState, At, Early, CandidateRow
    <2>1. CASE ValidTransition(prior, job[w].requested)
      <3>1. job' = [job EXCEPT ![w].read = prior, ![w].at = "commit"] /\ "commit" \in Phase
        BY <1>8, <2>1 DEF ReadState, Phase
      <3>2. job'[w] # None
        BY <2>0, <3>1, StateRead, Zenon
      <3> QED BY <1>8, <2>1, <3>2 DEF ReadState, Quiet, At
    <2> QED BY <1>8, <2>1 DEF ReadState
  <1>9. CASE SubmitRead(w)
    <2> DEFINE prior == packet[job[w].packet].state
    <2>0. prior \in WorkflowState
      BY <1>9, TransitionReady DEF SubmitRead, At, PacketRow
    <2>1. CASE ValidTransition(prior, "AWAITING_APPROVAL")
      <3>1. job' = [job EXCEPT ![w].read = prior, ![w].at = "submit"] /\ "submit" \in Phase
        BY <1>9, <2>1 DEF SubmitRead, Phase
      <3>2. job'[w] # None
        BY <2>0, <3>1, StateRead, Zenon
      <3> QED BY <1>9, <2>1, <3>2 DEF SubmitRead, Quiet, At
    <2> QED BY <1>9, <2>1 DEF SubmitRead
  <1>10. CASE Commit(w)
    BY <1>10 DEF Commit, Committing
  <1>11. CASE Submit(w)
    BY <1>11 DEF Submit, Submitting
  <1> QED BY <1>4, <1>5, <1>6, <1>7, <1>8, <1>9, <1>10, <1>11 DEF Step

\* What the transaction of a transition does to the rows.
LEMMA CommitEffect ==
  ASSUME Typed, NEW w \in Workers, Committing(w)
  PROVE  LET c == job[w].candidate
             k == job[w].packet IN
         /\ job[w] \in Job /\ job[w].at = "commit"
         /\ c \in Candidates /\ row[c] \in CandidateRow /\ row[c] # None
         /\ job[w].requested \in WorkflowState
         /\ row[c].state = job[w].read
         /\ row'[c] # None /\ row'[c].state = job[w].requested
         /\ row'[c].normalized = row[c].normalized
         /\ \A d \in Candidates \ {c} : row'[d] = row[d]
         /\ k = None => packet' = packet /\ job'[w] = None
         /\ k # None => /\ packet' = [packet EXCEPT ![k] =
                             [candidate |-> c, state |-> "PACKET_GENERATED"]]
                        /\ [candidate |-> c, state |-> "PACKET_GENERATED"] # None
                        /\ job'[w] # None /\ job'[w].at = "submitRead"
         /\ UNCHANGED <<signal, evidence, files, directory, crashes>>
  <1> DEFINE c == job[w].candidate
             k == job[w].packet
             r == [candidate |-> c, state |-> "PACKET_GENERATED"]
  <1>1. /\ job[w] # None /\ job[w] \in Job /\ job[w].at = "commit" /\ c \in Candidates
        /\ row[c] \in CandidateRow /\ job[w].requested \in WorkflowState
    BY TransitionReady DEF Committing, Commit, At, Early, Job
  <1>2. row[c] # None /\ row[c].state = job[w].read
        /\ row' = [row EXCEPT ![c].state = job[w].requested]
    BY <1>1, PipelineNoneAssumption DEF Committing, Commit, StateHeld
  <1>3. /\ row'[c] # None /\ row'[c].state = job[w].requested
        /\ row'[c].normalized = row[c].normalized
        /\ \A d \in Candidates \ {c} : row'[d] = row[d]
    BY <1>1, <1>2, StateSet
  <1>4. CASE k = None
    <2>1. packet' = packet /\ Ends(w)
      BY <1>4 DEF Committing, Commit, WithPacket
    <2>2. job'[w] = None
      BY <2>1 DEF Ends, Typed, PipelineTypeOK
    <2> QED BY <1>1, <1>2, <1>3, <1>4, <2>1, <2>2 DEF Committing, Commit
  <1>5. CASE k # None
    <2>1. packet' = [packet EXCEPT ![k] = r] /\ GoesTo(w, "submitRead")
      BY <1>5 DEF Committing, Commit, WithPacket
    <2>2. r \in PacketRow
      BY <1>1 DEF PacketRow, WorkflowState
    <2>3. /\ job' = [job EXCEPT ![w] = [job[w] EXCEPT !.at = "submitRead"]]
          /\ [job[w] EXCEPT !.at = "submitRead"] \in Job
      BY <1>1, <2>1, JobAfter DEF Phase
    <2>4. job'[w] # None /\ job'[w].at = "submitRead"
      BY <1>1, <2>3, PipelineNoneAssumption DEF Typed, PipelineTypeOK, Job
    <2>5. r # None
      BY <2>2, PipelineNoneAssumption
    <2> QED BY <1>1, <1>2, <1>3, <1>5, <2>1, <2>4, <2>5 DEF Committing, Commit
  <1> QED BY <1>4, <1>5

\* What the second transaction of generate does to the rows.
LEMMA SubmitEffect ==
  ASSUME Typed, NEW w \in Workers, Submitting(w)
  PROVE  LET k == job[w].packet
             c == packet[k].candidate IN
         /\ job[w] \in Job /\ job[w].at = "submit" /\ k \in Packets /\ c \in Candidates
         /\ packet[k] # None /\ packet[k].state = job[w].read
         /\ row[c] # None /\ row[c].state = job[w].read
         /\ row'[c] # None /\ row'[c].state = "AWAITING_APPROVAL"
         /\ row'[c].normalized = row[c].normalized
         /\ \A d \in Candidates \ {c} : row'[d] = row[d]
         /\ packet'[k] # None /\ packet'[k].state = "AWAITING_APPROVAL"
         /\ packet'[k].candidate = c
         /\ \A l \in Packets \ {k} : packet'[l] = packet[l]
         /\ job'[w] = None
         /\ UNCHANGED <<signal, evidence, files, directory, crashes>>
  <1> DEFINE k == job[w].packet
             c == packet[k].candidate
             r == [packet[k] EXCEPT !.state = "AWAITING_APPROVAL"]
  <1>1. /\ job[w] \in Job /\ job[w].at = "submit" /\ k \in Packets /\ c \in Candidates
        /\ packet[k] \in PacketRow /\ row[c] \in CandidateRow
    BY TransitionReady DEF Submitting, Submit, At
  <1>2. row[c] # None /\ packet[k] # None
    BY <1>1, PipelineNoneAssumption
  <1>3. /\ packet' = [packet EXCEPT ![k].state = "AWAITING_APPROVAL"]
        /\ row' = [row EXCEPT ![c].state = "AWAITING_APPROVAL"]
        /\ Ends(w) /\ UNCHANGED <<signal, evidence, files, directory, crashes>>
    BY DEF Submitting, Submit
  <1>4. /\ row'[c] # None /\ row'[c].state = "AWAITING_APPROVAL"
        /\ row'[c].normalized = row[c].normalized
        /\ \A d \in Candidates \ {c} : row'[d] = row[d]
    BY <1>1, <1>2, <1>3, StateSet DEF WorkflowState
  <1>5. r \in PacketRow /\ r.state = "AWAITING_APPROVAL" /\ r.candidate = c
    BY <1>1 DEF PacketRow, WorkflowState
  <1>6. packet' = [packet EXCEPT ![k] = r]
    BY <1>1, <1>3 DEF Typed, PipelineTypeOK, PacketRow
  <1>7. /\ packet'[k] = r /\ r # None /\ \A l \in Packets \ {k} : packet'[l] = packet[l]
    BY <1>1, <1>5, <1>6, PipelineNoneAssumption DEF Typed, PipelineTypeOK
  <1>8. job'[w] = None
    BY <1>3 DEF Ends, Typed, PipelineTypeOK
  <1> QED BY <1>1, <1>2, <1>3, <1>4, <1>5, <1>7, <1>8 DEF Submitting

-----------------------------------------------------------------------------
(* The first step of a command.                                            *)

\* What the command it starts finds, and what it does to the directories.
Begun(w, i) ==
  /\ i.requested = None /\ i.read = None /\ i.candidate \in Candidates
  /\ \/ /\ i.command = "ingest" /\ i.at \in Early /\ i.packet = None /\ Fresh(i.candidate)
        /\ signal[i.candidate] \in Filed => i.at = "copy"
        /\ directory' = directory
     \/ /\ i.at \in {"normalFile", "compare", "classify"} /\ i.packet = None
        /\ i.command \notin {"ingest", "generate"}
        /\ i.at = "normalFile" <=> i.command = "normalize"
        /\ row[i.candidate] # None /\ directory' = directory
     \/ /\ i.command = "generate" /\ i.at = "materialize" /\ row[i.candidate] # None
        /\ ValidTransition(row[i.candidate].state, "PACKET_GENERATED")
        /\ i.packet \in Packets /\ Unused(i.packet)
        /\ directory' = [directory EXCEPT ![i.packet] = "temporary"]

\* Every first step is of this shape.
LEMMA StartShape ==
  ASSUME Typed, NEW w \in Workers, Start(w)
  PROVE  /\ job[w] = None /\ job'[w] # None /\ Begun(w, job'[w])
         /\ UNCHANGED <<signal, row, packet, evidence, files, crashes>>
         /\ \A v \in Workers \ {w} : job'[v] = job[v]
  <1> USE DEF Typed, PipelineTypeOK
  <1> PICK c \in Candidates :
         \/ StartIngest(w, c) \/ StartNormalize(w, c) \/ StartDeduplicate(w, c)
         \/ (\E decision \in BOOLEAN : StartQualify(w, c, decision)) \/ StartGenerate(w, c)
    BY DEF Start
  <1>0. /\ UNCHANGED <<signal, row, packet, evidence, files, crashes>>
        /\ \A v \in Workers \ {w} : job'[v] = job[v]
        /\ job[w] = None
    BY StartFrame DEF StartIngest, StartNormalize, StartDeduplicate, StartQualify,
                      StartGenerate, Starts
  <1>1. ASSUME NEW j \in Job, job' = [job EXCEPT ![w] = j]
        PROVE  job'[w] = j /\ job'[w] # None
    BY <1>1, PipelineNoneAssumption
  <1>2. CASE StartIngest(w, c)
    <2> DEFINE j == Run(w, "ingest", c, IF signal[c] \in Filed THEN "copy" ELSE "insert")
    <2>1. j \in Job /\ job' = [job EXCEPT ![w] = j]
      BY <1>2 DEF StartIngest, Starts, Run, Job, Command, Phase
    <2>2. job'[w] = j /\ job'[w] # None
      BY <1>1, <2>1
    <2> QED BY <1>0, <1>2, <2>2 DEF Begun, Run, StartIngest, Early
  <1>3. CASE StartNormalize(w, c)
    <2> DEFINE j == Run(w, "normalize", c, "normalFile")
    <2>1. j \in Job /\ job' = [job EXCEPT ![w] = j]
      BY <1>3 DEF StartNormalize, Starts, Run, Job, Command, Phase
    <2>2. job'[w] = j /\ job'[w] # None
      BY <1>1, <2>1
    <2> QED BY <1>0, <1>3, <2>2 DEF Begun, Run, StartNormalize
  <1>4. CASE StartDeduplicate(w, c)
    <2> DEFINE j == [Run(w, "deduplicate", c, "compare") EXCEPT !.normalized = row[c].normalized]
    <2>1. j \in Job /\ job' = [job EXCEPT ![w] = j]
      BY <1>4 DEF StartDeduplicate, InState, Run, Job, Command, Phase, CandidateRow
    <2>2. job'[w] = j /\ job'[w] # None
      BY <1>1, <2>1
    <2> QED BY <1>0, <1>4, <2>2 DEF Begun, Run, StartDeduplicate, InState
  <1>5. ASSUME NEW decision \in BOOLEAN, StartQualify(w, c, decision)
        PROVE  job'[w] # None /\ Begun(w, job'[w])
    <2> DEFINE j == [Run(w, "qualify", c, "classify") EXCEPT !.decision = decision]
    <2>1. j \in Job /\ job' = [job EXCEPT ![w] = j]
      BY <1>5 DEF StartQualify, Run, Job, Command, Phase
    <2>2. job'[w] = j /\ job'[w] # None
      BY <1>1, <2>1
    <2> QED BY <1>0, <1>5, <2>2 DEF Begun, Run, StartQualify, InState
  <1>6. CASE StartGenerate(w, c)
    <2> DEFINE j == [Run(w, "generate", c, "materialize") EXCEPT !.packet = NextPacket]
    <2>1. NextPacket \in Packets /\ Unused(NextPacket)
      BY <1>6 DEF StartGenerate, NextPacket
    <2>2. j \in Job /\ job' = [job EXCEPT ![w] = j]
      BY <1>6, <2>1 DEF StartGenerate, Run, Job, Command, Phase
    <2>3. job'[w] = j /\ job'[w] # None
      BY <1>1, <2>2
    <2>4. j.command = "generate" /\ j.at = "materialize" /\ j.packet = NextPacket
          /\ j.candidate = c /\ j.requested = None /\ j.read = None
      BY DEF Run
    <2>5. /\ row[c] # None /\ ValidTransition(row[c].state, "PACKET_GENERATED")
          /\ directory' = [directory EXCEPT ![NextPacket] = "temporary"]
      BY <1>6 DEF StartGenerate
    <2> HIDE DEF j
    <2> QED BY <1>0, <2>1, <2>3, <2>4, <2>5 DEF Begun
  <1> QED BY <1>0, <1>2, <1>3, <1>4, <1>5, <1>6

-----------------------------------------------------------------------------
(* What a command asks for, and what it has read.                          *)

Requests == { "EVIDENCE_PRESERVED", "NORMALIZED", "SUPPRESSED", "DUPLICATE_CHECKED",
              "QUALIFIED", "PACKET_GENERATED" }

JobAsked(w) ==
  LET j == job[w] IN
  j # None =>
    /\ j.at \in {"read", "commit"} => j.requested \in Requests
    /\ j.at \in {"read", "commit"} =>
         ((j.requested = "PACKET_GENERATED") <=> (j.packet # None))
    /\ j.at = "commit" => ValidTransition(j.read, j.requested)
    /\ j.at = "submit" => j.read = "PACKET_GENERATED"
    /\ j.at \in {"materialize", "submitRead", "submit"} <=>
         (j.packet # None /\ j.at \notin {"read", "commit"})

Asked == \A w \in Workers : JobAsked(w)

\* A step of a command keeps it.
LEMMA AskedStep ==
  ASSUME Typed, Asked, NEW w \in Workers, Step(w)
  PROVE  Asked'
  <1>1. \A v \in Workers \ {w} : job'[v] = job[v]
    BY StepFrame
  <1>2. job[w] # None
    BY DEF Step, CopySource, InsertCandidate, InsertEvidence, WriteCandidateFile,
           WriteEvidenceFile, WriteNormalFile, UpdateNormalized, Compare,
           StoreClassification, Materialize, ReadState, Commit, SubmitRead, Submit, At
  <1>3. JobAsked(w)'
    <2> DEFINE j == job[w]
               i == job'[w]
    <2> SUFFICES ASSUME i # None PROVE JobAsked(w)'
      BY DEF JobAsked
    <2>1. i.candidate = j.candidate /\ i.packet = j.packet /\ Proceeded(j, i)
      BY StepFrame DEF KeepsOrEnds
    <2>2. JobAsked(w) /\ JobShaped(w) /\ j.at \in Phase
      BY <1>2, JobAfter DEF Asked, Typed, Job
    <2>3. CASE <<j.at, i.at>> \in Follows
      BY <1>2, <2>1, <2>2, <2>3 DEF Follows, JobAsked
    <2>4. CASE <<j.at, i.requested>> \in AsksFor /\ i.at = "read"
      BY <1>2, <2>1, <2>2, <2>4 DEF AsksFor, JobAsked, JobShaped, Requests
    <2>5. CASE /\ j.at = "read" /\ i.at = "commit" /\ i.requested = j.requested
               /\ i.read = row[j.candidate].state /\ ValidTransition(i.read, i.requested)
      BY <1>2, <2>1, <2>2, <2>5 DEF JobAsked
    <2>6. CASE j.at = "commit" /\ i.at = "submitRead" /\ j.packet # None
      BY <1>2, <2>1, <2>2, <2>6 DEF JobAsked
    <2>7. CASE /\ j.at = "submitRead" /\ i.at = "submit"
               /\ i.read = packet[j.packet].state /\ ValidTransition(i.read, "AWAITING_APPROVAL")
      <3>1. i.read \in WorkflowState
        BY <1>2, <2>7, TransitionReady DEF PacketRow
      <3>2. i.read = "PACKET_GENERATED"
        BY <2>7, <3>1 DEF ValidTransition, Transitions, WorkflowState
      <3> QED BY <1>2, <2>1, <2>2, <2>7, <3>2 DEF JobAsked
    <2> QED BY <2>1, <2>3, <2>4, <2>5, <2>6, <2>7 DEF Proceeded
  <1> QED BY <1>1, <1>3 DEF Asked, JobAsked

\* So do the first steps and the faults.
THEOREM AskedAlways == Spec => []Asked
  <1>1. Init => Asked
    BY DEF Init, Asked, JobAsked
  <1>2. Typed /\ Asked /\ [Next]_vars => Asked'
    <2> SUFFICES ASSUME Typed, Asked, [Next]_vars PROVE Asked'
      OBVIOUS
    <2>1. ASSUME NEW w \in Workers, Start(w)
          PROVE  Asked'
      <3>1. job'[w] # None /\ Begun(w, job'[w]) /\ \A v \in Workers \ {w} : job'[v] = job[v]
        BY <2>1, StartShape
      <3>2. JobAsked(w)'
        BY <3>1, PipelineNoneAssumption DEF Begun, JobAsked, Early
      <3> QED BY <3>1, <3>2 DEF Asked, JobAsked
    <2>2. ASSUME NEW w \in Workers, Fail(w) \/ Crash(w)
          PROVE  Asked'
      BY <2>2, FaultFrame DEF Asked, JobAsked
    <2>3. CASE UNCHANGED vars
      BY <2>3 DEF vars, Asked, JobAsked
    <2> QED BY <2>1, <2>2, <2>3, AskedStep DEF Next
  <1> QED BY <1>1, <1>2, TypedAlways, PTL DEF Spec

-----------------------------------------------------------------------------
(* Who owns a candidate that is not in the table yet, and a packet.        *)

JobOwned(w) ==
  job[w] # None /\ job[w].at \in Early =>
    /\ row[job[w].candidate] = None
    /\ \A v \in Workers \ {w} : job[v] # None => job[v].candidate # job[w].candidate

PacketsOwned ==
  \A v, w \in Workers :
    v # w /\ job[v] # None /\ job[w] # None /\ job[w].packet # None =>
      job[v].packet # job[w].packet

Owned == PacketsOwned /\ \A w \in Workers : JobOwned(w)

\* The row of a candidate that another worker still ingests stays absent.
LEMMA RowStaysAbsent ==
  ASSUME Typed, Owned, NEW w \in Workers, Step(w), NEW v \in Workers \ {w},
         job[v] # None, job[v].at \in Early
  PROVE  row'[job[v].candidate] = None
  <1> DEFINE d == job[v].candidate
  <1>1. row[d] = None /\ d \in Candidates
    BY DEF Owned, JobOwned, Typed, PipelineTypeOK, Job
  <1>2. job[w] # None => job[w] \in Job /\ job[w].candidate # d
    BY TransitionReady DEF Owned, JobOwned
  <1>3. CASE InsertCandidate(w)
    BY <1>1, <1>2, <1>3 DEF InsertCandidate, At, Typed, PipelineTypeOK
  <1>4. CASE UpdateNormalized(w)
    <2>1. row[job[w].candidate] \in CandidateRow /\ job[w].candidate # d
      BY <1>2, <1>4, TransitionReady DEF UpdateNormalized, At, Early
    <2> QED BY <1>1, <1>4, <2>1 DEF UpdateNormalized, Typed, PipelineTypeOK
  <1>5. CASE Committing(w)
    BY <1>1, <1>5, CommitEffect
  <1>6. CASE Submitting(w)
    BY <1>1, <1>6, SubmitEffect
  <1>7. CASE Materialize(w) \/ Raises(w) \/ Quiet(w)
    BY <1>1, <1>7 DEF Materialize, Raises, Quiet
  <1> QED BY <1>3, <1>4, <1>5, <1>6, <1>7, StepKinds

\* A step of a command keeps what is owned.
LEMMA OwnedStep ==
  ASSUME Typed, Owned, NEW w \in Workers, Step(w)
  PROVE  Owned'
  <1>1. \A v \in Workers \ {w} : job'[v] = job[v]
    BY StepFrame
  <1>2. job[w] # None
    BY DEF Step, CopySource, InsertCandidate, InsertEvidence, WriteCandidateFile,
           WriteEvidenceFile, WriteNormalFile, UpdateNormalized, Compare,
           StoreClassification, Materialize, ReadState, Commit, SubmitRead, Submit, At
  <1>3. job'[w] # None => job'[w].candidate = job[w].candidate /\ job'[w].packet = job[w].packet
    BY StepFrame DEF KeepsOrEnds
  <1>4. PacketsOwned'
    BY <1>1, <1>2, <1>3 DEF Owned, PacketsOwned
  <1>5. ASSUME NEW v \in Workers \ {w}
        PROVE  JobOwned(v)'
    <2> SUFFICES ASSUME job'[v] # None, job'[v].at \in Early
                 PROVE  JobOwned(v)'
      BY DEF JobOwned
    <2>1. job[v] # None /\ job[v].at \in Early /\ job'[v] = job[v]
      BY <1>1
    <2>2. row'[job[v].candidate] = None
      BY <2>1, RowStaysAbsent
    <2> QED BY <1>1, <1>2, <1>3, <2>1, <2>2 DEF Owned, JobOwned
  <1>6. JobOwned(w)'
    <2> SUFFICES ASSUME job'[w] # None, job'[w].at \in Early
                 PROVE  JobOwned(w)'
      BY DEF JobOwned
    <2>1. job[w].at = "copy" /\ job'[w].at = "insert"
      BY StepFrame DEF KeepsOrEnds, Proceeded, Follows, Early
    <2>2. row' = row
      BY <2>1, StepKinds DEF InsertCandidate, UpdateNormalized, Materialize, Committing,
                             Commit, Submitting, Submit, At, Raises, Quiet
    <2>3. job[w].at \in Early
      BY <2>1 DEF Early
    <2> QED BY <1>1, <1>2, <1>3, <2>2, <2>3 DEF Owned, JobOwned
  <1> QED BY <1>4, <1>5, <1>6 DEF Owned

\* So do the first steps and the faults.
THEOREM OwnedAlways == Spec => []Owned
  <1>1. Init => Owned
    BY DEF Init, Owned, PacketsOwned, JobOwned
  <1>2. Typed /\ Owned /\ [Next]_vars => Owned'
    <2> SUFFICES ASSUME Typed, Owned, [Next]_vars PROVE Owned'
      OBVIOUS
    <2>1. ASSUME NEW w \in Workers, Start(w)
          PROVE  Owned'
      <3> DEFINE i == job'[w]
      <3>1. /\ job[w] = None /\ i # None /\ Begun(w, i) /\ row' = row
            /\ \A v \in Workers \ {w} : job'[v] = job[v]
        BY <2>1, StartShape
      <3>2. i.packet # None => Unused(i.packet)
        BY <3>1 DEF Begun
      <3>3. i.at \in Early => Fresh(i.candidate)
        BY <3>1 DEF Begun, Early
      <3>4. row[i.candidate] = None => i.at \in Early
        BY <3>1 DEF Begun
      <3> HIDE DEF i
      <3>5. PacketsOwned'
        BY <3>1, <3>2 DEF Owned, PacketsOwned, Unused, i
      <3>6. JobOwned(w)'
        BY <3>1, <3>3 DEF Fresh, JobOwned, i
      <3>7. ASSUME NEW v \in Workers \ {w}
            PROVE  JobOwned(v)'
        <4> SUFFICES ASSUME job'[v] # None, job'[v].at \in Early
                     PROVE  JobOwned(v)'
          BY DEF JobOwned
        <4>1. job'[v] = job[v] /\ JobOwned(v) /\ row[job[v].candidate] = None
          BY <3>1 DEF Owned, JobOwned
        <4>2. i.candidate # job[v].candidate
          BY <3>3, <3>4, <4>1 DEF Fresh
        <4> QED BY <3>1, <4>1, <4>2 DEF JobOwned, i
      <3> QED BY <3>5, <3>6, <3>7 DEF Owned
    <2>2. ASSUME NEW w \in Workers, Fail(w) \/ Crash(w)
          PROVE  Owned'
      BY <2>2, FaultFrame DEF Owned, PacketsOwned, JobOwned
    <2>3. CASE UNCHANGED vars
      BY <2>3 DEF vars, Owned, PacketsOwned, JobOwned
    <2> QED BY <2>1, <2>2, <2>3, OwnedStep DEF Next
  <1> QED BY <1>1, <1>2, TypedAlways, PTL DEF Spec

-----------------------------------------------------------------------------
(* One row across one step.                                                *)

\* A row changes when it is inserted, normalized, or in a transition.
LEMMA RowAfter ==
  ASSUME Typed, Owned, NEW w \in Workers, Step(w), NEW c \in Candidates, row'[c] # row[c]
  PROVE  /\ row'[c] # None
         /\ row[c] # None /\ row[c].normalized => row'[c].normalized
         /\ \/ /\ At(w, "insert") /\ c = job[w].candidate /\ row[c] = None
               /\ row'[c].state = "DISCOVERED"
            \/ /\ At(w, "normalRow") /\ row[c] # None /\ row'[c].state = row[c].state
            \/ Committing(w) /\ c = job[w].candidate
            \/ Submitting(w) /\ c = packet[job[w].packet].candidate
  <1>1. CASE InsertCandidate(w)
    <2> DEFINE r == [state |-> "DISCOVERED", normalized |-> FALSE]
    <2>1. job[w] # None /\ job[w].candidate \in Candidates /\ row[job[w].candidate] = None
      BY <1>1, TransitionReady DEF InsertCandidate, At, Early, Owned, JobOwned, Job
    <2>2. row' = [row EXCEPT ![job[w].candidate] = r] /\ r \in CandidateRow
      BY <1>1 DEF InsertCandidate, CandidateRow, WorkflowState
    <2>3. c = job[w].candidate /\ row'[c] = r /\ r # None
      BY <2>1, <2>2, PipelineNoneAssumption DEF Typed, PipelineTypeOK
    <2> QED BY <1>1, <2>1, <2>3 DEF InsertCandidate
  <1>2. CASE UpdateNormalized(w)
    <2> DEFINE d == job[w].candidate
               r == [row[d] EXCEPT !.normalized = TRUE]
    <2>1. row[d] \in CandidateRow /\ d \in Candidates
      BY <1>2, TransitionReady DEF UpdateNormalized, At, Early, Job
    <2>2. r \in CandidateRow /\ r.normalized /\ r.state = row[d].state
      BY <2>1 DEF CandidateRow
    <2>3. row' = [row EXCEPT ![d] = r]
      BY <1>2, <2>1 DEF UpdateNormalized
    <2>4. c = d /\ row'[c] = r /\ r # None /\ row[d] # None
      BY <2>1, <2>2, <2>3, PipelineNoneAssumption DEF Typed, PipelineTypeOK
    <2> QED BY <1>2, <2>2, <2>4 DEF UpdateNormalized
  <1>3. CASE Committing(w)
    BY <1>3, CommitEffect
  <1>4. CASE Submitting(w)
    BY <1>4, SubmitEffect
  <1>5. CASE Materialize(w) \/ Raises(w) \/ Quiet(w)
    BY <1>5 DEF Materialize, Raises, Quiet
  <1> QED BY <1>1, <1>2, <1>3, <1>4, <1>5, StepKinds

\* The state of a row changes along the map, to what its command asked for.
LEMMA StateAfter ==
  ASSUME Typed, Asked, Owned, NEW w \in Workers, Step(w), NEW c \in Candidates,
         row'[c] # row[c]
  PROVE  /\ row'[c] # None
         /\ \/ row[c] = None /\ row'[c].state = "DISCOVERED"
            \/ row[c] # None /\ row'[c].state = row[c].state
            \/ /\ row[c] # None /\ ValidTransition(row[c].state, row'[c].state)
               /\ row'[c].state \in Requests
               /\ job[w] # None /\ job[w].at = "commit" /\ job[w].candidate = c
               /\ job[w].requested = row'[c].state
            \/ /\ row[c] # None /\ row[c].state = "PACKET_GENERATED"
               /\ row'[c].state = "AWAITING_APPROVAL"
  <1>1. CASE Committing(w) /\ c = job[w].candidate
    <2>1. /\ job[w] # None /\ job[w].at = "commit" /\ row[c] # None
          /\ row[c].state = job[w].read /\ row'[c].state = job[w].requested /\ row'[c] # None
      BY <1>1, CommitEffect, PipelineNoneAssumption
    <2>0. JobAsked(w)
      BY DEF Asked
    <2>2. job[w].requested \in Requests /\ ValidTransition(job[w].read, job[w].requested)
      BY <2>0, <2>1 DEF JobAsked
    <2> QED BY <1>1, <2>1, <2>2
  <1>2. CASE Submitting(w) /\ c = packet[job[w].packet].candidate
    BY <1>2, SubmitEffect, PipelineNoneAssumption DEF Asked, JobAsked, Submitting, Submit, At
  <1> QED BY <1>1, <1>2, RowAfter

-----------------------------------------------------------------------------
(* Evidence.                                                               *)

HasCopy(c) == signal[c] \in Filed => <<"copy", c>> \in files

Complete(c) ==
  /\ c \in evidence
  /\ {<<"candidate", c>>, <<"evidence", c>>} \subseteq files
  /\ HasCopy(c)

JobPreserves(w) ==
  LET j == job[w]
      c == j.candidate IN
  j # None =>
    /\ j.at = "insert" => HasCopy(c)
    /\ j.at \in {"candidateFile", "evidenceFile"} => c \in evidence
    /\ j.at = "evidenceFile" => <<"candidate", c>> \in files
    /\ j.at \in {"read", "commit"} /\ j.requested = "EVIDENCE_PRESERVED" => Complete(c)

Preserved ==
  /\ \A c \in Candidates :
       row[c] # None => HasCopy(c) /\ (row[c].state # "DISCOVERED" => Complete(c))
  /\ \A w \in Workers : JobPreserves(w)

\* What has been written stays (rows, evidence and files are only added).
LEMMA CompleteStays ==
  ASSUME TablesGrow, NEW c \in Candidates
  PROVE  (Complete(c) => Complete(c)') /\ (HasCopy(c) => HasCopy(c)')
  BY DEF TablesGrow, Complete, HasCopy

\* Each step of ingest leaves what the next one relies on.
LEMMA IngestWrites ==
  ASSUME Typed, NEW w \in Workers, Step(w), job'[w] # None
  PROVE  LET c == job[w].candidate IN
         /\ job[w].at = "copy" => <<"copy", c>> \in files'
         /\ job[w].at = "evidence" => c \in evidence'
         /\ job[w].at = "candidateFile" => <<"candidate", c>> \in files'
         /\ job[w].at = "evidenceFile" => <<"evidence", c>> \in files'
  <1> DEFINE c == job[w].candidate
  <1>1. ASSUME Ends(w)
        PROVE  FALSE
    BY <1>1 DEF Ends, Typed, PipelineTypeOK
  <1>2. job[w].at = "copy" => CopySource(w)
    BY DEF Step, CopySource, InsertCandidate, InsertEvidence, WriteCandidateFile,
           WriteEvidenceFile, WriteNormalFile, UpdateNormalized, Compare,
           StoreClassification, Materialize, ReadState, Commit, SubmitRead, Submit, At
  <1>3. job[w].at = "evidence" => InsertEvidence(w)
    BY DEF Step, CopySource, InsertCandidate, InsertEvidence, WriteCandidateFile,
           WriteEvidenceFile, WriteNormalFile, UpdateNormalized, Compare,
           StoreClassification, Materialize, ReadState, Commit, SubmitRead, Submit, At
  <1>4. job[w].at = "candidateFile" => WriteCandidateFile(w)
    BY DEF Step, CopySource, InsertCandidate, InsertEvidence, WriteCandidateFile,
           WriteEvidenceFile, WriteNormalFile, UpdateNormalized, Compare,
           StoreClassification, Materialize, ReadState, Commit, SubmitRead, Submit, At
  <1>5. job[w].at = "evidenceFile" => WriteEvidenceFile(w)
    BY DEF Step, CopySource, InsertCandidate, InsertEvidence, WriteCandidateFile,
           WriteEvidenceFile, WriteNormalFile, UpdateNormalized, Compare,
           StoreClassification, Materialize, ReadState, Commit, SubmitRead, Submit, At
  <1>6. CopySource(w) => <<"copy", c>> \in files'
    BY <1>1 DEF CopySource, Writes, Raises
  <1>7. WriteCandidateFile(w) => <<"candidate", c>> \in files'
    BY <1>1 DEF WriteCandidateFile, Writes, Raises
  <1> QED BY <1>2, <1>3, <1>4, <1>5, <1>6, <1>7 DEF InsertEvidence, WriteEvidenceFile

\* A step of a command keeps the evidence complete.
LEMMA PreservedStep ==
  ASSUME Typed, Asked, Owned, Preserved, NEW w \in Workers, Step(w)
  PROVE  Preserved'
  <1>1. TablesGrow /\ \A v \in Workers \ {w} : job'[v] = job[v]
    BY StepFrame
  <1>2. job[w] # None /\ job[w] \in Job /\ job[w].candidate \in Candidates
    <2>1. job[w] # None
      BY DEF Step, CopySource, InsertCandidate, InsertEvidence, WriteCandidateFile,
             WriteEvidenceFile, WriteNormalFile, UpdateNormalized, Compare,
             StoreClassification, Materialize, ReadState, Commit, SubmitRead, Submit, At
    <2> QED BY <2>1, TransitionReady DEF Job
  <1>3. ASSUME NEW c \in Candidates, row'[c] # None
        PROVE  HasCopy(c)' /\ (row'[c].state # "DISCOVERED" => Complete(c)')
    <2>1. CASE row'[c] = row[c]
      BY <1>1, <1>3, <2>1, CompleteStays DEF Preserved
    <2>2. CASE row'[c] # row[c]
      <3>1. row[c] = None => At(w, "insert") /\ c = job[w].candidate
        <4>1. Committing(w) /\ c = job[w].candidate => row[c] # None
          BY CommitEffect
        <4>2. Submitting(w) /\ c = packet[job[w].packet].candidate => row[c] # None
          BY SubmitEffect
        <4> QED BY <2>2, <4>1, <4>2, RowAfter
      <3>2. HasCopy(c)
        BY <3>1 DEF Preserved, JobPreserves, At
      <3>3. row'[c].state # "DISCOVERED" => Complete(c)
        <4> SUFFICES ASSUME row'[c].state # "DISCOVERED" PROVE Complete(c)
          OBVIOUS
        <4>1. CASE row[c] # None /\ row[c].state # "DISCOVERED"
          BY <4>1 DEF Preserved
        <4>2. CASE row[c] # None /\ row[c].state = "DISCOVERED"
          <5>1. /\ ValidTransition("DISCOVERED", row'[c].state) /\ row'[c].state \in Requests
                /\ job[w].at = "commit" /\ job[w].candidate = c
                /\ job[w].requested = row'[c].state
            BY <2>2, <4>2, StateAfter
          <5>2. job[w].requested = "EVIDENCE_PRESERVED"
            BY <5>1 DEF ValidTransition, Transitions, Requests
          <5> QED BY <1>2, <5>1, <5>2 DEF Preserved, JobPreserves
        <4>3. row[c] # None
          BY <2>2, StateAfter
        <4> QED BY <4>1, <4>2, <4>3
      <3> QED BY <1>1, <3>2, <3>3, CompleteStays
    <2> QED BY <2>1, <2>2
  <1>4. ASSUME NEW v \in Workers \ {w}
        PROVE  JobPreserves(v)'
    <2>1. job'[v] = job[v] /\ JobPreserves(v)
      BY <1>1 DEF Preserved
    <2>2. job[v] # None => job[v].candidate \in Candidates
      BY TransitionReady DEF Job
    <2>3. evidence \subseteq evidence' /\ files \subseteq files'
      BY <1>1 DEF TablesGrow
    <2> QED BY <1>1, <2>1, <2>2, <2>3, CompleteStays DEF JobPreserves
  <1>5. JobPreserves(w)'
    <2> SUFFICES ASSUME job'[w] # None PROVE JobPreserves(w)'
      BY DEF JobPreserves
    <2> DEFINE j == job[w]
               i == job'[w]
    <2> PICK c \in Candidates : c = job[w].candidate
      BY <1>2
    <2>1. i.candidate = c /\ Proceeded(j, i)
      BY StepFrame DEF KeepsOrEnds
    <2>2. JobPreserves(w) /\ JobShaped(w) /\ evidence \subseteq evidence' /\ files \subseteq files'
      BY <1>1 DEF Preserved, Typed, TablesGrow
    <2>3. /\ j.at = "copy" => <<"copy", c>> \in files'
          /\ j.at = "evidence" => c \in evidence'
          /\ j.at = "candidateFile" => <<"candidate", c>> \in files'
          /\ j.at = "evidenceFile" => <<"evidence", c>> \in files'
      BY IngestWrites
    <2>4. i.at = "insert" => HasCopy(c)'
      BY <2>1, <2>3 DEF Proceeded, Follows, HasCopy
    <2>5. i.at \in {"candidateFile", "evidenceFile"} => c \in evidence'
      BY <1>2, <2>1, <2>2, <2>3 DEF Proceeded, Follows, JobPreserves
    <2>6. i.at = "evidenceFile" => <<"candidate", c>> \in files'
      BY <2>1, <2>3 DEF Proceeded, Follows
    <2>7. i.at = "read" /\ i.requested = "EVIDENCE_PRESERVED" => Complete(c)'
      <3> SUFFICES ASSUME i.at = "read", i.requested = "EVIDENCE_PRESERVED"
                   PROVE  Complete(c)'
        OBVIOUS
      <3>1. j.at = "evidenceFile"
        BY <2>1 DEF Proceeded, Follows, AsksFor
      <3>2. HasCopy(c)
        BY <1>2, <2>2, <3>1 DEF JobShaped, Early, Preserved
      <3> QED BY <1>1, <1>2, <2>2, <2>3, <3>1, <3>2, CompleteStays DEF JobPreserves, Complete
    <2>8. i.at = "commit" /\ i.requested = "EVIDENCE_PRESERVED" => Complete(c)'
      <3> SUFFICES ASSUME i.at = "commit", i.requested = "EVIDENCE_PRESERVED"
                   PROVE  Complete(c)'
        OBVIOUS
      <3>1. j.at = "read" /\ j.requested = "EVIDENCE_PRESERVED"
        BY <2>1 DEF Proceeded, Follows
      <3> QED BY <1>1, <1>2, <2>2, <3>1, CompleteStays DEF JobPreserves
    <2> QED BY <2>1, <2>4, <2>5, <2>6, <2>7, <2>8 DEF JobPreserves
  <1> QED BY <1>3, <1>4, <1>5 DEF Preserved

\* So do the first steps and the faults.
THEOREM PreservedAlways == Spec => []Preserved
  <1>1. Init => Preserved
    BY DEF Init, Preserved, JobPreserves
  <1>2. Typed /\ Asked /\ Owned /\ Preserved /\ [Next]_vars => Preserved'
    <2> SUFFICES ASSUME Typed, Asked, Owned, Preserved, [Next]_vars PROVE Preserved'
      OBVIOUS
    <2>1. ASSUME NEW w \in Workers, Start(w)
          PROVE  Preserved'
      <3> DEFINE i == job'[w]
      <3>1. /\ UNCHANGED <<signal, row, evidence, files>> /\ Begun(w, i)
            /\ \A v \in Workers \ {w} : job'[v] = job[v]
        BY <2>1, StartShape
      <3>2. /\ i.at \in Early => (signal[i.candidate] \in Filed => i.at = "copy")
            /\ i.at \in Early \cup {"normalFile", "compare", "classify", "materialize"}
        BY <3>1 DEF Begun, Early
      <3>3. JobPreserves(w)'
        BY <3>1, <3>2 DEF JobPreserves, HasCopy, Early
      <3>4. \A v \in Workers \ {w} : JobPreserves(v)'
        BY <3>1 DEF Preserved, JobPreserves, Complete, HasCopy
      <3> QED BY <3>1, <3>3, <3>4 DEF Preserved, Complete, HasCopy
    <2>2. ASSUME NEW w \in Workers, Fail(w) \/ Crash(w)
          PROVE  Preserved'
      BY <2>2, FaultFrame DEF Preserved, JobPreserves, Complete, HasCopy, TablesGrow
    <2>3. CASE UNCHANGED vars
      BY <2>3 DEF vars, Preserved, JobPreserves, Complete, HasCopy
    <2> QED BY <2>1, <2>2, <2>3, PreservedStep DEF Next
  <1> QED BY <1>1, <1>2, TypedAlways, AskedAlways, OwnedAlways, PTL DEF Spec

\* A candidate past DISCOVERED has its evidence complete, whatever died when
\* (ingest_signal).
THEOREM EvidenceIsComplete == Spec => []PreservedIsComplete
  <1>1. Preserved => PreservedIsComplete
    BY DEF Preserved, PreservedIsComplete, Complete, HasCopy
  <1> QED BY <1>1, PreservedAlways, PTL

-----------------------------------------------------------------------------
(* Duplicates.                                                             *)

\* A worker is about to give c this state.
Requesting(w, c, s) ==
  /\ job[w] # None /\ job[w].candidate = c
  /\ job[w].at \in {"read", "commit"} /\ job[w].requested = s

\* Found unique, or about to be.
Cleared(c) ==
  InState(c, Passed) \/ \E w \in Workers : Requesting(w, c, "DUPLICATE_CHECKED")

AlikeCleared ==
  \A c, d \in Candidates : c # d /\ Cleared(c) /\ Cleared(d) => ~Alike(c, d)

\* Whose request a step leaves or makes (the calls of transition_candidate).
LEMMA RequestAfter ==
  ASSUME Typed, NEW w \in Workers, Step(w), NEW v \in Workers, NEW c \in Candidates,
         NEW s \in {"DUPLICATE_CHECKED", "SUPPRESSED"}, Requesting(v, c, s)'
  PROVE  \/ Requesting(v, c, s)
         \/ /\ v = w /\ job[w] # None /\ job[w].candidate = c /\ row' = row /\ signal' = signal
            /\ (s = "SUPPRESSED") <=> (\E d \in Others(c) : Matches(c, job[w].normalized, d))
  <1>1. CASE v # w
    BY <1>1, StepFrame DEF Requesting
  <1>2. CASE v = w
    <2> DEFINE j == job[w]
               i == job'[w]
    <2>1. /\ i # None /\ i.candidate = c /\ i.at \in {"read", "commit"} /\ i.requested = s
      BY <1>2 DEF Requesting
    <2>2. i.candidate = j.candidate /\ Proceeded(j, i)
      BY <2>1, StepFrame DEF KeepsOrEnds
    <2>3. j # None
      BY DEF Step, CopySource, InsertCandidate, InsertEvidence, WriteCandidateFile,
             WriteEvidenceFile, WriteNormalFile, UpdateNormalized, Compare,
             StoreClassification, Materialize, ReadState, Commit, SubmitRead, Submit, At
    <2>4. \/ j.at = "compare" /\ i.at = "read"
          \/ j.at = "read" /\ j.requested = s
      BY <2>1, <2>2 DEF Proceeded, Follows, AsksFor
    <2>5. CASE j.at = "compare"
      <3>1. Compare(w)
        BY <2>5 DEF Step, CopySource, InsertCandidate, InsertEvidence, WriteCandidateFile,
               WriteEvidenceFile, WriteNormalFile, UpdateNormalized, Compare,
               StoreClassification, Materialize, ReadState, Commit, SubmitRead, Submit, At
      <3> DEFINE found == \E d \in Others(j.candidate) : Matches(j.candidate, j.normalized, d)
                 t == IF found THEN "SUPPRESSED" ELSE "DUPLICATE_CHECKED"
      <3>2. t \in WorkflowState /\ Asks(w, t) /\ row' = row /\ signal' = signal
        BY <3>1 DEF Compare, WorkflowState
      <3>3. i = [j EXCEPT !.at = "read", !.requested = t, !.normalized = FALSE] /\ j \in Job
        <4> DEFINE k == [j EXCEPT !.at = "read", !.requested = t, !.normalized = FALSE]
        <4>1. job' = [job EXCEPT ![w] = k] /\ k \in Job /\ j \in Job
          BY <2>3, <3>2, JobAfter
        <4> QED BY <4>1 DEF Typed, PipelineTypeOK
      <3>4. i.requested = t
        BY <3>3 DEF Job
      <3> HIDE DEF i
      <3> QED BY <1>2, <2>1, <2>2, <2>3, <3>2, <3>4
    <2>6. CASE j.at = "read" /\ j.requested = s
      BY <1>2, <2>1, <2>2, <2>3, <2>6 DEF Requesting
    <2> QED BY <2>4, <2>5, <2>6
  <1> QED BY <1>1, <1>2

\* A step clears only what nothing in the table is like.
LEMMA ClearedAfter ==
  ASSUME Typed, Asked, Owned, NEW w \in Workers, Step(w), NEW c \in Candidates, Cleared(c)'
  PROVE  \/ Cleared(c)
         \/ /\ row' = row /\ signal' = signal
            /\ \A d \in Candidates \ {c} : row[d] # None => ~Alike(c, d)
  <1>1. CASE InState(c, Passed)'
    <2>1. CASE row'[c] = row[c]
      BY <1>1, <2>1 DEF InState, Cleared
    <2>2. CASE row'[c] # row[c]
      <3>1. row'[c].state \in Passed
        BY <1>1 DEF InState
      <3>2. row[c] # None
        BY <2>2, <3>1, StateAfter DEF Passed
      <3>3. CASE row'[c].state = row[c].state \/ row[c].state = "PACKET_GENERATED"
        BY <3>1, <3>2, <3>3 DEF Cleared, InState, Passed
      <3>4. CASE /\ ValidTransition(row[c].state, row'[c].state)
                 /\ row'[c].state \in Requests
                 /\ job[w] # None /\ job[w].at = "commit" /\ job[w].candidate = c
                 /\ job[w].requested = row'[c].state
        <4>1. CASE row'[c].state = "DUPLICATE_CHECKED"
          BY <3>4, <4>1 DEF Cleared, Requesting
        <4>2. CASE row'[c].state # "DUPLICATE_CHECKED"
          <5>1. row[c].state \in WorkflowState
            BY <3>2 DEF Typed, PipelineTypeOK, CandidateRow
          <5>2. row[c].state \in Passed
            BY <3>1, <3>4, <4>2, <5>1
               DEF ValidTransition, Transitions, Requests, Passed, WorkflowState
          <5> QED BY <3>2, <5>2 DEF Cleared, InState
        <4> QED BY <4>1, <4>2
      <3> QED BY <2>2, <3>2, <3>3, <3>4, StateAfter
    <2> QED BY <2>1, <2>2
  <1>2. ASSUME NEW v \in Workers, Requesting(v, c, "DUPLICATE_CHECKED")'
        PROVE  \/ Cleared(c)
               \/ /\ row' = row /\ signal' = signal
                  /\ \A d \in Candidates \ {c} : row[d] # None => ~Alike(c, d)
    <2>1. CASE Requesting(v, c, "DUPLICATE_CHECKED")
      BY <2>1 DEF Cleared
    <2>2. CASE /\ row' = row /\ signal' = signal
               /\ ~\E d \in Others(c) : Matches(c, job[w].normalized, d)
      BY <2>2 DEF Others, Matches
    <2> QED BY <1>2, <2>1, <2>2, RequestAfter
  <1> QED BY <1>1, <1>2 DEF Cleared

\* So no two candidates that are alike are ever both cleared.
THEOREM AlikeClearedAlways == Spec => []AlikeCleared
  <1>1. Init => AlikeCleared
    BY DEF Init, AlikeCleared, Cleared, InState, Requesting
  <1>2. Typed /\ Asked /\ Owned /\ AlikeCleared /\ [Next]_vars => AlikeCleared'
    <2> SUFFICES ASSUME Typed, Asked, Owned, AlikeCleared, [Next]_vars PROVE AlikeCleared'
      OBVIOUS
    <2>1. ASSUME NEW w \in Workers, Start(w)
          PROVE  AlikeCleared'
      <3> DEFINE i == job'[w]
      <3>1. /\ row' = row /\ signal' = signal /\ Begun(w, i)
            /\ \A v \in Workers \ {w} : job'[v] = job[v]
        BY <2>1, StartShape
      <3>2. i.at \notin {"read", "commit"}
        BY <3>1 DEF Begun, Early
      <3>3. \A c \in Candidates : Cleared(c)' => Cleared(c)
        BY <3>1, <3>2 DEF Cleared, InState, Requesting
      <3> QED BY <3>1, <3>3 DEF AlikeCleared, Alike
    <2>2. ASSUME NEW w \in Workers, Fail(w) \/ Crash(w)
          PROVE  AlikeCleared'
      <3>1. row' = row /\ signal' = signal /\ \A v \in Workers : job'[v] # None => job'[v] = job[v]
        BY <2>2, FaultFrame DEF TablesGrow
      <3>2. \A c \in Candidates : Cleared(c)' => Cleared(c)
        BY <3>1 DEF Cleared, InState, Requesting
      <3> QED BY <3>1, <3>2 DEF AlikeCleared, Alike
    <2>3. ASSUME NEW w \in Workers, Step(w)
          PROVE  AlikeCleared'
      <3> SUFFICES ASSUME NEW c \in Candidates, NEW d \in Candidates, c # d,
                          Cleared(c)', Cleared(d)'
                   PROVE  ~Alike(c, d)'
        BY DEF AlikeCleared
      <3>1. signal' = signal
        BY <2>3, StepFrame DEF TablesGrow
      <3>2. Typed'
        BY <2>3, StepTyped
      <3>3. row'[c] # None /\ row'[d] # None
        <4>1. \A e \in Candidates : Cleared(e)' => row'[e] # None
          BY <3>2 DEF Typed, JobShaped, Early, Cleared, Requesting, InState
        <4> QED BY <4>1
      <3>4. CASE Cleared(c) /\ Cleared(d)
        BY <3>1, <3>4 DEF AlikeCleared, Alike
      <3>5. CASE ~Cleared(c)
        BY <2>3, <3>1, <3>3, <3>5, ClearedAfter DEF Alike
      <3>6. CASE ~Cleared(d)
        <4>1. ~Alike(d, c)
          BY <2>3, <3>3, <3>6, ClearedAfter
        <4> QED BY <3>1, <4>1 DEF Alike
      <3> QED BY <3>4, <3>5, <3>6
    <2>4. CASE UNCHANGED vars
      BY <2>4 DEF vars, AlikeCleared, Cleared, InState, Requesting, Alike
    <2> QED BY <2>1, <2>2, <2>3, <2>4 DEF Next
  <1> QED BY <1>1, <1>2, TypedAlways, AskedAlways, OwnedAlways, PTL DEF Spec

\* Of two candidates that are alike at most one is ever found unique, however
\* their commands interleave, crash and are repeated (deduplicate_candidate).
THEOREM AlikeNotBothUnique == Spec => []AlikeNeverBothPass
  <1>1. AlikeCleared => AlikeNeverBothPass
    BY DEF AlikeCleared, AlikeNeverBothPass, Cleared
  <1> QED BY <1>1, AlikeClearedAlways, PTL

\* Another candidate that a suppression of c may name.
HasMatch(c) ==
  \E d \in Candidates \ {c} :
    /\ row[d] # None
    /\ Alike(c, d) \/ (row[d].normalized /\ Link[signal[c]] = Link[signal[d]])

SuppressedMatched ==
  \A c \in Candidates :
    InState(c, {"SUPPRESSED"}) \/ (\E w \in Workers : Requesting(w, c, "SUPPRESSED"))
      => HasMatch(c)

\* A match stays: rows are kept, and so is a normalized link.
LEMMA MatchStays ==
  ASSUME Typed, Owned, NEW w \in Workers, Step(w), NEW c \in Candidates, HasMatch(c)
  PROVE  HasMatch(c)'
  <1>1. PICK d \in Candidates \ {c} :
          /\ row[d] # None
          /\ Alike(c, d) \/ (row[d].normalized /\ Link[signal[c]] = Link[signal[d]])
    BY DEF HasMatch
  <1>2. signal' = signal /\ row'[d] # None /\ (row[d].normalized => row'[d].normalized)
    BY <1>1, StepFrame, RowAfter DEF TablesGrow, RowsStay
  <1> QED BY <1>1, <1>2 DEF HasMatch, Alike

\* A step of a command suppresses only what has a match.
LEMMA SuppressedStep ==
  ASSUME Typed, Asked, Owned, SuppressedMatched, NEW w \in Workers, Step(w)
  PROVE  SuppressedMatched'
  <1> SUFFICES ASSUME NEW c \in Candidates,
                      InState(c, {"SUPPRESSED"})' \/ \E v \in Workers : Requesting(v, c, "SUPPRESSED")'
               PROVE  HasMatch(c)'
    BY DEF SuppressedMatched
  <1>1. CASE HasMatch(c)
    BY <1>1, MatchStays
  <1>2. ASSUME InState(c, {"SUPPRESSED"})'
        PROVE  HasMatch(c)
    <2>1. row'[c] # None /\ row'[c].state = "SUPPRESSED"
      BY <1>2 DEF InState
    <2>2. CASE row'[c] = row[c]
      BY <2>1, <2>2 DEF SuppressedMatched, InState
    <2>3. CASE row'[c] # row[c]
      <3>1. \/ row[c] # None /\ row[c].state = "SUPPRESSED"
            \/ Requesting(w, c, "SUPPRESSED")
        BY <2>1, <2>3, StateAfter DEF Requesting
      <3> QED BY <3>1 DEF SuppressedMatched, InState
    <2> QED BY <2>2, <2>3
  <1>3. ASSUME NEW v \in Workers, Requesting(v, c, "SUPPRESSED")'
        PROVE  HasMatch(c)
    <2>1. CASE Requesting(v, c, "SUPPRESSED")
      BY <2>1 DEF SuppressedMatched
    <2>2. CASE \E d \in Others(c) : Matches(c, job[w].normalized, d)
      BY <2>2 DEF Others, Matches, HasMatch
    <2> QED BY <1>3, <2>1, <2>2, RequestAfter
  <1> QED BY <1>1, <1>2, <1>3

\* A candidate is suppressed only for the sake of another one that matches it
\* (duplicate_reasons).
THEOREM SuppressedMatches == Spec => []SuppressedHasMatch
  <1>1. Init => SuppressedMatched
    BY DEF Init, SuppressedMatched, InState, Requesting
  <1>2. Typed /\ Asked /\ Owned /\ SuppressedMatched /\ [Next]_vars => SuppressedMatched'
    <2> SUFFICES ASSUME Typed, Asked, Owned, SuppressedMatched, [Next]_vars
                 PROVE  SuppressedMatched'
      OBVIOUS
    <2>1. ASSUME NEW w \in Workers, Start(w)
          PROVE  SuppressedMatched'
      <3> DEFINE i == job'[w]
      <3>1. /\ row' = row /\ signal' = signal /\ Begun(w, i)
            /\ \A v \in Workers \ {w} : job'[v] = job[v]
        BY <2>1, StartShape
      <3>2. i.at \notin {"read", "commit"}
        BY <3>1 DEF Begun, Early
      <3> QED BY <3>1, <3>2 DEF SuppressedMatched, HasMatch, Alike, InState, Requesting
    <2>2. ASSUME NEW w \in Workers, Fail(w) \/ Crash(w)
          PROVE  SuppressedMatched'
      <3>1. row' = row /\ signal' = signal /\ \A v \in Workers : job'[v] # None => job'[v] = job[v]
        BY <2>2, FaultFrame DEF TablesGrow
      <3> QED BY <3>1 DEF SuppressedMatched, HasMatch, Alike, InState, Requesting
    <2>3. CASE UNCHANGED vars
      BY <2>3 DEF vars, SuppressedMatched, HasMatch, Alike, InState, Requesting
    <2> QED BY <2>1, <2>2, <2>3, SuppressedStep DEF Next
  <1>3. SuppressedMatched => SuppressedHasMatch
    BY DEF SuppressedMatched, SuppressedHasMatch, HasMatch
  <1> QED BY <1>1, <1>2, <1>3, TypedAlways, AskedAlways, OwnedAlways, PTL DEF Spec

-----------------------------------------------------------------------------
(* Packets.                                                                *)

Generated == {"PACKET_GENERATED", "AWAITING_APPROVAL"}

\* What generate holds: its row is absent until its commit, its directory is
\* final from the rename on, and the row it submits is the one it inserted.
JobHolds(w) ==
  LET j == job[w] IN
  j # None /\ j.packet # None =>
    /\ j.at \in {"materialize", "read", "commit"} => packet[j.packet] = None
    /\ j.at \in {"read", "commit"} => directory[j.packet] = "final"
    /\ j.at \in {"submitRead", "submit"} => packet[j.packet].candidate = j.candidate

PacketRowsFit ==
  /\ \A k \in Packets : packet[k] # None =>
       /\ directory[k] = "final" /\ packet[k].state \in Generated
       /\ InState(packet[k].candidate, {packet[k].state})
  /\ \A k, l \in Packets :
       packet[k] # None /\ packet[l] # None /\ packet[k].candidate = packet[l].candidate => k = l
  /\ \A c \in Candidates :
       InState(c, Generated) => \E k \in Packets : packet[k] # None /\ packet[k].candidate = c

PacketsHeld == PacketRowsFit /\ NoDirectoryLeft /\ \A w \in Workers : JobHolds(w)

\* The state of a candidate that no step of its own packet changes.
LEMMA NoPacketBefore ==
  ASSUME Typed, Asked, PacketsHeld, NEW w \in Workers, Committing(w)
  PROVE  \A k \in Packets : packet[k] # None => packet[k].candidate # job[w].candidate
  <1> DEFINE c == job[w].candidate
  <1> SUFFICES ASSUME NEW k \in Packets, packet[k] # None, packet[k].candidate = c
               PROVE  FALSE
    OBVIOUS
  <1>1. row[c].state \in Generated
    BY DEF PacketsHeld, PacketRowsFit, InState
  <1>2. /\ job[w] # None /\ job[w].at = "commit" /\ job[w].read = row[c].state
    BY CommitEffect, PipelineNoneAssumption
  <1>3. JobAsked(w)
    BY DEF Asked
  <1>4. job[w].requested \in Requests /\ ValidTransition(job[w].read, job[w].requested)
    BY <1>2, <1>3 DEF JobAsked
  <1> QED BY <1>1, <1>2, <1>4 DEF Generated, Requests, ValidTransition, Transitions

\* A transition without a packet leaves the packets as they were.
LEMMA CommitWithoutPacket ==
  ASSUME Typed, Asked, Owned, PacketsHeld, NEW w \in Workers, Step(w), Committing(w),
         job[w].packet = None
  PROVE  PacketsHeld'
  <1> DEFINE c == job[w].candidate
  <1>1. /\ packet' = packet /\ directory' = directory /\ crashes' = crashes /\ job'[w] = None
        /\ c \in Candidates /\ row'[c].state = job[w].requested
        /\ \A d \in Candidates \ {c} : row'[d] = row[d]
        /\ job[w] # None /\ job[w].at = "commit"
    BY CommitEffect, PipelineNoneAssumption
  <1>2. \A v \in Workers \ {w} : job'[v] = job[v]
    BY StepFrame
  <1>3. job[w].requested \in Requests \ {"PACKET_GENERATED"}
    <2>1. JobAsked(w)
      BY DEF Asked
    <2> QED BY <1>1, <2>1 DEF JobAsked
  <1>4. \A k \in Packets : packet[k] # None => packet[k].candidate \in Candidates \ {c}
    BY NoPacketBefore DEF Typed, PipelineTypeOK, PacketRow
  <1>5. PacketRowsFit'
    <2>1. \A k \in Packets : packet'[k] # None =>
            /\ directory'[k] = "final" /\ packet'[k].state \in Generated
            /\ InState(packet[k].candidate, {packet[k].state})'
      BY <1>1, <1>4 DEF PacketsHeld, PacketRowsFit, InState
    <2>2. \A d \in Candidates : InState(d, Generated)' => d # c /\ InState(d, Generated)
      BY <1>1, <1>3 DEF InState, Generated, Requests
    <2> QED BY <1>1, <2>1, <2>2 DEF PacketsHeld, PacketRowsFit
  <1>6. NoDirectoryLeft'
    BY <1>1, <1>2, PipelineNoneAssumption DEF PacketsHeld, NoDirectoryLeft
  <1>7. \A v \in Workers : JobHolds(v)'
    BY <1>1, <1>2 DEF PacketsHeld, JobHolds
  <1> QED BY <1>5, <1>6, <1>7 DEF PacketsHeld

\* The first transaction of generate inserts the only packet of its candidate.
LEMMA CommitWithPacket ==
  ASSUME Typed, Asked, Owned, PacketsHeld, NEW w \in Workers, Step(w), Committing(w),
         job[w].packet # None
  PROVE  PacketsHeld'
  <1> DEFINE c == job[w].candidate
             k == job[w].packet
             r == [candidate |-> c, state |-> "PACKET_GENERATED"]
  <1>1. /\ packet' = [packet EXCEPT ![k] = r] /\ r # None
        /\ directory' = directory /\ crashes' = crashes
        /\ c \in Candidates /\ row'[c] # None /\ row'[c].state = job[w].requested
        /\ \A d \in Candidates \ {c} : row'[d] = row[d]
        /\ job[w] \in Job /\ job[w] # None /\ job[w].at = "commit"
        /\ job'[w] # None /\ job'[w].at = "submitRead"
    BY CommitEffect, PipelineNoneAssumption
  <1>2. /\ \A v \in Workers \ {w} : job'[v] = job[v]
        /\ job'[w].candidate = c /\ job'[w].packet = k
    BY <1>1, StepFrame DEF KeepsOrEnds
  <1>3. job[w].requested = "PACKET_GENERATED"
    <2>1. JobAsked(w)
      BY DEF Asked
    <2> QED BY <1>1, <2>1 DEF JobAsked
  <1>4. /\ k \in Packets /\ packet[k] = None /\ directory[k] = "final"
        /\ packet'[k] = r /\ \A l \in Packets \ {k} : packet'[l] = packet[l]
    BY <1>1 DEF Job, PacketsHeld, JobHolds, Typed, PipelineTypeOK
  <1>5. \A l \in Packets : packet[l] # None => packet[l].candidate \in Candidates \ {c}
    BY NoPacketBefore DEF Typed, PipelineTypeOK, PacketRow
  <1>6. r.candidate = c /\ r.state = "PACKET_GENERATED"
    OBVIOUS
  <1> HIDE DEF r
  <1>7. PacketRowsFit'
    <2>1. \A l \in Packets \ {k} : packet'[l] # None =>
            /\ directory'[l] = "final" /\ packet'[l].state \in Generated
            /\ InState(packet[l].candidate, {packet[l].state})'
      BY <1>1, <1>4, <1>5 DEF PacketsHeld, PacketRowsFit, InState
    <2>2. InState(c, {"PACKET_GENERATED"})'
      BY <1>1, <1>3, <1>2 DEF InState
    <2>3. ASSUME NEW l \in Packets, packet'[l] # None
          PROVE  /\ directory'[l] = "final" /\ packet'[l].state \in Generated
                 /\ row'[packet'[l].candidate] # None
                 /\ row'[packet'[l].candidate].state = packet'[l].state
      <3>1. CASE l = k
        BY <1>1, <1>3, <1>4, <1>6, <2>3, <3>1 DEF Generated
      <3>2. CASE l # k
        BY <1>4, <2>1, <2>3, <3>2 DEF InState
      <3> QED BY <3>1, <3>2
    <2>4. \A l, m \in Packets :
            packet'[l] # None /\ packet'[m] # None /\ packet'[l].candidate = packet'[m].candidate
              => l = m
      BY <1>4, <1>5, <1>6 DEF PacketsHeld, PacketRowsFit
    <2>5. \A d \in Candidates : InState(d, Generated)' => d = c \/ InState(d, Generated)
      BY <1>1 DEF InState
    <2>6. \A d \in Candidates : InState(d, Generated)' =>
            \E l \in Packets : packet'[l] # None /\ packet'[l].candidate = d
      BY <1>1, <1>4, <1>6, <2>5 DEF PacketsHeld, PacketRowsFit
    <2> QED BY <2>3, <2>4, <2>6 DEF PacketRowsFit, InState
  <1>8. NoDirectoryLeft'
    BY <1>1, <1>2, <1>4 DEF PacketsHeld, NoDirectoryLeft
  <1>9. \A v \in Workers : JobHolds(v)'
    <2>1. JobHolds(w)'
      BY <1>1, <1>2, <1>4, <1>6 DEF JobHolds
    <2>2. ASSUME NEW v \in Workers \ {w}
          PROVE  JobHolds(v)'
      <3>1. job[v] # None /\ job[v].packet # None => job[v].packet \in Packets \ {k}
        BY <1>1, TransitionReady DEF Job, Owned, PacketsOwned
      <3> QED BY <1>1, <1>2, <1>4, <3>1 DEF PacketsHeld, JobHolds
    <2> QED BY <2>1, <2>2
  <1> QED BY <1>7, <1>8, <1>9 DEF PacketsHeld

\* The second transaction of generate moves the packet together with its candidate.
LEMMA SubmitKeepsPackets ==
  ASSUME Typed, Asked, Owned, PacketsHeld, NEW w \in Workers, Step(w), Submitting(w)
  PROVE  PacketsHeld'
  <1> DEFINE k == job[w].packet
             c == packet[k].candidate
  <1>1. /\ job[w] # None /\ k \in Packets /\ c \in Candidates /\ packet[k] # None
        /\ row[c] # None /\ row[c].state = job[w].read
        /\ row'[c] # None /\ row'[c].state = "AWAITING_APPROVAL"
        /\ \A d \in Candidates \ {c} : row'[d] = row[d]
        /\ packet'[k] # None /\ packet'[k].state = "AWAITING_APPROVAL"
        /\ packet'[k].candidate = c
        /\ \A l \in Packets \ {k} : packet'[l] = packet[l]
        /\ job'[w] = None /\ directory' = directory /\ crashes' = crashes
    BY SubmitEffect, PipelineNoneAssumption
  <1>2. \A v \in Workers \ {w} : job'[v] = job[v]
    BY StepFrame
  <1>3. \A l \in Packets \ {k} :
          packet[l] # None => packet[l].candidate \in Candidates \ {c}
    BY <1>1 DEF PacketsHeld, PacketRowsFit, Typed, PipelineTypeOK, PacketRow
  <1> HIDE DEF c
  <1>4. PacketRowsFit'
    <2>1. ASSUME NEW l \in Packets, packet'[l] # None
          PROVE  /\ directory'[l] = "final" /\ packet'[l].state \in Generated
                 /\ row'[packet'[l].candidate] # None
                 /\ row'[packet'[l].candidate].state = packet'[l].state
      <3>1. CASE l = k
        BY <1>1, <2>1, <3>1 DEF PacketsHeld, PacketRowsFit, Generated
      <3>2. CASE l # k
        BY <1>1, <1>3, <2>1, <3>2 DEF PacketsHeld, PacketRowsFit, InState
      <3> QED BY <3>1, <3>2
    <2>2. \A l, m \in Packets :
            packet'[l] # None /\ packet'[m] # None /\ packet'[l].candidate = packet'[m].candidate
              => l = m
      BY <1>1, <1>3 DEF PacketsHeld, PacketRowsFit
    <2>3. \A d \in Candidates : InState(d, Generated)' => d = c \/ InState(d, Generated)
      BY <1>1 DEF InState
    <2>4. \A d \in Candidates : InState(d, Generated)' =>
            \E l \in Packets : packet'[l] # None /\ packet'[l].candidate = d
      <3> SUFFICES ASSUME NEW d \in Candidates, InState(d, Generated)'
                   PROVE  \E l \in Packets : packet'[l] # None /\ packet'[l].candidate = d
        OBVIOUS
      <3>1. CASE d = c
        BY <1>1, <3>1
      <3>2. CASE d # c
        <4>1. PICK l \in Packets : packet[l] # None /\ packet[l].candidate = d
          BY <2>3, <3>2 DEF PacketsHeld, PacketRowsFit
        <4>2. l # k
          BY <3>2, <4>1 DEF c
        <4> QED BY <1>1, <4>1, <4>2
      <3> QED BY <3>1, <3>2
    <2> QED BY <2>1, <2>2, <2>4 DEF PacketRowsFit, InState
  <1>5. NoDirectoryLeft'
    BY <1>1, <1>2, PipelineNoneAssumption DEF PacketsHeld, NoDirectoryLeft
  <1>6. \A v \in Workers : JobHolds(v)'
    <2> SUFFICES ASSUME NEW v \in Workers \ {w}
                 PROVE  JobHolds(v)'
      BY <1>1 DEF JobHolds
    <2>1. job[v] # None /\ job[v].packet # None => job[v].packet \in Packets \ {k}
      BY <1>1, TransitionReady, PipelineNoneAssumption DEF Job, Owned, PacketsOwned
    <2> QED BY <1>1, <1>2, <2>1 DEF PacketsHeld, JobHolds
  <1> QED BY <1>4, <1>5, <1>6 DEF PacketsHeld

\* Whatever leaves the packet rows and the states of their candidates alone,
\* and the directories of those packets, keeps them fitting.
LEMMA RowsStillFit ==
  ASSUME Typed, PacketRowsFit, packet' = packet,
         \A k \in Packets : packet[k] # None => directory'[k] = directory[k],
         \A c \in Candidates : \A s \in Generated : InState(c, {s})' <=> InState(c, {s})
  PROVE  PacketRowsFit'
  <1>1. \A k \in Packets : packet[k] # None => packet[k].candidate \in Candidates
    BY DEF Typed, PipelineTypeOK, PacketRow
  <1>2. \A c \in Candidates : InState(c, Generated)' => InState(c, Generated)
    BY DEF InState, Generated
  <1>3. \A k \in Packets : packet[k] # None =>
          /\ directory'[k] = "final" /\ packet[k].state \in Generated
          /\ InState(packet[k].candidate, {packet[k].state})'
    BY <1>1 DEF PacketRowsFit, InState
  <1> QED BY <1>2, <1>3 DEF PacketRowsFit

\* What a command that raises, fails or dies leaves (the handlers of generate).
LEMMA EndKeepsPackets ==
  ASSUME Typed, Asked, Owned, PacketsHeld, NEW w \in Workers, job[w] # None,
         Ends(w), UNCHANGED <<row, packet>>,
         \/ directory' = CleanedUp(w) /\ crashes' = crashes
         \/ directory' = directory /\ crashes' = crashes + 1
  PROVE  PacketsHeld'
  <1> DEFINE k == job[w].packet
  <1>1. /\ job'[w] = None /\ \A v \in Workers \ {w} : job'[v] = job[v]
        /\ job[w] \in Job /\ crashes \in Nat
    BY TransitionReady DEF Ends, Typed, PipelineTypeOK
  <1>2. \A l \in Packets : \/ directory'[l] = directory[l]
                           \/ l = k /\ packet[k] = None /\ directory'[l] = "none"
    BY DEF CleanedUp, Typed, PipelineTypeOK
  <1>3. PacketRowsFit'
    BY <1>2, RowsStillFit DEF PacketsHeld, InState
  <1>4. NoDirectoryLeft'
    <2>1. CASE directory' = CleanedUp(w) /\ crashes' = crashes
      <3> SUFFICES ASSUME crashes = 0, NEW l \in Packets, directory'[l] # "none"
                   PROVE  packet[l] # None \/ \E v \in Workers : job'[v] # None /\ job'[v].packet = l
        BY <2>1 DEF NoDirectoryLeft
      <3>1. CASE l = k /\ packet[k] = None
        BY <2>1, <3>1, PipelineNoneAssumption DEF CleanedUp, Typed, PipelineTypeOK
      <3>2. CASE l = k /\ packet[k] # None
        BY <3>2
      <3>3. CASE l # k
        BY <1>1, <1>2, <3>3 DEF PacketsHeld, NoDirectoryLeft
      <3> QED BY <3>1, <3>2, <3>3
    <2>2. CASE crashes' = crashes + 1
      BY <1>1, <2>2 DEF NoDirectoryLeft
    <2> QED BY <2>1, <2>2
  <1>5. \A v \in Workers : JobHolds(v)'
    <2> SUFFICES ASSUME NEW v \in Workers \ {w}
                 PROVE  JobHolds(v)'
      BY <1>1 DEF JobHolds
    <2>1. job[v] # None /\ job[v].packet # None =>
            job[v].packet \in Packets /\ job[v].packet # k
      BY TransitionReady DEF Job, Owned, PacketsOwned
    <2> QED BY <1>1, <1>2, <2>1 DEF PacketsHeld, JobHolds
  <1> QED BY <1>3, <1>4, <1>5 DEF PacketsHeld

\* Every other step of a command.
LEMMA StepKeepsPackets ==
  ASSUME Typed, Asked, Owned, PacketsHeld, NEW w \in Workers, Step(w)
  PROVE  PacketsHeld'
  <1>1. /\ \A v \in Workers \ {w} : job'[v] = job[v]
        /\ job'[w] # None => /\ job'[w].candidate = job[w].candidate
                             /\ job'[w].packet = job[w].packet /\ Proceeded(job[w], job'[w])
    BY StepFrame DEF KeepsOrEnds
  <1>2. job[w] # None /\ job[w] \in Job /\ JobAsked(w)
    <2>1. job[w] # None
      BY DEF Step, CopySource, InsertCandidate, InsertEvidence, WriteCandidateFile,
             WriteEvidenceFile, WriteNormalFile, UpdateNormalized, Compare,
             StoreClassification, Materialize, ReadState, Commit, SubmitRead, Submit, At
    <2> QED BY <2>1, TransitionReady DEF Asked
  <1>3. CASE Committing(w)
    BY <1>3, CommitWithPacket, CommitWithoutPacket
  <1>4. CASE Submitting(w)
    BY <1>4, SubmitKeepsPackets
  <1>5. CASE Raises(w)
    BY <1>2, <1>5, EndKeepsPackets DEF Raises
  <1>6. CASE Materialize(w)
    <2> DEFINE k == job[w].packet
    <2>1. /\ job[w].at = "materialize" /\ k \in Packets /\ packet[k] = None
          /\ UNCHANGED <<row, packet, crashes>>
          /\ directory' = [directory EXCEPT ![k] = "final"]
      BY <1>2, <1>6, TransitionReady, PipelineNoneAssumption
         DEF Materialize, At, PacketsHeld, JobHolds
    <2>2. job'[w] # None
      <3> DEFINE j == [job[w] EXCEPT !.at = "read", !.requested = "PACKET_GENERATED",
                                     !.normalized = FALSE]
      <3>1. job' = [job EXCEPT ![w] = j] /\ j \in Job
        BY <1>2, <1>6, JobAfter DEF Materialize, WorkflowState
      <3> QED BY <3>1, PipelineNoneAssumption DEF Typed, PipelineTypeOK
    <2>3. PacketRowsFit'
      BY <2>1, RowsStillFit DEF PacketsHeld, InState, Typed, PipelineTypeOK
    <2>4. NoDirectoryLeft'
      BY <1>1, <1>2, <2>1, <2>2 DEF PacketsHeld, NoDirectoryLeft, Typed, PipelineTypeOK
    <2>5. \A l \in Packets : directory[l] = "final" => directory'[l] = "final"
      BY <2>1 DEF Typed, PipelineTypeOK
    <2>6. JobHolds(w)'
      <3>1. job'[w].at = "read" /\ job'[w].packet = k
        BY <1>1, <2>1, <2>2 DEF Proceeded, Follows, AsksFor
      <3> QED BY <2>1, <3>1 DEF JobHolds, Typed, PipelineTypeOK
    <2>7. \A v \in Workers \ {w} : JobHolds(v)'
      <3> SUFFICES ASSUME NEW v \in Workers \ {w} PROVE JobHolds(v)'
        OBVIOUS
      <3>1. job[v] # None /\ job[v].packet # None => job[v].packet \in Packets
        BY TransitionReady DEF Job
      <3> QED BY <1>1, <2>1, <2>5, <3>1 DEF PacketsHeld, JobHolds
    <2> QED BY <2>3, <2>4, <2>6, <2>7 DEF PacketsHeld
  <1>7. CASE InsertCandidate(w) \/ UpdateNormalized(w) \/ Quiet(w)
    <2>1. packet' = packet /\ directory' = directory /\ crashes' = crashes
      BY <1>7 DEF InsertCandidate, UpdateNormalized, Quiet
    <2>2. (job[w].at # "commit" /\ job[w].at # "submit") \/ row' = row
      BY <1>7 DEF InsertCandidate, UpdateNormalized, Quiet, At
    <2>3. \A c \in Candidates : \A s \in Generated : InState(c, {s})' <=> InState(c, {s})
      <3> SUFFICES ASSUME NEW c \in Candidates, row'[c] # row[c]
                   PROVE  \A s \in Generated : InState(c, {s})' <=> InState(c, {s})
        BY DEF InState
      <3>1. ~Submitting(w) /\ ~Committing(w)
        BY <2>2 DEF Submitting, Submit, Committing, Commit, At
      <3>2. \/ row[c] = None /\ row'[c] # None /\ row'[c].state = "DISCOVERED"
            \/ row[c] # None /\ row'[c] # None /\ row'[c].state = row[c].state
        BY <3>1, RowAfter
      <3> QED BY <3>2 DEF InState, Generated
    <2>4. PacketRowsFit'
      BY <2>1, <2>3, RowsStillFit DEF PacketsHeld
    <2>5. job'[w] = None => job[w].packet = None
      <3>1. job'[w] = None => job[w].at = "classify"
        <4>1. InsertCandidate(w) => job'[w] # None
          <5>1. InsertCandidate(w) => GoesTo(w, "evidence")
            BY DEF InsertCandidate
          <5>2. InsertCandidate(w) => /\ job' = [job EXCEPT ![w] = [job[w] EXCEPT !.at = "evidence"]]
                                      /\ [job[w] EXCEPT !.at = "evidence"] \in Job
            BY <1>2, <5>1, JobAfter DEF Phase
          <5> QED BY <5>2, PipelineNoneAssumption DEF Typed, PipelineTypeOK
        <4>2. UpdateNormalized(w) => job'[w] # None
          <5> DEFINE j == [job[w] EXCEPT !.at = "read", !.requested = "NORMALIZED",
                                         !.normalized = FALSE]
          <5>1. UpdateNormalized(w) => job' = [job EXCEPT ![w] = j] /\ j \in Job
            BY <1>2, JobAfter DEF UpdateNormalized, WorkflowState
          <5> QED BY <5>1, PipelineNoneAssumption DEF Typed, PipelineTypeOK
        <4> QED BY <1>7, <4>1, <4>2 DEF Quiet, At
      <3> QED BY <1>2, <3>1 DEF JobAsked
    <2>6. NoDirectoryLeft'
      <3> SUFFICES ASSUME crashes = 0, NEW k \in Packets, directory[k] # "none", packet[k] = None
                   PROVE  \E v \in Workers : job'[v] # None /\ job'[v].packet = k
        BY <2>1 DEF NoDirectoryLeft
      <3>1. PICK v \in Workers : job[v] # None /\ job[v].packet = k
        BY DEF PacketsHeld, NoDirectoryLeft
      <3>2. job'[v] # None /\ job'[v].packet = k
        BY <1>1, <2>5, <3>1, PipelineNoneAssumption
      <3> QED BY <3>2
    <2>7. JobHolds(w)'
      <3> SUFFICES ASSUME job'[w] # None, job[w].packet # None
                   PROVE  JobHolds(w)'
        BY <1>1 DEF JobHolds
      <3>1. JobHolds(w) /\ job'[w].candidate = job[w].candidate /\ job'[w].packet = job[w].packet
        BY <1>1 DEF PacketsHeld
      <3>2. \/ job[w].at = "materialize" /\ job'[w].at = "read"
            \/ job[w].at = "read" /\ job'[w].at = "commit"
            \/ job[w].at = "commit" /\ job'[w].at = "submitRead"
            \/ job[w].at = "submitRead" /\ job'[w].at = "submit"
        BY <1>1, <1>2 DEF Proceeded, Follows, AsksFor, JobAsked
      <3>3. job[w].at # "materialize" /\ job[w].at # "commit"
        BY <1>7 DEF InsertCandidate, UpdateNormalized, Quiet, At
      <3> QED BY <1>2, <2>1, <3>1, <3>2, <3>3 DEF JobHolds
    <2>8. \A v \in Workers \ {w} : JobHolds(v)'
      BY <1>1, <2>1 DEF PacketsHeld, JobHolds
    <2> QED BY <2>4, <2>6, <2>7, <2>8 DEF PacketsHeld
  <1> QED BY <1>3, <1>4, <1>5, <1>6, <1>7, StepKinds

-----------------------------------------------------------------------------
(* The packets, at every step.                                             *)

\* The first step of generate takes a packet that is no one's.
LEMMA StartKeepsPackets ==
  ASSUME Typed, Asked, Owned, PacketsHeld, NEW w \in Workers, Start(w)
  PROVE  PacketsHeld'
  <1> DEFINE i == job'[w]
             k == i.packet
  <1>1. /\ job[w] = None /\ i # None /\ Begun(w, i)
        /\ row' = row /\ packet' = packet /\ crashes' = crashes
        /\ \A v \in Workers \ {w} : job'[v] = job[v]
    BY StartShape
  <1>2. \/ directory' = directory /\ k = None
        \/ /\ k \in Packets /\ Unused(k) /\ i.at = "materialize"
           /\ directory' = [directory EXCEPT ![k] = "temporary"]
    BY <1>1 DEF Begun
  <1>3. \A l \in Packets : directory'[l] = directory[l] \/ (l = k /\ Unused(k))
    BY <1>2 DEF Typed, PipelineTypeOK
  <1>4. \A v \in Workers : job[v] # None => k = None \/ job[v].packet # k
    BY <1>2 DEF Unused
  <1>5. k # None => packet[k] = None /\ i.at = "materialize"
    BY <1>2 DEF Unused
  <1> HIDE DEF i
  <1>6. PacketRowsFit'
    BY <1>1, <1>3, RowsStillFit DEF PacketsHeld, InState, Unused
  <1>7. NoDirectoryLeft'
    <2> SUFFICES ASSUME crashes = 0, NEW l \in Packets, directory'[l] # "none", packet[l] = None
                 PROVE  \E v \in Workers : job'[v] # None /\ job'[v].packet = l
      BY <1>1 DEF NoDirectoryLeft
    <2>1. CASE directory'[l] # directory[l]
      BY <1>1, <1>3, <2>1 DEF i
    <2>2. CASE directory'[l] = directory[l]
      <3>1. PICK v \in Workers : job[v] # None /\ job[v].packet = l
        BY <2>2 DEF PacketsHeld, NoDirectoryLeft
      <3> QED BY <1>1, <3>1
    <2> QED BY <2>1, <2>2
  <1>8. JobHolds(w)'
    BY <1>1, <1>5 DEF JobHolds, i
  <1>9. \A v \in Workers \ {w} : JobHolds(v)'
    <2> SUFFICES ASSUME NEW v \in Workers \ {w}
                 PROVE  JobHolds(v)'
      OBVIOUS
    <2>1. job[v] # None /\ job[v].packet # None => job[v].packet \in Packets
      BY TransitionReady DEF Job
    <2> QED BY <1>1, <1>3, <1>4, <2>1 DEF PacketsHeld, JobHolds
  <1> QED BY <1>6, <1>7, <1>8, <1>9 DEF PacketsHeld

\* Packet rows, candidate states, directories and running generates agree, at
\* every interleaving and whatever raises or dies.
THEOREM PacketsHeldAlways == Spec => []PacketsHeld
  <1>1. Init => PacketsHeld
    BY DEF Init, PacketsHeld, PacketRowsFit, NoDirectoryLeft, JobHolds, InState
  <1>2. Typed /\ Asked /\ Owned /\ PacketsHeld /\ [Next]_vars => PacketsHeld'
    <2> SUFFICES ASSUME Typed, Asked, Owned, PacketsHeld, [Next]_vars PROVE PacketsHeld'
      OBVIOUS
    <2>1. ASSUME NEW w \in Workers, Fail(w) \/ Crash(w)
          PROVE  PacketsHeld'
      BY <2>1, EndKeepsPackets DEF Fail, Crash
    <2>2. CASE UNCHANGED vars
      BY <2>2 DEF vars, PacketsHeld, PacketRowsFit, NoDirectoryLeft, JobHolds, InState
    <2> QED BY <2>1, <2>2, StartKeepsPackets, StepKeepsPackets DEF Next
  <1> QED BY <1>1, <1>2, TypedAlways, AskedAlways, OwnedAlways, PTL DEF Spec

\* Every packet row has its directory and the state of its candidate, and every
\* candidate from PACKET_GENERATED on has a packet row.
THEOREM PacketsMirror == Spec => []PacketsMirrorCandidates
  <1>1. PacketsHeld => PacketsMirrorCandidates
    BY DEF PacketsHeld, PacketRowsFit, PacketsMirrorCandidates, Generated
  <1> QED BY <1>1, PacketsHeldAlways, PTL

\* While no process died, no packet directory is left behind: whatever raises in
\* generate, its handlers take the directory away or the row keeps it.
THEOREM NoDirectoryIsLeft == Spec => []NoDirectoryLeft
  <1>1. PacketsHeld => NoDirectoryLeft
    BY DEF PacketsHeld
  <1> QED BY <1>1, PacketsHeldAlways, PTL

-----------------------------------------------------------------------------
(* The pipeline implements the lifecycle of a candidate.                   *)

StatusOf == [c \in Candidates |-> IF row[c] = None THEN None ELSE row[c].state]

PacketsOf == [c \in Candidates |-> {k \in Packets : packet[k] # None /\ packet[k].candidate = c}]

\* Steps that leave the states of the candidates alone are not seen.
LEMMA SameLifecycle ==
  ASSUME Typed, packet' = packet,
         \A c \in Candidates : /\ row'[c] = None <=> row[c] = None
                               /\ row[c] # None => row'[c].state = row[c].state
  PROVE  UNCHANGED <<StatusOf, PacketsOf>>
  <1>1. StatusOf' = StatusOf
    BY DEF StatusOf
  <1>2. PacketsOf' = PacketsOf
    BY DEF PacketsOf
  <1> QED BY <1>1, <1>2

\* The one state a step moves, in the lifecycle.
LEMMA StatusMoves ==
  ASSUME Typed, NEW c \in Candidates, row[c] # None \/ row'[c].state = "DISCOVERED",
         row'[c] # None, \A d \in Candidates \ {c} : row'[d] = row[d]
  PROVE  StatusOf' = [StatusOf EXCEPT ![c] = row'[c].state]
  BY DEF StatusOf

\* Both modules use the same map.
LEMMA SameMap == Lifecycle!Transitions = Transitions
  BY DEF Lifecycle!Transitions, Transitions

\* A transition without a packet is a move of its candidate.
LEMMA CommitMoves ==
  ASSUME Typed, Asked, NEW w \in Workers, Committing(w), job[w].packet = None,
         NEW c \in Candidates, c = job[w].candidate
  PROVE  Lifecycle!Move(c)
  <1>2. /\ job[w] # None /\ job[w].at = "commit" /\ row[c] # None
        /\ row[c].state = job[w].read /\ row'[c] # None /\ row'[c].state = job[w].requested
        /\ packet' = packet /\ \A d \in Candidates \ {c} : row'[d] = row[d]
    BY CommitEffect, PipelineNoneAssumption
  <1>3. JobAsked(w)
    BY DEF Asked
  <1>4. job[w].requested \in Transitions[row[c].state] \ {"PACKET_GENERATED"}
    BY <1>2, <1>3 DEF JobAsked, ValidTransition
  <1>5. StatusOf' = [StatusOf EXCEPT ![c] = job[w].requested]
    BY <1>2, StatusMoves
  <1>6. StatusOf[c] = row[c].state /\ StatusOf[c] # None
    <2>1. row[c] \in CandidateRow
      BY <1>2 DEF Typed, PipelineTypeOK
    <2> QED BY <1>2, <2>1, PipelineNoneAssumption DEF StatusOf, CandidateRow
  <1>7. PacketsOf' = PacketsOf
    BY <1>2 DEF PacketsOf
  <1> QED BY <1>4, <1>5, <1>6, <1>7, SameMap DEF Lifecycle!Move, StatusOf, PacketsOf

\* The first transaction of generate gives its candidate the only packet.
LEMMA CommitGenerates ==
  ASSUME Typed, Asked, Owned, PacketsHeld, NEW w \in Workers, Committing(w),
         job[w].packet # None, NEW c \in Candidates, c = job[w].candidate
  PROVE  Lifecycle!Generate(c)
  <1> DEFINE k == job[w].packet
             r == [candidate |-> c, state |-> "PACKET_GENERATED"]
  <1>2. /\ job[w] # None /\ job[w] \in Job /\ job[w].at = "commit" /\ row[c] # None
        /\ row[c].state = job[w].read /\ row'[c] # None /\ row'[c].state = job[w].requested
        /\ \A d \in Candidates \ {c} : row'[d] = row[d]
        /\ packet' = [packet EXCEPT ![k] = r] /\ r # None
    BY CommitEffect, PipelineNoneAssumption
  <1>3. JobAsked(w)
    BY DEF Asked
  <1>4. job[w].requested = "PACKET_GENERATED" /\ ValidTransition(row[c].state, "PACKET_GENERATED")
    BY <1>2, <1>3 DEF JobAsked
  <1>5. StatusOf' = [StatusOf EXCEPT ![c] = "PACKET_GENERATED"]
    BY <1>2, <1>4, StatusMoves
  <1>6. StatusOf[c] = row[c].state /\ StatusOf[c] # None
    <2>1. row[c] \in CandidateRow
      BY <1>2 DEF Typed, PipelineTypeOK
    <2> QED BY <1>2, <2>1, PipelineNoneAssumption DEF StatusOf, CandidateRow
  <1>7. /\ k \in Packets /\ packet[k] = None
        /\ packet'[k] = r /\ \A l \in Packets \ {k} : packet'[l] = packet[l]
    BY <1>2 DEF Job, PacketsHeld, JobHolds, Typed, PipelineTypeOK
  <1>8. \A l \in Packets : packet[l] # None => packet[l].candidate # c
    BY NoPacketBefore
  <1>9. r.candidate = c
    OBVIOUS
  <1> HIDE DEF r, k
  <1>10. PacketsOf[c] = {} /\ \A d \in Candidates : k \notin PacketsOf[d]
    BY <1>7, <1>8 DEF PacketsOf
  <1>11. PacketsOf' = [PacketsOf EXCEPT ![c] = {k}]
    <2>1. \A d \in Candidates : PacketsOf'[d] = IF d = c THEN {k} ELSE PacketsOf[d]
      BY <1>2, <1>7, <1>8, <1>9 DEF PacketsOf
    <2> QED BY <2>1 DEF PacketsOf
  <1> QED BY <1>4, <1>5, <1>6, <1>7, <1>10, <1>11
          DEF Lifecycle!Generate, Lifecycle!ValidTransition, Lifecycle!Transitions,
              ValidTransition, Transitions, StatusOf, PacketsOf

\* The second transaction of generate is a move of its candidate.
LEMMA SubmitMoves ==
  ASSUME Typed, Asked, NEW w \in Workers, Submitting(w),
         NEW c \in Candidates, c = packet[job[w].packet].candidate
  PROVE  Lifecycle!Move(c)
  <1> DEFINE k == job[w].packet
  <1>2. /\ job[w] # None /\ job[w].at = "submit" /\ row[c] # None /\ k \in Packets
        /\ row[c].state = job[w].read /\ row'[c] # None /\ row'[c].state = "AWAITING_APPROVAL"
        /\ \A d \in Candidates \ {c} : row'[d] = row[d]
        /\ packet[k] # None /\ packet'[k] # None /\ packet'[k].candidate = c
        /\ \A l \in Packets \ {k} : packet'[l] = packet[l]
    BY SubmitEffect, PipelineNoneAssumption
  <1>3. JobAsked(w)
    BY DEF Asked
  <1>4. "AWAITING_APPROVAL" \in Transitions[row[c].state] \ {"PACKET_GENERATED"}
    BY <1>2, <1>3 DEF JobAsked, Transitions
  <1>5. StatusOf' = [StatusOf EXCEPT ![c] = "AWAITING_APPROVAL"]
    BY <1>2, StatusMoves
  <1>6. StatusOf[c] = row[c].state /\ StatusOf[c] # None
    <2>1. row[c] \in CandidateRow
      BY <1>2 DEF Typed, PipelineTypeOK
    <2> QED BY <1>2, <2>1, PipelineNoneAssumption DEF StatusOf, CandidateRow
  <1>7. PacketsOf' = PacketsOf
    <2>1. \A l \in Packets : /\ packet'[l] = None <=> packet[l] = None
                             /\ packet[l] # None => packet'[l].candidate = packet[l].candidate
      BY <1>2
    <2> QED BY <2>1 DEF PacketsOf
  <1> QED BY <1>4, <1>5, <1>6, <1>7, SameMap DEF Lifecycle!Move, StatusOf, PacketsOf

\* Every step is a step of the lifecycle or leaves it alone.
LEMMA LifecycleStep ==
  ASSUME Typed, Asked, Owned, PacketsHeld, [Next]_vars
  PROVE  Lifecycle!Next \/ UNCHANGED <<StatusOf, PacketsOf>>
  <1>1. ASSUME NEW w \in Workers, Start(w) \/ Fail(w) \/ Crash(w)
        PROVE  UNCHANGED <<StatusOf, PacketsOf>>
    <2>1. row' = row /\ packet' = packet
      BY <1>1, StartShape DEF Fail, Crash
    <2> QED BY <2>1, SameLifecycle
  <1>2. CASE UNCHANGED vars
    BY <1>2, SameLifecycle DEF vars
  <1>3. ASSUME NEW w \in Workers, Step(w)
        PROVE  Lifecycle!Next \/ UNCHANGED <<StatusOf, PacketsOf>>
    <2>1. CASE Committing(w)
      <3>1. PICK c \in Candidates : c = job[w].candidate
        BY <2>1, CommitEffect
      <3>2. Lifecycle!Move(c) \/ Lifecycle!Generate(c)
        BY <2>1, <3>1, CommitMoves, CommitGenerates
      <3> QED BY <3>2, Zenon DEF Lifecycle!Next
    <2>2. CASE Submitting(w)
      <3>1. PICK c \in Candidates : c = packet[job[w].packet].candidate
        BY <2>2, SubmitEffect
      <3>2. Lifecycle!Move(c)
        BY <2>2, <3>1, SubmitMoves
      <3> QED BY <3>2, Zenon DEF Lifecycle!Next
    <2>3. CASE InsertCandidate(w)
      <3>1. PICK c \in Candidates : c = job[w].candidate /\ row[c] = None
        BY <1>3, <2>3, TransitionReady DEF InsertCandidate, At, Early, Owned, JobOwned, Job
      <3> DEFINE r == [state |-> "DISCOVERED", normalized |-> FALSE]
      <3>2. row' = [row EXCEPT ![c] = r] /\ packet' = packet
        BY <2>3, <3>1 DEF InsertCandidate
      <3>3. r.state = "DISCOVERED" /\ r \in CandidateRow
        BY DEF CandidateRow, WorkflowState
      <3> HIDE DEF r
      <3>4. row'[c] # None /\ row'[c].state = "DISCOVERED" /\ \A d \in Candidates \ {c} : row'[d] = row[d]
        BY <3>2, <3>3, PipelineNoneAssumption DEF Typed, PipelineTypeOK
      <3>5. StatusOf' = [StatusOf EXCEPT ![c] = "DISCOVERED"] /\ StatusOf[c] = None
        BY <3>1, <3>4, StatusMoves DEF StatusOf
      <3>6. PacketsOf' = PacketsOf
        BY <3>2 DEF PacketsOf
      <3> QED BY <3>5, <3>6 DEF Lifecycle!Next, Lifecycle!Discover, StatusOf, PacketsOf
    <2>4. CASE \/ UpdateNormalized(w) \/ Materialize(w) \/ Raises(w) \/ Quiet(w)
      <3>1. packet' = packet
        BY <2>4 DEF UpdateNormalized, Materialize, Raises, Quiet
      <3>2. CASE row' = row
        BY <3>1, <3>2, SameLifecycle
      <3>3. CASE UpdateNormalized(w)
        <4>1. At(w, "normalRow")
          BY <3>3 DEF UpdateNormalized
        <4>2. \A c \in Candidates : row'[c] # row[c] =>
                row'[c] # None /\ row[c] # None /\ row'[c].state = row[c].state
          BY <1>3, <4>1, RowAfter DEF At, Committing, Commit, Submitting, Submit
        <4> QED BY <3>1, <4>2, SameLifecycle
      <3> QED BY <2>4, <3>2, <3>3 DEF Materialize, Raises, Quiet
    <2> QED BY <1>3, <2>1, <2>2, <2>3, <2>4, StepKinds
  <1> QED BY <1>1, <1>2, <1>3 DEF Next

\* The pipeline implements the lifecycle: whatever two commands read before, a
\* candidate moves along the map one state at a time and gets one packet.
THEOREM PipelineImplements == Spec => ImplementsLifecycle
  <1>1. Init => Lifecycle!Init
    BY DEF Init, Lifecycle!Init
  <1>2. Typed /\ Asked /\ Owned /\ PacketsHeld /\ [Next]_vars =>
          Lifecycle!Next \/ UNCHANGED <<StatusOf, PacketsOf>>
    BY LifecycleStep
  <1> QED BY <1>1, <1>2, TypedAlways, AskedAlways, OwnedAlways, PacketsHeldAlways, PTL
          DEF Spec, ImplementsLifecycle, Lifecycle!Spec, StatusOf, PacketsOf

-----------------------------------------------------------------------------
(* What is abandoned stays abandoned: the safety half of FinishedOrAbandoned. *)

\* Which command is behind each step and each request.
JobCommanded(w) ==
  LET j == job[w] IN
  j # None =>
    /\ j.command = "ingest" <=>
         \/ j.at \in Early \cup {"evidence", "candidateFile", "evidenceFile"}
         \/ j.at \in {"read", "commit"} /\ j.requested = "EVIDENCE_PRESERVED"
    /\ j.command = "normalize" <=>
         \/ j.at \in {"normalFile", "normalRow"}
         \/ j.at \in {"read", "commit"} /\ j.requested = "NORMALIZED"
    /\ j.command = "generate" <=> j.packet # None

Commanded == \A w \in Workers : JobCommanded(w)

\* A step of a command keeps it.
LEMMA CommandedStep ==
  ASSUME Typed, Asked, Commanded, NEW w \in Workers, Step(w)
  PROVE  Commanded'
  <1>1. \A v \in Workers \ {w} : job'[v] = job[v]
    BY StepFrame
  <1>2. job[w] # None
    BY DEF Step, CopySource, InsertCandidate, InsertEvidence, WriteCandidateFile,
           WriteEvidenceFile, WriteNormalFile, UpdateNormalized, Compare,
           StoreClassification, Materialize, ReadState, Commit, SubmitRead, Submit, At
  <1>3. JobCommanded(w)'
    <2> DEFINE j == job[w]
               i == job'[w]
    <2> SUFFICES ASSUME i # None PROVE JobCommanded(w)'
      BY DEF JobCommanded
    <2>1. i.command = j.command /\ i.packet = j.packet /\ Proceeded(j, i)
      BY StepFrame DEF KeepsOrEnds
    <2>2. JobCommanded(w) /\ JobAsked(w)
      BY DEF Commanded, Asked
    <2>3. CASE <<j.at, i.at>> \in Follows
      BY <1>2, <2>1, <2>2, <2>3 DEF Follows, JobCommanded, Early
    <2>4. CASE <<j.at, i.requested>> \in AsksFor /\ i.at = "read"
      BY <1>2, <2>1, <2>2, <2>4 DEF AsksFor, JobCommanded, Early
    <2>5. CASE j.at = "read" /\ i.at = "commit" /\ i.requested = j.requested
      BY <1>2, <2>1, <2>2, <2>5 DEF JobCommanded, Early
    <2>6. CASE j.at = "commit" /\ i.at = "submitRead" /\ j.packet # None
      BY <1>2, <2>1, <2>2, <2>6 DEF JobCommanded, JobAsked, Early
    <2>7. CASE j.at = "submitRead" /\ i.at = "submit"
      BY <1>2, <2>1, <2>2, <2>7 DEF JobCommanded, Early
    <2> QED BY <2>1, <2>3, <2>4, <2>5, <2>6, <2>7 DEF Proceeded
  <1> QED BY <1>1, <1>3 DEF Commanded, JobCommanded

\* Every step and every request belongs to one command.
THEOREM CommandedAlways == Spec => []Commanded
  <1>1. Init => Commanded
    BY DEF Init, Commanded, JobCommanded
  <1>2. Typed /\ Asked /\ Commanded /\ [Next]_vars => Commanded'
    <2> SUFFICES ASSUME Typed, Asked, Commanded, [Next]_vars PROVE Commanded'
      OBVIOUS
    <2>1. ASSUME NEW w \in Workers, Start(w)
          PROVE  Commanded'
      <3>1. job'[w] # None /\ Begun(w, job'[w]) /\ \A v \in Workers \ {w} : job'[v] = job[v]
        BY <2>1, StartShape
      <3>2. JobCommanded(w)'
        BY <3>1, PipelineNoneAssumption DEF Begun, JobCommanded, Early
      <3> QED BY <3>1, <3>2 DEF Commanded, JobCommanded
    <2>2. ASSUME NEW w \in Workers, Fail(w) \/ Crash(w)
          PROVE  Commanded'
      BY <2>2, FaultFrame DEF Commanded, JobCommanded
    <2>3. CASE UNCHANGED vars
      BY <2>3 DEF vars, Commanded, JobCommanded
    <2> QED BY <2>1, <2>2, <2>3, CommandedStep DEF Next
  <1> QED BY <1>1, <1>2, TypedAlways, AskedAlways, PTL DEF Spec

\* The command that still moves a candidate from a state.
LEMMA MovedByItsCommand ==
  ASSUME Typed, Asked, Owned, PacketsHeld, Commanded, NEW w \in Workers, Step(w),
         NEW c \in Candidates, row[c] # None, row'[c].state # row[c].state
  PROVE  /\ row[c].state = "DISCOVERED" => RunningOn(c, "ingest")
         /\ row[c].state = "EVIDENCE_PRESERVED" => RunningOn(c, "normalize")
         /\ row[c].state = "PACKET_GENERATED" => RunningOn(c, "generate")
  <1>1. row'[c] # row[c]
    OBVIOUS
  <1>2. JobCommanded(w) /\ JobHolds(w)
    BY DEF Commanded, PacketsHeld
  <1>3. CASE Committing(w) /\ c = job[w].candidate
    <2>1. /\ job[w].at = "commit" /\ row[c].state = job[w].read
          /\ job[w] # None
      BY <1>3, CommitEffect, PipelineNoneAssumption
    <2>2. job[w].requested \in Requests /\ ValidTransition(row[c].state, job[w].requested)
      BY <2>1 DEF Asked, JobAsked
    <2>3. /\ row[c].state = "DISCOVERED" => job[w].command = "ingest"
          /\ row[c].state = "EVIDENCE_PRESERVED" => job[w].command = "normalize"
          /\ row[c].state # "PACKET_GENERATED"
      BY <1>2, <2>1, <2>2 DEF JobCommanded, ValidTransition, Transitions, Requests
    <2> QED BY <1>3, <2>1, <2>3 DEF RunningOn
  <1>4. CASE Submitting(w) /\ c = packet[job[w].packet].candidate
    <2>1. /\ job[w].at = "submit" /\ job[w].packet \in Packets /\ row[c].state = job[w].read
          /\ job[w] # None
      BY <1>4, SubmitEffect, PipelineNoneAssumption
    <2>2. job[w].read = "PACKET_GENERATED"
      BY <2>1 DEF Asked, JobAsked
    <2>3. job[w].packet # None
      BY <2>1, PipelineNoneAssumption
    <2>4. job[w].candidate = c /\ job[w].command = "generate"
      BY <1>2, <1>4, <2>1, <2>3 DEF JobHolds, JobCommanded
    <2> QED BY <2>1, <2>2, <2>4 DEF RunningOn
  <1> QED BY <1>1, <1>3, <1>4, RowAfter

\* No step of a command makes it one that runs on a candidate, but for normalize,
\* whose file is then a new one.
LEMMA RunsOnBefore ==
  ASSUME Typed, Commanded, NEW w \in Workers, Step(w), NEW c, NEW command,
         RunningOn(c, command)'
  PROVE  RunningOn(c, command) \/ (command = "normalize" /\ <<"normalized", c>> \notin files)
  <1> PICK v \in Workers : /\ job'[v] # None /\ job'[v].candidate = c
                           /\ job'[v].command = command /\ job'[v].at # "normalFile"
    BY DEF RunningOn
  <1>1. CASE v # w
    BY <1>1, StepFrame DEF RunningOn
  <1>2. CASE v = w
    <2>1. job[w].candidate = c /\ job[w].command = command
      BY <1>2, StepFrame DEF KeepsOrEnds
    <2>2. job[w] # None
      BY DEF Step, CopySource, InsertCandidate, InsertEvidence, WriteCandidateFile,
             WriteEvidenceFile, WriteNormalFile, UpdateNormalized, Compare,
             StoreClassification, Materialize, ReadState, Commit, SubmitRead, Submit, At
    <2>3. CASE job[w].at # "normalFile"
      BY <2>1, <2>2, <2>3 DEF RunningOn
    <2>4. CASE job[w].at = "normalFile"
      <3>1. WriteNormalFile(w) /\ command = "normalize"
        BY <2>1, <2>2, <2>4 DEF Step, CopySource, InsertCandidate, InsertEvidence,
             WriteCandidateFile, WriteEvidenceFile, WriteNormalFile, UpdateNormalized, Compare,
             StoreClassification, Materialize, ReadState, Commit, SubmitRead, Submit, At,
             Commanded, JobCommanded
      <3>2. ASSUME <<"normalized", c>> \in files
            PROVE  FALSE
        BY <1>2, <2>1, <3>1, <3>2
           DEF WriteNormalFile, Writes, Raises, Ends, Typed, PipelineTypeOK
      <3> QED BY <3>1, <3>2
    <2> QED BY <2>3, <2>4
  <1> QED BY <1>1, <1>2

\* What Abandoned says is final.
AbandonedStays ==
  \A c \in Candidates : row[c] # None /\ Abandoned(c) =>
    row'[c] # None /\ row'[c].state = row[c].state /\ Abandoned(c)'

AbandonedIsFinal == [][AbandonedStays]_vars

\* A candidate is abandoned only where no command runs that could move it.
LEMMA AbandonedByAll ==
  ASSUME NEW c \in Candidates, row[c] # None, row'[c] # None, row'[c].state = row[c].state,
         files \subseteq files', Abandoned(c),
         row[c].state = "DISCOVERED" /\ ~RunningOn(c, "ingest") => ~RunningOn(c, "ingest")',
         row[c].state = "EVIDENCE_PRESERVED" /\ ~RunningOn(c, "normalize")
           /\ <<"normalized", c>> \in files => ~RunningOn(c, "normalize")',
         row[c].state = "PACKET_GENERATED" /\ ~RunningOn(c, "generate")
           => ~RunningOn(c, "generate")'
  PROVE  Abandoned(c)'
  BY DEF Abandoned, InState

\* No command ever moves an abandoned candidate, nor starts on it so that it
\* could: the ingest, normalize or generate that ended in between is not made
\* good by any later command, whatever else runs (FinishedOrAbandoned counts
\* these candidates as done because of it).
THEOREM AbandonedForGood == Spec => AbandonedIsFinal
  <1>1. Typed /\ Asked /\ Owned /\ PacketsHeld /\ Commanded /\ [Next]_vars
          => AbandonedStays \/ UNCHANGED vars
    <2> SUFFICES ASSUME Typed, Asked, Owned, PacketsHeld, Commanded, Next,
                        NEW c \in Candidates, row[c] # None, Abandoned(c)
                 PROVE  row'[c] # None /\ row'[c].state = row[c].state /\ Abandoned(c)'
      BY DEF AbandonedStays
    <2>1. ASSUME NEW w \in Workers, Step(w)
          PROVE  row'[c] # None /\ row'[c].state = row[c].state /\ Abandoned(c)'
      <3>1. row'[c] # None /\ files \subseteq files'
        BY <2>1, StepFrame DEF TablesGrow, RowsStay
      <3>2. row'[c].state = row[c].state
        BY <2>1, MovedByItsCommand DEF Abandoned, InState
      <3>3. /\ ~RunningOn(c, "ingest") => ~RunningOn(c, "ingest")'
            /\ ~RunningOn(c, "generate") => ~RunningOn(c, "generate")'
            /\ ~RunningOn(c, "normalize") /\ <<"normalized", c>> \in files
                 => ~RunningOn(c, "normalize")'
        BY <2>1, RunsOnBefore
      <3> QED BY <3>1, <3>2, <3>3, AbandonedByAll
    <2>2. ASSUME NEW w \in Workers, Start(w)
          PROVE  row'[c] # None /\ row'[c].state = row[c].state /\ Abandoned(c)'
      <3>1. /\ Begun(w, job'[w]) /\ row' = row /\ files' = files
            /\ \A v \in Workers \ {w} : job'[v] = job[v]
        BY <2>2, StartShape
      <3>2. ASSUME NEW command \in {"ingest", "normalize", "generate"},
                   RunningOn(c, command)', ~RunningOn(c, command)
            PROVE  row[c].state = "QUALIFIED"
        <4>1. job'[w].candidate = c /\ job'[w].command = command /\ job'[w].at # "normalFile"
          BY <3>1, <3>2 DEF RunningOn
        <4>2. command = "generate" /\ ValidTransition(row[c].state, "PACKET_GENERATED")
          BY <3>1, <4>1 DEF Begun, Fresh
        <4>3. row[c].state \in WorkflowState
          BY DEF Typed, PipelineTypeOK, CandidateRow
        <4> QED BY <4>2, <4>3 DEF ValidTransition, Transitions, WorkflowState
      <3> QED BY <3>1, <3>2, AbandonedByAll
    <2>3. ASSUME NEW w \in Workers, Fail(w) \/ Crash(w)
          PROVE  row'[c] # None /\ row'[c].state = row[c].state /\ Abandoned(c)'
      <3>1. /\ row' = row /\ files' = files /\ job'[w] = None
            /\ \A v \in Workers \ {w} : job'[v] = job[v]
        BY <2>3, FaultFrame
      <3>2. \A command : RunningOn(c, command)' => RunningOn(c, command)
        BY <3>1 DEF RunningOn
      <3> QED BY <3>1, <3>2, AbandonedByAll
    <2> QED BY <2>1, <2>2, <2>3 DEF Next
  <1> QED BY <1>1, TypedAlways, AskedAlways, OwnedAlways, PacketsHeldAlways, CommandedAlways, PTL
          DEF Spec, AbandonedIsFinal

=============================================================================
