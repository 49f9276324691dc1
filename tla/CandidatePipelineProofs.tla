---------------------- MODULE CandidatePipelineProofs ----------------------
(***************************************************************************)
(* The safety of the candidate pipeline for any candidates, signals,       *)
(* packets, workers and number of faults.                                  *)
(***************************************************************************)
EXTENDS CandidatePipeline, TLAPS

-----------------------------------------------------------------------------
(* Types.  A command whose next step needs its candidate's row finds one:  *)
(* rows are never deleted.                                                 *)

\* The steps before the candidate of an ingest has a row.
Early == {"copy", "insert"}

\* Only generate has a packet, and its row exists from its commit on.
JobShaped(w) ==
  LET j == job[w] IN
  j # None =>
    /\ j.at \notin Early => row[j.candidate] # None
    /\ j.at \in {"read", "commit"} => j.requested # None
    /\ j.at \in {"commit", "submit"} => j.read # None
    /\ j.at \in {"materialize", "submitRead", "submit"} => j.packet # None
    /\ j.at \in {"submitRead", "submit"} => packet[j.packet] # None

\* The candidate of a packet has a row (packets.candidate_id REFERENCES candidates).
PacketsReferToRows ==
  \A k \in Packets : packet[k] # None => row[packet[k].candidate] # None

Typed == PipelineTypeOK /\ PacketsReferToRows /\ \A w \in Workers : JobShaped(w)

\* Rows are only added.
RowsStay == \A c \in Candidates : row[c] # None => row'[c] # None

\* Packets keep referring to rows (nothing deletes from candidates).
LEMMA PacketsStillRefer ==
  ASSUME Typed, packet' = packet, RowsStay
  PROVE  PacketsReferToRows'
  BY DEF Typed, PipelineTypeOK, PacketsReferToRows, RowsStay, PacketRow

\* What a command does to its own job keeps the types of all jobs.
LEMMA JobTyped ==
  ASSUME Typed, NEW w \in Workers, NEW j \in Job, job' = [job EXCEPT ![w] = j],
         \A c \in Candidates : row[c] # None => row'[c] # None,
         \A k \in Packets : packet[k] # None => packet'[k] # None,
         JobShaped(w)'
  PROVE  job' \in [Workers -> Job \cup {None}] /\ \A v \in Workers : JobShaped(v)'
  <1>1. job' \in [Workers -> Job \cup {None}]
    BY DEF Typed, PipelineTypeOK
  <1>2. ASSUME NEW v \in Workers, v # w
        PROVE  JobShaped(v)'
    <2>1. job'[v] = job[v] /\ JobShaped(v) /\ job[v] \in Job \cup {None}
      BY <1>2 DEF Typed, PipelineTypeOK
    <2>2. job[v] # None => job[v].candidate \in Candidates /\ job[v].packet \in Packets \cup {None}
      BY <2>1 DEF Job
    <2> QED BY <2>1, <2>2 DEF JobShaped
  <1> QED BY <1>1, <1>2

\* A command that ends leaves the jobs of the others as they are.
LEMMA EndsTyped ==
  ASSUME Typed, NEW w \in Workers, Ends(w),
         \A c \in Candidates : row[c] # None => row'[c] # None,
         \A k \in Packets : packet[k] # None => packet'[k] # None
  PROVE  job' \in [Workers -> Job \cup {None}] /\ \A v \in Workers : JobShaped(v)'
  <1>1. job' \in [Workers -> Job \cup {None}] /\ job'[w] = None
    BY DEF Typed, PipelineTypeOK, Ends
  <1>2. ASSUME NEW v \in Workers, v # w
        PROVE  JobShaped(v)'
    <2>1. job'[v] = job[v] /\ JobShaped(v) /\ job[v] \in Job \cup {None}
      BY <1>2 DEF Typed, PipelineTypeOK, Ends
    <2>2. job[v] # None => job[v].candidate \in Candidates /\ job[v].packet \in Packets \cup {None}
      BY <2>1 DEF Job
    <2> QED BY <2>1, <2>2 DEF JobShaped
  <1> QED BY <1>1, <1>2 DEF JobShaped

\* The job of a worker after one of its own steps.
LEMMA JobAfter ==
  ASSUME Typed, NEW w \in Workers, job[w] # None
  PROVE  /\ job[w] \in Job
         /\ \A phase \in Phase : GoesTo(w, phase) =>
              /\ [job[w] EXCEPT !.at = phase] \in Job
              /\ job' = [job EXCEPT ![w] = [job[w] EXCEPT !.at = phase]]
         /\ \A s \in WorkflowState : Asks(w, s) =>
              LET j == [job[w] EXCEPT !.at = "read", !.requested = s, !.normalized = FALSE]
              IN  j \in Job /\ job' = [job EXCEPT ![w] = j]
  <1>1. job[w] \in Job
    BY DEF Typed, PipelineTypeOK
  <1>2. job \in [Workers -> Job \cup {None}]
    BY DEF Typed, PipelineTypeOK
  <1>3. ASSUME NEW phase \in Phase, GoesTo(w, phase)
        PROVE  /\ [job[w] EXCEPT !.at = phase] \in Job
               /\ job' = [job EXCEPT ![w] = [job[w] EXCEPT !.at = phase]]
    BY <1>1, <1>3 DEF Job, GoesTo
  <1>4. ASSUME NEW s \in WorkflowState, Asks(w, s)
        PROVE  LET j == [job[w] EXCEPT !.at = "read", !.requested = s, !.normalized = FALSE]
               IN  j \in Job /\ job' = [job EXCEPT ![w] = j]
    <2> DEFINE j == [job[w] EXCEPT !.at = "read", !.requested = s, !.normalized = FALSE]
    <2>1. j \in Job
      BY <1>1 DEF Job, Phase
    <2>2. job' = [job EXCEPT ![w] = j]
      BY <1>1, <1>2, <1>4 DEF Asks
    <2> QED BY <2>1, <2>2
  <1> QED BY <1>1, <1>3, <1>4

\* A command that raises changes nothing but its job and its own directory.
LEMMA RaisesTyped ==
  ASSUME Typed, NEW w \in Workers, job[w] # None, Ends(w), directory' = CleanedUp(w),
         UNCHANGED <<signal, row, evidence, files, packet>>,
         failures' \in Nat, crashes' \in Nat
  PROVE  Typed'
  <1>1. directory' \in [Packets -> {"none", "temporary", "final"}]
    BY DEF Typed, PipelineTypeOK, CleanedUp
  <1>2. job' \in [Workers -> Job \cup {None}] /\ \A v \in Workers : JobShaped(v)'
    BY EndsTyped
  <1> QED BY <1>1, <1>2 DEF Typed, PipelineTypeOK, PacketsReferToRows

\* The first steps of the commands.
LEMMA StartTyped ==
  ASSUME Typed, NEW w \in Workers, Start(w)
  PROVE  Typed'
  <1> USE DEF Typed, PipelineTypeOK, PacketsReferToRows
  <1> PICK c \in Candidates :
         \/ StartIngest(w, c) \/ StartNormalize(w, c) \/ StartDeduplicate(w, c)
         \/ (\E decision \in BOOLEAN : StartQualify(w, c, decision)) \/ StartGenerate(w, c)
    BY DEF Start
  <1> DEFINE Started(j) == job' = [job EXCEPT ![w] = j]
  <1>1. CASE StartIngest(w, c)
    <2> DEFINE j == Run(w, "ingest", c, IF signal[c] \in Filed THEN "copy" ELSE "insert")
    <2>1. j \in Job /\ Started(j)
      BY <1>1 DEF StartIngest, Starts, Run, Job, Command, Phase
    <2>2. JobShaped(w)'
      BY <2>1 DEF JobShaped, Run, Early
    <2> QED BY <1>1, <2>1, <2>2, JobTyped DEF StartIngest
  <1>2. CASE StartNormalize(w, c)
    <2> DEFINE j == Run(w, "normalize", c, "normalFile")
    <2>1. j \in Job /\ Started(j)
      BY <1>2 DEF StartNormalize, Starts, Run, Job, Command, Phase
    <2>2. JobShaped(w)'
      BY <1>2, <2>1 DEF JobShaped, Run, StartNormalize
    <2> QED BY <1>2, <2>1, <2>2, JobTyped DEF StartNormalize
  <1>3. CASE StartDeduplicate(w, c)
    <2> DEFINE j == [Run(w, "deduplicate", c, "compare")
                       EXCEPT !.normalized = row[c].normalized]
    <2>1. j \in Job /\ Started(j)
      BY <1>3, ZenonT(40) DEF StartDeduplicate, InState, Run, Job, Command, Phase, CandidateRow
    <2>2. JobShaped(w)'
      BY <1>3, <2>1 DEF JobShaped, Run, StartDeduplicate, InState
    <2> QED BY <1>3, <2>1, <2>2, JobTyped DEF StartDeduplicate
  <1>4. ASSUME NEW decision \in BOOLEAN, StartQualify(w, c, decision)
        PROVE  Typed'
    <2> DEFINE j == [Run(w, "qualify", c, "classify") EXCEPT !.decision = decision]
    <2>1. j \in Job /\ Started(j)
      BY <1>4 DEF StartQualify, Run, Job, Command, Phase
    <2>2. JobShaped(w)'
      BY <1>4, <2>1 DEF JobShaped, Run, StartQualify, InState
    <2> QED BY <1>4, <2>1, <2>2, JobTyped DEF StartQualify
  <1>5. CASE StartGenerate(w, c)
    <2> DEFINE j == [Run(w, "generate", c, "materialize") EXCEPT !.packet = NextPacket]
    <2>1. NextPacket \in Packets
      BY <1>5 DEF StartGenerate, NextPacket
    <2>2. j \in Job /\ Started(j)
      BY <1>5, <2>1 DEF StartGenerate, Run, Job, Command, Phase
    <2>3. JobShaped(w)'
      BY <1>5, <2>1, <2>2, PipelineNoneAssumption DEF JobShaped, Run, StartGenerate
    <2> QED BY <1>5, <2>1, <2>2, <2>3, JobTyped DEF StartGenerate
  <1> QED BY <1>1, <1>2, <1>3, <1>4, <1>5

\* The writing of a file (the exclusive open, _write_json_exclusive).
LEMMA WritesTyped ==
  ASSUME Typed, NEW w \in Workers, job[w] # None, NEW kind \in FileKind,
         NEW phase \in Phase \ {"read", "commit", "materialize", "submitRead", "submit"},
         phase \notin Early => row[job[w].candidate] # None,
         Writes(w, kind, phase)
  PROVE  Typed'
  <1> USE DEF Typed, PipelineTypeOK, PacketsReferToRows
  <1> DEFINE file == <<kind, job[w].candidate>>
             j == [job[w] EXCEPT !.at = phase]
  <1>0. job[w] \in Job
    BY JobAfter
  <1>1. CASE file \in files
    BY <1>1, RaisesTyped DEF Writes, Raises
  <1>2. CASE file \notin files
    <2>1. j \in Job /\ job' = [job EXCEPT ![w] = j]
      BY <1>2, JobAfter DEF Writes
    <2>2. job'[w] = j /\ j.at = phase /\ j.candidate = job[w].candidate /\ row' = row
      BY <1>0, <1>2, <2>1 DEF Writes, Job
    <2>4. JobShaped(w)'
      BY <2>2 DEF JobShaped
    <2>3. files' \subseteq FileKind \X Candidates
      BY <1>0, <1>2 DEF Writes, Job
    <2> QED BY <1>2, <2>1, <2>4, <2>3, JobTyped DEF Writes
  <1> QED BY <1>1, <1>2

\* A request for a state (the arguments of transition_candidate).
LEMMA AsksTyped ==
  ASSUME Typed, NEW w \in Workers, job[w] # None, NEW s \in WorkflowState,
         job[w].at \notin Early, Asks(w, s),
         UNCHANGED <<signal, packet, failures, crashes>>,
         row' \in [Candidates -> CandidateRow \cup {None}],
         \A c \in Candidates : row[c] # None => row'[c] # None,
         evidence' \subseteq Candidates, files' \subseteq FileKind \X Candidates,
         directory' \in [Packets -> {"none", "temporary", "final"}]
  PROVE  Typed'
  <1> USE DEF Typed, PipelineTypeOK, PacketsReferToRows
  <1> DEFINE j == [job[w] EXCEPT !.at = "read", !.requested = s, !.normalized = FALSE]
  <1>1. j \in Job /\ job' = [job EXCEPT ![w] = j]
    BY JobAfter
  <1>0. job[w] \in Job
    BY JobAfter
  <1>2. /\ job'[w] = j /\ j.at = "read" /\ j.requested = s /\ s # None
        /\ j.candidate = job[w].candidate /\ row[job[w].candidate] # None
        /\ row'[job[w].candidate] # None
    BY <1>0, <1>1, PipelineNoneAssumption DEF JobShaped, Job
  <1>3. JobShaped(w)'
    BY <1>2 DEF JobShaped
  <1>4. PacketsReferToRows'
    BY PacketsStillRefer DEF RowsStay
  <1> QED BY <1>1, <1>3, <1>4, JobTyped

\* The further steps of the commands.
LEMMA StepTyped ==
  ASSUME Typed, NEW w \in Workers, Step(w)
  PROVE  Typed'
  <1> USE DEF Typed, PipelineTypeOK, PacketsReferToRows
  <1> job[w] # None
    BY DEF Step, CopySource, InsertCandidate, InsertEvidence, WriteCandidateFile,
           WriteEvidenceFile, WriteNormalFile, UpdateNormalized, Compare,
           StoreClassification, Materialize, ReadState, Commit, SubmitRead, Submit, At
  <1> DEFINE c == job[w].candidate
             k == job[w].packet
  <1>0. /\ job[w] \in Job /\ c \in Candidates /\ JobShaped(w)
        /\ job[w].at \in Phase /\ job[w].requested \in WorkflowState \cup {None}
        /\ job[w].packet \in Packets \cup {None}
    BY JobAfter DEF Job
  <1>1. CASE CopySource(w)
    BY <1>0, <1>1, WritesTyped DEF CopySource, Phase, Early, FileKind
  <1>2. CASE InsertCandidate(w)
    <2> DEFINE j == [job[w] EXCEPT !.at = "evidence"]
    <2>1. j \in Job /\ job' = [job EXCEPT ![w] = j]
      BY <1>2, JobAfter DEF InsertCandidate, Phase
    <2> DEFINE r == [state |-> "DISCOVERED", normalized |-> FALSE]
    <2>0. row' = [row EXCEPT ![c] = r] /\ r \in CandidateRow
      BY <1>2 DEF InsertCandidate, CandidateRow, WorkflowState
    <2>2. row'[c] # None /\ row' \in [Candidates -> CandidateRow \cup {None}]
      BY <1>0, <2>0, PipelineNoneAssumption
    <2>3. job'[w] = j /\ j.at = "evidence" /\ j.candidate = c
      BY <1>0, <2>1 DEF Job
    <2>4. JobShaped(w)'
      BY <1>0, <2>2, <2>3 DEF JobShaped
    <2>5. RowsStay /\ packet' = packet
      BY <1>0, <1>2, <2>0, <2>2 DEF RowsStay, InsertCandidate
    <2> QED BY <1>0, <1>2, <2>1, <2>2, <2>4, <2>5, JobTyped, PacketsStillRefer
            DEF InsertCandidate, RowsStay
  <1>3. CASE InsertEvidence(w)
    <2> DEFINE j == [job[w] EXCEPT !.at = "candidateFile"]
    <2>1. j \in Job /\ job' = [job EXCEPT ![w] = j]
      BY <1>3, JobAfter DEF InsertEvidence, Phase
    <2>2. JobShaped(w)'
      BY <1>0, <1>3, <2>1 DEF InsertEvidence, At, JobShaped, Job, Early
    <2> QED BY <1>0, <1>3, <2>1, <2>2, JobTyped DEF InsertEvidence
  <1>4. CASE WriteCandidateFile(w)
    <2>1. row[c] # None
      BY <1>0, <1>4 DEF WriteCandidateFile, At, JobShaped, Early
    <2> QED BY <1>4, <2>1, WritesTyped DEF WriteCandidateFile, Phase, FileKind
  <1>5. CASE WriteEvidenceFile(w)
    BY <1>0, <1>5, AsksTyped DEF WriteEvidenceFile, At, Early, FileKind, WorkflowState
  <1>6. CASE WriteNormalFile(w)
    <2>1. row[c] # None
      BY <1>0, <1>6 DEF WriteNormalFile, At, JobShaped, Early
    <2> QED BY <1>6, <2>1, WritesTyped DEF WriteNormalFile, Phase, FileKind
  <1>7. CASE UpdateNormalized(w)
    <2>1. row[c] \in CandidateRow
      BY <1>0, <1>7 DEF UpdateNormalized, At, JobShaped, Early
    <2>2. /\ row' = [row EXCEPT ![c] = [row[c] EXCEPT !.normalized = TRUE]]
          /\ [row[c] EXCEPT !.normalized = TRUE] \in CandidateRow
      BY <1>0, <1>7, <2>1 DEF UpdateNormalized, CandidateRow
    <2>3. row' \in [Candidates -> CandidateRow \cup {None}] /\ row'[c] # None
      BY <1>0, <2>2, PipelineNoneAssumption
    <2> QED BY <1>0, <1>7, <2>2, <2>3, AsksTyped DEF UpdateNormalized, At, Early, WorkflowState
  <1>8. CASE Compare(w)
    BY <1>0, <1>8, AsksTyped DEF Compare, At, Early, WorkflowState
  <1>9. CASE StoreClassification(w)
    <2>1. CASE job[w].decision
      BY <1>0, <1>9, <2>1, AsksTyped DEF StoreClassification, At, Early, WorkflowState
    <2>2. CASE ~job[w].decision
      BY <1>9, <2>2, EndsTyped DEF StoreClassification
    <2> QED BY <2>1, <2>2
  <1>10. CASE Materialize(w)
    BY <1>0, <1>10, AsksTyped DEF Materialize, At, Early, WorkflowState
  <1>11. CASE ReadState(w)
    <2> DEFINE prior == row[c].state
               j == [job[w] EXCEPT !.read = prior, !.at = "commit"]
    <2>1. row[c] \in CandidateRow
      BY <1>0, <1>11 DEF ReadState, At, JobShaped, Early
    <2>2. CASE ValidTransition(prior, job[w].requested)
      <3>1. j \in Job /\ job' = [job EXCEPT ![w] = j]
        BY <1>0, <1>11, <2>1, <2>2 DEF ReadState, Job, Phase, CandidateRow
      <3>2. JobShaped(w)'
        BY <1>0, <1>11, <2>1, <2>2, <3>1, PipelineNoneAssumption
           DEF ReadState, At, JobShaped, Job, Early, CandidateRow
      <3> QED BY <1>11, <2>2, <3>1, <3>2, JobTyped DEF ReadState
    <2>3. CASE ~ValidTransition(prior, job[w].requested)
      BY <1>11, <2>3, RaisesTyped DEF ReadState, Raises
    <2> QED BY <2>2, <2>3
  <1>12. CASE Commit(w)
    <2>1. row[c] \in CandidateRow /\ job[w].requested \in WorkflowState
      BY <1>0, <1>12 DEF Commit, At, JobShaped, Early
    <2>2. CASE StateHeld(c, job[w].read)
      <3>1. /\ row' = [row EXCEPT ![c] = [row[c] EXCEPT !.state = job[w].requested]]
            /\ [row[c] EXCEPT !.state = job[w].requested] \in CandidateRow
        BY <1>0, <1>12, <2>1, <2>2 DEF Commit, CandidateRow
      <3>2. row' \in [Candidates -> CandidateRow \cup {None}] /\ row'[c] # None
        BY <1>0, <3>1, PipelineNoneAssumption
      <3>3. CASE k = None
        BY <1>0, <1>12, <2>2, <3>1, <3>2, <3>3, EndsTyped DEF Commit, WithPacket
      <3>4. CASE k # None
        <4> DEFINE j == [job[w] EXCEPT !.at = "submitRead"]
                   r == [candidate |-> c, state |-> "PACKET_GENERATED"]
        <4>1. j \in Job /\ job' = [job EXCEPT ![w] = j]
          BY <1>12, <2>2, <3>4, JobAfter DEF Commit, Phase
        <4>2. packet' = [packet EXCEPT ![k] = r] /\ r \in PacketRow
          BY <1>0, <1>12, <2>2, <3>4 DEF Commit, WithPacket, PacketRow, WorkflowState
        <4>3. packet' \in [Packets -> PacketRow \cup {None}] /\ packet'[k] # None
          BY <1>0, <3>4, <4>2, PipelineNoneAssumption
        <4>4. JobShaped(w)'
          BY <1>0, <3>2, <3>4, <4>1, <4>3 DEF JobShaped, Job
        <4>5. PacketsReferToRows' /\ RowsStay
          BY <1>0, <2>1, <3>1, <3>2, <4>2, <4>3 DEF PacketRow, RowsStay
        <4> QED BY <1>0, <1>12, <2>2, <3>1, <3>2, <4>1, <4>2, <4>3, <4>4, <4>5, JobTyped
                DEF Commit, RowsStay
      <3> QED BY <3>3, <3>4
    <2>3. CASE ~StateHeld(c, job[w].read)
      BY <1>12, <2>3, RaisesTyped DEF Commit, Raises
    <2> QED BY <2>2, <2>3
  <1>13. CASE SubmitRead(w)
    <2> DEFINE prior == packet[k].state
               j == [job[w] EXCEPT !.read = prior, !.at = "submit"]
    <2>1. packet[k] \in PacketRow
      BY <1>0, <1>13 DEF SubmitRead, At, JobShaped
    <2>2. CASE ValidTransition(prior, "AWAITING_APPROVAL")
      <3>1. j \in Job /\ job' = [job EXCEPT ![w] = j]
        BY <1>0, <1>13, <2>1, <2>2 DEF SubmitRead, Job, Phase, PacketRow
      <3>2. JobShaped(w)'
        BY <1>0, <1>13, <2>1, <2>2, <3>1, PipelineNoneAssumption
           DEF SubmitRead, At, JobShaped, Job, Early, PacketRow
      <3> QED BY <1>13, <2>2, <3>1, <3>2, JobTyped DEF SubmitRead
    <2>3. CASE ~ValidTransition(prior, "AWAITING_APPROVAL")
      BY <1>13, <2>3, RaisesTyped DEF SubmitRead, Raises
    <2> QED BY <2>2, <2>3
  <1>14. CASE Submit(w)
    <2> DEFINE d == packet[k].candidate
               held == packet[k].state = job[w].read /\ row[d].state = job[w].read
    <2>1. packet[k] \in PacketRow /\ k \in Packets /\ d \in Candidates
      BY <1>0, <1>14 DEF Submit, At, JobShaped, PacketRow
    <2>2. CASE held
      <3>1. /\ packet' = [packet EXCEPT ![k] = [packet[k] EXCEPT !.state = "AWAITING_APPROVAL"]]
            /\ [packet[k] EXCEPT !.state = "AWAITING_APPROVAL"] \in PacketRow
        BY <1>14, <2>1, <2>2 DEF Submit, PacketRow, WorkflowState
      <3>2. packet' \in [Packets -> PacketRow \cup {None}] /\ packet'[k] # None
        BY <2>1, <3>1, PipelineNoneAssumption
      <3>3. row[d] \in CandidateRow
        BY <2>1, <1>0, <1>14 DEF Submit, At, JobShaped
      <3>4. /\ row' = [row EXCEPT ![d] = [row[d] EXCEPT !.state = "AWAITING_APPROVAL"]]
            /\ [row[d] EXCEPT !.state = "AWAITING_APPROVAL"] \in CandidateRow
        BY <1>14, <2>1, <2>2, <3>3 DEF Submit, CandidateRow, WorkflowState
      <3>5. row' \in [Candidates -> CandidateRow \cup {None}] /\ row'[d] # None
        BY <2>1, <3>4, PipelineNoneAssumption
      <3>6. PacketsReferToRows'
        BY <2>1, <3>1, <3>2, <3>4, <3>5 DEF PacketRow
      <3> QED BY <1>14, <2>1, <2>2, <3>1, <3>2, <3>4, <3>5, <3>6, EndsTyped DEF Submit
    <2>3. CASE ~held
      BY <1>14, <2>3, RaisesTyped DEF Submit, Raises
    <2> QED BY <2>2, <2>3
  <1> QED BY <1>1, <1>2, <1>3, <1>4, <1>5, <1>6, <1>7, <1>8, <1>9, <1>10, <1>11,
             <1>12, <1>13, <1>14 DEF Step

\* Commands that end early, by an exception or by a crash.
LEMMA FaultTyped ==
  ASSUME Typed, NEW w \in Workers, Fail(w) \/ Crash(w)
  PROVE  Typed'
  <1>1. CASE Fail(w)
    BY <1>1, RaisesTyped DEF Fail, Typed, PipelineTypeOK
  <1>2. CASE Crash(w)
    BY <1>2, EndsTyped DEF Crash, Typed, PipelineTypeOK, PacketsReferToRows
  <1> QED BY <1>1, <1>2

\* The typing invariant holds in every reachable state.
THEOREM TypedAlways == Spec => []Typed
  <1>1. Init => Typed
    BY PipelineConstantsAssumption
    DEF Init, Typed, PipelineTypeOK, PacketsReferToRows, JobShaped
  <1>2. Typed /\ [Next]_vars => Typed'
    <2> SUFFICES ASSUME Typed, [Next]_vars PROVE Typed'
      OBVIOUS
    <2>1. CASE Next
      BY <2>1, StartTyped, StepTyped, FaultTyped DEF Next
    <2>2. CASE UNCHANGED vars
      BY <2>2 DEF vars, Typed, PipelineTypeOK, PacketsReferToRows, JobShaped
    <2> QED BY <2>1, <2>2
  <1> QED BY <1>1, <1>2, PTL DEF Spec

\* Every variable keeps its type, whatever the signals, packets, workers and
\* faults (the commands of evidence.py, deduplication.py, qualification.py and
\* packets.py).
THEOREM PipelineTypeCorrect == Spec => []PipelineTypeOK
  BY TypedAlways, PTL DEF Typed

-----------------------------------------------------------------------------
(* What a step of one worker leaves alone.  The jobs of the others stay;   *)
(* rows, evidence and files are only added.                                *)

TablesGrow ==
  /\ signal' = signal /\ RowsStay
  /\ evidence \subseteq evidence' /\ files \subseteq files'

\* How a command proceeds: each step follows another, the steps before a request
\* determine the state it asks for, and a transition is valid when it is read.
Follows ==
  { <<"copy", "insert">>, <<"insert", "evidence">>, <<"evidence", "candidateFile">>,
    <<"candidateFile", "evidenceFile">>, <<"normalFile", "normalRow">> }

AsksFor ==
  { <<"evidenceFile", "EVIDENCE_PRESERVED">>, <<"normalRow", "NORMALIZED">>,
    <<"compare", "SUPPRESSED">>, <<"compare", "DUPLICATE_CHECKED">>,
    <<"classify", "QUALIFIED">>, <<"materialize", "PACKET_GENERATED">> }

Proceeded(j, i) ==
  \/ <<j.at, i.at>> \in Follows
  \/ <<j.at, i.requested>> \in AsksFor /\ i.at = "read"
  \/ /\ j.at = "read" /\ i.at = "commit" /\ i.requested = j.requested
     /\ i.read = row[j.candidate].state /\ ValidTransition(i.read, i.requested)
  \/ /\ j.at = "commit" /\ i.at = "submitRead" /\ j.packet # None
     /\ StateHeld(j.candidate, j.read)
  \/ /\ j.at = "submitRead" /\ i.at = "submit"
     /\ i.read = packet[j.packet].state /\ ValidTransition(i.read, "AWAITING_APPROVAL")

\* A worker keeps its command, its candidate and its packet until it ends.
KeepsOrEnds(w) ==
  LET j == job[w]
      i == job'[w] IN
  i # None => /\ i.command = j.command /\ i.candidate = j.candidate /\ i.packet = j.packet
              /\ Proceeded(j, i)

\* The first step of a command touches its own job and, in generate, a directory.
LEMMA StartFrame ==
  ASSUME Typed, NEW w \in Workers, Start(w)
  PROVE  /\ TablesGrow /\ \A v \in Workers \ {w} : job'[v] = job[v]
         /\ UNCHANGED <<row, packet, evidence, files>>
  BY DEF Typed, PipelineTypeOK, Start, StartIngest, StartNormalize, StartDeduplicate,
         StartQualify, StartGenerate, Starts, TablesGrow, RowsStay

\* An exception or a crash ends one job and leaves the tables alone.
LEMMA FaultFrame ==
  ASSUME Typed, NEW w \in Workers, Fail(w) \/ Crash(w)
  PROVE  /\ TablesGrow /\ \A v \in Workers \ {w} : job'[v] = job[v]
         /\ UNCHANGED <<row, packet, evidence, files>> /\ job'[w] = None
  BY DEF Typed, PipelineTypeOK, Fail, Crash, Ends, TablesGrow, RowsStay

\* The state of one row changes (the UPDATE of a transition).
LEMMA StateSet ==
  ASSUME Typed, NEW c \in Candidates, row[c] # None, NEW s \in WorkflowState,
         row' = [row EXCEPT ![c].state = s]
  PROVE  /\ row[c] \in CandidateRow /\ RowsStay
         /\ row'[c] # None /\ row'[c].state = s /\ row'[c].normalized = row[c].normalized
         /\ \A d \in Candidates \ {c} : row'[d] = row[d]
  <1>1. row[c] \in CandidateRow /\ row \in [Candidates -> CandidateRow \cup {None}]
    BY DEF Typed, PipelineTypeOK
  <1> DEFINE r == [row[c] EXCEPT !.state = s]
  <1>2. r \in CandidateRow /\ r.state = s /\ r.normalized = row[c].normalized
    BY <1>1 DEF CandidateRow
  <1>3. row' = [row EXCEPT ![c] = r]
    BY <1>1
  <1> QED BY <1>1, <1>2, <1>3, PipelineNoneAssumption DEF RowsStay

\* The job that has read a state (transition_candidate, transition_packet).
LEMMA StateRead ==
  ASSUME Typed, NEW w \in Workers, job[w] # None, NEW s \in WorkflowState,
         NEW phase \in Phase, job' = [job EXCEPT ![w].read = s, ![w].at = phase]
  PROVE  LET j == [job[w] EXCEPT !.read = s, !.at = phase]
         IN  j \in Job /\ job' = [job EXCEPT ![w] = j] /\ job'[w] = j /\ j # None
  <1>1. job[w] \in Job /\ job \in [Workers -> Job \cup {None}]
    BY DEF Typed, PipelineTypeOK
  <1> DEFINE j == [job[w] EXCEPT !.read = s, !.at = phase]
  <1>2. j \in Job
    BY <1>1 DEF Job
  <1>3. job' = [job EXCEPT ![w] = j]
    BY <1>1
  <1> QED BY <1>1, <1>2, <1>3, PipelineNoneAssumption

\* What the transitions find when they are reached.
LEMMA TransitionReady ==
  ASSUME Typed, NEW w \in Workers, job[w] # None
  PROVE  /\ job[w] \in Job
         /\ job[w].at \notin Early => row[job[w].candidate] \in CandidateRow
         /\ job[w].at \in {"read", "commit"} => job[w].requested \in WorkflowState
         /\ job[w].at \in {"commit", "submit"} => job[w].read \in WorkflowState
         /\ job[w].at \in {"materialize", "submitRead", "submit"} => job[w].packet \in Packets
         /\ job[w].at \in {"submitRead", "submit"} =>
              /\ packet[job[w].packet] \in PacketRow
              /\ packet[job[w].packet].candidate \in Candidates
              /\ row[packet[job[w].packet].candidate] \in CandidateRow
  <1>1. job[w] \in Job /\ JobShaped(w)
    BY DEF Typed, PipelineTypeOK
  <1>2. /\ job[w].candidate \in Candidates /\ job[w].packet \in Packets \cup {None}
        /\ job[w].requested \in WorkflowState \cup {None}
        /\ job[w].read \in WorkflowState \cup {None}
    BY <1>1 DEF Job
  <1>3. job[w].at \in {"submitRead", "submit"} => packet[job[w].packet] \in PacketRow
    BY <1>1, <1>2 DEF JobShaped, Typed, PipelineTypeOK
  <1>4. ASSUME job[w].at \in {"submitRead", "submit"}
        PROVE  /\ packet[job[w].packet].candidate \in Candidates
               /\ row[packet[job[w].packet].candidate] \in CandidateRow
    <2>1. packet[job[w].packet].candidate \in Candidates
      BY <1>3, <1>4 DEF PacketRow
    <2> QED BY <1>1, <1>2, <1>4, <2>1 DEF JobShaped, Typed, PipelineTypeOK, PacketsReferToRows
  <1> QED BY <1>1, <1>2, <1>3, <1>4 DEF JobShaped, Typed, PipelineTypeOK

\* A step of a command touches its own job only, and follows the command.
LEMMA StepFrame ==
  ASSUME Typed, NEW w \in Workers, Step(w)
  PROVE  /\ TablesGrow /\ \A v \in Workers \ {w} : job'[v] = job[v]
         /\ KeepsOrEnds(w)
  <1> USE DEF Typed, PipelineTypeOK
  <1> job[w] # None
    BY DEF Step, CopySource, InsertCandidate, InsertEvidence, WriteCandidateFile,
           WriteEvidenceFile, WriteNormalFile, UpdateNormalized, Compare,
           StoreClassification, Materialize, ReadState, Commit, SubmitRead, Submit, At
  <1>0. job[w] \in Job /\ JobShaped(w)
    BY JobAfter
  <1> DEFINE Elsewhere == \A v \in Workers \ {w} : job'[v] = job[v]
  <1>1. ASSUME NEW phase \in Phase, GoesTo(w, phase)
        PROVE  /\ Elsewhere /\ job'[w].at = phase /\ job'[w].command = job[w].command
               /\ job'[w].candidate = job[w].candidate /\ job'[w].packet = job[w].packet
    BY <1>0, <1>1 DEF GoesTo, Job
  <1>2. ASSUME NEW s \in WorkflowState, Asks(w, s), <<job[w].at, s>> \in AsksFor
        PROVE  Elsewhere /\ KeepsOrEnds(w)
    <2> DEFINE j == [job[w] EXCEPT !.at = "read", !.requested = s, !.normalized = FALSE]
    <2>1. job' = [job EXCEPT ![w] = j]
      BY <1>2, JobAfter
    <2>2. job'[w] = j /\ Elsewhere
      BY <2>1
    <2>3. /\ job'[w].at = "read" /\ job'[w].requested = s /\ job'[w].command = job[w].command
          /\ job'[w].candidate = job[w].candidate /\ job'[w].packet = job[w].packet
      BY <1>0, <2>2 DEF Job
    <2> QED BY <1>2, <2>2, <2>3 DEF KeepsOrEnds, Proceeded
  <1>3. ASSUME Ends(w)
        PROVE  Elsewhere /\ KeepsOrEnds(w)
    BY <1>3 DEF Ends, KeepsOrEnds
  <1>4. ASSUME Raises(w)
        PROVE  TablesGrow /\ Elsewhere /\ KeepsOrEnds(w)
    BY <1>3, <1>4 DEF Raises, TablesGrow, RowsStay
  <1>5. ASSUME NEW kind \in FileKind, NEW phase \in Phase, Writes(w, kind, phase),
               <<job[w].at, phase>> \in Follows
        PROVE  TablesGrow /\ Elsewhere /\ KeepsOrEnds(w)
    <2>1. CASE GoesTo(w, phase) /\ files \subseteq files'
      <3>1. Elsewhere /\ KeepsOrEnds(w)
        BY <1>1, <1>5, <2>1 DEF KeepsOrEnds, Proceeded
      <3> QED BY <1>4, <1>5, <2>1, <3>1 DEF Writes, TablesGrow, RowsStay
    <2> QED BY <1>4, <1>5, <2>1 DEF Writes
  <1>6. CASE CopySource(w) \/ WriteCandidateFile(w) \/ WriteNormalFile(w)
    BY <1>5, <1>6 DEF CopySource, WriteCandidateFile, WriteNormalFile, FileKind, Phase, At,
                      Follows
  <1>7. CASE InsertCandidate(w)
    <2>1. row' = [row EXCEPT ![job[w].candidate] = [state |-> "DISCOVERED", normalized |-> FALSE]]
      BY <1>7 DEF InsertCandidate
    <2>2. [state |-> "DISCOVERED", normalized |-> FALSE] \in CandidateRow
      BY DEF CandidateRow, WorkflowState
    <2>3. RowsStay
      BY <2>1, <2>2, PipelineNoneAssumption DEF RowsStay
    <2>4. Elsewhere /\ KeepsOrEnds(w)
      BY <1>1, <1>7 DEF InsertCandidate, Phase, At, KeepsOrEnds, Proceeded, Follows
    <2> QED BY <1>7, <2>3, <2>4 DEF InsertCandidate, TablesGrow
  <1>8. CASE InsertEvidence(w)
    <2>1. Elsewhere /\ KeepsOrEnds(w)
      BY <1>1, <1>8 DEF InsertEvidence, Phase, At, KeepsOrEnds, Proceeded, Follows
    <2> QED BY <1>8, <2>1 DEF InsertEvidence, TablesGrow, RowsStay
  <1>9. CASE WriteEvidenceFile(w) \/ Compare(w) \/ Materialize(w)
    <2>1. TablesGrow
      BY <1>9 DEF WriteEvidenceFile, Compare, Materialize, TablesGrow, RowsStay
    <2>2. Elsewhere /\ KeepsOrEnds(w)
      BY <1>2, <1>9 DEF WriteEvidenceFile, Compare, Materialize, At, WorkflowState, AsksFor
    <2> QED BY <2>1, <2>2
  <1>10. CASE UpdateNormalized(w)
    <2>0. row[job[w].candidate] \in CandidateRow
      BY <1>0, <1>10 DEF UpdateNormalized, At, JobShaped, Early, Job
    <2>1. RowsStay
      BY <1>10, <2>0, PipelineNoneAssumption DEF UpdateNormalized, RowsStay, CandidateRow
    <2>2. Elsewhere /\ KeepsOrEnds(w)
      BY <1>2, <1>10 DEF UpdateNormalized, At, WorkflowState, AsksFor
    <2> QED BY <1>10, <2>1, <2>2 DEF UpdateNormalized, TablesGrow
  <1>11. CASE StoreClassification(w)
    <2>1. Elsewhere /\ KeepsOrEnds(w)
      BY <1>2, <1>3, <1>11 DEF StoreClassification, At, WorkflowState, AsksFor
    <2> QED BY <1>11, <2>1 DEF StoreClassification, TablesGrow, RowsStay
  <1>12. CASE ReadState(w)
    <2> DEFINE prior == row[job[w].candidate].state
    <2>0. prior \in WorkflowState
      BY <1>12, TransitionReady DEF ReadState, At, Early, CandidateRow
    <2>1. CASE ValidTransition(prior, job[w].requested)
      <3> DEFINE j == [job[w] EXCEPT !.read = prior, !.at = "commit"]
      <3>0. job' = [job EXCEPT ![w].read = prior, ![w].at = "commit"] /\ "commit" \in Phase
        BY <1>12, <2>1 DEF ReadState, Phase
      <3>1. job' = [job EXCEPT ![w] = j] /\ job'[w] = j /\ j # None
        BY <2>0, <3>0, StateRead, Zenon
      <3>2. KeepsOrEnds(w)
        BY <1>0, <1>12, <2>1, <3>1 DEF ReadState, At, KeepsOrEnds, Proceeded, Job
      <3>3. TablesGrow
        BY <1>12, <2>1 DEF ReadState, TablesGrow, RowsStay
      <3> QED BY <3>1, <3>2, <3>3
    <2> QED BY <1>4, <1>12, <2>1 DEF ReadState
  <1>13. CASE Commit(w)
    <2>1. CASE StateHeld(job[w].candidate, job[w].read)
      <3>1. /\ job[w].candidate \in Candidates /\ row[job[w].candidate] # None
            /\ job[w].requested \in WorkflowState
        BY <1>0, <1>13, TransitionReady, PipelineNoneAssumption DEF Commit, At, Early, Job
      <3>2. RowsStay
        BY <1>13, <2>1, <3>1, StateSet DEF Commit
      <3>3. Elsewhere /\ KeepsOrEnds(w)
        BY <1>1, <1>3, <1>13, <2>1 DEF Commit, At, Phase, KeepsOrEnds, Proceeded
      <3> QED BY <1>13, <2>1, <3>2, <3>3 DEF Commit, TablesGrow
    <2> QED BY <1>4, <1>13, <2>1 DEF Commit
  <1>14. CASE SubmitRead(w)
    <2> DEFINE prior == packet[job[w].packet].state
    <2>0. prior \in WorkflowState
      BY <1>14, TransitionReady DEF SubmitRead, At, PacketRow
    <2>1. CASE ValidTransition(prior, "AWAITING_APPROVAL")
      <3> DEFINE j == [job[w] EXCEPT !.read = prior, !.at = "submit"]
      <3>0. job' = [job EXCEPT ![w].read = prior, ![w].at = "submit"] /\ "submit" \in Phase
        BY <1>14, <2>1 DEF SubmitRead, Phase
      <3>1. job' = [job EXCEPT ![w] = j] /\ job'[w] = j /\ j # None
        BY <2>0, <3>0, StateRead, Zenon
      <3>2. KeepsOrEnds(w)
        BY <1>0, <1>14, <2>1, <3>1 DEF SubmitRead, At, KeepsOrEnds, Proceeded, Job
      <3>3. TablesGrow
        BY <1>14, <2>1 DEF SubmitRead, TablesGrow, RowsStay
      <3> QED BY <3>1, <3>2, <3>3
    <2> QED BY <1>4, <1>14, <2>1 DEF SubmitRead
  <1>15. CASE Submit(w)
    <2> DEFINE c == packet[job[w].packet].candidate
    <2>0. c \in Candidates /\ row[c] # None
      BY <1>15, TransitionReady, PipelineNoneAssumption DEF Submit, At
    <2>1. CASE packet[job[w].packet].state = job[w].read /\ row[c].state = job[w].read
      <3>1. RowsStay
        BY <1>15, <2>0, <2>1, StateSet DEF Submit, WorkflowState
      <3> QED BY <1>3, <1>15, <2>1, <3>1 DEF Submit, TablesGrow
    <2> QED BY <1>4, <1>15, <2>1 DEF Submit
  <1> QED BY <1>6, <1>7, <1>8, <1>9, <1>10, <1>11, <1>12, <1>13, <1>14, <1>15 DEF Step

=============================================================================
