------------------------ MODULE ExternalEffectProofs ------------------------
(***************************************************************************)
(* The safety of external effects for any packets, executors, processes    *)
(* and bounds.                                                             *)
(***************************************************************************)
EXTENDS EffectAudit, TLAPS

-----------------------------------------------------------------------------
(* Types.  A run has in hand a claim of a request: its signed result can   *)
(* name the request only because requests are never withdrawn.             *)

RunsClaims == \A x \in Processes : job[x] # None => effects[Packet(x)] # None

Typed == EffectTypeOK /\ RunsClaims

\* A claim is a packet and a number (external_effect_dispatches).
LEMMA ClaimParts ==
  ASSUME NEW c \in Claims
  PROVE  c[1] \in Packets /\ c[2] \in Attempt /\ c = <<c[1], c[2]>>
  BY DEF Claims

\* What a run does to its own job keeps the types of all jobs
\* (execute_claimed_effect).
LEMMA JobTyped ==
  ASSUME Typed, NEW x \in Processes, NEW j \in Run \cup {None},
         j # None => effects[j.claim[1]] # None,
         job' = [job EXCEPT ![x] = j], effects' = effects
  PROVE  job' \in [Processes -> Run \cup {None}] /\ RunsClaims'
  BY DEF Typed, EffectTypeOK, RunsClaims, Packet

\* The moves of a run; its claim stays the one it started with
\* (execute_claimed_effect).
LEMMA MovesTyped ==
  ASSUME Typed, effects' = effects, NEW x \in Processes, job[x] # None
  PROVE  /\ job[x] \in Run /\ effects[Packet(x)] # None
         /\ Stop(x) => job' \in [Processes -> Run \cup {None}] /\ RunsClaims'
         /\ \A ph \in Phase, b \in Bytes :
              (Turn(x, ph) \/ job' = [job EXCEPT ![x].phase = ph, ![x].bytes = b])
                 => job' \in [Processes -> Run \cup {None}] /\ RunsClaims'
         /\ \A o \in Outcome :
              Report(x, o) => job' \in [Processes -> Run \cup {None}] /\ RunsClaims'
  <1>1. job[x] \in Run /\ effects[Packet(x)] # None
    BY DEF Typed, EffectTypeOK, RunsClaims
  <1>2. ASSUME Stop(x)
        PROVE  job' \in [Processes -> Run \cup {None}] /\ RunsClaims'
    BY <1>2, JobTyped DEF Stop
  <1>3. ASSUME NEW ph \in Phase, NEW b \in Bytes, NEW o \in Outcome,
               NEW j, j = [job[x] EXCEPT !.phase = ph, !.bytes = b, !.outcome = o],
               job' = [job EXCEPT ![x] = j]
        PROVE  job' \in [Processes -> Run \cup {None}] /\ RunsClaims'
    <2>1. j \in Run /\ j.claim = job[x].claim
      BY <1>1, <1>3 DEF Run
    <2> QED BY <1>1, <1>3, <2>1, JobTyped DEF Packet
  <1>4. ASSUME NEW ph \in Phase, NEW b \in Bytes,
               Turn(x, ph) \/ job' = [job EXCEPT ![x].phase = ph, ![x].bytes = b]
        PROVE  job' \in [Processes -> Run \cup {None}] /\ RunsClaims'
    <2>1. CASE Turn(x, ph)
      <3> DEFINE j == [job[x] EXCEPT !.phase = ph, !.bytes = job[x].bytes,
                                     !.outcome = job[x].outcome]
      <3>1. job[x].bytes \in Bytes /\ job[x].outcome \in Outcome
        BY <1>1 DEF Run
      <3>2. j = [job[x] EXCEPT !.phase = ph]
        BY <1>1 DEF Run
      <3>3. job' = [job EXCEPT ![x] = j]
        BY <2>1, <3>2 DEF Turn
      <3> QED BY <1>3, <3>1, <3>3
    <2>2. CASE job' = [job EXCEPT ![x].phase = ph, ![x].bytes = b]
      <3> DEFINE j == [job[x] EXCEPT !.phase = ph, !.bytes = b,
                                     !.outcome = job[x].outcome]
      <3>1. job[x].outcome \in Outcome
        BY <1>1 DEF Run
      <3>2. j = [job[x] EXCEPT !.phase = ph, !.bytes = b]
        BY <1>1 DEF Run
      <3>3. job' = [job EXCEPT ![x] = j]
        BY <2>2, <3>2
      <3> QED BY <1>3, <3>1, <3>3
    <2> QED BY <1>4, <2>1, <2>2
  <1>5. ASSUME NEW o \in Outcome, Report(x, o)
        PROVE  job' \in [Processes -> Run \cup {None}] /\ RunsClaims'
    <2> DEFINE j == [job[x] EXCEPT !.phase = "report", !.bytes = job[x].bytes,
                                   !.outcome = o]
    <2>1. job[x].bytes \in Bytes /\ "report" \in Phase
      BY <1>1 DEF Run, Phase
    <2>2. j = [job[x] EXCEPT !.phase = "report", !.outcome = o]
      BY <1>1 DEF Run
    <2>3. job' = [job EXCEPT ![x] = j]
      BY <1>5, <2>2 DEF Report
    <2> QED BY <1>3, <2>1, <2>3
  <1> QED BY <1>1, <1>2, <1>4, <1>5

\* The tables start empty (SCHEMA).
LEMMA InitTyped == Init => Typed
  BY EffectAssumption DEF Init, Typed, EffectTypeOK, RunsClaims, rows

\* Every step keeps the types, one action at a time.
LEMMA StepTyped == ASSUME Typed, [Next]_vars PROVE Typed'
  <1> USE EffectAssumption DEF Typed
  <1>1. ASSUME NEW p \in Packets, Release(p) PROVE Typed'
    BY <1>1 DEF Release, EffectTypeOK, RunsClaims, Packet
  <1>2. ASSUME NEW p \in Packets, CreateRequest(p) PROVE Typed'
    <2> PICK b \in bindings :
          effects' = [effects EXCEPT ![p] = [target |-> b.target, bytes |-> disk[p]]]
      BY <1>2 DEF CreateRequest
    <2>1. b \in BindingRequests /\ b.target \in Targets /\ disk[p] \in Bytes
      BY DEF EffectTypeOK, Targets
    <2>2. [target |-> b.target, bytes |-> disk[p]] \in Effect
      BY <2>1 DEF Effect
    <2>3. effects' \in [Packets -> Effect \cup {None}]
      BY <2>2 DEF EffectTypeOK
    <2>4. \A q \in Packets : effects[q] # None => effects'[q] # None
      BY <2>2 DEF EffectTypeOK
    <2>5. RunsClaims'
      BY <1>2, <2>4, ClaimParts DEF CreateRequest, RunsClaims, Packet, EffectTypeOK, Run
    <2> QED BY <1>2, <2>3, <2>5 DEF CreateRequest, EffectTypeOK
  <1>3. ASSUME NEW p \in Packets, ClaimEffect(p) PROVE Typed'
    BY <1>3 DEF ClaimEffect, EffectTypeOK, RunsClaims, Packet
  <1>4. ASSUME NEW p \in Packets, NEW b \in Bytes, EditArtifacts(p, b) PROVE Typed'
    BY <1>4 DEF EditArtifacts, rows, EffectTypeOK, RunsClaims, Packet
  <1>5. ASSUME NEW b \in BindingRequests, RegisterBinding(b) PROVE Typed'
    BY <1>5 DEF RegisterBinding, EffectTypeOK, RunsClaims, Packet
  <1>6. ASSUME NEW e \in Executors, RegisterExecutor(e) PROVE Typed'
    BY <1>6 DEF RegisterExecutor, EffectTypeOK, RunsClaims, Packet
  <1>7. ASSUME NEW x \in Processes, NEW c \in Claims, NEW e \in Executors,
               Start(x, c, e)
        PROVE  Typed'
    <2> DEFINE j == [phase |-> "verified", claim |-> c, executor |-> e,
                     bytes |-> disk[c[1]], outcome |-> "FAILED"]
    <2>1. j \in Run
      BY ClaimParts DEF Run, Phase, Outcome, EffectTypeOK
    <2>2. job' = [job EXCEPT ![x] = j]
      BY <1>7 DEF Start
    <2>3. effects[c[1]] # None
      BY <1>7 DEF Start
    <2>4. job' \in [Processes -> Run \cup {None}] /\ RunsClaims'
      BY <1>7, <2>1, <2>2, <2>3, JobTyped DEF Start, rows
    <2> QED BY <1>7, <2>4 DEF Start, rows, EffectTypeOK
  <1>8. ASSUME NEW x \in Processes, Recheck(x) PROVE Typed'
    <2>1. job[x] # None /\ effects' = effects
      BY <1>8 DEF Recheck, At, rows
    <2>2. job' \in [Processes -> Run \cup {None}] /\ RunsClaims'
      BY <1>8, <2>1, MovesTyped DEF Recheck, Phase, Outcome, Run
    <2> QED BY <1>8, <2>2 DEF Recheck, rows, EffectTypeOK
  <1>9. ASSUME NEW x \in Processes, Look(x) PROVE Typed'
    <2>1. job[x] # None /\ effects' = effects
      BY <1>9 DEF Look, At, rows
    <2>2. Packet(x) \in Packets
      BY <2>1, MovesTyped, ClaimParts DEF Packet, Run
    <2>3. disk[Packet(x)] \in Bytes
      BY <2>2 DEF EffectTypeOK
    <2>4. job' \in [Processes -> Run \cup {None}] /\ RunsClaims'
      BY <1>9, <2>1, <2>3, MovesTyped DEF Look, Phase, Outcome
    <2> QED BY <1>9, <2>4 DEF Look, rows, EffectTypeOK
  <1>10. ASSUME NEW x \in Processes, Open(x) PROVE Typed'
    <2>1. job[x] # None /\ effects' = effects
      BY <1>10 DEF Open, At, rows
    <2>2. job' \in [Processes -> Run \cup {None}] /\ RunsClaims'
      BY <1>10, <2>1, MovesTyped DEF Open, Phase, Outcome, Run
    <2> QED BY <1>10, <2>2 DEF Open, rows, EffectTypeOK
  <1>11. ASSUME NEW x \in Processes, Fill(x) PROVE Typed'
    <2>1. job[x] # None /\ effects' = effects
      BY <1>11 DEF Fill, At, rows
    <2>2. job' \in [Processes -> Run \cup {None}] /\ RunsClaims'
      BY <1>11, <2>1, MovesTyped DEF Fill, Outcome
    <2>3. job[x].bytes \in Bytes
      BY <2>1, MovesTyped DEF Run
    <2> QED BY <1>11, <2>2, <2>3 DEF Fill, rows, EffectTypeOK
  <1>12. ASSUME NEW x \in Processes, AdapterFails(x) PROVE Typed'
    <2>1. job[x] # None /\ effects' = effects
      BY <1>12 DEF AdapterFails, At, rows
    <2>2. job' \in [Processes -> Run \cup {None}] /\ RunsClaims'
      BY <1>12, <2>1, MovesTyped DEF AdapterFails, Outcome
    <2> QED BY <1>12, <2>2 DEF AdapterFails, rows, EffectTypeOK
  <1>13. ASSUME NEW x \in Processes, Sign(x) PROVE Typed'
    <2> DEFINE j == job[x]
               r == [effect |-> j.claim[1], claim |-> j.claim, executor |-> j.executor,
                     request |-> effects[j.claim[1]], outcome |-> j.outcome,
                     retry |-> RetryPermitted(j.outcome)]
    <2>1. job[x] # None /\ effects' = effects
      BY <1>13 DEF Sign, At, rows
    <2>2. job' \in [Processes -> Run \cup {None}] /\ RunsClaims'
      BY <1>13, <2>1, MovesTyped DEF Sign
    <2>3. /\ j.claim \in Claims /\ j.claim[1] \in Packets /\ j.executor \in Executors
          /\ j.outcome \in Outcome /\ effects[j.claim[1]] \in Effect
      BY <2>1, MovesTyped, ClaimParts DEF Run, Packet, EffectTypeOK
    <2>4. r \in Envelope
      BY <2>3 DEF Envelope, RetryPermitted
    <2>5. signed' = signed \cup {r}
      BY <1>13 DEF Sign
    <2> QED BY <1>13, <2>2, <2>4, <2>5 DEF Sign, rows, EffectTypeOK
  <1>14. ASSUME NEW x \in Processes, Crash(x) PROVE Typed'
    <2>1. job[x] # None /\ effects' = effects
      BY <1>14 DEF Crash, rows
    <2>2. job' \in [Processes -> Run \cup {None}] /\ RunsClaims'
      BY <1>14, <2>1, MovesTyped DEF Crash
    <2> QED BY <1>14, <2>2 DEF Crash, rows, EffectTypeOK
  <1>15. ASSUME NEW r \in signed \cup HandSigned, RecordResult(r) PROVE Typed'
    <2>1. r \in Envelope
      BY DEF EffectTypeOK
    <2>2. results' \in [Claims -> Envelope \cup {None}]
      BY <1>15, <2>1 DEF RecordResult, EffectTypeOK
    <2> QED BY <1>15, <2>2 DEF RecordResult, EffectTypeOK, RunsClaims, Packet
  <1>16. CASE UNCHANGED vars
    BY <1>16 DEF vars, rows, EffectTypeOK, RunsClaims, Packet
  <1> QED BY <1>1, <1>2, <1>3, <1>4, <1>5, <1>6, <1>7, <1>8, <1>9, <1>10, <1>11,
             <1>12, <1>13, <1>14, <1>15, <1>16 DEF Next, Adapter

\* The types in every reachable state.
THEOREM AlwaysTyped == Spec => []Typed
  BY InitTyped, StepTyped, PTL DEF Spec

(***************************************************************************)
(* The tables, the capture files and what every run has in hand keep their *)
(* types.                                                                  *)
(***************************************************************************)
THEOREM EffectsTyped == Spec => []EffectTypeOK
  BY AlwaysTyped, PTL DEF Typed

-----------------------------------------------------------------------------
(* Scopes and targets.  Bindings are one to one, and every request keeps   *)
(* the one that bound it.                                                  *)

BindingsApart ==
  \A b, c \in bindings : b.scope = c.scope \/ b.target = c.target => b = c

RequestsBound ==
  \A p \in Packets : effects[p] # None =>
    \E b \in bindings : b.scope = PacketScope[p] /\ b.target = effects[p].target

Bound == BindingsApart /\ RequestsBound

\* Registration keeps the bindings apart, and a request copies one of them.
LEMMA StepBound == ASSUME Typed, Bound, [Next]_vars PROVE Bound'
  <1>1. ASSUME NEW b \in BindingRequests, RegisterBinding(b) PROVE Bound'
    BY <1>1 DEF RegisterBinding, Taken, Bound, BindingsApart, RequestsBound
  <1>2. ASSUME NEW p \in Packets, CreateRequest(p) PROVE Bound'
    <2> PICK b \in bindings :
          /\ b.scope = PacketScope[p]
          /\ effects' = [effects EXCEPT ![p] = [target |-> b.target, bytes |-> disk[p]]]
      BY <1>2 DEF CreateRequest
    <2>1. bindings' = bindings
      BY <1>2 DEF CreateRequest
    <2>2. effects'[p].target = b.target /\ \A q \in Packets : q # p => effects'[q] = effects[q]
      BY DEF Typed, EffectTypeOK
    <2>3. RequestsBound'
      BY <2>1, <2>2 DEF Bound, RequestsBound
    <2> QED BY <2>1, <2>3 DEF Bound, BindingsApart
  <1>3. CASE UNCHANGED <<bindings, effects>>
    BY <1>3 DEF Bound, BindingsApart, RequestsBound
  <1> QED BY <1>1, <1>2, <1>3 DEF Next, Adapter, Release, ClaimEffect, EditArtifacts,
             RegisterExecutor, Start, Recheck, Look, Open, Fill, AdapterFails, Sign,
             Crash, RecordResult, rows, vars

(***************************************************************************)
(* Packets of different scopes never share a target, and packets of one    *)
(* scope always do.                                                        *)
(***************************************************************************)
THEOREM TargetsStaySeparate == Spec => []TargetsAreSeparate
  <1>1. Init => Bound
    BY DEF Init, Bound, BindingsApart, RequestsBound
  <1>2. Bound => TargetsAreSeparate
    BY DEF Bound, BindingsApart, RequestsBound, TargetsAreSeparate
  <1> QED BY <1>1, <1>2, StepBound, AlwaysTyped, PTL DEF Spec

-----------------------------------------------------------------------------
(* Claims and results.                                                     *)

Ledger == ClaimsAreSerial /\ ResultsFitClaims

\* A claim follows a failure that permits it, and a result resolves the last
\* claim only, because every earlier one has its result.
LEMMA StepLedger == ASSUME Typed, Ledger, [Next]_vars PROVE Ledger'
  <1> USE EffectAssumption DEF Typed, EffectTypeOK, Ledger
  <1>1. ASSUME NEW p \in Packets, ClaimEffect(p) PROVE Ledger'
    <2>1. /\ claims' = [claims EXCEPT ![p] = claims[p] + 1]
          /\ UNCHANGED <<results, effects, executors>> /\ MayClaim(p)
      BY <1>1 DEF ClaimEffect
    <2>2. ASSUME NEW q \in Packets, NEW a \in Attempt
          PROVE  LET r == results[<<q, a>>]
                 IN  /\ a < claims'[q] => r # None /\ r.outcome = "FAILED" /\ r.retry
                     /\ a > claims'[q] => r = None
      <3>1. claims[p] \in Nat /\ claims'[p] = claims[p] + 1 /\ a \in Nat /\ a > 0
        BY <2>1 DEF Attempt
      <3>2. CASE q # p
        BY <2>1, <3>2 DEF ClaimsAreSerial
      <3>3. CASE q = p /\ a = claims[p]
        BY <2>1, <3>1, <3>3 DEF MayClaim
      <3>4. CASE q = p /\ a # claims[p]
        BY <3>1, <3>4 DEF ClaimsAreSerial
      <3> QED BY <3>2, <3>3, <3>4
    <2> QED BY <2>1, <2>2 DEF ClaimsAreSerial, ResultsFitClaims
  <1>2. ASSUME NEW r \in signed \cup HandSigned, RecordResult(r) PROVE Ledger'
    <2>1. /\ r \in Envelope /\ r.claim \in Claims /\ r # None
          /\ results' = [results EXCEPT ![r.claim] = r]
          /\ results[r.claim] = None /\ r.claim[2] <= claims[r.claim[1]]
          /\ UNCHANGED <<claims, effects, executors>>
      BY <1>2 DEF RecordResult, Unresolved, Envelope
    <2>2. r.claim[1] \in Packets /\ r.claim[2] \in Attempt
          /\ r.claim = <<r.claim[1], r.claim[2]>>
      BY <2>1, ClaimParts
    <2>3. r.claim[2] = claims[r.claim[1]]
      <3>1. ~ (r.claim[2] < claims[r.claim[1]])
        <4> PICK p \in Packets, a \in Attempt : r.claim = <<p, a>>
          BY <2>2
        <4>1. results[<<p, a>>] = None
          BY <2>1
        <4>2. ~ (a < claims[p])
          BY <4>1 DEF ClaimsAreSerial
        <4> QED BY <4>2
      <3> QED BY <2>1, <2>2, <3>1 DEF Attempt
    <2>4. ClaimsAreSerial'
      <3> SUFFICES ASSUME NEW q \in Packets, NEW a \in Attempt
                   PROVE  LET s == results'[<<q, a>>]
                          IN  /\ a < claims[q] =>
                                   s # None /\ s.outcome = "FAILED" /\ s.retry
                              /\ a > claims[q] => s = None
        BY <2>1 DEF ClaimsAreSerial
      <3>1. <<q, a>> \in Claims /\ claims[q] \in Nat /\ a \in Nat
        BY DEF Claims, Attempt
      <3>2. CASE <<q, a>> = r.claim
        BY <2>3, <3>1, <3>2
      <3>3. CASE <<q, a>> # r.claim
        BY <2>1, <3>1, <3>3 DEF ClaimsAreSerial
      <3> QED BY <3>2, <3>3
    <2>5. ResultsFitClaims'
      BY <1>2, <2>1, <2>2 DEF RecordResult, Binds, ResultsFitClaims
    <2> QED BY <2>4, <2>5
  <1>3. ASSUME NEW p \in Packets, CreateRequest(p) PROVE Ledger'
    <2>1. /\ UNCHANGED <<claims, results, executors>> /\ effects[p] = None
          /\ \A q \in Packets : q # p => effects'[q] = effects[q]
      BY <1>3 DEF CreateRequest
    <2>2. ASSUME NEW c \in Claims, results[c] # None PROVE effects'[c[1]] = effects[c[1]]
      <3>1. results[c] \in Envelope /\ results[c].request = effects[c[1]]
        BY <2>2 DEF ResultsFitClaims
      <3>2. effects[c[1]] # None
        BY <3>1 DEF Envelope
      <3> QED BY <2>1, <3>2, ClaimParts
    <2> QED BY <2>1, <2>2 DEF ClaimsAreSerial, ResultsFitClaims
  <1>4. ASSUME NEW e \in Executors, RegisterExecutor(e) PROVE Ledger'
    BY <1>4 DEF RegisterExecutor, ClaimsAreSerial, ResultsFitClaims
  <1>5. CASE UNCHANGED <<claims, results, effects, executors>>
    BY <1>5 DEF ClaimsAreSerial, ResultsFitClaims
  <1> QED BY <1>1, <1>2, <1>3, <1>4, <1>5 DEF Next, Adapter, Release, EditArtifacts,
             RegisterBinding, Start, Recheck, Look, Open, Fill, AdapterFails, Sign,
             Crash, rows, vars

\* Nothing is claimed or recorded in the beginning.
THEOREM AlwaysLedger == Spec => []Ledger
  <1>1. Init => Ledger
    BY DEF Init, Ledger, ClaimsAreSerial, ResultsFitClaims, Attempt, Claims
  <1> QED BY <1>1, StepLedger, AlwaysTyped, PTL DEF Spec

(***************************************************************************)
(* Only a failure that permits a retry is ever followed by another claim.  *)
(***************************************************************************)
THEOREM ClaimsStaySerial == Spec => []ClaimsAreSerial
  BY AlwaysLedger, PTL DEF Ledger

(***************************************************************************)
(* Whatever is signed and delivered, in whatever order, a recorded result  *)
(* belongs to the claim and the request it is recorded for.                *)
(***************************************************************************)
THEOREM ResultsStayFitting == Spec => []ResultsFitClaims
  BY AlwaysLedger, PTL DEF Ledger

(***************************************************************************)
(* A second result of a claim is never recorded.                           *)
(***************************************************************************)
THEOREM FirstResultIsKept == Spec => FirstResultStands
  <1>1. ASSUME Typed, [Next]_vars
        PROVE  [\A c \in Claims : results[c] # None => results'[c] = results[c]]_vars
    <2>1. ASSUME NEW r \in signed \cup HandSigned, RecordResult(r), NEW c \in Claims,
                 results[c] # None
          PROVE  results'[c] = results[c]
      BY <2>1 DEF RecordResult, Unresolved, Typed, EffectTypeOK
    <2> QED BY <1>1, <2>1 DEF Next, Adapter, Release, CreateRequest, ClaimEffect,
               EditArtifacts, RegisterBinding, RegisterExecutor, Start, Recheck, Look,
               Open, Fill, AdapterFails, Sign, Crash, rows, vars
  <1> QED BY <1>1, AlwaysTyped, PTL DEF Spec, FirstResultStands

-----------------------------------------------------------------------------
(* Capture files.  A file is created by one run, which alone fills it, and *)
(* a run has success to report only over a whole file.                     *)

Captured ==
  /\ \A x \in Processes : At(x, "fill") => captures[Packet(x)] = "partial"
  /\ \A x, y \in Processes :
       At(x, "fill") /\ At(y, "fill") /\ Packet(x) = Packet(y) => x = y
  /\ \A x \in Processes :
       At(x, "report") /\ job[x].outcome = "SUCCEEDED" => captures[Packet(x)] \in Bytes
  /\ SuccessIsCaptured

\* A run that neither comes to fill a file nor to report success has nothing
\* to answer for (CaptureAdapter.invoke).
LEMMA QuietStep ==
  ASSUME Typed, Captured, NEW x \in Processes, captures' = captures, signed' = signed,
         \A y \in Processes : y # x => job'[y] = job[y],
         ~ At(x, "fill")',
         At(x, "report")' => job'[x].outcome # "SUCCEEDED"
  PROVE  Captured'
  BY DEF Captured, SuccessIsCaptured, At, Packet

\* The alternatives of a run's step (execute_claimed_effect).
LEMMA Moves ==
  ASSUME Typed, NEW x \in Processes, job[x] # None
  PROVE  /\ Packet(x) \in Packets /\ captures[Packet(x)] \in Bytes \cup {None, "partial"}
         /\ disk[Packet(x)] \in Bytes /\ job[x].bytes \in Bytes
         /\ Stop(x) => job'[x] = None /\ \A y \in Processes : y # x => job'[y] = job[y]
         /\ \A ph : Turn(x, ph) =>
              /\ job'[x].phase = ph /\ job'[x].claim = job[x].claim
              /\ \A y \in Processes : y # x => job'[y] = job[y]
         /\ \A o : Report(x, o) =>
              /\ job'[x].phase = "report" /\ job'[x].outcome = o
              /\ job'[x].claim = job[x].claim
              /\ \A y \in Processes : y # x => job'[y] = job[y]
  <1>1. job[x] \in Run /\ job \in [Processes -> Run \cup {None}]
    BY DEF Typed, EffectTypeOK
  <1>2. Packet(x) \in Packets /\ job[x].bytes \in Bytes
    BY <1>1, ClaimParts DEF Run, Packet
  <1>3. ASSUME NEW ph, Turn(x, ph)
        PROVE  /\ job'[x].phase = ph /\ job'[x].claim = job[x].claim
               /\ \A y \in Processes : y # x => job'[y] = job[y]
    BY <1>1, <1>3 DEF Turn, Run
  <1>4. ASSUME NEW o, Report(x, o)
        PROVE  /\ job'[x].phase = "report" /\ job'[x].outcome = o
               /\ job'[x].claim = job[x].claim
               /\ \A y \in Processes : y # x => job'[y] = job[y]
    BY <1>1, <1>4 DEF Report, Run
  <1> QED BY <1>1, <1>2, <1>3, <1>4 DEF Typed, EffectTypeOK, Stop

\* Exclusive creation lets one run fill the file, and only a whole file with
\* the same content passes for the success of another.
LEMMA StepCaptured == ASSUME Typed, Captured, [Next]_vars PROVE Captured'
  <1>1. ASSUME NEW x \in Processes, NEW c \in Claims, NEW e \in Executors,
               Start(x, c, e)
        PROVE  Captured'
    <2>1. /\ captures' = captures /\ signed' = signed
          /\ job'[x].phase = "verified" /\ \A y \in Processes : y # x => job'[y] = job[y]
      BY <1>1 DEF Start, Typed, EffectTypeOK
    <2> QED BY <2>1, QuietStep DEF At
  <1>2. ASSUME NEW x \in Processes, Recheck(x) \/ AdapterFails(x) \/ Crash(x)
        PROVE  Captured'
    <2>1. /\ captures' = captures /\ signed' = signed /\ job[x] # None
          /\ \/ Stop(x) \/ Turn(x, "adapter")
             \/ Report(x, "UNKNOWN") \/ Report(x, "FAILED")
      BY <1>2 DEF Recheck, AdapterFails, Crash, At
    <2>2. ~ At(x, "fill")' /\ (At(x, "report")' => job'[x].outcome # "SUCCEEDED")
      BY <2>1, Moves DEF At
    <2> QED BY <2>1, <2>2, Moves, QuietStep
  <1>3. ASSUME NEW x \in Processes, Look(x) PROVE Captured'
    <2>1. /\ captures' = captures /\ signed' = signed /\ job[x] # None
          /\ job[x] \in Run /\ Packet(x) \in Packets
      BY <1>3, Moves DEF Look, At, Typed, EffectTypeOK
    <2>2. CASE captures[Packet(x)] = None
      <3>1. job' = [job EXCEPT ![x].phase = "open", ![x].bytes = disk[Packet(x)]]
        BY <1>3, <2>2 DEF Look
      <3>2. job'[x].phase = "open" /\ \A y \in Processes : y # x => job'[y] = job[y]
        BY <2>1, <3>1 DEF Typed, EffectTypeOK, Run
      <3> QED BY <2>1, <3>2, QuietStep DEF At
    <2>3. CASE Report(x, "UNKNOWN")
      BY <2>1, <2>3, Moves, QuietStep DEF At
    <2>4. CASE SameCapture(Packet(x), disk[Packet(x)]) /\ Report(x, "SUCCEEDED")
      <3>1. captures[Packet(x)] \in Bytes
        BY <2>1, <2>4, Moves DEF SameCapture
      <3>2. /\ job'[x].phase = "report" /\ job'[x].claim = job[x].claim
            /\ \A y \in Processes : y # x => job'[y] = job[y]
        BY <2>1, <2>4, Moves
      <3> QED BY <2>1, <3>1, <3>2 DEF Captured, SuccessIsCaptured, At, Packet
    <2> QED BY <1>3, <2>2, <2>3, <2>4 DEF Look
  <1>4. ASSUME NEW x \in Processes, Open(x) PROVE Captured'
    <2>1. /\ signed' = signed /\ job[x] # None
          /\ job[x] \in Run /\ Packet(x) \in Packets
      BY <1>4, Moves DEF Open, At, Typed, EffectTypeOK
    <2>2. CASE ~ MayOpen(Packet(x))
      <3>1. captures' = captures /\ Report(x, "UNKNOWN")
        BY <1>4, <2>2 DEF Open
      <3> QED BY <2>1, <3>1, Moves, QuietStep DEF At
    <2>3. CASE MayOpen(Packet(x))
      <3>1. /\ captures[Packet(x)] = None /\ Turn(x, "fill")
            /\ captures' = [captures EXCEPT ![Packet(x)] = "partial"]
        BY <1>4, <2>3 DEF Open, MayOpen
      <3>2. /\ job'[x].phase = "fill" /\ job'[x].claim = job[x].claim
            /\ \A y \in Processes : y # x => job'[y] = job[y]
        BY <2>1, <3>1, Moves
      <3>3. /\ captures'[Packet(x)] = "partial"
            /\ \A q \in Packets : q # Packet(x) => captures'[q] = captures[q]
            /\ None \notin Bytes /\ None # "partial"
        BY <2>1, <3>1, EffectAssumption DEF Typed, EffectTypeOK
      <3>4. \A y \in Processes : At(y, "fill") => Packet(y) # Packet(x)
        BY <3>1, <3>3 DEF Captured
      <3>5. \A y \in Processes : At(y, "report") /\ job[y].outcome = "SUCCEEDED" =>
              Packet(y) # Packet(x) /\ Packet(y) \in Packets
        BY <3>1, <3>3, Moves DEF Captured, At
      <3>6. SuccessIsCaptured'
        BY <2>1, <3>1, <3>3 DEF Captured, SuccessIsCaptured, Typed, EffectTypeOK, Envelope
      <3>7. \A y \in Processes : At(y, "fill")' /\ y # x =>
              At(y, "fill") /\ Packet(y)' = Packet(y) /\ Packet(y) \in Packets
        BY <3>2, Moves DEF At, Packet
      <3> QED BY <3>2, <3>3, <3>4, <3>5, <3>6, <3>7 DEF Captured, At, Packet
    <2> QED BY <2>2, <2>3
  <1>5. ASSUME NEW x \in Processes, Fill(x) PROVE Captured'
    <2>1. /\ signed' = signed /\ At(x, "fill") /\ Packet(x) \in Packets
          /\ captures' = [captures EXCEPT ![Packet(x)] = job[x].bytes]
          /\ job[x].bytes \in Bytes /\ Report(x, "SUCCEEDED")
      BY <1>5, Moves DEF Fill, At
    <2>2. /\ captures'[Packet(x)] \in Bytes
          /\ \A q \in Packets : q # Packet(x) => captures'[q] = captures[q]
      BY <2>1 DEF Typed, EffectTypeOK
    <2>3. /\ job'[x].phase = "report" /\ job'[x].claim = job[x].claim
          /\ \A y \in Processes : y # x => job'[y] = job[y]
      BY <2>1, Moves DEF At
    <2>4. \A y \in Processes : At(y, "fill") /\ y # x => Packet(y) # Packet(x)
      BY <2>1 DEF Captured
    <2>5. \A y \in Processes : job[y] # None => Packet(y) \in Packets
      BY Moves
    <2>6. SuccessIsCaptured'
      BY <2>1, <2>2 DEF Captured, SuccessIsCaptured, Typed, EffectTypeOK, Envelope
    <2>7. \A y \in Processes : At(y, "fill")' =>
            /\ y # x /\ At(y, "fill") /\ Packet(y)' = Packet(y)
            /\ captures'[Packet(y)] = captures[Packet(y)]
      BY <2>2, <2>3, <2>4, <2>5 DEF At, Packet
    <2>8. ASSUME NEW y \in Processes, At(y, "report")', job'[y].outcome = "SUCCEEDED"
          PROVE  captures'[Packet(y)'] \in Bytes
      <3>1. CASE y = x
        BY <2>2, <2>3, <3>1 DEF Packet
      <3>2. CASE y # x
        <4>1. At(y, "report") /\ Packet(y)' = Packet(y) /\ job[y].outcome = "SUCCEEDED"
          BY <2>3, <2>8, <3>2 DEF At, Packet
        <4>2. captures[Packet(y)] \in Bytes /\ Packet(y) \in Packets
          BY <2>5, <4>1 DEF Captured, At
        <4> QED BY <2>2, <4>1, <4>2
      <3> QED BY <3>1, <3>2
    <2>9. \A y, z \in Processes :
            At(y, "fill")' /\ At(z, "fill")' /\ Packet(y)' = Packet(z)' => y = z
      BY <2>7 DEF Captured
    <2>10. \A y \in Processes : At(y, "fill")' => captures'[Packet(y)'] = "partial"
      BY <2>7 DEF Captured
    <2> QED BY <2>6, <2>8, <2>9, <2>10 DEF Captured
  <1>6. ASSUME NEW x \in Processes, Sign(x) PROVE Captured'
    <2>1. /\ captures' = captures /\ At(x, "report") /\ Stop(x)
          /\ \A r \in signed' :
               r \in signed \/ (r.effect = Packet(x) /\ r.outcome = job[x].outcome)
      BY <1>6 DEF Sign, Packet
    <2>2. SuccessIsCaptured'
      BY <2>1 DEF Captured, SuccessIsCaptured
    <2>3. job'[x] = None /\ \A y \in Processes : y # x => job'[y] = job[y]
      BY <2>1, Moves DEF At
    <2> QED BY <2>1, <2>2, <2>3 DEF Captured, At, Packet
  <1>7. CASE UNCHANGED <<captures, signed, job>>
    BY <1>7 DEF Captured, SuccessIsCaptured, At, Packet
  <1> QED BY <1>1, <1>2, <1>3, <1>4, <1>5, <1>6, <1>7 DEF Next, Adapter, Release,
             CreateRequest, ClaimEffect, EditArtifacts, RegisterBinding,
             RegisterExecutor, RecordResult, rows, vars

\* The beginning: no run and no file.
THEOREM AlwaysCaptured == Spec => []Captured
  <1>1. Init => Captured
    BY DEF Init, Captured, SuccessIsCaptured, At
  <1> QED BY <1>1, StepCaptured, AlwaysTyped, PTL DEF Spec

(***************************************************************************)
(* Whatever runs overlap, crash or repeat a claim, a reported success has  *)
(* a whole capture file.                                                   *)
(***************************************************************************)
THEOREM SuccessStaysCaptured == Spec => []SuccessIsCaptured
  BY AlwaysCaptured, PTL DEF Captured

(***************************************************************************)
(* A whole capture file is never written again.                            *)
(***************************************************************************)
THEOREM CaptureIsKept == Spec => CaptureIsFinal
  <1>1. ASSUME Typed, Captured, [Next]_vars
        PROVE  [\A p \in Packets : captures[p] \in Bytes => captures'[p] = captures[p]]_vars
    <2>1. ASSUME NEW x \in Processes, Open(x), NEW p \in Packets, captures[p] \in Bytes
          PROVE  captures'[p] = captures[p]
      BY <1>1, <2>1, EffectAssumption DEF Open, MayOpen, Typed, EffectTypeOK
    <2>2. ASSUME NEW x \in Processes, Fill(x), NEW p \in Packets, captures[p] \in Bytes
          PROVE  captures'[p] = captures[p]
      BY <1>1, <2>2, EffectAssumption DEF Fill, Captured, Typed, EffectTypeOK
    <2> QED BY <1>1, <2>1, <2>2 DEF Next, Adapter, Release, CreateRequest, ClaimEffect,
               EditArtifacts, RegisterBinding, RegisterExecutor, Start, Recheck, Look,
               AdapterFails, Sign, Crash, RecordResult, rows, vars
  <1> QED BY <1>1, AlwaysTyped, AlwaysCaptured, PTL DEF Spec, CaptureIsFinal

-----------------------------------------------------------------------------
(* The audit.  Whatever it compares in a row was there, and its event in   *)
(* the chain, when the row was inserted; and rows stay.                    *)

RequestsOrdered ==
  \A p \in Packets : effects[p] # None =>
    /\ p \in released /\ effects[p].bytes \in Intact
    /\ <<ReleaseRow(p), RequestRow(p)>> \in before
    /\ \E b \in bindings :
         /\ b.scope = PacketScope[p] /\ b.target = effects[p].target
         /\ <<BindingRow(b), RequestRow(p)>> \in before

ClaimsOrdered ==
  \A c \in Claims :
    /\ Claimed(c) => effects[c[1]] # None /\ <<RequestRow(c[1]), ClaimRow(c)>> \in before
    /\ Claimed(NextTry(c)) => <<ResultRow(c), ClaimRow(NextTry(c))>> \in before

ResultsOrdered ==
  \A c \in Claims : results[c] # None =>
    /\ Claimed(c) /\ <<ClaimRow(c), ResultRow(c)>> \in before
    /\ <<ExecutorRow(results[c].executor), ResultRow(c)>> \in before

Ordered == RequestsOrdered /\ ClaimsOrdered /\ ResultsOrdered

\* Which pairs are compared (the sequence comparisons of verify_integrity).
LEMMA ComparedAre ==
  /\ \A p \in Packets : <<ReleaseRow(p), RequestRow(p)>> \in Compared
  /\ \A b \in BindingRequests, p \in Packets :
       b.scope = PacketScope[p] => <<BindingRow(b), RequestRow(p)>> \in Compared
  /\ \A c \in Claims :
       /\ <<RequestRow(c[1]), ClaimRow(c)>> \in Compared
       /\ <<ResultRow(c), ClaimRow(NextTry(c))>> \in Compared
       /\ <<ClaimRow(c), ResultRow(c)>> \in Compared
       /\ \A e \in Executors : <<ExecutorRow(e), ResultRow(c)>> \in Compared
  <1>1. \A p \in Packets : <<ReleaseRow(p), RequestRow(p)>> \in Compared
    BY DEF Compared
  <1>2. ASSUME NEW b \in BindingRequests, NEW p \in Packets, b.scope = PacketScope[p]
        PROVE  <<BindingRow(b), RequestRow(p)>> \in Compared
    <2> DEFINE d == <<b, p>>
    <2>1. d \in {e \in BindingRequests \X Packets : e[1].scope = PacketScope[e[2]]}
      BY <1>2
    <2>2. <<BindingRow(b), RequestRow(p)>> = <<BindingRow(d[1]), RequestRow(d[2])>>
      OBVIOUS
    <2> HIDE DEF d
    <2> QED BY <2>1, <2>2 DEF Compared
  <1>3. ASSUME NEW c \in Claims
        PROVE  /\ <<RequestRow(c[1]), ClaimRow(c)>> \in Compared
               /\ <<ResultRow(c), ClaimRow(NextTry(c))>> \in Compared
               /\ <<ClaimRow(c), ResultRow(c)>> \in Compared
    BY DEF Compared
  <1>4. ASSUME NEW e \in Executors, NEW c \in Claims
        PROVE  <<ExecutorRow(e), ResultRow(c)>> \in Compared
    <2> DEFINE d == <<e, c>>
    <2>1. d \in Executors \X Claims
      OBVIOUS
    <2>2. <<ExecutorRow(e), ResultRow(c)>> = <<ExecutorRow(d[1]), ResultRow(d[2])>>
      OBVIOUS
    <2> HIDE DEF d
    <2> QED BY <2>1, <2>2 DEF Compared
  <1> QED BY <1>1, <1>2, <1>3, <1>4

\* Which rows there are (verify_integrity reads every table).
LEMMA RowsAre ==
  /\ \A p \in released : ReleaseRow(p) \in Rows
  /\ \A b \in bindings : BindingRow(b) \in Rows
  /\ \A e \in executors : ExecutorRow(e) \in Rows
  /\ \A p \in Packets : RequestRow(p) \in Rows <=> effects[p] # None
  /\ \A c \in Claims : ClaimRow(c) \in Rows <=> Claimed(c)
  /\ \A c \in Claims : ResultRow(c) \in Rows <=> results[c] # None
  BY DEF Rows, ReleaseRow, BindingRow, ExecutorRow, RequestRow, ClaimRow, ResultRow

\* And after a step.
LEMMA RowsBecome ==
  /\ \A p \in Packets : RequestRow(p) \in Rows' <=> effects'[p] # None
  /\ \A c \in Claims : ClaimRow(c) \in Rows' <=> c[2] <= claims'[c[1]]
  /\ \A c \in Claims : ResultRow(c) \in Rows' <=> results'[c] # None
  BY DEF Rows, ReleaseRow, BindingRow, ExecutorRow, RequestRow, ClaimRow, ResultRow, Claimed

\* An inserted row comes after those that were there (insert_transition_event).
LEMMA ComesAfter ==
  ASSUME Insert
  PROVE  /\ before \subseteq before'
         /\ \A r, n : <<r, n>> \in Compared /\ r \in Rows /\ n \in Rows' /\ n \notin Rows
                        => <<r, n>> \in before'
  <1>1. CASE rows' = rows
    <2>1. Rows' = Rows
      BY <1>1 DEF rows, Rows, Claimed
    <2> QED BY <1>1, <2>1 DEF Insert
  <1>2. CASE rows' # rows
    BY <1>2 DEF Insert
  <1> QED BY <1>1, <1>2

\* A request is derived from a released packet whose files fit, and from a
\* binding; both stay (create_external_effect_request).
LEMMA RequestsStayOrdered ==
  ASSUME Typed, RequestsOrdered, [Next]_vars, Insert
  PROVE  RequestsOrdered'
  <1> USE DEF Typed, EffectTypeOK
  <1>1. ASSUME NEW p \in Packets, CreateRequest(p) PROVE RequestsOrdered'
    <2>1. PICK b \in bindings :
            /\ b.scope = PacketScope[p]
            /\ effects' = [effects EXCEPT ![p] = [target |-> b.target, bytes |-> disk[p]]]
      BY <1>1 DEF CreateRequest
    <2>2. /\ p \in released /\ disk[p] \in Intact /\ effects[p] = None
          /\ released' = released /\ bindings' = bindings
      BY <1>1 DEF CreateRequest
    <2>3. /\ effects'[p] = [target |-> b.target, bytes |-> disk[p]] /\ effects'[p] # None
          /\ \A q \in Packets : q # p => effects'[q] = effects[q]
      BY <2>1, EffectAssumption DEF Targets, Effect
    <2>4. RequestRow(p) \in Rows' /\ RequestRow(p) \notin Rows
      BY <2>2, <2>3, RowsAre, RowsBecome DEF RequestRow
    <2>5. <<ReleaseRow(p), RequestRow(p)>> \in before'
      <3>1. <<ReleaseRow(p), RequestRow(p)>> \in Compared
        BY ComparedAre
      <3> QED BY <2>2, <2>4, <3>1, ComesAfter, RowsAre
    <2>6. <<BindingRow(b), RequestRow(p)>> \in before'
      <3>1. <<BindingRow(b), RequestRow(p)>> \in Compared
        BY <2>1, ComparedAre
      <3> QED BY <2>4, <3>1, ComesAfter, RowsAre
    <2>7. ASSUME NEW q \in Packets, effects'[q] # None
          PROVE  /\ q \in released' /\ effects'[q].bytes \in Intact
                 /\ <<ReleaseRow(q), RequestRow(q)>> \in before'
                 /\ \E d \in bindings' :
                      /\ d.scope = PacketScope[q] /\ d.target = effects'[q].target
                      /\ <<BindingRow(d), RequestRow(q)>> \in before'
      <3>1. CASE q = p
        BY <2>1, <2>2, <2>3, <2>5, <2>6, <3>1
      <3>2. CASE q # p
        BY <2>2, <2>3, <2>7, <3>2, ComesAfter DEF RequestsOrdered
      <3> QED BY <3>1, <3>2
    <2> QED BY <2>7 DEF RequestsOrdered, ReleaseRow, RequestRow, BindingRow
  <1>2. CASE effects' = effects /\ released \subseteq released' /\ bindings \subseteq bindings'
    <2>1. ASSUME NEW q \in Packets, effects'[q] # None
          PROVE  /\ q \in released' /\ effects'[q].bytes \in Intact
                 /\ <<ReleaseRow(q), RequestRow(q)>> \in before'
                 /\ \E d \in bindings' :
                      /\ d.scope = PacketScope[q] /\ d.target = effects'[q].target
                      /\ <<BindingRow(d), RequestRow(q)>> \in before'
      BY <1>2, <2>1, ComesAfter DEF RequestsOrdered
    <2> QED BY <2>1 DEF RequestsOrdered, ReleaseRow, RequestRow, BindingRow
  <1> QED BY <1>1, <1>2 DEF Next, Adapter, Release, ClaimEffect, EditArtifacts,
             RegisterBinding, RegisterExecutor, Start, Recheck, Look, Open, Fill,
             AdapterFails, Sign, Crash, RecordResult, rows, vars

\* Requests stay as they are (external_effect_requests is only inserted into).
LEMMA RequestsStay ==
  ASSUME Typed, [Next]_vars, NEW p \in Packets, effects[p] # None
  PROVE  effects'[p] = effects[p]
  <1>1. ASSUME NEW q \in Packets, CreateRequest(q) PROVE effects'[p] = effects[p]
    BY <1>1 DEF CreateRequest, Typed, EffectTypeOK
  <1> QED BY <1>1 DEF Next, Adapter, Release, ClaimEffect, EditArtifacts,
             RegisterBinding, RegisterExecutor, Start, Recheck, Look, Open, Fill,
             AdapterFails, Sign, Crash, RecordResult, rows, vars

\* An attempt is claimed after its request, and after the result of the attempt
\* before it (claim_external_effect).
LEMMA ClaimsStayOrdered ==
  ASSUME Typed, Typed', ClaimsOrdered, [Next]_vars, Insert
  PROVE  ClaimsOrdered'
  <1> USE EffectAssumption DEF Typed, EffectTypeOK
  <1>1. ASSUME NEW p \in Packets, ClaimEffect(p) PROVE ClaimsOrdered'
    <2> DEFINE k == claims[p] + 1
    <2>1. /\ claims' = [claims EXCEPT ![p] = claims[p] + 1]
          /\ UNCHANGED <<results, effects>> /\ MayClaim(p)
          /\ effects[p] # None /\ claims[p] < MaxAttempts
      BY <1>1 DEF ClaimEffect
    <2>2. claims[p] \in Nat /\ claims'[p] = claims[p] + 1 /\ <<p, k>> \in Claims
      BY <2>1 DEF Claims, Attempt
    <2>3. ClaimRow(<<p, k>>) \in Rows' /\ ClaimRow(<<p, k>>) \notin Rows
      BY <2>2, RowsAre, RowsBecome DEF Claimed, ClaimRow
    <2>4. <<RequestRow(p), ClaimRow(<<p, k>>)>> \in before'
      <3>1. <<RequestRow(p), ClaimRow(<<p, k>>)>> \in Compared
        BY <2>1, <2>2, ComparedAre
      <3> QED BY <2>1, <2>3, <3>1, ComesAfter, RowsAre
    <2>5. claims[p] > 0 => <<ResultRow(<<p, claims[p]>>), ClaimRow(<<p, k>>)>> \in before'
      <3>1. SUFFICES ASSUME claims[p] > 0
                     PROVE  <<ResultRow(<<p, claims[p]>>), ClaimRow(<<p, k>>)>> \in before'
        OBVIOUS
      <3>2. <<p, claims[p]>> \in Claims /\ NextTry(<<p, claims[p]>>) = <<p, k>>
        BY <2>1, <2>2, <3>1 DEF Claims, Attempt, NextTry
      <3>3. <<ResultRow(<<p, claims[p]>>), ClaimRow(<<p, k>>)>> \in Compared
        BY <3>2, ComparedAre
      <3>4. ResultRow(<<p, claims[p]>>) \in Rows
        BY <2>1, <3>1, <3>2, RowsAre DEF MayClaim
      <3> QED BY <2>3, <3>3, <3>4, ComesAfter
    <2>6. ASSUME NEW c \in Claims, c[2] <= claims'[c[1]]
          PROVE  effects'[c[1]] # None /\ <<RequestRow(c[1]), ClaimRow(c)>> \in before'
      <3>1. c[1] \in Packets /\ c[2] \in Nat /\ c = <<c[1], c[2]>> /\ claims[c[1]] \in Nat
        BY ClaimParts DEF Attempt
      <3>2. CASE c = <<p, k>>
        BY <2>1, <2>4, <3>2
      <3>3. CASE c # <<p, k>>
        <4>1. Claimed(c)
          BY <2>1, <2>2, <2>6, <3>1, <3>3 DEF Claimed
        <4> QED BY <2>1, <4>1, ComesAfter DEF ClaimsOrdered
      <3> QED BY <3>2, <3>3
    <2>7. ASSUME NEW c \in Claims, c[2] + 1 <= claims'[c[1]]
          PROVE  <<ResultRow(c), ClaimRow(NextTry(c))>> \in before'
      <3>1. c[1] \in Packets /\ c[2] \in Nat /\ c[2] > 0 /\ c = <<c[1], c[2]>> /\ claims[c[1]] \in Nat
        BY ClaimParts DEF Attempt
      <3>2. CASE c = <<p, claims[p]>>
        <4>1. claims[p] > 0 /\ NextTry(c) = <<p, k>>
          BY <3>1, <3>2 DEF NextTry
        <4> QED BY <2>5, <3>2, <4>1
      <3>3. CASE c # <<p, claims[p]>>
        <4>1. c[2] + 1 <= claims[c[1]]
          BY <2>1, <2>2, <2>7, <3>1, <3>3
        <4>2. Claimed(NextTry(c))
          BY <4>1 DEF Claimed, NextTry
        <4> QED BY <4>2, ComesAfter DEF ClaimsOrdered
      <3> QED BY <3>2, <3>3
    <2> QED BY <2>6, <2>7 DEF ClaimsOrdered, Claimed, NextTry, RequestRow, ClaimRow, ResultRow
  <1>2. CASE claims' = claims
    <2>1. ASSUME NEW c \in Claims, Claimed(c)
          PROVE  effects'[c[1]] # None /\ <<RequestRow(c[1]), ClaimRow(c)>> \in before'
      BY <2>1, ClaimParts, RequestsStay, ComesAfter DEF ClaimsOrdered
    <2>2. ASSUME NEW c \in Claims, Claimed(NextTry(c))
          PROVE  <<ResultRow(c), ClaimRow(NextTry(c))>> \in before'
      BY <2>2, ComesAfter DEF ClaimsOrdered
    <2> QED BY <1>2, <2>1, <2>2 DEF ClaimsOrdered, Claimed, NextTry, RequestRow, ClaimRow, ResultRow
  <1> QED BY <1>1, <1>2 DEF Next, Adapter, Release, CreateRequest, EditArtifacts,
             RegisterBinding, RegisterExecutor, Start, Recheck, Look, Open, Fill,
             AdapterFails, Sign, Crash, RecordResult, rows, vars

\* A claim stays claimed (external_effect_dispatches is only inserted into).
LEMMA ClaimsGrow ==
  ASSUME Typed, [Next]_vars, NEW c \in Claims, Claimed(c)
  PROVE  c[2] <= claims'[c[1]]
  <1>1. c[1] \in Packets /\ c[2] \in Nat
    BY EffectAssumption, ClaimParts DEF Attempt
  <1>2. claims[c[1]] \in Nat /\ claims \in [Packets -> 0..MaxAttempts]
    BY <1>1, EffectAssumption DEF Typed, EffectTypeOK
  <1>3. ASSUME NEW p \in Packets, ClaimEffect(p) PROVE c[2] <= claims'[c[1]]
    BY <1>1, <1>2, <1>3 DEF ClaimEffect, Claimed
  <1>4. CASE claims' = claims
    BY <1>4 DEF Claimed
  <1> QED BY <1>3, <1>4 DEF Next, Adapter, Release, CreateRequest, EditArtifacts,
             RegisterBinding, RegisterExecutor, Start, Recheck, Look, Open, Fill,
             AdapterFails, Sign, Crash, RecordResult, rows, vars

\* A result is recorded after its claim, and after its executor was registered
\* (record_signed_executor_result).
LEMMA ResultsStayOrdered ==
  ASSUME Typed, ResultsOrdered, [Next]_vars, Insert
  PROVE  ResultsOrdered'
  <1> USE EffectAssumption DEF Typed, EffectTypeOK
  <1>1. ASSUME NEW r \in signed \cup HandSigned, RecordResult(r) PROVE ResultsOrdered'
    <2> DEFINE c == r.claim
    <2>1. /\ r \in Envelope /\ c \in Claims /\ r # None /\ r.executor \in executors
          /\ results' = [results EXCEPT ![c] = r] /\ results[c] = None
          /\ Claimed(c) /\ claims' = claims
      BY <1>1 DEF RecordResult, Unresolved, Envelope, Claimed
    <2> HIDE DEF c
    <2>2. /\ results'[c] = r
          /\ \A d \in Claims : d # c => results'[d] = results[d]
      BY <2>1
    <2>3. ResultRow(c) \in Rows' /\ ResultRow(c) \notin Rows
      BY <2>1, <2>2, RowsAre, RowsBecome DEF ResultRow
    <2>4. <<ClaimRow(c), ResultRow(c)>> \in before'
      <3>1. <<ClaimRow(c), ResultRow(c)>> \in Compared
        BY <2>1, ComparedAre
      <3> QED BY <2>1, <2>3, <3>1, ComesAfter, RowsAre
    <2>5. <<ExecutorRow(r.executor), ResultRow(c)>> \in before'
      <3>1. <<ExecutorRow(r.executor), ResultRow(c)>> \in Compared
        BY <2>1, ComparedAre
      <3> QED BY <2>1, <2>3, <3>1, ComesAfter, RowsAre
    <2>6. ASSUME NEW d \in Claims, results'[d] # None
          PROVE  /\ Claimed(d) /\ <<ClaimRow(d), ResultRow(d)>> \in before'
                 /\ <<ExecutorRow(results'[d].executor), ResultRow(d)>> \in before'
      <3>1. CASE d = c
        BY <2>1, <2>2, <2>4, <2>5, <3>1
      <3>2. CASE d # c
        BY <2>2, <2>6, <3>2, ComesAfter DEF ResultsOrdered
      <3> QED BY <3>1, <3>2
    <2> QED BY <2>1, <2>6 DEF ResultsOrdered, Claimed, ClaimRow, ResultRow, ExecutorRow
  <1>2. CASE results' = results
    <2>1. ASSUME NEW d \in Claims, results[d] # None
          PROVE  /\ d[2] <= claims'[d[1]] /\ <<ClaimRow(d), ResultRow(d)>> \in before'
                 /\ <<ExecutorRow(results[d].executor), ResultRow(d)>> \in before'
      <3>1. Claimed(d)
        BY <2>1 DEF ResultsOrdered
      <3>2. d[2] <= claims'[d[1]]
        BY <3>1, ClaimsGrow
      <3> QED BY <2>1, <3>2, ComesAfter DEF ResultsOrdered
    <2> QED BY <1>2, <2>1 DEF ResultsOrdered, Claimed, ClaimRow, ResultRow, ExecutorRow
  <1> QED BY <1>1, <1>2 DEF Next, Adapter, Release, CreateRequest, ClaimEffect,
             EditArtifacts, RegisterBinding, RegisterExecutor, Start, Recheck, Look,
             Open, Fill, AdapterFails, Sign, Crash, rows, vars

\* What the audit asks of a row is what the row was inserted upon.
LEMMA OrderedPasses ==
  ASSUME Typed, Ledger, Ordered
  PROVE  AuditBlamesOnlyEdits
  <1> USE DEF Typed, EffectTypeOK, Ledger, Ordered
  <1>1. \A p \in Packets : effects[p] # None => (RequestPasses(p) <=> ~ EditedSince(p))
    BY DEF RequestsOrdered, RequestPasses, FilesFit
  <1>2. ASSUME NEW c \in Claims, Claimed(c) PROVE ClaimPasses(c) /\ RetryIsSafe(c)
    <2>1. c[1] \in Packets /\ c[2] \in Attempt /\ c = <<c[1], c[2]>> /\ c[2] \in Int
      BY ClaimParts DEF Attempt
    <2>2. Claimed(NextTry(c)) => c[2] < claims[c[1]]
      BY <2>1 DEF Claimed, NextTry
    <2>3. c[2] < claims[c[1]] =>
            results[c] # None /\ results[c].outcome = "FAILED" /\ results[c].retry
      BY <2>1 DEF ClaimsAreSerial
    <2> QED BY <1>2, <2>2, <2>3 DEF ClaimsOrdered, ClaimPasses, RetryIsSafe
  <1>3. ASSUME NEW c \in Claims, results[c] # None PROVE ResultPasses(c)
    <2>1. results[c].effect = c[1] /\ results[c].executor \in executors
      BY <1>3 DEF ResultsFitClaims
    <2>2. Claimed(c) /\ effects[c[1]] # None
      BY <1>3 DEF ResultsOrdered, ClaimsOrdered
    <2> QED BY <1>3, <2>1, <2>2 DEF ResultsOrdered, ResultPasses
  <1> QED BY <1>1, <1>2, <1>3 DEF AuditBlamesOnlyEdits, EffectFailures

(***************************************************************************)
(* In every history of requests, claims and results the audit finds fault  *)
(* with the requests whose files were edited since, and with nothing else. *)
(***************************************************************************)
THEOREM AuditFlagsEdits == AuditSpec => []AuditBlamesOnlyEdits
  <1>1. AuditInit => Typed /\ Ledger /\ Ordered
    <2>1. ASSUME Init PROVE Ledger
      BY <2>1 DEF Init, Ledger, ClaimsAreSerial, ResultsFitClaims, Attempt, Claims
    <2>2. ASSUME Init PROVE Ordered
      <3>1. ASSUME NEW c \in Claims PROVE ~ Claimed(c) /\ ~ Claimed(NextTry(c))
        BY <2>2, <3>1, ClaimParts DEF Init, Claimed, NextTry, Attempt
      <3> QED BY <2>2, <3>1 DEF Init, Ordered, RequestsOrdered, ClaimsOrdered, ResultsOrdered
    <2> QED BY <2>1, <2>2, InitTyped DEF AuditInit
  <1>2. Typed /\ Ledger /\ Ordered /\ [Next /\ Insert]_auditVars =>
          Typed' /\ Ledger' /\ Ordered'
    <2>1. CASE Next /\ Insert
      BY <2>1, StepTyped, StepLedger, RequestsStayOrdered, ClaimsStayOrdered,
         ResultsStayOrdered DEF Ordered
    <2>2. ASSUME UNCHANGED auditVars, Typed, Ledger, Ordered
          PROVE  Typed' /\ Ledger' /\ Ordered'
      <3>1. UNCHANGED vars /\ UNCHANGED before
        BY <2>2 DEF auditVars
      <3>2. Ordered'
        BY <2>2, <3>1 DEF Ordered, RequestsOrdered, ClaimsOrdered, ResultsOrdered, Claimed,
           NextTry, ReleaseRow, BindingRow, ExecutorRow, RequestRow, ClaimRow, ResultRow,
           vars, rows
      <3> QED BY <2>2, <3>1, <3>2, StepTyped, StepLedger
    <2> QED BY <2>1, <2>2
  <1>3. Typed /\ Ledger /\ Ordered => AuditBlamesOnlyEdits
    BY OrderedPasses
  <1> QED BY <1>1, <1>2, <1>3, PTL DEF AuditSpec

-----------------------------------------------------------------------------
(* The lifecycle.  Rows only follow what they rest on, so the stage of a   *)
(* packet is read off the last row it has.                                 *)

Destination == [s \in Scopes |-> {b.target : b \in {c \in bindings : c.scope = s}}]
Stage       == [p \in Packets |-> StageOf(p)]
Targeted    == [p \in Packets |-> IF effects[p] = None THEN {} ELSE {effects[p].target}]
Delivered   == [p \in Packets |-> {captures[p]} \cap Bytes]

\* A request needs a release, a claim a request and a run a claim.
RowsFollow ==
  /\ \A p \in Packets : /\ effects[p] # None => p \in released
                        /\ claims[p] > 0 => effects[p] # None
  /\ \A x \in Processes : job[x] # None => claims[Packet(x)] > 0

\* What a step adds or moves follows what was there before
\* (create_external_effect_request, claim_external_effect,
\* _trusted_execution_context).
LEMMA StepRowsFollow == ASSUME Typed, RowsFollow, [Next]_vars PROVE RowsFollow'
  <1> USE DEF Typed, EffectTypeOK
  <1>1. ASSUME NEW p \in Packets, Release(p) \/ CreateRequest(p) PROVE RowsFollow'
    <2>1. UNCHANGED <<claims, job>> /\ released \subseteq released'
      BY <1>1 DEF Release, CreateRequest
    <2>2. \A q \in Packets : effects'[q] # None => q \in released'
      BY <1>1, <2>1 DEF Release, CreateRequest, RowsFollow
    <2>3. \A q \in Packets : effects[q] # None => effects'[q] # None
      BY <1>1 DEF Release, CreateRequest
    <2> QED BY <2>1, <2>2, <2>3 DEF RowsFollow, Packet
  <1>2. ASSUME NEW p \in Packets, ClaimEffect(p) PROVE RowsFollow'
    <2>1. /\ UNCHANGED <<released, effects, job>> /\ effects[p] # None
          /\ claims' = [claims EXCEPT ![p] = claims[p] + 1]
      BY <1>2 DEF ClaimEffect
    <2>2. \A q \in Packets : /\ claims'[q] > 0 => claims[q] > 0 \/ q = p
                             /\ claims[q] > 0 => claims'[q] > 0
      BY <2>1, EffectAssumption
    <2>3. \A x \in Processes : job[x] # None => Packet(x) \in Packets
      BY Moves
    <2> QED BY <2>1, <2>2, <2>3 DEF RowsFollow, Packet
  <1>3. ASSUME NEW x \in Processes, NEW c \in Claims, NEW e \in Executors, Start(x, c, e)
        PROVE  RowsFollow'
    <2>1. /\ UNCHANGED <<released, effects, claims>> /\ c[2] <= claims[c[1]]
          /\ job'[x].claim = c /\ \A y \in Processes : y # x => job'[y] = job[y]
      BY <1>3 DEF Start, rows
    <2>2. claims[c[1]] > 0
      BY <2>1, ClaimParts, EffectAssumption DEF Attempt
    <2> QED BY <2>1, <2>2 DEF RowsFollow, Packet
  <1>4. ASSUME NEW x \in Processes, Adapter(x) \/ Sign(x) \/ Crash(x)
        PROVE  RowsFollow'
    <2>1. UNCHANGED <<released, effects, claims>> /\ job[x] # None
      BY <1>4 DEF Adapter, Recheck, Look, Open, Fill, AdapterFails, Sign, Crash, At, rows
    <2>2. /\ job'[x] # None => job'[x].claim = job[x].claim
          /\ \A y \in Processes : y # x => job'[y] = job[y]
      <3>1. CASE Look(x) /\ captures[Packet(x)] = None
        <4>1. job' = [job EXCEPT ![x].phase = "open", ![x].bytes = disk[Packet(x)]]
          BY <3>1 DEF Look
        <4> QED BY <2>1, <4>1 DEF Run
      <3>2. CASE Stop(x) \/ \E ph : Turn(x, ph) \/ Report(x, ph)
        BY <2>1, <3>2, Moves
      <3> QED BY <1>4, <3>1, <3>2
             DEF Adapter, Recheck, Look, Open, Fill, AdapterFails, Sign, Crash
    <2> QED BY <2>1, <2>2 DEF RowsFollow, Packet
  <1>5. CASE UNCHANGED <<released, effects, claims, job>>
    BY <1>5 DEF RowsFollow, Packet
  <1> QED BY <1>1, <1>2, <1>3, <1>4, <1>5 DEF Next, EditArtifacts, RegisterBinding,
             RegisterExecutor, RecordResult, vars, rows

\* Nothing rests on anything in the beginning.
THEOREM AlwaysRowsFollow == Spec => []RowsFollow
  <1>1. Init => RowsFollow
    BY DEF Init, RowsFollow
  <1> QED BY <1>1, StepRowsFollow, AlwaysTyped, PTL DEF Spec

\* The stage of a packet, one row after the other.
LEMMA StageIs ==
  ASSUME Typed, RowsFollow, NEW p \in Packets
  PROVE  /\ p \notin released => StageOf(p) = "unreleased" /\ effects[p] = None
         /\ p \in released /\ effects[p] = None => StageOf(p) = "released"
         /\ effects[p] # None /\ claims[p] = 0 => StageOf(p) = "requested"
         /\ claims[p] > 0 =>
              /\ p \in released /\ effects[p] # None
              /\ results[<<p, claims[p]>>] = None => StageOf(p) = "claimed"
              /\ results[<<p, claims[p]>>] # None =>
                   StageOf(p) = IF results[<<p, claims[p]>>].retry THEN "retry"
                                ELSE IF results[<<p, claims[p]>>].outcome = "SUCCEEDED"
                                THEN "succeeded" ELSE "abandoned"
  <1>1. claims[p] \in Nat
    BY EffectAssumption DEF Typed, EffectTypeOK
  <1>2. /\ effects[p] # None => p \in released
        /\ claims[p] > 0 => effects[p] # None
    BY DEF RowsFollow
  <1>3. ASSUME p \notin released PROVE StageOf(p) = "unreleased" /\ effects[p] = None
    <2>1. effects[p] = None /\ claims[p] = 0
      BY <1>1, <1>2, <1>3
    <2> QED BY <1>3, <2>1 DEF StageOf
  <1>4. ASSUME p \in released, effects[p] = None PROVE StageOf(p) = "released"
    <2>1. claims[p] = 0
      BY <1>1, <1>2, <1>4
    <2> QED BY <1>4, <2>1 DEF StageOf
  <1>5. ASSUME effects[p] # None, claims[p] = 0 PROVE StageOf(p) = "requested"
    BY <1>2, <1>5 DEF StageOf
  <1>6. ASSUME claims[p] > 0, results[<<p, claims[p]>>] = None
        PROVE  StageOf(p) = "claimed"
    BY <1>1, <1>2, <1>6 DEF StageOf
  <1>7. ASSUME claims[p] > 0, results[<<p, claims[p]>>] # None
        PROVE  StageOf(p) = IF results[<<p, claims[p]>>].retry THEN "retry"
                            ELSE IF results[<<p, claims[p]>>].outcome = "SUCCEEDED"
                            THEN "succeeded" ELSE "abandoned"
    BY <1>1, <1>2, <1>7 DEF StageOf
  <1> QED BY <1>2, <1>3, <1>4, <1>5, <1>6, <1>7

\* A packet whose rows stay keeps its stage.
LEMMA StageStays ==
  ASSUME NEW p \in Packets, p \in released' <=> p \in released, effects'[p] = effects[p],
         claims'[p] = claims[p], results'[<<p, claims[p]>>] = results[<<p, claims[p]>>]
  PROVE  StageOf(p)' = StageOf(p)
  BY DEF StageOf

\* One packet turns; the others stay where they are.
LEMMA StageTurns ==
  ASSUME NEW p \in Packets, NEW from, NEW to, StageOf(p) = from, StageOf(p)' = to,
         \A q \in Packets : q # p => StageOf(q)' = StageOf(q),
         Destination' = Destination, Delivered' = Delivered
  PROVE  Lifecycle!Turn(p, from, to)
  BY DEF Lifecycle!Turn, Stage, Destination, Delivered

\* The release turns its packet (mediate_signed_transition).
LEMMA ReleaseTurns ==
  ASSUME Typed, RowsFollow, NEW p \in Packets, Release(p)
  PROVE  Lifecycle!Release(p)
  <1>1. /\ p \notin released /\ released' = released \cup {p}
        /\ UNCHANGED <<bindings, effects, claims, results, captures>>
    BY DEF Release
  <1>2. StageOf(p) = "unreleased" /\ effects[p] = None
    BY <1>1, StageIs
  <1>3. StageOf(p)' = "released"
    BY <1>1, <1>2 DEF StageOf
  <1>4. \A q \in Packets : q # p => StageOf(q)' = StageOf(q)
    BY <1>1, StageStays
  <1>5. Destination' = Destination /\ Delivered' = Delivered /\ Targeted' = Targeted
    BY <1>1 DEF Destination, Delivered, Targeted
  <1>6. Lifecycle!Turn(p, "unreleased", "released")
    BY <1>2, <1>3, <1>4, <1>5, StageTurns
  <1> QED BY <1>5, <1>6 DEF Lifecycle!Release, Targeted

\* A binding gives its scope a target that was nobody's
\* (mediate_execution_management).
LEMMA RegistrationBinds ==
  ASSUME Typed, NEW b \in BindingRequests, RegisterBinding(b)
  PROVE  Lifecycle!Bind(b.scope, b.target)
  <1>1. /\ bindings' = bindings \cup {b} /\ b.scope \in Scopes
        /\ \A c \in bindings : c.scope # b.scope /\ c.target # b.target
        /\ UNCHANGED <<released, effects, claims, results, captures>>
    BY EffectAssumption DEF RegisterBinding, Taken, Binding
  <1>2. /\ Destination[b.scope] = {}
        /\ \A o \in Scopes : b.target \notin Destination[o]
    BY <1>1 DEF Destination
  <1>3. Destination' = [Destination EXCEPT ![b.scope] = {b.target}]
    <2>1. ASSUME NEW s \in Scopes
          PROVE  {d.target : d \in {c \in bindings' : c.scope = s}} =
                   IF s = b.scope THEN {b.target}
                   ELSE {d.target : d \in {c \in bindings : c.scope = s}}
      BY <1>1
    <2> QED BY <1>1, <2>1 DEF Destination
  <1>4. Stage' = Stage /\ Targeted' = Targeted /\ Delivered' = Delivered
    BY <1>1 DEF Stage, StageOf, Targeted, Delivered
  <1> QED BY <1>2, <1>3, <1>4
          DEF Lifecycle!Bind, Destination, Stage, Targeted, Delivered

\* A request is derived for the one target that its scope has
\* (create_external_effect_request).
LEMMA RequestDerives ==
  ASSUME Typed, Bound, RowsFollow, NEW p \in Packets, CreateRequest(p)
  PROVE  Lifecycle!Derive(p)
  <1>1. /\ p \in released /\ effects[p] = None
        /\ UNCHANGED <<released, bindings, claims, results, captures>>
    BY DEF CreateRequest
  <1>2. PICK b \in bindings :
          /\ b.scope = PacketScope[p]
          /\ effects' = [effects EXCEPT ![p] = [target |-> b.target, bytes |-> disk[p]]]
    BY DEF CreateRequest
  <1>3. disk[p] \in Bytes /\ b.target \in Targets
    BY DEF Typed, EffectTypeOK, Targets
  <1>4. [target |-> b.target, bytes |-> disk[p]] # None
    BY <1>3, EffectAssumption DEF Effect
  <1>5. /\ effects'[p] = [target |-> b.target, bytes |-> disk[p]]
        /\ \A q \in Packets : q # p => effects'[q] = effects[q]
    BY <1>2 DEF Typed, EffectTypeOK
  <1>6. claims[p] = 0
    BY <1>1, EffectAssumption DEF RowsFollow, Typed, EffectTypeOK
  <1>7. StageOf(p) = "released" /\ StageOf(p)' = "requested"
    BY <1>1, <1>4, <1>5, <1>6, StageIs DEF StageOf
  <1>8. \A q \in Packets : q # p => StageOf(q)' = StageOf(q)
    BY <1>1, <1>5, StageStays
  <1>9. Destination' = Destination /\ Delivered' = Delivered
    BY <1>1 DEF Destination, Delivered
  <1>10. Lifecycle!Turn(p, "released", "requested")
    BY <1>7, <1>8, <1>9, StageTurns
  <1>11. PacketScope[p] \in Scopes /\ Destination[PacketScope[p]] = {b.target}
    <2>1. \A c \in bindings : c.scope = PacketScope[p] <=> c = b
      BY <1>2 DEF Bound, BindingsApart
    <2> QED BY <2>1 DEF Destination, Scopes
  <1>12. Targeted' = [Targeted EXCEPT ![p] = {b.target}]
    <2>1. ASSUME NEW q \in Packets
          PROVE  (IF effects'[q] = None THEN {} ELSE {effects'[q].target}) =
                   IF q = p THEN {b.target}
                   ELSE IF effects[q] = None THEN {} ELSE {effects[q].target}
      <3>1. CASE q = p
        BY <1>4, <1>5, <3>1
      <3>2. CASE q # p
        BY <1>5, <3>2
      <3> QED BY <3>1, <3>2
    <2> QED BY <2>1 DEF Targeted
  <1> QED BY <1>10, <1>11, <1>12 DEF Lifecycle!Derive, Destination, Targeted

\* A claim is the first or follows a failure that permits it
\* (claim_external_effect).
LEMMA ClaimTurns ==
  ASSUME Typed, Ledger, RowsFollow, NEW p \in Packets, ClaimEffect(p)
  PROVE  Lifecycle!Claim(p)
  <1>1. /\ effects[p] # None /\ MayClaim(p) /\ claims[p] < MaxAttempts
        /\ claims[p] \in Nat /\ claims'[p] = claims[p] + 1
        /\ \A q \in Packets : q # p => claims'[q] = claims[q]
        /\ UNCHANGED <<released, bindings, effects, results, captures>>
    BY EffectAssumption DEF ClaimEffect, Typed, EffectTypeOK
  <1>2. p \in released
    BY <1>1 DEF RowsFollow
  <1>3. StageOf(p) = "requested" \/ StageOf(p) = "retry"
    <2>1. CASE claims[p] = 0
      BY <1>1, <2>1, StageIs
    <2>2. CASE claims[p] # 0
      <3>1. /\ claims[p] > 0 /\ results[<<p, claims[p]>>] # None
            /\ results[<<p, claims[p]>>].retry
        BY <1>1, <2>2 DEF MayClaim
      <3> QED BY <3>1, StageIs
    <2> QED BY <2>1, <2>2
  <1>4. results[<<p, claims[p] + 1>>] = None
    <2>1. claims[p] + 1 \in Attempt /\ claims[p] + 1 > claims[p]
      BY <1>1, EffectAssumption DEF Attempt
    <2> QED BY <2>1 DEF Ledger, ClaimsAreSerial
  <1>5. StageOf(p)' = "claimed"
    <2>1. claims'[p] > 0 /\ results'[<<p, claims'[p]>>] = None
      BY <1>1, <1>4
    <2> QED BY <1>1, <1>2, <2>1 DEF StageOf
  <1>6. \A q \in Packets : q # p => StageOf(q)' = StageOf(q)
    BY <1>1, StageStays
  <1>7. Destination' = Destination /\ Delivered' = Delivered /\ Targeted' = Targeted
    BY <1>1 DEF Destination, Delivered, Targeted
  <1>8. Lifecycle!Turn(p, "requested", "claimed") \/ Lifecycle!Turn(p, "retry", "claimed")
    BY <1>3, <1>5, <1>6, <1>7, StageTurns
  <1> QED BY <1>7, <1>8 DEF Lifecycle!Claim, Targeted

\* The run that created the file fills it, and its packet has been claimed
\* (CaptureAdapter.invoke).
LEMMA FillDelivers ==
  ASSUME Typed, Captured, RowsFollow, NEW x \in Processes, Fill(x)
  PROVE  \E p \in Packets, b \in Bytes : Lifecycle!Deliver(p, b)
  <1>1. At(x, "fill") /\ Packet(x) \in Packets /\ job[x].bytes \in Bytes
    BY Moves DEF Fill, At
  <1>2. PICK p \in Packets, b \in Bytes : p = Packet(x) /\ b = job[x].bytes
    BY <1>1
  <1>3. /\ captures[p] = "partial" /\ claims[p] > 0
    BY <1>1, <1>2 DEF Captured, RowsFollow, At
  <1>4. /\ captures' = [captures EXCEPT ![p] = b]
        /\ UNCHANGED <<released, bindings, effects, claims, results>>
    BY <1>2 DEF Fill, rows
  <1>5. StageOf(p) \in {"claimed", "retry", "succeeded", "abandoned"}
    BY <1>3, StageIs
  <1>6. Delivered[p] = {} /\ Delivered' = [Delivered EXCEPT ![p] = {b}]
    <2>1. ASSUME NEW q \in Packets
          PROVE  {captures'[q]} \cap Bytes = IF q = p THEN {b} ELSE {captures[q]} \cap Bytes
      BY <1>4 DEF Typed, EffectTypeOK
    <2>2. {captures[p]} \cap Bytes = {}
      BY <1>3, EffectAssumption
    <2> QED BY <2>1, <2>2 DEF Delivered
  <1>7. Destination' = Destination /\ Stage' = Stage /\ Targeted' = Targeted
    BY <1>4 DEF Destination, Stage, StageOf, Targeted
  <1>8. Lifecycle!Deliver(p, b)
    BY <1>5, <1>6, <1>7 DEF Lifecycle!Deliver, Destination, Stage, Targeted, Delivered
  <1> QED BY <1>8

\* A result ends the last claim of its packet, and success is what a run with a
\* whole file signed, or another program (record_signed_executor_result).
LEMMA ResultEnds ==
  ASSUME Typed, Ledger, Captured, RowsFollow, NEW r \in signed \cup HandSigned,
         RecordResult(r)
  PROVE  \E p \in Packets :
           Lifecycle!Permit(p) \/ Lifecycle!GiveUp(p) \/ Lifecycle!Succeed(p)
  <1>1. /\ r \in Envelope /\ r # None /\ r.outcome \in Outcome /\ r.retry \in BOOLEAN
        /\ r.claim \in Claims /\ r.effect = r.claim[1]
        /\ results' = [results EXCEPT ![r.claim] = r] /\ results[r.claim] = None
        /\ r.claim[2] <= claims[r.claim[1]]
        /\ UNCHANGED <<released, bindings, effects, claims, captures>>
    BY EffectAssumption
       DEF RecordResult, Unresolved, Binds, Envelope, Typed, EffectTypeOK
  <1>2. PICK p \in Packets, a \in Attempt : r.claim = <<p, a>>
    BY <1>1 DEF Claims
  <1>3. /\ p = r.effect /\ a \in Nat /\ a > 0 /\ a <= claims[p] /\ claims[p] \in Nat
        /\ results[<<p, a>>] = None /\ <<p, a>> \in Claims
    BY <1>1, <1>2, EffectAssumption DEF Attempt, Typed, EffectTypeOK
  <1>4. a = claims[p]
    <2>1. ~ (a < claims[p])
      BY <1>3 DEF Ledger, ClaimsAreSerial
    <2> QED BY <1>3, <2>1
  <1>5. results'[<<p, a>>] = r /\ \A c \in Claims : c # <<p, a>> => results'[c] = results[c]
    BY <1>1, <1>2, <1>3 DEF Typed, EffectTypeOK
  <1>6. StageOf(p) = "claimed" /\ p \in released /\ effects[p] # None
    BY <1>3, <1>4, StageIs
  <1>7. StageOf(p)' = IF r.retry THEN "retry"
                      ELSE IF r.outcome = "SUCCEEDED" THEN "succeeded" ELSE "abandoned"
    <2>1. claims'[p] > 0 /\ claims'[p] # 0 /\ results'[<<p, claims'[p]>>] = r
      BY <1>1, <1>3, <1>4, <1>5
    <2> QED BY <1>1, <1>6, <2>1 DEF StageOf
  <1>8. \A q \in Packets : q # p => StageOf(q)' = StageOf(q)
    <2>1. ASSUME NEW q \in Packets, q # p
          PROVE  results'[<<q, claims[q]>>] = results[<<q, claims[q]>>]
      BY <1>1, <1>2, <2>1
    <2> QED BY <1>1, <2>1, StageStays
  <1>9. Destination' = Destination /\ Delivered' = Delivered /\ Targeted' = Targeted
    BY <1>1 DEF Destination, Delivered, Targeted
  <1>10. CASE r.retry
    <2>1. Lifecycle!Turn(p, "claimed", "retry")
      BY <1>6, <1>7, <1>8, <1>9, <1>10, StageTurns
    <2> QED BY <1>9, <2>1 DEF Lifecycle!Permit, Targeted
  <1>11. CASE ~ r.retry /\ r.outcome # "SUCCEEDED"
    <2>1. Lifecycle!Turn(p, "claimed", "abandoned")
      BY <1>6, <1>7, <1>8, <1>9, <1>11, StageTurns
    <2> QED BY <1>9, <2>1 DEF Lifecycle!GiveUp, Targeted
  <1>12. CASE ~ r.retry /\ r.outcome = "SUCCEEDED"
    <2>1. Lifecycle!Turn(p, "claimed", "succeeded")
      BY <1>6, <1>7, <1>8, <1>9, <1>12, StageTurns
    <2>2. Delivered[p] # {} \/ p \in {s.effect : s \in {h \in HandSigned : h.outcome = "SUCCEEDED"}}
      <3>1. CASE r \in signed
        <4>1. captures[p] \in Bytes
          BY <1>3, <1>12, <3>1 DEF Captured, SuccessIsCaptured
        <4> QED BY <4>1 DEF Delivered
      <3>2. CASE r \in HandSigned
        BY <1>3, <1>12, <3>2
      <3> QED BY <3>1, <3>2
    <2> QED BY <1>9, <2>1, <2>2 DEF Lifecycle!Succeed, Targeted, Delivered
  <1> QED BY <1>10, <1>11, <1>12

\* What does not touch the rows or fill a file does not show.
LEMMA QuietDoesNotShow ==
  ASSUME UNCHANGED <<released, bindings, effects, claims, results>>, Delivered' = Delivered
  PROVE  UNCHANGED Lifecycle!vars
  <1>1. Destination' = Destination /\ Stage' = Stage /\ Targeted' = Targeted
    BY DEF Destination, Stage, StageOf, Targeted
  <1> QED BY <1>1 DEF Lifecycle!vars, Destination, Stage, Targeted, Delivered

\* Every step of the program is one of the lifecycle or does not show.
LEMMA StepsShow ==
  ASSUME Typed, Bound, Ledger, Captured, RowsFollow, [Next]_vars
  PROVE  Lifecycle!Next
  <1>1. ASSUME NEW p \in Packets, Release(p) PROVE Lifecycle!Next
    BY <1>1, ReleaseTurns DEF Lifecycle!Next
  <1>2. ASSUME NEW p \in Packets, CreateRequest(p) PROVE Lifecycle!Next
    BY <1>2, RequestDerives DEF Lifecycle!Next
  <1>3. ASSUME NEW p \in Packets, ClaimEffect(p) PROVE Lifecycle!Next
    BY <1>3, ClaimTurns DEF Lifecycle!Next
  <1>4. ASSUME NEW b \in BindingRequests, RegisterBinding(b) PROVE Lifecycle!Next
    <2>1. b.scope \in Scopes /\ b.target \in Targets
      BY EffectAssumption DEF Binding
    <2> QED BY <1>4, <2>1, RegistrationBinds DEF Lifecycle!Next
  <1>5. ASSUME NEW x \in Processes, Fill(x) PROVE Lifecycle!Next
    BY <1>5, FillDelivers DEF Lifecycle!Next
  <1>6. ASSUME NEW r \in signed \cup HandSigned, RecordResult(r) PROVE Lifecycle!Next
    BY <1>6, ResultEnds DEF Lifecycle!Next
  <1>7. ASSUME NEW x \in Processes, Open(x) PROVE Lifecycle!Next
    <2>1. UNCHANGED <<released, bindings, effects, claims, results>>
      BY <1>7 DEF Open, rows
    <2>2. Delivered' = Delivered
      <3>1. CASE captures' = captures
        BY <3>1 DEF Delivered
      <3>2. CASE captures[Packet(x)] = None /\ captures' = [captures EXCEPT ![Packet(x)] = "partial"]
        <4>1. ASSUME NEW q \in Packets PROVE {captures'[q]} \cap Bytes = {captures[q]} \cap Bytes
          BY <3>2, EffectAssumption DEF Typed, EffectTypeOK
        <4> QED BY <4>1 DEF Delivered
      <3> QED BY <1>7, <3>1, <3>2 DEF Open, MayOpen
    <2> QED BY <2>1, <2>2, QuietDoesNotShow DEF Lifecycle!Next
  <1>8. ASSUME UNCHANGED <<released, bindings, effects, claims, results, captures>>
        PROVE  Lifecycle!Next
    <2>1. Delivered' = Delivered
      BY <1>8 DEF Delivered
    <2> QED BY <1>8, <2>1, QuietDoesNotShow DEF Lifecycle!Next
  <1> QED BY <1>1, <1>2, <1>3, <1>4, <1>5, <1>6, <1>7, <1>8 DEF Next, Adapter, EditArtifacts,
             RegisterExecutor, Start, Recheck, Look, AdapterFails, Sign, Crash, rows, vars

\* Nothing is bound, released or captured in the beginning.
LEMMA LifecycleStarts == Init => Lifecycle!Init
  <1> SUFFICES ASSUME Init PROVE Lifecycle!Init
    OBVIOUS
  <1>1. Destination = [s \in Scopes |-> {}] /\ Targeted = [p \in Packets |-> {}]
    BY DEF Init, Destination, Targeted
  <1>2. Stage = [p \in Packets |-> "unreleased"]
    BY DEF Init, Stage, StageOf
  <1>3. Delivered = [p \in Packets |-> {}]
    <2>1. {None} \cap Bytes = {}
      BY EffectAssumption
    <2> QED BY <2>1 DEF Init, Delivered
  <1> QED BY <1>1, <1>2, <1>3
          DEF Lifecycle!Init, Destination, Stage, Targeted, Delivered

(***************************************************************************)
(* Overlapping runs, crashes, edited files and results of any signer       *)
(* implement the lifecycle of an effect, for any packets, bindings and     *)
(* bounds.                                                                 *)
(***************************************************************************)
THEOREM EffectsImplement == Spec => ImplementsEffectLifecycle
  <1>1. Init => Bound
    BY DEF Init, Bound, BindingsApart, RequestsBound
  <1>2. Spec => []Bound
    BY <1>1, StepBound, AlwaysTyped, PTL DEF Spec
  <1>3. ASSUME Typed, Bound, Ledger, Captured, RowsFollow, [Next]_vars
        PROVE  [Lifecycle!Next]_(Lifecycle!vars)
    BY <1>3, StepsShow
  <1> QED BY <1>2, <1>3, LifecycleStarts, AlwaysTyped, AlwaysLedger, AlwaysCaptured,
             AlwaysRowsFollow, PTL
          DEF Spec, Lifecycle!Spec, ImplementsEffectLifecycle

=============================================================================
