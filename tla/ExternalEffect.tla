--------------------------- MODULE ExternalEffect ---------------------------
(***************************************************************************)
(* What happens after a release: one external-effect request per released  *)
(* packet, execution claims on it, a separate executor process that        *)
(* performs a claim and signs what came of it, and the ingestion of that   *)
(* result, which alone permits another claim.                              *)
(*                                                                         *)
(* Requests, claims and results are rows that one immediate transaction    *)
(* each writes.  An executor reads the database and the packet files step  *)
(* by step, writes only its capture file, and may die anywhere; its signed *)
(* result is a file that is ingested later, by hand, or never.             *)
(***************************************************************************)
EXTENDS Integers

CONSTANTS
  None,
  Packets,
  PacketScope,      \* the scope of every packet
  Bytes,            \* contents of a packet directory
  Intact,           \* those whose manifest is the stored one
  Malformed,        \* those whose manifest cannot be recomputed
  Generated,        \* the content that was generated
  BindingRequests,  \* destination bindings the management may register
  Executors,        \* executor identities
  Processes,        \* executor processes
  HandSigned,       \* results signed with an executor key by other means
  MaxAttempts,      \* bound on the claims of an effect
  MaxRuns,          \* bound on the executor runs
  MaxEdits          \* bound on the edits of packet files

Scopes  == {PacketScope[p] : p \in Packets}
Targets == {b.target : b \in BindingRequests}
Binding == [scope : Scopes, target : Targets]
Effect  == [target : Targets, bytes : Bytes]
Attempt == 1..MaxAttempts
Claims  == Packets \X Attempt
Outcome == {"SUCCEEDED", "FAILED", "UNKNOWN"}

\* Only a failure may permit a retry (require_result_semantics).
Envelope ==
  {r \in [effect : Packets, claim : Claims, executor : Executors,
          request : Effect, outcome : Outcome, retry : BOOLEAN] :
     r.retry => r.outcome = "FAILED"}

Phase == {"verified", "adapter", "open", "fill", "report"}
Run   == [phase : Phase, claim : Claims, executor : Executors,
          bytes : Bytes, outcome : Outcome]

ASSUME EffectAssumption ==
  /\ MaxAttempts \in Nat /\ MaxRuns \in Nat /\ MaxEdits \in Nat
  /\ Generated \in Intact /\ Intact \subseteq Bytes
  /\ Malformed \subseteq Bytes \ Intact
  /\ BindingRequests \subseteq Binding
  /\ HandSigned \subseteq Envelope
  /\ None \notin Effect \cup Envelope \cup Run \cup Bytes \cup {"partial"}
  /\ "partial" \notin Bytes

VARIABLES
  released,   \* packets in state RELEASED
  disk,       \* content of every packet directory
  bindings,   \* external_destination_bindings
  executors,  \* trusted_effect_executors
  effects,    \* external_effect_requests, by packet
  claims,     \* number of external_effect_dispatches, by packet
  results,    \* external_effect_results, by claim
  captures,   \* the capture file of every effect
  signed,     \* signed results that executor runs produced
  job,        \* what every executor process has in hand
  runs, edits

rows == <<released, bindings, executors, effects, claims, results>>
vars == <<rows, disk, captures, signed, job, runs, edits>>

Init ==
  /\ released = {} /\ bindings = {} /\ executors = {} /\ signed = {}
  /\ disk = [p \in Packets |-> Generated]
  /\ effects = [p \in Packets |-> None]
  /\ claims = [p \in Packets |-> 0]
  /\ results = [c \in Claims |-> None]
  /\ captures = [p \in Packets |-> None]
  /\ job = [x \in Processes |-> None]
  /\ runs = 0 /\ edits = 0

-----------------------------------------------------------------------------
\* The accepted release of Authority.
Release(p) ==
  /\ p \notin released /\ disk[p] \in Intact
  /\ released' = released \cup {p}
  /\ UNCHANGED <<bindings, executors, effects, claims, results,
                 disk, captures, signed, job, runs, edits>>

EditArtifacts(p, b) ==
  /\ b # disk[p] /\ edits < MaxEdits
  /\ disk' = [disk EXCEPT ![p] = b] /\ edits' = edits + 1
  /\ UNCHANGED <<rows, captures, signed, job, runs>>

TakenByScope(b) == \E c \in bindings : c.scope = b.scope     \* mutant: scope only
Taken(b) == \E c \in bindings : c.scope = b.scope \/ c.target = b.target

\* An authorized registration; a denied one is consumed and changes nothing here.
RegisterBinding(b) ==
  /\ ~ Taken(b)
  /\ bindings' = bindings \cup {b}
  /\ UNCHANGED <<released, executors, effects, claims, results,
                 disk, captures, signed, job, runs, edits>>

RegisterExecutor(e) ==
  /\ e \notin executors
  /\ executors' = executors \cup {e}
  /\ UNCHANGED <<released, bindings, effects, claims, results,
                 disk, captures, signed, job, runs, edits>>

\* The files are hashed before the transaction and again in it, and must agree;
\* a second request for the packet returns the first or raises.
CreateRequest(p) ==
  /\ p \in released /\ effects[p] = None
  /\ disk[p] \in Intact
  /\ \E b \in bindings :
       /\ b.scope = PacketScope[p]
       /\ effects' = [effects EXCEPT ![p] = [target |-> b.target, bytes |-> disk[p]]]
  /\ UNCHANGED <<released, bindings, executors, claims, results,
                 disk, captures, signed, job, runs, edits>>

\* mutant: only an unresolved claim blocks the next
MayClaimResolved(p) == claims[p] > 0 => results[<<p, claims[p]>>] # None
MayClaim(p) ==
  LET r == results[<<p, claims[p]>>]
  IN  claims[p] > 0 => r # None /\ r.outcome = "FAILED" /\ r.retry

ClaimEffect(p) ==
  /\ effects[p] # None /\ MayClaim(p) /\ claims[p] < MaxAttempts
  /\ claims' = [claims EXCEPT ![p] = @ + 1]
  /\ UNCHANGED <<released, bindings, executors, effects, results,
                 disk, captures, signed, job, runs, edits>>

-----------------------------------------------------------------------------
\* The steps of a run.
At(x, phase)    == job[x] # None /\ job[x].phase = phase
Packet(x)       == job[x].claim[1]
Turn(x, phase)  == job' = [job EXCEPT ![x].phase = phase]
Stop(x)         == job' = [job EXCEPT ![x] = None]
Report(x, what) == job' = [job EXCEPT ![x].phase = "report", ![x].outcome = what]

\* The audit recomputes the files of every request, not only of this one.
Audited == \A p \in Packets : effects[p] # None => disk[p] = effects[p].bytes

Start(x, c, e) ==
  /\ job[x] = None /\ runs < MaxRuns
  /\ c[1] \in released /\ effects[c[1]] # None /\ c[2] <= claims[c[1]]
  /\ results[c] = None /\ e \in executors
  /\ Audited
  /\ job' = [job EXCEPT ![x] = [phase |-> "verified", claim |-> c, executor |-> e,
                                bytes |-> disk[c[1]], outcome |-> "FAILED"]]
  /\ runs' = runs + 1
  /\ UNCHANGED <<rows, disk, captures, signed, edits>>

\* The second hash: files that changed raise without a result, but files that
\* cannot be hashed fall to the handler of unknown outcomes.  Then the credential.
Recheck(x) ==
  LET now == disk[Packet(x)]
  IN  /\ At(x, "verified")
      /\ \/ now \in Malformed /\ Report(x, "UNKNOWN")
         \/ now \notin Malformed /\ now # job[x].bytes /\ Stop(x)
         \/ now = job[x].bytes /\ Report(x, "FAILED")
         \/ now = job[x].bytes /\ Turn(x, "adapter")
      /\ UNCHANGED <<rows, disk, captures, signed, runs, edits>>

SameCaptureAny(p, b) == TRUE                     \* mutant: an existing file will do
SameCapture(p, b)    == captures[p] = b

\* The adapter reads the files once more and looks for its capture file.
Look(x) ==
  LET p == Packet(x)
  IN  /\ At(x, "adapter")
      /\ IF captures[p] = None
         THEN job' = [job EXCEPT ![x].phase = "open", ![x].bytes = disk[p]]
         ELSE IF SameCapture(p, disk[p]) THEN Report(x, "SUCCEEDED")
         ELSE Report(x, "UNKNOWN")
      /\ UNCHANGED <<rows, disk, captures, signed, runs, edits>>

MayOpenAny(p) == TRUE                            \* mutant: open for writing
MayOpen(p)    == captures[p] = None

\* The file is created exclusively, then filled.
Open(x) ==
  LET p == Packet(x)
  IN  /\ At(x, "open")
      /\ IF MayOpen(p)
         THEN captures' = [captures EXCEPT ![p] = "partial"] /\ Turn(x, "fill")
         ELSE Report(x, "UNKNOWN") /\ UNCHANGED captures
      /\ UNCHANGED <<rows, disk, signed, runs, edits>>

Fill(x) ==
  /\ At(x, "fill")
  /\ captures' = [captures EXCEPT ![Packet(x)] = job[x].bytes]
  /\ Report(x, "SUCCEEDED")
  /\ UNCHANGED <<rows, disk, signed, runs, edits>>

\* Whatever the adapter raises once it is entered.
AdapterFails(x) ==
  /\ At(x, "adapter") \/ At(x, "open") \/ At(x, "fill")
  /\ Report(x, "UNKNOWN")
  /\ UNCHANGED <<rows, disk, captures, signed, runs, edits>>

RetryUnlessDone(what) == what # "SUCCEEDED"      \* mutant: an unknown outcome too
RetryPermitted(what)  == what = "FAILED"

Sign(x) ==
  LET c == job[x].claim
      what == job[x].outcome
  IN  /\ At(x, "report")
      /\ signed' = signed \cup
           {[effect |-> c[1], claim |-> c, executor |-> job[x].executor,
             request |-> effects[c[1]], outcome |-> what, retry |-> RetryPermitted(what)]}
      /\ Stop(x)
      /\ UNCHANGED <<rows, disk, captures, runs, edits>>

\* The process dies; it has written no row, and its capture file stays.
Crash(x) ==
  /\ job[x] # None /\ Stop(x)
  /\ UNCHANGED <<rows, disk, captures, signed, runs, edits>>

-----------------------------------------------------------------------------
BindsUnchecked(r) == TRUE                        \* mutant: only the signature counts
Binds(r) == r.effect = r.claim[1] /\ r.request = effects[r.effect]

UnresolvedNever(r) == TRUE                       \* mutant: a later result replaces
Unresolved(r) == results[r.claim] = None

RecordResult(r) ==
  /\ r.executor \in executors
  /\ effects[r.effect] # None /\ r.claim[2] <= claims[r.claim[1]]
  /\ Unresolved(r) /\ Binds(r)
  /\ results' = [results EXCEPT ![r.claim] = r]
  /\ UNCHANGED <<released, bindings, executors, effects, claims,
                 disk, captures, signed, job, runs, edits>>

Adapter(x) == Recheck(x) \/ Look(x) \/ Open(x) \/ Fill(x) \/ AdapterFails(x)

Next ==
  \/ \E p \in Packets : \/ Release(p) \/ CreateRequest(p) \/ ClaimEffect(p)
                        \/ \E b \in Bytes : EditArtifacts(p, b)
  \/ \E b \in BindingRequests : RegisterBinding(b)
  \/ \E e \in Executors : RegisterExecutor(e)
  \/ \E x \in Processes : \/ \E c \in Claims, e \in Executors : Start(x, c, e)
                          \/ Adapter(x) \/ Sign(x) \/ Crash(x)
  \/ \E r \in signed \cup HandSigned : RecordResult(r)

Spec == Init /\ [][Next]_vars

-----------------------------------------------------------------------------
EffectTypeOK ==
  /\ released \subseteq Packets
  /\ disk \in [Packets -> Bytes]
  /\ bindings \subseteq BindingRequests /\ executors \subseteq Executors
  /\ effects \in [Packets -> Effect \cup {None}]
  /\ claims \in [Packets -> 0..MaxAttempts]
  /\ results \in [Claims -> Envelope \cup {None}]
  /\ captures \in [Packets -> Bytes \cup {None, "partial"}]
  /\ signed \subseteq Envelope
  /\ job \in [Processes -> Run \cup {None}]
  /\ runs \in 0..MaxRuns /\ edits \in 0..MaxEdits

\* The rows and capture files seen as the lifecycle of each effect.
StageOf(p) ==
  LET r == results[<<p, claims[p]>>]
  IN  CASE p \notin released -> "unreleased"
        [] p \in released /\ effects[p] = None -> "released"
        [] effects[p] # None /\ claims[p] = 0 -> "requested"
        [] claims[p] > 0 /\ r = None -> "claimed"
        [] claims[p] > 0 /\ r # None /\ r.retry -> "retry"
        [] claims[p] > 0 /\ r # None /\ ~ r.retry ->
             IF r.outcome = "SUCCEEDED" THEN "succeeded" ELSE "abandoned"

Lifecycle ==
  INSTANCE EffectLifecycle WITH
    Vouched     <- {r.effect : r \in {h \in HandSigned : h.outcome = "SUCCEEDED"}},
    destination <- [s \in Scopes |-> {b.target : b \in {c \in bindings : c.scope = s}}],
    stage       <- [p \in Packets |-> StageOf(p)],
    target      <- [p \in Packets |->
                      IF effects[p] = None THEN {} ELSE {effects[p].target}],
    delivered   <- [p \in Packets |-> {captures[p]} \cap Bytes]

(***************************************************************************)
(* Overlapping runs, crashes, edited files and results of any signer leave *)
(* the lifecycle of an effect: requested once for the target of its scope, *)
(* claimed again only after a failure that permits it, captured at most    *)
(* once and after a claim, and succeeded only if it was captured or other  *)
(* programs say so (create_external_effect_request, claim_external_effect, *)
(* CaptureAdapter.invoke, record_signed_executor_result).                  *)
(***************************************************************************)
ImplementsEffectLifecycle == Lifecycle!Spec

(***************************************************************************)
(* Packets of different scopes never share an external target, and packets *)
(* of one scope always do (mediate_execution_management,                   *)
(* create_external_effect_request).                                        *)
(***************************************************************************)
TargetsAreSeparate ==
  \A p, q \in Packets :
    effects[p] # None /\ effects[q] # None =>
      (effects[p].target = effects[q].target <=> PacketScope[p] = PacketScope[q])

(***************************************************************************)
(* Every attempt before the last one failed in a way that permits a retry, *)
(* and no result exists for an attempt that was not claimed, so at most    *)
(* one claim is unresolved and nothing follows a success or an unknown     *)
(* outcome (claim_external_effect; unsafe_effect_retry in                  *)
(* verify_integrity).                                                      *)
(***************************************************************************)
ClaimsAreSerial ==
  \A p \in Packets, a \in Attempt :
    LET r == results[<<p, a>>]
    IN  /\ a < claims[p] => r # None /\ r.outcome = "FAILED" /\ r.retry
        /\ a > claims[p] => r = None

(***************************************************************************)
(* A recorded result is about the request of the claim it resolves, and    *)
(* comes from a registered executor, whatever else was signed              *)
(* (record_signed_executor_result).                                        *)
(***************************************************************************)
ResultsFitClaims ==
  \A c \in Claims :
    LET r == results[c]
    IN  r # None => /\ r.claim = c /\ r.effect = c[1]
                    /\ r.request = effects[c[1]] /\ r.executor \in executors

(***************************************************************************)
(* A run reports success only if the capture file of its effect is whole:  *)
(* a file another run began and did not finish never passes for success    *)
(* (CaptureAdapter.invoke).                                                *)
(***************************************************************************)
SuccessIsCaptured ==
  \A r \in signed : r.outcome = "SUCCEEDED" => captures[r.effect] \in Bytes

(***************************************************************************)
(* What was captured stays as it is, whichever run comes after or between: *)
(* the idempotency key makes one file of all attempts                      *)
(* (CaptureAdapter.invoke).                                                *)
(***************************************************************************)
CaptureIsFinal ==
  [][\A p \in Packets : captures[p] \in Bytes => captures'[p] = captures[p]]_vars

(***************************************************************************)
(* The first result of a claim stands, although two runs of it may sign    *)
(* different ones (record_signed_executor_result).                         *)
(***************************************************************************)
FirstResultStands ==
  [][\A c \in Claims : results[c] # None => results'[c] = results[c]]_vars

(***************************************************************************)
(* What the documentation requires of another attempt                      *)
(* (docs/architecture/transition-authority-hardening.md:960): it is        *)
(* permitted only while the effect is known not to have occurred.          *)
(***************************************************************************)
RetryMeansNoEffect ==
  \A p \in Packets : effects[p] # None /\ MayClaim(p) => captures[p] = None
=============================================================================
