----------------------------- MODULE Authority -----------------------------
(***************************************************************************)
(* The authority boundary: signed operations on packets and on the         *)
(* capability policy, and the local state machine that moves packets to    *)
(* and away from it, all committing to one SQLite database.                *)
(*                                                                         *)
(* Every process that runs a command is a worker.  A worker authenticates  *)
(* an operation, then reads the packet, the candidate and the packet       *)
(* directory without holding a transaction, and only its last step is one  *)
(* BEGIN IMMEDIATE transaction, which re-checks part of what was read.     *)
(* Each of those reads is an action of its own here, so that workers       *)
(* interleave between them; the transaction is one action.                 *)
(*                                                                         *)
(* Abstractions.  A packet and its candidate are one element of Packets    *)
(* (their pairing is fixed when the packet is generated).  The packet      *)
(* directory is one value of Bytes; Intact are the values whose manifest   *)
(* still recomputes to the stored one, which differ only in the bytes of   *)
(* packet_receipt.json.  An operation, the grant it issues, the decision   *)
(* it records and its approval share the identifier of the operation.  An  *)
(* expired, mis-signed or absent operation is one "unverified" attempt.    *)
(***************************************************************************)
EXTENDS CapabilityPolicy, Sequences, FiniteSets

CONSTANTS
  Packets,           \* packets, each with its candidate
  PacketScope,       \* the canonical scope of each packet, None for a legacy one
  Start,             \* the workflow state each packet starts in
  Scopes,            \* brand/channel/destination scopes
  Principals,        \* would-be authorities
  Trusted,           \* the registry at the start: empty or one principal
  Ops,               \* identifiers of the operations that get signed
  Request,           \* what each of them asks for
  HandSigned,        \* envelopes a key holder signed without prepare_operation
  Bytes, Intact, Generated,   \* packet directory contents
  PriorGrants,       \* grants committed before the modelled history
  PriorEvents,       \* how many events the chain already holds
  Workers,           \* processes running a command
  PacketSteps,       \* states transition_packet is asked for
  CandidateSteps,    \* states transition_candidate is asked for
  Unverified,        \* <<packet, requested state>> of unverifiable attempts
  MaxEvents          \* bound on the events added to the chain

RequestRecord ==
  [ kind : Operation, principal : Principals, packet : Packets \cup {None},
    scope : Scopes \cup {None}, version : {Version, None},
    subject : Principals \cup {None}, capability : Capability,
    target : Ops \cup {g.id : g \in PriorGrants} \cup {None} ]

Grant(ids) ==
  [ id : ids, subject : Principals, capability : Capability,
    version : {Version, None}, scope : Scopes \cup {None}, seq : Nat ]

Envelope == [op : Ops, bytes : Bytes \cup {None}, approval : Ops \cup {None}]

IsPacketOp(o) == Request[o].kind \in PacketOperation

\* A management capability has no scope, and neither has a grant of before
\* grants carried one.
GrantScopeFits(capability, version, scope) ==
  (scope = None) <=> (capability \in ManagementCapability \/ version = None)

ASSUME NoneAssumption ==
  /\ None \notin Packets \cup Scopes \cup Principals \cup Ops \cup Bytes
  /\ None \notin WorkflowState
  /\ None \notin {g.id : g \in PriorGrants}
ASSUME PacketAssumption ==
  /\ PacketScope \in [Packets -> Scopes \cup {None}]
  /\ Start \in [Packets -> {"PACKET_GENERATED", "AWAITING_APPROVAL"}]
ASSUME RequestAssumption ==
  /\ Request \in [Ops -> RequestRecord]
  /\ \A o \in Ops : Request[o].kind \in PacketOperation =>
       /\ Request[o].packet \in Packets
       /\ Request[o].capability = Semantics[Request[o].kind].capability
  /\ \A o \in Ops : Request[o].kind \in PolicyOperation =>
       /\ Request[o].packet = None /\ Request[o].subject # None
       /\ Request[o].kind # "revoke" =>
            GrantScopeFits(Request[o].capability, Request[o].version, Request[o].scope)
  /\ \A o \in Ops : Request[o].kind = "bootstrap" =>
       /\ Request[o].capability = "policy.manage_capabilities"
       /\ Request[o].subject = Request[o].principal
  /\ HandSigned \subseteq Envelope
ASSUME BytesAssumption == Intact \subseteq Bytes /\ Generated \in Intact
ASSUME TrustedAssumption ==
  /\ Trusted \subseteq Principals
  /\ \A p, q \in Trusted : p = q
ASSUME PriorAssumption ==
  /\ PriorEvents \in Nat
  /\ \A g \in PriorGrants : g \in Grant({g.id}) /\ g.id \notin Ops /\ g.seq <= PriorEvents
  /\ \A g, h \in PriorGrants : g.id = h.id => g = h
  /\ \A g \in PriorGrants :
       g.subject \in Trusted /\ GrantScopeFits(g.capability, g.version, g.scope)
  /\ PriorGrants # {} =>
       \E g \in PriorGrants : g.capability = "policy.manage_capabilities"
ASSUME StepAssumption ==
  /\ PacketSteps \subseteq WorkflowState
  /\ CandidateSteps \subseteq WorkflowState
  /\ Unverified \subseteq (Packets \X WorkflowState) \cup {<<None, None>>}
  /\ MaxEvents \in Nat

VARIABLES
  trusted,         \* the trusted-principal registry
  packetState,     \* state column of the packets
  candidateState,  \* state column of their candidates
  disk,            \* content of the packet directories
  signed,          \* every envelope ever signed; deliverable any number of times
  consumed,        \* authenticated_operations: operation, event, outcome
  grants,          \* capability_grants
  revocations,     \* capability_revocations
  bootstrapped,    \* capability_policy_state has its singleton row
  approvals,       \* the approvals table
  log,             \* canonical transition events, in chain order
  job              \* what each worker holds in memory

vars == <<trusted, packetState, candidateState, disk, signed, consumed, grants,
          revocations, bootstrapped, approvals, log, job>>

policyVars == <<grants, revocations, bootstrapped>>
states     == <<packetState, candidateState>>

-----------------------------------------------------------------------------
\* Types.

GrantIds == Ops \cup {g.id : g \in PriorGrants}

DecisionRecord ==
  [ status : {"allowed", "denied", "not_evaluated", "none"}, reason : Reason,
    grant : GrantIds \cup {None} ]

Event ==
  [ kind : Operation \cup {"transition_packet", "transition_candidate", "unverified"},
    op : Ops \cup {None}, packet : Packets \cup {None},
    prior : WorkflowState \cup {None}, requested : WorkflowState \cup {None},
    outcome : {"accepted", "rejected"},
    authentication : {"none", "failed", "verified", "replay_rejected"},
    decision : DecisionRecord, bytes : Bytes \cup {None} ]

Phase == { "idle", "packet", "candidate", "artifacts", "commit", "reject",
           "replayed_packet", "unverified_packet", "replayed", "unverified",
           "policy", "policy_reject", "transition_packet", "transition_candidate" }

Job ==
  [ phase : Phase, op : Ops \cup {None}, bytes : Bytes \cup {None},
    approval : Ops \cup {None}, packet : Packets \cup {None},
    prior : WorkflowState \cup {None}, requested : WorkflowState \cup {None},
    agrees : BOOLEAN ]

Idle == [ phase |-> "idle", op |-> None, bytes |-> None, approval |-> None,
          packet |-> None, prior |-> None, requested |-> None, agrees |-> TRUE ]

Approval == [op : Ops, packet : Packets, decision : {"APPROVED", "REJECTED"},
             scope : Scopes \cup {None}, seq : Nat]

TypeOK ==
  /\ trusted \subseteq Principals
  /\ packetState \in [Packets -> WorkflowState]
  /\ candidateState \in [Packets -> WorkflowState]
  /\ disk \in [Packets -> Bytes]
  /\ signed \subseteq Envelope
  /\ consumed \subseteq [op : Ops, seq : Nat, outcome : {"accepted", "rejected"}]
  /\ grants \subseteq Grant(GrantIds)
  /\ revocations \subseteq [op : Ops, grant : GrantIds, seq : Nat]
  /\ bootstrapped \in BOOLEAN
  /\ approvals \subseteq Approval
  /\ log \in Seq(Event)
  /\ job \in [Workers -> Job]

-----------------------------------------------------------------------------
\* Helpers.

ConsumedOpsForgotten == {}                       \* mutant: the ledger is not read
ConsumedOps == {c.op : c \in consumed}
SignedOps   == {e.op : e \in signed}
NextSeq     == PriorEvents + Len(log) + 1

\* A worker may only start what the event bound leaves room to finish.
Busy == {m \in Workers : job[m] # Idle}
Room == Len(log) + Cardinality(Busy) < MaxEvents

\* The newest decision APPROVED of a packet is the one a release binds.
ApprovedOf(p)     == {a \in approvals : a.packet = p /\ a.decision = "APPROVED"}
LatestApproved(p) == CHOOSE a \in ApprovedOf(p) : \A b \in ApprovedOf(p) : b.seq <= a.seq

Init ==
  /\ trusted = Trusted
  /\ packetState = Start
  /\ candidateState = Start
  /\ disk = [p \in Packets |-> Generated]
  /\ signed = HandSigned
  /\ consumed = {}
  /\ grants = PriorGrants
  /\ revocations = {}
  /\ bootstrapped = (PriorGrants # {})
  /\ approvals = {}
  /\ log = <<>>
  /\ job = [m \in Workers |-> Idle]

-----------------------------------------------------------------------------
\* The registry, and the signing of operations.

\* Registering a principal is open only while the registry is empty.
RegistryAlwaysOpen == TRUE                       \* mutant: any principal registers
RegistryOpen == trusted = {}

BootstrapTrust(q) ==
  /\ RegistryOpen
  /\ trusted' = trusted \cup {q}
  /\ trusted' # trusted
  /\ UNCHANGED <<states, disk, signed, consumed, policyVars, approvals, log, job>>

\* prepare_operation refuses a packet without scope, one in another state, one
\* whose manifest changed, and a release without an approval of this scope.
CanPreparePacket(o) ==
  LET r == Request[o]
  IN  /\ PacketScope[r.packet] # None
      /\ packetState[r.packet] = Semantics[r.kind].prior
      /\ disk[r.packet] \in Intact
      /\ r.kind = "release" =>
           /\ ApprovedOf(r.packet) # {}
           /\ LatestApproved(r.packet).scope = PacketScope[r.packet]

PreparePacketOperation(o) ==
  LET r == Request[o]
  IN  /\ IsPacketOp(o) /\ o \notin SignedOps
      /\ r.principal \in trusted
      /\ r.scope = PacketScope[r.packet] /\ r.version = Version
      /\ CanPreparePacket(o)
      /\ signed' = signed \cup
           {[ op |-> o, bytes |-> disk[r.packet],
              approval |-> IF r.kind = "release"
                           THEN LatestApproved(r.packet).op ELSE None ]}
      /\ UNCHANGED <<trusted, states, disk, consumed, policyVars, approvals, log, job>>

\* A revocation copies the binding of its target grant, but it is always
\* signed with the current scope version, whatever the version of the grant.
CanPreparePolicy(o) ==
  LET r == Request[o]
  IN  CASE r.kind = "bootstrap" -> r.subject = r.principal
        [] r.kind = "grant"     -> r.subject \in trusted
        [] r.kind = "revoke"    ->
             \E g \in grants : /\ g.id = r.target /\ g.subject = r.subject
                               /\ g.capability = r.capability /\ g.scope = r.scope

PreparePolicyOperation(o) ==
  /\ ~ IsPacketOp(o) /\ o \notin SignedOps
  /\ Request[o].principal \in trusted
  /\ Request[o].version = Version
  /\ CanPreparePolicy(o)
  /\ signed' = signed \cup {[op |-> o, bytes |-> None, approval |-> None]}
  /\ UNCHANGED <<trusted, states, disk, consumed, policyVars, approvals, log, job>>

\* Anyone may rewrite the files of a packet directory at any time.
EditArtifacts(p, b) ==
  /\ disk[p] # b
  /\ disk' = [disk EXCEPT ![p] = b]
  /\ UNCHANGED <<trusted, states, signed, consumed, policyVars, approvals, log, job>>

-----------------------------------------------------------------------------
\* What a worker does before its transaction.

Step(m, j) ==
  /\ job' = [job EXCEPT ![m] = j]
  /\ UNCHANGED <<trusted, states, disk, signed, consumed, policyVars, approvals, log>>

\* Authentication reads the consumed operations outside any transaction.  The
\* operation agrees with its adapter or it does not: another operation, packet
\* or reason was named, or it was handed to the mediator of the other kind.
Receive(m, e, agrees) ==
  LET r      == Request[e.op]
      packet == IsPacketOp(e.op)
      replay == e.op \in ConsumedOps
  IN  /\ job[m] = Idle /\ Room
      /\ e \in signed /\ r.principal \in trusted
      /\ replay => agrees
      /\ Step(m, [ Idle EXCEPT
             !.phase = CASE replay /\ packet -> "replayed_packet"
                         [] replay /\ ~ packet -> "replayed"
                         [] ~ replay /\ packet -> "packet"
                         [] OTHER -> IF agrees THEN "policy" ELSE "policy_reject",
             !.op = e.op, !.bytes = e.bytes, !.approval = e.approval,
             !.packet = IF packet THEN r.packet ELSE None,
             !.requested = IF packet THEN Semantics[r.kind].requested ELSE None,
             !.agrees = agrees ])

\* An attempt that carries no verifiable operation names a packet or the policy.
ReceiveUnverified(m, u) ==
  /\ job[m] = Idle /\ Room
  /\ Step(m, [ Idle EXCEPT
         !.phase = IF u[1] = None THEN "unverified" ELSE "unverified_packet",
         !.packet = u[1], !.requested = u[2] ])

\* The packet row is read: its state becomes the prior state of the request.
ReadPacket(m) ==
  LET j == job[m]
  IN  /\ j.phase \in {"packet", "replayed_packet", "unverified_packet"}
      /\ Step(m, [ j EXCEPT
             !.prior = packetState[j.packet],
             !.phase = CASE j.phase = "packet" -> IF j.agrees THEN "candidate" ELSE "reject"
                         [] j.phase = "replayed_packet" -> "replayed"
                         [] j.phase = "unverified_packet" -> "unverified" ])

\* The candidate is read next; the state must be the one the request expects.
StateBinds(j) ==
  /\ candidateState[j.packet] = j.prior
  /\ j.prior = Semantics[Request[j.op].kind].prior
  /\ ValidTransition(j.prior, j.requested)

ReadCandidate(m) ==
  LET j == job[m]
  IN  /\ j.phase = "candidate"
      /\ Step(m, [j EXCEPT !.phase = IF StateBinds(j) THEN "artifacts" ELSE "reject"])

\* mutant: the files only have to be intact, whatever bytes were signed
ArtifactsIntact(j) == disk[j.packet] \in Intact

\* The files are hashed last, and for a release its approval is looked up.
ArtifactsBind(j) == disk[j.packet] \in Intact /\ disk[j.packet] = j.bytes

\* mutant: the approval is compared, the receipt bytes it saw are not
ReleaseBindsIdOnly(j) ==
  ApprovedOf(j.packet) # {} /\ LatestApproved(j.packet).op = j.approval

ReleaseBinds(j) ==
  /\ ApprovedOf(j.packet) # {}
  /\ LET a == LatestApproved(j.packet)
     IN  /\ a.op = j.approval
         /\ log[a.seq - PriorEvents].bytes = disk[j.packet]

IsReleaseNever(j) == FALSE                       \* mutant: a release is a decision
IsRelease(j) == Request[j.op].kind = "release"

ReadArtifacts(m) ==
  LET j     == job[m]
      binds == ArtifactsBind(j) /\ (IsRelease(j) => ReleaseBinds(j))
  IN  /\ j.phase = "artifacts"
      /\ Step(m, [j EXCEPT !.phase = IF binds THEN "commit" ELSE "reject",
                           !.bytes = disk[j.packet]])

-----------------------------------------------------------------------------
\* The transactions.

Record(kind, j, prior, outcome, authentication, decision, bytes) ==
  Append(log, [ kind |-> kind, op |-> j.op, packet |-> j.packet, prior |-> prior,
                requested |-> j.requested, outcome |-> outcome,
                authentication |-> authentication, decision |-> decision,
                bytes |-> bytes ])

\* Every verified operation is adjudicated by one event and consumed with it;
\* the operation identifier is a primary key.
Adjudicate(m, prior, outcome, decision, bytes) ==
  LET j == job[m]
  IN  /\ j.op \notin ConsumedOps
      /\ log' = Record(Request[j.op].kind, j, prior, outcome, "verified", decision, bytes)
      /\ consumed' = consumed \cup {[op |-> j.op, seq |-> NextSeq, outcome |-> outcome]}
      /\ job' = [job EXCEPT ![m] = Idle]

PacketDecision(j, prior) ==
  LET r == Request[j.op]
  IN  EvaluateRequest(grants, revocations, bootstrapped, r.principal,
                      Semantics[r.kind].capability, prior, j.requested,
                      PacketScope[j.packet], r.scope)

Paired(p) == candidateState[p] = packetState[p]

MirrorForgotten(p, s) == candidateState          \* mutant: the candidate stays behind
Mirror(p, s) == [candidateState EXCEPT ![p] = s]

\* A release commits only if the approval it signed is still the decision.
ApprovalStands(j) ==
  \E a \in ApprovedOf(j.packet) : a.op = j.approval /\ a.scope = PacketScope[j.packet]

\* The packet transaction decides on the state it reads itself.
\* mutant: the transaction relies on the state read before it
MayCommitAsRead(j) ==
  /\ Paired(j.packet)
  /\ PacketDecision(j, j.prior).status = "allowed"
  /\ IsRelease(j) => ApprovalStands(j)

MayCommit(j) ==
  /\ Paired(j.packet)
  /\ PacketDecision(j, packetState[j.packet]).status = "allowed"
  /\ packetState[j.packet] = Semantics[Request[j.op].kind].prior
  /\ IsRelease(j) => ApprovalStands(j)

CommitAccepted(m) ==
  LET j == job[m]
      p == j.packet
  IN  /\ j.phase = "commit"
      /\ MayCommit(j)
      /\ Adjudicate(m, packetState[p], "accepted", PacketDecision(j, packetState[p]), j.bytes)
      /\ packetState' = [packetState EXCEPT ![p] = j.requested]
      /\ candidateState' = Mirror(p, j.requested)
      /\ approvals' = IF IsRelease(j) THEN approvals
                      ELSE approvals \cup
                        {[ op |-> j.op, packet |-> p, decision |-> j.requested,
                           scope |-> Request[j.op].scope, seq |-> NextSeq ]}
      /\ UNCHANGED <<trusted, disk, signed, policyVars>>

MayDenyNever(j) == FALSE                         \* mutant: a denial only raises
MayDeny(j) ==
  /\ Paired(j.packet)
  /\ PacketDecision(j, packetState[j.packet]).status = "denied"

CommitDenied(m) ==
  LET j == job[m]
      p == j.packet
  IN  /\ j.phase = "commit"
      /\ MayDeny(j)
      /\ Adjudicate(m, packetState[p], "rejected", PacketDecision(j, packetState[p]), j.bytes)
      /\ UNCHANGED <<trusted, states, disk, signed, policyVars, approvals>>

\* A request whose binding failed is consumed too.  Its event carries the
\* prior state read earlier, and the authorization that state would have had.
CommitRejection(m) ==
  LET j == job[m]
  IN  /\ j.phase = "reject"
      /\ Adjudicate(m, j.prior, "rejected", PacketDecision(j, j.prior), None)
      /\ UNCHANGED <<trusted, states, disk, signed, policyVars, approvals>>

\* A replay, or an attempt that did not verify, is evidence and nothing else.
RecordAttempt(m) ==
  LET j == job[m]
  IN  /\ \/ /\ j.phase = "replayed"
            /\ log' = Record(Request[j.op].kind, j, j.prior, "rejected", "replay_rejected",
                             NotEvaluated("REPLAY_REJECTED"), None)
         \/ /\ j.phase = "unverified"
            /\ log' = Record("unverified", j, j.prior, "rejected", "failed",
                             NoDecision, None)
      /\ job' = [job EXCEPT ![m] = Idle]
      /\ UNCHANGED <<trusted, states, disk, signed, consumed, policyVars, approvals>>

\* The policy transaction: who may bootstrap, grant and revoke.
Manage == "policy.manage_capabilities"

BootstrapDecision(r) ==
  IF bootstrapped \/ grants # {} \/ revocations # {}
  THEN Denied("POLICY_ALREADY_BOOTSTRAPPED")
  ELSE IF trusted # {r.principal} THEN Denied("REQUEST_BINDING_REJECTED")
  ELSE IF r.version # Version     THEN Denied("SCOPE_REQUIRED")
  ELSE BootstrapAllowed

AdminDecision(r) ==
  Evaluate(grants, revocations, bootstrapped, r.principal, Manage, None, None, None)

KnownSubject(r) == r.subject \in trusted

GrantDecision(r) ==
  IF AdminDecision(r).status = "denied" THEN AdminDecision(r)
  ELSE IF r.version # Version           THEN Denied("SCOPE_REQUIRED")
  ELSE IF ~ KnownSubject(r)             THEN Denied("UNKNOWN_SUBJECT_PRINCIPAL")
  ELSE IF r.capability \in PacketCapability /\ r.scope = None
                                        THEN Denied("SCOPE_REQUIRED")
  ELSE AdminDecision(r)

\* A revocation must bind its target exactly, scope version included.
BindsTarget(r, g) ==
  /\ g.subject = r.subject /\ g.capability = r.capability
  /\ g.version = r.version /\ g.scope = r.scope

\* mutant: the grant being revoked counts as remaining
RemainingAdminSelf(id) ==
  \E g \in grants : g.capability = Manage /\ ~ IsRevoked(revocations, g.id)

RemainingAdmin(id) ==
  \E g \in grants : /\ g.capability = Manage /\ g.id # id
                    /\ ~ IsRevoked(revocations, g.id)

AlreadyRevokedNever(r) == FALSE                  \* mutant: revoked twice
AlreadyRevoked(r) == IsRevoked(revocations, r.target)

RevokeDecision(r) ==
  LET target == {g \in grants : g.id = r.target}
  IN  IF AdminDecision(r).status = "denied"      THEN AdminDecision(r)
      ELSE IF target = {}                        THEN Denied("UNKNOWN_GRANT")
      ELSE IF ~ \A g \in target : BindsTarget(r, g)
                                                 THEN Denied("GRANT_BINDING_MISMATCH")
      ELSE IF AlreadyRevoked(r)                  THEN Denied("GRANT_ALREADY_REVOKED")
      ELSE IF r.capability = Manage /\ ~ RemainingAdmin(r.target)
                                                 THEN Denied("LAST_POLICY_ADMIN")
      ELSE AdminDecision(r)

PolicyDecision(o) ==
  LET r == Request[o]
  IN  CASE r.kind = "bootstrap" -> BootstrapDecision(r)
        [] r.kind = "grant"     -> GrantDecision(r)
        [] r.kind = "revoke"    -> RevokeDecision(r)

NewGrant(o) ==
  [ id |-> o, subject |-> Request[o].subject, capability |-> Request[o].capability,
    version |-> Request[o].version, scope |-> Request[o].scope, seq |-> NextSeq ]

CommitPolicyAccepted(m) ==
  LET o == job[m].op
      k == Request[o].kind
  IN  /\ job[m].phase = "policy"
      /\ PolicyDecision(o).status = "allowed"
      /\ Adjudicate(m, None, "accepted", PolicyDecision(o), None)
      /\ IF k = "revoke"
         THEN /\ revocations' = revocations \cup
                   {[op |-> o, grant |-> Request[o].target, seq |-> NextSeq]}
              /\ grants' = grants
         ELSE /\ grants' = grants \cup {NewGrant(o)}
              /\ revocations' = revocations
      /\ bootstrapped' = (bootstrapped \/ k = "bootstrap")
      /\ UNCHANGED <<trusted, states, disk, signed, approvals>>

CommitPolicyDenied(m) ==
  /\ job[m].phase = "policy"
  /\ PolicyDecision(job[m].op).status = "denied"
  /\ Adjudicate(m, None, "rejected", PolicyDecision(job[m].op), None)
  /\ UNCHANGED <<trusted, states, disk, signed, policyVars, approvals>>

\* A policy operation given to the wrong adapter is consumed unevaluated.
CommitPolicyRejection(m) ==
  /\ job[m].phase = "policy_reject"
  /\ Adjudicate(m, None, "rejected", NotEvaluated("REQUEST_BINDING_REJECTED"), None)
  /\ UNCHANGED <<trusted, states, disk, signed, policyVars, approvals>>

\* The transaction raises and rolls back: somebody consumed the operation in
\* the meantime, or a row the packet transaction relies on has changed.
Rollback(m) ==
  LET j == job[m]
  IN  /\ j.phase \in {"commit", "reject", "policy", "policy_reject"}
      /\ \/ j.op \in ConsumedOps
         \/ j.phase = "commit" /\ ~ MayCommit(j) /\ ~ MayDeny(j)
      /\ Step(m, Idle)

-----------------------------------------------------------------------------
\* The local state machine: no signature, and never an authority pair.

StartPacketTransition(m, p, requested) ==
  /\ job[m] = Idle /\ Room
  /\ Step(m, [ Idle EXCEPT !.phase = "transition_packet", !.packet = p,
                           !.prior = packetState[p], !.requested = requested ])

StartCandidateTransition(m, p, requested) ==
  /\ job[m] = Idle /\ Room
  /\ Step(m, [ Idle EXCEPT !.phase = "transition_candidate", !.packet = p,
                           !.prior = candidateState[p], !.requested = requested ])

NeedsMediationNever(j) == FALSE                  \* mutant: authority pairs are local
NeedsMediation(j) == <<j.prior, j.requested>> \in AuthoritySensitive

\* The update names the state that was read, in both rows.
StateHeldAnyway(j) == TRUE                       \* mutant: an unconditional update
StateHeld(j) == packetState[j.packet] = j.prior /\ candidateState[j.packet] = j.prior

Transition(m, outcome, authentication) ==
  LET j == job[m]
  IN  /\ log' = Record(j.phase, j, j.prior, outcome, authentication, NoDecision, None)
      /\ job' = [job EXCEPT ![m] = Idle]
      /\ UNCHANGED <<trusted, disk, signed, consumed, policyVars, approvals>>

PacketTransition(m) ==
  LET j == job[m]
  IN  /\ j.phase = "transition_packet"
      /\ ~ NeedsMediation(j) /\ ValidTransition(j.prior, j.requested)
      /\ StateHeld(j)
      /\ Transition(m, "accepted", "none")
      /\ packetState' = [packetState EXCEPT ![j.packet] = j.requested]
      /\ candidateState' = Mirror(j.packet, j.requested)

\* transition_candidate moves the candidate and leaves its packet behind.
CandidateTransition(m) ==
  LET j == job[m]
  IN  /\ j.phase = "transition_candidate"
      /\ ~ NeedsMediation(j) /\ ValidTransition(j.prior, j.requested)
      /\ candidateState[j.packet] = j.prior
      /\ Transition(m, "accepted", "none")
      /\ candidateState' = [candidateState EXCEPT ![j.packet] = j.requested]
      /\ packetState' = packetState

RejectedTransition(m) ==
  LET j == job[m]
  IN  /\ \/ /\ j.phase = "transition_packet" /\ NeedsMediation(j)
            /\ Transition(m, "rejected", "failed")
         \/ /\ j.phase \in {"transition_packet", "transition_candidate"}
            /\ ~ ValidTransition(j.prior, j.requested)
            /\ Transition(m, "rejected", "none")
      /\ UNCHANGED states

\* A lost race, or a candidate asked over an authority pair, leaves no event.
AbandonedTransition(m) ==
  LET j == job[m]
  IN  /\ j.phase \in {"transition_packet", "transition_candidate"}
      /\ ValidTransition(j.prior, j.requested)
      /\ IF j.phase = "transition_packet"
         THEN ~ NeedsMediation(j) /\ ~ StateHeld(j)
         ELSE NeedsMediation(j) \/ candidateState[j.packet] # j.prior
      /\ Step(m, Idle)

\* A process may die anywhere; SQLite keeps what committed and nothing else.
Crash(m) == job[m] # Idle /\ Step(m, Idle)

-----------------------------------------------------------------------------
Prepare ==
  \/ \E q \in Principals : BootstrapTrust(q)
  \/ \E o \in Ops : PreparePacketOperation(o) \/ PreparePolicyOperation(o)
  \/ \E p \in Packets, b \in Bytes : EditArtifacts(p, b)

Begin(m) ==
  \/ \E e \in signed, agrees \in BOOLEAN : Receive(m, e, agrees)
  \/ \E u \in Unverified : ReceiveUnverified(m, u)
  \/ \E p \in Packets, s \in PacketSteps : StartPacketTransition(m, p, s)
  \/ \E p \in Packets, s \in CandidateSteps : StartCandidateTransition(m, p, s)

Continue(m) ==
  \/ ReadPacket(m) \/ ReadCandidate(m) \/ ReadArtifacts(m)
  \/ CommitAccepted(m) \/ CommitDenied(m) \/ CommitRejection(m)
  \/ CommitPolicyAccepted(m) \/ CommitPolicyDenied(m) \/ CommitPolicyRejection(m)
  \/ RecordAttempt(m) \/ Rollback(m)
  \/ PacketTransition(m) \/ CandidateTransition(m)
  \/ RejectedTransition(m) \/ AbandonedTransition(m)

Next ==
  \/ Prepare
  \/ \E m \in Workers : Begin(m) \/ Continue(m) \/ Crash(m)

Spec == Init /\ [][Next]_vars
=============================================================================
