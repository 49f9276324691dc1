-------------------------- MODULE AuthorityProofs --------------------------
(***************************************************************************)
(* Theorems about Authority, for any set of workers, packets, operations   *)
(* and prior grants.                                                       *)
(*                                                                         *)
(* The invariants are not inductive by themselves.  IInv adds what a       *)
(* worker's phase says about the operation it carries (JobShape) and that  *)
(* every row was written by an event that is already in the chain          *)
(* (RowsPrecede); each safety invariant is then inductive relative to it.  *)
(***************************************************************************)
EXTENDS AuthoritySafety, NaturalSets, FiniteSetTheorems, TLAPS

-----------------------------------------------------------------------------
\* Facts about the vocabulary.

\* What a packet operation asks for is a transition of the table, over one of
\* the authority-sensitive pairs, and the pair its capability covers.
LEMMA SemanticsFacts ==
  ASSUME NEW k \in PacketOperation
  PROVE  /\ Semantics[k].prior \in {"AWAITING_APPROVAL", "APPROVED"}
         /\ Semantics[k].requested \in {"APPROVED", "REJECTED", "RELEASED"}
         /\ Semantics[k].requested \in WorkflowState
         /\ Semantics[k].capability \in PacketCapability
         /\ k # "release" => /\ Semantics[k].prior = "AWAITING_APPROVAL"
                             /\ Semantics[k].requested \in {"APPROVED", "REJECTED"}
BY DEF PacketOperation, Semantics, PacketCapability, WorkflowState

\* The grant that evaluate cites is the active one issued first.
LEMMA EarliestIsFirst ==
  ASSUME NEW active, active # {}, \A g \in active : g.seq \in Nat
  PROVE  /\ Earliest(active) \in active
         /\ \A h \in active : Earliest(active).seq <= h.seq
<1> DEFINE S == {g.seq : g \in active}
<1>1. PICK x \in S : \A y \in S : x <= y
  <2> S \subseteq Nat /\ S # {}
    OBVIOUS
  <2> HIDE DEF S
  <2> QED BY LeastExists
<1>2. \E g \in active : \A h \in active : g.seq <= h.seq
  BY <1>1
<1> QED BY <1>2 DEF Earliest

-----------------------------------------------------------------------------
\* The evaluator: what it returns, and what an allowed decision proves.

\* Every decision of the evaluator is of the declared type.
LEMMA EvaluateType ==
  ASSUME NEW gs, gs \subseteq Grant(GrantIds), NEW rs, NEW b \in BOOLEAN, NEW q, NEW c,
         NEW prior, NEW requested, NEW scope
  PROVE  /\ Evaluate(gs, rs, b, q, c, prior, requested, scope) \in DecisionRecord
         /\ Evaluate(gs, rs, b, q, c, prior, requested, scope).status
              \in {"allowed", "denied"}
<1> DEFINE A == ActiveGrants(gs, rs, q, c, prior, requested, scope)
<1>1. A # {} => Earliest(A).id \in GrantIds
  <2> SUFFICES ASSUME A # {} PROVE Earliest(A).id \in GrantIds
    OBVIOUS
  <2>1. A \subseteq gs
    BY DEF ActiveGrants, MatchingGrants
  <2>2. \A g \in A : g.seq \in Nat /\ g.id \in GrantIds
    BY <2>1 DEF Grant
  <2>3. Earliest(A) \in A
    <3> HIDE DEF A
    <3> QED BY <2>2, EarliestIsFirst
  <2> HIDE DEF A
  <2> QED BY <2>2, <2>3
<1>2. DenialReason(gs, b, q, c, prior, requested, scope) \in DenyReason
  BY DEF DenialReason, DenyReason
<1>3. CASE b /\ ScopeFits(c, scope) /\ A # {}
  <2>1. Evaluate(gs, rs, b, q, c, prior, requested, scope) = Allowed(Earliest(A).id)
    BY <1>3 DEF Evaluate
  <2>2. Earliest(A).id \in GrantIds
    BY <1>1, <1>3
  <2> HIDE DEF A
  <2> QED BY <2>1, <2>2 DEF Allowed, DecisionRecord, Reason, AllowReason
<1>4. CASE ~ (b /\ ScopeFits(c, scope) /\ A # {})
  <2>1. Evaluate(gs, rs, b, q, c, prior, requested, scope)
          = Denied(DenialReason(gs, b, q, c, prior, requested, scope))
    BY <1>4 DEF Evaluate
  <2> QED BY <1>2, <2>1 DEF Denied, DecisionRecord, Reason, DenyReason
<1> QED BY <1>3, <1>4

\* And so is every decision of _evaluate_transaction_authorization.
LEMMA EvaluateRequestType ==
  ASSUME NEW gs, gs \subseteq Grant(GrantIds), NEW rs, NEW b \in BOOLEAN, NEW q, NEW c,
         NEW prior, NEW requested, NEW ps, NEW scope
  PROVE  /\ EvaluateRequest(gs, rs, b, q, c, prior, requested, ps, scope) \in DecisionRecord
         /\ EvaluateRequest(gs, rs, b, q, c, prior, requested, ps, scope).status
              \in {"allowed", "denied"}
BY EvaluateType DEF EvaluateRequest, Denied, DecisionRecord, Reason, DenyReason

\* An allowed decision names a grant that covers the question asked, and that
\* nothing has revoked.
LEMMA AllowedCovers ==
  ASSUME NEW gs, gs \subseteq Grant(GrantIds), NEW rs, NEW b \in BOOLEAN, NEW q, NEW c,
         NEW prior, NEW requested, NEW scope,
         Evaluate(gs, rs, b, q, c, prior, requested, scope).status = "allowed"
  PROVE  \E g \in gs :
           /\ g.id = Evaluate(gs, rs, b, q, c, prior, requested, scope).grant
           /\ g.subject = q /\ g.capability = c
           /\ CapabilityStateScope(g.capability, None) = <<prior, requested>>
           /\ c \in PacketCapability => g.version = Version /\ g.scope = scope
           /\ ~ IsRevoked(rs, g.id)
<1> DEFINE A == ActiveGrants(gs, rs, q, c, prior, requested, scope)
<1>1. A # {} /\ Evaluate(gs, rs, b, q, c, prior, requested, scope).grant = Earliest(A).id
  BY DEF Evaluate, Allowed, Denied
<1>2. Earliest(A) \in A
  <2>1. \A g \in A : g.seq \in Nat
    BY DEF ActiveGrants, MatchingGrants, Grant
  <2> HIDE DEF A
  <2> QED BY <1>1, <2>1, EarliestIsFirst
<1> QED BY <1>1, <1>2 DEF ActiveGrants, MatchingGrants

\* The chain of denial codes falls through to GRANT_REVOKED only when a grant
\* of this principal fits the question.
LEMMA RevokedIsLastReason ==
  ASSUME NEW gs, NEW q, NEW c, NEW prior, NEW requested, NEW scope, ScopeFits(c, scope)
  PROVE  (DenialReason(gs, TRUE, q, c, prior, requested, scope) = "GRANT_REVOKED")
           <=> (MatchingGrants(gs, q, c, prior, requested, scope) # {})
<1> DEFINE own    == {g \in gs : g.subject = q}
           ofCap  == {g \in own : g.capability = c}
           exact  == {g \in ofCap :
                        CapabilityStateScope(g.capability, None) = <<prior, requested>>}
           scoped == {g \in exact : g.version = Version}
           M      == MatchingGrants(gs, q, c, prior, requested, scope)
           legacy == c \in PacketCapability /\ scoped = {} /\ \E g \in exact : g.scope = None
           other  == c \in PacketCapability /\ ~ \E g \in scoped : g.scope = scope
<1>1. M = {g \in exact : c \in PacketCapability => g.version = Version /\ g.scope = scope}
  BY DEF MatchingGrants
<1>2. (DenialReason(gs, TRUE, q, c, prior, requested, scope) = "GRANT_REVOKED")
        <=> own # {} /\ ofCap # {} /\ exact # {} /\ ~ legacy /\ ~ other
  BY DEF DenialReason, ScopeFits
<1>3. exact \subseteq ofCap /\ ofCap \subseteq own
  OBVIOUS
<1>4. (M # {}) <=> (exact # {} /\ ~ legacy /\ ~ other)
  <2> HIDE DEF exact, M
  <2> QED BY <1>1
<1> HIDE DEF own, ofCap, exact, legacy, other, M
<1>5. (M # {}) <=> (own # {} /\ ofCap # {} /\ exact # {} /\ ~ legacy /\ ~ other)
  BY <1>3, <1>4
<1> QED BY <1>2, <1>5 DEF M

\* The evaluator allows exactly when it may, and cites the active grant that
\* was issued first; a denial names GRANT_REVOKED exactly when the principal
\* did hold a grant for this question and every such grant was taken back, so
\* that any other reason means that no grant, revoked or not, ever fitted
\* (CapabilityPolicyEvaluator.evaluate and its chain of denial codes).
THEOREM EvaluatorTellsTheTruth ==
  ASSUME NEW gs, gs \subseteq Grant(GrantIds), NEW rs, NEW b \in BOOLEAN, NEW q, NEW c,
         NEW prior, NEW requested, NEW scope
  PROVE  LET d == Evaluate(gs, rs, b, q, c, prior, requested, scope)
             M == MatchingGrants(gs, q, c, prior, requested, scope)
         IN  /\ d.status = "allowed" =>
                  \E g \in M : /\ d.grant = g.id /\ ~ IsRevoked(rs, g.id)
                               /\ \A h \in M : h.seq < g.seq => IsRevoked(rs, h.id)
             /\ d.status = "denied" /\ b /\ ScopeFits(c, scope) =>
                  /\ \A g \in M : IsRevoked(rs, g.id)
                  /\ (d.reason = "GRANT_REVOKED") <=> (M # {})
<1> DEFINE M == MatchingGrants(gs, q, c, prior, requested, scope)
           A == ActiveGrants(gs, rs, q, c, prior, requested, scope)
           d == Evaluate(gs, rs, b, q, c, prior, requested, scope)
           why == DenialReason(gs, b, q, c, prior, requested, scope)
<1>1. A = {g \in M : ~ IsRevoked(rs, g.id)}
  BY DEF ActiveGrants
<1>2. ASSUME d.status = "allowed"
      PROVE  \E g \in M : /\ d.grant = g.id /\ ~ IsRevoked(rs, g.id)
                          /\ \A h \in M : h.seq < g.seq => IsRevoked(rs, h.id)
  <2>1. A # {} /\ d.grant = Earliest(A).id
    BY <1>2 DEF Evaluate, Allowed, Denied
  <2>2. \A g \in A : g.seq \in Nat
    BY DEF ActiveGrants, MatchingGrants, Grant
  <2>3. \A h \in M : h.seq \in Nat
    BY DEF MatchingGrants, Grant
  <2> HIDE DEF A, M, d
  <2>4. Earliest(A) \in A /\ \A h \in A : Earliest(A).seq <= h.seq
    BY <2>1, <2>2, EarliestIsFirst
  <2>5. PICK g \in M : g = Earliest(A) /\ ~ IsRevoked(rs, g.id)
    BY <1>1, <2>4
  <2>6. ASSUME NEW h \in M, h.seq < g.seq PROVE IsRevoked(rs, h.id)
    <3>1. CASE h \in A
      BY <2>3, <2>4, <2>5, <2>6, <3>1
    <3>2. CASE h \notin A
      BY <1>1, <3>2
    <3> QED BY <3>1, <3>2
  <2> QED BY <2>1, <2>5, <2>6
<1>3. ASSUME d.status = "denied", b, ScopeFits(c, scope)
      PROVE  /\ \A g \in M : IsRevoked(rs, g.id)
             /\ (d.reason = "GRANT_REVOKED") <=> (M # {})
  <2>1. A = {} /\ d.reason = why
    BY <1>3 DEF Evaluate, Allowed, Denied
  <2>2. (why = "GRANT_REVOKED") <=> (M # {})
    BY <1>3, RevokedIsLastReason
  <2> QED BY <1>1, <2>1, <2>2
<1> QED BY <1>2, <1>3

\* A grant can only help and a revocation can only hurt: a question that was
\* allowed stays allowed with more grants and no more revocations.  As grants
\* and revocations are never deleted, whatever refuses at its commit what an
\* earlier evaluation allowed is a revocation (ORDER BY and the anti-join on
\* capability_revocations in CapabilityPolicyEvaluator.evaluate).
THEOREM EvaluatorIsMonotone ==
  ASSUME NEW gs, NEW more, gs \subseteq more, NEW rs, NEW fewer, fewer \subseteq rs,
         NEW b \in BOOLEAN, NEW later \in BOOLEAN, b => later, NEW q, NEW c,
         NEW prior, NEW requested, NEW scope,
         Evaluate(gs, rs, b, q, c, prior, requested, scope).status = "allowed"
  PROVE  Evaluate(more, fewer, later, q, c, prior, requested, scope).status = "allowed"
<1>1. /\ b /\ ScopeFits(c, scope)
      /\ ActiveGrants(gs, rs, q, c, prior, requested, scope) # {}
  BY DEF Evaluate, Denied
<1>2. ActiveGrants(gs, rs, q, c, prior, requested, scope)
        \subseteq ActiveGrants(more, fewer, q, c, prior, requested, scope)
  BY DEF ActiveGrants, MatchingGrants, IsRevoked
<1> QED BY <1>1, <1>2 DEF Evaluate, Allowed

\* A request is allowed only for the scope its packet really has.
LEMMA AllowedRequestCovers ==
  ASSUME NEW gs, gs \subseteq Grant(GrantIds), NEW rs, NEW b \in BOOLEAN, NEW q, NEW c,
         NEW prior, NEW requested, NEW ps, NEW scope,
         EvaluateRequest(gs, rs, b, q, c, prior, requested, ps, scope).status = "allowed"
  PROVE  /\ ps = scope
         /\ Evaluate(gs, rs, b, q, c, prior, requested, ps).status = "allowed"
         /\ EvaluateRequest(gs, rs, b, q, c, prior, requested, ps, scope)
              = Evaluate(gs, rs, b, q, c, prior, requested, ps)
BY DEF EvaluateRequest, Denied

-----------------------------------------------------------------------------
\* The inductive invariant.

PacketPhase == {"packet", "candidate", "artifacts", "commit", "reject", "replayed_packet"}
BoundPhase  == {"candidate", "artifacts", "commit", "reject"}
PolicyPhase == {"policy", "policy_reject"}
LocalPhase  == {"transition_packet", "transition_candidate"}

\* What a worker holds in each phase.
JobShape(j) ==
  /\ j.phase \in PacketPhase =>
       /\ j.op \in Ops /\ IsPacketOp(j.op)
       /\ j.packet = Request[j.op].packet
       /\ j.requested = Semantics[Request[j.op].kind].requested
  /\ j.phase \in BoundPhase => j.prior \in WorkflowState
  /\ j.phase \in PolicyPhase =>
       j.op \in Ops /\ ~ IsPacketOp(j.op) /\ j.packet = None /\ j.requested = None
  /\ j.phase = "replayed" =>
       /\ j.op \in Ops
       /\ IsPacketOp(j.op) => j.requested = Semantics[Request[j.op].kind].requested
       /\ ~ IsPacketOp(j.op) => j.prior = None /\ j.requested = None
  /\ j.phase = "unverified_packet" => j.packet \in Packets
  /\ j.phase \in LocalPhase =>
       /\ j.op = None /\ j.packet \in Packets
       /\ j.prior \in WorkflowState /\ j.requested \in WorkflowState

JobShapes == \A m \in Workers : JobShape(job[m])

\* Every row was written by an event that is already in the chain.
RowsPrecede ==
  /\ \A g \in grants : g.seq <= PriorEvents + Len(log)
  /\ \A r \in revocations : r.seq <= PriorEvents + Len(log)
  /\ \A a \in approvals : a.seq <= PriorEvents + Len(log)

IInv == TypeOK /\ JobShapes /\ RowsPrecede

\* What an operation asks for is of the declared type.
LEMMA RequestFacts ==
  ASSUME NEW o \in Ops
  PROVE  /\ Request[o] \in RequestRecord
         /\ IsPacketOp(o) => /\ Request[o].packet \in Packets
                             /\ Request[o].kind \in PacketOperation
                             /\ Request[o].capability = Semantics[Request[o].kind].capability
         /\ ~ IsPacketOp(o) => /\ Request[o].kind \in PolicyOperation
                               /\ Request[o].packet = None
                               /\ Request[o].subject \in Principals
BY RequestAssumption DEF IsPacketOp, RequestRecord, Operation

\* A step that only changes what one worker holds keeps the invariant.
LEMMA StepInv ==
  ASSUME IInv, NEW m \in Workers, NEW j \in Job, JobShape(j), Step(m, j)
  PROVE  IInv'
BY DEF IInv, TypeOK, JobShapes, RowsPrecede, Step, states, policyVars

\* A worker between two commands holds nothing.
LEMMA IdleShape == Idle \in Job /\ JobShape(Idle)
BY DEF Idle, Job, Phase, JobShape, PacketPhase, BoundPhase, PolicyPhase, LocalPhase

\* A step that appends one event and lets its worker go keeps the log, the
\* workers and the order of the rows.
LEMMA AppendInv ==
  ASSUME IInv, NEW m \in Workers, NEW e \in Event,
         log' = Append(log, e), job' = [job EXCEPT ![m] = Idle]
  PROVE  /\ log' \in Seq(Event) /\ Len(log') = Len(log) + 1
         /\ NextSeq \in Nat /\ NextSeq = PriorEvents + Len(log')
         /\ \A n \in Nat : n <= PriorEvents + Len(log) => n <= PriorEvents + Len(log')
         /\ job' \in [Workers -> Job] /\ JobShapes'
<1>1. log \in Seq(Event) /\ Len(log) \in Nat /\ PriorEvents \in Nat
  BY PriorAssumption DEF IInv, TypeOK
<1>2. log' \in Seq(Event) /\ Len(log') = Len(log) + 1
  BY <1>1
<1>3. job' \in [Workers -> Job] /\ JobShapes'
  BY IdleShape DEF IInv, TypeOK, JobShapes
<1> QED BY <1>1, <1>2, <1>3 DEF NextSeq

-----------------------------------------------------------------------------
\* What a worker does before its transaction keeps the invariant.

\* Authenticating an operation keeps the invariant, whether it is fresh, a
\* replay, or given to the wrong adapter (authenticate_authority_request).
LEMMA ReceiveInv ==
  ASSUME IInv, NEW m \in Workers, NEW e \in signed, NEW agrees \in BOOLEAN,
         Receive(m, e, agrees)
  PROVE  IInv'
<1>1. e \in Envelope /\ e.op \in Ops
  BY DEF IInv, TypeOK, Envelope
<1> DEFINE r == Request[e.op]
           packet == IsPacketOp(e.op)
           replay == e.op \in ConsumedOps
           ph == CASE replay /\ packet -> "replayed_packet"
                   [] replay /\ ~ packet -> "replayed"
                   [] ~ replay /\ packet -> "packet"
                   [] OTHER -> IF agrees THEN "policy" ELSE "policy_reject"
           j == [ Idle EXCEPT !.phase = ph,
                    !.op = e.op, !.bytes = e.bytes, !.approval = e.approval,
                    !.packet = IF packet THEN r.packet ELSE None,
                    !.requested = IF packet THEN Semantics[r.kind].requested ELSE None,
                    !.agrees = agrees ]
<1>2. Step(m, j)
  BY DEF Receive
<1>3. packet => r.packet \in Packets /\ Semantics[r.kind].requested \in WorkflowState
  BY <1>1, RequestFacts, SemanticsFacts
<1>4. /\ packet => ph \in {"replayed_packet", "packet"}
      /\ ~ packet => ph \in {"replayed", "policy", "policy_reject"}
  OBVIOUS
<1> HIDE DEF ph
<1>5. /\ j.phase = ph /\ j.op = e.op
      /\ j.packet = IF packet THEN r.packet ELSE None
      /\ j.requested = IF packet THEN Semantics[r.kind].requested ELSE None
      /\ j.prior = None
  BY DEF Idle
<1>6. j \in Job
  <2>1. /\ (IF packet THEN r.packet ELSE None) \in Packets \cup {None}
        /\ (IF packet THEN Semantics[r.kind].requested ELSE None) \in WorkflowState \cup {None}
    BY <1>3
  <2>2. ph \in Phase
    BY <1>4 DEF Phase
  <2>3. e.bytes \in Bytes \cup {None} /\ e.approval \in Ops \cup {None}
    BY <1>1 DEF Envelope
  <2> QED BY <1>1, <2>1, <2>2, <2>3 DEF Job, Idle
<1> HIDE DEF j
<1>7. JobShape(j)
  BY <1>1, <1>4, <1>5 DEF JobShape, PacketPhase, BoundPhase, PolicyPhase, LocalPhase
<1> QED BY <1>2, <1>6, <1>7, StepInv

\* An attempt that does not verify keeps it (_record_authentication_rejection).
LEMMA ReceiveUnverifiedInv ==
  ASSUME IInv, NEW m \in Workers, NEW u \in Unverified, ReceiveUnverified(m, u)
  PROVE  IInv'
<1> DEFINE j == [ Idle EXCEPT
                    !.phase = IF u[1] = None THEN "unverified" ELSE "unverified_packet",
                    !.packet = u[1], !.requested = u[2] ]
<1>1. /\ u[1] \in Packets \cup {None} /\ u[2] \in WorkflowState \cup {None}
  BY StepAssumption
<1>2. j \in Job
  BY <1>1, IdleShape, ZenonT(40) DEF Job, Phase, Idle
<1>3. JobShape(j)
  BY <1>1 DEF JobShape, Idle, PacketPhase, BoundPhase, PolicyPhase, LocalPhase
<1> QED BY <1>2, <1>3, StepInv DEF ReceiveUnverified

\* The reads of _mediate_authenticated before the transaction keep it.
LEMMA ReadsInv ==
  ASSUME IInv, NEW m \in Workers,
         ReadPacket(m) \/ ReadCandidate(m) \/ ReadArtifacts(m)
  PROVE  IInv'
<1> USE DEF PacketPhase, BoundPhase, PolicyPhase, LocalPhase
<1>1. job[m] \in Job /\ JobShape(job[m])
  BY DEF IInv, TypeOK, JobShapes
<1>2. CASE ReadPacket(m)
  <2> DEFINE j  == job[m]
             ph == CASE j.phase = "packet" -> IF j.agrees THEN "candidate" ELSE "reject"
                     [] j.phase = "replayed_packet" -> "replayed"
                     [] j.phase = "unverified_packet" -> "unverified"
             k  == [j EXCEPT !.prior = packetState[j.packet], !.phase = ph]
  <2>1. Step(m, k) /\ j.phase \in {"packet", "replayed_packet", "unverified_packet"}
    BY <1>2 DEF ReadPacket
  <2>2. j.packet \in Packets
    BY <1>1, <2>1, RequestFacts DEF JobShape
  <2>3. packetState[j.packet] \in WorkflowState
    BY <2>2 DEF IInv, TypeOK
  <2>4. /\ j.phase = "packet" => ph \in {"candidate", "reject"}
        /\ j.phase = "replayed_packet" => ph = "replayed"
        /\ j.phase = "unverified_packet" => ph = "unverified"
    OBVIOUS
  <2> HIDE DEF ph
  <2>5. ph \in Phase
    BY <2>1, <2>4 DEF Phase
  <2>6. /\ k \in Job /\ k.phase = ph /\ k.prior = packetState[j.packet]
        /\ k.op = j.op /\ k.packet = j.packet /\ k.requested = j.requested
    BY <1>1, <2>3, <2>5 DEF Job
  <2> HIDE DEF k
  <2>7. JobShape(k)
    BY <1>1, <2>1, <2>3, <2>4, <2>6 DEF JobShape
  <2> QED BY <2>1, <2>6, <2>7, StepInv
<1>3. CASE ReadCandidate(m)
  <2> DEFINE k == [job[m] EXCEPT !.phase = IF StateBinds(job[m]) THEN "artifacts" ELSE "reject"]
  <2>1. Step(m, k) /\ job[m].phase = "candidate"
    BY <1>3 DEF ReadCandidate
  <2>2. k \in Job /\ JobShape(k)
    BY <1>1, <2>1 DEF Job, Phase, JobShape
  <2> QED BY <2>1, <2>2, StepInv
<1>4. CASE ReadArtifacts(m)
  <2> DEFINE b == ArtifactsBind(job[m]) /\ (IsRelease(job[m]) => ReleaseBinds(job[m]))
             k == [job[m] EXCEPT !.phase = IF b THEN "commit" ELSE "reject",
                                 !.bytes = disk[job[m].packet]]
  <2>1. Step(m, k) /\ job[m].phase = "artifacts"
    BY <1>4 DEF ReadArtifacts
  <2>2. disk[job[m].packet] \in Bytes
    BY <1>1, <2>1, RequestFacts DEF JobShape, IInv, TypeOK
  <2> HIDE DEF b
  <2>3. k \in Job /\ JobShape(k)
    BY <1>1, <2>1, <2>2 DEF Job, Phase, JobShape
  <2> QED BY <2>1, <2>3, StepInv
<1> QED BY <1>2, <1>3, <1>4

\* A rollback, an abandoned transition and a crash keep it.
LEMMA IdleInv ==
  ASSUME IInv, NEW m \in Workers,
         Rollback(m) \/ AbandonedTransition(m) \/ Crash(m)
  PROVE  IInv'
BY IdleShape, StepInv DEF Rollback, AbandonedTransition, Crash

\* The reads of transition_packet and transition_candidate keep it.
LEMMA StartInv ==
  ASSUME IInv, NEW m \in Workers, NEW p \in Packets, NEW s \in WorkflowState,
         StartPacketTransition(m, p, s) \/ StartCandidateTransition(m, p, s)
  PROVE  IInv'
<1> USE DEF PacketPhase, BoundPhase, PolicyPhase, LocalPhase
<1>1. packetState[p] \in WorkflowState /\ candidateState[p] \in WorkflowState
  BY DEF IInv, TypeOK
<1>2. ASSUME NEW ph \in LocalPhase, NEW s0 \in WorkflowState,
             Step(m, [ Idle EXCEPT !.phase = ph, !.packet = p, !.prior = s0, !.requested = s ])
      PROVE  IInv'
  <2> DEFINE j == [ Idle EXCEPT !.phase = ph, !.packet = p, !.prior = s0, !.requested = s ]
  <2>1. j \in Job /\ JobShape(j)
    BY IdleShape DEF Job, Phase, JobShape, Idle
  <2> QED BY <1>2, <2>1, StepInv
<1> QED BY <1>1, <1>2 DEF StartPacketTransition, StartCandidateTransition

\* Registering a principal, signing an operation and editing files keep it.
LEMMA PrepareInv ==
  ASSUME IInv, Prepare
  PROVE  IInv'
<1>1. ASSUME NEW q \in Principals, BootstrapTrust(q) PROVE IInv'
  BY <1>1 DEF BootstrapTrust, IInv, TypeOK, JobShapes, RowsPrecede, states, policyVars
<1>2. ASSUME NEW o \in Ops, PreparePacketOperation(o) PROVE IInv'
  <2> DEFINE p == Request[o].packet
             a == IF Request[o].kind = "release" THEN LatestApproved(p).op ELSE None
  <2>1. p \in Packets /\ disk[p] \in Bytes
    BY <1>2, RequestFacts DEF PreparePacketOperation, IInv, TypeOK
  <2>2. Request[o].kind = "release" => LatestApproved(p) \in approvals
    <3> SUFFICES ASSUME Request[o].kind = "release" PROVE LatestApproved(p) \in approvals
      OBVIOUS
    <3> DEFINE S == {b.seq : b \in ApprovedOf(p)}
    <3>1. S \subseteq Nat /\ \A n \in S : n <= PriorEvents + Len(log)
      BY DEF IInv, TypeOK, RowsPrecede, Approval, ApprovedOf
    <3>2. ApprovedOf(p) # {}
      BY <1>2 DEF PreparePacketOperation, CanPreparePacket
    <3>3. PriorEvents + Len(log) \in Nat
      BY PriorAssumption DEF IInv, TypeOK
    <3>4. S # {}
      BY <3>2
    <3>5. PICK x \in S : \A y \in S : y <= x
      <4> HIDE DEF S
      <4> QED BY <3>1, <3>3, <3>4, GreatestExists
    <3>6. \E b \in ApprovedOf(p) : \A c \in ApprovedOf(p) : c.seq <= b.seq
      BY <3>5
    <3> QED BY <3>6 DEF LatestApproved, ApprovedOf
  <2>3. a \in Ops \cup {None}
    BY <2>2 DEF IInv, TypeOK, Approval
  <2>4. signed' = signed \cup {[op |-> o, bytes |-> disk[p], approval |-> a]}
    BY <1>2 DEF PreparePacketOperation
  <2> HIDE DEF a, p
  <2>5. signed' \subseteq Envelope
    BY <2>1, <2>3, <2>4 DEF Envelope, IInv, TypeOK
  <2> QED BY <1>2, <2>5 DEF PreparePacketOperation, IInv, TypeOK, JobShapes,
                            RowsPrecede, states, policyVars
<1>3. ASSUME NEW o \in Ops, PreparePolicyOperation(o) PROVE IInv'
  <2>1. signed' \subseteq Envelope
    BY <1>3 DEF PreparePolicyOperation, Envelope, IInv, TypeOK
  <2> QED BY <1>3, <2>1 DEF PreparePolicyOperation, IInv, TypeOK, JobShapes,
                            RowsPrecede, states, policyVars
<1>4. ASSUME NEW p \in Packets, NEW b \in Bytes, EditArtifacts(p, b) PROVE IInv'
  BY <1>4 DEF EditArtifacts, IInv, TypeOK, JobShapes, RowsPrecede, states, policyVars
<1> QED BY <1>1, <1>2, <1>3, <1>4 DEF Prepare

-----------------------------------------------------------------------------
\* The transactions keep the invariant.

\* The event of a verified operation, and what consuming it changes.
AdjudicatedEvent(j, prior, outcome, decision, bytes) ==
  [ kind |-> Request[j.op].kind, op |-> j.op, packet |-> j.packet, prior |-> prior,
    requested |-> j.requested, outcome |-> outcome, authentication |-> "verified",
    decision |-> decision, bytes |-> bytes ]

\* Consuming a verified operation with its event keeps the typed tables.
LEMMA AdjudicateInv ==
  ASSUME IInv, NEW m \in Workers, job[m].op \in Ops,
         NEW prior \in WorkflowState \cup {None}, NEW outcome \in {"accepted", "rejected"},
         NEW decision \in DecisionRecord, NEW bytes \in Bytes \cup {None},
         Adjudicate(m, prior, outcome, decision, bytes)
  PROVE  /\ log' = Append(log, AdjudicatedEvent(job[m], prior, outcome, decision, bytes))
         /\ log' \in Seq(Event) /\ Len(log') = Len(log) + 1
         /\ NextSeq \in Nat /\ NextSeq = PriorEvents + Len(log')
         /\ \A n \in Nat : n <= PriorEvents + Len(log) => n <= PriorEvents + Len(log')
         /\ job' \in [Workers -> Job] /\ JobShapes'
         /\ consumed' \subseteq [op : Ops, seq : Nat, outcome : {"accepted", "rejected"}]
<1> DEFINE e == AdjudicatedEvent(job[m], prior, outcome, decision, bytes)
<1>1. e \in Event
  <2>1. job[m] \in Job /\ Request[job[m].op].kind \in Operation
    BY RequestFacts DEF IInv, TypeOK, RequestRecord
  <2> QED BY <2>1 DEF AdjudicatedEvent, Event, Job
<1>2. log' = Append(log, e) /\ job' = [job EXCEPT ![m] = Idle]
  BY DEF Adjudicate, Record, AdjudicatedEvent
<1> HIDE DEF e
<1>3. /\ log' \in Seq(Event) /\ Len(log') = Len(log) + 1
      /\ NextSeq \in Nat /\ NextSeq = PriorEvents + Len(log')
      /\ \A n \in Nat : n <= PriorEvents + Len(log) => n <= PriorEvents + Len(log')
      /\ job' \in [Workers -> Job] /\ JobShapes'
  BY <1>1, <1>2, AppendInv
<1>4. consumed' \subseteq [op : Ops, seq : Nat, outcome : {"accepted", "rejected"}]
  BY <1>3 DEF Adjudicate, IInv, TypeOK
<1> QED BY <1>2, <1>3, <1>4 DEF e

\* The packet transaction decides with a decision of the declared type.
LEMMA PacketDecisionType ==
  ASSUME IInv, NEW j, NEW prior
  PROVE  PacketDecision(j, prior) \in DecisionRecord
BY EvaluateRequestType DEF PacketDecision, IInv, TypeOK

\* And so does the policy transaction.
LEMMA PolicyDecisionType ==
  ASSUME IInv, NEW o \in Ops, ~ IsPacketOp(o)
  PROVE  PolicyDecision(o) \in DecisionRecord
<1> DEFINE r == Request[o]
<1>1. AdminDecision(r) \in DecisionRecord
  BY EvaluateType DEF AdminDecision, IInv, TypeOK
<1>2. \A reason \in DenyReason \cup PassReason : Denied(reason) \in DecisionRecord
  BY DEF Denied, DecisionRecord, Reason
<1>3. BootstrapAllowed \in DecisionRecord
  BY DEF BootstrapAllowed, DecisionRecord, Reason, AllowReason
<1> USE DEF DenyReason, PassReason
<1>4. BootstrapDecision(r) \in DecisionRecord
  BY <1>2, <1>3 DEF BootstrapDecision
<1>5. GrantDecision(r) \in DecisionRecord
  BY <1>1, <1>2 DEF GrantDecision
<1>6. RevokeDecision(r) \in DecisionRecord
  BY <1>1, <1>2 DEF RevokeDecision
<1>7. r.kind \in {"bootstrap", "grant", "revoke"}
  BY RequestFacts DEF PolicyOperation
<1> QED BY <1>4, <1>5, <1>6, <1>7 DEF PolicyDecision

\* An accepted approve, reject or release keeps the invariant
\* (_commit_authority_transition).
LEMMA CommitAcceptedInv ==
  ASSUME IInv, NEW m \in Workers, CommitAccepted(m)
  PROVE  IInv'
<1> DEFINE j == job[m]
           p == j.packet
           d == PacketDecision(j, packetState[p])
<1>1. j \in Job /\ JobShape(j) /\ j.phase = "commit"
  BY DEF IInv, TypeOK, JobShapes, CommitAccepted
<1>2. /\ j.op \in Ops /\ IsPacketOp(j.op) /\ p \in Packets
      /\ p = Request[j.op].packet
      /\ j.requested = Semantics[Request[j.op].kind].requested
      /\ j.requested \in WorkflowState
  BY <1>1, RequestFacts, SemanticsFacts DEF JobShape, PacketPhase
<1>3. packetState[p] \in WorkflowState /\ d \in DecisionRecord /\ j.bytes \in Bytes \cup {None}
  BY <1>1, <1>2, PacketDecisionType DEF IInv, TypeOK, Job
<1>4. Adjudicate(m, packetState[p], "accepted", d, j.bytes)
  BY DEF CommitAccepted
<1>5. /\ log' \in Seq(Event) /\ Len(log') = Len(log) + 1
      /\ NextSeq \in Nat /\ NextSeq = PriorEvents + Len(log')
      /\ \A n \in Nat : n <= PriorEvents + Len(log) => n <= PriorEvents + Len(log')
      /\ job' \in [Workers -> Job] /\ JobShapes'
      /\ consumed' \subseteq [op : Ops, seq : Nat, outcome : {"accepted", "rejected"}]
  <2> HIDE DEF d
  <2> QED BY <1>2, <1>3, <1>4, AdjudicateInv
<1>6. /\ approvals' \subseteq Approval
      /\ \A a \in approvals' : a.seq <= PriorEvents + Len(log')
  <2>1. CASE IsRelease(j)
    BY <1>5, <2>1 DEF CommitAccepted, IInv, TypeOK, RowsPrecede, Approval
  <2>2. CASE ~ IsRelease(j)
    <3> DEFINE a == [ op |-> j.op, packet |-> p, decision |-> j.requested,
                      scope |-> Request[j.op].scope, seq |-> NextSeq ]
    <3>1. j.requested \in {"APPROVED", "REJECTED"}
      BY <1>2, <2>2, RequestFacts, SemanticsFacts DEF IsRelease
    <3>2. Request[j.op].scope \in Scopes \cup {None}
      BY <1>2, RequestFacts DEF RequestRecord
    <3>3. a \in Approval /\ a.seq = NextSeq
      BY <1>2, <1>5, <3>1, <3>2 DEF Approval
    <3>4. approvals' = approvals \cup {a}
      BY <2>2 DEF CommitAccepted
    <3> HIDE DEF a
    <3> QED BY <1>5, <3>3, <3>4 DEF IInv, TypeOK, RowsPrecede, Approval
  <2> QED BY <2>1, <2>2
<1>7. /\ packetState' \in [Packets -> WorkflowState]
      /\ candidateState' \in [Packets -> WorkflowState]
  BY <1>2 DEF CommitAccepted, Mirror, IInv, TypeOK
<1>8. UNCHANGED <<trusted, disk, signed, grants, revocations, bootstrapped>>
  BY DEF CommitAccepted, policyVars
<1> QED BY <1>5, <1>6, <1>7, <1>8 DEF IInv, TypeOK, RowsPrecede, Grant

\* A transaction that only rejects changes no state and no policy row, and
\* keeps the invariant.
LEMMA RejectionInv ==
  ASSUME IInv, NEW m \in Workers,
         \/ CommitDenied(m) \/ CommitRejection(m)
         \/ CommitPolicyDenied(m) \/ CommitPolicyRejection(m)
  PROVE  IInv'
<1> DEFINE j == job[m]
<1>1. j \in Job /\ JobShape(j)
  BY DEF IInv, TypeOK, JobShapes
<1>2. ASSUME NEW prior \in WorkflowState \cup {None}, NEW decision \in DecisionRecord,
             NEW bytes \in Bytes \cup {None}, j.op \in Ops,
             Adjudicate(m, prior, "rejected", decision, bytes),
             UNCHANGED <<trusted, states, disk, signed, policyVars, approvals>>
      PROVE  IInv'
  <2>1. /\ log' \in Seq(Event)
        /\ \A n \in Nat : n <= PriorEvents + Len(log) => n <= PriorEvents + Len(log')
        /\ job' \in [Workers -> Job] /\ JobShapes'
        /\ consumed' \subseteq [op : Ops, seq : Nat, outcome : {"accepted", "rejected"}]
    BY <1>2, AdjudicateInv
  <2> QED BY <1>2, <2>1 DEF IInv, TypeOK, RowsPrecede, Grant, Approval, states, policyVars
<1>3. CASE CommitDenied(m)
  <2>1. j.op \in Ops /\ j.packet \in Packets
    BY <1>1, <1>3, RequestFacts DEF CommitDenied, JobShape, PacketPhase
  <2>2. packetState[j.packet] \in WorkflowState /\ j.bytes \in Bytes \cup {None}
    BY <1>1, <2>1 DEF IInv, TypeOK, Job
  <2> QED BY <1>2, <1>3, <2>1, <2>2, PacketDecisionType DEF CommitDenied
<1>4. CASE CommitRejection(m)
  <2>1. j.op \in Ops /\ j.prior \in WorkflowState
    BY <1>1, <1>4 DEF CommitRejection, JobShape, PacketPhase, BoundPhase
  <2> QED BY <1>2, <1>4, <2>1, PacketDecisionType DEF CommitRejection
<1>5. CASE CommitPolicyDenied(m)
  <2>1. j.op \in Ops /\ ~ IsPacketOp(j.op)
    BY <1>1, <1>5 DEF CommitPolicyDenied, JobShape, PolicyPhase
  <2> QED BY <1>2, <1>5, <2>1, PolicyDecisionType DEF CommitPolicyDenied
<1>6. CASE CommitPolicyRejection(m)
  <2>1. j.op \in Ops
    BY <1>1, <1>6 DEF CommitPolicyRejection, JobShape, PolicyPhase
  <2>2. NotEvaluated("REQUEST_BINDING_REJECTED") \in DecisionRecord
    BY DEF NotEvaluated, DecisionRecord, Reason, PassReason
  <2> QED BY <1>2, <1>6, <2>1, <2>2 DEF CommitPolicyRejection
<1> QED BY <1>3, <1>4, <1>5, <1>6

\* An accepted bootstrap, grant or revocation keeps the invariant
\* (_commit_capability_policy_operation).
LEMMA CommitPolicyAcceptedInv ==
  ASSUME IInv, NEW m \in Workers, CommitPolicyAccepted(m)
  PROVE  IInv'
<1> DEFINE o == job[m].op
           r == Request[o]
<1>1. o \in Ops /\ ~ IsPacketOp(o)
  BY DEF CommitPolicyAccepted, IInv, JobShapes, JobShape, PolicyPhase
<1>2. PolicyDecision(o) \in DecisionRecord
  BY <1>1, PolicyDecisionType
<1>3. /\ log' \in Seq(Event) /\ Len(log') = Len(log) + 1
      /\ NextSeq \in Nat /\ NextSeq = PriorEvents + Len(log')
      /\ \A n \in Nat : n <= PriorEvents + Len(log) => n <= PriorEvents + Len(log')
      /\ job' \in [Workers -> Job] /\ JobShapes'
      /\ consumed' \subseteq [op : Ops, seq : Nat, outcome : {"accepted", "rejected"}]
  BY <1>1, <1>2, AdjudicateInv DEF CommitPolicyAccepted
<1>4. CASE r.kind = "revoke"
  <2>1. r.target \in GrantIds
    <3>1. RevokeDecision(r).status = "allowed"
      BY <1>4 DEF CommitPolicyAccepted, PolicyDecision
    <3>2. \E g \in grants : g.id = r.target
      BY <3>1 DEF RevokeDecision, Denied
    <3> QED BY <3>2 DEF IInv, TypeOK, Grant
  <2> DEFINE v == [op |-> o, grant |-> r.target, seq |-> NextSeq]
  <2>2. v \in [op : Ops, grant : GrantIds, seq : Nat] /\ v.seq = NextSeq
    BY <1>1, <1>3, <2>1
  <2>3. revocations' = revocations \cup {v} /\ grants' = grants
    BY <1>4 DEF CommitPolicyAccepted
  <2>4. bootstrapped' \in BOOLEAN /\ UNCHANGED <<trusted, states, disk, signed, approvals>>
    BY DEF CommitPolicyAccepted, IInv, TypeOK
  <2> HIDE DEF v
  <2> QED BY <1>3, <2>2, <2>3, <2>4 DEF IInv, TypeOK, RowsPrecede, Grant, Approval, states
<1>5. CASE r.kind # "revoke"
  <2> DEFINE g == NewGrant(o)
  <2>1. g \in Grant(GrantIds) /\ g.seq = NextSeq
    BY <1>1, <1>3, RequestFacts DEF NewGrant, Grant, RequestRecord, GrantIds
  <2>2. grants' = grants \cup {g} /\ revocations' = revocations
    BY <1>5 DEF CommitPolicyAccepted
  <2>3. bootstrapped' \in BOOLEAN /\ UNCHANGED <<trusted, states, disk, signed, approvals>>
    BY DEF CommitPolicyAccepted, IInv, TypeOK
  <2> HIDE DEF g
  <2> QED BY <1>3, <2>1, <2>2, <2>3 DEF IInv, TypeOK, RowsPrecede, Grant, Approval, states
<1> QED BY <1>4, <1>5

\* The event of a replay or of an unverified attempt keeps it.
LEMMA RecordAttemptInv ==
  ASSUME IInv, NEW m \in Workers, RecordAttempt(m)
  PROVE  IInv'
<1> DEFINE j == job[m]
<1>1. j \in Job /\ JobShape(j)
  BY DEF IInv, TypeOK, JobShapes
<1>2. PICK e \in Event : log' = Append(log, e)
  <2>1. CASE j.phase = "replayed"
    <3> DEFINE e == [ kind |-> Request[j.op].kind, op |-> j.op, packet |-> j.packet,
                      prior |-> j.prior, requested |-> j.requested,
                      outcome |-> "rejected", authentication |-> "replay_rejected",
                      decision |-> NotEvaluated("REPLAY_REJECTED"), bytes |-> None ]
    <3>1. Request[j.op].kind \in Operation
      BY <1>1, <2>1, RequestFacts DEF JobShape, RequestRecord
    <3>2. NotEvaluated("REPLAY_REJECTED") \in DecisionRecord
      BY DEF NotEvaluated, DecisionRecord, Reason, PassReason
    <3>3. e \in Event
      BY <1>1, <3>1, <3>2 DEF Event, Job
    <3>4. log' = Append(log, e)
      BY <2>1 DEF RecordAttempt, Record
    <3> QED BY <3>3, <3>4
  <2>2. CASE j.phase = "unverified"
    <3> DEFINE e == [ kind |-> "unverified", op |-> j.op, packet |-> j.packet,
                      prior |-> j.prior, requested |-> j.requested,
                      outcome |-> "rejected", authentication |-> "failed",
                      decision |-> NoDecision, bytes |-> None ]
    <3>1. NoDecision \in DecisionRecord
      BY DEF NoDecision, DecisionRecord, Reason
    <3>2. e \in Event
      BY <1>1, <3>1 DEF Event, Job
    <3>3. log' = Append(log, e)
      BY <2>2 DEF RecordAttempt, Record
    <3> QED BY <3>2, <3>3
  <2> QED BY <2>1, <2>2 DEF RecordAttempt
<1>3. job' = [job EXCEPT ![m] = Idle]
  BY DEF RecordAttempt
<1>4. /\ log' \in Seq(Event) /\ job' \in [Workers -> Job] /\ JobShapes'
      /\ \A n \in Nat : n <= PriorEvents + Len(log) => n <= PriorEvents + Len(log')
  BY <1>2, <1>3, AppendInv
<1> QED BY <1>4 DEF RecordAttempt, IInv, TypeOK, RowsPrecede, Grant, Approval,
                    states, policyVars

\* The local state machine keeps it (transition_packet, transition_candidate).
LEMMA TransitionInv ==
  ASSUME IInv, NEW m \in Workers,
         PacketTransition(m) \/ CandidateTransition(m) \/ RejectedTransition(m)
  PROVE  IInv'
<1> DEFINE j == job[m]
<1>1. /\ j \in Job /\ j.phase \in LocalPhase /\ j.packet \in Packets
      /\ j.prior \in WorkflowState /\ j.requested \in WorkflowState
  BY DEF IInv, TypeOK, JobShapes, JobShape, LocalPhase,
         PacketTransition, CandidateTransition, RejectedTransition
<1>2. PICK outcome \in {"accepted", "rejected"}, auth \in {"none", "failed"} :
        Transition(m, outcome, auth)
  BY DEF PacketTransition, CandidateTransition, RejectedTransition
<1> DEFINE e == [ kind |-> j.phase, op |-> j.op, packet |-> j.packet, prior |-> j.prior,
                  requested |-> j.requested, outcome |-> outcome,
                  authentication |-> auth, decision |-> NoDecision, bytes |-> None ]
<1>3. e \in Event
  <2>1. NoDecision \in DecisionRecord
    BY DEF NoDecision, DecisionRecord, Reason
  <2> QED BY <1>1, <2>1 DEF Event, Job, LocalPhase
<1>4. log' = Append(log, e) /\ job' = [job EXCEPT ![m] = Idle]
  BY <1>2 DEF Transition, Record
<1> HIDE DEF e
<1>5. /\ log' \in Seq(Event) /\ job' \in [Workers -> Job] /\ JobShapes'
      /\ \A n \in Nat : n <= PriorEvents + Len(log) => n <= PriorEvents + Len(log')
  BY <1>3, <1>4, AppendInv
<1>6. packetState' \in [Packets -> WorkflowState] /\ candidateState' \in [Packets -> WorkflowState]
  BY <1>1 DEF PacketTransition, CandidateTransition, RejectedTransition, Mirror,
              IInv, TypeOK, states
<1>7. UNCHANGED <<trusted, disk, signed, consumed, policyVars, approvals>>
  BY <1>2 DEF Transition
<1> QED BY <1>5, <1>6, <1>7 DEF IInv, TypeOK, RowsPrecede, Grant, Approval, policyVars

-----------------------------------------------------------------------------
\* The invariant holds in every reachable state.

\* The invariant holds of a freshly opened database.
LEMMA InitInv == Init => IInv
<1> SUFFICES ASSUME Init PROVE IInv
  OBVIOUS
<1>1. Start \in [Packets -> WorkflowState]
  BY PacketAssumption DEF WorkflowState
<1>2. /\ PriorGrants \subseteq Grant(GrantIds)
      /\ \A g \in PriorGrants : g.seq <= PriorEvents
  BY PriorAssumption DEF Grant, GrantIds
<1>3. log \in Seq(Event) /\ PriorEvents + Len(log) = PriorEvents
  BY PriorAssumption DEF Init
<1>4. TypeOK
  BY <1>1, <1>2, <1>3, IdleShape, TrustedAssumption, RequestAssumption, BytesAssumption
     DEF Init, TypeOK
<1>5. JobShapes
  BY IdleShape DEF Init, JobShapes
<1>6. RowsPrecede
  BY <1>2, <1>3 DEF Init, RowsPrecede
<1> QED BY <1>4, <1>5, <1>6 DEF IInv

\* Every step of every command keeps the invariant.
LEMMA NextInv == IInv /\ [Next]_vars => IInv'
<1> SUFFICES ASSUME IInv, [Next]_vars PROVE IInv'
  OBVIOUS
<1>1. CASE UNCHANGED vars
  BY <1>1 DEF vars, states, policyVars, IInv, TypeOK, JobShapes, RowsPrecede
<1>2. CASE Prepare
  BY <1>2, PrepareInv
<1>3. ASSUME NEW m \in Workers, Begin(m) PROVE IInv'
  BY <1>3, ReceiveInv, ReceiveUnverifiedInv, StartInv, StepAssumption DEF Begin
<1>4. ASSUME NEW m \in Workers, Continue(m) PROVE IInv'
  BY <1>4, ReadsInv, CommitAcceptedInv, RejectionInv, CommitPolicyAcceptedInv,
     RecordAttemptInv, IdleInv, TransitionInv DEF Continue
<1>5. ASSUME NEW m \in Workers, Crash(m) PROVE IInv'
  BY <1>5, IdleInv
<1> QED BY <1>1, <1>2, <1>3, <1>4, <1>5 DEF Next

\* The invariant holds in every reachable state: rows are typed, every worker
\* holds what its phase of the command read, and no row is ahead of the chain.
THEOREM Inductive == Spec => []IInv
BY InitInv, NextInv, PTL DEF Spec

\* Every variable keeps its declared type: no operation, in any order, writes
\* a row or an event whose fields are outside their domains.
THEOREM TypeCorrect == Spec => []TypeOK
<1>1. IInv => TypeOK
  BY DEF IInv
<1> QED BY <1>1, Inductive, PTL
=============================================================================
