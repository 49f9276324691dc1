----------------------- MODULE AuthoritySafetyProofs -----------------------
(***************************************************************************)
(* The safety properties of AuthoritySafety as theorems, each inductive    *)
(* relative to IInv.  Most steps matter to none of them: StepCases and     *)
(* EventCases sort the steps once by what they change.  Then follow the    *)
(* proof that the system implements AuthorityBoundary, one lemma for each  *)
(* kind of step that the boundary sees, which revocations can be refused   *)
(* for not binding their target, and what becomes of a verified operation. *)
(***************************************************************************)
EXTENDS AuthorityProofs, AuthorityAudit

-----------------------------------------------------------------------------
\* What a step can change.

\* No table but the registry and the signed operations.
Quiet == UNCHANGED <<states, consumed, policyVars, approvals, log>>

\* One rejected event and nothing it decides about.
Refuses(e) ==
  /\ log' = Append(log, e) /\ e.outcome = "rejected"
  /\ UNCHANGED <<states, policyVars, approvals>>

\* The steps that accept something.
Accepts(m) == \/ CommitAccepted(m) \/ CommitPolicyAccepted(m)
              \/ PacketTransition(m) \/ CandidateTransition(m)

\* Registering, signing and editing decide nothing, and forget no principal.
LEMMA PrepareQuiet ==
  ASSUME Prepare
  PROVE  Quiet /\ trusted \subseteq trusted'
BY DEF Prepare, BootstrapTrust, PreparePacketOperation, PreparePolicyOperation,
       EditArtifacts, Quiet

\* Nor does anything a worker does before its transaction, or instead of it.
LEMMA WorkQuiet ==
  ASSUME NEW m \in Workers,
         \/ Begin(m) \/ Crash(m) \/ ReadPacket(m) \/ ReadCandidate(m)
         \/ ReadArtifacts(m) \/ Rollback(m) \/ AbandonedTransition(m)
  PROVE  Quiet /\ trusted' = trusted
<1>1. ASSUME NEW j, Step(m, j) PROVE Quiet /\ trusted' = trusted
  BY <1>1 DEF Step, Quiet
<1> QED BY <1>1 DEF Begin, Receive, ReceiveUnverified, StartPacketTransition,
            StartCandidateTransition, ReadPacket, ReadCandidate, ReadArtifacts,
            Rollback, AbandonedTransition, Crash

\* A rejecting transaction appends one rejected event and nothing else.
LEMMA RejectionRefuses ==
  ASSUME IInv, NEW m \in Workers,
         \/ CommitDenied(m) \/ CommitRejection(m) \/ CommitPolicyDenied(m)
         \/ CommitPolicyRejection(m) \/ RecordAttempt(m) \/ RejectedTransition(m)
  PROVE  (\E e : Refuses(e)) /\ trusted' = trusted
BY DEF CommitDenied, CommitRejection, CommitPolicyDenied, CommitPolicyRejection,
       RecordAttempt, RejectedTransition, Transition, Adjudicate, Record, Refuses, states

\* Every step decides nothing, appends one rejected event, or is one of the
\* four transactions that accept; and the registry never shrinks.
LEMMA StepCases ==
  ASSUME IInv, [Next]_vars
  PROVE  /\ Quiet \/ (\E e : Refuses(e)) \/ (\E m \in Workers : Accepts(m))
         /\ trusted \subseteq trusted'
<1>1. CASE UNCHANGED vars
  BY <1>1 DEF vars, Quiet, states, policyVars
<1>2. CASE Prepare
  BY <1>2, PrepareQuiet
<1>3. ASSUME NEW m \in Workers, Begin(m) \/ Continue(m) \/ Crash(m)
      PROVE  /\ Quiet \/ (\E e : Refuses(e)) \/ Accepts(m)
             /\ trusted' = trusted
  <2>1. CASE Accepts(m)
    BY <2>1 DEF Accepts, CommitAccepted, CommitPolicyAccepted, PacketTransition,
                CandidateTransition, Transition
  <2>2. CASE ~ Accepts(m)
    BY <1>3, <2>2, WorkQuiet, RejectionRefuses DEF Continue, Accepts
  <2> QED BY <2>1, <2>2
<1> QED BY <1>1, <1>2, <1>3 DEF Next

\* Appending leaves the events that were there, and adds one at the end.
LEMMA AppendFacts ==
  ASSUME IInv, NEW e, log' = Append(log, e)
  PROVE  /\ Len(log) \in Nat /\ PriorEvents \in Nat
         /\ DOMAIN log = 1..Len(log) /\ DOMAIN log' = 1..(Len(log) + 1)
         /\ \A i \in DOMAIN log : log'[i] = log[i]
         /\ log'[Len(log) + 1] = e
         /\ NextSeq = SeqOf(Len(log) + 1)
<1>1. log \in Seq(Event) /\ PriorEvents \in Nat
  BY PriorAssumption DEF IInv, TypeOK
<1>2. Len(log) \in Nat /\ DOMAIN log = 1..Len(log)
  BY <1>1
<1>3. /\ DOMAIN log' = 1..(Len(log) + 1)
      /\ \A i \in DOMAIN log : log'[i] = log[i]
      /\ log'[Len(log) + 1] = e
  BY <1>1, <1>2
<1> QED BY <1>1, <1>2, <1>3 DEF NextSeq, SeqOf

\* What the policy transaction knows when it accepts.
LEMMA PolicyAcceptedFacts ==
  ASSUME IInv, NEW m \in Workers, CommitPolicyAccepted(m)
  PROVE  LET o == job[m].op
             r == Request[o]
         IN  /\ o \in Ops /\ ~ IsPacketOp(o)
             /\ r.kind \in {"bootstrap", "grant", "revoke"}
             /\ r.kind = "bootstrap" =>
                  /\ grants = {} /\ revocations = {} /\ ~ bootstrapped
                  /\ trusted = {r.principal} /\ r.capability = Manage
                  /\ PolicyDecision(o) = BootstrapAllowed
             /\ r.kind # "bootstrap" =>
                  /\ PolicyDecision(o) = AdminDecision(r)
                  /\ AdminDecision(r).status = "allowed"
             /\ r.kind = "grant" => KnownSubject(r)
             /\ r.kind = "revoke" =>
                  /\ \E g \in grants : g.id = r.target
                  /\ \A g \in grants : g.id = r.target => BindsTarget(r, g)
                  /\ ~ IsRevoked(revocations, r.target)
                  /\ r.capability = Manage => RemainingAdmin(r.target)
             /\ log' = Append(log, AdjudicatedEvent(job[m], None, "accepted",
                                                    PolicyDecision(o), None))
             /\ IF r.kind = "revoke"
                THEN /\ revocations' = revocations \cup
                          {[op |-> o, grant |-> r.target, seq |-> NextSeq]}
                     /\ grants' = grants
                ELSE /\ grants' = grants \cup {NewGrant(o)}
                     /\ revocations' = revocations
             /\ bootstrapped' = (bootstrapped \/ r.kind = "bootstrap")
<1> DEFINE o == job[m].op
           r == Request[o]
<1>1. o \in Ops /\ ~ IsPacketOp(o)
  BY DEF CommitPolicyAccepted, IInv, JobShapes, JobShape, PolicyPhase
<1>2. r.kind \in {"bootstrap", "grant", "revoke"}
  BY <1>1, RequestFacts DEF PolicyOperation
<1>3. PolicyDecision(o).status = "allowed"
  BY DEF CommitPolicyAccepted
<1>4. CASE r.kind = "bootstrap"
  <2>1. BootstrapDecision(r).status = "allowed"
    BY <1>3, <1>4 DEF PolicyDecision
  <2>2. /\ grants = {} /\ revocations = {} /\ ~ bootstrapped
        /\ trusted = {r.principal} /\ PolicyDecision(o) = BootstrapAllowed
    BY <1>4, <2>1 DEF BootstrapDecision, PolicyDecision, Denied
  <2>3. r.capability = Manage
    BY <1>1, <1>4, RequestAssumption DEF Manage
  <2> QED BY <1>1, <1>4, <2>2, <2>3 DEF CommitPolicyAccepted, Adjudicate, Record,
                                        AdjudicatedEvent
<1>5. CASE r.kind = "grant"
  <2>1. GrantDecision(r).status = "allowed" /\ PolicyDecision(o) = GrantDecision(r)
    BY <1>3, <1>5 DEF PolicyDecision
  <2>2. /\ AdminDecision(r).status = "allowed" /\ GrantDecision(r) = AdminDecision(r)
        /\ KnownSubject(r)
    BY <2>1 DEF GrantDecision, Denied
  <2> QED BY <1>1, <1>5, <2>1, <2>2 DEF CommitPolicyAccepted, Adjudicate, Record,
                                        AdjudicatedEvent
<1>6. CASE r.kind = "revoke"
  <2>1. RevokeDecision(r).status = "allowed" /\ PolicyDecision(o) = RevokeDecision(r)
    BY <1>3, <1>6 DEF PolicyDecision
  <2>2. AdminDecision(r).status = "allowed" /\ RevokeDecision(r) = AdminDecision(r)
    BY <2>1 DEF RevokeDecision, Denied
  <2>3. /\ \E g \in grants : g.id = r.target
        /\ \A g \in grants : g.id = r.target => BindsTarget(r, g)
        /\ ~ AlreadyRevoked(r)
        /\ r.capability = Manage => RemainingAdmin(r.target)
    BY <2>1 DEF RevokeDecision, Denied
  <2> QED BY <1>1, <1>6, <2>1, <2>2, <2>3 DEF CommitPolicyAccepted, Adjudicate, Record,
                                        AdjudicatedEvent, AlreadyRevoked
<1> QED BY <1>2, <1>4, <1>5, <1>6

-----------------------------------------------------------------------------
(***************************************************************************)
(* Once bootstrapped, the policy always has an unrevoked administrator,    *)
(* for any number of administrators revoking each other in any order.      *)
(***************************************************************************)
THEOREM AdminNeverLost == Spec => []AdminRemains
<1>1. Init => AdminRemains
  BY PriorAssumption DEF Init, AdminRemains, IsRevoked, Manage
<1>2. IInv /\ AdminRemains /\ [Next]_vars => AdminRemains'
  <2> SUFFICES ASSUME IInv, AdminRemains, [Next]_vars PROVE AdminRemains'
    OBVIOUS
  <2>1. CASE UNCHANGED policyVars
    BY <2>1 DEF policyVars, AdminRemains, IsRevoked
  <2>2. ASSUME NEW m \in Workers, CommitPolicyAccepted(m) PROVE AdminRemains'
    <3> DEFINE o == job[m].op
               r == Request[o]
    <3>1. CASE r.kind = "bootstrap"
      <4>1. NewGrant(o) \in grants' /\ revocations' = {}
        BY <2>2, <3>1, PolicyAcceptedFacts
      <4>2. NewGrant(o).capability = Manage
        BY <2>2, <3>1, PolicyAcceptedFacts DEF NewGrant
      <4> QED BY <4>1, <4>2 DEF AdminRemains, IsRevoked
    <3>2. CASE r.kind = "grant"
      <4>1. grants \subseteq grants' /\ revocations' = revocations /\ bootstrapped' = bootstrapped
        BY <2>2, <3>2, PolicyAcceptedFacts DEF IInv, TypeOK
      <4> QED BY <4>1 DEF AdminRemains, IsRevoked
    <3>3. CASE r.kind = "revoke"
      <4> DEFINE v == [op |-> o, grant |-> r.target, seq |-> NextSeq]
      <4>1. /\ grants' = grants /\ bootstrapped' = bootstrapped
            /\ revocations' = revocations \cup {v} /\ v.grant = r.target
        BY <2>2, <3>3, PolicyAcceptedFacts DEF IInv, TypeOK
      <4> HIDE DEF v
      <4>2. \A g \in grants : g.id # r.target /\ ~ IsRevoked(revocations, g.id)
                                => ~ IsRevoked(revocations', g.id)
        BY <4>1 DEF IsRevoked
      <4>3. CASE r.capability = Manage
        BY <2>2, <3>3, <4>1, <4>2, <4>3, PolicyAcceptedFacts DEF RemainingAdmin, AdminRemains
      <4>4. CASE r.capability # Manage
        <5>1. \A g \in grants : g.capability = Manage => g.id # r.target
          BY <2>2, <3>3, <4>4, PolicyAcceptedFacts DEF BindsTarget
        <5> QED BY <4>1, <4>2, <5>1 DEF AdminRemains
      <4> QED BY <4>3, <4>4
    <3> QED BY <2>2, <3>1, <3>2, <3>3, PolicyAcceptedFacts
  <2>3. (\A m \in Workers : ~ CommitPolicyAccepted(m)) => UNCHANGED policyVars
    BY StepCases DEF Quiet, Refuses, Accepts, CommitAccepted, PacketTransition,
                     CandidateTransition, Transition
  <2> QED BY <2>1, <2>2, <2>3
<1> QED BY <1>1, <1>2, Inductive, PTL DEF Spec

(***************************************************************************)
(* A grant is revoked at most once, and after it was issued.               *)
(***************************************************************************)
THEOREM RevocationIsFinal == Spec => []RevokedOnce
<1>1. Init => RevokedOnce
  BY DEF Init, RevokedOnce
<1>2. IInv /\ RevokedOnce /\ [Next]_vars => RevokedOnce'
  <2> SUFFICES ASSUME IInv, RevokedOnce, [Next]_vars PROVE RevokedOnce'
    OBVIOUS
  <2>1. CASE UNCHANGED policyVars
    BY <2>1 DEF policyVars, RevokedOnce
  <2>2. ASSUME NEW m \in Workers, CommitPolicyAccepted(m) PROVE RevokedOnce'
    <3> DEFINE o == job[m].op
               r == Request[o]
    <3>1. CASE r.kind # "revoke"
      <4>1. grants \subseteq grants' /\ revocations' = revocations
        BY <2>2, <3>1, PolicyAcceptedFacts
      <4> QED BY <4>1 DEF RevokedOnce
    <3>2. CASE r.kind = "revoke"
      <4> DEFINE v == [op |-> o, grant |-> r.target, seq |-> NextSeq]
      <4>1. /\ grants' = grants /\ revocations' = revocations \cup {v}
            /\ v.grant = r.target /\ v.seq = NextSeq
        BY <2>2, <3>2, PolicyAcceptedFacts
      <4>2. \A s \in revocations : s.grant # r.target
        BY <2>2, <3>2, PolicyAcceptedFacts DEF IsRevoked
      <4>3. PICK g \in grants : g.id = r.target
        BY <2>2, <3>2, PolicyAcceptedFacts
      <4>4. g.seq < NextSeq
        BY PriorAssumption DEF IInv, TypeOK, RowsPrecede, NextSeq, Grant
      <4> HIDE DEF v
      <4> QED BY <4>1, <4>2, <4>3, <4>4 DEF RevokedOnce
    <3> QED BY <3>1, <3>2
  <2>3. (\A m \in Workers : ~ CommitPolicyAccepted(m)) => UNCHANGED policyVars
    BY StepCases DEF Quiet, Refuses, Accepts, CommitAccepted, PacketTransition,
                     CandidateTransition, Transition
  <2> QED BY <2>1, <2>2, <2>3
<1> QED BY <1>1, <1>2, Inductive, PTL DEF Spec

-----------------------------------------------------------------------------
\* Nothing is accepted by authority before the policy has a grant.
NothingBefore ==
  grants = {} => /\ PriorGrants = {}
                 /\ \A i \in DOMAIN log : Accepted(i) => log[i].op = None

Explained(i) == (\E g \in grants : Cites(i, g)) \/ Bootstraps(i)

\* A grant that covered an event covers it for good: later revocations do not
\* reach back.
LEMMA CitesStay ==
  ASSUME IInv, NEW e, log' = Append(log, e),
         \A r \in revocations' : r \in revocations \/ r.seq = NextSeq,
         NEW i \in DOMAIN log, NEW g \in grants, Cites(i, g)
  PROVE  Cites(i, g)'
<1>1. /\ i \in 1..Len(log) /\ Len(log) \in Nat /\ PriorEvents \in Nat
      /\ log'[i] = log[i] /\ NextSeq = SeqOf(Len(log) + 1)
  BY AppendFacts
<1>2. NextSeq >= SeqOf(i)
  BY <1>1 DEF SeqOf
<1> QED BY <1>1, <1>2 DEF Cites

\* An accepted event stays explained.
LEMMA StaysExplained ==
  ASSUME IInv, NEW e, log' = Append(log, e), grants \subseteq grants',
         \A r \in revocations' : r \in revocations \/ r.seq = NextSeq,
         NEW i \in DOMAIN log, Explained(i)
  PROVE  Explained(i)'
<1>1. /\ log'[i] = log[i]
      /\ \A k \in DOMAIN log' : k < i => k \in DOMAIN log /\ log'[k] = log[k]
  BY AppendFacts
<1>2. Bootstraps(i) => Bootstraps(i)'
  BY <1>1 DEF Bootstraps, Accepted
<1> QED BY <1>2, CitesStay DEF Explained

\* A packet operation that is allowed, whatever its outcome, is allowed by a
\* grant that covers it.
LEMMA AllowedCites ==
  ASSUME IInv, NEW m \in Workers, NEW prior, NEW outcome, NEW bytes,
         job[m].phase \in BoundPhase,
         PacketDecision(job[m], prior).status = "allowed",
         Adjudicate(m, prior, outcome, PacketDecision(job[m], prior), bytes),
         UNCHANGED policyVars, NEW n, n = Len(log) + 1
  PROVE  \E g \in grants' : Cites(n, g)'
<1> DEFINE j == job[m]
           p == j.packet
           o == j.op
           r == Request[o]
           d == PacketDecision(j, prior)
           e == AdjudicatedEvent(j, prior, outcome, d, bytes)
           E == Evaluate(grants, revocations, bootstrapped, r.principal, r.capability,
                         prior, j.requested, PacketScope[p])
<1>1. /\ o \in Ops /\ IsPacketOp(o) /\ p = r.packet
      /\ r.capability = Semantics[r.kind].capability
      /\ r.capability \in PacketCapability
  BY RequestFacts, SemanticsFacts
     DEF IInv, JobShapes, JobShape, PacketPhase, BoundPhase
<1>2. log' = Append(log, e) /\ grants' = grants /\ revocations' = revocations
  BY DEF Adjudicate, Record, AdjudicatedEvent, policyVars
<1>3. grants \subseteq Grant(GrantIds) /\ bootstrapped \in BOOLEAN
  BY DEF IInv, TypeOK
<1>4. PacketScope[p] = r.scope /\ d = E
  <2> DEFINE D == EvaluateRequest(grants, revocations, bootstrapped, r.principal,
                                  r.capability, prior, j.requested, PacketScope[p], r.scope)
  <2>1. d = D /\ D.status = "allowed"
    BY <1>1 DEF PacketDecision
  <2>2. PacketScope[p] = r.scope /\ D = E
    BY <1>3, <2>1, AllowedRequestCovers
  <2> QED BY <2>1, <2>2
<1>5. PICK g \in grants :
        /\ g.id = d.grant /\ g.subject = r.principal /\ g.capability = r.capability
        /\ CapabilityStateScope(g.capability, None) = <<prior, j.requested>>
        /\ g.version = Version /\ g.scope = PacketScope[p]
        /\ ~ IsRevoked(revocations, g.id)
  <2>1. \E g \in grants :
          /\ g.id = E.grant /\ g.subject = r.principal /\ g.capability = r.capability
          /\ CapabilityStateScope(g.capability, None) = <<prior, j.requested>>
          /\ r.capability \in PacketCapability =>
               g.version = Version /\ g.scope = PacketScope[p]
          /\ ~ IsRevoked(revocations, g.id)
    BY <1>3, <1>4, AllowedCovers, SMTT(20)
  <2> HIDE DEF d, E
  <2> QED BY <1>1, <1>4, <2>1
<1>6. /\ log'[n] = e /\ e.op = o /\ e.packet = p /\ e.prior = prior
      /\ e.requested = j.requested /\ e.decision = d /\ e.kind = r.kind
  BY <1>2, AppendFacts DEF AdjudicatedEvent
<1> HIDE DEF d, e
<1>7. g.seq < SeqOf(n)
  BY PriorAssumption DEF IInv, TypeOK, RowsPrecede, SeqOf, Grant
<1>8. \A v \in revocations' : v.grant = g.id => v.seq >= SeqOf(n)
  BY <1>2, <1>5 DEF IsRevoked
<1>9. Cites(n, g)'
  BY <1>1, <1>4, <1>5, <1>6, <1>7, <1>8 DEF Cites, CapabilityFor
<1> QED BY <1>2, <1>9

\* So an accepted packet operation is explained by a grant.
LEMMA PacketAcceptedCites ==
  ASSUME IInv, NEW m \in Workers, CommitAccepted(m), NEW n, n = Len(log) + 1
  PROVE  /\ \E e : log' = Append(log, e) /\ e.kind = Request[e.op].kind
                   /\ e.op \in Ops /\ IsPacketOp(e.op)
         /\ grants # {} /\ grants' = grants /\ revocations' = revocations
         /\ \E g \in grants' : Cites(n, g)'
<1> DEFINE j == job[m]
           prior == packetState[j.packet]
           e == AdjudicatedEvent(j, prior, "accepted", PacketDecision(j, prior), j.bytes)
<1>1. j.op \in Ops /\ IsPacketOp(j.op) /\ j.phase \in BoundPhase
  BY DEF CommitAccepted, IInv, JobShapes, JobShape, PacketPhase, BoundPhase
<1>2. /\ PacketDecision(j, prior).status = "allowed"
      /\ Adjudicate(m, prior, "accepted", PacketDecision(j, prior), j.bytes)
      /\ UNCHANGED policyVars
  BY DEF CommitAccepted, MayCommit
<1>3. \E g \in grants' : Cites(n, g)'
  BY <1>1, <1>2, AllowedCites
<1>4. log' = Append(log, e) /\ e.op = j.op /\ e.kind = Request[j.op].kind
  BY <1>2 DEF Adjudicate, Record, AdjudicatedEvent
<1> HIDE DEF e
<1> QED BY <1>1, <1>2, <1>3, <1>4 DEF policyVars

\* A policy operation is accepted by an administrator grant, or is the first.
LEMMA PolicyAcceptedExplained ==
  ASSUME IInv, NothingBefore, NEW m \in Workers, CommitPolicyAccepted(m),
         NEW n, n = Len(log) + 1
  PROVE  Explained(n)'
<1> DEFINE o == job[m].op
           r == Request[o]
           d == PolicyDecision(o)
           e == AdjudicatedEvent(job[m], None, "accepted", d, None)
<1>1. /\ o \in Ops /\ ~ IsPacketOp(o) /\ log' = Append(log, e)
      /\ r.kind \in {"bootstrap", "grant", "revoke"}
  BY PolicyAcceptedFacts
<1>2. job[m].requested = None
  BY DEF CommitPolicyAccepted, IInv, JobShapes, JobShape, PolicyPhase
<1>3. /\ log'[n] = e /\ e.op = o /\ e.prior = None /\ e.requested = None
      /\ e.decision = d /\ e.kind = r.kind
  BY <1>1, <1>2, AppendFacts DEF AdjudicatedEvent
<1>4. CASE r.kind = "bootstrap"
  <2>1. grants = {}
    BY <1>4, PolicyAcceptedFacts
  <2>2. \A k \in DOMAIN log' : k < n => k \in DOMAIN log /\ log'[k] = log[k]
    BY <1>1, AppendFacts
  <2> QED BY <1>3, <1>4, <2>1, <2>2 DEF Explained, Bootstraps, NothingBefore, Accepted
<1>5. CASE r.kind # "bootstrap"
  <2>1. d = AdminDecision(r) /\ d.status = "allowed" /\ grants \subseteq grants'
    BY <1>5, PolicyAcceptedFacts
  <2>2. PICK g \in grants :
          /\ g.id = d.grant /\ g.subject = r.principal /\ g.capability = Manage
          /\ CapabilityStateScope(g.capability, None) = <<None, None>>
          /\ ~ IsRevoked(revocations, g.id)
    <3> DEFINE E == Evaluate(grants, revocations, bootstrapped, r.principal, Manage,
                             None, None, None)
    <3>1. E.status = "allowed" /\ d = E
      BY <2>1 DEF AdminDecision
    <3>2. grants \subseteq Grant(GrantIds) /\ bootstrapped \in BOOLEAN
      BY DEF IInv, TypeOK
    <3>3. \E g \in grants :
            /\ g.id = E.grant /\ g.subject = r.principal /\ g.capability = Manage
            /\ CapabilityStateScope(g.capability, None) = <<None, None>>
            /\ ~ IsRevoked(revocations, g.id)
      BY <3>1, <3>2, AllowedCovers
    <3> HIDE DEF d, E
    <3> QED BY <3>1, <3>3
  <2>3. g.seq < SeqOf(n) /\ NextSeq = SeqOf(n)
    BY <1>1, AppendFacts DEF IInv, TypeOK, RowsPrecede, SeqOf, Grant
  <2>4. \A v \in revocations' : v \in revocations \/ v.seq = NextSeq
    BY <1>1, PolicyAcceptedFacts
  <2>5. \A v \in revocations' : v.grant = g.id => v.seq >= SeqOf(n)
    <3>1. SeqOf(n) \in Nat
      BY <1>1, AppendFacts DEF SeqOf
    <3> QED BY <2>2, <2>3, <2>4, <3>1 DEF IsRevoked
  <2> HIDE DEF d, e
  <2>6. Cites(n, g)'
    BY <1>1, <1>3, <2>2, <2>3, <2>5 DEF Cites, CapabilityFor
  <2> QED BY <2>1, <2>6 DEF Explained
<1> QED BY <1>4, <1>5

\* A local transition appends an event without an operation, and leaves the
\* policy tables alone.
LEMMA LocalAppends ==
  ASSUME IInv, NEW m \in Workers, PacketTransition(m) \/ CandidateTransition(m)
  PROVE  /\ \E e : log' = Append(log, e) /\ e.op = None /\ e.kind \in LocalPhase
         /\ UNCHANGED <<consumed, policyVars, approvals, trusted>>
BY DEF PacketTransition, CandidateTransition, Transition, Record, IInv, JobShapes,
       JobShape, LocalPhase

\* One more event keeps every accepted event explained if it is itself
\* rejected, without an operation, or explained.
LEMMA AppendExplained ==
  ASSUME IInv, AcceptedIsAuthorized, NEW e, log' = Append(log, e),
         grants \subseteq grants',
         \A r \in revocations' : r \in revocations \/ r.seq = NextSeq,
         NEW n, n = Len(log) + 1,
         \/ e.outcome = "rejected" \/ e.op = None \/ Explained(n)'
  PROVE  AcceptedIsAuthorized'
<1>1. /\ DOMAIN log' = DOMAIN log \cup {n} /\ log'[n] = e
      /\ \A i \in DOMAIN log : log'[i] = log[i]
  BY AppendFacts
<1>2. ASSUME NEW i \in DOMAIN log, Accepted(i)', log'[i].op # None PROVE Explained(i)'
  <2>1. Accepted(i) /\ log[i].op # None
    BY <1>1, <1>2 DEF Accepted
  <2>2. Explained(i)
    BY <2>1 DEF AcceptedIsAuthorized, Explained
  <2> QED BY <2>2, StaysExplained
<1>3. ASSUME Accepted(n)', log'[n].op # None PROVE Explained(n)'
  BY <1>1, <1>3 DEF Accepted
<1>4. \A i \in DOMAIN log' : Accepted(i)' /\ log'[i].op # None => Explained(i)'
  BY <1>1, <1>2, <1>3
<1> QED BY <1>4 DEF AcceptedIsAuthorized, Explained

(***************************************************************************)
(* Every accepted authority event was authorized when it was accepted, by  *)
(* a grant to its principal, for its capability, state pair and scope,     *)
(* that was issued before and not revoked before: whatever was revoked     *)
(* between the check of the files and the commit, by however many workers. *)
(***************************************************************************)
THEOREM AcceptanceIsAuthorized == Spec => []AcceptedIsAuthorized
<1> DEFINE Auth == AcceptedIsAuthorized /\ NothingBefore
<1>1. Init => Auth
  BY DEF Init, AcceptedIsAuthorized, NothingBefore
<1>2. IInv /\ Auth /\ [Next]_vars => Auth'
  <2> SUFFICES ASSUME IInv, AcceptedIsAuthorized, NothingBefore, [Next]_vars
               PROVE  AcceptedIsAuthorized' /\ NothingBefore'
    OBVIOUS
  <2>1. CASE Quiet
    <3>1. UNCHANGED <<log, grants, revocations>>
      BY <2>1 DEF Quiet, policyVars
    <3> QED BY <3>1 DEF AcceptedIsAuthorized, NothingBefore, Accepted, Cites, Bootstraps
  <2>2. ASSUME NEW e, log' = Append(log, e), grants' = grants, revocations' = revocations,
               e.outcome = "rejected" \/ e.op = None
        PROVE  AcceptedIsAuthorized' /\ NothingBefore'
    <3>1. AcceptedIsAuthorized'
      BY <2>2, AppendExplained
    <3>2. /\ DOMAIN log' = DOMAIN log \cup {Len(log) + 1} /\ log'[Len(log) + 1] = e
          /\ \A i \in DOMAIN log : log'[i] = log[i]
      BY <2>2, AppendFacts
    <3>3. NothingBefore'
      BY <2>2, <3>2 DEF NothingBefore, Accepted
    <3> QED BY <3>1, <3>3
  <2>3. ASSUME NEW e, Refuses(e) PROVE AcceptedIsAuthorized' /\ NothingBefore'
    BY <2>2, <2>3 DEF Refuses, policyVars
  <2>4. ASSUME NEW m \in Workers, PacketTransition(m) \/ CandidateTransition(m)
        PROVE  AcceptedIsAuthorized' /\ NothingBefore'
    BY <2>2, <2>4, LocalAppends DEF policyVars
  <2>5. ASSUME NEW m \in Workers, CommitAccepted(m)
        PROVE  AcceptedIsAuthorized' /\ NothingBefore'
    <3>1. PICK n : n = Len(log) + 1
      OBVIOUS
    <3>2. /\ \E e : log' = Append(log, e)
          /\ grants # {} /\ grants' = grants /\ revocations' = revocations
          /\ Explained(n)'
      BY <2>5, <3>1, PacketAcceptedCites DEF Explained
    <3> QED BY <3>1, <3>2, AppendExplained DEF NothingBefore
  <2>6. ASSUME NEW m \in Workers, CommitPolicyAccepted(m)
        PROVE  AcceptedIsAuthorized' /\ NothingBefore'
    <3>1. PICK n : n = Len(log) + 1
      OBVIOUS
    <3>2. Explained(n)'
      BY <2>6, <3>1, PolicyAcceptedExplained
    <3>3. /\ \E e : log' = Append(log, e)
          /\ grants \subseteq grants' /\ grants' # {}
          /\ \A r \in revocations' : r \in revocations \/ r.seq = NextSeq
      BY <2>6, PolicyAcceptedFacts
    <3> QED BY <3>1, <3>2, <3>3, AppendExplained DEF NothingBefore
  <2> QED BY <2>1, <2>3, <2>4, <2>5, <2>6, StepCases DEF Accepts
<1> QED BY <1>1, <1>2, Inductive, PTL DEF Spec

-----------------------------------------------------------------------------
\* Only the two transitions that accept move a packet.
LEMMA MovesOnlyBy ==
  ASSUME IInv, [Next]_vars
  PROVE  \/ packetState' = packetState
         \/ \E m \in Workers : CommitAccepted(m) \/ PacketTransition(m)
BY StepCases DEF Quiet, Refuses, Accepts, states, CommitPolicyAccepted, CandidateTransition

\* What a packet transaction knows when it accepts.
LEMMA PacketAcceptedFacts ==
  ASSUME IInv, NEW m \in Workers, CommitAccepted(m)
  PROVE  LET o == job[m].op
             p == job[m].packet
             k == Request[o].kind
         IN  /\ o \in Ops /\ IsPacketOp(o) /\ k \in PacketOperation
             /\ p \in Packets /\ p = Request[o].packet
             /\ job[m].requested = Semantics[k].requested
             /\ packetState[p] = Semantics[k].prior /\ Paired(p)
             /\ o \notin ConsumedOps /\ o \in ConsumedOps'
             /\ packetState' = [packetState EXCEPT ![p] = job[m].requested]
             /\ candidateState' = [candidateState EXCEPT ![p] = job[m].requested]
<1> DEFINE o == job[m].op
           p == job[m].packet
<1>1. /\ o \in Ops /\ IsPacketOp(o) /\ p = Request[o].packet
      /\ job[m].requested = Semantics[Request[o].kind].requested
  BY DEF CommitAccepted, IInv, JobShapes, JobShape, PacketPhase
<1>2. Request[o].kind \in PacketOperation /\ p \in Packets
  BY <1>1, RequestFacts
<1>3. packetState[p] = Semantics[Request[o].kind].prior /\ Paired(p)
  BY DEF CommitAccepted, MayCommit
<1>4. o \notin ConsumedOps
  BY DEF CommitAccepted, Adjudicate
<1>5. o \in ConsumedOps'
  <2> DEFINE c == [op |-> o, seq |-> NextSeq, outcome |-> "accepted"]
  <2>1. c \in consumed' /\ c.op = o
    BY DEF CommitAccepted, Adjudicate
  <2> HIDE DEF c
  <2> QED BY <2>1 DEF ConsumedOps
<1> QED BY <1>1, <1>2, <1>3, <1>4, <1>5 DEF CommitAccepted, Mirror

\* What a local packet transition knows when it accepts.
LEMMA PacketTransitionFacts ==
  ASSUME IInv, NEW m \in Workers, PacketTransition(m)
  PROVE  LET p == job[m].packet
         IN  /\ p \in Packets /\ Paired(p)
             /\ ValidTransition(packetState[p], job[m].requested)
             /\ <<packetState[p], job[m].requested>> \notin AuthoritySensitive
             /\ packetState' = [packetState EXCEPT ![p] = job[m].requested]
             /\ candidateState' = [candidateState EXCEPT ![p] = job[m].requested]
BY DEF PacketTransition, NeedsMediation, StateHeld, Paired, Mirror,
       IInv, JobShapes, JobShape, LocalPhase

(***************************************************************************)
(* A packet crosses an authority-sensitive pair only by consuming an       *)
(* operation that was signed for it and for that pair.                     *)
(***************************************************************************)
THEOREM AuthorityIsSigned == Spec => OnlySignedCrossesAuthority
<1> DEFINE Signed ==
      \A p \in Packets :
        <<packetState[p], packetState'[p]>> \in AuthoritySensitive =>
          \E o \in Ops :
            /\ o \notin ConsumedOps /\ o \in ConsumedOps'
            /\ Request[o].packet = p
            /\ Semantics[Request[o].kind].prior = packetState[p]
            /\ Semantics[Request[o].kind].requested = packetState'[p]
<1>1. IInv /\ [Next]_vars => Signed
  <2> SUFFICES ASSUME IInv, [Next]_vars, NEW p \in Packets,
                      <<packetState[p], packetState'[p]>> \in AuthoritySensitive
               PROVE  \E o \in Ops :
                        /\ o \notin ConsumedOps /\ o \in ConsumedOps'
                        /\ Request[o].packet = p
                        /\ Semantics[Request[o].kind].prior = packetState[p]
                        /\ Semantics[Request[o].kind].requested = packetState'[p]
    OBVIOUS
  <2>1. packetState \in [Packets -> WorkflowState]
    BY DEF IInv, TypeOK
  <2>2. packetState'[p] # packetState[p]
    BY DEF AuthoritySensitive
  <2>3. ASSUME NEW m \in Workers, PacketTransition(m) PROVE FALSE
    <3>1. job[m].packet = p
      BY <2>1, <2>2, <2>3, PacketTransitionFacts
    <3> QED BY <2>1, <2>3, <3>1, PacketTransitionFacts
  <2>4. PICK m \in Workers : CommitAccepted(m)
    BY <2>2, <2>3, MovesOnlyBy
  <2>5. job[m].packet = p
    BY <2>1, <2>2, <2>4, PacketAcceptedFacts
  <2>6. packetState'[p] = job[m].requested
    BY <2>1, <2>4, <2>5, PacketAcceptedFacts
  <2>7. job[m].op \in Ops
    BY <2>4, PacketAcceptedFacts
  <2> WITNESS job[m].op \in Ops
  <2> QED BY <2>4, <2>5, <2>6, PacketAcceptedFacts
<1> QED BY <1>1, Inductive, PTL DEF Spec, OnlySignedCrossesAuthority

(***************************************************************************)
(* A packet in a terminal state never moves again: no signed operation and *)
(* no local transition accepts from there, whatever it read earlier.       *)
(***************************************************************************)
THEOREM TerminalStaysFinal == Spec => TerminalIsFinal
<1> DEFINE Final ==
      \A p \in Packets : packetState[p] \in Terminal => packetState'[p] = packetState[p]
<1>1. \A k \in PacketOperation : Semantics[k].prior \notin Terminal
  BY SemanticsFacts DEF Terminal, Transitions
<1>2. IInv /\ [Next]_vars => Final
  <2> SUFFICES ASSUME IInv, [Next]_vars, NEW p \in Packets, packetState[p] \in Terminal,
                      packetState'[p] # packetState[p]
               PROVE  FALSE
    OBVIOUS
  <2>1. packetState \in [Packets -> WorkflowState]
    BY DEF IInv, TypeOK
  <2>2. ASSUME NEW m \in Workers, PacketTransition(m) PROVE FALSE
    <3>1. job[m].packet = p
      BY <2>1, <2>2, PacketTransitionFacts
    <3> QED BY <2>2, <3>1, PacketTransitionFacts DEF ValidTransition, Terminal
  <2>3. ASSUME NEW m \in Workers, CommitAccepted(m) PROVE FALSE
    <3>1. job[m].packet = p
      BY <2>1, <2>3, PacketAcceptedFacts
    <3> QED BY <1>1, <2>3, <3>1, PacketAcceptedFacts
  <2> QED BY <2>2, <2>3, MovesOnlyBy
<1> QED BY <1>2, Inductive, PTL DEF Spec, TerminalIsFinal

-----------------------------------------------------------------------------
\* The event that consumes an operation, and the row it leaves.
Consumes(e) ==
  /\ log' = Append(log, e) /\ e.authentication = "verified"
  /\ e.op \notin ConsumedOps
  /\ consumed' = consumed \cup {[op |-> e.op, seq |-> NextSeq, outcome |-> e.outcome]}

\* Any other event.
Attests(e) ==
  /\ log' = Append(log, e) /\ e.authentication # "verified"
  /\ consumed' = consumed

\* A step leaves the chain and the consumed operations alone, or appends the
\* event that consumes an operation, or one that consumes none.
LEMMA EventCases ==
  ASSUME IInv, [Next]_vars
  PROVE  \/ UNCHANGED <<consumed, log>>
         \/ \E e : Consumes(e) \/ Attests(e)
<1>1. ASSUME NEW m \in Workers, NEW prior, NEW outcome, NEW decision, NEW bytes,
             Adjudicate(m, prior, outcome, decision, bytes)
      PROVE  \E e : Consumes(e)
  <2> DEFINE e == AdjudicatedEvent(job[m], prior, outcome, decision, bytes)
  <2>1. e.op = job[m].op /\ e.outcome = outcome /\ e.authentication = "verified"
    BY DEF AdjudicatedEvent
  <2>2. log' = Append(log, e)
    BY <1>1 DEF Adjudicate, Record, AdjudicatedEvent
  <2> HIDE DEF e
  <2> QED BY <1>1, <2>1, <2>2 DEF Consumes, Adjudicate
<1>2. ASSUME NEW m \in Workers, RecordAttempt(m) PROVE \E e : Attests(e)
  BY <1>2 DEF RecordAttempt, Record, Attests
<1>3. ASSUME NEW m \in Workers,
             PacketTransition(m) \/ CandidateTransition(m) \/ RejectedTransition(m)
      PROVE  \E e : Attests(e)
  BY <1>3 DEF PacketTransition, CandidateTransition, RejectedTransition, Transition,
              Record, Attests
<1>4. ASSUME NEW m \in Workers,
             \/ CommitAccepted(m) \/ CommitDenied(m) \/ CommitRejection(m)
             \/ CommitPolicyAccepted(m) \/ CommitPolicyDenied(m) \/ CommitPolicyRejection(m)
      PROVE  \E e : Consumes(e)
  BY <1>1, <1>4 DEF CommitAccepted, CommitDenied, CommitRejection,
     CommitPolicyAccepted, CommitPolicyDenied, CommitPolicyRejection
<1>5. CASE UNCHANGED vars
  BY <1>5 DEF vars
<1>6. CASE Prepare
  BY <1>6, PrepareQuiet DEF Quiet
<1>7. ASSUME NEW m \in Workers, Begin(m) \/ Continue(m) \/ Crash(m)
      PROVE  UNCHANGED <<consumed, log>> \/ \E e : Consumes(e) \/ Attests(e)
  BY <1>2, <1>3, <1>4, <1>7, WorkQuiet DEF Continue, Quiet
<1> QED BY <1>5, <1>6, <1>7 DEF Next

(***************************************************************************)
(* Consumed operations and verified events correspond one to one, for any  *)
(* number of workers holding copies of one operation.                      *)
(***************************************************************************)
THEOREM ConsumedExactlyOnce == Spec => []AdjudicatedOnce
<1>1. Init => AdjudicatedOnce
  BY DEF Init, AdjudicatedOnce
<1>2. IInv /\ AdjudicatedOnce /\ [Next]_vars => AdjudicatedOnce'
  <2> SUFFICES ASSUME IInv, AdjudicatedOnce, [Next]_vars PROVE AdjudicatedOnce'
    OBVIOUS
  <2>1. CASE UNCHANGED <<consumed, log>>
    BY <2>1 DEF AdjudicatedOnce, Verified
  <2>2. ASSUME NEW e, Attests(e) PROVE AdjudicatedOnce'
    <3>1. PICK n : n = Len(log) + 1
      OBVIOUS
    <3>2. /\ DOMAIN log' = DOMAIN log \cup {n} /\ log'[n] = e
          /\ \A i \in DOMAIN log : log'[i] = log[i]
      BY <2>2, <3>1, AppendFacts DEF Attests
    <3> QED BY <2>2, <3>2 DEF Attests, AdjudicatedOnce, Verified
  <2>3. ASSUME NEW e, Consumes(e) PROVE AdjudicatedOnce'
    <3>1. PICK n : n = Len(log) + 1
      OBVIOUS
    <3>2. /\ DOMAIN log' = DOMAIN log \cup {n} /\ log'[n] = e
          /\ \A i \in DOMAIN log : log'[i] = log[i]
          /\ NextSeq = SeqOf(n)
      BY <2>3, <3>1, AppendFacts DEF Consumes
    <3> DEFINE r == [op |-> e.op, seq |-> NextSeq, outcome |-> e.outcome]
    <3>3. /\ consumed' = consumed \cup {r}
          /\ r.op = e.op /\ r.seq = SeqOf(n) /\ r.outcome = e.outcome
      BY <2>3, <3>2 DEF Consumes
    <3>4. \A c \in consumed : c.op # r.op
      BY <2>3, <3>3 DEF Consumes, ConsumedOps
    <3> HIDE DEF r
    <3>5. \A c, d \in consumed' : c.op = d.op => c = d
      BY <3>3, <3>4 DEF AdjudicatedOnce
    <3>6. \A c \in consumed' : \E i \in DOMAIN log' :
            /\ c.seq = SeqOf(i) /\ Verified(i)'
            /\ log'[i].op = c.op /\ log'[i].outcome = c.outcome
      BY <2>3, <3>2, <3>3 DEF AdjudicatedOnce, Verified, Consumes
    <3>7. \A i \in DOMAIN log' : Verified(i)' =>
            \E c \in consumed' : c.op = log'[i].op /\ c.seq = SeqOf(i)
      BY <3>2, <3>3 DEF AdjudicatedOnce, Verified
    <3> QED BY <3>5, <3>6, <3>7 DEF AdjudicatedOnce, SeqOf
  <2> QED BY <2>1, <2>2, <2>3, EventCases
<1> QED BY <1>1, <1>2, Inductive, PTL DEF Spec

IsBootstrap(i) == Accepted(i) /\ log[i].kind = "bootstrap"

(***************************************************************************)
(* The registry and the policy are bootstrapped at most once, by the same  *)
(* principal, however many bootstrap operations race                       *)
(* (bootstrap_trusted_principal, _commit_capability_policy_operation).     *)
(***************************************************************************)
THEOREM BootstrapIsOnce == Spec => []BootstrapsOnce
<1> DEFINE Started == (\E i \in DOMAIN log : IsBootstrap(i)) => grants # {}
<1>1. Init => BootstrapsOnce /\ Started
  BY TrustedAssumption DEF Init, BootstrapsOnce, IsBootstrap
<1>2. IInv /\ BootstrapsOnce /\ Started /\ [Next]_vars => BootstrapsOnce' /\ Started'
  <2> SUFFICES ASSUME IInv, BootstrapsOnce, Started, [Next]_vars
               PROVE  BootstrapsOnce' /\ Started'
    OBVIOUS
  <2>1. /\ \A q, r \in trusted' : q = r
        /\ trusted \subseteq trusted'
        /\ trusted' # trusted => log' = log
    <3>1. CASE trusted' = trusted
      BY <3>1 DEF BootstrapsOnce
    <3>2. CASE trusted' # trusted
      <4>1. PICK q \in Principals : BootstrapTrust(q)
        <5>1. ASSUME NEW m \in Workers, Begin(m) \/ Continue(m) \/ Crash(m) PROVE FALSE
          BY <3>2, <5>1, WorkQuiet, RejectionRefuses, LocalAppends
             DEF Continue, CommitAccepted, CommitPolicyAccepted
        <5>2. Prepare
          BY <3>2, <5>1 DEF Next, vars
        <5> QED BY <3>2, <5>2 DEF Prepare, PreparePacketOperation, PreparePolicyOperation,
                                  EditArtifacts
      <4> QED BY <4>1 DEF BootstrapTrust, RegistryOpen
    <3> QED BY <3>1, <3>2
  <2>2. CASE log' = log /\ grants' = grants
    BY <2>1, <2>2 DEF BootstrapsOnce, IsBootstrap, Accepted
  <2>3. ASSUME NEW e, log' = Append(log, e), grants' = grants,
               e.outcome = "rejected" \/ e.kind # "bootstrap"
        PROVE  BootstrapsOnce' /\ Started'
    <3>1. \A i \in DOMAIN log' : IsBootstrap(i)' =>
            i \in DOMAIN log /\ IsBootstrap(i) /\ log'[i] = log[i]
      BY <2>3, AppendFacts DEF IsBootstrap, Accepted
    <3> QED BY <2>1, <2>3, <3>1 DEF BootstrapsOnce, IsBootstrap
  <2>4. ASSUME NEW m \in Workers, CommitPolicyAccepted(m)
        PROVE  BootstrapsOnce' /\ Started'
    <3> DEFINE o == job[m].op
               e == AdjudicatedEvent(job[m], None, "accepted", PolicyDecision(o), None)
    <3>1. log' = Append(log, e) /\ grants \subseteq grants' /\ grants' # {}
      BY <2>4, PolicyAcceptedFacts
    <3>2. e.kind = Request[o].kind /\ e.op = o
      BY DEF AdjudicatedEvent
    <3>3. PICK n : n = Len(log) + 1
      OBVIOUS
    <3>4. /\ DOMAIN log' = DOMAIN log \cup {n} /\ log'[n] = e
          /\ \A i \in DOMAIN log : log'[i] = log[i]
      BY <3>1, <3>3, AppendFacts
    <3>5. CASE Request[o].kind = "bootstrap"
      <4>1. grants = {} /\ trusted = {Request[o].principal}
        BY <2>4, <3>5, PolicyAcceptedFacts
      <4>2. \A i \in DOMAIN log : ~ IsBootstrap(i)
        BY <4>1
      <4> HIDE DEF e
      <4>3. \A i \in DOMAIN log' : IsBootstrap(i)' => i = n
        BY <3>4, <4>2 DEF IsBootstrap, Accepted
      <4> QED BY <2>1, <3>1, <3>2, <3>4, <4>1, <4>3 DEF BootstrapsOnce, IsBootstrap
    <3>6. CASE Request[o].kind # "bootstrap"
      <4> HIDE DEF e
      <4>1. \A i \in DOMAIN log' : IsBootstrap(i)' =>
              i \in DOMAIN log /\ IsBootstrap(i) /\ log'[i] = log[i]
        BY <3>2, <3>4, <3>6 DEF IsBootstrap, Accepted
      <4> QED BY <2>1, <3>1, <4>1 DEF BootstrapsOnce, IsBootstrap
    <3> QED BY <3>5, <3>6
  <2>5. ASSUME NEW m \in Workers, CommitAccepted(m)
        PROVE  BootstrapsOnce' /\ Started'
    <3>1. PICK e : log' = Append(log, e) /\ e.kind = Request[e.op].kind /\ IsPacketOp(e.op)
      BY <2>5, PacketAcceptedCites
    <3>2. e.kind # "bootstrap" /\ grants' = grants
      BY <2>5, <3>1 DEF IsPacketOp, PacketOperation, CommitAccepted, policyVars
    <3> QED BY <2>3, <3>1, <3>2
  <2>6. ASSUME NEW m \in Workers, PacketTransition(m) \/ CandidateTransition(m)
        PROVE  BootstrapsOnce' /\ Started'
    BY <2>3, <2>6, LocalAppends DEF LocalPhase, policyVars
  <2>7. ASSUME NEW e, Refuses(e) PROVE BootstrapsOnce' /\ Started'
    BY <2>3, <2>7 DEF Refuses, policyVars
  <2>8. CASE Quiet
    BY <2>2, <2>8 DEF Quiet, policyVars
  <2> QED BY <2>4, <2>5, <2>6, <2>7, <2>8, StepCases DEF Accepts
<1> QED BY <1>1, <1>2, Inductive, PTL DEF Spec

-----------------------------------------------------------------------------
\* No worker is about to move a candidate without its packet.
NoCandidateJob == \A m \in Workers : job[m].phase # "transition_candidate"

\* If nobody asks transition_candidate for anything, no worker is inside it.
LEMMA NoCandidateJobInv ==
  ASSUME IInv, CandidateSteps = {}, NoCandidateJob, [Next]_vars
  PROVE  NoCandidateJob'
<1>1. job \in [Workers -> Job] /\ Idle.phase = "idle"
  BY DEF IInv, TypeOK, Idle
<1>2. ASSUME NEW m \in Workers, NEW j, NEW ph, j.phase = ph, ph # "transition_candidate",
             Step(m, j)
      PROVE  NoCandidateJob'
  BY <1>1, <1>2 DEF NoCandidateJob, Step
<1>3. ASSUME NEW m \in Workers, Begin(m) PROVE NoCandidateJob'
  <2>1. ASSUME NEW e \in signed, NEW agrees \in BOOLEAN, Receive(m, e, agrees)
        PROVE  NoCandidateJob'
    <3> DEFINE r == Request[e.op]
               packet == IsPacketOp(e.op)
               replay == e.op \in ConsumedOps
               ph == CASE replay /\ packet -> "replayed_packet"
                       [] replay /\ ~ packet -> "replayed"
                       [] ~ replay /\ packet -> "packet"
                       [] OTHER -> IF agrees THEN "policy" ELSE "policy_reject"
               j == [ Idle EXCEPT !.phase = ph,
                        !.op = e.op, !.bytes = e.bytes, !.approval = e.approval,
                        !.packet = IF packet THEN r.packet ELSE None,
                        !.requested = IF packet THEN Semantics[r.kind].requested ELSE None,
                        !.agrees = agrees ]
    <3>1. Step(m, j)
      BY <2>1 DEF Receive
    <3>2. ph # "transition_candidate"
      OBVIOUS
    <3> HIDE DEF ph
    <3>3. j.phase = ph
      BY DEF Idle
    <3> HIDE DEF j
    <3> QED BY <1>2, <3>1, <3>2, <3>3
  <2>2. ASSUME NEW u \in Unverified, ReceiveUnverified(m, u) PROVE NoCandidateJob'
    <3> DEFINE ph == IF u[1] = None THEN "unverified" ELSE "unverified_packet"
               j  == [Idle EXCEPT !.phase = ph, !.packet = u[1], !.requested = u[2]]
    <3>1. Step(m, j) /\ j.phase = ph /\ ph # "transition_candidate"
      BY <2>2 DEF ReceiveUnverified, Idle
    <3> HIDE DEF ph, j
    <3> QED BY <1>2, <3>1
  <2>3. ASSUME NEW p \in Packets, NEW s \in PacketSteps, StartPacketTransition(m, p, s)
        PROVE  NoCandidateJob'
    <3> DEFINE j == [ Idle EXCEPT !.phase = "transition_packet", !.packet = p,
                        !.prior = packetState[p], !.requested = s ]
    <3>1. Step(m, j) /\ j.phase = "transition_packet"
      BY <2>3 DEF StartPacketTransition, Idle
    <3> HIDE DEF j
    <3> QED BY <1>2, <3>1
  <2> QED BY <1>3, <2>1, <2>2, <2>3 DEF Begin
<1>4. ASSUME NEW m \in Workers, ReadPacket(m) \/ ReadCandidate(m) \/ ReadArtifacts(m)
      PROVE  NoCandidateJob'
  <2>1. job[m] \in Job
    BY <1>1
  <2>2. CASE ReadPacket(m)
    <3> DEFINE j  == job[m]
               ph == CASE j.phase = "packet" -> IF j.agrees THEN "candidate" ELSE "reject"
                       [] j.phase = "replayed_packet" -> "replayed"
                       [] j.phase = "unverified_packet" -> "unverified"
               k  == [j EXCEPT !.prior = packetState[j.packet], !.phase = ph]
    <3>1. Step(m, k) /\ ph # "transition_candidate"
      BY <2>2 DEF ReadPacket
    <3> HIDE DEF ph
    <3>2. k.phase = ph
      BY <2>1 DEF Job
    <3> HIDE DEF k
    <3> QED BY <1>2, <3>1, <3>2
  <2>3. CASE ReadCandidate(m)
    <3> DEFINE ph == IF StateBinds(job[m]) THEN "artifacts" ELSE "reject"
               k  == [job[m] EXCEPT !.phase = ph]
    <3>1. Step(m, k) /\ ph # "transition_candidate" /\ k.phase = ph
      BY <2>1, <2>3 DEF ReadCandidate, Job
    <3> HIDE DEF ph, k
    <3> QED BY <1>2, <3>1
  <2>4. CASE ReadArtifacts(m)
    <3> DEFINE b  == ArtifactsBind(job[m]) /\ (IsRelease(job[m]) => ReleaseBinds(job[m]))
               ph == IF b THEN "commit" ELSE "reject"
               k  == [job[m] EXCEPT !.phase = ph, !.bytes = disk[job[m].packet]]
    <3>1. Step(m, k) /\ ph # "transition_candidate"
      BY <2>4 DEF ReadArtifacts
    <3> HIDE DEF ph
    <3>2. k.phase = ph
      BY <2>1 DEF Job
    <3> HIDE DEF k
    <3> QED BY <1>2, <3>1, <3>2
  <2> QED BY <1>4, <2>2, <2>3, <2>4
<1>5. ASSUME NEW m \in Workers, job' = [job EXCEPT ![m] = Idle] PROVE NoCandidateJob'
  BY <1>1, <1>5 DEF NoCandidateJob
<1>6. ASSUME NEW m \in Workers, Continue(m) \/ Crash(m) PROVE NoCandidateJob'
  BY <1>4, <1>5, <1>6 DEF Continue, Crash, CommitAccepted, CommitDenied, CommitRejection,
     CommitPolicyAccepted, CommitPolicyDenied, CommitPolicyRejection, Adjudicate,
     RecordAttempt, Rollback, AbandonedTransition, Step, PacketTransition,
     CandidateTransition, RejectedTransition, Transition
<1>7. CASE UNCHANGED job
  BY <1>7 DEF NoCandidateJob
<1>8. ASSUME Prepare PROVE UNCHANGED job
  BY <1>8 DEF Prepare, BootstrapTrust, PreparePacketOperation, PreparePolicyOperation,
              EditArtifacts
<1> QED BY <1>3, <1>6, <1>7, <1>8 DEF Next, vars

(***************************************************************************)
(* As long as nobody asks for a candidate transition, every packet mirrors *)
(* its candidate; transition_candidate is the one operation that can part  *)
(* them.                                                                   *)
(***************************************************************************)
THEOREM PairedUnlessCandidateMoves ==
  ASSUME CandidateSteps = {}
  PROVE  Spec => []PairedStates
<1> DEFINE I == PairedStates /\ NoCandidateJob
<1>1. Init => I
  BY DEF Init, PairedStates, Paired, NoCandidateJob, Idle
<1>2. IInv /\ I /\ [Next]_vars => I'
  <2> SUFFICES ASSUME IInv, PairedStates, NoCandidateJob, [Next]_vars
               PROVE  PairedStates' /\ NoCandidateJob'
    OBVIOUS
  <2>1. NoCandidateJob'
    BY NoCandidateJobInv
  <2>2. packetState \in [Packets -> WorkflowState] /\ candidateState \in [Packets -> WorkflowState]
    BY DEF IInv, TypeOK
  <2>3. CASE UNCHANGED states
    <3>1. packetState' = packetState /\ candidateState' = candidateState
      BY <2>3 DEF states
    <3> QED BY <2>1, <3>1 DEF PairedStates, Paired
  <2>4. ASSUME NEW m \in Workers, CommitAccepted(m) PROVE PairedStates'
    BY <2>2, <2>4, PacketAcceptedFacts DEF PairedStates, Paired
  <2>5. ASSUME NEW m \in Workers, PacketTransition(m) PROVE PairedStates'
    BY <2>2, <2>5, PacketTransitionFacts, ZenonT(40) DEF PairedStates, Paired
  <2>6. ASSUME NEW m \in Workers, CandidateTransition(m) PROVE FALSE
    BY <2>6 DEF CandidateTransition, NoCandidateJob
  <2>7. ASSUME NEW m \in Workers, CommitPolicyAccepted(m) PROVE UNCHANGED states
    BY <2>7 DEF CommitPolicyAccepted
  <2> QED BY <2>1, <2>3, <2>4, <2>5, <2>6, <2>7, StepCases DEF Quiet, Refuses, Accepts
<1> QED BY <1>1, <1>2, Inductive, PTL DEF Spec

-----------------------------------------------------------------------------
\* Decisions.

\* What an accepted decision adds to the approvals, and to the consumed rows.
LEMMA DecisionAdded ==
  ASSUME IInv, NEW m \in Workers, CommitAccepted(m), ~ IsRelease(job[m])
  PROVE  \E a :
           /\ approvals' = approvals \cup {a}
           /\ a.op = job[m].op /\ a.packet = job[m].packet
           /\ a.decision = job[m].requested /\ a.seq = NextSeq
           /\ \E c \in consumed' : c.op = a.op /\ c.seq = a.seq /\ c.outcome = "accepted"
<1> DEFINE j == job[m]
           a == [ op |-> j.op, packet |-> j.packet, decision |-> j.requested,
                  scope |-> Request[j.op].scope, seq |-> NextSeq ]
           c == [op |-> j.op, seq |-> NextSeq, outcome |-> "accepted"]
<1>1. approvals' = approvals \cup {a} /\ c \in consumed'
  BY DEF CommitAccepted, Adjudicate
<1>2. /\ a.op = j.op /\ a.packet = j.packet /\ a.decision = j.requested /\ a.seq = NextSeq
      /\ c.op = j.op /\ c.seq = NextSeq /\ c.outcome = "accepted"
  OBVIOUS
<1> HIDE DEF a, c
<1> QED BY <1>1, <1>2

\* Approvals change with a decision only, and consumed rows stay.
LEMMA RowsStay ==
  ASSUME IInv, [Next]_vars
  PROVE  /\ consumed \subseteq consumed'
         /\ \/ approvals' = approvals
            \/ \E m \in Workers : CommitAccepted(m) /\ ~ IsRelease(job[m])
<1>1. consumed \subseteq consumed'
  BY EventCases DEF Consumes, Attests
<1>2. ASSUME NEW m \in Workers, Accepts(m)
      PROVE  approvals' = approvals \/ (CommitAccepted(m) /\ ~ IsRelease(job[m]))
  BY <1>2 DEF Accepts, CommitAccepted, CommitPolicyAccepted, PacketTransition,
              CandidateTransition, Transition
<1> QED BY <1>1, <1>2, StepCases DEF Quiet, Refuses

\* A packet that may still be decided was not, and no packet is behind that.
Undecided(p) ==
  /\ packetState[p] \in { "PACKET_GENERATED", "AWAITING_APPROVAL", "APPROVED",
                          "REJECTED", "RELEASED", "FAILED" }
  /\ packetState[p] \in {"PACKET_GENERATED", "AWAITING_APPROVAL"} => Decisions(p) = {}

\* Where local transitions lead from there.
LEMMA LocalLeads ==
  ASSUME NEW s \in { "PACKET_GENERATED", "AWAITING_APPROVAL", "APPROVED", "REJECTED",
                     "RELEASED", "FAILED" },
         NEW t, ValidTransition(s, t), <<s, t>> \notin AuthoritySensitive
  PROVE  t = "FAILED" \/ (s = "PACKET_GENERATED" /\ t = "AWAITING_APPROVAL")
BY DEF ValidTransition, Transitions, AuthoritySensitive

(***************************************************************************)
(* A packet is decided at most once, stands where its decision put it, and *)
(* was decided by the operation that its approval row names, however many  *)
(* decisions were signed for it and raced (approval_factory).              *)
(***************************************************************************)
THEOREM DecisionIsOnce == Spec => []DecidedOnce
<1> DEFINE I == DecidedOnce /\ \A p \in Packets : Undecided(p)
<1>1. Init => I
  BY PacketAssumption DEF Init, DecidedOnce, Undecided, Decisions, ApprovedOf
<1>2. IInv /\ I /\ [Next]_vars => I'
  <2> SUFFICES ASSUME IInv, DecidedOnce, \A p \in Packets : Undecided(p), [Next]_vars,
                      NEW p \in Packets
               PROVE  /\ \A a, b \in Decisions(p)' : a = b
                      /\ packetState'[p] \in {"APPROVED", "RELEASED"} => ApprovedOf(p)' # {}
                      /\ packetState'[p] = "REJECTED" =>
                           \E a \in Decisions(p)' : a.decision = "REJECTED"
                      /\ \A a \in Decisions(p)' : \E c \in consumed' :
                           c.op = a.op /\ c.seq = a.seq /\ c.outcome = "accepted"
                      /\ Undecided(p)'
    BY DEF DecidedOnce
  <2>1. packetState \in [Packets -> WorkflowState] /\ Undecided(p)
    BY DEF IInv, TypeOK
  <2>2. consumed \subseteq consumed'
    BY RowsStay
  <2>3. CASE approvals' = approvals /\ packetState'[p] = packetState[p]
    BY <2>1, <2>2, <2>3 DEF DecidedOnce, Decisions, ApprovedOf, Undecided
  <2>4. ASSUME NEW m \in Workers, CommitAccepted(m), job[m].packet # p,
               ~ IsRelease(job[m])
        PROVE  Decisions(p)' = Decisions(p) /\ ApprovedOf(p)' = ApprovedOf(p)
    BY <2>4, DecisionAdded DEF Decisions, ApprovedOf
  <2>5. ASSUME NEW m \in Workers, CommitAccepted(m), job[m].packet = p, IsRelease(job[m])
        PROVE  /\ approvals' = approvals /\ packetState[p] = "APPROVED"
               /\ packetState'[p] = "RELEASED"
    <3>1. Semantics["release"].prior = "APPROVED" /\ Semantics["release"].requested = "RELEASED"
      BY DEF Semantics
    <3>2. Request[job[m].op].kind = "release" /\ approvals' = approvals
      BY <2>5 DEF CommitAccepted, IsRelease
    <3> QED BY <2>1, <2>5, <3>1, <3>2, PacketAcceptedFacts
  <2>6. ASSUME NEW m \in Workers, CommitAccepted(m), job[m].packet = p, ~ IsRelease(job[m])
        PROVE  /\ packetState[p] = "AWAITING_APPROVAL"
               /\ packetState'[p] = job[m].requested
               /\ packetState'[p] \in {"APPROVED", "REJECTED"}
    BY <2>1, <2>6, PacketAcceptedFacts, SemanticsFacts DEF IsRelease
  <2>7. ASSUME NEW m \in Workers, PacketTransition(m), packetState'[p] # packetState[p]
        PROVE  /\ approvals' = approvals
               /\ packetState'[p] = "FAILED"
                  \/ (packetState[p] = "PACKET_GENERATED" /\ packetState'[p] = "AWAITING_APPROVAL")
    <3>1. job[m].packet = p
      BY <2>1, <2>7, PacketTransitionFacts
    <3>2. /\ ValidTransition(packetState[p], packetState'[p])
          /\ <<packetState[p], packetState'[p]>> \notin AuthoritySensitive
      BY <2>1, <2>7, <3>1, PacketTransitionFacts
    <3>3. approvals' = approvals
      BY <2>7, LocalAppends
    <3> QED BY <2>1, <3>2, <3>3, LocalLeads DEF Undecided
  <2>8. ASSUME NEW m \in Workers, CommitAccepted(m), job[m].packet # p
        PROVE  packetState'[p] = packetState[p]
    BY <2>1, <2>8, PacketAcceptedFacts
  <2>9. CASE \E m \in Workers : CommitAccepted(m) /\ job[m].packet = p /\ ~ IsRelease(job[m])
    <3>1. PICK m \in Workers : CommitAccepted(m) /\ job[m].packet = p /\ ~ IsRelease(job[m])
      BY <2>9
    <3>2. PICK a :
            /\ approvals' = approvals \cup {a} /\ a.packet = p /\ a.decision = job[m].requested
            /\ \E c \in consumed' : c.op = a.op /\ c.seq = a.seq /\ c.outcome = "accepted"
      BY <3>1, DecisionAdded
    <3>3. Decisions(p) = {}
      BY <2>1, <2>6, <3>1 DEF Undecided
    <3>4. Decisions(p)' = {a}
      BY <3>2, <3>3 DEF Decisions
    <3>5. packetState'[p] = a.decision /\ a.decision \in {"APPROVED", "REJECTED"}
      BY <2>6, <3>1, <3>2
    <3>6. a.decision = "APPROVED" => a \in ApprovedOf(p)'
      BY <3>2 DEF ApprovedOf
    <3> QED BY <3>2, <3>4, <3>5, <3>6 DEF Undecided
  <2>10. CASE \E m \in Workers : CommitAccepted(m) /\ job[m].packet = p /\ IsRelease(job[m])
    <3>1. /\ approvals' = approvals /\ packetState[p] = "APPROVED"
          /\ packetState'[p] = "RELEASED"
      BY <2>5, <2>10
    <3> QED BY <2>1, <2>2, <3>1 DEF DecidedOnce, Decisions, ApprovedOf, Undecided
  <2>11. CASE \E m \in Workers : CommitAccepted(m) /\ job[m].packet # p
    <3>1. /\ Decisions(p)' = Decisions(p) /\ ApprovedOf(p)' = ApprovedOf(p)
          /\ packetState'[p] = packetState[p]
      <4>1. PICK m \in Workers : CommitAccepted(m) /\ job[m].packet # p
        BY <2>11
      <4>2. CASE IsRelease(job[m])
        BY <2>8, <4>1, <4>2 DEF CommitAccepted, Decisions, ApprovedOf
      <4>3. CASE ~ IsRelease(job[m])
        BY <2>4, <2>8, <4>1, <4>3
      <4> QED BY <4>2, <4>3
    <3> QED BY <2>1, <2>2, <3>1 DEF DecidedOnce, Undecided
  <2>12. CASE \E m \in Workers : PacketTransition(m) /\ packetState'[p] # packetState[p]
    <3>1. /\ approvals' = approvals
          /\ packetState'[p] = "FAILED"
             \/ (packetState[p] = "PACKET_GENERATED" /\ packetState'[p] = "AWAITING_APPROVAL")
      BY <2>7, <2>12
    <3>2. Decisions(p)' = Decisions(p) /\ ApprovedOf(p)' = ApprovedOf(p)
      BY <3>1 DEF Decisions, ApprovedOf
    <3> QED BY <2>1, <2>2, <3>1, <3>2 DEF DecidedOnce, Undecided
  <2> QED BY <2>3, <2>9, <2>10, <2>11, <2>12, MovesOnlyBy, RowsStay
<1> QED BY <1>1, <1>2, Inductive, PTL DEF Spec

-----------------------------------------------------------------------------
\* The path of a packet.

Earlier(p, i) == {k \in Moves(p) : k < i}
Newest(S)     == CHOOSE k \in S : \A h \in S : h <= k

\* What stands before a place is what the newest earlier move asked for.
LEMMA BeforeIsNewest ==
  ASSUME NEW p, NEW i
  PROVE  /\ StateBefore(p, i) = IF Earlier(p, i) = {} THEN Start[p]
                                ELSE log[Newest(Earlier(p, i))].requested
         /\ StateBefore(p, i)' = IF Earlier(p, i)' = {} THEN Start[p]
                                 ELSE log'[Newest(Earlier(p, i)')].requested
BY DEF StateBefore, Newest, Earlier

\* What stood before an event of the chain stands before it still.
LEMMA BeforeStays ==
  ASSUME IInv, NEW e, log' = Append(log, e), NEW p \in Packets,
         NEW i \in 1..(Len(log) + 1)
  PROVE  StateBefore(p, i)' = StateBefore(p, i)
<1>1. /\ Len(log) \in Nat /\ DOMAIN log = 1..Len(log) /\ DOMAIN log' = 1..(Len(log) + 1)
      /\ \A k \in DOMAIN log : log'[k] = log[k]
  BY AppendFacts
<1>2. Earlier(p, i)' = Earlier(p, i)
  BY <1>1 DEF Earlier, Moves, Accepted
<1>3. CASE Earlier(p, i) = {}
  BY <1>2, <1>3, BeforeIsNewest
<1>4. CASE Earlier(p, i) # {}
  <2>1. \E k \in Earlier(p, i) : \A h \in Earlier(p, i) : h <= k
    <3>1. Earlier(p, i) \subseteq Nat /\ \A k \in Earlier(p, i) : k <= Len(log)
      BY <1>1 DEF Earlier, Moves
    <3> QED BY <1>1, <1>4, <3>1, GreatestExists
  <2>2. Newest(Earlier(p, i)) \in Earlier(p, i)
    BY <2>1 DEF Newest
  <2>3. log'[Newest(Earlier(p, i))] = log[Newest(Earlier(p, i))]
    BY <1>1, <2>2 DEF Earlier, Moves
  <2> QED BY <1>2, <2>3, BeforeIsNewest
<1> QED BY <1>3, <1>4

\* The newest event decides what stands after it.
LEMMA BeforeNext ==
  ASSUME IInv, NEW e, log' = Append(log, e), NEW p \in Packets,
         NEW n, n = Len(log) + 1
  PROVE  /\ n \in Moves(p)' => StateBefore(p, n + 1)' = e.requested
         /\ n \notin Moves(p)' => StateBefore(p, n + 1)' = StateBefore(p, n)'
<1>1. /\ Len(log) \in Nat /\ DOMAIN log' = 1..n /\ log'[n] = e /\ n \in Nat
  BY AppendFacts
<1>2. CASE n \in Moves(p)'
  <2> DEFINE all == Earlier(p, n + 1)'
  <2>1. n \in all /\ \A h \in all : h \in Nat /\ h <= n
    BY <1>1, <1>2 DEF Earlier, Moves
  <2>2. StateBefore(p, n + 1)' = IF all = {} THEN Start[p] ELSE log'[Newest(all)].requested
    BY BeforeIsNewest
  <2> HIDE DEF all
  <2>3. Newest(all) = n
    <3>1. \A k \in all : (\A h \in all : h <= k) => k = n
      BY <1>1, <2>1
    <3> QED BY <2>1, <3>1 DEF Newest
  <2> QED BY <1>1, <1>2, <2>1, <2>2, <2>3
<1>3. CASE n \notin Moves(p)'
  <2>1. Earlier(p, n + 1)' = Earlier(p, n)'
    BY <1>1, <1>3 DEF Earlier, Moves
  <2>2. /\ StateBefore(p, n + 1)' = IF Earlier(p, n + 1)' = {} THEN Start[p]
                                    ELSE log'[Newest(Earlier(p, n + 1)')].requested
        /\ StateBefore(p, n)' = IF Earlier(p, n)' = {} THEN Start[p]
                                ELSE log'[Newest(Earlier(p, n)')].requested
    BY BeforeIsNewest
  <2> QED BY <1>3, <2>1, <2>2
<1> QED BY <1>2, <1>3

\* What an accepted move of a packet records.
LEMMA MoveRecorded ==
  ASSUME IInv, NEW m \in Workers, CommitAccepted(m) \/ PacketTransition(m)
  PROVE  \E e :
           LET p == job[m].packet
           IN  /\ log' = Append(log, e) /\ e.outcome = "accepted" /\ e.packet = p
               /\ e.kind # "transition_candidate" /\ p \in Packets
               /\ e.prior = packetState[p] /\ ValidTransition(e.prior, e.requested)
               /\ packetState' = [packetState EXCEPT ![p] = e.requested]
<1> DEFINE j == job[m]
           p == j.packet
<1>1. CASE CommitAccepted(m)
  <2> DEFINE e == AdjudicatedEvent(j, packetState[p], "accepted",
                                   PacketDecision(j, packetState[p]), j.bytes)
  <2>1. log' = Append(log, e)
    BY <1>1 DEF CommitAccepted, Adjudicate, Record, AdjudicatedEvent
  <2>2. /\ e.outcome = "accepted" /\ e.packet = p /\ e.prior = packetState[p]
        /\ e.requested = j.requested /\ e.kind = Request[j.op].kind
    BY DEF AdjudicatedEvent
  <2> HIDE DEF e
  <2>3. \A k \in PacketOperation :
          k # "transition_candidate" /\ ValidTransition(Semantics[k].prior, Semantics[k].requested)
    BY DEF PacketOperation, Semantics, ValidTransition, Transitions
  <2> QED BY <1>1, <2>1, <2>2, <2>3, PacketAcceptedFacts
<1>2. CASE PacketTransition(m)
  <2> DEFINE e == [ kind |-> j.phase, op |-> j.op, packet |-> p, prior |-> j.prior,
                    requested |-> j.requested, outcome |-> "accepted",
                    authentication |-> "none", decision |-> NoDecision, bytes |-> None ]
  <2>1. log' = Append(log, e)
    BY <1>2 DEF PacketTransition, Transition, Record
  <2>2. /\ e.outcome = "accepted" /\ e.packet = p /\ e.prior = j.prior
        /\ e.requested = j.requested /\ e.kind = j.phase
    OBVIOUS
  <2> HIDE DEF e
  <2>3. j.phase = "transition_packet" /\ j.prior = packetState[p]
    BY <1>2 DEF PacketTransition, StateHeld
  <2>4. /\ p \in Packets /\ ValidTransition(packetState[p], j.requested)
        /\ packetState' = [packetState EXCEPT ![p] = j.requested]
    BY <1>2, PacketTransitionFacts
  <2> QED BY <2>1, <2>2, <2>3, <2>4
<1> QED BY <1>1, <1>2

\* Every other event moves no packet.
Unmoving(e) ==
  /\ log' = Append(log, e)
  /\ e.outcome = "rejected" \/ e.kind = "transition_candidate" \/ e.packet = None

LEMMA MoveCases ==
  ASSUME IInv, [Next]_vars
  PROVE  \/ \E m \in Workers : CommitAccepted(m) \/ PacketTransition(m)
         \/ packetState' = packetState /\ (log' = log \/ \E e : Unmoving(e))
<1>1. ASSUME NEW m \in Workers, CommitPolicyAccepted(m) PROVE \E e : Unmoving(e)
  <2> DEFINE e == AdjudicatedEvent(job[m], None, "accepted", PolicyDecision(job[m].op), None)
  <2>1. log' = Append(log, e)
    BY <1>1, PolicyAcceptedFacts
  <2>2. e.packet = job[m].packet /\ job[m].packet = None
    BY <1>1 DEF AdjudicatedEvent, CommitPolicyAccepted, IInv, JobShapes, JobShape, PolicyPhase
  <2> HIDE DEF e
  <2> QED BY <2>1, <2>2 DEF Unmoving
<1>2. ASSUME NEW m \in Workers, CandidateTransition(m) PROVE \E e : Unmoving(e)
  BY <1>2 DEF CandidateTransition, Transition, Record, Unmoving
<1>3. ASSUME NEW m \in Workers, CommitPolicyAccepted(m) \/ CandidateTransition(m)
      PROVE  packetState' = packetState
  BY <1>3 DEF CommitPolicyAccepted, CandidateTransition, states
<1> QED BY <1>1, <1>2, <1>3, StepCases DEF Quiet, Refuses, Accepts, Unmoving, states

(***************************************************************************)
(* The accepted events of a packet are one path of valid transitions from  *)
(* where it started to where it is, although each of them read its prior   *)
(* state before its transaction (_commit_packet_transition).               *)
(***************************************************************************)
THEOREM ChainIsThePath == Spec => []ChainExplainsState
<1>1. Init => ChainExplainsState
  BY DEF Init, ChainExplainsState, Moves, StateBefore
<1>2. IInv /\ ChainExplainsState /\ [Next]_vars => ChainExplainsState'
  <2> SUFFICES ASSUME IInv, ChainExplainsState, [Next]_vars PROVE ChainExplainsState'
    OBVIOUS
  <2>1. CASE log' = log /\ packetState' = packetState
    <3>1. \A p : Moves(p)' = Moves(p)
      BY <2>1 DEF Moves, Accepted
    <3>2. ASSUME NEW p, NEW i PROVE StateBefore(p, i)' = StateBefore(p, i)
      <4>1. Earlier(p, i)' = Earlier(p, i)
        BY <3>1 DEF Earlier
      <4> QED BY <2>1, <4>1, BeforeIsNewest
    <3> QED BY <2>1, <3>1, <3>2 DEF ChainExplainsState
  <2>2. ASSUME NEW e, log' = Append(log, e),
               \A p \in Packets :
                 IF Len(log) + 1 \in Moves(p)'
                   THEN /\ e.prior = packetState[p] /\ ValidTransition(e.prior, e.requested)
                        /\ packetState'[p] = e.requested
                   ELSE packetState'[p] = packetState[p]
        PROVE  ChainExplainsState'
    <3>1. PICK n : n = Len(log) + 1
      OBVIOUS
    <3>2. /\ Len(log) \in Nat /\ DOMAIN log = 1..Len(log) /\ DOMAIN log' = 1..n
          /\ \A k \in DOMAIN log : log'[k] = log[k]
          /\ log'[n] = e /\ Len(log') = n
      BY <2>2, <3>1, AppendFacts DEF IInv, TypeOK
    <3> SUFFICES ASSUME NEW p \in Packets
                 PROVE  /\ \A i \in Moves(p)' :
                             /\ log'[i].prior = StateBefore(p, i)'
                             /\ ValidTransition(log'[i].prior, log'[i].requested)
                        /\ packetState'[p] = StateBefore(p, n + 1)'
      BY <3>2 DEF ChainExplainsState
    <3>3. packetState[p] = StateBefore(p, n)'
      BY <2>2, <3>1, <3>2, BeforeStays DEF ChainExplainsState
    <3>4. ASSUME NEW i \in Moves(p)'
          PROVE  /\ log'[i].prior = StateBefore(p, i)'
                 /\ ValidTransition(log'[i].prior, log'[i].requested)
      <4>1. CASE i = n
        BY <2>2, <3>1, <3>2, <3>3, <3>4, <4>1
      <4>2. CASE i # n
        <5>1. i \in DOMAIN log /\ i \in Moves(p) /\ i \in 1..(Len(log) + 1)
          BY <3>1, <3>2, <3>4, <4>2 DEF Moves, Accepted
        <5>2. StateBefore(p, i)' = StateBefore(p, i)
          BY <2>2, <5>1, BeforeStays
        <5> QED BY <3>2, <5>1, <5>2 DEF ChainExplainsState
      <4> QED BY <4>1, <4>2
    <3>5. packetState'[p] = StateBefore(p, n + 1)'
      BY <2>2, <3>1, <3>3, BeforeNext
    <3> QED BY <3>4, <3>5
  <2>3. ASSUME NEW e, Unmoving(e), packetState' = packetState PROVE ChainExplainsState'
    <3>1. \A p \in Packets : Len(log) + 1 \notin Moves(p)'
      BY <2>3, AppendFacts, NoneAssumption DEF Unmoving, Moves, Accepted
    <3> QED BY <2>2, <2>3, <3>1 DEF Unmoving
  <2>4. ASSUME NEW m \in Workers, CommitAccepted(m) \/ PacketTransition(m)
        PROVE  ChainExplainsState'
    <3>1. PICK e :
            /\ log' = Append(log, e) /\ e.outcome = "accepted" /\ e.packet = job[m].packet
            /\ e.kind # "transition_candidate" /\ job[m].packet \in Packets
            /\ e.prior = packetState[job[m].packet] /\ ValidTransition(e.prior, e.requested)
            /\ packetState' = [packetState EXCEPT ![job[m].packet] = e.requested]
      BY <2>4, MoveRecorded
    <3>2. \A p \in Packets : Len(log) + 1 \in Moves(p)' <=> p = job[m].packet
      BY <3>1, AppendFacts DEF Moves, Accepted
    <3>3. packetState \in [Packets -> WorkflowState]
      BY DEF IInv, TypeOK
    <3> QED BY <2>2, <3>1, <3>2, <3>3
  <2> QED BY <2>1, <2>3, <2>4, MoveCases
<1> QED BY <1>1, <1>2, Inductive, PTL DEF Spec

-----------------------------------------------------------------------------
\* What a release rests on.

\* A worker holds a verified operation as it was signed; the bytes it found on
\* disk replace the signed ones, and go on to the transaction if they are the same.
EnvelopeHeld ==
  \A m \in Workers : job[m].phase \in VerifiedPhase =>
    /\ \E e \in signed : /\ e.op = job[m].op /\ e.approval = job[m].approval
                         /\ job[m].phase # "reject" => e.bytes = job[m].bytes
    /\ job[m].phase = "commit" => job[m].bytes \in Intact

\* An approval names the accepted event that decided it.
Approves(k, op, packet) ==
  Accepted(k) /\ log[k].kind = "approve" /\ log[k].op = op /\ log[k].packet = packet

ApprovalsLogged ==
  \A a \in approvals : a.decision = "APPROVED" =>
    \E k \in DOMAIN log : a.seq = SeqOf(k) /\ Approves(k, a.op, a.packet)

\* The approval that a release signed saw the bytes that the release found.
Rests(j) ==
  /\ j.bytes \in Intact
  /\ \E k \in DOMAIN log : Approves(k, j.approval, j.packet) /\ log[k].bytes = j.bytes

ReleaseReady ==
  \A m \in Workers : job[m].phase = "commit" /\ IsRelease(job[m]) => Rests(job[m])

\* Only prepare_operation adds an envelope.
LEMMA SignedBy ==
  ASSUME [Next]_vars
  PROVE  signed' = signed \/ \E o \in Ops : PreparePacketOperation(o) \/ PreparePolicyOperation(o)
<1>1. CASE Prepare
  BY <1>1 DEF Prepare, BootstrapTrust, EditArtifacts
<1>2. ASSUME NEW m \in Workers, Begin(m) \/ Continue(m) \/ Crash(m) PROVE signed' = signed
  <2>1. ASSUME NEW j, Step(m, j) PROVE signed' = signed
    BY <2>1 DEF Step
  <2>2. CASE Begin(m) \/ Crash(m)
    BY <2>1, <2>2 DEF Begin, Receive, ReceiveUnverified, StartPacketTransition,
                      StartCandidateTransition, Crash
  <2>3. CASE Continue(m)
    BY <2>1, <2>3 DEF Continue, ReadPacket, ReadCandidate, ReadArtifacts, CommitAccepted,
       CommitDenied, CommitRejection, CommitPolicyAccepted, CommitPolicyDenied,
       CommitPolicyRejection, RecordAttempt, Rollback, PacketTransition,
       CandidateTransition, RejectedTransition, AbandonedTransition, Transition
  <2> QED BY <1>2, <2>2, <2>3
<1>3. CASE UNCHANGED vars
  BY <1>3 DEF vars
<1> QED BY <1>1, <1>2, <1>3 DEF Next

\* The chain only grows, and an envelope never disappears.
LEMMA HistoryStays ==
  ASSUME IInv, [Next]_vars
  PROVE  /\ \A k \in DOMAIN log : k \in DOMAIN log' /\ log'[k] = log[k]
         /\ signed \subseteq signed'
<1>1. \A k \in DOMAIN log : k \in DOMAIN log' /\ log'[k] = log[k]
  BY EventCases, AppendFacts DEF Consumes, Attests
<1>2. signed \subseteq signed'
  BY SignedBy DEF PreparePacketOperation, PreparePolicyOperation
<1> QED BY <1>1, <1>2

\* The steps that bind an operation to what a worker reads.
Binding(m) ==
  \/ \E e \in signed, agrees \in BOOLEAN : Receive(m, e, agrees)
  \/ ReadPacket(m) \/ ReadCandidate(m) \/ ReadArtifacts(m)

\* A worker keeps what it holds, binds more of it, or lets the operation go.
LEMMA JobCases ==
  ASSUME IInv, [Next]_vars, NEW m \in Workers
  PROVE  job'[m] = job[m] \/ job'[m].phase \notin VerifiedPhase \/ Binding(m)
<1>1. job \in [Workers -> Job]
  BY DEF IInv, TypeOK
<1>2. Idle.phase = "idle"
  BY DEF Idle
<1>3. CASE job' = job
  BY <1>3
<1>4. ASSUME NEW w \in Workers, NEW j, job' = [job EXCEPT ![w] = j],
             j.phase \notin VerifiedPhase \/ Binding(w)
      PROVE  job'[m] = job[m] \/ job'[m].phase \notin VerifiedPhase \/ Binding(m)
  BY <1>1, <1>4
<1> DEFINE Fits(w) == \E j : /\ job' = [job EXCEPT ![w] = j]
                             /\ j.phase \notin VerifiedPhase \/ Binding(w)
<1>5. ASSUME NEW w \in Workers, Begin(w) \/ Continue(w) \/ Crash(w) PROVE Fits(w)
  <2>1. ASSUME job' = [job EXCEPT ![w] = Idle] PROVE Fits(w)
    BY <1>2, <2>1 DEF VerifiedPhase
  <2>2. CASE Binding(w)
    BY <2>2 DEF Binding, Receive, ReadPacket, ReadCandidate, ReadArtifacts, Step
  <2>3. ASSUME NEW u, ReceiveUnverified(w, u) PROVE Fits(w)
    <3> DEFINE j == [ Idle EXCEPT !.phase = IF u[1] = None THEN "unverified"
                                            ELSE "unverified_packet",
                                  !.packet = u[1], !.requested = u[2] ]
    <3>1. job' = [job EXCEPT ![w] = j]
      BY <2>3 DEF ReceiveUnverified, Step
    <3>2. j.phase \in {"unverified", "unverified_packet"}
      BY DEF Idle
    <3> HIDE DEF j
    <3> QED BY <3>1, <3>2 DEF VerifiedPhase
  <2>4. ASSUME NEW p, NEW s, StartPacketTransition(w, p, s) PROVE Fits(w)
    <3> DEFINE j == [ Idle EXCEPT !.phase = "transition_packet", !.packet = p,
                                  !.prior = packetState[p], !.requested = s ]
    <3>1. job' = [job EXCEPT ![w] = j]
      BY <2>4 DEF StartPacketTransition, Step
    <3>2. j.phase = "transition_packet"
      BY DEF Idle
    <3> HIDE DEF j
    <3> QED BY <3>1, <3>2 DEF VerifiedPhase
  <2>5. ASSUME NEW p, NEW s, StartCandidateTransition(w, p, s) PROVE Fits(w)
    <3> DEFINE j == [ Idle EXCEPT !.phase = "transition_candidate", !.packet = p,
                                  !.prior = candidateState[p], !.requested = s ]
    <3>1. job' = [job EXCEPT ![w] = j]
      BY <2>5 DEF StartCandidateTransition, Step
    <3>2. j.phase = "transition_candidate"
      BY DEF Idle
    <3> HIDE DEF j
    <3> QED BY <3>1, <3>2 DEF VerifiedPhase
  <2>6. CASE Crash(w) \/ Rollback(w) \/ AbandonedTransition(w)
    BY <2>1, <2>6 DEF Crash, Rollback, AbandonedTransition, Step
  <2>7. CASE \/ CommitAccepted(w) \/ CommitDenied(w) \/ CommitRejection(w)
             \/ CommitPolicyAccepted(w) \/ CommitPolicyDenied(w) \/ CommitPolicyRejection(w)
             \/ RecordAttempt(w)
    BY <2>1, <2>7 DEF CommitAccepted, CommitDenied, CommitRejection, CommitPolicyAccepted,
       CommitPolicyDenied, CommitPolicyRejection, RecordAttempt, Adjudicate
  <2>8. CASE PacketTransition(w) \/ CandidateTransition(w) \/ RejectedTransition(w)
    BY <2>1, <2>8 DEF PacketTransition, CandidateTransition, RejectedTransition, Transition
  <2> QED BY <1>5, <2>2, <2>3, <2>4, <2>5, <2>6, <2>7, <2>8 DEF Begin, Continue, Binding
<1>6. CASE Prepare
  BY <1>6 DEF Prepare, BootstrapTrust, PreparePacketOperation, PreparePolicyOperation,
              EditArtifacts
<1>7. CASE UNCHANGED vars
  BY <1>7 DEF vars
<1> QED BY <1>3, <1>4, <1>5, <1>6, <1>7 DEF Next

\* The operation in a worker's hands is the one of an envelope.
LEMMA EnvelopeNext ==
  ASSUME IInv, EnvelopeHeld, [Next]_vars
  PROVE  EnvelopeHeld'
<1> DEFINE Holds(e, j) == /\ e.op = j.op /\ e.approval = j.approval
                          /\ j.phase # "reject" => e.bytes = j.bytes
<1> SUFFICES ASSUME NEW m \in Workers, job'[m].phase \in VerifiedPhase
             PROVE  /\ \E e \in signed' : Holds(e, job'[m])
                    /\ job'[m].phase = "commit" => job'[m].bytes \in Intact
  BY DEF EnvelopeHeld
<1>1. job \in [Workers -> Job] /\ signed \subseteq signed'
  BY HistoryStays DEF IInv, TypeOK
<1>2. CASE job'[m] = job[m]
  BY <1>1, <1>2 DEF EnvelopeHeld
<1>3. ASSUME NEW e \in signed, NEW agrees \in BOOLEAN, Receive(m, e, agrees)
      PROVE  Holds(e, job'[m]) /\ job'[m].phase # "commit"
  BY <1>1, <1>3 DEF Receive, Step, Idle
<1>4. ASSUME ReadPacket(m) \/ ReadCandidate(m) \/ ReadArtifacts(m)
      PROVE  /\ job[m].phase \in VerifiedPhase \ {"reject"}
             /\ job'[m].op = job[m].op /\ job'[m].approval = job[m].approval
             /\ job'[m].phase # "reject" => job'[m].bytes = job[m].bytes
             /\ job'[m].phase = "commit" => job'[m].bytes \in Intact
  <2>1. CASE ReadPacket(m)
    BY <1>1, <2>1 DEF ReadPacket, Step, Job, VerifiedPhase
  <2>2. CASE ReadCandidate(m)
    BY <1>1, <2>2 DEF ReadCandidate, Step, Job, VerifiedPhase
  <2>3. CASE ReadArtifacts(m)
    BY <1>1, <2>3 DEF ReadArtifacts, ArtifactsBind, Step, Job, VerifiedPhase
  <2> QED BY <1>4, <2>1, <2>2, <2>3
<1>5. CASE Binding(m)
  BY <1>1, <1>3, <1>4, <1>5 DEF Binding, EnvelopeHeld
<1> QED BY <1>2, <1>5, JobCases

\* A new approval is that of the event appended with it.
LEMMA ApprovalsLoggedNext ==
  ASSUME IInv, ApprovalsLogged, [Next]_vars
  PROVE  ApprovalsLogged'
<1>1. ASSUME NEW a \in approvals, a.decision = "APPROVED"
      PROVE  \E k \in DOMAIN log' : a.seq = SeqOf(k) /\ Approves(k, a.op, a.packet)'
  BY <1>1, HistoryStays DEF ApprovalsLogged, Approves, Accepted
<1>2. ASSUME NEW m \in Workers, CommitAccepted(m), ~ IsRelease(job[m])
      PROVE  ApprovalsLogged'
  <2> DEFINE j == job[m]
             e == AdjudicatedEvent(j, packetState[j.packet], "accepted",
                                   PacketDecision(j, packetState[j.packet]), j.bytes)
  <2>1. PICK a : /\ approvals' = approvals \cup {a} /\ a.op = j.op /\ a.packet = j.packet
                 /\ a.decision = j.requested /\ a.seq = NextSeq
    BY <1>2, DecisionAdded
  <2>2. log' = Append(log, e)
    BY <1>2 DEF CommitAccepted, Adjudicate, Record, AdjudicatedEvent
  <2>3. /\ e.outcome = "accepted" /\ e.packet = j.packet /\ e.op = j.op
        /\ e.kind = Request[j.op].kind
    BY DEF AdjudicatedEvent
  <2>4. a.decision = "APPROVED" => e.kind = "approve"
    <3>1. \A k \in PacketOperation : Semantics[k].requested = "APPROVED" => k = "approve"
      BY DEF PacketOperation, Semantics
    <3> QED BY <1>2, <2>1, <2>3, <3>1, PacketAcceptedFacts
  <2> HIDE DEF e
  <2>5. PICK n : n = Len(log) + 1
    OBVIOUS
  <2>6. n \in DOMAIN log' /\ log'[n] = e /\ a.seq = SeqOf(n)
    BY <2>1, <2>2, <2>5, AppendFacts
  <2> QED BY <1>1, <2>1, <2>3, <2>4, <2>6 DEF ApprovalsLogged, Approves, Accepted, SeqOf
<1>3. CASE approvals' = approvals
  BY <1>1, <1>3 DEF ApprovalsLogged, SeqOf
<1> QED BY <1>2, <1>3, RowsStay

\* The approvals of a packet, if there are any, contain their newest.
LEMMA LatestIsApproved ==
  ASSUME IInv, DecidedOnce, NEW p \in Packets, ApprovedOf(p) # {}
  PROVE  LatestApproved(p) \in ApprovedOf(p)
<1>1. PICK a \in ApprovedOf(p) : TRUE
  OBVIOUS
<1>2. \A b \in ApprovedOf(p) : b = a /\ b.seq \in Nat
  BY <1>1 DEF DecidedOnce, Decisions, ApprovedOf, IInv, TypeOK, Approval
<1> QED BY <1>1, <1>2 DEF LatestApproved

\* A release that passes the check of its files rests on its approval.
LEMMA ReleaseReadyNext ==
  ASSUME IInv, DecidedOnce, ApprovalsLogged, ReleaseReady, [Next]_vars
  PROVE  ReleaseReady'
<1> SUFFICES ASSUME NEW m \in Workers, job'[m].phase = "commit", IsRelease(job'[m])
             PROVE  Rests(job[m])'
  BY DEF ReleaseReady, IsRelease
<1>1. job \in [Workers -> Job]
  BY DEF IInv, TypeOK
<1>2. CASE job'[m] = job[m]
  <2>1. Rests(job[m])
    BY <1>2 DEF ReleaseReady
  <2> QED BY <1>2, <2>1, HistoryStays DEF Rests, Approves, Accepted
<1>3. CASE ReadArtifacts(m)
  <2> DEFINE j == job[m]
             p == j.packet
  <2>1. /\ job'[m].bytes = disk[p] /\ job'[m].op = j.op
        /\ job'[m].approval = j.approval /\ job'[m].packet = p /\ log' = log
    BY <1>1, <1>3 DEF ReadArtifacts, Step, Job
  <2>2. IsRelease(j) /\ j.phase = "artifacts"
    BY <1>3, <2>1 DEF IsRelease, ReadArtifacts
  <2>3. ArtifactsBind(j) /\ ReleaseBinds(j)
    BY <1>1, <1>3, <2>2 DEF ReadArtifacts, Step, Job
  <2>4. p \in Packets
    BY <2>2, RequestFacts DEF IInv, JobShapes, JobShape, PacketPhase
  <2>5. LatestApproved(p) \in ApprovedOf(p)
    BY <2>3, <2>4, LatestIsApproved DEF ReleaseBinds
  <2> DEFINE a == LatestApproved(p)
  <2>6. a.op = j.approval /\ log[a.seq - PriorEvents].bytes = disk[p] /\ disk[p] \in Intact
    BY <2>3 DEF ReleaseBinds, ArtifactsBind
  <2>7. a \in approvals /\ a.packet = p /\ a.decision = "APPROVED"
    BY <2>5 DEF ApprovedOf
  <2> HIDE DEF a
  <2>8. PICK k \in DOMAIN log : a.seq = SeqOf(k) /\ Approves(k, a.op, a.packet)
    BY <2>7 DEF ApprovalsLogged
  <2>9. a.seq - PriorEvents = k
    BY <2>8, PriorAssumption DEF SeqOf, IInv, TypeOK
  <2> QED BY <2>1, <2>6, <2>7, <2>8, <2>9 DEF Rests, Approves, Accepted
<1>4. ASSUME Binding(m), ~ ReadArtifacts(m) PROVE FALSE
  <2>1. ASSUME NEW e \in signed, NEW agrees \in BOOLEAN, Receive(m, e, agrees) PROVE FALSE
    BY <1>1, <2>1 DEF Receive, Step, Idle
  <2>2. CASE ReadPacket(m)
    BY <1>1, <2>2 DEF ReadPacket, Step, Job
  <2>3. CASE ReadCandidate(m)
    BY <1>1, <2>3 DEF ReadCandidate, Step, Job
  <2> QED BY <1>4, <2>1, <2>2, <2>3 DEF Binding
<1> QED BY <1>2, <1>3, <1>4, JobCases DEF VerifiedPhase

\* An accepted release is the commit of one.
LEMMA ReleaseCases ==
  ASSUME IInv, [Next]_vars
  PROVE  \/ log' = log
         \/ \E e : log' = Append(log, e) /\ (e.outcome = "rejected" \/ e.kind # "release")
         \/ \E m \in Workers : CommitAccepted(m)
<1>1. ASSUME NEW m \in Workers, CommitPolicyAccepted(m)
      PROVE  \E e : log' = Append(log, e) /\ e.kind # "release"
  <2> DEFINE e == AdjudicatedEvent(job[m], None, "accepted", PolicyDecision(job[m].op), None)
  <2>1. log' = Append(log, e) /\ Request[job[m].op].kind \in {"bootstrap", "grant", "revoke"}
    BY <1>1, PolicyAcceptedFacts
  <2>2. e.kind = Request[job[m].op].kind
    BY DEF AdjudicatedEvent
  <2> HIDE DEF e
  <2> QED BY <2>1, <2>2
<1>2. ASSUME NEW m \in Workers, PacketTransition(m) \/ CandidateTransition(m)
      PROVE  \E e : log' = Append(log, e) /\ e.kind # "release"
  BY <1>2, LocalAppends DEF LocalPhase
<1> QED BY <1>1, <1>2, StepCases DEF Quiet, Refuses, Accepts

\* What workers hold and what the approvals table says, in every state.
LEMMA HeldAlways == Spec => [](EnvelopeHeld /\ ApprovalsLogged /\ ReleaseReady)
<1> DEFINE I == EnvelopeHeld /\ ApprovalsLogged /\ ReleaseReady
<1>1. Init => I
  BY DEF Init, EnvelopeHeld, ApprovalsLogged, ReleaseReady, VerifiedPhase, Idle
<1>2. IInv /\ DecidedOnce /\ I /\ [Next]_vars => I'
  BY EnvelopeNext, ApprovalsLoggedNext, ReleaseReadyNext
<1> QED BY <1>1, <1>2, Inductive, DecisionIsOnce, PTL DEF Spec

(***************************************************************************)
(* An accepted release was approved, by the approval it signed, over the   *)
(* bytes it found, although the files were read before the transaction     *)
(* and anybody may rewrite them (_verify_artifacts,                        *)
(* _verify_release_approval).                                              *)
(***************************************************************************)
THEOREM ReleaseWasApproved == Spec => []ReleasedAsApproved
<1>1. Init => ReleasedAsApproved
  BY DEF Init, ReleasedAsApproved
<1>2. IInv /\ EnvelopeHeld /\ ReleaseReady /\ ReleasedAsApproved /\ [Next]_vars
        => ReleasedAsApproved'
  <2> SUFFICES ASSUME IInv, ReleasedAsApproved, EnvelopeHeld, ReleaseReady, [Next]_vars
               PROVE  ReleasedAsApproved'
    OBVIOUS
  <2> DEFINE Stands(i) ==
        \E k \in DOMAIN log :
          /\ k < i /\ Accepted(k) /\ log[k].kind = "approve"
          /\ log[k].packet = log[i].packet
          /\ log[k].bytes = log[i].bytes /\ log[i].bytes \in Intact
          /\ \E e \in signed : e.op = log[i].op /\ e.approval = log[k].op
  <2>1. ASSUME NEW i \in DOMAIN log, Accepted(i), log[i].kind = "release" PROVE Stands(i)'
    BY <2>1, HistoryStays DEF ReleasedAsApproved, Accepted
  <2>2. CASE log' = log
    BY <2>1, <2>2 DEF ReleasedAsApproved, Accepted
  <2>3. ASSUME NEW e, log' = Append(log, e), e.outcome = "rejected" \/ e.kind # "release"
        PROVE  ReleasedAsApproved'
    <3>1. \A i \in DOMAIN log' : Accepted(i)' /\ log'[i].kind = "release" =>
            i \in DOMAIN log /\ Accepted(i) /\ log[i].kind = "release"
      BY <2>3, AppendFacts DEF Accepted
    <3> QED BY <2>1, <3>1 DEF ReleasedAsApproved
  <2>4. ASSUME NEW m \in Workers, CommitAccepted(m) PROVE ReleasedAsApproved'
    <3> DEFINE j == job[m]
               e == AdjudicatedEvent(j, packetState[j.packet], "accepted",
                                     PacketDecision(j, packetState[j.packet]), j.bytes)
    <3>1. log' = Append(log, e)
      BY <2>4 DEF CommitAccepted, Adjudicate, Record, AdjudicatedEvent
    <3>2. /\ e.packet = j.packet /\ e.op = j.op /\ e.bytes = j.bytes
          /\ e.kind = Request[j.op].kind
      BY DEF AdjudicatedEvent
    <3> HIDE DEF e
    <3>3. CASE e.kind # "release"
      BY <2>3, <3>1, <3>3
    <3>4. CASE e.kind = "release"
      <4>1. PICK n : n = Len(log) + 1
        OBVIOUS
      <4>2. /\ DOMAIN log' = DOMAIN log \cup {n} /\ log'[n] = e
            /\ \A k \in DOMAIN log : k < n /\ log'[k] = log[k]
        BY <3>1, <4>1, AppendFacts
      <4>3. j.phase = "commit" /\ IsRelease(j)
        BY <2>4, <3>2, <3>4 DEF CommitAccepted, IsRelease
      <4>4. Rests(j)
        BY <4>3 DEF ReleaseReady
      <4>5. PICK v \in signed : v.op = j.op /\ v.approval = j.approval
        BY <4>3 DEF EnvelopeHeld, VerifiedPhase
      <4>6. v \in signed'
        BY HistoryStays
      <4>7. Stands(n)'
        BY <3>2, <4>2, <4>4, <4>5, <4>6 DEF Rests, Approves, Accepted
      <4> QED BY <2>1, <4>2, <4>7 DEF ReleasedAsApproved, Accepted
    <3> QED BY <3>3, <3>4
  <2> QED BY <2>2, <2>3, <2>4, ReleaseCases
<1> QED BY <1>1, <1>2, Inductive, HeldAlways, PTL DEF Spec

-----------------------------------------------------------------------------
\* What an event of the authority boundary records, whatever became of it.

\* The reason goes with the decision, and only a bootstrap needs no grant.
Reasoned(e) ==
  \/ /\ e.decision.status = "allowed" /\ e.decision.reason = "ACTIVE_GRANT"
     /\ e.kind # "bootstrap"
  \/ e.decision = BootstrapAllowed /\ e.kind = "bootstrap"
  \/ e.decision.status = "denied" /\ e.decision.reason \in DenyReason
  \/ e.decision.status = "not_evaluated" /\ e.decision.reason \in PassReason

\* The event of an operation that verified, now or when it was first delivered.
Adjudicated(e) ==
  /\ e.authentication = "verified" /\ e.packet = Request[e.op].packet
  /\ e.outcome = "accepted" =>
       /\ e.decision.status = "allowed"
       /\ IsPacketOp(e.op) => e.prior = Semantics[e.kind].prior
  /\ IsPacketOp(e.op) /\ PacketScope[e.packet] = None => e.decision.reason = "SCOPE_REQUIRED"

Replayed(e) ==
  /\ e.authentication = "replay_rejected" /\ e.outcome = "rejected"
  /\ e.decision.status = "not_evaluated"

Evidenced(e) ==
  /\ e.op \in Ops /\ e.kind = Request[e.op].kind
  /\ IsPacketOp(e.op) => e.requested = Semantics[e.kind].requested
  /\ ~ IsPacketOp(e.op) => e.prior = None /\ e.requested = None
  /\ Reasoned(e)
  /\ Adjudicated(e) \/ Replayed(e)

\* Any other event carries no authorization evidence.
Unevidenced(e) == e.decision.status = "none" /\ e.authentication \in {"none", "failed"}

EventShape(e) == Evidenced(e) \/ Unevidenced(e)

\* The evaluator gives the reason that goes with its decision.
LEMMA EvaluateReasoned ==
  ASSUME NEW gs, NEW rs, NEW b, NEW q, NEW c, NEW prior, NEW requested, NEW scope, NEW d,
         d = Evaluate(gs, rs, b, q, c, prior, requested, scope)
  PROVE  \/ d.status = "allowed" /\ d.reason = "ACTIVE_GRANT"
         \/ d.status = "denied" /\ d.reason \in DenyReason
<1>1. DenialReason(gs, b, q, c, prior, requested, scope) \in DenyReason
  BY DEF DenialReason, DenyReason
<1> QED BY <1>1 DEF Evaluate, Allowed, Denied

\* The event of a verified packet operation (insert_transition_event in
\* _commit_authority_transition and _record_binding_rejection).
LEMMA PacketEventShape ==
  ASSUME IInv, NEW m \in Workers, job[m].phase \in BoundPhase,
         NEW prior, NEW outcome, NEW bytes,
         outcome = "accepted" => /\ PacketDecision(job[m], prior).status = "allowed"
                                 /\ prior = Semantics[Request[job[m].op].kind].prior
  PROVE  EventShape(AdjudicatedEvent(job[m], prior, outcome,
                                     PacketDecision(job[m], prior), bytes))
<1> DEFINE j == job[m]
           r == Request[j.op]
           d == PacketDecision(j, prior)
           e == AdjudicatedEvent(j, prior, outcome, d, bytes)
<1>1. /\ j.op \in Ops /\ IsPacketOp(j.op) /\ j.packet = r.packet
      /\ j.requested = Semantics[r.kind].requested
  BY DEF IInv, JobShapes, JobShape, PacketPhase, BoundPhase
<1>2. r.kind # "bootstrap"
  BY <1>1 DEF IsPacketOp, PacketOperation
<1>3. PacketScope[j.packet] = None => d.reason = "SCOPE_REQUIRED"
  BY DEF PacketDecision, EvaluateRequest, Denied
<1>4. \/ d.status = "allowed" /\ d.reason = "ACTIVE_GRANT"
      \/ d.status = "denied" /\ d.reason \in DenyReason
  <2> DEFINE E == Evaluate(grants, revocations, bootstrapped, r.principal,
                           Semantics[r.kind].capability, prior, j.requested,
                           PacketScope[j.packet])
  <2>1. \/ d = Denied("SCOPE_REQUIRED") \/ d = Denied("REQUEST_SCOPE_MISMATCH") \/ d = E
    BY DEF PacketDecision, EvaluateRequest
  <2>2. \/ E.status = "allowed" /\ E.reason = "ACTIVE_GRANT"
        \/ E.status = "denied" /\ E.reason \in DenyReason
    BY EvaluateReasoned
  <2> HIDE DEF d, E
  <2> QED BY <2>1, <2>2 DEF Denied, DenyReason
<1>5. /\ e.op = j.op /\ e.kind = r.kind /\ e.packet = j.packet /\ e.prior = prior
      /\ e.requested = j.requested /\ e.outcome = outcome /\ e.decision = d
      /\ e.authentication = "verified"
  BY DEF AdjudicatedEvent
<1>6. outcome = "accepted" => d.status = "allowed" /\ prior = Semantics[r.kind].prior
  OBVIOUS
<1> HIDE DEF d, e
<1>7. Reasoned(e) /\ Adjudicated(e)
  BY <1>1, <1>2, <1>3, <1>4, <1>5, <1>6 DEF Reasoned, Adjudicated
<1>8. Evidenced(e)
  BY <1>1, <1>5, <1>7 DEF Evidenced
<1> QED BY <1>8 DEF EventShape, e, d

\* The registry knows the one principal, and whoever signed an operation that a
\* worker holds is registered.
OnePrincipal == \A q, r \in trusted : q = r

RequesterKnown ==
  \A m \in Workers : job[m].phase \in VerifiedPhase =>
    Request[job[m].op].principal \in trusted

\* The event of a verified policy operation (_commit_capability_policy_operation).
LEMMA PolicyEventShape ==
  ASSUME IInv, OnePrincipal, RequesterKnown, NEW m \in Workers, job[m].phase = "policy",
         NEW outcome, outcome = "accepted" => PolicyDecision(job[m].op).status = "allowed"
  PROVE  EventShape(AdjudicatedEvent(job[m], None, outcome,
                                     PolicyDecision(job[m].op), None))
<1> DEFINE j == job[m]
           r == Request[j.op]
           d == PolicyDecision(j.op)
           e == AdjudicatedEvent(j, None, outcome, d, None)
<1>1. /\ j.op \in Ops /\ ~ IsPacketOp(j.op) /\ j.packet = None /\ j.requested = None
  BY DEF IInv, JobShapes, JobShape, PolicyPhase
<1>2. r.kind \in {"bootstrap", "grant", "revoke"} /\ r.packet = None
  BY <1>1, RequestFacts DEF PolicyOperation
<1> DEFINE Sound(x) == \/ x.status = "allowed" /\ x.reason = "ACTIVE_GRANT"
                       \/ x.status = "denied" /\ x.reason \in DenyReason
<1>3. \A reason \in DenyReason : Sound(Denied(reason))
  BY DEF Denied
<1>4. Sound(AdminDecision(r))
  BY EvaluateReasoned DEF AdminDecision
<1>5. \/ r.kind # "bootstrap" /\ Sound(d)
      \/ r.kind = "bootstrap" /\ (d = BootstrapAllowed \/ (d.status = "denied" /\ d.reason \in DenyReason))
  <2>1. CASE r.kind = "bootstrap"
    <3>1. trusted = {r.principal}
      BY DEF RequesterKnown, OnePrincipal, VerifiedPhase
    <3>2. d = BootstrapAllowed \/ \E reason \in DenyReason : d = Denied(reason)
      BY <2>1, <3>1 DEF PolicyDecision, BootstrapDecision, DenyReason
    <3> HIDE DEF d
    <3> QED BY <2>1, <3>2 DEF Denied
  <2>2. CASE r.kind = "grant"
    <3>1. d = AdminDecision(r) \/ \E reason \in DenyReason : d = Denied(reason)
      BY <2>2 DEF PolicyDecision, GrantDecision, DenyReason
    <3> HIDE DEF d, Sound
    <3> QED BY <1>3, <1>4, <2>2, <3>1
  <2>3. CASE r.kind = "revoke"
    <3>1. d = AdminDecision(r) \/ \E reason \in DenyReason : d = Denied(reason)
      BY <2>3 DEF PolicyDecision, RevokeDecision, DenyReason
    <3> HIDE DEF d, Sound
    <3> QED BY <1>3, <1>4, <2>3, <3>1
  <2> QED BY <1>2, <2>1, <2>2, <2>3
<1>6. /\ e.op = j.op /\ e.kind = r.kind /\ e.packet = j.packet /\ e.prior = None
      /\ e.requested = j.requested /\ e.outcome = outcome /\ e.decision = d
      /\ e.authentication = "verified"
  BY DEF AdjudicatedEvent
<1>7. outcome = "accepted" => d.status = "allowed"
  OBVIOUS
<1> HIDE DEF d, e
<1>8. Reasoned(e)
  BY <1>5, <1>6 DEF Reasoned
<1>9. Adjudicated(e)
  BY <1>1, <1>2, <1>6, <1>7 DEF Adjudicated
<1>10. Evidenced(e)
  BY <1>1, <1>6, <1>8, <1>9 DEF Evidenced
<1> QED BY <1>10 DEF EventShape, e, d

\* A step appends no event, or one of that shape; a rejected event whose
\* authorization was allowed is that of a failed binding.
NewEvent(e) ==
  /\ log' = Append(log, e) /\ EventShape(e)
  /\ e.outcome = "rejected" /\ e.decision.status = "allowed" =>
       \E m \in Workers : CommitRejection(m)

LEMMA EventNext ==
  ASSUME IInv, OnePrincipal, RequesterKnown, [Next]_vars
  PROVE  log' = log \/ \E e : NewEvent(e)
<1>1. ASSUME NEW m \in Workers, NEW prior, NEW outcome, NEW decision, NEW bytes,
             Adjudicate(m, prior, outcome, decision, bytes),
             EventShape(AdjudicatedEvent(job[m], prior, outcome, decision, bytes)),
             \/ outcome = "accepted" \/ decision.status # "allowed" \/ CommitRejection(m)
      PROVE  \E e : NewEvent(e)
  <2> DEFINE e == AdjudicatedEvent(job[m], prior, outcome, decision, bytes)
  <2>1. log' = Append(log, e) /\ e.outcome = outcome /\ e.decision = decision
    BY <1>1 DEF Adjudicate, Record, AdjudicatedEvent
  <2> HIDE DEF e
  <2>2. NewEvent(e)
    BY <1>1, <2>1 DEF NewEvent, e
  <2> QED BY <2>2
<1>2. ASSUME NEW m \in Workers, CommitAccepted(m) PROVE \E e : NewEvent(e)
  <2> DEFINE j == job[m]
             prior == packetState[j.packet]
  <2>1. /\ Adjudicate(m, prior, "accepted", PacketDecision(j, prior), j.bytes)
        /\ PacketDecision(j, prior).status = "allowed"
        /\ prior = Semantics[Request[j.op].kind].prior /\ j.phase \in BoundPhase
    BY <1>2 DEF CommitAccepted, MayCommit, BoundPhase
  <2> QED BY <1>1, <2>1, PacketEventShape
<1>3. ASSUME NEW m \in Workers, CommitDenied(m) PROVE \E e : NewEvent(e)
  <2> DEFINE j == job[m]
             prior == packetState[j.packet]
  <2>1. /\ Adjudicate(m, prior, "rejected", PacketDecision(j, prior), j.bytes)
        /\ PacketDecision(j, prior).status = "denied" /\ j.phase \in BoundPhase
    BY <1>3 DEF CommitDenied, MayDeny, BoundPhase
  <2> QED BY <1>1, <2>1, PacketEventShape
<1>4. ASSUME NEW m \in Workers, CommitRejection(m) PROVE \E e : NewEvent(e)
  <2> DEFINE j == job[m]
  <2>1. /\ Adjudicate(m, j.prior, "rejected", PacketDecision(j, j.prior), None)
        /\ j.phase \in BoundPhase
    BY <1>4 DEF CommitRejection, BoundPhase
  <2> QED BY <1>1, <1>4, <2>1, PacketEventShape
<1>5. ASSUME NEW m \in Workers, CommitPolicyAccepted(m) \/ CommitPolicyDenied(m)
      PROVE  \E e : NewEvent(e)
  <2> DEFINE d == PolicyDecision(job[m].op)
  <2>1. PICK outcome : /\ Adjudicate(m, None, outcome, d, None) /\ job[m].phase = "policy"
                       /\ \/ outcome = "accepted" /\ d.status = "allowed"
                          \/ outcome = "rejected" /\ d.status = "denied"
    BY <1>5 DEF CommitPolicyAccepted, CommitPolicyDenied
  <2> QED BY <1>1, <2>1, PolicyEventShape
<1>6. ASSUME NEW m \in Workers, CommitPolicyRejection(m) PROVE \E e : NewEvent(e)
  <2> DEFINE j == job[m]
             d == NotEvaluated("REQUEST_BINDING_REJECTED")
             e == AdjudicatedEvent(j, None, "rejected", d, None)
  <2>1. /\ j.op \in Ops /\ ~ IsPacketOp(j.op) /\ j.packet = None /\ j.requested = None
    BY <1>6 DEF CommitPolicyRejection, IInv, JobShapes, JobShape, PolicyPhase
  <2>2. Request[j.op].packet = None
    BY <2>1, RequestFacts
  <2>3. d.status = "not_evaluated" /\ d.reason \in PassReason
    BY DEF NotEvaluated, PassReason
  <2>4. /\ e.op = j.op /\ e.kind = Request[j.op].kind /\ e.packet = j.packet
        /\ e.prior = None /\ e.requested = j.requested /\ e.outcome = "rejected"
        /\ e.decision = d /\ e.authentication = "verified"
    BY DEF AdjudicatedEvent
  <2> HIDE DEF d, e
  <2>5. EventShape(e)
    BY <2>1, <2>2, <2>3, <2>4 DEF EventShape, Evidenced, Reasoned, Adjudicated
  <2>6. Adjudicate(m, None, "rejected", d, None)
    BY <1>6 DEF CommitPolicyRejection, d
  <2> QED BY <1>1, <2>3, <2>5, <2>6 DEF e
<1>7. ASSUME NEW m \in Workers, RecordAttempt(m) PROVE \E e : NewEvent(e)
  <2> DEFINE j == job[m]
  <2>1. CASE j.phase = "replayed"
    <3> DEFINE d == NotEvaluated("REPLAY_REJECTED")
               e == [ kind |-> Request[j.op].kind, op |-> j.op, packet |-> j.packet,
                      prior |-> j.prior, requested |-> j.requested,
                      outcome |-> "rejected", authentication |-> "replay_rejected",
                      decision |-> d, bytes |-> None ]
    <3>1. log' = Append(log, e)
      BY <1>7, <2>1 DEF RecordAttempt, Record
    <3>2. /\ j.op \in Ops
          /\ IsPacketOp(j.op) => j.requested = Semantics[Request[j.op].kind].requested
          /\ ~ IsPacketOp(j.op) => j.prior = None /\ j.requested = None
      BY <2>1 DEF IInv, JobShapes, JobShape
    <3>3. d.status = "not_evaluated" /\ d.reason \in PassReason
      BY DEF NotEvaluated, PassReason
    <3>4. /\ e.op = j.op /\ e.kind = Request[j.op].kind /\ e.prior = j.prior
          /\ e.requested = j.requested /\ e.outcome = "rejected"
          /\ e.decision = d /\ e.authentication = "replay_rejected"
      OBVIOUS
    <3> HIDE DEF d, e
    <3>5. EventShape(e)
      BY <3>2, <3>3, <3>4 DEF EventShape, Evidenced, Reasoned, Replayed
    <3> QED BY <3>1, <3>3, <3>4, <3>5 DEF NewEvent
  <2>2. CASE j.phase = "unverified"
    BY <1>7, <2>2 DEF RecordAttempt, Record, NewEvent, EventShape, Unevidenced, NoDecision
  <2> QED BY <1>7, <2>1, <2>2 DEF RecordAttempt
<1>8. ASSUME NEW m \in Workers,
             PacketTransition(m) \/ CandidateTransition(m) \/ RejectedTransition(m)
      PROVE  \E e : NewEvent(e)
  <2>1. PICK outcome \in {"accepted", "rejected"}, authentication \in {"none", "failed"} :
          Transition(m, outcome, authentication)
    BY <1>8 DEF PacketTransition, CandidateTransition, RejectedTransition
  <2> QED BY <2>1 DEF Transition, Record, NewEvent, EventShape, Unevidenced, NoDecision
<1>9. CASE Prepare \/ UNCHANGED vars
  BY <1>9, PrepareQuiet DEF Quiet, vars
<1>10. ASSUME NEW m \in Workers, Begin(m) \/ Continue(m) \/ Crash(m)
       PROVE  log' = log \/ \E e : NewEvent(e)
  BY <1>2, <1>3, <1>4, <1>5, <1>6, <1>7, <1>8, <1>10, WorkQuiet DEF Continue, Quiet
<1> QED BY <1>9, <1>10 DEF Next

\* Whoever signed the operation in a worker's hands stays registered.
LEMMA RequesterNext ==
  ASSUME IInv, RequesterKnown, [Next]_vars
  PROVE  RequesterKnown'
<1> SUFFICES ASSUME NEW m \in Workers, job'[m].phase \in VerifiedPhase
             PROVE  Request[job'[m].op].principal \in trusted'
  BY DEF RequesterKnown
<1>1. job \in [Workers -> Job] /\ trusted \subseteq trusted'
  BY StepCases DEF IInv, TypeOK
<1>2. CASE job'[m] = job[m]
  BY <1>1, <1>2 DEF RequesterKnown
<1>3. ASSUME NEW e \in signed, NEW agrees \in BOOLEAN, Receive(m, e, agrees)
      PROVE  job'[m].op = e.op /\ Request[e.op].principal \in trusted
  BY <1>1, <1>3 DEF Receive, Step, Idle
<1>4. ASSUME ReadPacket(m) \/ ReadCandidate(m) \/ ReadArtifacts(m)
      PROVE  job[m].phase \in VerifiedPhase /\ job'[m].op = job[m].op
  <2>1. CASE ReadPacket(m)
    BY <1>1, <2>1 DEF ReadPacket, Step, Job, VerifiedPhase
  <2>2. CASE ReadCandidate(m)
    BY <1>1, <2>2 DEF ReadCandidate, Step, Job, VerifiedPhase
  <2>3. CASE ReadArtifacts(m)
    BY <1>1, <2>3 DEF ReadArtifacts, Step, Job, VerifiedPhase
  <2> QED BY <1>4, <2>1, <2>2, <2>3
<1>5. CASE Binding(m)
  BY <1>1, <1>3, <1>4, <1>5 DEF Binding, RequesterKnown
<1> QED BY <1>2, <1>5, JobCases

\* A rejected event whose authorization was allowed cites a grant as well.
RejectionsCovered ==
  \A i \in DOMAIN log :
    log[i].outcome = "rejected" /\ Evidence(i) = "allowed" => \E g \in grants : Cites(i, g)

LEMMA RejectionsCoveredNext ==
  ASSUME IInv, OnePrincipal, RequesterKnown, RejectionsCovered, [Next]_vars
  PROVE  RejectionsCovered'
<1>1. /\ grants \subseteq grants'
      /\ \A r \in revocations' : r \in revocations \/ r.seq = NextSeq
  <2>1. CASE UNCHANGED policyVars
    BY <2>1 DEF policyVars
  <2>2. ASSUME NEW m \in Workers, CommitPolicyAccepted(m)
        PROVE  /\ grants \subseteq grants'
               /\ \A r \in revocations' : r \in revocations \/ r.seq = NextSeq
    BY <2>2, PolicyAcceptedFacts
  <2> QED BY <2>1, <2>2, StepCases, LocalAppends DEF Quiet, Refuses, Accepts, CommitAccepted
<1>2. CASE log' = log
  <2>1. CASE UNCHANGED policyVars
    BY <1>2, <2>1 DEF RejectionsCovered, Cites, policyVars, Evidence, SeqOf
  <2>2. ASSUME NEW e, log' = Append(log, e) PROVE FALSE
    BY <1>2, <2>2, AppendFacts
  <2> QED BY <2>1, <2>2, StepCases, PolicyAcceptedFacts
          DEF Quiet, Refuses, Accepts, CommitAccepted, PacketTransition, CandidateTransition,
              Transition
<1>3. ASSUME NEW e, NewEvent(e) PROVE RejectionsCovered'
  <2>1. PICK n : n = Len(log) + 1
    OBVIOUS
  <2>2. /\ DOMAIN log' = DOMAIN log \cup {n} /\ log'[n] = e /\ log' = Append(log, e)
        /\ \A i \in DOMAIN log : log'[i] = log[i]
    BY <1>3, <2>1, AppendFacts DEF NewEvent
  <2>3. ASSUME NEW i \in DOMAIN log, log'[i].outcome = "rejected", Evidence(i)' = "allowed"
        PROVE  \E g \in grants' : Cites(i, g)'
    <3>1. PICK g \in grants : Cites(i, g)
      BY <2>2, <2>3 DEF RejectionsCovered, Evidence
    <3> QED BY <1>1, <2>2, <3>1, CitesStay
  <2>4. ASSUME log'[n].outcome = "rejected", Evidence(n)' = "allowed"
        PROVE  \E g \in grants' : Cites(n, g)'
    <3>1. PICK m \in Workers : CommitRejection(m)
      BY <1>3, <2>2, <2>4 DEF NewEvent, Evidence
    <3> DEFINE j == job[m]
               d == PacketDecision(j, j.prior)
               v == AdjudicatedEvent(j, j.prior, "rejected", d, None)
    <3>2. /\ Adjudicate(m, j.prior, "rejected", d, None) /\ j.phase \in BoundPhase
          /\ UNCHANGED policyVars
      BY <3>1 DEF CommitRejection, BoundPhase
    <3>3. log' = Append(log, v) /\ v.decision = d
      BY <3>2 DEF Adjudicate, Record, AdjudicatedEvent
    <3>4. log'[n] = v
      BY <2>1, <3>3, AppendFacts
    <3>5. d.status = "allowed"
      BY <2>4, <3>3, <3>4 DEF Evidence
    <3> QED BY <2>1, <3>2, <3>5, AllowedCites
  <2> QED BY <2>2, <2>3, <2>4 DEF RejectionsCovered
<1> QED BY <1>2, <1>3, EventNext

-----------------------------------------------------------------------------
\* The rows of the policy tables and the events that wrote them.

Wrote(i, op, kinds) ==
  Accepted(i) /\ log[i].kind \in kinds /\ log[i].op = op /\ Evidence(i) = "allowed"

GrantFits(g) ==
  /\ g.subject \in trusted /\ GrantScopeFits(g.capability, g.version, g.scope)
  /\ \/ g \in PriorGrants
     \/ /\ \E i \in DOMAIN log : g.seq = SeqOf(i) /\ Wrote(i, g.id, {"bootstrap", "grant"})
        /\ Request[g.id].subject = g.subject /\ Request[g.id].capability = g.capability
        /\ Request[g.id].version = g.version /\ Request[g.id].scope = g.scope

RevocationFits(r) ==
  /\ \E i \in DOMAIN log : r.seq = SeqOf(i) /\ Wrote(i, r.op, {"revoke"})
  /\ \E g \in grants : /\ g.id = r.grant /\ g.seq < r.seq
                       /\ Request[r.op].target = g.id /\ BindsTarget(Request[r.op], g)

TablesFit ==
  /\ grants # {} => bootstrapped
  /\ \A g \in grants : GrantFits(g)
  /\ \A r \in revocations : RevocationFits(r)
  /\ \A a \in approvals : a.scope = PacketScope[a.packet]

\* A row that fits its event fits it for good.
LEMMA FitStays ==
  ASSUME IInv, [Next]_vars, grants \subseteq grants'
  PROVE  /\ \A g \in grants : GrantFits(g) => GrantFits(g)'
         /\ \A r \in revocations : RevocationFits(r) => RevocationFits(r)'
<1>1. /\ trusted \subseteq trusted'
      /\ \A k \in DOMAIN log : k \in DOMAIN log' /\ log'[k] = log[k]
  BY StepCases, HistoryStays
<1>2. ASSUME NEW i \in DOMAIN log, NEW op, NEW kinds, Wrote(i, op, kinds)
      PROVE  i \in DOMAIN log' /\ Wrote(i, op, kinds)'
  BY <1>1, <1>2 DEF Wrote, Accepted, Evidence
<1>3. ASSUME NEW g \in grants, GrantFits(g) PROVE GrantFits(g)'
  BY <1>1, <1>2, <1>3 DEF GrantFits, SeqOf
<1>4. ASSUME NEW r \in revocations, RevocationFits(r) PROVE RevocationFits(r)'
  BY <1>2, <1>4 DEF RevocationFits, SeqOf
<1> QED BY <1>3, <1>4

\* The policy transaction writes its row with the event that explains it.
LEMMA PolicyRowFits ==
  ASSUME IInv, TablesFit, [Next]_vars, NEW m \in Workers, CommitPolicyAccepted(m)
  PROVE  TablesFit'
<1>0. PICK o : o = job[m].op
  OBVIOUS
<1> DEFINE r == Request[o]
           d == PolicyDecision(o)
           e == AdjudicatedEvent(job[m], None, "accepted", d, None)
<1>1. /\ o \in Ops /\ ~ IsPacketOp(o) /\ log' = Append(log, e)
      /\ r.kind \in {"bootstrap", "grant", "revoke"}
      /\ grants \subseteq grants' /\ bootstrapped' = (bootstrapped \/ r.kind = "bootstrap")
  BY <1>0, PolicyAcceptedFacts
<1>2. d.status = "allowed" /\ approvals' = approvals /\ trusted' = trusted
  BY <1>0 DEF CommitPolicyAccepted
<1>3. /\ e.kind = r.kind /\ e.op = o /\ e.outcome = "accepted" /\ e.decision = d
  BY <1>0 DEF AdjudicatedEvent
<1>4. PICK n : n = Len(log) + 1
  OBVIOUS
<1>5. n \in DOMAIN log' /\ log'[n] = e /\ NextSeq = SeqOf(n)
  BY <1>1, <1>4, AppendFacts
<1> HIDE DEF e, d
<1>6. \A kinds : r.kind \in kinds => Wrote(n, o, kinds)'
  BY <1>2, <1>3, <1>5 DEF Wrote, Accepted, Evidence
<1>7. /\ \A g \in grants : GrantFits(g)'
      /\ \A v \in revocations : RevocationFits(v)'
  BY <1>1, FitStays DEF TablesFit
<1>8. grants' # {} => bootstrapped'
  <2>1. CASE r.kind = "bootstrap"
    BY <1>1, <2>1
  <2>2. CASE r.kind # "bootstrap"
    <3>1. AdminDecision(r).status = "allowed"
      BY <1>0, <2>2, PolicyAcceptedFacts
    <3> QED BY <1>1, <3>1 DEF AdminDecision, Evaluate, Denied
  <2> QED BY <2>1, <2>2
<1>9. CASE r.kind = "revoke"
  <2>0. PICK v : v = [op |-> o, grant |-> r.target, seq |-> NextSeq]
    OBVIOUS
  <2>1. /\ grants' = grants /\ revocations' = revocations \cup {v}
        /\ v.op = o /\ v.grant = r.target /\ v.seq = NextSeq
    BY <1>0, <1>9, <2>0, PolicyAcceptedFacts
  <2>2. PICK g \in grants : g.id = r.target /\ BindsTarget(r, g)
    BY <1>0, <1>9, PolicyAcceptedFacts
  <2>3. g.seq < NextSeq
    BY PriorAssumption DEF IInv, TypeOK, RowsPrecede, NextSeq, Grant
  <2>4. RevocationFits(v)'
    BY <1>5, <1>6, <1>9, <2>1, <2>2, <2>3 DEF RevocationFits, SeqOf, BindsTarget
  <2> QED BY <1>2, <1>7, <1>8, <2>1, <2>4 DEF TablesFit
<1>10. CASE r.kind # "revoke"
  <2>0. PICK g : g = NewGrant(o)
    OBVIOUS
  <2>1. grants' = grants \cup {g} /\ revocations' = revocations
    BY <1>0, <1>10, <2>0, PolicyAcceptedFacts
  <2>2. /\ g.id = o /\ g.subject = r.subject /\ g.capability = r.capability
        /\ g.version = r.version /\ g.scope = r.scope /\ g.seq = NextSeq
    BY <2>0 DEF NewGrant
  <2>3. r.subject \in trusted
    <3>1. CASE r.kind = "bootstrap"
      BY <1>0, <1>1, <3>1, PolicyAcceptedFacts, RequestAssumption
    <3>2. CASE r.kind = "grant"
      BY <1>0, <3>2, PolicyAcceptedFacts DEF KnownSubject
    <3> QED BY <1>1, <1>10, <3>1, <3>2
  <2>4. GrantScopeFits(r.capability, r.version, r.scope)
    BY <1>1, <1>10, RequestFacts, RequestAssumption
  <2>5. GrantFits(g)'
    BY <1>1, <1>2, <1>5, <1>6, <1>10, <2>2, <2>3, <2>4 DEF GrantFits, SeqOf
  <2> QED BY <1>2, <1>7, <1>8, <2>1, <2>5 DEF TablesFit
<1> QED BY <1>9, <1>10

\* Every step keeps the tables and the events that wrote them together.
LEMMA TablesNext ==
  ASSUME IInv, TablesFit, [Next]_vars
  PROVE  TablesFit'
<1>1. CASE UNCHANGED policyVars /\ approvals' = approvals
  BY <1>1, FitStays DEF TablesFit, policyVars
<1>2. ASSUME NEW m \in Workers, CommitAccepted(m) PROVE TablesFit'
  <2> DEFINE j == job[m]
             r == Request[j.op]
  <2>1. UNCHANGED policyVars
    BY <1>2 DEF CommitAccepted
  <2>2. PacketScope[j.packet] = r.scope
    <3>1. PacketDecision(j, packetState[j.packet]).status = "allowed"
      BY <1>2 DEF CommitAccepted, MayCommit
    <3>2. grants \subseteq Grant(GrantIds) /\ bootstrapped \in BOOLEAN
      BY DEF IInv, TypeOK
    <3> QED BY <3>1, <3>2, AllowedRequestCovers DEF PacketDecision
  <2>3. \A a \in approvals' : a \in approvals \/ (a.scope = r.scope /\ a.packet = j.packet)
    BY <1>2 DEF CommitAccepted
  <2> QED BY <2>1, <2>2, <2>3, FitStays DEF TablesFit, policyVars
<1>3. ASSUME NEW m \in Workers, CommitPolicyAccepted(m) PROVE TablesFit'
  BY <1>3, PolicyRowFits
<1> QED BY <1>1, <1>2, <1>3, StepCases, LocalAppends DEF Quiet, Refuses, Accepts

-----------------------------------------------------------------------------
\* What the audit finds.

LogShaped == \A i \in DOMAIN log : EventShape(log[i])

\* The grant an allowed event cites covers it, as the audit requires.
LEMMA AllowedPasses ==
  ASSUME IInv, AcceptedIsAuthorized, LogShaped, RejectionsCovered,
         NEW i \in DOMAIN log, Evidence(i) = "allowed", log[i].kind # "bootstrap"
  PROVE  /\ log[i].decision.grant # None
         /\ \E g \in grants : g.id = log[i].decision.grant /\ GrantCovers(g, i)
<1>0. log[i].outcome \in {"accepted", "rejected"}
  <2>1. log[i] \in Event
    BY DEF IInv, TypeOK
  <2> QED BY <2>1 DEF Event
<1>1. /\ Adjudicated(log[i]) /\ log[i].op \in Ops
      /\ log[i].kind = Request[log[i].op].kind
  BY DEF LogShaped, EventShape, Unevidenced, Evidenced, Replayed, Evidence
<1>2. PICK g \in grants : Cites(i, g)
  <2>1. CASE log[i].outcome = "accepted"
    BY <1>1, <2>1, NoneAssumption DEF AcceptedIsAuthorized, Accepted, Bootstraps
  <2>2. CASE log[i].outcome = "rejected"
    BY <2>2 DEF RejectionsCovered
  <2> QED BY <1>0, <2>1, <2>2
<1>3. g.id # None
  BY NoneAssumption DEF IInv, TypeOK, Grant, GrantIds
<1>4. \A r \in revocations : r.grant = g.id => ~ (r.seq < SeqOf(i))
  <2>1. \A r \in revocations : r.seq \in Nat
    BY DEF IInv, TypeOK
  <2>2. SeqOf(i) \in Nat
    BY PriorAssumption DEF SeqOf, IInv, TypeOK
  <2> QED BY <1>2, <2>1, <2>2 DEF Cites
<1>5. GrantCovers(g, i)
  BY <1>1, <1>2, <1>4 DEF Cites, GrantCovers, EvidenceScope, Adjudicated
<1> QED BY <1>2, <1>3, <1>5 DEF Cites

\* An event passes, or is rejected and records another state, or another
\* scope, than its operation expects (_verify_authorization_event_bindings).
LEMMA EventPasses ==
  ASSUME IInv, AcceptedIsAuthorized, LogShaped, RejectionsCovered, NEW i \in DOMAIN log
  PROVE  /\ EventFailures(i) \subseteq {"invalid_authorization_scope",
                                        "invalid_authorization_packet_scope",
                                        "packet_event_scope_mismatch"}
         /\ EventFailures(i) # {} =>
              /\ log[i].outcome = "rejected" /\ IsPacketOp(log[i].op)
              /\ \/ log[i].prior # Semantics[log[i].kind].prior
                 \/ ReplaysOtherScope(i)
<1> DEFINE e == log[i]
           d == e.decision
           odd == e.prior # Semantics[e.kind].prior
<1>1. CASE Unevidenced(e)
  <2>1. Evidence(i) = "none" /\ e.authentication \notin {"verified", "replay_rejected"}
    BY <1>1 DEF Unevidenced, Evidence
  <2> QED BY <2>1 DEF EventFailures, Flag
<1>2. CASE Evidenced(e)
  <2>1. /\ e.op \in Ops /\ e.kind = Request[e.op].kind /\ Reasoned(e)
        /\ Adjudicated(e) \/ Replayed(e)
    BY <1>2 DEF Evidenced
  <2>0. e.outcome \in {"accepted", "rejected"}
    <3>1. log[i] \in Event
      BY DEF IInv, TypeOK
    <3> QED BY <3>1 DEF Event
  <2>2. Evidence(i) # "none" /\ Evidence(i) = d.status
    BY <2>1 DEF Reasoned, Evidence, BootstrapAllowed
  <2>3. CanonicalPair(e.op) # <<e.prior, e.requested>> =>
          e.outcome = "rejected" /\ IsPacketOp(e.op) /\ odd
    BY <1>2, <2>0, <2>1 DEF CanonicalPair, Evidenced, Adjudicated, Replayed
  <2>4. ConsistentReason(d)
    <3>1. CASE d.status = "allowed"
      <4>1. d.reason \in AllowReason
        BY <2>1, <3>1 DEF Reasoned, BootstrapAllowed, AllowReason
      <4> QED BY <3>1, <4>1 DEF ConsistentReason
    <3>2. CASE d.status = "not_evaluated"
      BY <2>1, <3>2 DEF Reasoned, BootstrapAllowed, ConsistentReason
    <3>3. CASE d.status = "denied"
      <4>1. d.reason \in DenyReason
        BY <2>1, <3>3 DEF Reasoned, BootstrapAllowed
      <4>2. d.reason \notin AllowReason \cup PassReason
        BY <4>1 DEF DenyReason, AllowReason, PassReason
      <4> QED BY <3>3, <4>2 DEF ConsistentReason
    <3> QED BY <2>1, <3>1, <3>2, <3>3 DEF Reasoned, BootstrapAllowed
  <2>5. d.status = "allowed" /\ d.grant = None => d.reason = "BOOTSTRAP_ALLOWED"
    <3>1. CASE e.kind = "bootstrap"
      BY <2>1, <3>1 DEF Reasoned, BootstrapAllowed
    <3>2. CASE e.kind # "bootstrap"
      BY <2>2, <3>2, AllowedPasses
    <3> QED BY <3>1, <3>2
  <2>6. d.status = "allowed" /\ d.grant # None =>
          \E g \in grants : g.id = d.grant /\ GrantCovers(g, i)
    <3>1. CASE e.kind = "bootstrap"
      BY <2>1, <3>1 DEF Reasoned, BootstrapAllowed
    <3>2. CASE e.kind # "bootstrap"
      BY <2>2, <3>2, AllowedPasses
    <3> QED BY <3>1, <3>2
  <2>7. IsPacketOp(e.op) /\ EvidenceScope(i) = None /\ d.reason # "SCOPE_REQUIRED" =>
          e.outcome = "rejected" /\ ReplaysOtherScope(i)
    BY <2>0, <2>1 DEF EvidenceScope, Adjudicated, Replayed, ReplaysOtherScope
  <2>8. IsPacketOp(e.op) /\ EvidenceScope(i) # PacketScope[e.packet] =>
          e.outcome = "rejected" /\ ReplaysOtherScope(i)
    BY <2>0, <2>1 DEF EvidenceScope, Adjudicated, Replayed, ReplaysOtherScope
  <2> QED BY <2>2, <2>3, <2>4, <2>5, <2>6, <2>7, <2>8 DEF EventFailures, Flag
<1> QED BY <1>1, <1>2 DEF LogShaped, EventShape

\* Every row of the other tables passes (verify_integrity).
LEMMA RowsPass ==
  ASSUME IInv, AdjudicatedOnce, AdminRemains, LogShaped, TablesFit
  PROVE  /\ PolicyFailures = {}
         /\ \A c \in consumed : OperationFailures(c) = {}
         /\ \A g \in grants : GrantFailures(g) = {}
         /\ \A r \in revocations : RevocationFailures(r) = {}
         /\ \A a \in approvals : ApprovalFailures(a) = {}
<1>1. \A i \in DOMAIN log : SeqOf(i) - PriorEvents = i
  BY PriorAssumption DEF SeqOf, IInv, TypeOK
<1>2. PolicyFailures = {}
  <2>1. bootstrapped => RemainingAdmin(None)
    BY NoneAssumption DEF AdminRemains, RemainingAdmin, IInv, TypeOK, Grant, GrantIds
  <2> QED BY <2>1 DEF PolicyFailures, Flag, TablesFit
<1>3. ASSUME NEW c \in consumed PROVE OperationFailures(c) = {}
  <2>1. PICK i \in DOMAIN log : /\ c.seq = SeqOf(i) /\ Verified(i)
                                /\ log[i].op = c.op /\ log[i].outcome = c.outcome
    BY DEF AdjudicatedOnce
  <2>2. log[i].kind = Request[c.op].kind /\ log[i].packet = Request[c.op].packet
    BY <2>1 DEF LogShaped, EventShape, Unevidenced, Evidenced, Adjudicated, Replayed, Verified
  <2>3. c.seq - PriorEvents = i
    BY <1>1, <2>1
  <2> QED BY <2>1, <2>2, <2>3 DEF OperationFailures, Flag
<1>4. ASSUME NEW g \in grants PROVE GrantFailures(g) = {}
  <2>1. GrantFits(g)
    BY DEF TablesFit
  <2>2. CASE g \in PriorGrants
    BY <2>1, <2>2 DEF GrantFits, GrantFailures, Flag
  <2>3. CASE g \notin PriorGrants
    <3>1. PICK i \in DOMAIN log : g.seq = SeqOf(i) /\ Wrote(i, g.id, {"bootstrap", "grant"})
      BY <2>1, <2>3 DEF GrantFits
    <3>2. g.seq - PriorEvents = i
      BY <1>1, <3>1
    <3> QED BY <2>1, <2>3, <3>1, <3>2 DEF GrantFits, GrantFailures, Flag, Wrote
  <2> QED BY <2>2, <2>3
<1>5. ASSUME NEW r \in revocations PROVE RevocationFailures(r) = {}
  <2>1. RevocationFits(r)
    BY DEF TablesFit
  <2>2. PICK i \in DOMAIN log : r.seq = SeqOf(i) /\ Wrote(i, r.op, {"revoke"})
    BY <2>1 DEF RevocationFits
  <2>3. r.seq - PriorEvents = i
    BY <1>1, <2>2
  <2> QED BY <2>1, <2>2, <2>3 DEF RevocationFits, RevocationFailures, Flag, Wrote
<1>6. ASSUME NEW a \in approvals PROVE ApprovalFailures(a) = {}
  BY DEF TablesFit, ApprovalFailures, Flag
<1> QED BY <1>2, <1>3, <1>4, <1>5, <1>6

\* What workers hold and what the tables say fits, in every state.
LEMMA TablesAlways == Spec => [](RequesterKnown /\ TablesFit)
<1> DEFINE I == RequesterKnown /\ TablesFit
<1>1. Init => I
  <2> SUFFICES ASSUME Init PROVE I
    OBVIOUS
  <2>1. RequesterKnown
    BY DEF Init, RequesterKnown, VerifiedPhase, Idle
  <2>2. TablesFit
    BY PriorAssumption DEF Init, TablesFit, GrantFits
  <2> QED BY <2>1, <2>2
<1>2. IInv /\ I /\ [Next]_vars => I'
  BY RequesterNext, TablesNext
<1> QED BY <1>1, <1>2, Inductive, PTL DEF Spec

(***************************************************************************)
(* The audit finds fault with rejected packet events only, and only with   *)
(* those that record another state, or the replay of an operation signed   *)
(* for another scope, than expected; whatever was delivered, replayed,     *)
(* revoked or edited meanwhile, every accepted event, grant, revocation,   *)
(* consumption and approval passes (verify_integrity).                     *)
(***************************************************************************)
THEOREM AuditFlagsRejections == Spec => []AuditFlagsOnlyRejections
<1> DEFINE I == LogShaped /\ RejectionsCovered
<1>1. Init => I
  BY DEF Init, LogShaped, RejectionsCovered
<1>2. IInv /\ BootstrapsOnce /\ RequesterKnown /\ I /\ [Next]_vars => I'
  <2> SUFFICES ASSUME IInv, OnePrincipal, RequesterKnown, LogShaped, RejectionsCovered,
                      [Next]_vars
               PROVE  I'
    BY DEF BootstrapsOnce, OnePrincipal
  <2>1. ASSUME NEW e, NewEvent(e) PROVE LogShaped'
    <3>1. /\ DOMAIN log' = DOMAIN log \cup {Len(log) + 1} /\ log'[Len(log) + 1] = e
          /\ \A i \in DOMAIN log : log'[i] = log[i]
      BY <2>1, AppendFacts DEF NewEvent
    <3>2. \A x : EventShape(x) => EventShape(x)'
      BY DEF EventShape, Evidenced, Unevidenced, Reasoned, Adjudicated, Replayed
    <3> QED BY <2>1, <3>1, <3>2 DEF NewEvent, LogShaped
  <2>2. LogShaped'
    BY <2>1, EventNext DEF LogShaped
  <2> QED BY <2>2, RejectionsCoveredNext
<1>3. IInv /\ AdjudicatedOnce /\ AdminRemains /\ AcceptedIsAuthorized /\ TablesFit /\ I
        => AuditFlagsOnlyRejections
  <2> SUFFICES ASSUME IInv, AdjudicatedOnce, AdminRemains, AcceptedIsAuthorized, LogShaped,
                      RejectionsCovered, TablesFit
               PROVE  AuditFlagsOnlyRejections
    OBVIOUS
  <2> QED BY EventPasses, RowsPass DEF AuditFlagsOnlyRejections, Failures
<1> QED BY <1>1, <1>2, <1>3, Inductive, BootstrapIsOnce, ConsumedExactlyOnce, AdminNeverLost,
           AcceptanceIsAuthorized, TablesAlways, PTL DEF Spec

-----------------------------------------------------------------------------
\* The boundary a reader has in mind, as its variables are read off the tables.
Signatures == {<<e.op, e.bytes>> : e \in signed}
Powers     == {PowerOf(g) : g \in Unrevoked}
Sealed     == [p \in Packets |-> BytesOf("approve", p)]
Published  == [p \in Packets |-> BytesOf("release", p)]

boundaryVars == <<trusted, Signatures, ConsumedOps, Powers, bootstrapped, packetState,
                  Sealed, Published>>

\* A packet whose bytes were sealed or published stands past that decision.
SealedStands ==
  \A i \in DOMAIN log : Accepted(i) =>
    /\ log[i].kind = "approve" => packetState[log[i].packet] \in {"APPROVED", "RELEASED", "FAILED"}
    /\ log[i].kind = "release" => packetState[log[i].packet] = "RELEASED"

\* A grant was there before the history or issued by the operation it names.
IssuedOnce ==
  /\ \A g \in grants : g \in PriorGrants \/ g.id \in ConsumedOps
  /\ \A g, h \in grants : g.id = h.id => g = h

\* The words of the boundary are those of the system.
LEMMA SameWords ==
  /\ Boundary!Semantics = Semantics /\ Boundary!PacketOperation = PacketOperation
  /\ Boundary!Transitions = Transitions /\ Boundary!AuthoritySensitive = AuthoritySensitive
  /\ Boundary!Version = Version /\ Boundary!Manage = Manage
BY DEF Boundary!Semantics, Semantics, Boundary!PacketOperation, PacketOperation,
       Boundary!Transitions, Transitions, Boundary!AuthoritySensitive, AuthoritySensitive,
       Boundary!Version, Version, Boundary!Manage, Manage

\* An event adds the bytes it saw to what was sealed or published, if it did.
LEMMA BytesGrow ==
  ASSUME IInv, NEW e, log' = Append(log, e), NEW kind, NEW p
  PROVE  BytesOf(kind, p)' = BytesOf(kind, p) \cup
           (IF e.outcome = "accepted" /\ e.kind = kind /\ e.packet = p THEN {e.bytes} ELSE {})
<1> DEFINE Of == {k \in DOMAIN log : Accepted(k) /\ log[k].kind = kind /\ log[k].packet = p}
           Adds == e.outcome = "accepted" /\ e.kind = kind /\ e.packet = p
<1>1. PICK n : n = Len(log) + 1
  OBVIOUS
<1>2. /\ DOMAIN log' = DOMAIN log \cup {n} /\ log'[n] = e
      /\ \A k \in DOMAIN log : log'[k] = log[k]
  BY <1>1, AppendFacts
<1>3. {k \in DOMAIN log' : Accepted(k)' /\ log'[k].kind = kind /\ log'[k].packet = p}
        = Of \cup (IF Adds THEN {n} ELSE {})
  BY <1>2 DEF Accepted
<1>4. BytesOf(kind, p)' = {log'[i].bytes : i \in Of \cup (IF Adds THEN {n} ELSE {})}
  BY <1>3 DEF BytesOf
<1>5. {log'[i].bytes : i \in Of} = BytesOf(kind, p)
  BY <1>2 DEF BytesOf
<1> QED BY <1>2, <1>4, <1>5

\* What is neither an accepted approval nor an accepted release adds nothing.
LEMMA BytesStay ==
  ASSUME IInv, \/ log' = log
               \/ \E e : /\ log' = Append(log, e)
                         /\ e.outcome = "rejected" \/ e.kind \notin {"approve", "release"}
  PROVE  Sealed' = Sealed /\ Published' = Published
<1>1. CASE log' = log
  BY <1>1 DEF Sealed, Published, BytesOf, Accepted
<1>2. ASSUME NEW e, log' = Append(log, e),
             e.outcome = "rejected" \/ e.kind \notin {"approve", "release"}
      PROVE  Sealed' = Sealed /\ Published' = Published
  <2>1. ASSUME NEW kind \in {"approve", "release"}, NEW p
        PROVE  BytesOf(kind, p)' = BytesOf(kind, p)
    <3>1. ~ (e.outcome = "accepted" /\ e.kind = kind)
      BY <1>2
    <3> QED BY <1>2, <3>1, BytesGrow
  <2> QED BY <2>1 DEF Sealed, Published
<1> QED BY <1>1, <1>2

\* The boundary stands still when its variables do.
LEMMA StandsStill ==
  ASSUME IInv, UNCHANGED <<trusted, signed, consumed, grants, revocations, bootstrapped,
                           packetState>>,
         \/ log' = log
         \/ \E e : /\ log' = Append(log, e)
                   /\ e.outcome = "rejected" \/ e.kind \notin {"approve", "release"}
  PROVE  UNCHANGED boundaryVars
<1>1. Sealed' = Sealed /\ Published' = Published
  BY BytesStay
<1>2. Unrevoked' = Unrevoked
  BY DEF Unrevoked, IsRevoked
<1> QED BY <1>1, <1>2 DEF boundaryVars, Signatures, Powers, ConsumedOps

-----------------------------------------------------------------------------
\* The two invariants the mapping needs.

LEMMA SealedStandsNext ==
  ASSUME IInv, SealedStands, [Next]_vars
  PROVE  SealedStands'
<1> DEFINE Stands(i) ==
      /\ log[i].kind = "approve" =>
           packetState[log[i].packet] \in {"APPROVED", "RELEASED", "FAILED"}
      /\ log[i].kind = "release" => packetState[log[i].packet] = "RELEASED"
<1>0. packetState \in [Packets -> WorkflowState] /\ Len(log) \in Nat
  BY DEF IInv, TypeOK
<1>1. \A i \in DOMAIN log : i \in DOMAIN log' /\ log'[i] = log[i]
  BY HistoryStays
<1>2. ASSUME packetState' = packetState, NEW i \in DOMAIN log, Accepted(i) PROVE Stands(i)'
  BY <1>1, <1>2 DEF SealedStands
<1>3. CASE packetState' = packetState /\ log' = log
  BY <1>2, <1>3 DEF SealedStands, Accepted
<1>4. ASSUME NEW e, log' = Append(log, e), packetState' = packetState,
             e.outcome = "rejected" \/ e.kind \notin {"approve", "release"}
      PROVE  SealedStands'
  BY <1>1, <1>2, <1>4, AppendFacts DEF SealedStands, Accepted
<1>5. ASSUME NEW m \in Workers, PacketTransition(m) PROVE SealedStands'
  <2>1. PICK p : p = job[m].packet
    OBVIOUS
  <2>2. PICK t : t = job[m].requested
    OBVIOUS
  <2>3. /\ p \in Packets /\ ValidTransition(packetState[p], t)
        /\ <<packetState[p], t>> \notin AuthoritySensitive
        /\ packetState' = [packetState EXCEPT ![p] = t]
    BY <1>5, <2>1, <2>2, PacketTransitionFacts
  <2>4. /\ packetState[p] = "APPROVED" => t = "FAILED"
        /\ packetState[p] \notin {"RELEASED", "FAILED"}
    BY <2>3 DEF ValidTransition, Transitions, AuthoritySensitive
  <2>5. PICK e : log' = Append(log, e) /\ e.kind \in LocalPhase
    BY <1>5, LocalAppends
  <2>6. ASSUME NEW i \in DOMAIN log, Accepted(i) PROVE Stands(i)'
    <3>1. Stands(i)
      BY <2>6 DEF SealedStands
    <3>2. CASE log[i].packet = p
      BY <1>0, <1>1, <2>3, <2>4, <3>1, <3>2
    <3>3. CASE log[i].packet # p
      BY <1>0, <1>1, <2>3, <3>1, <3>3
    <3> QED BY <3>2, <3>3
  <2> QED BY <1>1, <2>5, <2>6, AppendFacts DEF SealedStands, Accepted, LocalPhase
<1>6. ASSUME NEW m \in Workers, CommitAccepted(m) PROVE SealedStands'
  <2>0. PICK o : o = job[m].op
    OBVIOUS
  <2>1. PICK p : p = job[m].packet
    OBVIOUS
  <2>2. PICK k : k = Request[o].kind
    OBVIOUS
  <2>3. /\ k \in PacketOperation /\ p \in Packets /\ packetState[p] = Semantics[k].prior
        /\ packetState' = [packetState EXCEPT ![p] = Semantics[k].requested]
    BY <1>6, <2>0, <2>1, <2>2, PacketAcceptedFacts
  <2>4. PICK e : log' = Append(log, e) /\ e.packet = p /\ e.kind = k
    BY <1>6, <2>0, <2>1, <2>2
       DEF CommitAccepted, Adjudicate, Record
  <2>5. /\ k = "approve" => Semantics[k].requested = "APPROVED"
        /\ k = "release" => Semantics[k].requested = "RELEASED"
        /\ Semantics[k].prior \notin {"RELEASED", "FAILED"}
        /\ Semantics[k].prior = "APPROVED" => Semantics[k].requested = "RELEASED"
    BY <2>3 DEF PacketOperation, Semantics
  <2>6. ASSUME NEW i \in DOMAIN log, Accepted(i) PROVE Stands(i)'
    <3>1. Stands(i)
      BY <2>6 DEF SealedStands
    <3>2. CASE log[i].packet = p
      BY <1>0, <1>1, <2>3, <2>5, <3>1, <3>2
    <3>3. CASE log[i].packet # p
      BY <1>0, <1>1, <2>3, <3>1, <3>3
    <3> QED BY <3>2, <3>3
  <2>7. PICK n : n = Len(log) + 1
    OBVIOUS
  <2>8. DOMAIN log' = DOMAIN log \cup {n} /\ log'[n] = e
    BY <2>4, <2>7, AppendFacts
  <2>9. Stands(n)'
    BY <1>0, <2>3, <2>4, <2>5, <2>8
  <2> QED BY <1>1, <2>6, <2>8, <2>9 DEF SealedStands, Accepted
<1>7. CASE \E m \in Workers : CommitPolicyAccepted(m) \/ CandidateTransition(m)
  <2>1. PICK m \in Workers : CommitPolicyAccepted(m) \/ CandidateTransition(m)
    BY <1>7
  <2>2. packetState' = packetState
    BY <2>1 DEF CommitPolicyAccepted, CandidateTransition, states
  <2>3. \E e : log' = Append(log, e) /\ e.kind \notin {"approve", "release"}
    <3>1. CASE CandidateTransition(m)
      BY <3>1, LocalAppends DEF LocalPhase
    <3>2. CASE CommitPolicyAccepted(m)
      <4>1. Request[job[m].op].kind \in {"bootstrap", "grant", "revoke"}
        BY <3>2, PolicyAcceptedFacts
      <4>2. \E e : log' = Append(log, e) /\ e.kind = Request[job[m].op].kind
        BY <3>2 DEF CommitPolicyAccepted, Adjudicate, Record
      <4> QED BY <4>1, <4>2
    <3> QED BY <2>1, <3>1, <3>2
  <2> QED BY <1>4, <2>2, <2>3
<1> QED BY <1>3, <1>4, <1>5, <1>6, <1>7, StepCases DEF Quiet, Refuses, Accepts, states

\* Grants are issued once, by an operation that was not used before.
LEMMA IssuedOnceNext ==
  ASSUME IInv, IssuedOnce, [Next]_vars
  PROVE  IssuedOnce'
<1>1. ConsumedOps \subseteq ConsumedOps'
  BY RowsStay DEF ConsumedOps
<1>2. CASE grants' = grants
  BY <1>1, <1>2 DEF IssuedOnce
<1>3. ASSUME NEW m \in Workers, CommitPolicyAccepted(m) PROVE IssuedOnce'
  <2>1. PICK o : o = job[m].op
    OBVIOUS
  <2>2. o \in Ops /\ (grants' = grants \/ grants' = grants \cup {NewGrant(o)})
    BY <1>3, <2>1, PolicyAcceptedFacts
  <2>3. o \notin ConsumedOps
    BY <1>3, <2>1 DEF CommitPolicyAccepted, Adjudicate
  <2>4. o \in ConsumedOps'
    <3> DEFINE c == [op |-> o, seq |-> NextSeq, outcome |-> "accepted"]
    <3>1. c \in consumed' /\ c.op = o
      BY <1>3, <2>1 DEF CommitPolicyAccepted, Adjudicate
    <3> HIDE DEF c
    <3> QED BY <3>1 DEF ConsumedOps
  <2>5. \A g \in grants : g.id # o
    BY <2>2, <2>3, PriorAssumption DEF IssuedOnce
  <2>6. PICK n : n = NewGrant(o)
    OBVIOUS
  <2>7. n.id = o
    BY <2>6 DEF NewGrant
  <2> QED BY <1>1, <1>2, <2>2, <2>4, <2>5, <2>6, <2>7 DEF IssuedOnce
<1> QED BY <1>2, <1>3, StepCases, LocalAppends
        DEF Quiet, Refuses, Accepts, policyVars, CommitAccepted

-----------------------------------------------------------------------------
\* Each step that adjudicates an operation, seen from the boundary.

\* A verified operation is adjudicated: it was signed by somebody registered,
\* and it is used up.
LEMMA AdjudicationUses ==
  ASSUME IInv, EnvelopeHeld, RequesterKnown, NEW m \in Workers,
         job[m].phase \in VerifiedPhase, NEW o, o = job[m].op,
         NEW prior, NEW outcome, NEW decision, NEW bytes,
         Adjudicate(m, prior, outcome, decision, bytes), UNCHANGED <<trusted, signed>>
  PROVE  Boundary!Uses(o) /\ o \in Ops
<1>1. PICK e \in signed : e.op = o
  BY DEF EnvelopeHeld
<1>2. o \in Ops
  BY <1>1 DEF IInv, TypeOK, Envelope
<1>3. PICK s \in Signatures : s = <<e.op, e.bytes>>
  BY <1>1 DEF Signatures
<1>4. s[1] = o
  BY <1>1, <1>3
<1>5. PICK c : c = [op |-> o, seq |-> NextSeq, outcome |-> outcome]
  OBVIOUS
<1>6. o \notin ConsumedOps /\ consumed' = consumed \cup {c} /\ c.op = o
  BY <1>5 DEF Adjudicate
<1>7. ConsumedOps' = ConsumedOps \cup {o}
  BY <1>6 DEF ConsumedOps
<1>8. Request[o].principal \in trusted
  BY DEF RequesterKnown
<1>9. Signatures' = Signatures
  BY DEF Signatures
<1> QED BY <1>2, <1>3, <1>4, <1>6, <1>7, <1>8, <1>9 DEF Boundary!Uses, Signatures

\* A denial, a rejected binding or a policy operation at the wrong adapter.
LEMMA RejectionIsRefusal ==
  ASSUME IInv, EnvelopeHeld, RequesterKnown, NEW m \in Workers,
         \/ CommitDenied(m) \/ CommitRejection(m) \/ CommitPolicyDenied(m)
         \/ CommitPolicyRejection(m)
  PROVE  \E o \in Ops : Boundary!Refuse(o)
<1>1. PICK o : o = job[m].op
  OBVIOUS
<1>2. /\ job[m].phase \in VerifiedPhase
      /\ UNCHANGED <<trusted, signed, grants, revocations, bootstrapped, packetState>>
  BY DEF CommitDenied, CommitRejection, CommitPolicyDenied, CommitPolicyRejection,
         VerifiedPhase, policyVars, states
<1>3. \E prior, decision, bytes : Adjudicate(m, prior, "rejected", decision, bytes)
  BY DEF CommitDenied, CommitRejection, CommitPolicyDenied, CommitPolicyRejection
<1>4. Boundary!Uses(o) /\ o \in Ops
  BY <1>1, <1>2, <1>3, AdjudicationUses
<1>5. Sealed' = Sealed /\ Published' = Published
  BY RejectionRefuses, BytesStay DEF Refuses
<1>6. Powers' = Powers
  BY <1>2 DEF Powers, Unrevoked, IsRevoked
<1> QED BY <1>2, <1>4, <1>5, <1>6
        DEF Boundary!Refuse, Boundary!packets, Powers, Sealed, Published

\* The transaction evaluates the policy it commits under.
LEMMA CommitIsAuthorized ==
  ASSUME IInv, NEW m \in Workers, CommitAccepted(m), NEW o, o = job[m].op
  PROVE  Boundary!Authorized(Request[o])
<1>1. PICK r : r = Request[o]
  OBVIOUS
<1>2. PICK p : p = job[m].packet
  OBVIOUS
<1>3. PICK c : c = Semantics[r.kind].capability
  OBVIOUS
<1>4. PICK prior : prior = packetState[p]
  OBVIOUS
<1>5. PICK requested : requested = job[m].requested
  OBVIOUS
<1>6. /\ p = r.packet /\ c \in PacketCapability
      /\ EvaluateRequest(grants, revocations, bootstrapped, r.principal, c, prior,
                         requested, PacketScope[p], r.scope).status = "allowed"
  BY <1>1, <1>2, <1>3, <1>4, <1>5, PacketAcceptedFacts, SemanticsFacts
     DEF CommitAccepted, MayCommit, PacketDecision
<1>7. grants \subseteq Grant(GrantIds) /\ bootstrapped \in BOOLEAN
  BY DEF IInv, TypeOK
<1>8. /\ PacketScope[p] = r.scope
      /\ Evaluate(grants, revocations, bootstrapped, r.principal, c, prior, requested,
                  PacketScope[p]).status = "allowed"
  BY <1>6, <1>7, AllowedRequestCovers
<1>9. r.scope # None /\ bootstrapped
  BY <1>6, <1>8 DEF EvaluateRequest, Evaluate, Denied
<1>10. PICK g \in grants :
         /\ g.subject = r.principal /\ g.capability = c
         /\ g.version = Version /\ g.scope = r.scope /\ ~ IsRevoked(revocations, g.id)
  BY <1>6, <1>7, <1>8, AllowedCovers
<1>11. PowerOf(g) \in Powers
  BY <1>10 DEF Powers, Unrevoked
<1>12. PICK w \in Powers :
         /\ w.subject = r.principal /\ w.capability = c
         /\ w.version = Version /\ w.scope = r.scope
  BY <1>10, <1>11 DEF PowerOf
<1> QED BY <1>1, <1>3, <1>6, <1>8, <1>9, <1>12, SameWords DEF Boundary!Authorized, Powers

\* An accepted packet operation approves, rejects or releases.
LEMMA CommitDecides ==
  ASSUME IInv, EnvelopeHeld, RequesterKnown, ReleaseReady, SealedStands,
         NEW m \in Workers, CommitAccepted(m)
  PROVE  \E o \in Ops : \/ Boundary!Reject(o)
                        \/ \E b \in Bytes : Boundary!Approve(o, b) \/ Boundary!Release(o, b)
<1>1. PICK o : o = job[m].op
  OBVIOUS
<1>2. PICK p : p = job[m].packet
  OBVIOUS
<1>3. PICK b : b = job[m].bytes
  OBVIOUS
<1>4. PICK k : k = Request[o].kind
  OBVIOUS
<1>5. PICK e : /\ log' = Append(log, e) /\ e.outcome = "accepted" /\ e.kind = k
               /\ e.packet = p /\ e.bytes = b
  BY <1>1, <1>2, <1>3, <1>4 DEF CommitAccepted, Adjudicate, Record
<1>6. /\ k \in PacketOperation /\ p \in Packets /\ p = Request[o].packet
      /\ packetState[p] = Semantics[k].prior
      /\ packetState' = [packetState EXCEPT ![p] = Semantics[k].requested]
  BY <1>1, <1>2, <1>4, PacketAcceptedFacts
<1>7. /\ job[m].phase = "commit" /\ job[m].phase \in VerifiedPhase
      /\ UNCHANGED <<trusted, signed, grants, revocations, bootstrapped>>
      /\ \E prior, decision : Adjudicate(m, prior, "accepted", decision, b)
  BY <1>3 DEF CommitAccepted, VerifiedPhase, policyVars
<1>8. Boundary!Uses(o) /\ o \in Ops
  BY <1>1, <1>7, AdjudicationUses
<1>9. Powers' = Powers
  BY <1>7 DEF Powers, Unrevoked, IsRevoked
<1>10. Boundary!PacketStep(o)
  BY <1>1, <1>4, <1>6, <1>7, <1>8, <1>9, CommitIsAuthorized, SameWords
     DEF Boundary!PacketStep, Powers
<1>11. b \in Intact /\ <<o, b>> \in Signatures
  BY <1>1, <1>3, <1>7 DEF EnvelopeHeld, Signatures
<1>12. b \in Bytes
  BY <1>11, BytesAssumption
<1>13. ASSUME NEW kind, NEW q
       PROVE  BytesOf(kind, q)' = BytesOf(kind, q) \cup
                (IF kind = k /\ q = p THEN {b} ELSE {})
  BY <1>5, BytesGrow
<1>14. /\ BytesOf("approve", p) # {} => packetState[p] \in {"APPROVED", "RELEASED", "FAILED"}
       /\ BytesOf("release", p) # {} => packetState[p] = "RELEASED"
  BY DEF BytesOf, SealedStands
<1>15. Sealed[p] = BytesOf("approve", p) /\ Published[p] = BytesOf("release", p)
  BY <1>6 DEF Sealed, Published
<1>16. CASE k = "reject"
  <2>1. \A q \in Packets : BytesOf("approve", q)' = BytesOf("approve", q)
    BY <1>13, <1>16
  <2>2. \A q \in Packets : BytesOf("release", q)' = BytesOf("release", q)
    BY <1>13, <1>16
  <2>3. Sealed' = Sealed /\ Published' = Published
    BY <2>1, <2>2 DEF Sealed, Published
  <2>4. Boundary!Reject(o)
    BY <1>4, <1>10, <1>16, <2>3 DEF Boundary!Reject, Sealed, Published
  <2> QED BY <1>8, <2>4
<1>17. CASE k = "approve"
  <2>1. \A q \in Packets : BytesOf("release", q)' = BytesOf("release", q)
    BY <1>13, <1>17
  <2>2. BytesOf("approve", p) = {}
    BY <1>6, <1>14, <1>17 DEF Semantics
  <2>3. \A q \in Packets : BytesOf("approve", q)' = IF q = p THEN {b} ELSE BytesOf("approve", q)
    BY <1>13, <1>17, <2>2
  <2>4. Sealed' = [Sealed EXCEPT ![p] = {b}] /\ Published' = Published
    BY <2>1, <2>3 DEF Sealed, Published
  <2>5. Boundary!Approve(o, b)
    BY <1>4, <1>6, <1>10, <1>11, <1>15, <1>17, <2>2, <2>4
       DEF Boundary!Approve, Sealed, Published, Signatures
  <2> QED BY <1>8, <1>12, <2>5
<1>18. CASE k = "release"
  <2>1. \A q \in Packets : BytesOf("approve", q)' = BytesOf("approve", q)
    BY <1>13, <1>18
  <2>2. BytesOf("release", p) = {}
    BY <1>6, <1>14, <1>18 DEF Semantics
  <2>3. \A q \in Packets : BytesOf("release", q)' = IF q = p THEN {b} ELSE BytesOf("release", q)
    BY <1>13, <1>18, <2>2
  <2>4. Published' = [Published EXCEPT ![p] = {b}] /\ Sealed' = Sealed
    BY <2>1, <2>3 DEF Sealed, Published
  <2>5. b \in BytesOf("approve", p)
    <3>1. Rests(job[m])
      BY <1>1, <1>4, <1>7, <1>18 DEF ReleaseReady, IsRelease
    <3> QED BY <1>2, <1>3, <3>1 DEF Rests, Approves, BytesOf
  <2>6. Boundary!Release(o, b)
    BY <1>4, <1>6, <1>10, <1>11, <1>15, <1>18, <2>2, <2>4, <2>5
       DEF Boundary!Release, Sealed, Published, Signatures
  <2> QED BY <1>8, <1>12, <2>6
<1> QED BY <1>6, <1>16, <1>17, <1>18 DEF PacketOperation

\* A local transition moves a packet around the authority pairs.
LEMMA TransitionMoves ==
  ASSUME IInv, NEW m \in Workers, PacketTransition(m)
  PROVE  \E p \in Packets : Boundary!Move(p)
<1>1. PICK p : p = job[m].packet
  OBVIOUS
<1>2. PICK t : t = job[m].requested
  OBVIOUS
<1>3. /\ p \in Packets /\ t \in Transitions[packetState[p]]
      /\ <<packetState[p], t>> \notin AuthoritySensitive
      /\ packetState' = [packetState EXCEPT ![p] = t]
  BY <1>1, <1>2, PacketTransitionFacts DEF ValidTransition
<1>4. UNCHANGED <<trusted, signed, consumed, grants, revocations, bootstrapped>>
  BY DEF PacketTransition, Transition, policyVars
<1>5. Sealed' = Sealed /\ Published' = Published
  BY LocalAppends, BytesStay DEF LocalPhase
<1>6. UNCHANGED <<Signatures, ConsumedOps, Powers>>
  BY <1>4 DEF Signatures, ConsumedOps, Powers, Unrevoked, IsRevoked
<1> QED BY <1>3, <1>4, <1>5, <1>6, SameWords
        DEF Boundary!Move, Boundary!policy, Signatures, Powers, Sealed, Published

-----------------------------------------------------------------------------
\* Each accepted policy operation, seen from the boundary.

\* The administrator that acts is one of the boundary's.
LEMMA AdminAdministers ==
  ASSUME IInv, NEW r, AdminDecision(r).status = "allowed"
  PROVE  bootstrapped /\ \E g \in Boundary!Administrators : g.subject = r.principal
<1>1. grants \subseteq Grant(GrantIds) /\ bootstrapped \in BOOLEAN
  BY DEF IInv, TypeOK
<1>2. PICK g \in grants :
        g.subject = r.principal /\ g.capability = Manage /\ ~ IsRevoked(revocations, g.id)
  <2>1. Evaluate(grants, revocations, bootstrapped, r.principal, Manage, None, None,
                 None).status = "allowed"
    BY DEF AdminDecision
  <2> QED BY <1>1, <2>1, AllowedCovers
<1>3. PICK w \in Powers : w.subject = r.principal /\ w.capability = Manage
  <2>1. PowerOf(g) \in Powers
    BY <1>2 DEF Powers, Unrevoked
  <2>2. PowerOf(g).subject = r.principal /\ PowerOf(g).capability = Manage
    BY <1>2 DEF PowerOf
  <2> QED BY <2>1, <2>2
<1>4. w \in Boundary!Administrators
  BY <1>3, SameWords DEF Boundary!Administrators, Powers
<1> QED BY <1>3, <1>4 DEF AdminDecision, Evaluate, Denied

\* What an accepted policy operation leaves alone.
LEMMA PolicyAcceptedKeeps ==
  ASSUME IInv, EnvelopeHeld, RequesterKnown, NEW m \in Workers, CommitPolicyAccepted(m),
         NEW o, o = job[m].op
  PROVE  /\ Boundary!Uses(o) /\ o \in Ops /\ o \notin ConsumedOps
         /\ UNCHANGED <<packetState, Sealed, Published>>
<1>1. /\ job[m].phase \in VerifiedPhase /\ UNCHANGED <<trusted, signed, packetState>>
      /\ \E decision : Adjudicate(m, None, "accepted", decision, None)
  BY DEF CommitPolicyAccepted, VerifiedPhase, states
<1>2. Boundary!Uses(o) /\ o \in Ops /\ o \notin ConsumedOps
  BY <1>1, AdjudicationUses DEF Adjudicate
<1>3. Request[o].kind \in {"bootstrap", "grant", "revoke"}
  BY PolicyAcceptedFacts
<1>4. \E e : log' = Append(log, e) /\ e.kind = Request[o].kind
  BY DEF CommitPolicyAccepted, Adjudicate, Record
<1>5. Sealed' = Sealed /\ Published' = Published
  BY <1>3, <1>4, BytesStay
<1> QED BY <1>1, <1>2, <1>5

\* A new grant is a new power: nothing was issued or revoked under its name.
LEMMA GrantAddsPower ==
  ASSUME IInv, IssuedOnce, RevokedOnce, NEW o \in Ops, o \notin ConsumedOps,
         grants' = grants \cup {NewGrant(o)}, revocations' = revocations
  PROVE  Powers' = Powers \cup {Boundary!Power(o)} /\ \A g \in Powers : g.id # o
<1>1. \A g \in grants : g.id # o
  BY PriorAssumption DEF IssuedOnce
<1>2. ~ IsRevoked(revocations, o)
  BY <1>1 DEF RevokedOnce, IsRevoked
<1>3. PICK n : n = NewGrant(o)
  OBVIOUS
<1>4. n.id = o /\ PowerOf(n) = Boundary!Power(o)
  BY <1>3 DEF NewGrant, PowerOf, Boundary!Power
<1>5. Unrevoked' = Unrevoked \cup {n}
  BY <1>2, <1>3, <1>4 DEF Unrevoked
<1>6. Powers' = Powers \cup {PowerOf(n)}
  BY <1>5 DEF Powers
<1>7. \A g \in Powers : g.id # o
  BY <1>1 DEF Powers, Unrevoked, PowerOf
<1> QED BY <1>4, <1>6, <1>7

\* A revocation takes back one power and no other.
LEMMA RevocationTakesPower ==
  ASSUME IInv, IssuedOnce, NEW g \in Unrevoked, NEW v, v.grant = g.id,
         grants' = grants, revocations' = revocations \cup {v}
  PROVE  Powers' = Powers \ {PowerOf(g)} /\ PowerOf(g) \in Powers
<1>1. \A h \in Unrevoked : h.id = g.id => h = g
  BY DEF IssuedOnce, Unrevoked
<1>2. Unrevoked' = Unrevoked \ {g}
  BY <1>1 DEF Unrevoked, IsRevoked
<1>3. \A h \in Unrevoked : PowerOf(h) = PowerOf(g) => h = g
  BY <1>1 DEF PowerOf
<1>4. ASSUME NEW w PROVE w \in Powers' <=> w \in Powers /\ w # PowerOf(g)
  <2>1. w \in Powers' <=> \E h \in Unrevoked : h # g /\ w = PowerOf(h)
    BY <1>2 DEF Powers, PowerOf
  <2>2. w \in Powers <=> \E h \in Unrevoked : w = PowerOf(h)
    BY DEF Powers
  <2> QED BY <1>3, <2>1, <2>2
<1>5. PowerOf(g) \in Powers
  BY DEF Powers
<1> QED BY <1>4, <1>5

\* An accepted policy operation founds the policy, grants or revokes.
LEMMA PolicyCommits ==
  ASSUME IInv, EnvelopeHeld, RequesterKnown, IssuedOnce, RevokedOnce,
         NEW m \in Workers, CommitPolicyAccepted(m)
  PROVE  \E o \in Ops : Boundary!Found(o) \/ Boundary!GrantPower(o) \/ Boundary!RevokePower(o)
<1>1. PICK o : o = job[m].op
  OBVIOUS
<1>2. PICK r : r = Request[o]
  OBVIOUS
<1>3. /\ Boundary!Uses(o) /\ o \in Ops /\ o \notin ConsumedOps
      /\ UNCHANGED <<packetState, Sealed, Published>>
  BY <1>1, PolicyAcceptedKeeps
<1>4. ~ IsPacketOp(o) /\ r.kind \in {"bootstrap", "grant", "revoke"}
  BY <1>1, <1>2, PolicyAcceptedFacts
<1>5. bootstrapped' = (bootstrapped \/ r.kind = "bootstrap") /\ bootstrapped \in BOOLEAN
  BY <1>1, <1>2, PolicyAcceptedFacts DEF IInv, TypeOK
<1>6. ASSUME r.kind # "bootstrap" PROVE Boundary!Administers(o)
  <2>1. AdminDecision(r).status = "allowed"
    BY <1>1, <1>2, <1>6, PolicyAcceptedFacts
  <2>2. bootstrapped /\ \E g \in Boundary!Administrators : g.subject = r.principal
    BY <2>1, AdminAdministers
  <2>3. bootstrapped' = bootstrapped
    BY <1>5, <1>6, <2>2
  <2> QED BY <1>2, <1>3, <2>2, <2>3
          DEF Boundary!Administers, Boundary!packets, Sealed, Published
<1>7. ASSUME r.kind # "revoke"
      PROVE  /\ Powers' = Powers \cup {Boundary!Power(o)} /\ \A g \in Powers : g.id # o
  <2>1. grants' = grants \cup {NewGrant(o)} /\ revocations' = revocations
    BY <1>1, <1>2, <1>7, PolicyAcceptedFacts
  <2> QED BY <1>3, <2>1, GrantAddsPower
<1>8. CASE r.kind = "bootstrap"
  <2>1. /\ grants = {} /\ ~ bootstrapped /\ trusted = {r.principal}
        /\ r.capability = Manage
    BY <1>1, <1>2, <1>8, PolicyAcceptedFacts
  <2>2. r.subject = r.principal
    BY <1>2, <1>3, <1>8, RequestAssumption
  <2>3. Powers = {}
    BY <2>1 DEF Powers, Unrevoked
  <2>4. Powers' = {Boundary!Power(o)} /\ bootstrapped'
    BY <1>5, <1>7, <1>8, <2>3
  <2>5. Boundary!Power(o).subject = r.subject /\ Boundary!Power(o).capability = r.capability
    BY <1>2 DEF Boundary!Power
  <2>6. Boundary!Found(o)
    BY <1>2, <1>3, <1>8, <2>1, <2>2, <2>3, <2>4, <2>5, SameWords
       DEF Boundary!Found, Boundary!packets, Powers, Sealed, Published
  <2> QED BY <1>3, <2>6
<1>9. CASE r.kind = "grant"
  <2>1. r.subject \in trusted
    BY <1>1, <1>2, <1>9, PolicyAcceptedFacts DEF KnownSubject
  <2>2. r.version = Version
    <3>1. GrantDecision(r).status = "allowed"
      BY <1>1, <1>2, <1>9 DEF CommitPolicyAccepted, PolicyDecision
    <3> QED BY <3>1 DEF GrantDecision, Denied
  <2>3. Boundary!GrantPower(o)
    BY <1>2, <1>6, <1>7, <1>9, <2>1, <2>2, SameWords DEF Boundary!GrantPower, Powers
  <2> QED BY <1>3, <2>3
<1>10. CASE r.kind = "revoke"
  <2>0. PICK v : v = [op |-> o, grant |-> r.target, seq |-> NextSeq]
    OBVIOUS
  <2>1. /\ \E g \in grants : g.id = r.target
        /\ \A g \in grants : g.id = r.target => BindsTarget(r, g)
        /\ ~ IsRevoked(revocations, r.target)
        /\ r.capability = Manage => RemainingAdmin(r.target)
        /\ grants' = grants /\ revocations' = revocations \cup {v}
    BY <1>1, <1>2, <1>10, <2>0, PolicyAcceptedFacts
  <2>2. PICK g \in Unrevoked : g.id = r.target /\ BindsTarget(r, g)
    BY <2>1 DEF Unrevoked
  <2>3. Powers' = Powers \ {PowerOf(g)} /\ PowerOf(g) \in Powers
    BY <2>0, <2>1, <2>2, RevocationTakesPower
  <2>4. PowerOf(g) = [Boundary!Power(o) EXCEPT !.id = r.target]
    BY <1>2, <2>2 DEF PowerOf, Boundary!Power, BindsTarget
  <2>5. PowerOf(g).capability = Manage => Boundary!Administrators # {PowerOf(g)}
    <3>1. SUFFICES ASSUME r.capability = Manage PROVE Boundary!Administrators # {PowerOf(g)}
      BY <2>2 DEF PowerOf, BindsTarget
    <3>2. PICK h \in Unrevoked : h.capability = Manage /\ h.id # r.target
      BY <2>1, <3>1 DEF RemainingAdmin, Unrevoked
    <3>3. PowerOf(h) \in Powers /\ PowerOf(h).capability = Manage /\ PowerOf(h) # PowerOf(g)
      BY <2>2, <3>2 DEF Powers, PowerOf
    <3> QED BY <3>3, SameWords DEF Boundary!Administrators, Powers
  <2>6. PICK w \in Powers :
          /\ w = [Boundary!Power(o) EXCEPT !.id = r.target]
          /\ w.capability = Manage => Boundary!Administrators # {w}
          /\ Powers' = Powers \ {w}
    BY <2>3, <2>4, <2>5
  <2>7. Boundary!RevokePower(o)
    BY <1>2, <1>6, <1>10, <2>6, SameWords DEF Boundary!RevokePower, Powers
  <2> QED BY <1>3, <2>7
<1> QED BY <1>4, <1>8, <1>9, <1>10

-----------------------------------------------------------------------------
\* The rest leaves the boundary alone, or happens before an operation is used.

\* Registering and signing are the boundary's; editing files is nobody's.
LEMMA PreparationSigns ==
  ASSUME IInv, Prepare
  PROVE  \/ \E q \in Principals : Boundary!Register(q)
         \/ \E o \in Ops, b \in Bytes \cup {None} : Boundary!Sign(o, b)
         \/ UNCHANGED boundaryVars
<1>1. UNCHANGED <<packetState, consumed, grants, revocations, bootstrapped, log>>
  BY PrepareQuiet DEF Quiet, states, policyVars
<1>2. UNCHANGED <<packetState, ConsumedOps, Powers, bootstrapped, Sealed, Published>>
  BY <1>1, BytesStay DEF ConsumedOps, Powers, Unrevoked, IsRevoked
<1>3. ASSUME NEW q \in Principals, BootstrapTrust(q) PROVE Boundary!Register(q)
  <2>1. trusted = {} /\ trusted' = {q} /\ Signatures' = Signatures
    BY <1>3 DEF BootstrapTrust, RegistryOpen, Signatures
  <2> QED BY <1>2, <2>1 DEF Boundary!Register, Boundary!policy, Boundary!packets,
                            Signatures, Powers, Sealed, Published
<1>4. ASSUME NEW o \in Ops, NEW e, signed' = signed \cup {e}, e.op = o, o \notin SignedOps,
             trusted' = trusted, Request[o].principal \in trusted,
             e.bytes \in IF IsPacketOp(o) THEN Intact ELSE {None}
      PROVE  \E b \in Bytes \cup {None} : Boundary!Sign(o, b)
  <2>1. PICK b \in Bytes \cup {None} : b = e.bytes
    BY <1>4, BytesAssumption
  <2>2. Signatures' = Signatures \cup {<<o, b>>}
    BY <1>4, <2>1 DEF Signatures
  <2>3. \A s \in Signatures : s[1] # o
    BY <1>4 DEF Signatures, SignedOps
  <2>4. b \in IF Request[o].kind \in Boundary!PacketOperation THEN Intact ELSE {None}
    BY <1>4, <2>1, SameWords DEF IsPacketOp
  <2>5. Boundary!Sign(o, b)
    BY <1>2, <1>4, <2>2, <2>3, <2>4 DEF Boundary!Sign, Boundary!policy, Boundary!packets,
       Signatures, Powers, Sealed, Published
  <2> QED BY <2>5
<1>5. ASSUME NEW o \in Ops, PreparePacketOperation(o)
      PROVE  \E b \in Bytes \cup {None} : Boundary!Sign(o, b)
  <2> DEFINE e == [ op |-> o, bytes |-> disk[Request[o].packet],
                    approval |-> IF Request[o].kind = "release"
                                 THEN LatestApproved(Request[o].packet).op ELSE None ]
  <2>1. /\ signed' = signed \cup {e} /\ trusted' = trusted /\ o \notin SignedOps
        /\ IsPacketOp(o) /\ Request[o].principal \in trusted
        /\ disk[Request[o].packet] \in Intact
    BY <1>5 DEF PreparePacketOperation, CanPreparePacket
  <2>2. e.op = o /\ e.bytes = disk[Request[o].packet]
    OBVIOUS
  <2> HIDE DEF e
  <2> QED BY <1>4, <2>1, <2>2
<1>6. ASSUME NEW o \in Ops, PreparePolicyOperation(o)
      PROVE  \E b \in Bytes \cup {None} : Boundary!Sign(o, b)
  <2> DEFINE e == [op |-> o, bytes |-> None, approval |-> None]
  <2>1. /\ signed' = signed \cup {e} /\ trusted' = trusted /\ o \notin SignedOps
        /\ ~ IsPacketOp(o) /\ Request[o].principal \in trusted
    BY <1>6 DEF PreparePolicyOperation
  <2>2. e.op = o /\ e.bytes = None
    OBVIOUS
  <2> HIDE DEF e
  <2> QED BY <1>4, <2>1, <2>2
<1>7. ASSUME NEW p, NEW b, EditArtifacts(p, b) PROVE UNCHANGED boundaryVars
  BY <1>1, <1>7, StandsStill DEF EditArtifacts
<1> QED BY <1>3, <1>5, <1>6, <1>7 DEF Prepare

\* Every step of a worker is a step of the boundary or leaves it alone.
LEMMA WorkerSteps ==
  ASSUME IInv, EnvelopeHeld, RequesterKnown, ReleaseReady, SealedStands, IssuedOnce,
         RevokedOnce, NEW m \in Workers, Begin(m) \/ Continue(m) \/ Crash(m)
  PROVE  Boundary!Next \/ UNCHANGED boundaryVars
<1>1. CASE \/ Begin(m) \/ Crash(m) \/ ReadPacket(m) \/ ReadCandidate(m)
           \/ ReadArtifacts(m) \/ Rollback(m) \/ AbandonedTransition(m)
  <2>1. signed' = signed
    BY <1>1 DEF Begin, Receive, ReceiveUnverified, StartPacketTransition,
       StartCandidateTransition, Crash, ReadPacket, ReadCandidate, ReadArtifacts, Rollback,
       AbandonedTransition, Step
  <2> QED BY <1>1, <2>1, WorkQuiet, StandsStill DEF Quiet, states, policyVars
<1>2. CASE \/ CommitDenied(m) \/ CommitRejection(m) \/ CommitPolicyDenied(m)
           \/ CommitPolicyRejection(m)
  <2>1. \E o \in Ops : Boundary!Refuse(o)
    BY <1>2, RejectionIsRefusal
  <2> QED BY <2>1, Zenon DEF Boundary!Next
<1>3. CASE CommitAccepted(m)
  <2>1. \E o \in Ops : \/ Boundary!Reject(o)
                      \/ \E b \in Bytes : Boundary!Approve(o, b) \/ Boundary!Release(o, b)
    BY <1>3, CommitDecides
  <2>2. \A b \in Bytes : b \in Bytes \cup {None}
    OBVIOUS
  <2> QED BY <2>1, <2>2, Zenon DEF Boundary!Next
<1>4. CASE CommitPolicyAccepted(m)
  <2>1. \E o \in Ops : \/ Boundary!Found(o) \/ Boundary!GrantPower(o)
                      \/ Boundary!RevokePower(o)
    BY <1>4, PolicyCommits
  <2> QED BY <2>1, Zenon DEF Boundary!Next
<1>5. CASE PacketTransition(m)
  <2>1. \E p \in Packets : Boundary!Move(p)
    BY <1>5, TransitionMoves
  <2> QED BY <2>1, Zenon DEF Boundary!Next
<1>6. CASE CandidateTransition(m)
  <2>1. UNCHANGED <<trusted, signed, consumed, grants, revocations, bootstrapped, packetState>>
    BY <1>6 DEF CandidateTransition, Transition, policyVars
  <2> QED BY <1>6, <2>1, LocalAppends, StandsStill DEF LocalPhase
<1>7. CASE RecordAttempt(m) \/ RejectedTransition(m)
  <2>1. UNCHANGED <<trusted, signed, consumed, grants, revocations, bootstrapped, packetState>>
    BY <1>7 DEF RecordAttempt, RejectedTransition, Transition, policyVars, states
  <2>2. \E e : log' = Append(log, e) /\ e.outcome = "rejected"
    BY <1>7, RejectionRefuses DEF Refuses
  <2> QED BY <2>1, <2>2, StandsStill
<1> QED BY <1>1, <1>2, <1>3, <1>4, <1>5, <1>6, <1>7 DEF Continue

\* At the start nothing is sealed, and the powers are the grants of before.
LEMMA BoundaryStarts ==
  ASSUME Init
  PROVE  Boundary!Init /\ SealedStands /\ IssuedOnce
<1>1. log = <<>> /\ DOMAIN log = {}
  BY DEF Init
<1>2. Sealed = [p \in Packets |-> {}] /\ Published = [p \in Packets |-> {}]
  BY <1>1 DEF Sealed, Published, BytesOf
<1>3. Unrevoked = PriorGrants
  BY DEF Init, Unrevoked, IsRevoked
<1>4. Powers = {PowerOf(g) : g \in PriorGrants} /\ (Powers # {}) = (PriorGrants # {})
  BY <1>3 DEF Powers
<1>5. Boundary!Init
  BY <1>2, <1>4 DEF Init, Boundary!Init, Powers, Sealed, Published, ConsumedOps
<1>6. SealedStands
  BY <1>1 DEF SealedStands
<1>7. IssuedOnce
  BY PriorAssumption DEF Init, IssuedOnce
<1> QED BY <1>5, <1>6, <1>7

(***************************************************************************)
(* The system implements the boundary, for any number of workers, packets, *)
(* principals and operations: whatever was edited, replayed, revoked or    *)
(* lost between the reads of a command and its transaction, each commit is *)
(* one step the boundary allows, and everything else leaves it alone.      *)
(***************************************************************************)
THEOREM AuthorityImplements == Spec => ImplementsBoundary
<1> DEFINE I == SealedStands /\ IssuedOnce
<1>1. Init => Boundary!Init /\ I
  BY BoundaryStarts
<1>2. IInv /\ I /\ [Next]_vars => I'
  BY SealedStandsNext, IssuedOnceNext
<1>3. IInv /\ EnvelopeHeld /\ RequesterKnown /\ ReleaseReady /\ RevokedOnce /\ I /\ [Next]_vars
        => Boundary!Next \/ UNCHANGED boundaryVars
  <2> SUFFICES ASSUME IInv, EnvelopeHeld, RequesterKnown, ReleaseReady, RevokedOnce,
                      SealedStands, IssuedOnce, [Next]_vars
               PROVE  Boundary!Next \/ UNCHANGED boundaryVars
    OBVIOUS
  <2>1. CASE Prepare
    <3>1. \/ \E q \in Principals : Boundary!Register(q)
          \/ \E o \in Ops, b \in Bytes \cup {None} : Boundary!Sign(o, b)
          \/ UNCHANGED boundaryVars
      BY <2>1, PreparationSigns
    <3> QED BY <3>1, Zenon DEF Boundary!Next
  <2>2. ASSUME NEW m \in Workers, Begin(m) \/ Continue(m) \/ Crash(m)
        PROVE  Boundary!Next \/ UNCHANGED boundaryVars
    BY <2>2, WorkerSteps
  <2>3. CASE UNCHANGED vars
    BY <2>3, StandsStill DEF vars
  <2> QED BY <2>1, <2>2, <2>3 DEF Next
<1> QED BY <1>1, <1>2, <1>3, Inductive, HeldAlways, TablesAlways, RevocationIsFinal, PTL
        DEF Spec, ImplementsBoundary, Boundary!Spec, Boundary!vars, boundaryVars,
            Signatures, Powers, Sealed, Published

-----------------------------------------------------------------------------
\* Which revocations are refused because they do not bind their target.
Misbound == "GRANT_BINDING_MISMATCH"

\* What prepare_operation copies from the grant that is to be revoked.
Copies(r, g) == g.subject = r.subject /\ g.capability = r.capability /\ g.scope = r.scope

\* A grant without a scope version is older than the history.
LegacyIsPrior == \A g \in grants : g.version = Version \/ g \in PriorGrants

\* A revocation that was prepared still has the grant it copies, and claims the
\* current scope version for it.
Prepared(o) ==
  Request[o].kind = "revoke" =>
    /\ Request[o].version = Version
    /\ \E g \in grants : g.id = Request[o].target /\ Copies(Request[o], g)

ByHand(o) == \E e \in HandSigned : e.op = o

SignedIsPrepared == \A e \in signed : ByHand(e.op) \/ Prepared(e.op)

\* The target of an operation is a grant of before grants carried a scope.
NamesLegacy(o) == \E g \in PriorGrants : g.id = Request[o].target /\ g.version # Version

MisboundIsLegacy ==
  \A i \in DOMAIN log : log[i].decision.reason = Misbound =>
    ByHand(log[i].op) \/ NamesLegacy(log[i].op)

\* The evaluator, asked for a packet or for an administrator, never gives that
\* reason.
LEMMA EvaluatorNeverMisbinds ==
  ASSUME NEW gs, NEW rs, NEW b, NEW q, NEW c, NEW prior, NEW requested, NEW scope, NEW ps
  PROVE  /\ Evaluate(gs, rs, b, q, c, prior, requested, scope).reason # Misbound
         /\ EvaluateRequest(gs, rs, b, q, c, prior, requested, ps, scope).reason # Misbound
<1>1. \A s : DenialReason(gs, b, q, c, prior, requested, s) # Misbound
  BY DEF DenialReason, Misbound
<1>2. \A s : Evaluate(gs, rs, b, q, c, prior, requested, s).reason # Misbound
  BY <1>1 DEF Evaluate, Allowed, Denied, Misbound
<1> QED BY <1>2 DEF EvaluateRequest, Denied, Misbound

\* The policy transaction gives it to a revocation only, and only if the grant
\* it names is there and does not bind.
LEMMA MisboundDecision ==
  ASSUME NEW o, o \in Ops, ~ IsPacketOp(o), PolicyDecision(o).reason = Misbound
  PROVE  /\ Request[o].kind = "revoke"
         /\ \E g \in grants : g.id = Request[o].target /\ ~ BindsTarget(Request[o], g)
<1> DEFINE r == Request[o]
<1>1. r.kind \in {"bootstrap", "grant", "revoke"}
  BY RequestFacts DEF PolicyOperation
<1>2. AdminDecision(r).reason # Misbound
  BY EvaluatorNeverMisbinds DEF AdminDecision
<1>3. BootstrapDecision(r).reason # Misbound
  BY DEF BootstrapDecision, BootstrapAllowed, Denied, Misbound
<1>4. GrantDecision(r).reason # Misbound
  BY <1>2 DEF GrantDecision, Denied, Misbound
<1>5. r.kind = "revoke"
  BY <1>1, <1>3, <1>4 DEF PolicyDecision
<1>6. RevokeDecision(r).reason = Misbound
  BY <1>5 DEF PolicyDecision
<1>7. ~ \A g \in {h \in grants : h.id = r.target} : BindsTarget(r, g)
  BY <1>2, <1>6 DEF RevokeDecision, Denied, Misbound
<1> QED BY <1>5, <1>7

\* So an event that carries it is that of a policy operation in a worker's hands.
LEMMA MisboundEvent ==
  ASSUME IInv, [Next]_vars
  PROVE  \/ log' = log
         \/ \E e : log' = Append(log, e) /\ e.decision.reason # Misbound
         \/ \E m \in Workers : \E e :
              /\ log' = Append(log, e) /\ job[m].phase = "policy"
              /\ e.op = job[m].op /\ e.decision = PolicyDecision(job[m].op)
<1> DEFINE Other == \E e : log' = Append(log, e) /\ e.decision.reason # Misbound
           Policy(m) == \E e : /\ log' = Append(log, e) /\ job[m].phase = "policy"
                               /\ e.op = job[m].op /\ e.decision = PolicyDecision(job[m].op)
<1>1. ASSUME NEW m \in Workers, NEW prior, NEW outcome, NEW decision, NEW bytes,
             Adjudicate(m, prior, outcome, decision, bytes)
      PROVE  \E e : log' = Append(log, e) /\ e.op = job[m].op /\ e.decision = decision
  <2> DEFINE e == AdjudicatedEvent(job[m], prior, outcome, decision, bytes)
  <2>1. log' = Append(log, e) /\ e.op = job[m].op /\ e.decision = decision
    BY <1>1 DEF Adjudicate, Record, AdjudicatedEvent
  <2> HIDE DEF e
  <2> QED BY <2>1
<1>2. \A j, prior : PacketDecision(j, prior).reason # Misbound
  BY EvaluatorNeverMisbinds DEF PacketDecision
<1>3. ASSUME NEW m \in Workers, CommitAccepted(m) \/ CommitDenied(m) \/ CommitRejection(m)
      PROVE  Other
  <2>1. PICK prior, outcome, bytes :
          Adjudicate(m, prior, outcome, PacketDecision(job[m], prior), bytes)
    BY <1>3 DEF CommitAccepted, CommitDenied, CommitRejection
  <2> QED BY <1>1, <1>2, <2>1
<1>4. ASSUME NEW m \in Workers, CommitPolicyAccepted(m) \/ CommitPolicyDenied(m)
      PROVE  Policy(m)
  <2>1. PICK outcome : /\ Adjudicate(m, None, outcome, PolicyDecision(job[m].op), None)
                       /\ job[m].phase = "policy"
    BY <1>4 DEF CommitPolicyAccepted, CommitPolicyDenied
  <2> QED BY <1>1, <2>1
<1>5. ASSUME NEW m \in Workers, CommitPolicyRejection(m) PROVE Other
  <2>1. NotEvaluated("REQUEST_BINDING_REJECTED").reason # Misbound
    BY DEF NotEvaluated, Misbound
  <2>2. Adjudicate(m, None, "rejected", NotEvaluated("REQUEST_BINDING_REJECTED"), None)
    BY <1>5 DEF CommitPolicyRejection
  <2> QED BY <1>1, <2>1, <2>2
<1>6. ASSUME NEW m \in Workers, RecordAttempt(m) PROVE Other
  <2>1. /\ NotEvaluated("REPLAY_REJECTED").reason # Misbound
        /\ NoDecision.reason # Misbound
    BY DEF NotEvaluated, NoDecision, Misbound
  <2>2. \E kind, prior, authentication, d :
          /\ log' = Record(kind, job[m], prior, "rejected", authentication, d, None)
          /\ d.reason # Misbound
    BY <1>6, <2>1 DEF RecordAttempt
  <2>3. PICK e, d : log' = Append(log, e) /\ e.decision = d /\ d.reason # Misbound
    BY <2>2 DEF Record
  <2> QED BY <2>3
<1>7. ASSUME NEW m \in Workers,
             PacketTransition(m) \/ CandidateTransition(m) \/ RejectedTransition(m)
      PROVE  Other
  BY <1>7 DEF PacketTransition, CandidateTransition, RejectedTransition, Transition,
              Record, NoDecision, Misbound
<1>8. ASSUME Prepare \/ UNCHANGED vars PROVE log' = log
  BY <1>8, PrepareQuiet DEF Quiet, vars
<1>9. ASSUME NEW m \in Workers, Begin(m) \/ Continue(m) \/ Crash(m)
      PROVE  log' = log \/ Other \/ Policy(m)
  BY <1>3, <1>4, <1>5, <1>6, <1>7, <1>9, WorkQuiet DEF Continue, Quiet
<1> HIDE DEF Other
<1>10. log' = log \/ Other \/ \E m \in Workers : Policy(m)
  BY <1>8, <1>9 DEF Next
<1> QED BY <1>10 DEF Other

\* Whatever the policy transaction issues carries the current scope version.
LEMMA LegacyIsPriorNext ==
  ASSUME IInv, LegacyIsPrior, [Next]_vars
  PROVE  LegacyIsPrior' /\ grants \subseteq grants'
<1>1. CASE grants' = grants
  BY <1>1 DEF LegacyIsPrior
<1>2. ASSUME NEW m \in Workers, CommitPolicyAccepted(m)
      PROVE  LegacyIsPrior' /\ grants \subseteq grants'
  <2>0. PICK o : o = job[m].op
    OBVIOUS
  <2>1. /\ Request[o].kind \in {"bootstrap", "grant", "revoke"}
        /\ IF Request[o].kind = "revoke" THEN grants' = grants
                                         ELSE grants' = grants \cup {NewGrant(o)}
    BY <1>2, <2>0, PolicyAcceptedFacts
  <2>2. PolicyDecision(o).status = "allowed"
    BY <1>2, <2>0 DEF CommitPolicyAccepted
  <2>3. Request[o].kind \in {"bootstrap", "grant"} => Request[o].version = Version
    <3>1. CASE Request[o].kind = "bootstrap"
      BY <2>2, <3>1 DEF PolicyDecision, BootstrapDecision, Denied
    <3>2. CASE Request[o].kind = "grant"
      BY <2>2, <3>2 DEF PolicyDecision, GrantDecision, Denied
    <3> QED BY <3>1, <3>2
  <2>4. PICK n : n = NewGrant(o)
    OBVIOUS
  <2>5. n.version = Request[o].version
    BY <2>4 DEF NewGrant
  <2> QED BY <1>1, <2>1, <2>3, <2>4, <2>5 DEF LegacyIsPrior
<1> QED BY <1>1, <1>2, StepCases, LocalAppends
        DEF Quiet, Refuses, Accepts, policyVars, CommitAccepted

\* A prepared envelope keeps the grant it copies: grants are never deleted.
LEMMA SignedIsPreparedNext ==
  ASSUME IInv, LegacyIsPrior, SignedIsPrepared, [Next]_vars
  PROVE  SignedIsPrepared'
<1>1. grants \subseteq grants'
  BY LegacyIsPriorNext
<1>2. ASSUME NEW e \in signed PROVE (ByHand(e.op) \/ Prepared(e.op))'
  BY <1>1 DEF SignedIsPrepared, ByHand, Prepared
<1>3. CASE signed' = signed
  BY <1>2, <1>3 DEF SignedIsPrepared
<1>4. ASSUME NEW o \in Ops, PreparePacketOperation(o) PROVE SignedIsPrepared'
  <2>1. \E e : signed' = signed \cup {e} /\ e.op = o
    <3> DEFINE approval == IF Request[o].kind = "release"
                           THEN LatestApproved(Request[o].packet).op ELSE None
    <3>1. \E bytes : signed' = signed \cup {[op |-> o, bytes |-> bytes, approval |-> approval]}
      BY <1>4 DEF PreparePacketOperation
    <3> HIDE DEF approval
    <3>2. PICK e, bytes : /\ signed' = signed \cup {e}
                          /\ e = [op |-> o, bytes |-> bytes, approval |-> approval]
      BY <3>1
    <3> QED BY <3>2
  <2>2. Prepared(o)'
    BY <1>4 DEF PreparePacketOperation, Prepared, IsPacketOp, PacketOperation
  <2> QED BY <1>2, <2>1, <2>2 DEF SignedIsPrepared
<1>5. ASSUME NEW o \in Ops, PreparePolicyOperation(o) PROVE SignedIsPrepared'
  <2>1. \E e : signed' = signed \cup {e} /\ e.op = o
    <3>1. PICK e : /\ signed' = signed \cup {e}
                   /\ e = [op |-> o, bytes |-> None, approval |-> None]
      BY <1>5 DEF PreparePolicyOperation
    <3> QED BY <3>1
  <2>2. Prepared(o)
    BY <1>5 DEF PreparePolicyOperation, CanPreparePolicy, Prepared, Copies
  <2>3. Prepared(o)'
    BY <1>1, <2>2 DEF Prepared
  <2> QED BY <1>2, <2>1, <2>3 DEF SignedIsPrepared
<1>6. signed' = signed \/ \E o \in Ops : PreparePacketOperation(o) \/ PreparePolicyOperation(o)
  BY SignedBy
<1> QED BY <1>3, <1>4, <1>5, <1>6

\* A grant is known by its identifier for good.
LEMMA GrantsIssuedOnce == Spec => []IssuedOnce
<1>1. Init => IssuedOnce
  BY PriorAssumption DEF Init, IssuedOnce
<1> QED BY <1>1, IssuedOnceNext, Inductive, PTL DEF Spec

(***************************************************************************)
(* A revocation is refused for a binding mismatch only if a key holder     *)
(* signed it without prepare_operation, or if its target is one of the     *)
(* grants of before grants carried a scope: prepare_operation signs the    *)
(* current scope version for those as well (_commit_capability_policy_-    *)
(* operation compares it).                                                 *)
(***************************************************************************)
THEOREM MismatchNamesLegacy == Spec => []MisboundIsLegacy
<1> DEFINE I == LegacyIsPrior /\ SignedIsPrepared /\ MisboundIsLegacy
<1>1. Init => I
  BY DEF Init, LegacyIsPrior, SignedIsPrepared, ByHand, MisboundIsLegacy
<1>2. IInv /\ EnvelopeHeld /\ IssuedOnce /\ I /\ [Next]_vars => I'
  <2> SUFFICES ASSUME IInv, EnvelopeHeld, IssuedOnce, LegacyIsPrior, SignedIsPrepared,
                      MisboundIsLegacy, [Next]_vars
               PROVE  MisboundIsLegacy'
    BY LegacyIsPriorNext, SignedIsPreparedNext
  <2>1. ASSUME NEW e, log' = Append(log, e),
               e.decision.reason = Misbound => ByHand(e.op) \/ NamesLegacy(e.op)
        PROVE  MisboundIsLegacy'
    BY <2>1, AppendFacts DEF MisboundIsLegacy, ByHand, NamesLegacy
  <2>2. ASSUME NEW m \in Workers, NEW e, log' = Append(log, e), job[m].phase = "policy",
               e.op = job[m].op, e.decision = PolicyDecision(job[m].op)
        PROVE  MisboundIsLegacy'
    <3>1. PICK o : o = job[m].op
      OBVIOUS
    <3>2. o \in Ops /\ ~ IsPacketOp(o)
      BY <2>2, <3>1 DEF IInv, JobShapes, JobShape, PolicyPhase
    <3>3. ByHand(o) \/ Prepared(o)
      BY <2>2, <3>1 DEF EnvelopeHeld, VerifiedPhase, SignedIsPrepared
    <3>4. ASSUME PolicyDecision(o).reason = Misbound, Prepared(o) PROVE NamesLegacy(o)
      <4>1. PICK g \in grants : g.id = Request[o].target /\ ~ BindsTarget(Request[o], g)
        BY <3>2, <3>4, MisboundDecision
      <4>2. PICK h \in grants : h.id = Request[o].target /\ Copies(Request[o], h)
        BY <3>2, <3>4, MisboundDecision DEF Prepared
      <4>3. g = h /\ Request[o].version = Version
        BY <3>2, <3>4, <4>1, <4>2, MisboundDecision DEF IssuedOnce, Prepared
      <4>4. g.version # Version
        BY <4>1, <4>2, <4>3 DEF BindsTarget, Copies
      <4> QED BY <4>1, <4>4 DEF LegacyIsPrior, NamesLegacy
    <3> QED BY <2>1, <2>2, <3>1, <3>3, <3>4
  <2>3. CASE log' = log
    BY <2>3 DEF MisboundIsLegacy, ByHand, NamesLegacy
  <2> QED BY <2>1, <2>2, <2>3, MisboundEvent
<1> QED BY <1>1, <1>2, Inductive, HeldAlways, GrantsIssuedOnce, PTL DEF Spec

(***************************************************************************)
(* Where no grant is that old, the documented promise holds for good: a    *)
(* revocation prepared from a grant binds it and is never refused for a    *)
(* mismatch.  The promise fails in the run `legacy`, and only there.       *)
(***************************************************************************)
THEOREM RevocationBindsUnlessLegacy ==
  ASSUME \A g \in PriorGrants : g.version = Version
  PROVE  Spec => []PreparedRevocationBinds
<1>1. MisboundIsLegacy => PreparedRevocationBinds
  <2>1. ASSUME NEW o PROVE ~ NamesLegacy(o)
    BY DEF NamesLegacy
  <2> QED BY <2>1 DEF MisboundIsLegacy, PreparedRevocationBinds, ByHand, Misbound
<1> QED BY <1>1, MismatchNamesLegacy, PTL

-----------------------------------------------------------------------------
\* What becomes of a verified operation: the safety half of VerifiedIsConsumed.

\* How many steps of its worker a verified operation still needs.
Left(phase) ==
  IF phase = "packet" THEN 4 ELSE IF phase = "candidate" THEN 3
  ELSE IF phase = "artifacts" THEN 2 ELSE 1

\* The approval that a release found is still in the approvals table.
ApprovalKept ==
  \A m \in Workers : job[m].phase = "commit" /\ IsRelease(job[m]) =>
    \E a \in ApprovedOf(job[m].packet) : a.op = job[m].approval

\* A packet transaction either commits or denies, and so does a policy one:
\* neither raises for any other reason than that the operation is consumed.
TransactionsDecide ==
  \A m \in Workers :
    /\ job[m].phase = "commit" => MayCommit(job[m]) \/ MayDeny(job[m])
    /\ job[m].phase = "policy" => PolicyDecision(job[m].op).status \in {"allowed", "denied"}

\* A step takes a verified operation one step closer to its transaction, or it
\* is consumed when its worker lets it go.
NeverSlips ==
  [][ \A m \in Workers : job[m].phase \in VerifiedPhase /\ job'[m] # job[m] =>
        \/ job[m].op \in ConsumedOps'
        \/ /\ job'[m].op = job[m].op /\ job'[m].phase \in VerifiedPhase
           /\ Left(job'[m].phase) < Left(job[m].phase) ]_vars

\* Approvals are never deleted between the reads and the transaction.
LEMMA ApprovalKeptNext ==
  ASSUME IInv, DecidedOnce, ApprovalKept, [Next]_vars
  PROVE  ApprovalKept'
<1> SUFFICES ASSUME NEW m \in Workers, job'[m].phase = "commit", IsRelease(job'[m])
             PROVE  \E a \in approvals' : /\ a.packet = job'[m].packet
                                          /\ a.decision = "APPROVED"
                                          /\ a.op = job'[m].approval
  BY DEF ApprovalKept, IsRelease, ApprovedOf
<1>1. job \in [Workers -> Job] /\ approvals \subseteq approvals'
  BY RowsStay, DecisionAdded DEF IInv, TypeOK
<1>2. CASE job'[m] = job[m]
  BY <1>1, <1>2 DEF ApprovalKept, ApprovedOf
<1>3. CASE ReadArtifacts(m)
  <2> DEFINE j == job[m]
             p == j.packet
  <2>1. /\ job'[m].op = j.op /\ job'[m].approval = j.approval /\ job'[m].packet = p
    BY <1>1, <1>3 DEF ReadArtifacts, Step, Job
  <2>2. IsRelease(j) /\ j.phase = "artifacts"
    BY <1>3, <2>1 DEF IsRelease, ReadArtifacts
  <2>3. ReleaseBinds(j)
    BY <1>1, <1>3, <2>2 DEF ReadArtifacts, Step, Job
  <2>4. p \in Packets
    BY <2>2, RequestFacts DEF IInv, JobShapes, JobShape, PacketPhase
  <2>5. LatestApproved(p) \in ApprovedOf(p)
    BY <2>3, <2>4, LatestIsApproved DEF ReleaseBinds
  <2> QED BY <1>1, <2>1, <2>3, <2>5 DEF ReleaseBinds, ApprovedOf
<1>4. ASSUME Binding(m), ~ ReadArtifacts(m) PROVE FALSE
  <2>1. ASSUME NEW e \in signed, NEW agrees \in BOOLEAN, Receive(m, e, agrees) PROVE FALSE
    BY <1>1, <2>1 DEF Receive, Step, Idle
  <2>2. CASE ReadPacket(m)
    BY <1>1, <2>2 DEF ReadPacket, Step, Job
  <2>3. CASE ReadCandidate(m)
    BY <1>1, <2>3 DEF ReadCandidate, Step, Job
  <2> QED BY <1>4, <2>1, <2>2, <2>3 DEF Binding
<1> QED BY <1>2, <1>3, <1>4, JobCases DEF VerifiedPhase

\* What the packet transaction allows is allowed for the state its operation
\* expects, because that is the pair the capability covers.
LEMMA AllowedExpectsPrior ==
  ASSUME IInv, NEW m \in Workers, job[m].phase = "commit", NEW prior,
         PacketDecision(job[m], prior).status = "allowed"
  PROVE  prior = Semantics[Request[job[m].op].kind].prior
<1>1. PICK r : r = Request[job[m].op]
  OBVIOUS
<1>2. PICK requested : requested = job[m].requested
  OBVIOUS
<1>3. PICK ps : ps = PacketScope[job[m].packet]
  OBVIOUS
<1>4. r.kind \in PacketOperation
  BY <1>1, RequestFacts DEF IInv, JobShapes, JobShape, PacketPhase
<1>5. PICK c : c = Semantics[r.kind].capability
  OBVIOUS
<1>6. grants \subseteq Grant(GrantIds) /\ bootstrapped \in BOOLEAN
  BY DEF IInv, TypeOK
<1>7. EvaluateRequest(grants, revocations, bootstrapped, r.principal, c, prior, requested,
                      ps, r.scope).status = "allowed"
  BY <1>1, <1>2, <1>3, <1>5 DEF PacketDecision
<1>8. Evaluate(grants, revocations, bootstrapped, r.principal, c, prior, requested,
               ps).status = "allowed"
  BY <1>6, <1>7, AllowedRequestCovers
<1>9. CapabilityStateScope(c, None) = <<prior, requested>>
  BY <1>6, <1>8, AllowedCovers
<1>10. CapabilityStateScope(c, None)[1] = Semantics[r.kind].prior
  <2>1. CASE r.kind = "approve"
    BY <1>5, <2>1 DEF CapabilityStateScope, Semantics, ManagementCapability
  <2>2. CASE r.kind = "reject"
    BY <1>5, <2>2 DEF CapabilityStateScope, Semantics, ManagementCapability
  <2>3. CASE r.kind = "release"
    BY <1>5, <2>3 DEF CapabilityStateScope, Semantics, ManagementCapability
  <2> QED BY <1>4, <2>1, <2>2, <2>3 DEF PacketOperation
<1> QED BY <1>1, <1>9, <1>10

\* So a packet transaction that is allowed finds everything else in place.
LEMMA CommitDecided ==
  ASSUME IInv, PairedStates, ApprovalKept, TablesFit, NEW m \in Workers,
         job[m].phase = "commit"
  PROVE  MayCommit(job[m]) \/ MayDeny(job[m])
<1> DEFINE j == job[m]
           d == PacketDecision(j, packetState[j.packet])
<1>1. j.packet \in Packets
  BY RequestFacts DEF IInv, JobShapes, JobShape, PacketPhase
<1>2. Paired(j.packet)
  BY <1>1 DEF PairedStates
<1>3. d.status \in {"allowed", "denied"}
  BY EvaluateRequestType DEF PacketDecision, IInv, TypeOK
<1>4. CASE d.status = "denied"
  BY <1>2, <1>4 DEF MayDeny
<1>5. CASE d.status = "allowed"
  <2>1. packetState[j.packet] = Semantics[Request[j.op].kind].prior
    BY <1>5, AllowedExpectsPrior
  <2>2. IsRelease(j) => ApprovalStands(j)
    BY DEF ApprovalKept, ApprovalStands, TablesFit, ApprovedOf
  <2> QED BY <1>2, <1>5, <2>1, <2>2 DEF MayCommit
<1> QED BY <1>3, <1>4, <1>5

\* And a policy transaction allows or denies.
LEMMA PolicyDecided ==
  ASSUME IInv, NEW o \in Ops, ~ IsPacketOp(o)
  PROVE  PolicyDecision(o).status \in {"allowed", "denied"}
<1> DEFINE r == Request[o]
           Decides(d) == d.status \in {"allowed", "denied"}
<1>1. Decides(AdminDecision(r))
  BY EvaluateType DEF AdminDecision, IInv, TypeOK
<1>2. Decides(BootstrapAllowed) /\ \A reason : Decides(Denied(reason))
  BY DEF BootstrapAllowed, Denied
<1> HIDE DEF Decides
<1>3. Decides(BootstrapDecision(r))
  BY <1>2 DEF BootstrapDecision
<1>4. Decides(GrantDecision(r))
  BY <1>1, <1>2 DEF GrantDecision
<1>5. Decides(RevokeDecision(r))
  BY <1>1, <1>2 DEF RevokeDecision
<1>6. r.kind \in {"bootstrap", "grant", "revoke"}
  BY RequestFacts DEF PolicyOperation
<1>7. Decides(PolicyDecision(o))
  BY <1>3, <1>4, <1>5, <1>6 DEF PolicyDecision
<1> QED BY <1>7 DEF Decides

(***************************************************************************)
(* Where candidates are not moved on their own, a transaction that runs    *)
(* always commits or denies: an allowed packet operation finds its packet  *)
(* in the state it expects, paired with its candidate, and a release finds *)
(* its approval, however long ago they were read.  So the only exception   *)
(* _commit_authority_transition can meet is a rival's commit of the same   *)
(* operation.                                                              *)
(***************************************************************************)
THEOREM TransactionsAlwaysDecide ==
  ASSUME CandidateSteps = {}
  PROVE  Spec => []TransactionsDecide
<1>1. Init => ApprovalKept
  BY DEF Init, ApprovalKept, Idle
<1>2. IInv /\ DecidedOnce /\ ApprovalKept /\ [Next]_vars => ApprovalKept'
  BY ApprovalKeptNext
<1>3. IInv /\ PairedStates /\ ApprovalKept /\ TablesFit => TransactionsDecide
  <2> SUFFICES ASSUME IInv, PairedStates, ApprovalKept, TablesFit, NEW m \in Workers
               PROVE  /\ job[m].phase = "commit" => MayCommit(job[m]) \/ MayDeny(job[m])
                      /\ job[m].phase = "policy" =>
                           PolicyDecision(job[m].op).status \in {"allowed", "denied"}
    BY DEF TransactionsDecide
  <2>1. job[m].phase = "policy" => job[m].op \in Ops /\ ~ IsPacketOp(job[m].op)
    BY DEF IInv, JobShapes, JobShape, PolicyPhase
  <2> QED BY <2>1, CommitDecided, PolicyDecided
<1> QED BY <1>1, <1>2, <1>3, Inductive, DecisionIsOnce, PairedUnlessCandidateMoves,
           TablesAlways, PTL DEF Spec

\* A worker without the right to crash lets a verified operation go only when
\* it is consumed, and otherwise takes it on.
LEMMA WorkerKeepsOn ==
  ASSUME IInv, TransactionsDecide, [LiveNext]_vars, NEW m \in Workers,
         job[m].phase \in VerifiedPhase, job'[m] # job[m]
  PROVE  \/ job[m].op \in ConsumedOps'
         \/ /\ job'[m].op = job[m].op /\ job'[m].phase \in VerifiedPhase
            /\ Left(job'[m].phase) < Left(job[m].phase)
<1>1. job \in [Workers -> Job] /\ Idle.phase = "idle"
  BY DEF IInv, TypeOK, Idle
<1>2. ASSUME NEW w \in Workers, NEW j, job' = [job EXCEPT ![w] = j] PROVE w = m
  BY <1>1, <1>2
<1>3. job[m] # Idle
  BY <1>1 DEF VerifiedPhase
<1>4. CASE ReadPacket(m) \/ ReadCandidate(m) \/ ReadArtifacts(m)
  <2>1. CASE ReadPacket(m)
    <3>1. job[m].phase = "packet"
      BY <2>1 DEF ReadPacket, VerifiedPhase
    <3>2. job'[m].op = job[m].op /\ job'[m].phase \in {"candidate", "reject"}
      BY <1>1, <2>1, <3>1 DEF ReadPacket, Step, Job
    <3> QED BY <3>1, <3>2 DEF VerifiedPhase, Left
  <2>2. CASE ReadCandidate(m)
    <3>1. /\ job[m].phase = "candidate"
          /\ job'[m].op = job[m].op /\ job'[m].phase \in {"artifacts", "reject"}
      BY <1>1, <2>2 DEF ReadCandidate, Step, Job
    <3> QED BY <3>1 DEF VerifiedPhase, Left
  <2>3. CASE ReadArtifacts(m)
    <3>1. /\ job[m].phase = "artifacts"
          /\ job'[m].op = job[m].op /\ job'[m].phase \in {"commit", "reject"}
      BY <1>1, <2>3 DEF ReadArtifacts, Step, Job
    <3> QED BY <3>1 DEF VerifiedPhase, Left
  <2> QED BY <1>4, <2>1, <2>2, <2>3
<1>5. ASSUME NEW prior, NEW outcome, NEW decision, NEW bytes,
             Adjudicate(m, prior, outcome, decision, bytes)
      PROVE  job[m].op \in ConsumedOps'
  <2>1. PICK c : c = [op |-> job[m].op, seq |-> NextSeq, outcome |-> outcome]
    OBVIOUS
  <2>2. c \in consumed' /\ c.op = job[m].op
    BY <1>5, <2>1 DEF Adjudicate
  <2> QED BY <2>2 DEF ConsumedOps
<1>6. CASE \/ CommitAccepted(m) \/ CommitDenied(m) \/ CommitRejection(m)
           \/ CommitPolicyAccepted(m) \/ CommitPolicyDenied(m) \/ CommitPolicyRejection(m)
  BY <1>5, <1>6 DEF CommitAccepted, CommitDenied, CommitRejection, CommitPolicyAccepted,
     CommitPolicyDenied, CommitPolicyRejection
<1>7. CASE Rollback(m)
  BY <1>7 DEF Rollback, TransactionsDecide, Step, ConsumedOps
<1>8. CASE \/ RecordAttempt(m) \/ PacketTransition(m) \/ CandidateTransition(m)
           \/ RejectedTransition(m) \/ AbandonedTransition(m)
  BY <1>8 DEF RecordAttempt, PacketTransition, CandidateTransition, RejectedTransition,
     AbandonedTransition, VerifiedPhase
<1>9. CASE Begin(m)
  BY <1>3, <1>9 DEF Begin, Receive, ReceiveUnverified, StartPacketTransition,
     StartCandidateTransition
<1>10. ASSUME NEW w \in Workers, Begin(w) \/ Continue(w) PROVE w = m
  <2>1. \E j : job' = [job EXCEPT ![w] = j]
    <3>1. ASSUME NEW j, Step(w, j) PROVE job' = [job EXCEPT ![w] = j]
      BY <3>1 DEF Step
    <3>2. CASE Begin(w)
      BY <3>1, <3>2 DEF Begin, Receive, ReceiveUnverified, StartPacketTransition,
                        StartCandidateTransition
    <3>3. CASE Continue(w)
      BY <3>1, <3>3 DEF Continue, ReadPacket, ReadCandidate, ReadArtifacts, CommitAccepted,
         CommitDenied, CommitRejection, CommitPolicyAccepted, CommitPolicyDenied,
         CommitPolicyRejection, RecordAttempt, Rollback, PacketTransition,
         CandidateTransition, RejectedTransition, AbandonedTransition, Transition, Adjudicate
    <3> QED BY <1>10, <3>2, <3>3
  <2> QED BY <1>2, <2>1
<1>11. Begin(m) \/ Continue(m)
  <2>1. CASE Prepare \/ UNCHANGED vars
    BY <2>1 DEF Prepare, BootstrapTrust, PreparePacketOperation, PreparePolicyOperation,
                EditArtifacts, vars
  <2> QED BY <1>10, <2>1 DEF LiveNext
<1> QED BY <1>4, <1>6, <1>7, <1>8, <1>9, <1>11 DEF Continue

(***************************************************************************)
(* Where no process dies and candidates are not moved on their own, a      *)
(* verified operation never slips away: every step of its worker brings it *)
(* closer to its transaction, of at most four, and when the worker lets go *)
(* the operation is consumed, by this worker or by the rival that made it  *)
(* roll back.  With fair workers this is VerifiedIsConsumed.               *)
(***************************************************************************)
THEOREM VerifiedNeverSlips ==
  ASSUME CandidateSteps = {}
  PROVE  LiveSpec => NeverSlips
<1>1. IInv /\ TransactionsDecide /\ [LiveNext]_vars =>
        \A m \in Workers : job[m].phase \in VerifiedPhase /\ job'[m] # job[m] =>
          \/ job[m].op \in ConsumedOps'
          \/ /\ job'[m].op = job[m].op /\ job'[m].phase \in VerifiedPhase
             /\ Left(job'[m].phase) < Left(job[m].phase)
  BY WorkerKeepsOn
<1>2. [LiveNext]_vars => [Next]_vars
  BY DEF LiveNext, Next
<1> QED BY <1>1, <1>2, Inductive, TransactionsAlwaysDecide, PTL
        DEF Spec, LiveSpec, NeverSlips
=============================================================================
