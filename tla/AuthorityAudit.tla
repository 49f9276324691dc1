--------------------------- MODULE AuthorityAudit ---------------------------
(***************************************************************************)
(* The policy half of verify_integrity, as a function of the database: the *)
(* failures the read-only audit reports for every event, consumed          *)
(* operation, grant, revocation and packet that the authority boundary     *)
(* committed.  The question is whether the audit accepts every history     *)
(* the program itself can produce.                                         *)
(*                                                                         *)
(* Hashes, chain links and column equality are left out: the model stores  *)
(* every fact once, so they hold of it by construction.  The recomputed    *)
(* packet manifest is left out too: it fails exactly while the files are   *)
(* edited, which no history of the database explains.                      *)
(***************************************************************************)
EXTENDS AuthoritySafety

Flag(condition, code) == IF condition THEN {code} ELSE {}

Evidence(i) == log[i].decision.status

\* The capability and state pair the audit expects of a command.
CanonicalPair(o) ==
  IF IsPacketOp(o)
  THEN <<Semantics[Request[o].kind].prior, Semantics[Request[o].kind].requested>>
  ELSE <<None, None>>

\* The scope an event claims: that of the packet row, but a replay keeps the
\* one that was signed.
EvidenceScope(i) ==
  IF ~ IsPacketOp(log[i].op) THEN None
  ELSE IF log[i].authentication = "replay_rejected" THEN Request[log[i].op].scope
  ELSE PacketScope[log[i].packet]

ConsistentReason(decision) ==
  CASE decision.status = "allowed"       -> decision.reason \in AllowReason
    [] decision.status = "not_evaluated" -> decision.reason \in PassReason
    [] decision.status = "denied"        ->
         decision.reason \notin AllowReason \cup PassReason

\* The cited grant covers the event, precedes it, and was not revoked before.
GrantCovers(g, i) ==
  LET o == log[i].op
  IN  /\ g.subject = Request[o].principal
      /\ g.capability = CapabilityFor(o)
      /\ CapabilityStateScope(g.capability, None) = <<log[i].prior, log[i].requested>>
      /\ g.seq < SeqOf(i)
      /\ ~ \E r \in revocations : r.grant = g.id /\ r.seq < SeqOf(i)
      /\ IsPacketOp(o) => g.version = Version /\ g.scope = EvidenceScope(i)

\* Since when events must carry authorization evidence.
PolicyStarted(i) ==
  \/ PriorGrants # {}
  \/ \E k \in DOMAIN log : k <= i /\ Accepted(k) /\ log[k].kind = "bootstrap"

EventFailures(i) ==
  IF Evidence(i) = "none"
  THEN Flag(/\ PolicyStarted(i) /\ log[i].kind \in Operation
            /\ log[i].authentication \in {"verified", "replay_rejected"},
            "missing_authorization_evidence")
  ELSE LET d == log[i].decision
       IN  Flag(CanonicalPair(log[i].op) # <<log[i].prior, log[i].requested>>,
                "invalid_authorization_scope")
           \cup Flag(~ ConsistentReason(d), "invalid_authorization_reason")
           \cup Flag(d.status = "allowed" /\ d.grant = None /\ d.reason # "BOOTSTRAP_ALLOWED",
                     "missing_authorizing_grant")
           \cup Flag(/\ d.status = "allowed" /\ d.grant # None
                     /\ ~ \E g \in grants : g.id = d.grant /\ GrantCovers(g, i),
                     "authorizing_grant_mismatch")
           \cup Flag(/\ IsPacketOp(log[i].op) /\ EvidenceScope(i) = None
                     /\ d.reason # "SCOPE_REQUIRED",
                     "invalid_authorization_packet_scope")
           \cup Flag(/\ IsPacketOp(log[i].op) /\ PacketScope[log[i].packet] # None
                     /\ EvidenceScope(i) # PacketScope[log[i].packet],
                     "packet_event_scope_mismatch")

\* A consumed operation and the event that adjudicated it must agree.
OperationFailures(c) ==
  LET i == c.seq - PriorEvents
  IN  Flag(~ /\ i \in DOMAIN log /\ Verified(i)
             /\ log[i].op = c.op /\ log[i].outcome = c.outcome
             /\ log[i].kind = Request[c.op].kind
             /\ log[i].packet = Request[c.op].packet,
           "authenticated_operation_mismatch")

\* A grant comes from an accepted bootstrap or grant operation that asked for
\* it, and names a registered subject.
GrantFailures(g) ==
  LET i == g.seq - PriorEvents
  IN  Flag(/\ g \notin PriorGrants
           /\ ~ /\ i \in DOMAIN log /\ Accepted(i)
                /\ log[i].kind \in {"bootstrap", "grant"}
                /\ log[i].op = g.id /\ Evidence(i) = "allowed"
                /\ Request[g.id].subject = g.subject
                /\ Request[g.id].capability = g.capability
                /\ Request[g.id].version = g.version /\ Request[g.id].scope = g.scope,
           "grant_event_mismatch")
      \cup Flag(g.subject \notin trusted, "unknown_grant_principal")
      \cup Flag(~ GrantScopeFits(g.capability, g.version, g.scope), "invalid_grant_scope")

RevocationFailures(r) ==
  LET i == r.seq - PriorEvents
  IN  Flag(~ /\ i \in DOMAIN log /\ Accepted(i)
             /\ log[i].kind = "revoke" /\ log[i].op = r.op /\ Evidence(i) = "allowed"
             /\ \E g \in grants : /\ g.id = r.grant /\ g.seq < r.seq
                                  /\ Request[r.op].target = g.id
                                  /\ BindsTarget(Request[r.op], g),
           "revocation_event_mismatch")

ApprovalFailures(a) ==
  Flag(a.scope # PacketScope[a.packet], "approval_scope_mismatch")

PolicyFailures ==
  Flag(grants # {} /\ ~ bootstrapped, "missing_policy_state")
  \cup Flag(bootstrapped /\ ~ RemainingAdmin(None), "missing_effective_policy_admin")

Failures ==
  PolicyFailures
  \cup UNION {EventFailures(i)      : i \in DOMAIN log}
  \cup UNION {OperationFailures(c)  : c \in consumed}
  \cup UNION {GrantFailures(g)      : g \in grants}
  \cup UNION {RevocationFailures(r) : r \in revocations}
  \cup UNION {ApprovalFailures(a)   : a \in {b \in approvals : PacketScope[b.packet] # None}}

-----------------------------------------------------------------------------
\* A replay carries the scope it was signed for, which a key holder may have
\* written differently from that of the packet.
ReplaysOtherScope(i) ==
  /\ log[i].authentication = "replay_rejected"
  /\ \/ Request[log[i].op].scope = None
     \/ Request[log[i].op].scope # PacketScope[log[i].packet]

(***************************************************************************)
(* Whatever order signed operations, revocations, replays and crashes come *)
(* in, the audit finds nothing wrong with a history that the program wrote *)
(* except in rejected packet events, and only in those that record another *)
(* state than their operation expects, or the replay of an operation that  *)
(* was signed for another scope than that of its packet.  Every accepted   *)
(* event, grant, revocation, consumption and approval passes.              *)
(***************************************************************************)
AuditFlagsOnlyRejections ==
  /\ Failures \subseteq {"invalid_authorization_scope",
                         "invalid_authorization_packet_scope",
                         "packet_event_scope_mismatch"}
  /\ \A i \in DOMAIN log : EventFailures(i) # {} =>
       /\ log[i].outcome = "rejected" /\ IsPacketOp(log[i].op)
       /\ \/ log[i].prior # Semantics[log[i].kind].prior
          \/ ReplaysOtherScope(i)

(***************************************************************************)
(* The audit accepts every history that the program wrote.  The docs place *)
(* state-invalid and replay-rejected events in the canonical chain         *)
(* (docs/state-machine.md:86) and let verify-integrity fail on tampering   *)
(* only; a legitimate event must not make it exit nonzero.                 *)
(***************************************************************************)
AuditAcceptsEveryHistory == Failures = {}

(***************************************************************************)
(* A revocation prepared from a grant binds that grant exactly, whenever   *)
(* the grant was issued (transition-authority-hardening.md:868), so it is  *)
(* never refused for a binding mismatch.                                   *)
(***************************************************************************)
PreparedRevocationBinds ==
  \A i \in DOMAIN log : log[i].decision.reason = "GRANT_BINDING_MISMATCH" =>
    \E e \in HandSigned : e.op = log[i].op
=============================================================================
