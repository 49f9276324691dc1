-------------------------- MODULE CapabilityPolicy --------------------------
(***************************************************************************)
(* The capability evaluator: given the grants and revocations visible in   *)
(* one database transaction, is this principal allowed this capability for *)
(* this state pair and packet scope, and if not, for which reason?         *)
(*                                                                         *)
(* A scope (brand, channel, destination) is one value: the three mismatch  *)
(* codes of the evaluator, which differ only in the component they name,   *)
(* are the one reason SCOPE_MISMATCH.                                      *)
(***************************************************************************)
EXTENDS Integers, Workflow

CONSTANT None          \* the absent value: SQL NULL, Python None

Version == "1.0"

\* Why the evaluator allows, denies, or does not evaluate.
AllowReason == {"ACTIVE_GRANT", "BOOTSTRAP_ALLOWED"}
PassReason  == {"REPLAY_REJECTED", "REQUEST_BINDING_REJECTED"}
DenyReason  ==
  { "SCOPE_REQUIRED", "REQUEST_SCOPE_MISMATCH", "POLICY_NOT_BOOTSTRAPPED",
    "NO_ACTIVE_GRANT", "CAPABILITY_MISMATCH", "STATE_SCOPE_MISMATCH",
    "LEGACY_UNSCOPED_GRANT", "SCOPE_MISMATCH", "GRANT_REVOKED",
    "POLICY_ALREADY_BOOTSTRAPPED", "UNKNOWN_SUBJECT_PRINCIPAL", "UNKNOWN_GRANT",
    "GRANT_BINDING_MISMATCH", "GRANT_ALREADY_REVOKED", "LAST_POLICY_ADMIN" }
Reason == AllowReason \cup PassReason \cup DenyReason \cup {"none"}

\* A decision, as every adjudicated event records it.
Allowed(grant)       == [status |-> "allowed", reason |-> "ACTIVE_GRANT",
                         grant |-> grant]
BootstrapAllowed     == [status |-> "allowed", reason |-> "BOOTSTRAP_ALLOWED",
                         grant |-> None]
Denied(reason)       == [status |-> "denied", reason |-> reason, grant |-> None]
NotEvaluated(reason) == [status |-> "not_evaluated", reason |-> reason,
                         grant |-> None]
NoDecision           == [status |-> "none", reason |-> "none", grant |-> None]

IsRevoked(revocations, grant) == \E r \in revocations : r.grant = grant

\* The grants that bind exactly this principal, capability, state pair and,
\* for a packet capability, this scope; revoked ones are still among them.
MatchingGrants(grants, principal, capability, prior, requested, scope) ==
  {g \in grants :
     /\ g.subject = principal
     /\ g.capability = capability
     /\ CapabilityStateScope(g.capability, None) = <<prior, requested>>
     /\ capability \in PacketCapability =>
          g.version = Version /\ g.scope = scope}

\* mutant: revoked grants still authorize
ActiveGrantsEver(grants, revocations, principal, capability, prior, requested, scope) ==
  MatchingGrants(grants, principal, capability, prior, requested, scope)

ActiveGrants(grants, revocations, principal, capability, prior, requested, scope) ==
  {g \in MatchingGrants(grants, principal, capability, prior, requested, scope) :
     ~ IsRevoked(revocations, g.id)}

\* A packet capability needs a scope, a management capability admits none.
ScopeFits(capability, scope) == (scope # None) <=> (capability \in PacketCapability)

\* The first check that fails names the denial.
DenialReason(grants, bootstrapped, principal, capability, prior, requested, scope) ==
  LET own    == {g \in grants : g.subject = principal}
      ofCap  == {g \in own : g.capability = capability}
      exact  == {g \in ofCap :
                   CapabilityStateScope(g.capability, None) = <<prior, requested>>}
      scoped == {g \in exact : g.version = Version}
      packet == capability \in PacketCapability
  IN  IF packet /\ scope = None          THEN "SCOPE_REQUIRED"
      ELSE IF ~ packet /\ scope # None   THEN "REQUEST_SCOPE_MISMATCH"
      ELSE IF ~ bootstrapped             THEN "POLICY_NOT_BOOTSTRAPPED"
      ELSE IF own = {}                   THEN "NO_ACTIVE_GRANT"
      ELSE IF ofCap = {}                 THEN "CAPABILITY_MISMATCH"
      ELSE IF exact = {}                 THEN "STATE_SCOPE_MISMATCH"
      ELSE IF packet /\ scoped = {} /\ \E g \in exact : g.scope = None
                                         THEN "LEGACY_UNSCOPED_GRANT"
      ELSE IF packet /\ ~ \E g \in scoped : g.scope = scope
                                         THEN "SCOPE_MISMATCH"
      ELSE "GRANT_REVOKED"

\* The active grant with the lowest event sequence authorizes.
Earliest(active) == CHOOSE g \in active : \A h \in active : g.seq <= h.seq

Evaluate(grants, revocations, bootstrapped, principal, capability, prior, requested, scope) ==
  LET active == ActiveGrants(grants, revocations, principal, capability,
                             prior, requested, scope)
  IN  IF bootstrapped /\ ScopeFits(capability, scope) /\ active # {}
      THEN Allowed(Earliest(active).id)
      ELSE Denied(DenialReason(grants, bootstrapped, principal, capability,
                               prior, requested, scope))

\* The transaction's own checks before it evaluates: the packet row and the
\* signed request must both carry a scope, and the same one.
\* mutant: the scope the request claims is the one evaluated
EvaluateRequestTrusting(grants, revocations, bootstrapped, principal, capability, prior, requested, packetScope, requestScope) ==
  Evaluate(grants, revocations, bootstrapped,
           principal, capability, prior, requested, requestScope)

EvaluateRequest(grants, revocations, bootstrapped, principal, capability, prior, requested, packetScope, requestScope) ==
  IF packetScope = None \/ requestScope = None
  THEN Denied("SCOPE_REQUIRED")
  ELSE IF packetScope # requestScope
  THEN Denied("REQUEST_SCOPE_MISMATCH")
  ELSE Evaluate(grants, revocations, bootstrapped,
                principal, capability, prior, requested, packetScope)
=============================================================================
