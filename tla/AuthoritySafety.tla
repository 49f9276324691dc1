-------------------------- MODULE AuthoritySafety --------------------------
(***************************************************************************)
(* What the authority boundary promises, over Authority: invariants that   *)
(* relate the canonical tables to the event chain, what a step may never   *)
(* do, and what must eventually happen to a request a worker received.     *)
(***************************************************************************)
EXTENDS Authority

Accepted(i)    == log[i].outcome = "accepted"
Verified(i)    == log[i].authentication = "verified"
SeqOf(i)       == PriorEvents + i
GrantNamed(id) == CHOOSE g \in grants : g.id = id

(***************************************************************************)
(* Every verified operation is adjudicated once: the consumed-operation    *)
(* rows and the verified events of the chain correspond one to one, with   *)
(* the same outcome, however many workers received copies of the operation *)
(* before the first of them committed (insert_authenticated_operation).    *)
(***************************************************************************)
AdjudicatedOnce ==
  /\ \A c, d \in consumed : c.op = d.op => c = d
  /\ \A c \in consumed : \E i \in DOMAIN log :
       /\ c.seq = SeqOf(i) /\ Verified(i)
       /\ log[i].op = c.op /\ log[i].outcome = c.outcome
  /\ \A i \in DOMAIN log : Verified(i) =>
       \E c \in consumed : c.op = log[i].op /\ c.seq = SeqOf(i)

(***************************************************************************)
(* Every accepted authority event cites a grant that authorizes exactly    *)
(* it: issued to its principal, for its capability, its state pair and the *)
(* scope of its packet, earlier in the chain, and not revoked before it (a *)
(* revocation may cite the very grant it takes back).                      *)
(* The checks before the transaction know nothing of grants; only the      *)
(* transaction's own evaluation stands between a concurrent revocation and *)
(* a commit (_commit_authority_transition).                                *)
(***************************************************************************)
CapabilityFor(o) == IF IsPacketOp(o) THEN Request[o].capability ELSE Manage

Cites(i, g) ==
  LET o == log[i].op
  IN  /\ g.id = log[i].decision.grant
      /\ g.subject = Request[o].principal
      /\ g.capability = CapabilityFor(o)
      /\ CapabilityStateScope(g.capability, None) = <<log[i].prior, log[i].requested>>
      /\ IsPacketOp(o) => /\ g.version = Version
                          /\ g.scope = PacketScope[log[i].packet]
                          /\ g.scope = Request[o].scope
      /\ g.seq < SeqOf(i)
      /\ \A r \in revocations : r.grant = g.id => r.seq >= SeqOf(i)

Bootstraps(i) ==
  /\ Request[log[i].op].kind = "bootstrap" /\ PriorGrants = {}
  /\ \A k \in DOMAIN log : Accepted(k) /\ k < i => log[k].op = None

AcceptedIsAuthorized ==
  \A i \in DOMAIN log : Accepted(i) /\ log[i].op # None =>
    (\E g \in grants : Cites(i, g)) \/ Bootstraps(i)

(***************************************************************************)
(* A released packet was approved: the accepted release comes after an     *)
(* accepted approval of the same packet, the one it signed, and both saw   *)
(* the same bytes on disk, which still recompute to the stored manifest    *)
(* (_verify_artifacts, _verify_release_approval).                          *)
(***************************************************************************)
ReleasedAsApproved ==
  \A i \in DOMAIN log : Accepted(i) /\ log[i].kind = "release" =>
    \E k \in DOMAIN log :
      /\ k < i /\ Accepted(k) /\ log[k].kind = "approve"
      /\ log[k].packet = log[i].packet
      /\ log[k].bytes = log[i].bytes /\ log[i].bytes \in Intact
      /\ \E e \in signed : e.op = log[i].op /\ e.approval = log[k].op

(***************************************************************************)
(* The chain explains the state: the accepted events that move a packet    *)
(* form one path of valid transitions from where it started to where it is *)
(* now, without a gap or a fork, although every one of them read its prior *)
(* state outside the transaction (_commit_packet_transition).              *)
(***************************************************************************)
Moves(p) == {i \in DOMAIN log : /\ Accepted(i) /\ log[i].packet = p
                                /\ log[i].kind # "transition_candidate"}

StateBefore(p, i) ==
  LET earlier == {k \in Moves(p) : k < i}
  IN  IF earlier = {} THEN Start[p]
      ELSE log[CHOOSE k \in earlier : \A h \in earlier : h <= k].requested

ChainExplainsState ==
  \A p \in Packets :
    /\ \A i \in Moves(p) : /\ log[i].prior = StateBefore(p, i)
                           /\ ValidTransition(log[i].prior, log[i].requested)
    /\ packetState[p] = StateBefore(p, Len(log) + 1)

(***************************************************************************)
(* A packet is decided at most once, and stands where the decision put it: *)
(* approved or rejected by exactly the operation the approvals table names *)
(* (CanonicalTransitionService.commit, approval_factory).                  *)
(***************************************************************************)
Decisions(p) == {a \in approvals : a.packet = p}

DecidedOnce ==
  \A p \in Packets :
    /\ \A a, b \in Decisions(p) : a = b
    /\ packetState[p] \in {"APPROVED", "RELEASED"} => ApprovedOf(p) # {}
    /\ packetState[p] = "REJECTED" =>
         \E a \in Decisions(p) : a.decision = "REJECTED"
    /\ \A a \in Decisions(p) : \E c \in consumed :
         c.op = a.op /\ c.seq = a.seq /\ c.outcome = "accepted"

\* Packets mirror their candidate's state (docs/state-machine.md:41).
PairedStates == \A p \in Packets : Paired(p)

(***************************************************************************)
(* Once the policy is bootstrapped an unrevoked administrator grant always *)
(* remains, even when all administrator grants are revoked concurrently    *)
(* (the LAST_POLICY_ADMIN check of the policy transaction).                *)
(***************************************************************************)
AdminRemains ==
  bootstrapped => \E g \in grants : g.capability = Manage /\ ~ IsRevoked(revocations, g.id)

(***************************************************************************)
(* A revocation takes back a grant once and for all: a grant has at most   *)
(* one revocation, issued after it by an operation that was allowed to.    *)
(***************************************************************************)
RevokedOnce ==
  \A r \in revocations :
    /\ \A s \in revocations : s.grant = r.grant => s = r
    /\ \E g \in grants : g.id = r.grant /\ g.seq < r.seq

(***************************************************************************)
(* The trust and the policy bootstrap happen once: never two principals in *)
(* the registry, and at most one accepted bootstrap, by that principal,    *)
(* however many bootstrap operations were signed and raced.                *)
(***************************************************************************)
BootstrapsOnce ==
  /\ \A q, r \in trusted : q = r
  /\ \A i, k \in DOMAIN log :
       /\ Accepted(i) /\ log[i].kind = "bootstrap"
       /\ Accepted(k) /\ log[k].kind = "bootstrap"
       => i = k /\ Request[log[i].op].principal \in trusted

-----------------------------------------------------------------------------
\* What a step may never do.

(***************************************************************************)
(* A packet crosses an authority-sensitive pair only in a step that        *)
(* consumes an operation signed for exactly that packet and that pair; no  *)
(* local transition does, whatever it read before (MediatedTransition-     *)
(* Required in transition_packet, PermissionError in database.py).         *)
(***************************************************************************)
OnlySignedCrossesAuthority ==
  [][ \A p \in Packets :
        <<packetState[p], packetState'[p]>> \in AuthoritySensitive =>
          \E o \in Ops :
            /\ o \notin ConsumedOps /\ o \in ConsumedOps'
            /\ Request[o].packet = p
            /\ Semantics[Request[o].kind].prior = packetState[p]
            /\ Semantics[Request[o].kind].requested = packetState'[p] ]_vars

\* A packet that is released, rejected or failed never moves again, and the
\* operations still in flight for it can only be rejected.
TerminalIsFinal ==
  [][ \A p \in Packets : packetState[p] \in Terminal => packetState'[p] = packetState[p] ]_vars

-----------------------------------------------------------------------------
\* The tables and the chain seen as the boundary a reader has in mind.
PowerOf(g) == [ id |-> g.id, subject |-> g.subject, capability |-> g.capability,
                version |-> g.version, scope |-> g.scope ]

Unrevoked == {g \in grants : ~ IsRevoked(revocations, g.id)}

BytesOf(kind, p) ==
  {log[i].bytes : i \in {k \in DOMAIN log :
                           Accepted(k) /\ log[k].kind = kind /\ log[k].packet = p}}

Boundary ==
  INSTANCE AuthorityBoundary WITH
    Endowed    <- {PowerOf(g) : g \in PriorGrants},
    PreSigned  <- {<<e.op, e.bytes>> : e \in HandSigned},
    registry   <- trusted,
    signatures <- {<<e.op, e.bytes>> : e \in signed},
    used       <- ConsumedOps,
    powers     <- {PowerOf(g) : g \in Unrevoked},
    founded    <- bootstrapped,
    status     <- packetState,
    sealed     <- [p \in Packets |-> BytesOf("approve", p)],
    published  <- [p \in Packets |-> BytesOf("release", p)]

(***************************************************************************)
(* The system implements the boundary: although a worker authenticates,    *)
(* reads the packet, the candidate and the files, and evaluates the policy *)
(* in separate steps among edits, crashes, replays and rivals, each commit *)
(* is one step that would have been allowed had it done all that at once,  *)
(* what it seals is what was signed and what it publishes was sealed.      *)
(***************************************************************************)
ImplementsBoundary == Boundary!Spec

-----------------------------------------------------------------------------
(***************************************************************************)
(* Fairness: a command is one process that runs its steps to the end       *)
(* unless it dies, so every worker that can continue does.                 *)
(***************************************************************************)
LiveNext == Prepare \/ \E m \in Workers : Begin(m) \/ Continue(m)
LiveSpec == Init /\ [][LiveNext]_vars /\ \A m \in Workers : WF_vars(Continue(m))

VerifiedPhase == {"packet", "candidate", "artifacts", "commit", "reject",
                  "policy", "policy_reject"}

(***************************************************************************)
(* Without a crash, an operation that authenticated is consumed in the     *)
(* end: by this worker, accepted or rejected, or by a rival whose commit   *)
(* made this one roll back.  No binding failure, denial or lost race lets  *)
(* a verified operation survive to be tried again.                         *)
(***************************************************************************)
VerifiedIsConsumed ==
  \A m \in Workers, o \in Ops :
    (job[m].op = o /\ job[m].phase \in VerifiedPhase) ~> (o \in ConsumedOps)
=============================================================================
