---------------------------- MODULE MCAuthority ----------------------------
(***************************************************************************)
(* Instances of AuthorityAudit for TLC: the operations that get signed,    *)
(* what is committed before the history starts, and the local steps asked  *)
(* for, one group of definitions per run.                                  *)
(***************************************************************************)
EXTENDS AuthorityAudit, TLC

Symmetry == Permutations(Workers)

PacketRequest(k, p, who, scope) ==
  [ kind |-> k, principal |-> who, packet |-> p, scope |-> scope,
    version |-> IF scope = None THEN None ELSE Version,
    subject |-> None, capability |-> Semantics[k].capability, target |-> None ]

PolicyRequest(k, who, subject, capability, scope, target) ==
  [ kind |-> k, principal |-> who, packet |-> None, scope |-> scope,
    version |-> Version, subject |-> subject, capability |-> capability,
    target |-> target ]

PriorGrant(id, capability, version, scope, seq) ==
  [ id |-> id, subject |-> "alice", capability |-> capability,
    version |-> version, scope |-> scope, seq |-> seq ]

Nobody == {}
Alice  == {"alice"}
NoSteps == {}
NoGrants == {}
NoEnvelopes == {}
OneScope == {"s1"}
TwoScopes == {"s1", "s2"}
OnePacket == {"p1"}
Contents == {"receipt1", "receipt2", "tampered"}
GoodContents == {"receipt1", "receipt2"}
ScopedPacket == [p \in Packets |-> "s1"]
StartAwaiting == [p \in Packets |-> "AWAITING_APPROVAL"]
StartGenerated == [p \in Packets |-> "PACKET_GENERATED"]

-----------------------------------------------------------------------------
\* Races over one packet: two decisions, a release, and the revocation of the
\* grant that the release needs.
RaceOps == {"approve1", "reject1", "release1", "revoke1"}
RaceRequest ==
  [ approve1 |-> PacketRequest("approve", "p1", "alice", "s1"),
    reject1  |-> PacketRequest("reject",  "p1", "alice", "s1"),
    release1 |-> PacketRequest("release", "p1", "alice", "s1"),
    revoke1  |-> PolicyRequest("revoke", "alice", "alice", "packet.release", "s1", "g3") ]
RaceGrants ==
  { PriorGrant("g0", "policy.manage_capabilities", Version, None, 1),
    PriorGrant("g1", "packet.approve", Version, "s1", 2),
    PriorGrant("g2", "packet.reject",  Version, "s1", 3),
    PriorGrant("g3", "packet.release", Version, "s1", 4) }

-----------------------------------------------------------------------------
\* The policy from nothing: the registry and the policy are bootstrapped, a
\* second administrator grant is issued, and both are revoked at once, one of
\* them twice, while another grant is under way.  One envelope was signed by
\* hand: it grants to a principal nobody registered.
PolicyOps == {"boot1", "boot2", "admin", "revokeBoot", "revokeBootAgain",
              "revokeAdmin", "late", "stranger"}
PolicyRequests ==
  [ boot1       |-> PolicyRequest("bootstrap", "alice", "alice", Manage, None, None),
    boot2       |-> PolicyRequest("bootstrap", "alice", "alice", Manage, None, None),
    admin       |-> PolicyRequest("grant", "alice", "alice", Manage, None, None),
    revokeBoot  |-> PolicyRequest("revoke", "alice", "alice", Manage, None, "boot1"),
    revokeBootAgain |-> PolicyRequest("revoke", "alice", "alice", Manage, None, "boot1"),
    revokeAdmin |-> PolicyRequest("revoke", "alice", "alice", Manage, None, "admin"),
    late        |-> PolicyRequest("grant", "alice", "alice", "packet.release", "s1", None),
    stranger    |-> PolicyRequest("grant", "alice", "bob", Manage, None, None) ]
PolicyHandSigned == {[op |-> "stranger", bytes |-> None, approval |-> None]}
AliceAndBob == {"alice", "bob"}
OneContent == {"receipt1"}

\* The local state machine around the authority pairs: a worker asks for the
\* next state, for an authority state and for failure while others decide.
LocalOps == {"approve1", "release1"}
LocalRequest == [o \in LocalOps |-> RaceRequest[o]]
LocalSteps == {"AWAITING_APPROVAL", "APPROVED", "FAILED"}
LocalUnverified == {<<"p1", "APPROVED">>, <<None, None>>}

\* Scopes: two packets in two scopes, a scoped and a legacy grant, a grant for
\* the second scope that arrives late, and envelopes signed by hand for the
\* wrong scope and for none.
TwoPackets == {"p1", "p2"}
PacketScopes == [p1 |-> "s1", p2 |-> "s2"]
ScopeOps == {"approve1", "approve2", "approveWrong", "rejectNone", "reject1", "grant2"}
ScopeRequest ==
  [ approve1     |-> PacketRequest("approve", "p1", "alice", "s1"),
    approve2     |-> PacketRequest("approve", "p2", "alice", "s2"),
    approveWrong |-> PacketRequest("approve", "p2", "alice", "s1"),
    rejectNone   |-> PacketRequest("reject",  "p2", "alice", None),
    reject1      |-> PacketRequest("reject",  "p1", "alice", "s1"),
    grant2       |-> PolicyRequest("grant", "alice", "alice", "packet.approve", "s2", None) ]
HandSign(o) == [op |-> o, bytes |-> "receipt1", approval |-> None]
ScopeHandSigned == {HandSign("approveWrong"), HandSign("rejectNone")}
ScopeGrants ==
  { PriorGrant("g0", "policy.manage_capabilities", Version, None, 1),
    PriorGrant("g1", "packet.approve", Version, "s1", 2),
    PriorGrant("g2", "packet.reject", None, None, 3) }

\* Candidate-only transitions beside the packet they leave behind.
CandidateOnly == {"FAILED", "APPROVED", "RELEASED"}
PacketFailure == {"FAILED"}

\* A grant issued before grants carried a scope, and its revocation.
LegacyOps == {"revokeLegacy", "revokeScoped"}
LegacyRequest ==
  [ revokeLegacy |-> PolicyRequest("revoke", "alice", "alice", "packet.reject", None, "g2"),
    revokeScoped |-> PolicyRequest("revoke", "alice", "alice", "packet.approve", "s1", "g1") ]
=============================================================================
