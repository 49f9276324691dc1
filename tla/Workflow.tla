------------------------------ MODULE Workflow ------------------------------
(***************************************************************************)
(* The workflow vocabulary of the governed pipeline: the states of a       *)
(* candidate and of its packet, the transition table, and what each signed *)
(* operation asks for.  Everything here is constant-level; the state       *)
(* machines that use it are in other modules.                              *)
(***************************************************************************)

WorkflowState ==
  { "DISCOVERED", "EVIDENCE_PRESERVED", "NORMALIZED", "DUPLICATE_CHECKED",
    "QUALIFIED", "PACKET_GENERATED", "AWAITING_APPROVAL", "APPROVED",
    "RELEASED", "SUPPRESSED", "REJECTED", "FAILED" }

\* The successors of every state.
Transitions ==
  [ DISCOVERED         |-> {"EVIDENCE_PRESERVED", "FAILED"},
    EVIDENCE_PRESERVED |-> {"NORMALIZED", "FAILED"},
    NORMALIZED         |-> {"DUPLICATE_CHECKED", "SUPPRESSED", "FAILED"},
    DUPLICATE_CHECKED  |-> {"QUALIFIED", "SUPPRESSED", "FAILED"},
    QUALIFIED          |-> {"PACKET_GENERATED", "FAILED"},
    PACKET_GENERATED   |-> {"AWAITING_APPROVAL", "FAILED"},
    AWAITING_APPROVAL  |-> {"APPROVED", "REJECTED", "FAILED"},
    APPROVED           |-> {"RELEASED", "FAILED"},
    RELEASED           |-> {},
    SUPPRESSED         |-> {},
    REJECTED           |-> {},
    FAILED             |-> {} ]

ValidTransition(prior, requested) == requested \in Transitions[prior]

Terminal == {s \in WorkflowState : Transitions[s] = {}}

\* The state pairs only the transition mediator may commit.
AuthoritySensitive ==
  { <<"AWAITING_APPROVAL", "APPROVED">>,
    <<"AWAITING_APPROVAL", "REJECTED">>,
    <<"APPROVED", "RELEASED">> }

-----------------------------------------------------------------------------
\* Signed operations: those on a packet, and those on the capability policy.

PacketOperation == {"approve", "reject", "release"}
PolicyOperation == {"bootstrap", "grant", "revoke"}
Operation       == PacketOperation \cup PolicyOperation

\* What a packet operation expects, asks for, and needs.
Semantics ==
  [ approve |-> [prior      |-> "AWAITING_APPROVAL",
                 requested  |-> "APPROVED",
                 capability |-> "packet.approve"],
    reject  |-> [prior      |-> "AWAITING_APPROVAL",
                 requested  |-> "REJECTED",
                 capability |-> "packet.reject"],
    release |-> [prior      |-> "APPROVED",
                 requested  |-> "RELEASED",
                 capability |-> "packet.release"] ]

PacketCapability     == {"packet.approve", "packet.reject", "packet.release"}
ManagementCapability == {"policy.manage_capabilities", "effect.manage_bindings"}
Capability           == PacketCapability \cup ManagementCapability

\* The one state pair a capability covers; a management capability covers none.
CapabilityStateScope(capability, none) ==
  CASE capability = "packet.approve" -> <<"AWAITING_APPROVAL", "APPROVED">>
    [] capability = "packet.reject"  -> <<"AWAITING_APPROVAL", "REJECTED">>
    [] capability = "packet.release" -> <<"APPROVED", "RELEASED">>
    [] capability \in ManagementCapability -> <<none, none>>
=============================================================================
