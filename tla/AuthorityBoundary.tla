------------------------- MODULE AuthorityBoundary -------------------------
(***************************************************************************)
(* What the authority boundary promises, without workers, reads, envelopes *)
(* in flight, rows or events: an operation signed by a registered          *)
(* principal is used once, either refused or in one indivisible step that  *)
(* finds its packet in the prior state and an active grant for exactly it. *)
(* Approval seals the bytes that were signed, release publishes bytes that *)
(* were sealed, and any other move of a packet avoids the authority pairs. *)
(***************************************************************************)
EXTENDS CapabilityPolicy

CONSTANTS
  Packets, PacketScope, Start,   \* packets, their scopes and first states
  Principals, Trusted,           \* would-be authorities, those known at first
  Ops, Request,                  \* operations and what each asks for
  Bytes, Intact,                 \* packet contents, those that recompute
  Endowed,                       \* powers held before the history
  PreSigned                      \* signatures made without asking the program

Manage == "policy.manage_capabilities"

VARIABLES
  registry,     \* the registered principals
  signatures,   \* pairs of an operation and the bytes its signature covers
  used,         \* operations accepted or refused, for good
  powers,       \* grants issued and not taken back
  founded,      \* the policy has had its bootstrap
  status,       \* state of each packet
  sealed,       \* the bytes an approval sealed, per packet
  published     \* the bytes a release published, per packet

vars == <<registry, signatures, used, powers, founded, status, sealed, published>>

policy  == <<used, powers, founded>>
packets == <<status, sealed, published>>

Init ==
  /\ registry = Trusted
  /\ signatures = PreSigned
  /\ used = {}
  /\ powers = Endowed
  /\ founded = (Endowed # {})
  /\ status = Start
  /\ sealed = [p \in Packets |-> {}]
  /\ published = [p \in Packets |-> {}]

\* The first principal to come is the only one.
Register(q) ==
  /\ registry = {} /\ registry' = {q}
  /\ UNCHANGED <<signatures, policy, packets>>

\* A principal signs an operation once, on a packet only over intact bytes.
Sign(o, b) ==
  /\ Request[o].principal \in registry
  /\ \A s \in signatures : s[1] # o
  /\ b \in IF Request[o].kind \in PacketOperation THEN Intact ELSE {None}
  /\ signatures' = signatures \cup {<<o, b>>}
  /\ UNCHANGED <<registry, policy, packets>>

-----------------------------------------------------------------------------
\* Whatever comes of an operation, it was signed, and this is its only use.
Uses(o) ==
  /\ o \notin used /\ Request[o].principal \in registry
  /\ \E s \in signatures : s[1] = o
  /\ used' = used \cup {o}
  /\ UNCHANGED <<registry, signatures>>

Refuse(o) ==
  /\ Uses(o)
  /\ UNCHANGED <<powers, founded, packets>>

\* A power for exactly this capability in exactly the scope of the packet,
\* which is also the scope that was asked for.
Authorized(r) ==
  /\ founded /\ r.scope # None /\ r.scope = PacketScope[r.packet]
  /\ \E g \in powers :
       /\ g.subject = r.principal
       /\ g.capability = Semantics[r.kind].capability
       /\ g.version = Version /\ g.scope = r.scope

PacketStep(o) ==
  LET r == Request[o]
  IN  /\ r.kind \in PacketOperation
      /\ Uses(o) /\ Authorized(r)
      /\ status[r.packet] = Semantics[r.kind].prior
      /\ status' = [status EXCEPT ![r.packet] = Semantics[r.kind].requested]
      /\ UNCHANGED <<powers, founded>>

Approve(o, b) ==
  LET p == Request[o].packet
  IN  /\ Request[o].kind = "approve" /\ PacketStep(o)
      /\ <<o, b>> \in signatures /\ b \in Intact
      /\ sealed[p] = {} /\ sealed' = [sealed EXCEPT ![p] = {b}]
      /\ UNCHANGED published

Reject(o) ==
  /\ Request[o].kind = "reject" /\ PacketStep(o)
  /\ UNCHANGED <<sealed, published>>

Release(o, b) ==
  LET p == Request[o].packet
  IN  /\ Request[o].kind = "release" /\ PacketStep(o)
      /\ <<o, b>> \in signatures /\ b \in sealed[p]
      /\ published[p] = {} /\ published' = [published EXCEPT ![p] = {b}]
      /\ UNCHANGED sealed

\* Every other move of a packet follows the map around the authority pairs.
Move(p) ==
  /\ \E next \in Transitions[status[p]] :
       /\ <<status[p], next>> \notin AuthoritySensitive
       /\ status' = [status EXCEPT ![p] = next]
  /\ UNCHANGED <<registry, signatures, policy, sealed, published>>

-----------------------------------------------------------------------------
\* The policy: founded once by the one principal, then run by administrators,
\* of whom one always remains.
Administrators == {g \in powers : g.capability = Manage}

Power(o) ==
  [ id |-> o, subject |-> Request[o].subject, capability |-> Request[o].capability,
    version |-> Request[o].version, scope |-> Request[o].scope ]

Found(o) ==
  /\ Request[o].kind = "bootstrap" /\ Uses(o)
  /\ ~ founded /\ powers = {} /\ registry = {Request[o].principal}
  /\ Power(o).subject = Request[o].principal /\ Power(o).capability = Manage
  /\ powers' = {Power(o)} /\ founded'
  /\ UNCHANGED packets

Administers(o) ==
  /\ Uses(o) /\ founded
  /\ \E g \in Administrators : g.subject = Request[o].principal
  /\ UNCHANGED <<founded, packets>>

GrantPower(o) ==
  /\ Request[o].kind = "grant" /\ Administers(o)
  /\ Request[o].subject \in registry /\ Request[o].version = Version
  /\ \A g \in powers : g.id # o
  /\ powers' = powers \cup {Power(o)}

RevokePower(o) ==
  LET r == Request[o]
  IN  /\ r.kind = "revoke" /\ Administers(o)
      /\ \E g \in powers :
           /\ g = [Power(o) EXCEPT !.id = r.target]
           /\ g.capability = Manage => Administrators # {g}
           /\ powers' = powers \ {g}

-----------------------------------------------------------------------------
Next ==
  \/ \E q \in Principals : Register(q)
  \/ \E p \in Packets : Move(p)
  \/ \E o \in Ops :
       \/ \E b \in Bytes \cup {None} : Sign(o, b) \/ Approve(o, b) \/ Release(o, b)
       \/ Reject(o) \/ Refuse(o)
       \/ Found(o) \/ GrantPower(o) \/ RevokePower(o)

Spec == Init /\ [][Next]_vars
=============================================================================
