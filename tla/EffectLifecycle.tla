-------------------------- MODULE EffectLifecycle --------------------------
(***************************************************************************)
(* What is promised about external effects, without rows, files, executor  *)
(* runs or results in flight.  A packet goes one way: released, requested  *)
(* once for the target of its scope, then claimed, and claimed again only  *)
(* after a failure that permits it.  Whatever is claimed how often, the    *)
(* effect occurs at most once and never before the first claim, and        *)
(* success is recorded only of an effect that occurred.                    *)
(*                                                                         *)
(* It is not promised that a failure that permits another claim means that *)
(* the effect has not occurred.                                            *)
(***************************************************************************)
CONSTANTS
  Packets, Scopes, PacketScope, Targets,
  Bytes,         \* what an effect may deliver
  Vouched        \* packets whose success others report with an executor's key

VARIABLES
  destination,   \* the target bound to each scope, {} or one
  stage,         \* how far each packet is
  target,        \* the target requested for each packet, {} or one
  delivered      \* what the effect of each packet delivered, {} or one

vars == <<destination, stage, target, delivered>>

Init ==
  /\ destination = [s \in Scopes |-> {}]
  /\ stage = [p \in Packets |-> "unreleased"]
  /\ target = [p \in Packets |-> {}]
  /\ delivered = [p \in Packets |-> {}]

\* A scope gets one target, which no other scope has.
Bind(s, t) ==
  /\ destination[s] = {} /\ \A o \in Scopes : t \notin destination[o]
  /\ destination' = [destination EXCEPT ![s] = {t}]
  /\ UNCHANGED <<stage, target, delivered>>

Turn(p, from, to) ==
  /\ stage[p] = from /\ stage' = [stage EXCEPT ![p] = to]
  /\ UNCHANGED <<destination, delivered>>

Release(p) == Turn(p, "unreleased", "released") /\ UNCHANGED target

Derive(p) ==
  /\ Turn(p, "released", "requested")
  /\ destination[PacketScope[p]] # {}
  /\ target' = [target EXCEPT ![p] = destination[PacketScope[p]]]

Claim(p) ==
  /\ Turn(p, "requested", "claimed") \/ Turn(p, "retry", "claimed")
  /\ UNCHANGED target

Deliver(p, b) ==
  /\ stage[p] \in {"claimed", "retry", "succeeded", "abandoned"}
  /\ delivered[p] = {} /\ delivered' = [delivered EXCEPT ![p] = {b}]
  /\ UNCHANGED <<destination, stage, target>>

\* The three ends of a claim; only the first is not final.
Permit(p)  == Turn(p, "claimed", "retry") /\ UNCHANGED target
GiveUp(p)  == Turn(p, "claimed", "abandoned") /\ UNCHANGED target
Succeed(p) ==
  /\ delivered[p] # {} \/ p \in Vouched
  /\ Turn(p, "claimed", "succeeded") /\ UNCHANGED target

\* Most of what executors do, and every edit of a file, does not show.
Next ==
  \/ UNCHANGED vars
  \/ \E s \in Scopes, t \in Targets : Bind(s, t)
  \/ \E p \in Packets :
       \/ Release(p) \/ Derive(p) \/ Claim(p)
       \/ Permit(p) \/ GiveUp(p) \/ Succeed(p)
       \/ \E b \in Bytes : Deliver(p, b)

Spec == Init /\ [][Next]_vars
=============================================================================
