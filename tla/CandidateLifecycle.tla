------------------------ MODULE CandidateLifecycle ------------------------
(***************************************************************************)
(* What the pipeline promises about a candidate and its packets, without   *)
(* commands, files or processes: a candidate is discovered once and moves  *)
(* along the transition map one state at a time, and it gets one packet,   *)
(* in the step that makes it PACKET_GENERATED.                             *)
(***************************************************************************)
EXTENDS Workflow

CONSTANTS None, Candidates, Packets

VARIABLES
  status,      \* the state of each candidate, None before it is discovered
  packetsOf    \* the packets generated for each

Init ==
  /\ status = [c \in Candidates |-> None]
  /\ packetsOf = [c \in Candidates |-> {}]

Discover(c) ==
  /\ status[c] = None
  /\ status' = [status EXCEPT ![c] = "DISCOVERED"]
  /\ UNCHANGED packetsOf

Move(c) ==
  /\ status[c] # None
  /\ \E next \in Transitions[status[c]] \ {"PACKET_GENERATED"} :
       status' = [status EXCEPT ![c] = next]
  /\ UNCHANGED packetsOf

Generate(c) ==
  /\ status[c] # None
  /\ ValidTransition(status[c], "PACKET_GENERATED")
  /\ packetsOf[c] = {}
  /\ \E k \in Packets :
       /\ \A d \in Candidates : k \notin packetsOf[d]
       /\ packetsOf' = [packetsOf EXCEPT ![c] = {k}]
  /\ status' = [status EXCEPT ![c] = "PACKET_GENERATED"]

Next == \E c \in Candidates : Discover(c) \/ Move(c) \/ Generate(c)

Spec == Init /\ [][Next]_<<status, packetsOf>>
=============================================================================
