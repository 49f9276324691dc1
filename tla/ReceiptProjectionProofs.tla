---------------------- MODULE ReceiptProjectionProofs ----------------------
(***************************************************************************)
(* Theorems about ReceiptProjection, for any number of processes, events   *)
(* and failures.                                                           *)
(*                                                                         *)
(* ProjectionFollowsCommit speaks of the log only.  What makes it hold is  *)
(* what each process knows at its phase (Working): its events are in the   *)
(* chain, and the one it is about to mark has its line, unless the log was *)
(* damaged, which it then stays (Kept).  At the end: what the liveness of  *)
(* the projection rests on besides fairness, and what a torn line does.    *)
(***************************************************************************)
EXTENDS ReceiptProjection, NaturalSets

Knows(w) ==
  LET j == job[w]
  IN  /\ j.todo \subseteq 1..committed
      /\ j.phase # "idle" => j.todo # {}
      /\ j.phase = "mark" => Copies(Current(w)) # {} \/ Damaged
      /\ j.phase = "file" => Current(w) \in marked /\ Current(w) \in Decisions

Working ==
  /\ terminated \/ lines # <<>>
  /\ \A w \in Workers : Knows(w)

IInv == ProjectionTypeOK /\ ProjectionFollowsCommit /\ Working

\* A process at work has a first event to work on (project_transition_event).
LEMMA CurrentExists ==
  ASSUME ProjectionTypeOK, NEW w \in Workers, Knows(w), job[w].phase # "idle"
  PROVE  /\ Current(w) \in job[w].todo /\ Current(w) \in Event
         /\ Current(w) \in 1..committed
<1>1. job[w].todo \subseteq Event /\ job[w].todo # {} /\ job[w].todo \subseteq 1..committed
  BY ProjectionAssumption DEF ProjectionTypeOK, Knows, Job
<1>2. \E e \in job[w].todo : \A f \in job[w].todo : e <= f
  BY <1>1, LeastExists, ProjectionAssumption DEF Event
<1>3. Current(w) \in job[w].todo
  BY <1>2 DEF Current
<1> QED BY <1>1, <1>3

\* What no step takes back: the receipts in the log, unless it is damaged, and
\* the damage (append_canonical_receipt only adds to the file).
Kept ==
  /\ Damaged => Damaged'
  /\ \A e \in Event : Copies(e) # {} => Copies(e)' # {} \/ Damaged'

\* An append adds the line, or tears the one that had no newline.
LEMMA Extension ==
  ASSUME ProjectionTypeOK, ProjectionFollowsCommit, terminated \/ lines # <<>>,
         NEW e \in Event, e <= committed, NEW body \in Body,
         lines' = Extended(e, body), terminated' \in BOOLEAN
  PROVE  /\ lines' \in Seq(Line) /\ lines' # <<>>
         /\ \A i \in DOMAIN lines' : lines'[i].event <= committed
         /\ Kept
         /\ body = "whole" => Copies(e)' # {} \/ Damaged'
<1>1. CASE terminated
  <2>1. lines' = Append(lines, [event |-> e, body |-> body])
    BY <1>1 DEF Extended
  <2>2. lines \in Seq(Line) /\ [event |-> e, body |-> body] \in Line
    BY DEF ProjectionTypeOK, Line
  <2>3. /\ lines' \in Seq(Line) /\ Len(lines') = Len(lines) + 1
        /\ \A i \in DOMAIN lines : i \in DOMAIN lines' /\ lines'[i] = lines[i]
        /\ Len(lines') \in DOMAIN lines'
        /\ lines'[Len(lines')] = [event |-> e, body |-> body]
        /\ \A i \in DOMAIN lines' : i \in DOMAIN lines \/ i = Len(lines')
    BY <2>1, <2>2
  <2>4. \A i \in DOMAIN lines' : lines'[i].event <= committed
    BY <2>3 DEF ProjectionFollowsCommit
  <2>5. Kept
    BY <1>1, <2>3 DEF Kept, Damaged, Copies, Names
  <2>6. body = "whole" => Copies(e)' # {}
    BY <2>3 DEF Copies, Names
  <2>7. lines' # <<>>
    BY <2>3, <2>2
  <2> QED BY <2>3, <2>4, <2>5, <2>6, <2>7
<1>2. CASE ~ terminated
  <2>1. lines' = [lines EXCEPT ![Len(lines)].body = "torn"]
    BY <1>2 DEF Extended
  <2>2. lines \in Seq(Line) /\ Len(lines) \in DOMAIN lines
    BY <1>2 DEF ProjectionTypeOK
  <2>3. lines[Len(lines)] \in Line
    BY <2>2
  <2>4. /\ DOMAIN lines' = DOMAIN lines /\ Len(lines) \in DOMAIN lines'
        /\ lines'[Len(lines)] = [lines[Len(lines)] EXCEPT !.body = "torn"]
        /\ \A i \in DOMAIN lines : i # Len(lines) => lines'[i] = lines[i]
    BY <2>1, <2>2
  <2>5. [lines[Len(lines)] EXCEPT !.body = "torn"] \in Line
    BY <2>3 DEF Line, Body
  <2>6. lines' \in Seq(Line)
    BY <2>1, <2>2, <2>5
  <2>7. \A i \in DOMAIN lines' : lines'[i].event = lines[i].event
    BY <2>3, <2>4 DEF Line
  <2>8. Damaged'
    <3>1. lines'[Len(lines)].body = "torn"
      BY <2>3, <2>4 DEF Line
    <3> QED BY <2>4, <3>1 DEF Damaged
  <2>9. lines' # <<>>
    BY <2>2, <2>4
  <2> QED BY <2>4, <2>6, <2>7, <2>8, <2>9 DEF Kept, ProjectionFollowsCommit
<1> QED BY <1>1, <1>2

\* What the steps of a process make of its job.
LEMMA JobAfter ==
  ASSUME ProjectionTypeOK, NEW w \in Workers
  PROVE  /\ Stop(w) => /\ job'[w] = Idle
                       /\ \A v \in Workers : v # w => job'[v] = job[v]
         /\ \A p \in Phase : Turn(w, p) =>
              /\ job'[w].phase = p /\ job'[w].todo = job[w].todo
              /\ job'[w].command = job[w].command
              /\ \A v \in Workers : v # w => job'[v] = job[v]
         /\ \A rest \in SUBSET Event :
              job' = [job EXCEPT ![w].phase = "search", ![w].todo = rest] =>
                /\ job'[w].phase = "search" /\ job'[w].todo = rest
                /\ job'[w].command = job[w].command
                /\ \A v \in Workers : v # w => job'[v] = job[v]
<1>1. job[w] \in Job /\ job \in [Workers -> Job]
  BY DEF ProjectionTypeOK
<1>2. Stop(w) => job'[w] = Idle /\ \A v \in Workers : v # w => job'[v] = job[v]
  BY <1>1 DEF Stop
<1>3. ASSUME NEW p \in Phase, Turn(w, p)
      PROVE  /\ job'[w].phase = p /\ job'[w].todo = job[w].todo
             /\ job'[w].command = job[w].command
             /\ \A v \in Workers : v # w => job'[v] = job[v]
  <2> DEFINE j == [job[w] EXCEPT !.phase = p]
  <2>1. j.phase = p /\ j.todo = job[w].todo /\ j.command = job[w].command
    BY <1>1 DEF Job
  <2>2. job' = [job EXCEPT ![w] = j]
    BY <1>3 DEF Turn
  <2>3. job'[w] = j /\ \A v \in Workers : v # w => job'[v] = job[v]
    BY <1>1, <2>2
  <2> QED BY <2>1, <2>3
<1>4. ASSUME NEW rest \in SUBSET Event,
             job' = [job EXCEPT ![w].phase = "search", ![w].todo = rest]
      PROVE  /\ job'[w].phase = "search" /\ job'[w].todo = rest
             /\ job'[w].command = job[w].command
             /\ \A v \in Workers : v # w => job'[v] = job[v]
  <2> DEFINE j == [job[w] EXCEPT !.phase = "search", !.todo = rest]
  <2>1. j.phase = "search" /\ j.todo = rest /\ j.command = job[w].command
    BY <1>1 DEF Job
  <2>2. job' = [job EXCEPT ![w] = j]
    BY <1>4
  <2>3. job'[w] = j /\ \A v \in Workers : v # w => job'[v] = job[v]
    BY <1>1, <2>2
  <2> QED BY <2>1, <2>3
<1> QED BY <1>2, <1>3, <1>4

\* The invariant holds of an empty log and an empty chain.
LEMMA Initially == Init => IInv
<1> SUFFICES ASSUME Init PROVE IInv
  OBVIOUS
<1>1. ProjectionTypeOK
  BY ProjectionAssumption DEF Init, ProjectionTypeOK, Idle, Job, Phase, Event
<1>2. ProjectionFollowsCommit /\ Working
  BY DEF Init, ProjectionFollowsCommit, Working, Knows, Idle
<1> QED BY <1>1, <1>2 DEF IInv

\* A process that changes only its own job leaves the others what they know.
LEMMA OthersKnow ==
  ASSUME IInv, NEW w \in Workers, \A v \in Workers : v # w => job'[v] = job[v],
         committed' \in Nat, committed <= committed', marked \subseteq marked', Kept
  PROVE  \A v \in Workers : v # w => Knows(v)'
<1> SUFFICES ASSUME NEW v \in Workers, v # w PROVE Knows(v)'
  OBVIOUS
<1>1. job'[v] = job[v] /\ Current(v)' = Current(v)
  BY DEF Current
<1>2. job[v].phase = "mark" => Current(v) \in Event
  BY CurrentExists DEF IInv, Working
<1>3. job[v].todo \subseteq 1..committed'
  BY DEF IInv, Working, Knows, ProjectionTypeOK
<1>4. Knows(v)
  BY DEF IInv, Working
<1> QED BY <1>1, <1>2, <1>3, <1>4 DEF Knows, Kept

\* A step that leaves the log alone keeps it.
LEMMA LogKept == UNCHANGED <<lines, terminated>> => Kept
BY DEF Kept, Damaged, Copies, Names

\* A process that stops knows nothing more.
LEMMA Stops ==
  ASSUME NEW w \in Workers, IInv, Stop(w), Kept,
         committed' = committed, marked \subseteq marked'
  PROVE  job' \in [Workers -> Job] /\ \A v \in Workers : Knows(v)'
<1>1. Idle \in Job
  BY DEF Idle, Job, Phase
<1>2. /\ job' \in [Workers -> Job] /\ job'[w] = Idle
      /\ \A v \in Workers : v # w => job'[v] = job[v]
  BY <1>1 DEF Stop, IInv, ProjectionTypeOK
<1>3. Knows(w)'
  BY <1>2 DEF Knows, Idle
<1>4. committed' \in Nat /\ committed <= committed'
  BY ProjectionAssumption DEF IInv, ProjectionTypeOK
<1>5. \A v \in Workers : v # w => Knows(v)'
  BY <1>2, <1>4, OthersKnow
<1> QED BY <1>2, <1>3, <1>5

\* A process that turns to another phase of the same event knows what it knew.
LEMMA Turns ==
  ASSUME NEW w \in Workers, NEW p \in Phase, IInv, Turn(w, p), Kept,
         committed' = committed, marked \subseteq marked', job[w].phase # "idle",
         NEW e \in Event, e = Current(w),
         p = "mark" => Copies(e)' # {} \/ Damaged',
         p = "file" => e \in marked' /\ e \in Decisions
  PROVE  job' \in [Workers -> Job] /\ \A v \in Workers : Knows(v)'
<1> DEFINE j == [job[w] EXCEPT !.phase = p]
<1>1. job[w] \in Job
  BY DEF IInv, ProjectionTypeOK
<1>2. j \in Job /\ j.phase = p /\ j.todo = job[w].todo
  BY <1>1 DEF Job
<1>3. job' = [job EXCEPT ![w] = j]
  BY DEF Turn
<1>4. /\ job' \in [Workers -> Job] /\ job'[w] = j
      /\ \A v \in Workers : v # w => job'[v] = job[v]
  BY <1>2, <1>3 DEF IInv, ProjectionTypeOK
<1>5. Current(w)' = e
  BY <1>2, <1>4 DEF Current
<1>6. Knows(w)'
  BY <1>2, <1>4, <1>5 DEF Knows, IInv, Working
<1>7. committed' \in Nat /\ committed <= committed'
  BY ProjectionAssumption DEF IInv, ProjectionTypeOK
<1>8. \A v \in Workers : v # w => Knows(v)'
  BY <1>4, <1>7, OthersKnow
<1> QED BY <1>4, <1>6, <1>8

\* Every step preserves the invariant.
LEMMA Step == IInv /\ [Next]_vars => IInv'
<1> SUFFICES ASSUME IInv, [Next]_vars PROVE IInv'
  OBVIOUS
<1> USE DEF IInv
<1>1. ASSUME NEW w \in Workers, Commit(w) PROVE IInv'
  <2> DEFINE j == [phase |-> "search", todo |-> {committed + 1}, command |-> TRUE]
  <2>1. /\ committed \in Nat /\ committed' = committed + 1 /\ committed' \in Nat
        /\ committed <= committed' /\ committed' \in 0..MaxEvents
    BY <1>1, ProjectionAssumption DEF Commit, ProjectionTypeOK
  <2>2. j \in Job
    BY <2>1, ProjectionAssumption DEF Job, Phase, Event
  <2>3. /\ job' \in [Workers -> Job] /\ job'[w] = j
        /\ \A v \in Workers : v # w => job'[v] = job[v]
    BY <1>1, <2>2 DEF Commit, ProjectionTypeOK
  <2>4. Kept
    BY <1>1, LogKept DEF Commit
  <2>5. Knows(w)'
    BY <2>1, <2>3 DEF Knows
  <2>6. \A v \in Workers : v # w => Knows(v)'
    <3>1. marked \subseteq marked'
      BY <1>1 DEF Commit
    <3> QED BY <2>1, <2>3, <2>4, <3>1, OthersKnow
  <2>7. ProjectionTypeOK'
    BY <1>1, <2>1, <2>3 DEF Commit, ProjectionTypeOK
  <2>8. ProjectionFollowsCommit'
    <3>1. \A i \in DOMAIN lines : lines[i].event \in Nat
      <4>1. \A i \in DOMAIN lines : lines[i] \in Line
        BY DEF ProjectionTypeOK
      <4> QED BY <4>1 DEF Line, Event
    <3>2. \A i \in DOMAIN lines' : lines'[i].event <= committed'
      BY <1>1, <2>1, <3>1 DEF Commit, ProjectionFollowsCommit
    <3>3. \A e \in marked' : Copies(e)' # {} \/ Damaged'
      BY <1>1 DEF Commit, ProjectionFollowsCommit, Copies, Names, Damaged
    <3> QED BY <1>1, <3>2, <3>3 DEF Commit, ProjectionFollowsCommit
  <2> QED BY <1>1, <2>5, <2>6, <2>7, <2>8 DEF Working, Commit
<1>2. ASSUME NEW w \in Workers, Reconcile(w) PROVE IInv'
  <2> DEFINE j == [phase |-> "search", todo |-> Pending, command |-> FALSE]
  <2>1. Pending \subseteq 1..committed /\ Pending # {} /\ Pending \subseteq Event
    BY <1>2, ProjectionAssumption DEF Reconcile, Pending, ProjectionTypeOK, Event
  <2>2. j \in Job
    BY <2>1 DEF Job, Phase
  <2>3. /\ job' \in [Workers -> Job] /\ job'[w] = j
        /\ \A v \in Workers : v # w => job'[v] = job[v]
    BY <1>2, <2>2 DEF Reconcile, ProjectionTypeOK
  <2>4. Kept
    BY <1>2, LogKept DEF Reconcile
  <2>5. Knows(w)'
    <3>1. job'[w].todo = Pending /\ job'[w].phase = "search" /\ committed' = committed
      BY <1>2, <2>3 DEF Reconcile
    <3> QED BY <2>1, <3>1 DEF Knows
  <2>6. \A v \in Workers : v # w => Knows(v)'
    <3>1. committed' \in Nat /\ committed <= committed' /\ marked \subseteq marked'
      BY <1>2, ProjectionAssumption DEF Reconcile, ProjectionTypeOK
    <3> QED BY <2>3, <2>4, <3>1, OthersKnow
  <2>7. ProjectionTypeOK' /\ ProjectionFollowsCommit'
    BY <1>2, <2>3
       DEF Reconcile, ProjectionTypeOK, ProjectionFollowsCommit, Copies, Names, Damaged
  <2> QED BY <1>2, <2>5, <2>6, <2>7 DEF Working, Reconcile
<1>3. ASSUME NEW w \in Workers, Search(w) PROVE IInv'
  <2>1. Kept /\ UNCHANGED <<committed, marked, lines, terminated, files, failures>>
    BY <1>3, LogKept DEF Search
  <2>2. job' \in [Workers -> Job] /\ \A v \in Workers : Knows(v)'
    <3>0. job[w].phase = "search" /\ Current(w) \in Event
      BY <1>3, CurrentExists DEF Search, Working
    <3> PICK e \in Event : e = Current(w)
      BY <3>0
    <3>1. CASE Turn(w, AfterMissing)
      BY <2>1, <3>0, <3>1, Turns DEF AfterMissing, Phase
    <3>2. CASE Found(e) /\ Turn(w, "mark")
      <4>1. Copies(e) # {} /\ lines' = lines
        BY <2>1, <3>2 DEF Found, Copies
      <4>2. Copies(e)' # {}
        BY <4>1 DEF Copies, Names
      <4> QED BY <2>1, <3>0, <3>2, <4>2, Turns DEF Phase
    <3>3. CASE Stop(w)
      BY <2>1, <3>3, Stops
    <3> QED BY <1>3, <3>1, <3>2, <3>3 DEF Search
  <2>3. ProjectionTypeOK' /\ ProjectionFollowsCommit'
    BY <2>1, <2>2 DEF ProjectionTypeOK, ProjectionFollowsCommit, Copies, Names, Damaged
  <2> QED BY <2>1, <2>2, <2>3 DEF Working
<1>4. ASSUME NEW w \in Workers, AppendReceipt(w) PROVE IInv'
  <2>1. job[w].phase = "append" /\ Current(w) \in Event /\ Current(w) <= committed
    BY <1>4, CurrentExists, ProjectionAssumption
       DEF AppendReceipt, Working, ProjectionTypeOK
  <2> PICK e \in Event : e = Current(w)
    BY <2>1
  <2>2. /\ lines' \in Seq(Line) /\ lines' # <<>>
        /\ \A i \in DOMAIN lines' : lines'[i].event <= committed
        /\ Kept
        /\ Copies(e)' # {} \/ Damaged'
    <3>1. /\ lines' = Extended(e, "whole") /\ terminated' \in BOOLEAN
          /\ "whole" \in Body /\ e <= committed
      BY <1>4, <2>1 DEF AppendReceipt, Body
    <3> QED BY <3>1, Extension DEF Working
  <2>3. job' \in [Workers -> Job] /\ \A v \in Workers : Knows(v)'
    <3>1. /\ Turn(w, "mark") /\ "mark" \in Phase /\ "mark" # "file"
          /\ committed' = committed /\ marked' = marked
      BY <1>4 DEF AppendReceipt, Phase
    <3> QED BY <2>1, <2>2, <3>1, Turns
  <2>4. ProjectionTypeOK'
    BY <1>4, <2>2, <2>3 DEF AppendReceipt, ProjectionTypeOK
  <2>5. ProjectionFollowsCommit'
    BY <1>4, <2>2 DEF AppendReceipt, ProjectionFollowsCommit, Kept, ProjectionTypeOK
  <2> QED BY <1>4, <2>2, <2>3, <2>4, <2>5 DEF Working, AppendReceipt
<1>5. ASSUME NEW w \in Workers, AppendFails(w) PROVE IInv'
  <2>1. job[w].phase = "append" /\ Current(w) \in Event /\ Current(w) <= committed
    BY <1>5, CurrentExists, ProjectionAssumption
       DEF AppendFails, Working, ProjectionTypeOK
  <2> PICK e \in Event : e = Current(w)
    BY <2>1
  <2>2. PICK body \in Body : lines' = Extended(e, body)
    BY <1>5 DEF AppendFails, Body
  <2>3. /\ lines' \in Seq(Line) /\ lines' # <<>>
        /\ \A i \in DOMAIN lines' : lines'[i].event <= committed
        /\ Kept
    <3>1. terminated' \in BOOLEAN /\ e <= committed /\ (terminated \/ lines # <<>>)
      BY <1>5, <2>1 DEF AppendFails, Working
    <3> QED BY <2>2, <3>1, Extension
  <2>4. job' \in [Workers -> Job] /\ \A v \in Workers : Knows(v)'
    BY <1>5, <2>3, Stops DEF AppendFails
  <2>5. ProjectionTypeOK'
    <3>1. failures' \in 0..MaxFailures /\ terminated' \in BOOLEAN
      <4>1. failures \in 0..MaxFailures /\ failures < MaxFailures /\ failures' = failures + 1
        BY <1>5 DEF AppendFails, ProjectionTypeOK
      <4>2. failures' \in 0..MaxFailures
        BY <4>1, ProjectionAssumption
      <4>3. terminated' \in BOOLEAN
        BY <1>5 DEF AppendFails
      <4> QED BY <4>2, <4>3
    <3>2. UNCHANGED <<committed, marked, files>>
      BY <1>5 DEF AppendFails
    <3> QED BY <2>3, <2>4, <3>1, <3>2 DEF ProjectionTypeOK
  <2>6. ProjectionFollowsCommit'
    BY <1>5, <2>3 DEF AppendFails, ProjectionFollowsCommit, Kept, ProjectionTypeOK
  <2> QED BY <2>3, <2>4, <2>5, <2>6 DEF Working
<1>6. ASSUME NEW w \in Workers, Mark(w) PROVE IInv'
  <2> DEFINE rest == job[w].todo \ {Current(w)}
  <2>1. Kept
    BY <1>6, LogKept DEF Mark
  <2>2. Knows(w) /\ job[w].phase = "mark" /\ Current(w) \in Event
    BY <1>6, CurrentExists DEF Mark, Working
  <2>3. job' \in [Workers -> Job] /\ \A v \in Workers : Knows(v)'
    <3>1. CASE Current(w) \in Decisions /\ Turn(w, "file")
      <4> PICK e \in Event : e = Current(w)
        BY <2>2
      <4>1. /\ "file" \in Phase /\ "file" # "mark" /\ committed' = committed
            /\ marked \subseteq marked' /\ e \in marked'
        BY <1>6 DEF Mark, Phase
      <4> QED BY <2>1, <2>2, <3>1, <4>1, Turns
    <3>2. CASE Stop(w)
      BY <1>6, <2>1, <3>2, Stops DEF Mark
    <3>3. CASE /\ rest # {}
               /\ job' = [job EXCEPT ![w].phase = "search", ![w].todo = rest]
      <4> DEFINE j == [job[w] EXCEPT !.phase = "search", !.todo = rest]
      <4>1. job[w] \in Job
        BY DEF ProjectionTypeOK
      <4>2. j \in Job /\ j.phase = "search" /\ j.todo = rest
        BY <4>1 DEF Job, Phase
      <4>3. job' = [job EXCEPT ![w] = j]
        BY <3>3
      <4>4. /\ job' \in [Workers -> Job] /\ job'[w] = j
            /\ \A v \in Workers : v # w => job'[v] = job[v]
        BY <4>2, <4>3 DEF ProjectionTypeOK
      <4>5. Knows(w)'
        BY <1>6, <2>2, <3>3, <4>2, <4>4 DEF Knows, Mark
      <4>6. \A v \in Workers : v # w => Knows(v)'
        <5>1. committed' \in Nat /\ committed <= committed' /\ marked \subseteq marked'
          BY <1>6, ProjectionAssumption DEF Mark, ProjectionTypeOK
        <5> QED BY <2>1, <4>4, <5>1, OthersKnow
      <4> QED BY <4>4, <4>5, <4>6
    <3> QED BY <1>6, <3>1, <3>2, <3>3 DEF Mark, WritesFile
  <2>4. ProjectionTypeOK'
    BY <1>6, <2>2, <2>3 DEF Mark, ProjectionTypeOK
  <2>5. ProjectionFollowsCommit'
    <3>1. \A e \in marked : Copies(e)' # {} \/ Damaged'
      BY <2>1 DEF ProjectionFollowsCommit, Kept, ProjectionTypeOK
    <3> PICK c \in Event : c = Current(w)
      BY <2>2
    <3>2. Copies(c) # {} \/ Damaged
      BY <2>2 DEF Knows
    <3>3. Copies(c)' # {} \/ Damaged'
      BY <2>1, <3>2 DEF Kept
    <3>4. marked' = marked \cup {c}
      BY <1>6 DEF Mark
    <3> QED BY <1>6, <3>1, <3>3, <3>4 DEF Mark, ProjectionFollowsCommit
  <2> QED BY <1>6, <2>3, <2>4, <2>5 DEF Working, Mark
<1>7. ASSUME NEW w \in Workers, WriteFile(w) PROVE IInv'
  <2>1. Kept /\ UNCHANGED <<committed, marked, lines, terminated, failures>>
    BY <1>7, LogKept DEF WriteFile
  <2>2. Current(w) \in marked /\ Current(w) \in Decisions
    BY <1>7 DEF WriteFile, Working, Knows
  <2>3. job' \in [Workers -> Job] /\ \A v \in Workers : Knows(v)'
    BY <1>7, <2>1, Stops DEF WriteFile
  <2>4. ProjectionTypeOK' /\ ProjectionFollowsCommit'
    BY <1>7, <2>1, <2>2, <2>3
       DEF WriteFile, ProjectionTypeOK, ProjectionFollowsCommit, Copies, Names, Damaged
  <2> QED BY <2>1, <2>3, <2>4 DEF Working
<1>8. ASSUME NEW w \in Workers, Fail(w) PROVE IInv'
  <2>1. Kept /\ UNCHANGED <<committed, marked, lines, terminated, files>>
    BY <1>8, LogKept DEF Fail
  <2>2. job' \in [Workers -> Job] /\ \A v \in Workers : Knows(v)'
    BY <1>8, <2>1, Stops DEF Fail
  <2>3. ProjectionTypeOK' /\ ProjectionFollowsCommit'
    BY <1>8, <2>1, <2>2, ProjectionAssumption
       DEF Fail, ProjectionTypeOK, ProjectionFollowsCommit, Copies, Names, Damaged
  <2> QED BY <2>1, <2>2, <2>3 DEF Working
<1>9. ASSUME NEW i \in DOMAIN lines, EditLine(i) PROVE IInv'
  <2>1. /\ lines' = [lines EXCEPT ![i].body = "altered"]
        /\ UNCHANGED <<committed, marked, terminated, files, job>>
    BY <1>9 DEF EditLine
  <2>2. lines \in Seq(Line) /\ lines[i] \in Line
    BY DEF ProjectionTypeOK
  <2>3. /\ DOMAIN lines' = DOMAIN lines
        /\ lines'[i] = [lines[i] EXCEPT !.body = "altered"]
        /\ \A k \in DOMAIN lines : k # i => lines'[k] = lines[k]
    BY <2>1, <2>2
  <2>4. lines' \in Seq(Line)
    <3>1. [lines[i] EXCEPT !.body = "altered"] \in Line
      BY <2>2 DEF Line, Body
    <3> QED BY <2>1, <2>2, <3>1
  <2>5. Damaged'
    <3>1. lines'[i].body = "altered"
      BY <2>2, <2>3 DEF Line
    <3> QED BY <2>3, <3>1 DEF Damaged
  <2>6. \A k \in DOMAIN lines' : lines'[k].event = lines[k].event
    BY <2>2, <2>3 DEF Line
  <2>7. ProjectionTypeOK' /\ ProjectionFollowsCommit'
    BY <1>9, <2>1, <2>3, <2>4, <2>5, <2>6, ProjectionAssumption
       DEF EditLine, ProjectionTypeOK, ProjectionFollowsCommit
  <2>8. lines' # <<>>
    BY <2>2, <2>3
  <2>9. \A v \in Workers : Knows(v)'
    BY <2>1, <2>5 DEF Working, Knows, Current
  <2> QED BY <2>7, <2>8, <2>9 DEF Working
<1>10. CASE UNCHANGED vars
  <2>1. ProjectionTypeOK' /\ ProjectionFollowsCommit'
    BY <1>10 DEF vars, ProjectionTypeOK, ProjectionFollowsCommit, Copies, Names, Damaged
  <2>2. Working'
    BY <1>10, SMTT(20) DEF vars, Working, Knows, Copies, Names, Damaged, Current
  <2> QED BY <2>1, <2>2
<1> QED BY <1>1, <1>2, <1>3, <1>4, <1>5, <1>6, <1>7, <1>8, <1>9, <1>10 DEF Next, Project

\* The inductive invariant holds in every reachable state.
THEOREM ProjectionInductive == Spec => []IInv
<1> QED BY Initially, Step, PTL DEF Spec

(***************************************************************************)
(* The projection never runs ahead of the chain, whatever fails: every     *)
(* approval file follows its mark, every mark its line (unless the log was *)
(* damaged) and every line its commit (project_transition_event).          *)
(***************************************************************************)
THEOREM ProjectionFollows == Spec => []ProjectionFollowsCommit
<1>1. IInv => ProjectionFollowsCommit
  BY DEF IInv
<1> QED BY <1>1, ProjectionInductive, PTL

\* Every variable of the projection keeps its type (receipts.py).
THEOREM ProjectionTyped == Spec => []ProjectionTypeOK
<1>1. IInv => ProjectionTypeOK
  BY DEF IInv
<1> QED BY <1>1, ProjectionInductive, PTL

-----------------------------------------------------------------------------
\* The processes that searched for an event, missed it, and will append it.
Appending(e) == {w \in Workers : job[w].phase = "append" /\ Current(w) = e}

\* A process appends an event at most once for each search that missed it, and
\* no search misses it once it has a line; so the lines and the appends still
\* to come are together no more than the processes.
Budget == \A e \in Event :
  Cardinality(Copies(e)) + Cardinality(Appending(e)) <= Cardinality(Workers)

\* Both sides of the budget are finite.
LEMMA BudgetIsFinite ==
  ASSUME ProjectionTypeOK, NEW e
  PROVE  /\ IsFiniteSet(Copies(e)) /\ Cardinality(Copies(e)) \in Nat
         /\ IsFiniteSet(Appending(e)) /\ Cardinality(Appending(e)) \in Nat
         /\ Appending(e) \subseteq Workers
         /\ Cardinality(Appending(e)) <= Cardinality(Workers)
         /\ Cardinality(Workers) \in Nat
<1>1. IsFiniteSet(Workers) /\ Cardinality(Workers) \in Nat
  BY ProjectionAssumption, FS_CardinalityType
<1>2. Appending(e) \in SUBSET Workers
  BY DEF Appending
<1>3. /\ IsFiniteSet(Appending(e))
      /\ Cardinality(Appending(e)) <= Cardinality(Workers)
  BY <1>1, <1>2, FS_Subset
<1>4. Copies(e) \in SUBSET (1..Len(lines)) /\ Len(lines) \in Nat
  BY DEF Copies, ProjectionTypeOK
<1>5. IsFiniteSet(1..Len(lines))
  BY <1>4, FS_Interval
<1>6. IsFiniteSet(Copies(e))
  BY <1>4, <1>5, FS_Subset
<1> QED BY <1>1, <1>2, <1>3, <1>6, FS_CardinalityType

\* What takes away from either side keeps within the budget, and so does an
\* append, which turns one that was still to come into at most one line.
LEMMA BudgetKept ==
  ASSUME ProjectionTypeOK, ProjectionTypeOK', NEW e,
         Cardinality(Copies(e)) + Cardinality(Appending(e)) <= Cardinality(Workers),
         Appending(e)' \subseteq Appending(e),
         \/ Copies(e)' \subseteq Copies(e)
         \/ \E w \in Appending(e) : \E i :
              /\ Copies(e)' \subseteq Copies(e) \cup {i}
              /\ Appending(e)' \subseteq Appending(e) \ {w}
  PROVE  (Cardinality(Copies(e)) + Cardinality(Appending(e)))' <= Cardinality(Workers)
<1> DEFINE C == Copies(e)
           A == Appending(e)
<1>1. /\ IsFiniteSet(C) /\ Cardinality(C) \in Nat
      /\ IsFiniteSet(A) /\ Cardinality(A) \in Nat /\ Cardinality(Workers) \in Nat
  BY BudgetIsFinite
<1>2. Cardinality(C') \in Nat /\ Cardinality(A') \in Nat
  <2>1. /\ IsFiniteSet(C') /\ IsFiniteSet(A')
    <3>1. Copies(e)' \in SUBSET (1..Len(lines')) /\ Len(lines') \in Nat
      BY DEF Copies, ProjectionTypeOK
    <3>2. IsFiniteSet(1..Len(lines'))
      BY <3>1, FS_Interval
    <3>3. IsFiniteSet(Copies(e)')
      BY <3>1, <3>2, FS_Subset
    <3>4. IsFiniteSet(Appending(e)')
      BY <1>1, FS_Subset
    <3> QED BY <3>3, <3>4
  <2> QED BY <2>1, FS_CardinalityType
<1>3. A' \subseteq A /\ Cardinality(C) + Cardinality(A) <= Cardinality(Workers)
  OBVIOUS
<1>4. CASE C' \subseteq C
  <2> HIDE DEF C, A
  <2>1. Cardinality(C') <= Cardinality(C) /\ Cardinality(A') <= Cardinality(A)
    BY <1>1, <1>3, <1>4, FS_Subset
  <2> QED BY <1>1, <1>2, <1>3, <2>1 DEF C, A
<1>5. CASE \E w \in A : \E i : C' \subseteq C \cup {i} /\ A' \subseteq A \ {w}
  <2> HIDE DEF C, A
  <2> PICK w \in A : \E i : C' \subseteq C \cup {i} /\ A' \subseteq A \ {w}
    BY <1>5
  <2> PICK i : C' \subseteq C \cup {i} /\ A' \subseteq A \ {w}
    OBVIOUS
  <2>1. IsFiniteSet(C \cup {i}) /\ Cardinality(C \cup {i}) <= Cardinality(C) + 1
    <3>1. /\ IsFiniteSet(C \cup {i})
          /\ Cardinality(C \cup {i}) =
               IF i \in C THEN Cardinality(C) ELSE Cardinality(C) + 1
      BY <1>1, FS_AddElement
    <3> QED BY <1>1, <3>1
  <2>2. IsFiniteSet(A \ {w}) /\ Cardinality(A \ {w}) = Cardinality(A) - 1
    BY <1>1, FS_RemoveElement
  <2>3. Cardinality(C') <= Cardinality(C \cup {i})
    BY <2>1, FS_Subset
  <2>4. Cardinality(A') <= Cardinality(A \ {w})
    BY <2>2, FS_Subset
  <2>5. Cardinality(C \cup {i}) \in Nat
    BY <2>1, FS_CardinalityType
  <2> QED BY <1>1, <1>2, <1>3, <2>1, <2>2, <2>3, <2>4, <2>5 DEF C, A
<1> QED BY <1>4, <1>5

\* A process that changes only its own job leaves the appends of the others.
LEMMA AppendingAfter ==
  ASSUME NEW w \in Workers, \A v \in Workers : v # w => job'[v] = job[v],
         NEW e
  PROVE  /\ Appending(e)' \subseteq Appending(e) \cup {w}
         /\ job'[w].phase # "append" => Appending(e)' \subseteq Appending(e) \ {w}
<1>1. \A v \in Workers : v # w => Current(v)' = Current(v)
  BY DEF Current
<1> QED BY <1>1 DEF Appending

\* Which lines name an event after an append.
LEMMA CopiesAfter ==
  ASSUME ProjectionTypeOK, terminated \/ lines # <<>>, NEW e \in Event, NEW f \in Event,
         NEW body \in Body, lines' = Extended(e, body)
  PROVE  /\ Copies(f)' \subseteq Copies(f) \cup {Len(lines')}
         /\ f # e => Copies(f)' \subseteq Copies(f)
<1>1. lines \in Seq(Line) /\ [event |-> e, body |-> body] \in Line
  BY DEF ProjectionTypeOK, Line
<1>2. CASE terminated
  <2>1. lines' = Append(lines, [event |-> e, body |-> body])
    BY <1>2 DEF Extended
  <2>2. /\ \A i \in DOMAIN lines : i \in DOMAIN lines' /\ lines'[i] = lines[i]
        /\ lines'[Len(lines')] = [event |-> e, body |-> body]
        /\ \A i \in DOMAIN lines' : i \in DOMAIN lines \/ i = Len(lines')
    BY <1>1, <2>1
  <2>3. lines'[Len(lines')].event = e
    BY <2>2
  <2> QED BY <2>2, <2>3 DEF Copies, Names
<1>3. CASE ~ terminated
  <2>1. lines' = [lines EXCEPT ![Len(lines)].body = "torn"] /\ Len(lines) \in DOMAIN lines
    BY <1>1, <1>3 DEF Extended
  <2>2. lines[Len(lines)] \in Line
    BY <1>1, <2>1
  <2>3. /\ DOMAIN lines' = DOMAIN lines
        /\ lines'[Len(lines)] = [lines[Len(lines)] EXCEPT !.body = "torn"]
        /\ \A i \in DOMAIN lines : i # Len(lines) => lines'[i] = lines[i]
    BY <1>1, <2>1
  <2>4. lines'[Len(lines)].body = "torn"
    BY <2>2, <2>3 DEF Line
  <2> QED BY <2>3, <2>4 DEF Copies, Names
<1> QED BY <1>2, <1>3

\* What the budget needs of a step: the event of a process about to append is
\* in the log or not by what the process itself does.
LEMMA BudgetStep ==
  ASSUME IInv, IInv', Budget, [Next]_vars
  PROVE  Budget'
<1> USE DEF IInv
<1> SUFFICES ASSUME NEW f \in Event
             PROVE  (Cardinality(Copies(f)) + Cardinality(Appending(f)))' <= Cardinality(Workers)
  BY DEF Budget
<1>1. Cardinality(Copies(f)) + Cardinality(Appending(f)) <= Cardinality(Workers)
  BY DEF Budget
<1>2. ASSUME NEW w \in Workers, \A v \in Workers : v # w => job'[v] = job[v],
             job'[w].phase # "append", Copies(f)' \subseteq Copies(f)
      PROVE  (Cardinality(Copies(f)) + Cardinality(Appending(f)))' <= Cardinality(Workers)
  <2>1. Appending(f)' \subseteq Appending(f)
    BY <1>2, AppendingAfter
  <2> QED BY <1>1, <1>2, <2>1, BudgetKept
<1>3. lines' = lines => Copies(f)' = Copies(f)
  BY DEF Copies, Names
<1>4. \A w \in Workers, p \in Phase : Turn(w, p) =>
        /\ \A v \in Workers : v # w => job'[v] = job[v]
        /\ job'[w].phase = p /\ job'[w].todo = job[w].todo
  BY JobAfter
<1>5. \A w \in Workers : Stop(w) =>
        /\ \A v \in Workers : v # w => job'[v] = job[v]
        /\ job'[w].phase # "append"
  <2>1. Idle.phase # "append"
    BY DEF Idle
  <2> QED BY <2>1, JobAfter
<1>6. ASSUME NEW w \in Workers, Commit(w) \/ Reconcile(w)
      PROVE  (Cardinality(Copies(f)) + Cardinality(Appending(f)))' <= Cardinality(Workers)
  <2>1. /\ \A v \in Workers : v # w => job'[v] = job[v]
        /\ job'[w].phase # "append" /\ lines' = lines
    BY <1>6 DEF Commit, Reconcile, ProjectionTypeOK
  <2> QED BY <1>2, <1>3, <2>1
<1>7. ASSUME NEW w \in Workers, Search(w)
      PROVE  (Cardinality(Copies(f)) + Cardinality(Appending(f)))' <= Cardinality(Workers)
  <2>1. lines' = lines
    BY <1>7 DEF Search
  <2>2. CASE Missing(Current(w)) /\ Turn(w, AfterMissing)
    <3>1. /\ \A v \in Workers : v # w => job'[v] = job[v]
          /\ Current(w)' = Current(w)
      BY <1>4, <2>2 DEF AfterMissing, Phase, Current
    <3>2. CASE f = Current(w)
      <4>1. Copies(f) = {}
        BY <2>2, <3>2 DEF Missing, Found, Copies
      <4>2. Cardinality(Copies(f)') = 0
        BY <1>3, <2>1, <4>1, FS_EmptySet
      <4>3. /\ Cardinality(Appending(f)') <= Cardinality(Workers)
            /\ Cardinality(Appending(f)') \in Nat
        <5>1. Appending(f)' \in SUBSET Workers /\ IsFiniteSet(Workers)
          BY ProjectionAssumption DEF Appending
        <5> QED BY <5>1, FS_Subset, FS_CardinalityType
      <4> QED BY <4>2, <4>3
    <3>3. CASE f # Current(w)
      <4>1. Appending(f)' \subseteq Appending(f)
        BY <3>1, <3>3, AppendingAfter DEF Appending
      <4> QED BY <1>1, <1>3, <2>1, <4>1, BudgetKept
    <3> QED BY <3>2, <3>3
  <2>3. CASE Turn(w, "mark") \/ Stop(w)
    <3>1. /\ \A v \in Workers : v # w => job'[v] = job[v]
          /\ job'[w].phase # "append"
      BY <1>4, <1>5, <2>3 DEF Phase
    <3> QED BY <1>2, <1>3, <2>1, <3>1
  <2> QED BY <1>7, <2>2, <2>3 DEF Search
<1>8. ASSUME NEW w \in Workers, job[w].phase = "append", Turn(w, "mark") \/ Stop(w),
             NEW body \in Body, lines' = Extended(Current(w), body)
      PROVE  (Cardinality(Copies(f)) + Cardinality(Appending(f)))' <= Cardinality(Workers)
  <2>1. /\ \A v \in Workers : v # w => job'[v] = job[v]
        /\ job'[w].phase # "append"
    BY <1>4, <1>5, <1>8 DEF Phase
  <2>2. Appending(f)' \subseteq Appending(f) \ {w}
    BY <2>1, AppendingAfter
  <2>3. Current(w) \in Event
    BY <1>8, CurrentExists DEF Working
  <2>4. /\ Copies(f)' \subseteq Copies(f) \cup {Len(lines')}
        /\ f # Current(w) => Copies(f)' \subseteq Copies(f)
    BY <1>8, <2>3, CopiesAfter DEF Working
  <2>5. CASE f = Current(w)
    <3>1. w \in Appending(f)
      BY <1>8, <2>5 DEF Appending
    <3> QED BY <1>1, <2>2, <2>4, <3>1, BudgetKept
  <2>6. CASE f # Current(w)
    BY <1>1, <2>2, <2>4, <2>6, BudgetKept
  <2> QED BY <2>5, <2>6
<1>9. ASSUME NEW w \in Workers, AppendReceipt(w) \/ AppendFails(w)
      PROVE  (Cardinality(Copies(f)) + Cardinality(Appending(f)))' <= Cardinality(Workers)
  BY <1>8, <1>9 DEF AppendReceipt, AppendFails, Body
<1>10. ASSUME NEW w \in Workers, Mark(w) \/ WriteFile(w) \/ Fail(w)
       PROVE  (Cardinality(Copies(f)) + Cardinality(Appending(f)))' <= Cardinality(Workers)
  <2>1. lines' = lines
    BY <1>10 DEF Mark, WriteFile, Fail
  <2>2. CASE Turn(w, "file") \/ Stop(w)
    <3>1. /\ \A v \in Workers : v # w => job'[v] = job[v]
          /\ job'[w].phase # "append"
      BY <1>4, <1>5, <2>2 DEF Phase
    <3> QED BY <1>2, <1>3, <2>1, <3>1
  <2>3. ASSUME NEW rest, job' = [job EXCEPT ![w].phase = "search", ![w].todo = rest]
        PROVE  (Cardinality(Copies(f)) + Cardinality(Appending(f)))' <= Cardinality(Workers)
    <3> DEFINE j == [job[w] EXCEPT !.phase = "search", !.todo = rest]
    <3>1. job[w] \in Job
      BY DEF ProjectionTypeOK
    <3>2. j.phase = "search"
      BY <3>1 DEF Job
    <3>3. job' = [job EXCEPT ![w] = j]
      BY <2>3
    <3>4. job'[w] = j /\ \A v \in Workers : v # w => job'[v] = job[v]
      BY <3>3 DEF ProjectionTypeOK
    <3> QED BY <1>2, <1>3, <2>1, <3>2, <3>4
  <2> QED BY <1>10, <2>2, <2>3 DEF Mark, WriteFile, Fail
<1>11. ASSUME NEW i \in DOMAIN lines, EditLine(i)
       PROVE  (Cardinality(Copies(f)) + Cardinality(Appending(f)))' <= Cardinality(Workers)
  <2>1. job' = job /\ lines' = [lines EXCEPT ![i].body = "altered"] /\ lines[i].body = "whole"
    BY <1>11 DEF EditLine
  <2>2. lines[i] \in Line /\ lines \in Seq(Line)
    BY DEF ProjectionTypeOK
  <2>3. /\ DOMAIN lines' = DOMAIN lines
        /\ lines'[i] = [lines[i] EXCEPT !.body = "altered"]
        /\ \A k \in DOMAIN lines : k # i => lines'[k] = lines[k]
    BY <2>1, <2>2
  <2>4. lines'[i].event = lines[i].event
    BY <2>2, <2>3 DEF Line
  <2>5. Copies(f)' \subseteq Copies(f)
    BY <2>1, <2>3, <2>4 DEF Copies, Names
  <2>6. Appending(f)' = Appending(f)
    BY <2>1 DEF Appending, Current
  <2> QED BY <1>1, <2>5, <2>6, BudgetKept
<1>12. CASE UNCHANGED vars
  <2>1. Copies(f)' = Copies(f) /\ Appending(f)' = Appending(f)
    BY <1>12 DEF vars, Copies, Names, Appending, Current
  <2> QED BY <1>1, <2>1
<1> QED BY <1>6, <1>7, <1>9, <1>10, <1>11, <1>12 DEF Next, Project

(***************************************************************************)
(* Retries do not multiply receipts: however many processes project and    *)
(* reconcile one event, and whatever fails, the log never holds more lines *)
(* of it than there are processes (project_transition_event).              *)
(***************************************************************************)
THEOREM CopiesStayBounded == Spec => []CopiesBounded
<1>1. Init => Budget
  <2> SUFFICES ASSUME Init, NEW e \in Event
               PROVE  Cardinality(Copies(e)) + Cardinality(Appending(e)) <= Cardinality(Workers)
    BY DEF Budget
  <2>1. ProjectionTypeOK
    BY Initially DEF IInv
  <2>2. Copies(e) = {} /\ Appending(e) = {}
    BY DEF Init, Copies, Appending, Idle
  <2> QED BY <2>1, <2>2, BudgetIsFinite, FS_EmptySet
<1>2. IInv /\ Budget => CopiesBounded
  <2> SUFFICES ASSUME IInv, Budget, NEW e \in Event
               PROVE  Cardinality(Copies(e)) <= Cardinality(Workers)
    BY DEF CopiesBounded
  <2> QED BY BudgetIsFinite DEF IInv, Budget
<1> QED BY <1>1, <1>2, BudgetStep, ProjectionInductive, PTL DEF Spec

-----------------------------------------------------------------------------
(***************************************************************************)
(* What ProjectedUnlessDamaged rests on besides fairness, and why the log  *)
(* has to be undamaged for it.                                             *)
(***************************************************************************)

\* A command has the one event it committed, and only a command writes a file.
OneAtATime ==
  \A w \in Workers :
    /\ job[w].phase = "file" => job[w].command
    /\ job[w].command => \A e, f \in job[w].todo : e = f

\* Which steps leave the event a process works on as it is, or end its work.
LEMMA ProjectAfter ==
  ASSUME IInv, NEW w \in Workers, Project(w) \/ AppendFails(w) \/ Fail(w)
  PROVE  /\ \A v \in Workers : v # w => job'[v] = job[v]
         /\ \/ job'[w] = Idle
            \/ /\ job'[w].command = job[w].command
               /\ job'[w].phase = "file" => job[w].command
               /\ \/ job'[w].todo = job[w].todo
                  \/ /\ job'[w].phase = "search"
                     /\ job'[w].todo = job[w].todo \ {Current(w)}
                     /\ Current(w) \in marked'
<1> USE DEF IInv
<1>1. CASE Search(w)
  BY <1>1, JobAfter DEF Search, AfterMissing, Phase
<1>2. CASE AppendReceipt(w)
  BY <1>2, JobAfter DEF AppendReceipt, Phase
<1>3. CASE AppendFails(w) \/ Fail(w) \/ WriteFile(w)
  BY <1>3, JobAfter DEF AppendFails, Fail, WriteFile
<1>4. CASE Mark(w)
  <2> DEFINE rest == job[w].todo \ {Current(w)}
  <2>1. rest \in SUBSET Event
    BY DEF ProjectionTypeOK, Job
  <2>2. CASE WritesFile(w) /\ Turn(w, "file")
    BY <2>2, JobAfter DEF WritesFile, Phase
  <2>3. CASE Stop(w)
    BY <2>3, JobAfter
  <2>4. CASE job' = [job EXCEPT ![w].phase = "search", ![w].todo = rest]
    BY <1>4, <2>1, <2>4, JobAfter, ZenonT(40) DEF Mark
  <2> QED BY <1>4, <2>2, <2>3, <2>4 DEF Mark
<1> QED BY <1>1, <1>2, <1>3, <1>4 DEF Project

\* What a new job has in hand (its first phase).
LEMMA JobBegins ==
  ASSUME IInv, NEW w \in Workers, Commit(w) \/ Reconcile(w)
  PROVE  /\ \A v \in Workers : v # w => job'[v] = job[v]
         /\ job[w] = Idle /\ job'[w].phase = "search"
         /\ job'[w].command => \A e, f \in job'[w].todo : e = f
         /\ UNCHANGED <<marked, lines, terminated>>
<1>1. job \in [Workers -> Job]
  BY DEF IInv, ProjectionTypeOK
<1> QED BY <1>1 DEF Commit, Reconcile

\* Every reachable state has it (project_transition_event projects one event).
THEOREM OneAtATimeAlways == Spec => []OneAtATime
<1>1. Init => OneAtATime
  BY DEF Init, OneAtATime, Idle
<1>2. IInv /\ OneAtATime /\ [Next]_vars => OneAtATime'
  <2> SUFFICES ASSUME IInv, OneAtATime, [Next]_vars PROVE OneAtATime'
    OBVIOUS
  <2>1. ASSUME NEW w \in Workers, Project(w) \/ AppendFails(w) \/ Fail(w)
        PROVE  OneAtATime'
    BY <2>1, ProjectAfter DEF OneAtATime, Idle
  <2>2. ASSUME NEW w \in Workers, Commit(w) \/ Reconcile(w)
        PROVE  OneAtATime'
    BY <2>2, JobBegins DEF OneAtATime
  <2>3. CASE job' = job
    BY <2>3 DEF OneAtATime
  <2> QED BY <2>1, <2>2, <2>3 DEF Next, EditLine, vars
<1> QED BY <1>1, <1>2, ProjectionInductive, PTL DEF Spec

\* No process puts down an event that it has not marked.
NoneDropped ==
  \A w \in Workers : \A e \in job[w].todo :
    e \in job'[w].todo \/ e \in marked' \/ Damaged \/ failures' # failures

(***************************************************************************)
(* As long as the log is whole, an event taken up by a command or by a     *)
(* reconciliation is kept in hand until it is marked, and only a failure   *)
(* makes a process put it down: no branch of the projection and no other   *)
(* process, whatever it appended or marked first, ends a call early        *)
(* (project_transition_event and reconcile_pending_receipts).              *)
(***************************************************************************)
THEOREM NothingIsDropped == Spec => [][NoneDropped]_vars
<1>1. IInv /\ OneAtATime /\ [Next]_vars => NoneDropped \/ UNCHANGED vars
  <2> SUFFICES ASSUME IInv, OneAtATime, Next, NEW w \in Workers, NEW e \in job[w].todo,
                      ~ Damaged, failures' = failures
               PROVE  e \in job'[w].todo \/ e \in marked'
    BY DEF NoneDropped
  <2> USE DEF IInv
  <2>1. job[w] # Idle /\ failures \in Nat
    BY ProjectionAssumption DEF Idle, ProjectionTypeOK
  <2>2. ASSUME NEW v \in Workers, Search(v)
        PROVE  e \in job'[w].todo
    <3>1. Torn = {}
      BY DEF Torn, Damaged
    <3>2. \A f : ~ Altered(f)
      BY DEF Altered, Damaged
    <3>3. Turn(v, "append") \/ Turn(v, "mark")
      BY <2>2, <3>1, <3>2 DEF Search, Missing, AfterMissing
    <3> QED BY <3>3, JobAfter DEF Phase
  <2>3. ASSUME NEW v \in Workers, AppendReceipt(v)
        PROVE  e \in job'[w].todo
    BY <2>3, JobAfter DEF AppendReceipt, Phase
  <2>4. ASSUME NEW v \in Workers, Mark(v)
        PROVE  e \in job'[w].todo \/ e \in marked'
    <3> DEFINE rest == job[v].todo \ {Current(v)}
    <3>1. rest \in SUBSET Event /\ Current(v) \in marked'
      BY <2>4 DEF Mark, ProjectionTypeOK, Job
    <3>2. CASE v # w
      <4>1. job'[w] = job[w]
        BY <2>4, <3>2, ProjectAfter DEF Project
      <4> QED BY <4>1
    <3>3. CASE v = w /\ e # Current(w)
      <4>1. e \in rest
        BY <3>3
      <4>2. Turn(w, "file") \/ job' = [job EXCEPT ![w].phase = "search", ![w].todo = rest]
        BY <2>4, <3>3, <4>1 DEF Mark
      <4> QED BY <3>1, <3>3, <4>1, <4>2, JobAfter, ZenonT(40) DEF Phase
    <3> QED BY <3>1, <3>2, <3>3
  <2>5. ASSUME NEW v \in Workers, WriteFile(v)
        PROVE  e \in job'[w].todo \/ e \in marked'
    <3>1. CASE v # w
      <4>1. job'[w] = job[w]
        BY <2>5, <3>1, ProjectAfter DEF Project
      <4> QED BY <4>1
    <3>2. CASE v = w
      <4>1. job[w].phase = "file" /\ marked' = marked
        BY <2>5, <3>2 DEF WriteFile
      <4>2. Knows(w) /\ Current(w) \in job[w].todo
        BY <4>1, CurrentExists DEF Working
      <4>3. e = Current(w)
        BY <4>1, <4>2 DEF OneAtATime
      <4> QED BY <4>1, <4>2, <4>3 DEF Knows
    <3> QED BY <3>1, <3>2
  <2>6. ASSUME NEW v \in Workers, Commit(v) \/ Reconcile(v)
        PROVE  e \in job'[w].todo
    BY <2>1, <2>6, JobBegins
  <2>7. ASSUME NEW v \in Workers, AppendFails(v) \/ Fail(v)
        PROVE  FALSE
    BY <2>1, <2>7 DEF AppendFails, Fail
  <2>8. ASSUME NEW i \in DOMAIN lines, EditLine(i)
        PROVE  FALSE
    BY <2>1, <2>8 DEF EditLine
  <2> QED BY <2>2, <2>3, <2>4, <2>5, <2>6, <2>7, <2>8 DEF Next, Project
<1> QED BY <1>1, ProjectionInductive, OneAtATimeAlways, PTL DEF Spec

-----------------------------------------------------------------------------
\* An unmarked event with no receipt before the first torn line, and no process
\* that searched for it before the line was torn.
Blocked(e) ==
  /\ Torn # {} /\ ~ Found(e) /\ e \notin marked
  /\ \A w \in Workers : job[w].phase \in {"append", "mark"} => Current(w) # e

BlockedStays == \A e \in Event : Blocked(e) => Blocked(e)'

\* A torn line stays torn, and no later line is found before it.
LEMMA TornStays ==
  ASSUME ProjectionTypeOK, terminated \/ lines # <<>>, Torn # {}, NEW e, ~ Found(e),
         \/ lines' = lines
         \/ \E f \in Event, body \in Body : lines' = Extended(f, body)
         \/ \E i \in DOMAIN lines : EditLine(i)
  PROVE  Torn' # {} /\ ~ Found(e)'
<1>0. lines \in Seq(Line)
  BY DEF ProjectionTypeOK
<1>1. ASSUME DOMAIN lines \subseteq DOMAIN lines',
             \A i \in DOMAIN lines' \ DOMAIN lines : i \in Nat /\ i > Len(lines),
             \A i \in DOMAIN lines : lines[i].body = "torn" => lines'[i].body = "torn",
             \A i \in DOMAIN lines : lines'[i].body # "torn" =>
                lines[i].body # "torn" /\ lines'[i].event = lines[i].event
      PROVE  Torn' # {} /\ ~ Found(e)'
  <2>1. Torn \subseteq Torn' /\ Torn \subseteq 1..Len(lines) /\ Len(lines) \in Nat
    BY <1>0, <1>1 DEF Torn
  <2>2. ASSUME NEW i \in DOMAIN lines', Names(i, e)', \A t \in Torn' : i < t
        PROVE  FALSE
    <3>1. i \in DOMAIN lines
      <4> SUFFICES ASSUME i \notin DOMAIN lines PROVE FALSE
        OBVIOUS
      <4>1. i \in Nat /\ i > Len(lines)
        BY <1>1
      <4>2. PICK t \in Torn : TRUE
        OBVIOUS
      <4>3. t \in 1..Len(lines) /\ i < t
        BY <2>1, <2>2
      <4> QED BY <2>1, <4>1, <4>3
    <3>2. Names(i, e)
      BY <1>1, <2>2, <3>1 DEF Names
    <3> QED BY <2>1, <2>2, <3>1, <3>2 DEF Found
  <2> QED BY <2>1, <2>2 DEF Found
<1>2. CASE lines' = lines
  BY <1>1, <1>2
<1>3. ASSUME NEW f \in Event, NEW body \in Body, lines' = Extended(f, body), terminated
      PROVE  Torn' # {} /\ ~ Found(e)'
  <2>1. lines' = Append(lines, [event |-> f, body |-> body])
    BY <1>3 DEF Extended
  <2>2. /\ DOMAIN lines \subseteq DOMAIN lines'
        /\ \A i \in DOMAIN lines' \ DOMAIN lines : i \in Nat /\ i > Len(lines)
        /\ \A i \in DOMAIN lines : lines'[i] = lines[i]
    BY <1>0, <2>1
  <2> QED BY <1>1, <2>2
<1>4. ASSUME NEW f \in Event, NEW body \in Body, lines' = Extended(f, body), ~ terminated
      PROVE  Torn' # {} /\ ~ Found(e)'
  <2>1. lines' = [lines EXCEPT ![Len(lines)].body = "torn"] /\ Len(lines) \in DOMAIN lines
    BY <1>0, <1>4 DEF Extended
  <2>2. lines[Len(lines)] \in Line
    BY <1>0, <2>1
  <2>3. /\ DOMAIN lines' = DOMAIN lines
        /\ lines'[Len(lines)] = [lines[Len(lines)] EXCEPT !.body = "torn"]
        /\ \A i \in DOMAIN lines : i # Len(lines) => lines'[i] = lines[i]
    BY <1>0, <2>1
  <2>4. lines'[Len(lines)].body = "torn"
    BY <2>2, <2>3 DEF Line
  <2> QED BY <1>1, <2>3, <2>4
<1>5. ASSUME NEW k \in DOMAIN lines, EditLine(k)
      PROVE  Torn' # {} /\ ~ Found(e)'
  <2>1. lines' = [lines EXCEPT ![k].body = "altered"] /\ lines[k].body = "whole"
    BY <1>5 DEF EditLine
  <2>2. lines[k] \in Line
    BY <1>0
  <2>3. /\ DOMAIN lines' = DOMAIN lines
        /\ lines'[k] = [lines[k] EXCEPT !.body = "altered"]
        /\ \A i \in DOMAIN lines : i # k => lines'[i] = lines[i]
    BY <1>0, <2>1
  <2>4. lines'[k].event = lines[k].event
    BY <2>2, <2>3 DEF Line
  <2> QED BY <1>1, <2>1, <2>3, <2>4
<1> QED BY <1>2, <1>3, <1>4, <1>5

(***************************************************************************)
(* A torn line blocks for ever what was not projected before it: no later  *)
(* command or reconciliation marks such an event or any that is committed  *)
(* afterwards, because every search ends in an error at that line and      *)
(* no code removes it.  It is the general form of what the run torn shows  *)
(* (find_receipt in project_transition_event).                             *)
(***************************************************************************)
THEOREM TornLineBlocks == Spec => [][BlockedStays]_vars
<1>1. IInv /\ [Next]_vars => BlockedStays \/ UNCHANGED vars
  <2> SUFFICES ASSUME IInv, Next, NEW e \in Event, Blocked(e)
               PROVE  Blocked(e)'
    BY DEF BlockedStays
  <2> USE DEF IInv
  <2>1. ASSUME NEW w \in Workers, AppendReceipt(w) \/ AppendFails(w)
        PROVE  Current(w) \in Event /\ \E body \in Body : lines' = Extended(Current(w), body)
    <3>1. Current(w) \in Event
      BY <2>1, CurrentExists DEF AppendReceipt, AppendFails, Working
    <3> QED BY <2>1, <3>1 DEF AppendReceipt, AppendFails, Body
  <2>2. Torn' # {} /\ ~ Found(e)'
    <3>1. \/ lines' = lines
          \/ \E f \in Event, body \in Body : lines' = Extended(f, body)
          \/ \E i \in DOMAIN lines : EditLine(i)
      BY <2>1 DEF Next, Project, Commit, Reconcile, Search, Mark, WriteFile, Fail
    <3> QED BY <3>1, TornStays DEF Blocked, Working
  <2>3. ASSUME NEW w \in Workers, Project(w) \/ AppendFails(w) \/ Fail(w)
        PROVE  /\ e \notin marked'
               /\ \A v \in Workers : job'[v].phase \in {"append", "mark"} => Current(v)' # e
    <3>1. \A v \in Workers : v # w => job'[v] = job[v] /\ Current(v)' = Current(v)
      BY <2>3, ProjectAfter DEF Current
    <3>2. e \notin marked'
      BY <2>3 DEF Project, Search, AppendReceipt, AppendFails, Mark, WriteFile, Fail, Blocked
    <3>3. ASSUME job'[w].phase \in {"append", "mark"}
          PROVE  Current(w)' # e
      <4>0. ~ Stop(w)
        <5>1. Stop(w) => job'[w] = Idle
          BY JobAfter
        <5> QED BY <3>3, <5>1 DEF Idle
      <4>1. job'[w].todo = job[w].todo
        BY <2>3, <3>3, ProjectAfter DEF Idle
      <4>2. Current(w)' = Current(w)
        BY <4>1 DEF Current
      <4>3. CASE Search(w)
        <5>1. Missing(Current(w)) \/ Found(Current(w))
          BY <4>0, <4>3 DEF Search
        <5> QED BY <4>2, <5>1 DEF Missing, Blocked
      <4>4. CASE AppendReceipt(w)
        BY <4>2, <4>4 DEF AppendReceipt, Blocked
      <4>5. CASE AppendFails(w) \/ WriteFile(w) \/ Fail(w)
        BY <4>0, <4>5 DEF AppendFails, WriteFile, Fail
      <4>6. CASE Mark(w)
        BY <4>2, <4>6 DEF Mark, Blocked
      <4> QED BY <2>3, <4>3, <4>4, <4>5, <4>6 DEF Project
    <3> QED BY <3>1, <3>2, <3>3 DEF Blocked
  <2>4. ASSUME NEW w \in Workers, Commit(w) \/ Reconcile(w)
        PROVE  /\ e \notin marked'
               /\ \A v \in Workers : job'[v].phase \in {"append", "mark"} => Current(v)' # e
    <3>1. \A v \in Workers : v # w => job'[v] = job[v] /\ Current(v)' = Current(v)
      BY <2>4, JobBegins DEF Current
    <3>2. job'[w].phase = "search" /\ marked' = marked
      BY <2>4, JobBegins
    <3> QED BY <3>1, <3>2 DEF Blocked
  <2>5. ASSUME NEW i \in DOMAIN lines, EditLine(i)
        PROVE  /\ e \notin marked'
               /\ \A v \in Workers : job'[v].phase \in {"append", "mark"} => Current(v)' # e
    BY <2>5 DEF EditLine, Blocked, Current
  <2>6. /\ e \notin marked'
        /\ \A v \in Workers : job'[v].phase \in {"append", "mark"} => Current(v)' # e
    BY <2>3, <2>4, <2>5 DEF Next
  <2> QED BY <2>2, <2>6 DEF Blocked
<1> QED BY <1>1, ProjectionInductive, PTL DEF Spec

=============================================================================
