---------------------------- MODULE EffectAudit ----------------------------
(***************************************************************************)
(* The external-effect half of verify_integrity.  A row is inserted along  *)
(* with its event, so the place of its event in the chain is the moment of *)
(* its insertion.  Of these places the audit compares a few pairs, and     *)
(* which of two rows came first is all that is kept of them.               *)
(*                                                                         *)
(* Abstractions.  The copies of a column in a row, its event and its       *)
(* envelope are one fact here.  That releases and registrations were       *)
(* allowed is what Authority shows of their events.                        *)
(***************************************************************************)
EXTENDS ExternalEffect

VARIABLE before   \* pairs of compared rows, the event of the first the earlier one

auditVars == <<vars, before>>

ReleaseRow(p)  == <<"release", p>>
BindingRow(b)  == <<"binding", b>>
ExecutorRow(e) == <<"executor", e>>
RequestRow(p)  == <<"request", p>>
ClaimRow(c)    == <<"claim", c>>
ResultRow(c)   == <<"result", c>>

Claimed(c)  == c[2] <= claims[c[1]]
NextTry(c)  == <<c[1], c[2] + 1>>

Rows ==
  {ReleaseRow(p) : p \in released} \cup {BindingRow(b) : b \in bindings}
    \cup {ExecutorRow(e) : e \in executors}
    \cup {RequestRow(p) : p \in {q \in Packets : effects[q] # None}}
    \cup {ClaimRow(c) : c \in {d \in Claims : Claimed(d)}}
    \cup {ResultRow(c) : c \in {d \in Claims : results[d] # None}}

\* The pairs of rows whose event sequences are compared.
Compared ==
  {<<ReleaseRow(p), RequestRow(p)>> : p \in Packets}
    \cup {<<BindingRow(d[1]), RequestRow(d[2])>> :
            d \in {e \in BindingRequests \X Packets : e[1].scope = PacketScope[e[2]]}}
    \cup {<<RequestRow(c[1]), ClaimRow(c)>> : c \in Claims}
    \cup {<<ResultRow(c), ClaimRow(NextTry(c))>> : c \in Claims}
    \cup {<<ClaimRow(c), ResultRow(c)>> : c \in Claims}
    \cup {<<ExecutorRow(d[1]), ResultRow(d[2])>> : d \in Executors \X Claims}

\* A row that a step inserts comes after those that were there.
Insert ==
  before' = IF rows' = rows THEN before
            ELSE before \cup (Compared \cap (Rows \X (Rows' \ Rows)))

AuditInit == Init /\ before = {}

AuditSpec == AuditInit /\ [][Next /\ Insert]_auditVars

-----------------------------------------------------------------------------
\* The checks, row by row.

EditedSince(p) == disk[p] # effects[p].bytes

FilesFitManifest(p) == disk[p] \in Intact        \* mutant: the receipt is not hashed
FilesFit(p)         == ~ EditedSince(p)

\* The release, the binding and the files of a request.
RequestPasses(p) ==
  /\ p \in released
  /\ <<ReleaseRow(p), RequestRow(p)>> \in before
  /\ \E b \in bindings :
       /\ b.scope = PacketScope[p] /\ b.target = effects[p].target
       /\ <<BindingRow(b), RequestRow(p)>> \in before
  /\ effects[p].bytes \in Intact
  /\ FilesFit(p)

\* Attempts are counted by their claims, so that they have no gap.
ClaimPasses(c) ==
  /\ effects[c[1]] # None
  /\ <<RequestRow(c[1]), ClaimRow(c)>> \in before

RetryIsSafe(c) ==
  Claimed(NextTry(c)) =>
    /\ results[c] # None /\ results[c].outcome = "FAILED" /\ results[c].retry
    /\ <<ResultRow(c), ClaimRow(NextTry(c))>> \in before

ResultPasses(c) ==
  LET r == results[c] IN
  /\ effects[r.effect] # None /\ Claimed(c) /\ r.executor \in executors
  /\ <<ClaimRow(c), ResultRow(c)>> \in before
  /\ <<ExecutorRow(r.executor), ResultRow(c)>> \in before

\* The rows that the audit finds fault with.
EffectFailures ==
  {RequestRow(p) : p \in {q \in Packets : effects[q] # None /\ ~ RequestPasses(q)}}
    \cup {ClaimRow(c) : c \in {d \in Claims : Claimed(d) /\ ~(ClaimPasses(d) /\ RetryIsSafe(d))}}
    \cup {ResultRow(c) : c \in {d \in Claims : results[d] # None /\ ~ ResultPasses(d)}}

-----------------------------------------------------------------------------
(***************************************************************************)
(* The audit, which every executor run waits on, finds fault with those    *)
(* requests whose packet files were edited since, and with nothing else    *)
(* that the program requested, claimed and recorded, in whatever order     *)
(* registrations, releases, claims and results of whichever signer came    *)
(* (verify_integrity, execute_claimed_effect).                             *)
(***************************************************************************)
AuditBlamesOnlyEdits ==
  EffectFailures =
    {RequestRow(p) : p \in {q \in Packets : effects[q] # None /\ EditedSince(q)}}
=============================================================================
