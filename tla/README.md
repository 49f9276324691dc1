# governed-signal-to-content in TLA+

This directory models governed-signal-to-content from the signal to the external
effect: the commands that turn a signal into a packet awaiting approval, the
commands that decide about it, the capability policy that says who may, the
event store and its migrations under every transaction, the projection of the
committed events to the receipt log, and the effect that follows a release. Paths
below are relative to `src/governed_signal_to_content/` unless they start with
`docs/` or `tests/`.

## 1. The system

A workspace is a directory with one SQLite database, a JSONL receipt log and
files for candidates, evidence, packets and approvals. Nothing runs as a server:
every command is a short process, and two processes meet only in the database
and the files. Writers use `BEGIN IMMEDIATE` (`database.connect`); most reads do
not hold a transaction.

| Component | State | Operations | Hard behaviour | What makes it correct |
|---|---|---|---|---|
| Workflow state machine (`state_machine.py`) | `state` of candidates and packets | `transition_candidate`, `transition_packet`, `record_rejected_transition` | prior state read before the transaction | only valid transitions; terminal states final; packet and candidate in step; authority pairs refused |
| Signed packet operations (`authentication.py`, `transition_mediator.py`) | signed envelopes, `authenticated_operations`, `approvals` | `prepare_operation`, approve, reject, release | replayed and raced envelopes; packet, candidate and files read separately; files rewritten in between | each operation adjudicated once; release binds the approved bytes; one decision per packet |
| Capability policy (`authorization.py`, `database._commit_capability_policy_operation`) | `trusted_principals`, `capability_grants`, `capability_revocations`, `capability_policy_state` | bootstrap trust, bootstrap policy, grant, revoke, evaluate | concurrent revocation; last administrator; legacy rows | accepted events cite an active exact grant; an administrator remains; bootstraps happen once |
| Event store (`database.insert_transition_event`, `integrity.prepare_chained_event`) | `transition_events`, chain entries, chain state | activation, append with the mutation it explains | every writer appends; edits behind the program's back | the chain explains the state, never forks, and shows an edit for good |
| Integrity audit (`integrity.verify_integrity`) | none | read-only verification | judges history by the present tables; reads without a transaction | accepts what the program writes, flags what it cannot have written |
| Receipt projection (`receipts.py`) | JSONL log, `receipt_projected_at_utc` | project, reconcile | crash between commit, append and mark; two projectors; torn lines | every event projected, once |
| External effects (`external_effects.py`, `effect_executor.py`, `effect_protocol.py`) | effect requests, dispatches, results, bindings, executors, captured files | create, claim, execute, record | second process, lost results, retries | one effect per release; no blind retry |
| Candidate pipeline (`evidence.py`, `deduplication.py`, `qualification.py`, `packets.py`) | candidates, evidence, packets, files | ingest, normalize, deduplicate, qualify, generate | several writes per command; other commands, exceptions and crashes between them | evidence is complete; alike candidates never both pass; packets mirror candidates; what is not finished is known |
| Schema migration (`database._migrate_schema`) | tables, columns, grant vocabulary, index, schema version | upgrade in place, statement by statement, at the start of every command | two commands migrate side by side; one fails or dies half-way | a current version means a complete schema and an active chain |
| Command line, workspace, adapters, watch scripts | none of their own | parse, print | none | |

How they interact: every command first migrates the database. The pipeline
commands write their files and rows one by one and end with a conditional update
of the candidate's state; `generate` hands a packet over in `AWAITING_APPROVAL`.
From there on a command authenticates its signed operation against
`trusted_principals` and `authenticated_operations`, reads the packet, the
candidate and the packet directory, and calls one commit function, which
evaluates the policy, updates the states, appends the event, the approval or
policy row and the consumption row, all in one transaction. Only after the commit
is the event projected to the JSONL log. Local steps (`generate`, failure) go
through `state_machine.py` to the same tables without a signature. External
effects start from the release event and the packet.

## 2. Modules

| Module | Role |
|---|---|
| `Workflow` | constants of the workflow: states, transition table, authority pairs, semantics of the signed operations, the state pair of every capability |
| `CapabilityPolicy` | the evaluator as pure operators over sets of grants and revocations, with every denial reason in the order of the code |
| `Authority` | the state machine: trust, signing, the reads of a command, its transaction, local transitions, crashes |
| `AuthoritySafety` | what `Authority` promises: invariants, action properties, one liveness property and its fairness |
| `AuthorityBoundary` | the abstract specification of the authority boundary: operations used once, in one step that finds its signer, its packet, its grant and the approved bytes; without workers, envelopes in flight, rows or events |
| `AuthorityAudit` | the policy half of `verify_integrity` as an operator on the state, and what it should say of the program's own histories |
| `ReceiptProjection` | the receipt log: append, mark, approval file and reconciliation after the commit |
| `ExternalEffect` | bindings, requests, claims, executor runs, signed results |
| `EffectLifecycle` | the abstract specification of an effect: requested, claimed, retried, captured, reported; without executors, runs, signed files or crashes |
| `EffectAudit` | extends `ExternalEffect` with the effect half of `verify_integrity`, judged by the order of the events |
| `CandidatePipeline` | ingest, normalize, deduplicate, qualify and generate, step by step |
| `CandidateLifecycle` | the abstract specification the pipeline implements: a candidate, its state and its one packet, without commands, files or processes |
| `EventStore` | migration, activation, checkpoint and append, step by step, with edits |
| `ChainAudit` | extends `EventStore` with the chain half of `verify_integrity`, read by read |
| `MCAuthority`, `MCReceiptProjection`, `MCExternalEffect`, `MCCandidatePipeline`, `MCChainAudit` | instances for TLC |
| `AuthorityProofs` | the evaluator, the inductive invariant and type correctness, proved |
| `AuthoritySafetyProofs` | every safety and action property of `AuthoritySafety` and `AuthorityAudit`, proved from it; the refinement of `AuthorityBoundary`; misbound revocations; what becomes of a verified operation |
| `ReceiptProjectionProofs` | types, `ProjectionFollowsCommit` and `CopiesBounded`, proved; that nothing is dropped, and what a torn line blocks |
| `ExternalEffectProofs` | types, every safety and action property of `ExternalEffect` and `EffectAudit`, and the refinement of `EffectLifecycle`, proved |
| `CandidatePipelineProofs` | types of the pipeline, and what each step changes |
| `CandidateSafetyProofs` | every safety property of the pipeline, the refinement, and that an abandoned candidate stays so |
| `EventStoreProofs` | types, every safety and action property of `EventStore` and `ChainAudit`, and when a command is refused |
| `NaturalSets` | lemmas on least and greatest elements of sets of naturals |

`ExternalEffect` starts where a release of `Authority` ends: its `Release` stands for
`CommitAccepted` of a release, and the release evidence that a request checks
(approval, grant, principal) is what `AcceptedIsAuthorized` and `ReleasedAsApproved`
establish there.

`CandidatePipeline` ends where `Authority` starts: its packet rows in
`AWAITING_APPROVAL`, each mirroring its candidate (`PacketsMirrorCandidates`), are
the initial states of the latter. `EventStore` lies under both: its `AppendEvent`
is the `insert_transition_event` that every committing action of `Authority`
contains, where one position of `log` stands for event, entry and head.
`CurrentIsComplete` is what lets `Authority` take its tables for granted.

`ReceiptProjection` continues where a transaction of `Authority` ends: its `Commit`
stands for any action of `Authority` that appends to `log`. The two share nothing
else, because the code projects outside every transaction and reads only the
committed event.

### State of `Authority`

| Variable | Code |
|---|---|
| `trusted` | `trusted_principals` |
| `packetState`, `candidateState` | the `state` columns of a packet and of its candidate (a packet and its candidate are one element of `Packets`) |
| `disk` | content of the packet directory; `Intact` are the contents whose recomputed manifest is the stored one (they differ in `packet_receipt.json`, which the manifest does not cover) |
| `signed` | envelopes that exist; an envelope never disappears, so it can be delivered late and any number of times |
| `consumed` | `authenticated_operations` |
| `grants`, `revocations`, `bootstrapped` | `capability_grants`, `capability_revocations`, `capability_policy_state` |
| `approvals` | `approvals` |
| `log` | `transition_events` in chain order; position `i` is event sequence `PriorEvents + i` |
| `job` | per process: what the running command has read so far |

### Actions

| Action | Code |
|---|---|
| `BootstrapTrust` | `database.bootstrap_trusted_principal` (check and insert in one immediate transaction) |
| `PreparePacketOperation`, `PreparePolicyOperation` | `authentication.prepare_operation`, `prepare_policy_operation`, then `sign_operation` |
| `EditArtifacts` | anybody rewriting a packet directory (external) |
| `Receive` | `authenticate_authority_request`, including the replay lookup, and the choice of the mediator; `agrees` is false when the adapter named another operation, packet or reason, or is the mediator of the other kind |
| `ReceiveUnverified` | an attempt without a verifiable operation |
| `ReadPacket`, `ReadCandidate`, `ReadArtifacts` | the three separate reads of `_mediate_authenticated`, with the checks that follow each |
| `CommitAccepted`, `CommitDenied` | `_commit_authority_transition` |
| `CommitRejection` | `record_authenticated_authorization_rejection`, reached from `_reject_authenticated` |
| `CommitPolicyAccepted`, `CommitPolicyDenied` | `_commit_capability_policy_operation` |
| `CommitPolicyRejection` | `_record_policy_binding_rejection` |
| `RecordAttempt` | both `_record_authentication_rejection` |
| `Rollback` | a transaction that raises: the operation was consumed meanwhile, or a row changed in a way the code reports as an error and not as a denial |
| `StartPacketTransition`, `StartCandidateTransition` | the read of `transition_packet`, `transition_candidate` |
| `PacketTransition`, `CandidateTransition`, `RejectedTransition`, `AbandonedTransition` | their commit, rejected event, and error without an event |
| `Crash` | the process dies; SQLite keeps what committed |

### State and actions of `ReceiptProjection`

| Variable | Code |
|---|---|
| `committed`, `marked` | rows of `transition_events`, and those with `receipt_projected_at_utc`; events are numbered in chain order |
| `lines`, `terminated` | the JSONL log, line by line: the event a line names and whether it is whole, altered, or does not parse; whether the file ends with a newline |
| `files` | `approvals/<id>.json` |
| `job` | per process: the events it still projects, the step it is at, whether it is the deciding command or a reconciliation |
| `failures` | failures, crashes and edits so far, for the bound |

| Action | Code |
|---|---|
| `Commit` | the end of any committing command; `project_transition_event` follows |
| `Reconcile` | `reconcile_pending_receipts`: reads the pending events once |
| `Search` | `find_receipt` and the comparison of the content |
| `AppendReceipt`, `AppendFails` | `append_canonical_receipt`: one write, which succeeds or leaves part of a line |
| `Mark` | `mark_transition_event_projected` |
| `WriteFile` | the approval JSON at the end of `CanonicalTransitionService.commit` |
| `Fail` | an exception or a crash between any two steps |
| `EditLine` | somebody editing the log (external) |

### State and actions of `ExternalEffect`

| Variable | Code |
|---|---|
| `released`, `disk` | packets in state `RELEASED`; the packet directories (contents: `Intact` fit the stored manifest, `Malformed` make `recompute_packet_manifest` raise, others fit a manifest of their own) |
| `bindings`, `executors` | `external_destination_bindings`, `trusted_effect_executors` |
| `effects` | `external_effect_requests`, at most one per packet: the target and the bytes it binds |
| `claims`, `results` | `external_effect_dispatches` (attempts `1..claims[p]`), `external_effect_results` by claim |
| `captures` | the file `<idempotency key>.json` of the capture adapter: absent, begun, or whole with a content |
| `signed` | signed result files that runs produced; `HandSigned` are those that another program signed with the executor key |
| `before` (`EffectAudit`) | which of two rows that the audit compares had its event earlier in the chain |
| `job` | per executor process: the claim it runs, its step, the bytes it read, the outcome it will report |

| Action | Code |
|---|---|
| `RegisterBinding`, `RegisterExecutor` | accepted operations of `mediate_execution_management` |
| `CreateRequest`, `ClaimEffect` | `create_external_effect_request`, `claim_external_effect` |
| `Start` | `execute_claimed_effect` up to the first hash: the audit, the reads of the claim, the state and the files. Reads of the files and of the rows touch nothing in common, so one step has the outcomes of the separate ones |
| `Recheck` | the second hash and the credential |
| `Look`, `Open`, `Fill`, `AdapterFails` | `CaptureAdapter.invoke`: third read and existence check, exclusive creation, write; any exception of it |
| `Sign` | the envelope, its signature and its file |
| `Crash` | the executor process dies |
| `RecordResult` | `record_signed_executor_result` |

### State and actions of `CandidatePipeline`

| Variable | Code |
|---|---|
| `signal` | what is behind each candidate: the signal it was ingested from, which fixes what deduplication compares |
| `row` | the candidate row: `state`, and whether normalize has written to it |
| `evidence` | `evidence_records` |
| `files` | the files that commands write: the copy of a source file, the candidate and evidence JSON, the normalized JSON. A file that exists ends the command, except for the evidence JSON, whose name is fresh |
| `packet`, `directory` | packet rows; packet directories (temporary while they are filled, then renamed) |
| `job` | per process: its command, candidate and next step, what it has read and will ask for |
| `failures`, `crashes` | exceptions and deaths so far, for the bound |

| Action | Code |
|---|---|
| `StartIngest`, `CopySource`, `InsertCandidate`, `InsertEvidence`, `WriteCandidateFile`, `WriteEvidenceFile` | `evidence.ingest_signal`, in the order of its writes |
| `StartNormalize`, `WriteNormalFile`, `UpdateNormalized` | `deduplication.normalize_candidate` |
| `StartDeduplicate`, `Compare` | the two reads of `deduplicate_candidate`: its own row, then all the others |
| `StartQualify`, `StoreClassification` | `qualification.qualify_candidate` |
| `StartGenerate`, `Materialize` | the packet directory of `packets.generate_packet` |
| `ReadState`, `Commit` | `transition_candidate`, the end of every command; for generate with the packet row in the same transaction |
| `SubmitRead`, `Submit` | `transition_packet` to `AWAITING_APPROVAL`, the second transaction of generate |
| `Fail`, `Crash` | an exception with its handlers, a death without them, between any two steps |

### State and actions of `EventStore` and `ChainAudit`

| Variable | Code |
|---|---|
| `version`, `tables`, `columns`, `vocabulary`, `indexed` | `PRAGMA user_version`; the tables; the columns that releases added; whether the CHECK of `capability_grants` knows the present capabilities; `idx_capability_grants_effective` |
| `events`, `altered` | `transition_events`, and those whose content was changed after they were hashed |
| `entries`, `chain` | `transition_event_chain_entries`, the row of `transition_event_chain_state` |
| `job` | per process: its next statement, what it has read, the event it will append |
| `audit` | the next read of `verify_integrity`, and what the earlier ones left to compare |
| `faults`, `edits` | failures and edits so far, for the bounds |

| Action | Code |
|---|---|
| `Start` | `_migrate_schema`: the version found is read |
| `CreateTables` | `executescript(SCHEMA)` |
| `ReadColumns`, `AddColumn` | `PRAGMA table_info` once per table, then one `ALTER TABLE` per missing column |
| `ReadVocabulary`, `Rebuild` | `_upgrade_capability_grant_vocabulary`: the copy of the grants to a table with the new CHECK |
| `DropIndex`, `CreateIndex` | the index is dropped and created by every migration |
| `ReadChain`, `CountEntries`, `ReadLegacy`, `Activate` | activation over the events found |
| `Checkpoint`, `SetVersion` | the check of the legacy events by an older database's migration; the version |
| `AppendEvent` | `insert_transition_event` with `prepare_chained_event`: tail, predecessor and head are compared |
| `Fail` | the command fails or dies; its open transaction rolls back |
| `Edit` | somebody alters, deletes or fabricates an event or rewinds the head (external) |
| `ReadVersion`, `ReadStateRow`, `ReadRows`, `ReadOrphans` | the reads of the audit, each from the database of its own moment |

### Abstractions

- The search reads the log at once; the code reads it line by line while another
  process may append, which at most makes the search miss the newest line, as if
  it had been a little earlier.
- A line is one append: it is shorter than the stream's buffer or reaches the file
  in one flush. Two processes appending at the same moment do not mix their bytes;
  a partial write is `AppendFails`.
- `EffectAudit` judges the rows at one moment. The code reads the events first and
  then table by table without a transaction, so a row that is appended between two
  of its reads makes it report a mismatch, as `AuditBlamesOnlyAppends` says of the
  chain; every change of a table comes with an event, so without an append all the
  reads see one database. An executor that is refused for that reason does not start.
- Of the places of events in the chain `EffectAudit` keeps which of two comes first,
  for the pairs the audit compares. Its checks of bindings and executors against the
  events that registered them compare copies of one fact and are not repeated.
- `Audited`, the guard of `Start`, is what the audit says of files. That it finds
  nothing else in the effect tables is `AuditBlamesOnlyEdits`; its policy half may
  refuse more (finding 1), which only takes runs away.
- An executor uses one capture directory, and `test.capture` is the only adapter.
- A denied or replayed management operation changes no row of `ExternalEffect`; its
  adjudication is that of `Authority`.
- A scope is one value. The evaluator's three mismatch codes, which differ in the
  component they name, are one reason.
- An operation, the grant it issues, its decision and its approval share one
  identifier; the code generates fresh identifiers for each.
- A signature, a key, a clock: an envelope verifies or it is an unverified
  attempt. Expiry between authentication and commit is not seen.
- `prepare_operation` reads the packet, its files and its approval in separate
  statements. It is one step here: whatever a mixture of reads would sign is
  checked again, field by field, when the operation is mediated.
- Replays handed to a wrong adapter write no event or the event of a plain
  replay; only the plain replay is modelled.
- A hash is what it was computed over (`EventStore`): the hash of an entry is its
  event unless somebody altered it, the activation hash is the set of legacy
  events. SHA-256 over canonical JSON is assumed to have no collisions. `Authority`
  stores every fact once, so that no copy can disagree there.
- A table is created with all its columns, an older one is given those it lacks.
- Identifiers are random and fresh: of candidates, packets and events the model
  takes any that was never seen.
- A pipeline command that is refused at its first check changes nothing; the event
  it records is a rejected event of `Authority`.
- A bootstrap of the policy is for its own principal (`RequestAssumption`), as
  `models.py:284-288` validates before anything is signed.
- Legacy approvals (without scope and event) are not among the initial states.
- Waiting for SQLite's writer lock is the order of steps; a 30-second timeout
  is a crash before the commit.

## 3. Runs

| Run | Question | Bounds |
|---|---|---|
| `race` | two processes race approve, reject, release and the revocation of the release grant over one packet whose receipt is rewritten or whose files are tampered with; does this implement the boundary | 2 workers, 4 operations, 3 contents, 3 events |
| `policy` | everything from an empty registry: two trust bootstraps, two policy bootstraps, a second administrator, each administrator grant revoked (one of them twice), a hand-signed grant to a stranger | 2 workers, 8 operations, 4 events |
| `local` | local packet and candidate steps against signed approval and release, with unverifiable attempts | 2 workers, 2 operations, 4 events |
| `scope` | two packets in two scopes, a legacy grant, a grant that arrives late, envelopes signed for the wrong scope and for none; is every acceptance authorized and every verified operation used up | 2 workers, 6 operations, 2 events, fair workers |
| `projection` | commands and reconciliations over one log, with failures, partial appends and edits | 2 processes, 3 events, 2 failures |
| `effects` | two executor processes run, crash and report claims of two packets in two scopes whose files are edited and restored; bindings collide; results are signed by hand; what does the audit say of it, and does it implement the lifecycle of an effect | 3 contents, 2 attempts, 3 runs, 2 edits |
| `pipeline` | two processes run the five commands over two candidates that are twins, share a link or are unlike; does this implement the lifecycle | 2 workers, 3 packet identifiers, 1 exception or crash |
| `store` | two commands migrate databases of version 2 and of version 4 and append, beside an audit, with an edit behind the program's back | 2 workers, 3 events, 3 tables, 3 added columns, 1 failure, 1 edit |
| `audit`, `legacy`, `torn`, `retry` | what the documentation says and the code does not do | |

Each race the properties speak of needs two processes and at most three events
(an event that one of them read before, the one that changes it, and the one that
is then judged); `race` was also checked once with four events (517 thousand
states) without an error. `policy` needs four: bootstrap, second administrator,
and two revocations. `projection` needs two processes, so that one is between its
search and its append when the other searches; three events, so that a failed
event lies between projected ones; and two failures, so that a retry fails too.
`effects` needs two runs of one claim that overlap and a third that follows them,
two attempts, so that one follows a failure, and two edits, so that a file can be
changed and restored between two reads. `pipeline` needs two candidates for two
duplicate checks to pass each other, a packet identifier for each of them and one
for a generate repeated after a fault, and one fault: what a fault leaves behind is
looked at by commands that run to their end. `store` has a database without the
chain and one with a chain and an incomplete grant table; two columns in one table,
so that both are judged by one reading, and one in the rebuilt table; a legacy
event, so that the checkpoint is not empty; and room for an event of each command.
`MaxEvents` bounds the chain and `Room`
keeps a worker from starting what the bound would not let it finish, so no worker
gets stuck half-way; when the events are used up the system stops, which is why
deadlock is not checked. Workers are symmetric; symmetry is used in runs without
a liveness property.

### Properties

Invariants: `AdjudicatedOnce` (events and consumed operations correspond one to
one), `AcceptedIsAuthorized` (every accepted authority event cites a grant that
covered it when it committed), `ReleasedAsApproved` (a release saw the bytes its
approval saw), `ChainExplainsState` (accepted events form one path of valid
transitions to the present state), `DecidedOnce`, `PairedStates`, `AdminRemains`,
`RevokedOnce`, `BootstrapsOnce`, and `AuditFlagsOnlyRejections` (the audit finds
nothing wrong with a history the program wrote except in rejected packet events
that record another state than their operation expects, or the replay of an
operation signed for another scope). Of the projection: `ProjectionFollowsCommit` (files follow marks, marks
follow lines, lines follow commits), `CopiesBounded` (retries do not multiply
receipts: an event has at most one line per process), and the liveness property
`ProjectedUnlessDamaged`. Action property: `OnlySignedCrossesAuthority`.
Liveness: `VerifiedIsConsumed`. Refinement: `ImplementsBoundary` (run `race`), that
workers, stale reads and envelopes in flight come to atomic authorized decisions.
`TerminalIsFinal` follows from `ChainExplainsState`, since events are only added, and
is kept as a theorem.

Of external effects: `TargetsAreSeparate` (one target per scope and one scope per
target, across requests), `ClaimsAreSerial` (an attempt follows only a failure that
permits it; at most one claim is unresolved), `ResultsFitClaims`,
`SuccessIsCaptured` (a reported success has a whole capture file),
`AuditBlamesOnlyEdits` (the audit, which every executor run waits on, finds fault
with the requests whose files were edited since and with nothing else, in whatever
order registrations, releases, claims and results came), and the action properties
`CaptureIsFinal` and `FirstResultStands`. The refinement `ImplementsEffectLifecycle`
says the same of an effect as a whole. `EffectLifecycle` does not promise that a
permitted retry means no effect has occurred: the code does not keep that (finding 4).

Of the pipeline: `AlikeNeverBothPass` (of two candidates with one source at most one
is found unique), `SuppressedHasMatch`, `PreservedIsComplete`,
`PacketsMirrorCandidates`, `NoDirectoryLeft` (exceptions leave no directory without
a row), the refinement `ImplementsLifecycle`, and the liveness property
`FinishedOrAbandoned`: every candidate ends suppressed or awaiting approval, or in
one of three places that the property names and no command leaves (an ingest that
did not reach its transition, a normalize that wrote its file and not the state, a
generate between its two transactions). That two twins may both be suppressed
contradicts none of these; it is listed as a hazard.

Of the store: `CurrentIsComplete` (a database that says it is current has every
table, column and capability and an active chain), `ChainTellsEdits` (an unedited
chain holds, and one that was edited once never holds again, whatever is appended
and migrated since), the action property `AuditBlamesOnlyAppends` (an audit beside
running commands reports a sound chain only if an append or the activation came
between its reads), and the liveness property `MigrationCompletes`: if commands
come one at a time from some point on, a migration completes, whatever earlier ones
left. Side by side two commands may fail each other for ever, because each drops
`idx_capability_grants_effective` and then creates it without `IF NOT EXISTS`
(`database.py:662-673`): the premise of the property is needed.

`PairedStates` is checked where nobody asks for a candidate transition:
`transition_candidate` moves a candidate that already has a packet without moving
the packet. No command of the repository asks for that, and the theorem
`PairedUnlessCandidateMoves` says that nothing else parts the two.

Fairness: `LiveSpec` of `Authority` assumes weak fairness of `Continue(m)` for
every worker and no crash. A command is straight-line code without a wait of its own, and SQLite
grants the writer lock to one of the waiting writers, so a process that is not
killed runs to its end. Receiving an operation is not fair: nobody need ever run
a command. `FairSpec` of the projection assumes weak fairness of `Project(w)` for
the same reason (a failure stops the command, and failures are bounded), and weak
fairness of `Reconcile`: `docs/local-first-operation.md` tells the operator to run
`gs2c reconcile-receipts` after an interrupted projection. `LiveSpec` of the
pipeline assumes weak fairness of every running command, and strong fairness of
`Proceeds(c)`, the operator asking for the next command of a candidate: strong,
because a candidate is free to be asked for again and again without being so
continuously (another command holds the worker). `LiveSpec` of the store assumes
weak fairness of running commands only; that commands keep coming is a premise of
`MigrationCompletes`, and audits are not fair.

Operators marked `\* mutant` are deliberate faults (a check dropped, a stale read
used, an update made unconditional). No action uses them; putting one in place of
the definition below it makes the property it is paired with in `PROJECT.json`
fail, which shows that the property depends on that check.

### Findings

1. `audit`: the audit flags the program's own rejected events. An operation on a
   packet that has moved on, a `STATE_SCOPE_MISMATCH` denial and a replay record
   the real prior state; `integrity.py:390-395` accepts only the canonical pair of
   the command, so `verify-integrity` exits nonzero after a harmless race, and
   `execute_claimed_effect`, which requires the same verdict, refuses to run. The
   replay of an operation that was signed for another scope is flagged as
   `packet_event_scope_mismatch` as well (`integrity.py:1403`).
   `AuditFlagsOnlyRejections` shows that nothing else is flagged.
2. `legacy`: `authentication.py:523` signs every revocation with scope version
   1.0, so a grant issued before grants carried a scope can never be revoked.
3. `torn`: an append that stops half-way leaves a line that no later search gets
   past (`receipts.py:278`), so reconciliation, which the documentation prescribes
   for this case, fails for ever. `ProjectedUnlessDamaged` shows that this is the
   only way an event stays pending.
4. `retry`: two runs of one claim may both start (`effect_executor.py:153`); the one
   without its credential signs a failure that permits a retry, whatever the other
   has done. One process suffices, so this is no race but a repeated command.

## 4. Proofs

TLAPS proves for every value of the constants that satisfies the named
assumptions of their modules (TLC evaluates them on every run):

| Theorem | States |
|---|---|
| `Inductive`, `TypeCorrect` | `Spec => []IInv`, `Spec => []TypeOK` |
| `EvaluatorTellsTheTruth`, `EvaluatorIsMonotone` | the evaluator allows exactly when an active grant fits, cites the first one issued and says `GRANT_REVOKED` only of a grant taken back; more grants and fewer revocations deny nothing that was allowed |
| `AuthorityImplements` | `ImplementsBoundary`: `Authority` implements `AuthorityBoundary` |
| `MismatchNamesLegacy`, `RevocationBindsUnlessLegacy` | a revocation is refused for its binding only if it was signed by hand or names a grant without a scope; without such a grant `PreparedRevocationBinds` always holds |
| `TransactionsAlwaysDecide`, `VerifiedNeverSlips` | `CandidateSteps = {}` implies that a transaction that runs commits or denies, and that a worker lets go of a verified operation only when it is consumed |
| `ConsumedExactlyOnce` | `Spec => []AdjudicatedOnce` |
| `AcceptanceIsAuthorized` | `Spec => []AcceptedIsAuthorized` |
| `AdminNeverLost`, `RevocationIsFinal`, `BootstrapIsOnce` | `AdminRemains`, `RevokedOnce`, `BootstrapsOnce` |
| `AuthorityIsSigned`, `TerminalStaysFinal` | `OnlySignedCrossesAuthority`, `TerminalIsFinal` |
| `DecisionIsOnce`, `ChainIsThePath`, `ReleaseWasApproved` | `DecidedOnce`, `ChainExplainsState`, `ReleasedAsApproved` |
| `AuditFlagsRejections` | `AuditFlagsOnlyRejections` |
| `ProjectionTyped`, `ProjectionFollows`, `CopiesStayBounded` | `ProjectionTypeOK`, `ProjectionFollowsCommit`, `CopiesBounded` of `ReceiptProjection` |
| `NothingIsDropped` | while the log is whole an event in hand stays in hand until it is marked or its process fails |
| `TornLineBlocks` | what a torn line keeps from being found is never marked again |
| `EffectsTyped`, `TargetsStaySeparate`, `ClaimsStaySerial`, `ResultsStayFitting`, `SuccessStaysCaptured` | `EffectTypeOK`, `TargetsAreSeparate`, `ClaimsAreSerial`, `ResultsFitClaims`, `SuccessIsCaptured` of `ExternalEffect` |
| `AuditFlagsEdits` | `AuditSpec => []AuditBlamesOnlyEdits` of `EffectAudit` |
| `FirstResultIsKept`, `CaptureIsKept` | `FirstResultStands`, `CaptureIsFinal` |
| `EffectsImplement` | `ImplementsEffectLifecycle`: `ExternalEffect` implements `EffectLifecycle` |
| `PairedUnlessCandidateMoves` | `CandidateSteps = {}` implies `Spec => []PairedStates` |
| `PipelineTypeCorrect`, `TypedAlways` | `PipelineTypeOK` of `CandidatePipeline`, and that no step reads a row that is not there |
| `EvidenceIsComplete`, `AlikeNotBothUnique`, `SuppressedMatches` | `PreservedIsComplete`, `AlikeNeverBothPass`, `SuppressedHasMatch` |
| `PacketsMirror`, `NoDirectoryIsLeft` | `PacketsMirrorCandidates`, `NoDirectoryLeft` |
| `PipelineImplements` | `ImplementsLifecycle`: `CandidatePipeline` implements `CandidateLifecycle` |
| `AbandonedForGood` | a candidate in one of the places `FinishedOrAbandoned` gives up stays there |
| `StoreTypeCorrect`, `CurrentStaysComplete`, `ChainStaysTelling` | `StoreTypeOK`, `CurrentIsComplete`, `ChainTellsEdits` of `EventStore` |
| `AuditsBlameAppends` | `AuditBlamesOnlyAppends` of `ChainAudit` |
| `AppendsAreNotRefused` | on an unedited database no append is refused, whatever runs beside it |
| `LoneCommandsComplete` | from any reachable state without a command, if commands come one at a time from then on and nobody edits, none is refused, and one that ends without a fault leaves a complete database and its event in the chain |

The inductive invariant `IInv` is `TypeOK` and two facts that types do not give.
`JobShapes`: what a worker holds fits its phase (a worker about to commit holds
an operation, that operation's packet, and so on); without it no commit could be
shown to write typed rows. `RowsPrecede`: no grant, revocation, consumption or
approval has a sequence number beyond the end of the chain; with it a new event
is later than every row, which is what "issued before" and "not revoked before"
in `AcceptedIsAuthorized` rest on. Each further property is proved by the same
case split, `StepCases`: a step decides nothing, appends one rejected event, or is
one of the four transactions that accept something. `AdminRemains` and the others
are inductive relative to `IInv` and, where needed, a lemma on what the accepting
transaction knows (`PolicyAcceptedFacts`, `PacketAcceptedFacts`). That the
evaluator cites an active grant rests on `LeastExists`: a nonempty set of event
sequences has a least element.

Three properties of whole histories have an invariant of their own.
`DecidedOnce` and `ChainExplainsState` are proved together: the accepted events of a
packet are a path that ends in its row, so a second decision would have to start
from a state that the first one left for good. `ReleasedAsApproved` needs what a
waiting worker holds (the approval and the files it has read), that an approval
event is logged with every approval row, and that a released packet's approval is
the one its worker read. `AuditFlagsOnlyRejections` is proved check by check of the
audit: every event has the shape of one of the ways it can come about, requesters
are trusted, the tables fit the log, and where a check relates an accepted event to
the policy it is `AcceptedIsAuthorized`, `AdjudicatedOnce`, `AdminRemains` or
`BootstrapsOnce` over again.

`AuthorityImplements` maps the tables and the chain to the boundary: the grants that
are not revoked, the operations consumed, the bytes that accepted approvals and
releases bind. Most steps are stutters; one lemma for each accepting transaction
finds in the present tables what the boundary asks for. Besides `IInv` it needs
`EnvelopeHeld` (what a worker holds was signed, although the bytes it goes on with
are those it found on disk), `SealedStands` (a packet whose bytes an approval sealed or a
release published stands past that decision, so that neither happens twice) and `IssuedOnce` (no two grants share an identifier, so that a revocation
takes exactly one power away).

`MismatchNamesLegacy` explains finding 2 in general. `SignedIsPrepared`: a
revocation that nobody signed by hand copies a grant that exists and claims the current
scope version for it; `LegacyIsPrior`:
a grant without a scope is older than the history. The promise of the documentation
then holds wherever no such grant exists (`RevocationBindsUnlessLegacy`).

For each liveness property that TLC checks, the part that is not about fairness is
proved. `VerifiedNeverSlips` (for `VerifiedIsConsumed`): every step of a worker with a
verified operation has a smaller distance to its transaction or ends with the
operation consumed. It rests on `TransactionsAlwaysDecide`, whose invariants are
`ApprovalKept` and `PairedStates`; both theorems assume `CandidateSteps = {}`, because
`transition_candidate` could part a packet from its candidate, and an operation on
such a packet rolls back unconsumed. No command of the repository makes such a step.

`ReceiptProjectionProofs` has its own `IInv`: the two properties, and `Working`,
what a process knows at each step (its events are committed; about to mark, the
event has a line or the log is damaged; about to write the file, the event is
marked). It is preserved because the log only grows and damage never heals, which
`LogKept` states for every action.

`CopiesBounded` follows from a budget: the lines of an event and the appends of it
that are still to come are never more than the processes, since a process that
begins to search after a line is there does not append.

`NothingIsDropped` is the safety half of `ProjectedUnlessDamaged`. It needs
`OneAtATime`: a command has one event in hand, so that the branch which ends a
command after its approval file leaves none behind. `TornLineBlocks` is finding 3 for
any number of processes: once a line is torn, an event that had no receipt before it,
and that no process has just looked for, is never marked.

`ExternalEffectProofs` is layered: `Typed` (types, and a run has a claim of an
existing request in hand) is assumed by three invariants that do not need each
other. `Bound`: bindings are one to one and every request keeps one of them.
`Ledger`: `ClaimsAreSerial` and `ResultsFitClaims`; a result can only resolve the
last claim, because every earlier one has its result. `Captured`: the file a run
fills is partial and no other run fills it, and a run about to report success has a
whole file; without it `Fill` could overwrite a file that another run reported.
`AuditFlagsEdits` adds `Ordered` to `Typed` and `Ledger`: whatever the audit compares
in a row was inserted before it (a released packet and a binding before the request,
the request and the result of the last attempt before a claim, the claim and the
executor before a result), and stays. `EffectsImplement` adds `RowsFollow` (no request without a release, no claim
without a request, no run without a claim) to `Bound`, `Ledger` and `Captured`: the
stage of an effect is read off its last claim and that claim's result, and what the
adapter wrote off its file.

`CandidatePipelineProofs` has the types together with what a command holds at each
step (`Typed`), and lemmas that say which steps start, go on, end or ask for a
state; `CandidateSafetyProofs` is layered on them. `Owned`: a candidate without a
row belongs to the one command that ingests it. `Preserved`: what an ingest has
written at each step; an ingest is the only way out of `DISCOVERED`. `AlikeCleared`:
of two alike candidates at most one is found unique or is about to be; it is
inductive because a check reads the other rows when its own is already in the
table. `PacketsHeld`: packet rows, directories, states and running generates
agree. The refinement maps a row to the state in it and a candidate to its packet
rows; `Commit` and `Submit` are the only steps that are not stutters. `AbandonedForGood` is
the safety half of `FinishedOrAbandoned`: with `Commanded` (which command is behind
each step and request) no command that runs or is still to come moves a candidate
out of the places that property gives up.

`EventStoreProofs` has three layers. `Migrating`: what the phase a command has
reached says of the database (`Reached`: all columns up to its own exist, the
vocabulary is complete once it is past the rebuild, ...), which no other command
takes away again, not even one that rebuilds the grants late. `Chained`: commands
own the events they will append; places and predecessors are unique; an unedited
chain is `Sound`, and an edited one is `Damaged` in one of the ways an edit leaves,
each of which appends and activations preserve. `Auditable`: what an audit has read
so far was sound when it was read.

Which statements of a command can fail, and on what, is `Refused`. An append is never
among them while nobody edits (`AppendsAreNotRefused`): the tail of a sound chain has
the head and the predecessor that `prepare_chained_event` looks for, and the place
after it is free (`UneditedAdmits`). The statements of a migration can fail beside
another command, and `LoneCommandsComplete` says that nothing else makes them fail.
`Indexable` holds in every reachable state, whatever died half-way: the index of the
grants exists or can be created over the columns there are. `Alone` holds from any
state without a command for as long as they come one at a time: what a command has
read is still so when it relies on it. Together they exclude every case of `Refused`,
and a command that ends unrefused has set the version, which `Migrating` allows only
on a complete database.

Model-checked only: `ProjectedUnlessDamaged`, `VerifiedIsConsumed`,
`FinishedOrAbandoned` and `MigrationCompletes`, which are liveness properties under
fairness and out of the prover's reach; the theorems named above prove what they rest
on besides fairness. Every other property of a passing run is proved.

## 5. What is left

Left for later: the audit of the effect tables read by read, as `ChainAudit` has it
for the chain; a theorem that joins `EventStore` and `Authority` (the `log` of the one
is the chain of the other); and an abstract log that `ReceiptProjection` implements.

Not modelled: the command line, path layout and output, the source adapters and
watch scripts (no state of their own); SHA-256 and canonical JSON as computations;
signature arithmetic; time (expiry of an operation between its authentication and
its commit, and the 30-second lock timeout other than as a failure); what a
candidate, a packet or a receipt says beyond what is compared.
