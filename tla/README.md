# TLA+ models of sealr

sealr reads an untrusted archive, verifies every member before it reports or
publishes anything, and publishes a directory tree with one no-replace rename.
This directory holds TLA+ models of `crates/sealr`: the parts whose correctness
depends on order (who renames what when, what a crash leaves behind, what a
concurrent writer or an arbitrary worker process can do between two steps), and
the parts whose correctness depends on several pieces of code agreeing on the same
bytes (the readers of each format, the second and third reading, the records that
cross a process boundary, the wheel profile on top).
TLC checks the models on small instances; TLAPS proves the central properties for
every value of the constants. `PROJECT.json` maps each definition to the source
lines it models and lists runs, mutants, hazards, findings and theorems.

Paths below are relative to the repository root.

## 1. The system

### 1.1 Components

| Component | Code | State it keeps | Operations | Model |
|---|---|---|---|---|
| Apply pipeline | `crates/sealr/src/apply.rs`, `outcome.rs` | progress of one call, findings, five outcome axes | admit, plan, verify, write members, audit, commit, abort and report, exit code | `Interpretation`, `ApplyOutcome` (up to a ready plan), `Materialize` (execution) |
| Materializer | `materialize.rs` | stage directory, retained capability, witness, retention record, cleanup state | create, persist record, write, audit, commit, abort, drop, recover | `Materialize` |
| Source snapshot | `snapshot.rs` | private unlinked copy, fingerprint, derived domains and transform records | copy, recheck, reread, append derived domain, drop | `SourceSnapshot` |
| TAR readers | `tar.rs`, `tar_pax.rs`, `tar_gnu.rs` | position, pending extension or long name, members so far | one turn per header | `TarDialects`, `TarPlan` |
| ZIP readers | `zip.rs` | end record, central position, members so far | find the end, one turn per central header | `ZipLayout`, `ZipPlan` |
| Stream decoders | `gzip.rs`, `zstd.rs`, `xz.rs`, `bzip2.rs` | position, output so far | decode one stream under caps | `GzipStream`, `ZstdStream`, `XzStream`, `Bzip2Stream` |
| 7z reader | `sevenz.rs` | header position | parse the copy-only container | `SevenZip` |
| Path jail | `jail.rs` | names seen | admit a name, topology | `PathJail` |
| Covering audit | `covering.rs` | none | read the source again against the evidence | in `TarPlan`, `ZipPlan` and the stream modules |
| Identity verifier | `tools/identity-verifier` | none | read the source a third time, recompute the identities | `TarVerifier`, `ZipVerifier` and the stream modules |
| Supervised worker session | `supervised/linux.rs`, `supervised/linux/materialize.rs` | child process, pidfd, socket, deadline, proposals, stage | spawn, authenticate, rounds, reap, replay, audit, commit, abort | `WorkerSession` |
| Supervised member reads | `supervised/linux.rs` (`WorkerReadAuthority`) | one permit, condition variable, pipe, worker per read | acquire, drain, validate, release | `MemberReads` |
| Semantic records | `semantic_record.rs` and `semantic_record/` | canonical plan, completion, retained content | encode, decode, validate, execute, replay | `PlanningRecord`, `CompletionRecord`, `RecordExchange` |
| Verified archives | `verified.rs`, `verification.rs` | member evidence, retained content | verify, capture, read, read a prefix | `CompletionRecord`, `RecordExchange` |
| Wheel consumer | `wheel/` | findings, artifact, install entries | parse, bind RECORD, plan, check a realization | `WheelParse`, `Wheel` |
| Bootstrap frames | `worker_protocol/`, `tools/worker-bootstrap/src/frame.rs` | none | encode, decode, check | as frame checks in `WorkerSession` |
| Worker confinement | `tools/worker-bootstrap/src/seccomp.rs` and beside it | kernel filters | install | only "restricted or not" in `WorkerSession` |
| Policy, quotas, ratio | `policy.rs`, `quota.rs`, `ratio.rs` | compiled budgets | charge, refuse | as budgets in the planners |
| JSON, hashing, CLI, tools | several | none | formatting, parsing, hashing | not modelled |

`PROJECT.json` lists every component with its exact source files.

### 1.2 How they interact

`apply` opens a `SourceSnapshot`, lets an interpreter build the archive IR from
it (decoders append derived domains), compiles the policy, and then
`execute_ready_archive` drives the materializer: create a stage beside the
destination, write each member as it verifies, audit the stage against the IR,
commit or abort. Several processes may do so in one parent directory; the file
system is their only shared state. A caller may later hand the retention record
of a dead call to `recover_abandoned_stage`.

The supervised entry points do the reading in a child process. Supervisor and
worker share a SEQPACKET socket, a stage descriptor, and for reads a pipe. The
worker only proposes: the supervisor replays the plan itself before it audits and
publishes. Threads that share a verified archive queue on one `ReadCoordinator`
permit, a mutex with a condition variable.

An archive is read up to three times. A reader accepts it and `apply.rs` turns what
it found into evidence; `covering.rs` reads the source again and must agree before
anything is executed; the identity verifier, a program of its own, reads it once more
and recomputes the identities. A TAR inside a compressed stream has two layers, each
with its evidence, and the inner one gets what the outer one left of the budgets.
With a worker, the plan crosses as a planning record, the results come back as
completion and retained-content records, and a later read goes out as a request.

### 1.3 What is hard

* *Interleaving*: two calls for one destination; a neighbour that changes or
  substitutes a stage; a writer that changes the source while it is copied; a
  worker that writes to the stage until it is gone; threads on one permit.
* *Crashes*: a kill between any two file-system operations; a panic that runs
  `Drop`; inode numbers reused while an old record still names them.
* *Partial failure*: a removal that fails once or twice, a parent sync that fails
  after the rename, a record that cannot be discarded, a reap that cannot be proved.
* *Timeouts*: a deadline at any poll, racing the worker's last frame or the
  permit's notification.
* *Limits*: a file of exactly the cap, one byte more, growth past it while copying; a
  wrapper that uses up the metadata budget its inner archive needs.
* *Agreement*: three readings of one format written separately; a record that is well
  formed and says something else; a field one side compares and the other does not.
* *State carried between turns*: an extension header that belongs to the next member,
  a quote that is open, an install target that an earlier entry already took.

The 40 hazards in `PROJECT.json` name the lines and the properties about them.

## 2. The modules

| Module | Models | Used by |
|---|---|---|
| `Publication` | the abstract contract of a destination | both refinements |
| `Materialize` | the stage lifecycle with crashes and recovery | `MCMaterialize`, `MaterializeProofs` |
| `SourceSnapshot` | the private copy and the transform graph | `MCSourceSnapshot`, `SourceSnapshotProofs` |
| `WorkerSession` | one supervised operation | `MCWorkerSession`, `WorkerSessionProofs` |
| `MemberReads` | concurrent supervised reads | `MCMemberReads`, `MemberReadsProofs` |
| `PathJail` | names, folding and topology | all format modules, `WheelParse` |
| `TarDialects` → `TarPlan` → `TarVerifier` | the three TAR readers; plan, evidence and audit; identities and verifier | `Interpretation` |
| `ZipLayout` → `ZipPlan` → `ZipVerifier` | the same for the five ZIP profiles | `Interpretation`, `PlanningRecord` |
| `GzipStream`, `ZstdStream`, `XzStream`, `Bzip2Stream`, `SevenZip` | one format each: reader, audit, verifier | `Interpretation` |
| `ApplyOutcome` | the axes of every stop | `Interpretation`, `PlanningRecord` |
| `Misrecordings` | evidence with one wrong field | `Interpretation` |
| `Interpretation` | one archive from bytes to an outcome | `MCStreams`, `MCInterpretation`, `AdmissionProofs` |
| `PlanningRecord` → `CompletionRecord` | the records, their decoders, execution and replay | `RecordExchange` |
| `RecordExchange` | one archive planned here and verified there | `MCRecordExchange`, `ExchangeProofs` |
| `WheelParse` → `Wheel` | the parsers and the evaluator of the wheel profile | `MCWheel` |
| `MaterializeProofs` | proofs about the stage lifecycle, its receipts and its removals | |
| `SourceSnapshotProofs`, `WorkerSessionProofs`, `MemberReadsProofs` | proofs about these modules | |
| `FoldTheorems` | induction over a fold, for any operator | by `INSTANCE`, in `AdmissionProofs`, `OutcomeProofs` and `ExchangeProofs` |
| `AdmissionProofs` → `OutcomeProofs` | proofs about the TAR readers, the three planners and the budgets of a derived archive; about the axes of an outcome | |
| `ExchangeProofs` | proofs about what the supervisor accepts and what later reads release | |

Some modules define, just before an operation, a variant with a mistake in it
(`PublishReplaces`, `ReleaseSilently`, `PlanUnordered`, ...). No specification uses
the variants; they are the mutants `PROJECT.json` names, and each one makes TLC
report the property it is listed with.

### 2.1 `Publication`

Three variables: whose tree each destination names, what each call reported, and
which archives are sound. A destination goes once from absent to a whole tree; only
a sound archive's tree may be put there by a call; a call reports "committed"
exactly if its own tree is there; a call that dies reports nothing. `Materialize`
(several calls) and `WorkerSession` (one) are both shown to implement it.

### 2.2 `Materialize`

A name binds a directory object; an object is an inode with an owner and a tree of
member states (`absent`, `partial`, `good`, `tampered`; path 0 stands for any file the IR
does not name). The inode is free again when its directory is removed. Per call:
`root` is the retained capability, `witness` the device and inode pair, `recFile` the
retention record on disk, `outcome` and `cleanup` the fields of
`CapabilityMaterializer`, `stop`, `notes`, `synced` what the report is built from.

| Actions | Code |
|---|---|
| `RefuseSetup` ... `RefuseStage` | `create`: parent and destination checks, mkdir, open, access and identity checks |
| `RemoveUnopened`, `SetupAbort`, `SetupRetry` | `after_stage_by_name`, `after_stage` and their second removal |
| `CreateRecord`, `WriteRecord` | `persist_stage_retention`; a kill between them leaves `Torn` |
| `WriteMember`, `DenyMember`, `FailMember`, `EndMembers` | the member loop of `execute_ready_archive` |
| `Audit`, `CommitCheck`, `SyncStage`, `Publish`, `PublishFails`, `SettleCommit` | `audit`, and `commit` in its order: recheck, stage sync, rename, parent sync, durability |
| `DiscardRecord`, `Abort`, `AbortRetry` | record discard, `abort` and its second call in `abort_and_report` |
| `Panic`, `DropStage`, `Kill` | unwinding through `Drop`; SIGKILL |
| `Recover` | `recover_abandoned_stage` with whatever record or returned witness exists |
| `PlantDestination`, `SubstituteStageName`, `Tamper` | other processes; the last two are what the repository's tests inject |

Each action is one system call with the bookkeeping that follows it, so a `Kill`
can fall between any two. The Linux and macOS branches are modelled.

Deliberate limits, from the documented threat model: no substitution between the
recheck and the rename, and recovery is presented only with the record of a call
that is over.

### 2.3 `SourceSnapshot`

The caller's file, its modification time in granules, and the steps of
`private_file_from_opened`: stat, private directory, spool file, bounded copy by chunks, length check,
reopen, unlink, metadata recheck, second streaming pass. A read may be short. The other
process writes, appends, truncates and lets time pass in any order; several writes within one
granule leave the time unchanged, so the metadata comparison alone proves nothing.
A byte is the version of its position: with `persistent` the other process never
goes back to an earlier byte or length, without it everything goes. A SHA-256 is the bytes it
digests. `AppendDerived` adds a domain and its record, or neither, within an identity
space of `DomainIds`.

### 2.4 `WorkerSession`

Supervisor and worker step independently. Six rounds of one frame each way
(challenge, bootstrap with the stage descriptor, source, plan, proceed, exit
acknowledgement); sending, receiving and checking are separate steps and the deadline may
expire at any poll. Termination is modelled as the code nests it: on expiry, on
finishing, and on drop, each with a kill that may be refused and a reap that may
time out. Then replay, audit, commit, or the abort path with its retry.
The worker receives, restricts itself, writes, answers, exits; it may die or
stall anywhere. `Untrusted = TRUE` adds `ForgeFrame` (any frame at any time),
`Scribble` (any write while it holds the descriptor) and `ExitEarly`.

### 2.5 `MemberReads`

Each reader builds its request, acquires the permit with `wait_timeout` (timeouts,
notifications and spurious wake-ups), reserves, spawns, shakes hands (the rounds of `WorkerSession` in one step), drains the pipe while it
watches socket and pidfd, acknowledges, waits for the exit, validates lengths and
digests of the whole stream, and releases the permit. `drain` holds the locals
of `drain_member_read`, `link` what can be observed of the worker.

### 2.6 The formats: `Interpretation` and below

A reader sees a source through windows: a TAR header block with the body of the
record it announces (payload and padding, over as many blocks as it takes), a ZIP central header with the local header it points at, a whole
stream or 7z header. Nothing is fixed in advance. Each turn reveals one more window, chosen from an
alphabet, and `src` remembers it so that later readings meet the same bytes; two
windows that overlap must agree (`Consistent`). The alphabets are constants: `TarWindows` of a TAR job, `ZipEnds` and
`ZipRecords` of a ZIP job, `Images` of a stream or 7z job. Lengths are small units (a TAR block has 4,
a ZIP word is 1); names are sequences of component classes; a checksum is whether it
holds, and a digest is the record it is taken of.

| Actions | Code |
|---|---|
| `Accept`, `RefuseSubmission` | policy compilation and the snapshot in `apply.rs` |
| `DecodeGzip` ... `DecodeBzip2` | decode one stream, audit the wrapper, hand on what is left of the budget |
| `ReadSevenZ`, `ReadTurn` | the readers |
| `SourceFails` | a failed read under any reader |
| `Plan` | ratio, quotas, path admission and the evidence, with the axes of every stop. When the reader refused a derived archive, the ratio walk (`verified_ratio_covering`) goes past what the reader revealed; there it may find anything, so its result is one of a set |
| `Misrecord` | one field of the evidence is wrong: what the other readings are for |
| `Audit` | `covering.rs`, before the archive is ready |
| `Verify` | the identity verifier on the recorded case |

Reader, audit and verifier are separate operators even where they look alike, because
they are separate code. What the audit does not compare is named in `SameButUnread`:
of a ZIP32 archive (`UnreadOfZip32`) every field of a member but where its local record and its central header
start and end; for ustar everything but the geometry; for xz the index records, the dictionary size, the declared sizes and where padding begins;
for 7z names, kinds, attributes, substream CRCs and empty members. The verifier
compares those, except for ZIP32, where its `verify_covering` reads no more than the audit.

### 2.7 The records: `RecordExchange` and below

A frame is a kind, a version, a reserved field, whether the bytes end with the body, and the body as
a structured value with the tags the decoder must map back. `Interpret` reads the archive to its end or its first
finding and plans it; `PreparePlan` encodes an audited plan; `Deliver` passes it on or changes it in one place; `WorkerValidates` decodes it and compares
it with the source bytes again; `ExecuteNext` verifies one member, with at most one
environment fault per execution; `WorkerAnswers` or `WorkerMisreports`; `Authorize` replays the supervisor's own record.
`AskMember` to `Release` are a later read through a one-shot worker whose request or
stream may differ. `EncodeTerminal`, `EncodeCoveringFailure` and `DecodeTerminal` are the records of archives without
a plan, which at present only the repository's tests and fuzz targets produce; a covering failure must name
the cause that the supervisor's own audit reproduces (`CoveringCause`).

### 2.8 The wheel profile: `WheelParse` and `Wheel`

`Select`, then one action per read (`ReadSemantic`, `ReadEntryPoints`; `ReadFails` can take
the place of each), `CheckHeaders`, `CheckRecord`, `PlanMember` for each turn of the
plan loop, `FinishPlan` with the sort and the collision check, and `Realize` for
an installer's report. `Conforms` is a reference statement of the profile that mentions no
order of stages. RECORD is read byte by byte; `NextByte` grows a text so that the
scanner is checked on every short one. Paths are ordered component by component, where the code orders the joined
strings (`PathLess` says when the two agree; nothing depends on the difference).

What the code admits and a reader might not expect: targets collide only within one
scheme; `RECORD.jws` and `RECORD.p7s` are copied though RECORD must not list
them; a rewritten or generated output only has to be there.

## 3. Runs

All numbers are for two TLC workers; a state count is of distinct states.

| Run | Instance | Result |
|---|---|---|
| `race` | 2 calls, 1 destination, 3 inodes, 1 member, substituted names and tampered stages, removals succeed; symmetric in calls and inodes; 959 thousand states, 125 s | six properties hold |
| `live` | 2 calls on the longest path (directory sync, a record to discard), failing removals, `FairSpec`; 415 thousand states, 125 s | receipts are truthful; every surviving call returns; a renamed one returns committed |
| `snapshot` | files up to 3 bytes, cap 2, buffer 2, 2 granules, 3 domain identities; 237 thousand states, 50 s | four properties hold |
| `session` | untrusted worker, up to 2 unread extra frames; 962 thousand states, 70 s | eight properties hold |
| `reads` | three readers (one full, two with an empty prefix), one-chunk member, one-chunk pipe, untrusted workers; 430 thousand states, 150 s | six properties hold |
| `formats` | jobs for every dialect, profile and stream, each with its own alphabet of windows and budget; 1.31 million states, 65 s | seven properties hold |
| `records` | 31 archives, one change per message, one fault per execution; 24 thousand states, 35 s | four properties hold |
| `wheel` | the complete wheel with up to two payload members in either order or one change; every RECORD text up to 8 bytes; 513 thousand states, 40 s | three properties hold |
| `retry`, `setup`, `session_cleanup`, `reads_permit` | one call, and three readers for the last | a documented sentence is refuted, see section 6 |

Deadlock checking is off because each model describes calls that end; for the
concurrent ones that they do end is checked as `EveryCallEnds`, `CopyEnds`, `SessionEnds` and `EveryReadEnds`.

What the properties say:

* `PublishedIsVerified`, `DestinationIsFinal`: a destination names a foreign
  directory or a complete verified tree, and nothing ever alters or unbinds it.
* `ExitCodeTruthful`: exit 0 means that the call's own tree is at its destination.
* `ReceiptTruthful`: what the receipt says about the stage, the record, durability and later
  reads against what is on disk. Its parts are `CleanupTruthful`, `LeftoverIsRecoverable`,
  `RecordDiscarded`, `DurabilityTruthful` and `CapabilityMeansVerified`.
  `RemovedMeansRetainedRemoved` and `FailedCleanupReturnsRecord` hold or fail by circumstance, see section 6.
* `OnlyOwnObjectsRemoved`: no removal, recovery included, touches a directory of another owner.
* `EveryCallEnds`: a call that is not killed returns, and as committed once it has renamed.
* `AcceptedIsOneVersion`: an accepted copy equals the file at the metadata recheck.
  `CapIsExact`: the cap, in both directions. `AcceptedStaysIntact`: no name leads to an accepted
  copy, kill included, and every transform record still describes its domain.
* `PublishedIsAuthorized`, `AnswerIsReplayed`: what is published or returned is what
  the supervisor's own replay yields, however the worker behaves, also later.
  `SourceOnlyToRestricted`, `NoSilentOrphan`, `LeftStageReported`.
* `OkMeansWholeMember`: bytes return only when the whole member verified, the part
  behind a prefix included. `OnePermit`, `NoLostWakeup`. `UnreapedIsReported`: a
  read that leaves a worker behind says so; the stronger `PermitAfterReap` is violated, see section 6.
* `EveryByteOnce`: every byte of an accepted source and of the archive derived from it belongs
  to exactly one part of the evidence. `BindsNextMember`: an extension or a long name
  applies to exactly the next member. `AdmittedIsTree`: admitted paths form one tree, after folding too.
* `AuditAgrees`: the second reading accepts what the first recorded, except an old-GNU directory with a leading dot
  (`GnuDottedDirectory`), which it always refuses, and refuses evidence with one wrong field that it reads.
  `VerifierAgrees`: the third reading accepts no evidence but the recorded one, up to `UnreadOfZip32`; wrong evidence,
  those fields included, never keeps the layout identity of the right one. That the verifier accepts whatever the reader recorded is not claimed, and is not so: it
  refuses a PAX directory whose name ends in a slash (`tools/identity-verifier/src/lib.rs:2513-2532`).
* `OutcomeTruthful`: a limit is a denial and never called malformed, a failed read blames
  nothing on the archive. `DerivedWithinBudget`: the `expect`s of `apply.rs` on the wrapper's
  metadata cannot fail, and a stream is charged once.
* `PlanCrosses`: what one side does honestly the other side understands, whatever the archive holds.
  `AcceptedIsTheEvidence`: a changed planning record is refused or says the same.
  `AuthorizedIsTruth`: what the supervisor accepts is true of the source.
  `ReadsAgree`: a read through the worker is what the in-process reader would give.
* `VerdictIsTheProfile`: a wheel is admitted exactly when it conforms as a whole, and a failed
  read is never held against it. `RealizationIsTheArchive`: a realization identity is given only to
  a report that holds every verified byte. `RecordTextIsRead`: the scanner of RECORD
  agrees with a definition by quote parity.

### 3.1 Bounds

* *Two calls, three inodes*: every conflict in the code is between one call and
  one other party at a name; the third inode is for a foreign directory beside both stages, and
  makes reuse after a removal reachable. One member
  distinguishes before, in and after the loop; the proofs cover any number.
* *Cap 2, length 3, buffer 2*: below, at and above the cap, and a chunk boundary
  inside the file. Two granules tell a changed timestamp from an unchanged one.
* *Two spare frames*: one early and one surplus frame; the supervisor reads one per round.
* *Three readers, one chunk, pipe of one*: a holder and two waiters is the
  least in which a notification can reach the wrong one; a stream can be short, exact, or one too long.
* *Formats*: a job fixes the format, the length and the budget and names its alphabet, so
  that each is about one question: names, overrides, malformed headers, limits, geometry. Up to three
  headers, two extensions or carriers, two members; extension and carrier payloads of one and of two blocks; integer widths are `U16Max`, `U32Max` and `MaxU64`, small
  enough for the ZIP64 escapes and the overflow checks to be reached.
* *Records*: two members at most and one wrong thing at a time. Two changes that agree
  with each other (a budget and its digest) are among the changes.
* *Wheel*: two members are the least that can collide after relocation, in both orders; eight bytes
  hold two rows, a quoted field with a doubled quote, or three fields with a CR LF.
* The bounds are the constants of the `.cfg` files: `SpareFrames`, `PipeRoom`, `MaxLen`, `MaxTick`,
  `DomainIds`, `Cap`, `Chunk`, `MemberCount`, the format limits, `MAX_MEMBERS`,
  `MAX_TRANSFER_CONTENT_BYTES`, `MaxBytes` and `WheelLimits`.

### 3.2 Fairness

* `Materialize`: weak fairness of each call's own steps. They are a straight
  line of system calls without locks; `Kill`, `Panic`, the neighbours and `Recover` have none.
* `SourceSnapshot`: weak fairness of the copying call, not of the writer. The
  copy ends because it stops at the cap.
* `WorkerSession`: weak fairness of the supervisor, nothing of the worker. Every wait
  in the code has a deadline. A failing `try_wait` or poll (`ExitWaitFails`) is never owed, so the call does not end by it.
* `MemberReads`: weak fairness of each reader's steps, nothing of the workers. A
  waiter is woken by its own `wait_timeout`. `ExitWaitFails` is not owed here either.
* `Interpretation`, `RecordExchange` and `Wheel` are sequential and state safety only.

## 4. Proofs

`tlapm` checks eight proof modules. Each proves `Init => I`,
`I /\ [Next]_vars => I'` and that `I` implies the property.

**`MaterializeProofs`** (any `Ops`, `Dests`, `Target`, `Inodes`, `Requests`, `MemberCount`, any switches).
`PublishedIsVerified` is not inductive: it says nothing of a stage before it is
renamed. `IInv` adds

* `NameInv`: a stage name binds the call's own directory or a foreign substitute,
  never a directory that is also a destination;
* `RootInv`: an open capability is the call's own object, so its inode is not reused;
  when a call holds one; the witness agrees with it while staged;
* `AuditInv`, `LoopInv`, `ScanInv`: what the loop, the audit and the recheck
  established still holds at the rename;
* `StopInv`: stopping cause, outcome and position agree;
* `BoundInv`, `DestInv`, `OwnedInv`: a published call owns what its destination names, that
  object is live and complete, and an object owned by a call is at no other destination.

Preservation goes action by action. All removals share
one lemma (`RemovalKeeps`): a removal on behalf of a call takes its own directory or
a foreign one under its stage name, and a destination's inode is never a stage's.
From `IInv`: `TypeCorrect`, `PublicationSafe`, `ExitCodeCorrect`, `DestinationsFinal` (an action
property) and `Refinement`, the full safety refinement `Spec => P!AbsSpec`.

The second half of the module is about receipts. `RInv` adds to `IInv` what a receipt is built from:

* `ObjectInv`: a call makes one directory, and without substitution its stage name binds it;
* `RecordInv`: the record names the call's own directory, never a substitute, and a call that
  wrote it knows its file;
* `ReportInv`, `CleanInv`: what was synced and verified, and what the cleanup field stands for;
* `WitnessInv`, `LeftInv`: whatever is left of the stage is what the witness names, and after a
  rename or a reported removal the stage name does not bind it.

`ReceiptInductive` and `RecordsAreTruthful` (four of the five parts of `ReceiptTruthful`) need no
condition. The rest needs `GoneInv` (a reported removal left nothing behind), which is
not an invariant of every instance: `abort` gives up the capability before its removal, so the second
attempt goes by name. `Separate` excludes that names are substituted where removals fail, and
nothing else; it is exact, since the run `retry` is a counterexample in the excluded case. Under
it: `ReceiptsAreTruthful`, `RemovedIsRemoved`, and `RemovalsStayInside` (an action property, from
`RemovesOwn`: a removal for a running call reaches the directory that call made).

**`SourceSnapshotProofs`** (any length, cap, buffer, granules). The argument is a sandwich: a
byte of the copy is at most what the recheck saw, the second pass read at least
that, and acceptance makes the outer two equal. It needs a position below the current
length never to have been cut off, hence the link to the greatest length so far (`LengthInv`,
`CopyInv`, `SeenInv`, `AcceptInv`). Results: `SnapshotIsOneVersion`, `SnapshotWithinCap`,
`SnapshotTypeCorrect`. `GraphInv` says that the set of domains is empty until acceptance and
matches its records from then on, and that the copy lost its name before its bytes are used; `AppendKeeps` is
the step that could leave it half appended. Result: `SnapshotStaysIntact`.

**`WorkerSessionProofs`** (with or without an honest worker, any number of spare
frames). `SessionInv` = `SessionTypes`, `ChildInv` (reaped before its work is used),
`AnswerInv` (no answer before the replay), `TreeInv` (the tree is fixed from audit to rename
and after), `RoundInv` (frames run at most one round ahead of the checks, so the source frame comes after the restriction was observed).
Results: `PublicationIsAuthorized`, `SourceIsGuarded`, `OrphanIsReported`, `AnswerIsAuthorized`.
`DetailInv` adds `FlightInv` (the frames on the way to the worker are consecutive and at
most two, which the type invariant asks for and no guard says) and `StageInv` (where the stage is at each
position of the supervisor, and that a stage which stays was reported). With it: `SessionTypeCorrect`,
`LeftStageIsReported`, and `SessionRefines`, the refinement of `Publication`: the commit is
the abstract publication, the answer the abstract report, and every step of the worker stutters.

**`MemberReadsProofs`** (any set of readers, member length, prefix lengths and pipe;
arbitrary workers). `ReadsInv` = `Shape`, `ReaderInv` for each reader (what its position
entails), `OnePermit`, `NoLostWakeup`. Steps are split into those that touch only their own reader and those of the
queue. Results: `ReadReturnsWholeMember`, `PermitIsExclusive`,
`WakeupsArrive`, `UnreapedWorkerIsReported`, and with `BoundsInv` (the pipe never holds more than it
has room for) `ReadsTypeCorrect`.

**`FoldTheorems`** proves for any operator that a fold over a finite sequence is the last
value of a run with one step per item (`FoldRuns`). The operator is a `CONSTANT` of
the module, and a proof that needs the theorem instantiates the module with the fold's own step,
because the provers cannot instantiate an operator that is a parameter of a theorem.

**`AdmissionProofs`** has three parts. The first is about the TAR readers (any jobs, archives, windows and
budgets of the three dialects, inside a stream or not, payloads over any number of blocks, every positive block length and cap). `TurnReads` says what one turn of a reader can do to a scan: stop, read an
extension, or read a member under its resolved name and size. `BindsNextMember` alone is not inductive, for it says
nothing of what a reader carries. `ScanInv` adds that everything read lies before the position
(`PlacesInv`), that the pending overrides are those of the extension that ends exactly here, or there
is none (`PendingInv`), and that the global ones are those of the last global extension that names the field.
So a member gets what the precedence of the formats says when it is pushed, and no later extension
changes that, because it starts behind the member. Results: `TarInductive`, `ExtensionsBindNextMember`.

The second part is about the planners (TAR, ZIP and 7z, any names and any number of members). A path that `TopologyFinding` accepts
meets none of those admitted before (`Clear`); each planner's turn either admits
a member that is clear or leaves the plan as it is (`Plans`); `PlanInv` says that the planned
paths form a tree and are all among those the topology saw, and is preserved by `Plans`; `FoldRuns` carries it over the loop.
The planners must be given proper names, so `AdmissionInv` also has that the TAR readers record only
names their windows show (`NamesInv`), that a ZIP scan's members are named (`IsZipScan`), and that 7z file records that
are accepted name every file (`FilesInv`, over the folds of `parse_files_info` and
of the header's properties). Results: `AdmissionInductive`, `AdmittedPathsFormTree`.

The third part is about the budgets of an archive inside a stream, for every stream of the four codecs. When a
decoder accepts, its output is within the cap, the wrapper within the metadata budget, and the two charges
add up to the length of the source (`Paid`). For gzip and Zstandard this follows from the framing;
for xz the blocks read so far fill the source up to the position (`XzRead`, over the fold of
`parse_container` and the sums of `SumRuns`), and for bzip2 there are as many frames as block magics
(`MagicsCounted`). `DerivedWithinBudget` is not inductive, since it does not say that the reader was given only what
the wrapper left: `BudgetInv` adds that, and `TurnReads` that a turn charges only what fits. Result:
`DerivedStaysWithinBudget`, so the `checked_sub(...).expect(...)` on the wrapper's share never fails.

**`OutcomeProofs`** (every job: five ZIP profiles, three TAR dialects, 7z, four codecs). The axes are tables over finding
codes with a default row, so an outcome is truthful only if a code that the default row would describe wrongly never
reaches that table. `OutcomeTruthful` says nothing of this before an archive stops, and is not inductive. The proof goes
through the codes each part can report: no planner reports a failure of the source, of the covering or of the archive's
own quota (`PlanForeign`), no reader a quota of the members or a limit of a codec (`ReadForeign`), no decoder of a stream
a quota (`StreamForeign`). Each is proved check by check over the whole reader, through its tables of checks (`FirstOfAny`) and
its loops (`FoldRuns`). `ReportInv` carries it from the scan to the plan: until an archive stops it has no axes, and what
its reader has found is one of that reader's findings. `OutcomeInv` = `AdmissionInv`, `ReportInv`, `OutcomeTruthful`;
`FairIsTruthful` turns a row of a table into truthful axes. Result: `OutcomesAreTruthful`.

**`ExchangeProofs`** (any archives and any read requests, every misreport and every change to a record that the model has). Both properties
speak of what has been accepted and say nothing of how. The argument is about the supervisor alone, which believes nothing it
has not computed: the lemmas about acceptance suppose nothing about an answer, and the model's misreports matter only in `AnswerInv`. `ExchangeInv` is

* `ReadInv`: what the supervisor read is what `ReadZip` and the planner make of the job, and stays that;
* `SentInv`: the record it sent is the one `prepare_ready_plan` makes of that evidence;
* `AnswerInv`: the worker's plan, and the answer that arrives, are bound to the record that was delivered, so an answer to
  a changed record carries another plan identity than the one the supervisor expects;
* `AuthInv`: what is accepted, and only that, is what `authorize_execution` returns for these records;
* `AskInv`: the worker is asked only for what the capability cannot answer itself, with a request bound to the accepted
  completion, and an answer is either the local one or a stream that passed `validate_stream_result`.

That the accepted answer is true takes three steps. The record that was sent decodes to the evidence (`SentPlan`:
a plan whose encoding succeeded is the one the decoder returns), so the replay runs over the members the reader found. The replay is a fold over them:
each turn verifies a member that holds what it declares (`Genuine`) and records its real content, or stops
at the first one that does not, with a cause that `verify_payload` can reach, and `FoldRuns` carries this
to the end of the loop (`ReplayTurn`, `ReplayRuns`). And `authorize_execution` accepts only a proposal and retained entries equal to the
replayed ones (`AuthorizedReplay`, `AcceptedIsTrue`). For retained content the selection is a second fold, over the sorted paths, whose total is the
sum of the selected sizes; if all wanted members fit, every prefix of the sum fits, so each is selected
(`AllSelected`).
Results: `ExchangeInductive`, `AuthorizedTruth`, `ReadsAgreeWithSource`. `ExchangeInv` was checked with TLC on the
instance of the run `records` before it was proved.

Assumptions are the named `ASSUME`s of the modules: `Target` is a function into
`Dests`, counts are naturals (buffer, pipe and identity space positive), markers
such as `Free` and `NoDir` differ from the values they mark, prefixes are no longer than the member,
a derived domain is a sequence of bytes (`OutputsAssumption`), the caps on an extension and on a carrier are positive and leave room for a name and its NUL (`CapAssumption`), and the windows of a job have the shape of its format (`JobsAssumption`: a name
is a sequence of components, a header field a number, an extra field a sequence of records, the lengths of a stream image are counts, and so are the budgets; a submission
ends in one of the codes `apply.rs` and `snapshot.rs` give it). In `RecordExchange`, `JobsAssumption` says that declared sizes and retention limits are
naturals and that the data of every member is read in chunks, and `AsksAssumption` that a read has a natural limit and is
full or a prefix.
TLC evaluates them in every run.

## 5. Only model-checked

* Liveness under fairness: `EveryCallEnds`, `CopyEnds`,
  `SessionEnds`, `EveryReadEnds`. The prover has no support for fairness or `ENABLED`.
* `EveryByteOnce`, `AuditAgrees` and `VerifierAgrees` of
  the formats, `PlanCrosses` and `AcceptedIsTheEvidence` of `RecordExchange`, and the properties of `Wheel`. Their folds are in reach of
  `FoldTheorems`; what is missing is, for each, the invariant of every reader's turn. `PlanCrosses` also needs that the planner's output passes each
  check of the record's validators, and `AcceptedIsTheEvidence` that those checks leave no freedom in any field. `RecordTextIsRead` compares a scanner with a
  definition by quote parity, and needs the same for a text.
* The four violated properties, which are counterexamples.

## 6. Where documents and code differ

Each is a run that TLC must report as violated.

1. `retry`: `abort` takes the retained capability before the first removal. If
   that removal fails and the name was substituted, the second `abort` removes by name and the
   receipt says `removed`, though the retained object is left.
   `docs/abandoned-stage.md:66` says that `removed` means the retained object was removed.
2. `setup`: when both removals fail during setup, cleanup is `failed` and no
   `stage_retention` is returned; `docs/abandoned-stage.md:108` says one is.
3. `session_cleanup`: the supported supervisor aborts the stage after every
   error, an unproved reap included; `docs/semantic-record.md:82` says that the stage owner is abandoned in that case.
4. `reads_permit`: a read whose worker cannot be killed or reaped in time returns an error of kind `Reap` and drops its
   permit (`supervised/linux.rs:719`), so the next read starts beside that worker; `docs/semantic-record.md:90` says, without
   exception, that error paths terminate and reap the child before releasing the permit. What does hold is
   `UnreapedIsReported`.

Found while modelling, not runs:

* A GNU directory named `./` or `./d/` passes admission, which strips the prefix (`apply.rs:2294-2323`), and is then refused
  as `CoveringInconsistent`, because `audit_tar_gnu_longname_covering` compares the directory's
  canonical path with the recorded name without its slash only (`covering.rs:2293-2304`). `CHANGELOG.md:52` and `docs/findings.md:58` say that
  such names are admitted. `AuditAgrees` states the exception, in both directions: `GnuDottedDirectory` is refused, and nothing
  else that was recorded is. The `formats` run has such directories.
* For ZIP32 the covering audit and the verifier bind a member by its ranges only. A wrong name, kind, method, flag, size or checksum,
  and a header, payload or descriptor boundary moved inside the local record, pass both (`tools/identity-verifier/src/lib.rs:9089-9347`).
  `Misrecord` makes all of these changes. Each of them does change the layout identity (`VerifierAgrees`).
* On Linux and macOS a retention record whose write or sync fails stays on disk (`materialize.rs:1269-1280`
  returns before `retention_file` is set), although the abort succeeds; `docs/abandoned-stage.md:130-132` says that no file is
  left. `RecordDiscarded` exempts stops during setup for this reason.
* A TAR directory named `/` is admitted as the archive root (`apply.rs:2294`), although `CHANGELOG.md:52` says that
  absolute paths stay rejected.
* A full `read_member` through the worker with a caller limit above
  `MAX_ISOLATED_READ_BYTES` is refused (`member_read.rs:193`) even for a small member, which the
  in-process reader returns; only the prefix documentation mentions the ceiling.
* The 7z verifier refuses a recorded normalisation action, and does not refuse a second files record.
* A worker's honest stop on a stage write or on a failed capture is never authorized: the
  supervisor's replay has no stage and no such fault, so it does not agree.
* A planning record whose budget, policy, profile or retention is changed consistently is
  accepted by the worker, and its answer is never authorized, because the plan identity differs.
* `setup_failure_axes` is called by tests only.

`docs/semantic-record.md:80` says that results are not validated while
the child is alive; `linux.rs` validates the sealed results before it sends the exit
acknowledgement, and compares them with its replay after the reap.

## 7. Not modelled, and the plan

Out: the Windows and Apple backends (system calls behind the same outcomes), kernel
filter programs, byte layouts of frames and JSON, hashing, entropy decoding, finding texts, policy documents, the
command line, and the repository's measurement and release tools. `PROJECT.json` has a reason for each.
`hints.rs` only adds advice; `tools/wheel-lab` is an older copy of the evaluator.

The mapped lines are about 31,000, somewhat under a third of the repository's Rust including
its tests; what is left in the crate is mostly tests, error texts, evidence
structs and their accessors.

Next, the proofs, in this order:

1. `EveryByteOnce` for TAR: the parts of a scan abut, from `PlacesInv`; then 7z and ZIP.
2. `PlanCrosses` of `RecordExchange`, check by check of the record's validators, and then `AcceptedIsTheEvidence`.
3. `RealizationIsTheArchive` of `Wheel`.
