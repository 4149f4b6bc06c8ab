# astramem-local: formal models

astramem-local is a daemon that collects coding-session transcripts, distils them with LLM
providers into memories kept in one SQLite file, and syncs those memories with a server. This
directory holds TLA+ models of the parts of it in which the order of events decides whether the
program is correct, the TLC runs that check them on small instances, and TLAPS proofs for every
instance of the core.

Paths below are relative to the repository (`src/pipeline/worker.ts` and so on).
`PROJECT.json` maps every definition to the lines it models.

## 1. Inventory

The daemon is one Node process with one JavaScript thread, SQLite through a synchronous driver,
and a few worker threads for embedding and vector search. Other processes write to the same data
directory: the CLI commands (`queue`, `budget`, `audio`, `rebuild`), the service manager's launches
and the capture hooks that leave files in the spool. Nearly every hard behaviour comes from three
facts: each SQL statement commits on its own, so a crash or a command of another process can fall
between two of them; retries, the breaker and the claims of lanes live in memory and die with the
process; and the CLI commands act on rows and files they read a moment ago.

| Component | State | Operations | Interacts with | What makes it correct |
|---|---|---|---|---|
| Job queue: `pipeline/job-repo.ts`, `worker.ts`, `registry.ts`, `failure-classifier.ts` | `jobs` rows (state, attempts, priority, created_at); per lane the job in hand; retry `setTimeout`s | enqueue, claim, complete, fail, pause, poison, requeue, boot recovery, purge, stop | handlers, ingest routes, CLI commands, governor | one execution at a time; no job forgotten; the attempt limit; completed is final; every pending job settles; no starvation |
| Load governor: `pipeline/backpressure.ts` | lane budget, latency EWMA | adjust the budget, shape delays | lanes | lane 0 may always claim |
| Queue and budget commands: `cli/queue-*.ts`, `cli/budget.ts` | rows they have listed | list, dump, delete, requeue, reset | the same table, from another process | they touch no job a lane is running; what they reset is reset |
| Budget and breaker: `budget/tracker.ts`, `providers/llm/quota-breaker.ts` | `budget_spend` row per day; failure counter and trip per provider, in memory | check, record, trip, refuse, reset | distill handler, `budget --reset` | overspending is bounded; a quota storm does not use up the attempts |
| Instance lock: `service/instance-lock.ts` | `daemon.lock`, `daemon.lock.acquiring`, the bound port | acquire the mutex, decide, probe, stop a holder, write, bind, release | other launches, the signal handlers | one writer per data directory; stale files never block |
| Boot and shutdown: `cli/serve.ts`, `cli/crash-handlers.ts` | none of its own | the order lock, bind, migrate, recover, purge, start the worker, with strict preflight the bind last; SIGTERM; crashExit | all of the above | recovery runs before any lane, in one process only |
| Ingest and idempotency: `server/routes/ingest.ts`, `storage/ingest-idempotency.ts` | transcripts, idempotency slots | ingest under a slot, replay, conflict, backfill, prune | the queue, the spool, HTTP clients | one transcript per slot, whatever retries |
| Spool and drains: `ingest/spool*.ts`, `ingest/cost-spool-drain.ts` | files, quarantined files, failure counts | spool, list, drain, quarantine, expire | ingest | nothing captured is lost; the spool empties |
| Memory lifecycle: `storage/memory-events.ts`, `memories.ts`, `retention.ts`, `archival.ts` | memories, event log, purge batches | supersede, unsupersede, archive, restore, purge, erase, promote | distill, consolidation, sync | an undo undoes its own kind; an atom and its successor are never valid together |
| Sync: `sync/shipper.ts`, `puller.ts`, `conflict-resolve.ts`, `backfill.ts` | `synced_at`, `rejected_at`, watermark, pulled events | ship, pull, resolve, backfill | server, lifecycle | devices converge; erasure wins; no event is skipped; nothing private leaves |
| Consolidation: `consolidate/*.ts`, `storage/consolidation-cursor.ts` | cursor, proposals | sweep, scan pairs, preempt, resume, judge, accept, reject | queue, lifecycle, people | merged memories lead to one that stays; decisions of people stand; every group has its turn |
| Distill pipeline: `distill/*.ts` | chunk checkpoints, `needs_vec_index` | stages with several calls in flight, insert, index, reembed | budget, breaker, lifecycle | a retry reuses what was paid for, and only that; a done job is whole; what was erased stays erased |
| Worker threads: `providers/embed/onnx-worker-host.ts`, `vector/vec-search-host.ts` | pending requests, the thread | spawn, post, answer, time out, fall back, terminate | search, distill | each request is settled once and with its own answer, also when the thread dies |
| Provider health, rate limiting, migrations, watchdog | counters, buckets, applied versions | | | |
| Backups, session capture, entity and tag backfills | snapshot files, backfill progress | | database | candidates for a later pass |
| Search and ranking, redaction, config, keystore, doctor, dashboards, MCP server, proxy capture, audio, eval | | | | no protocol: formatting, parsing, scoring, I/O |

`PROJECT.json` lists the hazards, each at its line, with the properties that would catch it.

## 2. Modules

| Module | Models | Builds on |
|---|---|---|
| `JobClaim` | priority tiers, the column default, the aging order of `claimPending` | |
| `JobQueue` | the `jobs` table, lanes, timers, boot recovery, commands, crashes | `JobClaim`; refines `WorkQueue` |
| `WorkQueue` | what the queue promises: the abstract specification | |
| `ProviderPause` | daily budget and quota breaker, composed with the queue | `JobQueue` |
| `InstanceLock` | launches contending for the data directory | |
| `Ingest` | the spool, the drain, HTTP clients and the idempotency slots | |
| `MemorySync` | the lifecycle of memories, the event log, shipper, puller and conflict resolution | |
| `WorkerHost` | the hosts of the embedding and the vector search thread | |
| `Consolidation` | consolidation passes and the proposals people resolve | |
| `Distill` | distill runs, checkpoints, indexing and its repair | |
| `JobQueueProofs`, `InstanceLockProofs`, `IngestProofs`, `MemorySyncProofs`, `WorkerHostProofs`, `ConsolidationProofs`, `DistillProofs` | theorems about the module they are named after | that module, TLAPS |
| `ProviderPauseProofs` | theorems about `ProviderPause`, those about the queue among them | `ProviderPause`, `JobQueueProofs` |
| `MCJobQueue`, `MCProviderPause`, `MCInstanceLock`, `MCIngest`, `MCMemorySync`, `MCConsolidation`, `MCDistill` | the model values of the runs | |

### JobQueue

State. `state`, `attempts`, `priority`, `created` are the columns of the row of each job; "new" and
"gone" stand for a row not yet inserted or already deleted. `phase`, `pc`, `job`, `laneBudget`,
`timers` are the memory of the daemon: how far it has booted, where each lane is in its tick, the
job it holds, the governor's budget, the armed `setTimeout`s. `command` and `batch` are the memory
of a CLI process. `clock` is the time in aging steps.

Atomicity. One step is one SQL statement together with the code up to the next one; the claim is
one transaction in the code and one step here. A lane between two awaits owns the event loop:
while some lane is at a place of `MidTick` no other lane and no timer of the daemon moves
(`LoopFree`), but the process can crash there and a command of another process can run there.
During `"handling"` the handler awaits, and everything else may happen.

| Action | Code |
|---|---|
| `enqueue`, `IngestInsert` | `JobRepo.enqueue`; the INSERT of the ingest routes, which names no priority |
| `Claim` | `claimPending`, with lane 0's preference for local kinds and the lane budget |
| `RejectBroken`, `RetryNow` | the no-handler and bad-payload branches of `tick` |
| `HandlerResolves`, `RecordRun` | `complete`, `recordHandlerRun` |
| `HandlerPauses` | the catch branch for a spent budget or an open breaker |
| `HandlerFailsForGood`, `markPoison` | the permanent-failure branch |
| `HandlerFailsTransiently`, `DecideRetry`, `RetryTimerFires` | `fail`, the comparison with `MAX_ATTEMPTS`, the timer's `requeueForRetry` |
| `CaughtFault`, `onUncaught` | a repository call that throws inside or outside the try |
| `Start` to `BootPurge` | `recoverOrphans` (three UPDATEs), `purgeOld`, `startWorker` |
| `CleanupPurge` | `purgeOld` from the cleanup handler |
| `Crash`, `Stop`, `Exit` | the end of the process: at any point, or SIGTERM and `worker.stop()` |
| `ListForRequeue`, `requeueForRetry` | `queue requeue --poison` |
| `ListForPurge`, `purgePoisonByIds` | `queue purge --poison` |
| `requeuePaused` | the table's part of `budget --reset` |

Abstracted: handlers are their outcome; backoff delays are any delay; which terminal rows are past
their retention is any subset of them; the governor's budget is any number from 1 to the number of
lanes at any moment.

`WorkQueue` knows only the status of a job and which worker has it in hand. `ImplementsWorkQueue`
maps the states of a row to a status (`StatusOf`) and the lanes to workers. A worker never takes a
job somebody has in hand, a job is resumed only when nobody has it, a finished job stays finished
and only finished or given-up jobs are removed.

### ProviderPause

Adds to the queue: `spent` (today's row of `budget_spend`), `quotaFails` and `tripped` (the
breaker's Map entry in the daemon), `calling` (the workers of runs, as pairs of lane and worker, with
a chat call in flight), `firstError` (what the first error of a run will do to its job), `resetting`
(commands between the statements of `budget --reset`), and the history variable `burned`, the
attempts lost to quota errors since the counter last was zero.

A run works on `chunkConcurrency` chunks at once (`Workers`; the default is 2). Each worker checks
the budget and then the breaker (`Refused`, `Chat`), and records the cost when the answer comes
(`ChatAnswers`). `ChatOverQuota` counts the error, which is rethrown below the threshold and opens
the breaker from there on; `ChatFails` is any other failure. As in `mapWithConcurrency`, the first
error stops the dispatch and decides what becomes of the job; the calls in flight settle before
`RunEnds`. A call costs exactly the estimate the check adds, so the bound counts calls:
`CommittedSpendBounded` allows lanes times workers less one beyond the cap. `distill/concurrency.ts:29-39`
says `limit - 1` of a single run; the cap is shared by the runs of all lanes. Not gated by
the budget, in the code as in the model, are the calls of gatekeeper, triage and date grounding.

### InstanceLock

A launch is a process that runs `acquireMutex`, then the critical section, then boots, all as
separate file-system calls; `pc` is the call it makes next. A file is the launch that created it
and whether its content has been written, since `openSync(.., 'wx')` and the write are two calls.
`bound` are the listeners, `working` the launches between their migrations and the end of
`worker.stop()`, `wedged` the processes whose event loop hangs (their port stays bound,
`/health` is not answered), `signalled` those with a SIGTERM pending, `old` those beyond the boot
grace period, `recycled` the dead ones whose pid the system has given to another program. `seen` and
`victim` keep what a launch has read, from the sentinel or the lock and in `stopLockHolder`. `Strict` are
the launches with strict preflight, which boot before they listen; the others listen first
(`FirstOfBoot`). `robbed` is history: the live launches of which another one has unlinked a file that it
had not checked. An unlink is a step after the read it rests on.

| Action | Code |
|---|---|
| `CreateSentinel` .. `StealSentinel` | `acquireMutex` |
| `Decide`, `Probe`, `Grace`, `PortCheck`, `WriteLock`, `FillLock` | `acquireInstanceLockCriticalSection`, `writeLock` |
| `ReadHolderToStop`, `StopHolder`, `WaitForStop`, `CheckStaleLock`, `UnlinkStaleLock` | `stopLockHolder` |
| `Bind`, `Boot`, `BootFails`, `Unbind`, `UnbindUnlink` | `bootAndBind`, both branches, and the catch clause around it |
| `ReleaseMutex`, `UnlinkSentinel` | the `finally` clause |
| `HandleSignal`, `StopWorker`, `CloseDatabase`, `UnlinkAtExit` | `shutdown`: worker and port, then database, then lock |
| `crashExit`, `KilledBySignal` | `crashExit`; SIGTERM before its handler is installed |
| `Terminate`, `Crash`, `Wedge`, `Unwedge`, `GraceOver`, `Recycle` | environment |

A writer is a launch in `working`. Between `StopWorker` and `CloseDatabase` a process has given up its
port and drained its worker, while its database is still open and requests under way may write; it
is not in `working`, so the properties do not speak of those requests. Its lock is on disk until the end.

### Ingest

A key stands for a content and its idempotency key; the order of the keys is the order in which
the directory is listed. `spool`, `quarantine`, `slot`, `copies`, `todo`, `memories` are files and
tables, `tick` and `failures` are the memory of the daemon, `client` the HTTP clients. A *body* is
the `captured_at` of one capture: the body hash covers it, the key does not. `reopened` counts,
per key, the ways in which the code itself allows another copy.

The drain tick is one turn of the event loop, and still each file takes several steps (read, the
transaction, unlink), because the process can die between them. Captures come from another
process and may replace a file at any moment.

| Action | Code |
|---|---|
| `writeToSpool` | `writeToSpool`: temporary file and rename |
| `DrainStart`, `DrainEnd` | the listing, with the expiry of quarantined files; the end of the tick |
| `DrainOversize`, `DrainUnreadable`, `DrainMalformed`, `DrainRead` | the branches before the transaction |
| `DrainIngest`, `DrainConflict`, `DrainFails` | `ingestCanonicalTranscript`: stored or recognised, `ConflictError`, anything else |
| `DrainUnlink` | `deleteSpoolFile`, whose errors are swallowed |
| `HttpPost`, `HttpIngest`, `HttpIngestKeyless`, `HttpFails` | the route, with a lost answer as an outcome |
| `Distill`, `Erase`, `pruneIngestIdempotency` | what happens to a slot later: repointed to the memory, its memory erased, pruned |
| `Day`, `Crash` | environment |

### MemorySync

`row` and `log` are the `memories` and `memory_events` of each device; `synced`, `rejected`,
`watermark` are the columns the shipper and the puller keep; `flight` is the envelope whose answer
is awaited; `cloud` and `refused` are the server, modelled from how the code uses it. `merge` is
the open pull transaction: its own copy of the tables, and the stack of the recursion between
`recomputeProjection` and `chainLoserToWinner`.

| Action | Code |
|---|---|
| `insertWithCreateEvent` .. `finalizePurgeBatch` | the methods of `MemoryEventRepo` and `MemoryRepo`, one transaction each |
| `usefulness` | `recordRecallUsed`: an event without a change of the row |
| `ShipStart`, `ShipAnswered`, `ShipFailed`, `clearRejected` | `shipOnce` up to the request, each answer, `sync retry-rejected` |
| `PullStart`, `MergeRecompute`, `chainLoserToWinner`, `MergeCommit` | `pullOnce` and `conflict-resolve.ts` |
| `MergeThrows`, `MergeAbort` | the recursion exhausts the stack; any other error: rollback |
| `CloudRefuses`, `RestoreDeadline` | environment |

Scope has two values, private and shared. The erasure check of distillation and its insert are one
step here; the window between them is in `Distill`.

### WorkerHost

One module for the two hosts, which share their protocol; `kind` says which one a behaviour is
about, and the differences (unload on idle, the fallback scan, what `terminate` does with pending
requests) are guarded by it. `life` and `promise` are the threads and the promises of
`ensureWorker`; `worker`, `readyPromise`, `pending`, `nextId` are the fields.
`held` is what was posted to a thread, also to one the host has given up. A step is an event
together with every continuation it releases. The fallback scan of a search is one of those (`Fail`): it
is one synchronous statement, and the chain that orders several of them goes on by microtasks, so
the scans of a crash all run in the turn of the crash. `fallbackChain` therefore is no state here.

| Action | Code |
|---|---|
| `CallShares`, `CallSpawns`, `SpawnThrows` | `embed`, `search` up to their first await; `ensureWorker` |
| `Ready`, `ReadyError`, `SpawnTimeout` | the handshake |
| `Reply`, `CallTimeout`, `Abort` | `handleWorkerMessage`, the timer, the abort listener |
| `WorkerError`, `WorkerExit` | the thread's events, through `handleWorkerCrash` and `teardown` |
| `Terminate` | `terminate`, `stop` |

### Consolidation

`row` and `prop` are memories and proposals, `cursor` the stored group key; each pass has its program
counter, the rows it has read (`seen`, `loaded`), the proposals it holds, its place in the groups, and
the atoms it has merged itself (`dead`). What texts and vectors decide is in the world of a run:
the band of a pair's similarity, containment, and the pairs the command guard blocks.

| Action | Code |
|---|---|
| `Start`, `sweepContainedProposals` | the consolidate job or `POST /consolidation/run`; the sweep, in one turn |
| `loadAtomsSetupBounded` | one page of atoms, and the deadline |
| `GroupStart`, `processPair`, `judgeContradiction`, `GroupEnd` | the pair scan, with the tiers in `MergeTier` |
| `ScanEnd`, `runDupJudgeSweep` | the cursor; the verdicts on pending proposals |
| `UserEdit`, `resolveProposal` | lifecycle operations; a person's accept or reject |
| `Restart` | the end of the process |

A proposal that is resolved and held by no pass frees its id, which keeps long behaviours
finite: passes start for ever.

### Distill

`run` is the local state of `runPipeline` per job: stage, chunks to do, in flight and answered, calls
counted, atoms left to insert. `cache` is `chunkCheckpoints` in order of insertion; `stored`, `vec`,
`flagged`, `reembeds`, `erased` are tables by content hash. `loop` names the run that keeps the event
loop to itself between two atoms. All jobs are about one content, since only those share
checkpoints. `paid`, `raced` and `orphans` are history.

| Action | Code |
|---|---|
| `RunStart` | a lane claims the job; gatekeeper, `compact` up to its first call |
| `Take`, `Answer`, `CallFails` | `mapWithConcurrency` with `compactChunk`, `extractChunk`: cost cap, budget, call, record, checkpoint |
| `StageFails`, `StageEnd` | its rejection once nothing is in flight; the next stage |
| `PhaseA`, `PhaseB`, `EmbedFails` | `embedAndIndex`: embedding, replay filter and gates; triage |
| `InsertAtom`, `VecUpsert`, `WriteFails` | Phase C |
| `RunDone` | the checkpoints are cleared, the job is done |
| `Resume` | `requeuePaused` |
| `Reembed`, `ReembedPoisoned`, `CleanupSweep` | the repair of missing vectors |
| `Erase`, `Crash` | a user, the end of the process |

## 3. Runs

Passing runs:

| Run | Instance | States | Shows |
|---|---|---|---|
| `queue` | a distill and a consolidate job, 2 lanes, 1 operator, 2 process ends, 2 attempts | 67 thousand | `NoDoubleExecution`, `RetryLimit`, `CompletedIsFinal`; `PendingSettles` under fairness; `ImplementsWorkQueue` |
| `queue_faults` | a cleanup job and a distill job that has no handler, 4 aging steps, 2 repository faults | 1.0 million | `NothingForgotten` with throwing repository calls and a purging job; `OvertakingBounded` |
| `pause` | 2 distill jobs, 2 lanes of 2 workers, 1 crash, cap 1, threshold 2 | 2.9 million | `CommittedSpendBounded`, `StormBurnsFewAttempts` |
| `lock` | 2 launches on one port, one of them strict, a stop or crash, a hang, a recycled pid, failing identity queries | 76 thousand | `FilesKeepOneWriter`; `StaleFilesNeverBlock` under fairness |
| `ingest` | 3 contents, one oversize, one unreadable; 2 captures, a client with 2 tries, 2 upsets | 0.8 million | `NothingLost`, `ExactlyOnce`; `SpoolDrains` under fairness |
| `memory` | 1 device, 2 memories, every operation, two events per envelope, 4 operations or faults | 0.1 million | `SyncedMeansStored`, `EnvelopesAreShared`, `NoOverlap`, `UndoMatches`; `SyncCatchesUp` under fairness |
| `sync` | 2 devices with skewed clocks, 3 memories of which 2 are known to both, 3 operations or faults | 2.2 million | `ErasureWins`, `NoGap`, `Converged` |
| `workers` | 3 calls, 3 threads, 1 fault, both hosts | 0.2 million | `AnswersMatch`, `NothingLeaks`; `CallsSettle` under fairness |
| `consolidate` | 2 groups of 2 memories, a job and a request, 6 configurations | 0.3 million | `Survivor`, `AcceptedMeansMerged`, `RejectionStands`; `StaleProposalsLeave`, `GroupsHaveTheirTurn` under fairness |
| `distill` | 2 profiles over one content, 1 or 2 chunks, 2 atoms, 2 calls in flight, 2 attempts, 4 configurations | 76 thousand | `TypeOK`, `OwnProfile`, `CallsBounded`, `ErasedUnlessRaced`, `RetryKeepsPaidWork`, `DoneMeansWhole`; `JobsSettle`, `SearchableInTheEnd` under fairness |

Two runs are expected to violate their property:

| Run | Property | What happens |
|---|---|---|
| `erase_race` | `ErasedStaysErased` | The replay filter looks for an `erase_request` in Phase A; while the triage model is asked, or at a yield of Phase C, a user erases a memory of the same content; the insert does not look again (`src/distill/stages/08-embed-index.ts:329`). `ErasedUnlessRaced` in `distill` shows that there is no other way. |
| `strict_boot` | `SingleWriter` | Two launches with strict preflight, nothing crashes or hangs. The second one reads the sentinel of the first between its creation and its write, takes it for stale and unlinks it (`src/service/instance-lock.ts:236-238`); it then finds `daemon.lock` in the same state and overwrites it (`:795-860`). Both migrate, recover jobs and start a worker before either listens (`src/cli/serve.ts:447-473`), and only then does one get `EADDRINUSE`. The header of `instance-lock.ts` (`:4`) promises one writer per data directory, "not just the TCP port". |

The runs check what can go wrong and little else. The inductive invariants behind the theorems
(`Exclusion`, `RetriesLeft`, `Tracked`, `Accounted`, `PortsHeld`, `FilesInv`, `HostInv`, `Sound`, `DistillInv`,
`SyncInv`, `StoryInv`), `TimersFindFailedJobs` and most type invariants are proved (section 4) and in no `.cfg`;
TLC finds no violation of them when they are added to the run of the module. `TypeOK` of `Distill`
is checked in `distill`, because its part about the checkpoint store says something about the code.

### What the properties leave out

`CompletedIsFinal` is about daemons whose repository calls do not throw: with one that does, a
completed job is failed and run again (below), which the property would refuse. `queue`, where it is checked, has no
such faults; `ExclusiveExecution` covers them for `NoDoubleExecution` by proof. `PendingSettles` takes a
row left failed at the limit by a crash for settled. `FilesKeepOneWriter` speaks of behaviours in which
no launch unlinks a file it has not checked and no event loop hangs: both can give two writers, the
first in `strict_boot`. `StaleFilesNeverBlock`
excepts only the launch that hangs itself. `Converged` is about devices that
have pulled everything, which a device whose pull throws every time never has.

### Where code and comments disagree

Seen while modelling; the models have what the code does.

- Two overlapping `queue requeue --poison` list the same job; the second puts a row that is already
  running back to pending, and another lane runs it too (`src/pipeline/job-repo.ts:224`;
  `worker.ts:80` says no job can be claimed by two lanes). Hence `OneOperator` below.
- A crash between `fail()` of the last attempt and `markPoison()` leaves a row failed for ever:
  `recoverOrphans` takes only rows below the limit (`job-repo.ts:300`). `PendingSettles` counts it
  as settled.
- `recordHandlerRun` throws after `complete()`: the catch clause fails and retries the completed
  job (`worker.ts:220`). The model's `CaughtFault` includes it.
- Ingested distill jobs get the column default tier 3, so a running consolidation does not see them
  as more urgent (`server/routes/ingest.ts:647`).
- `budget --reset` clears the breakers of its own process, not the daemon's (`cli/budget.ts:31`).
- The sentinel of the launch mutex is empty for a moment, and an empty sentinel counts as stale:
  two launches can be inside (`service/instance-lock.ts:236`). Launches on one port that listen first
  still exclude each other by the port (theorem `OnePortOneWriter`); with strict preflight, or on two
  ports, nothing does (`strict_boot`). A hung daemon is taken for stopped at one unanswered probe, and a
  launch on another port, or a strict one, boots beside it (`:625`).
- A second capture of a content changes the body hash but not the key and is quarantined as a
  conflict (`server/routes/ingest.ts:470`), which `spool-drain.ts:135-137` takes for a client's bug.
- An `as_of` query between the two timestamps of a supersede chain finds neither generation
  (`storage/memory-events.ts:275-276`).
- Atoms that supersede each other on two devices send the recursion of the merge round in a circle;
  the pull fails, then and every later time (`sync/conflict-resolve.ts:138-141`). Two devices that
  hold the same content under two ids make it fail on the unique hash (`migrations/001-init.sql:51`).
- A late `exit` of an old thread makes the host forget its new one, and the next call spawns a third
  (`providers/embed/onnx-worker-host.ts:174-194`, against `:131-134`).
- `fallbackChain` is there to "let queued HTTP work run between scans" (`vector/vec-search-host.ts:116-122`).
  It chains promises, whose continuations run as microtasks: after a crash with several searches in
  flight the scans follow each other without a turn of the event loop between them (`:170-173`, and one
  synchronous `.all()` each, `vector/sqlite-vec.ts:29-34`).
- The auto-accept tier merges without asking the command guard (`consolidate/consolidate.ts:1469-1478`),
  though such a pair "must never auto-merge, no matter how high the cosine similarity"
  (`command-guard.ts:13-15`). The model does the same, and `GuardSkippedByOneTier` proves that no other
  tier does.
- A pass whose load is cut short resets the cursor (`consolidate/consolidate.ts:1709-1721`, against
  `:1630-1634`). `GroupsHaveTheirTurn` assumes that loads are not cut short for ever.
- `distill/chunk-checkpoint.ts:60-81` keys checkpoints by content and, where results depend on it, by
  profile. Two kinds escape. `compact()` passes no variant, so in mode `always` the two profiles of a
  content share their compactions; in the modes the run `distill` takes, only one of them compacts. And the
  sweep's variant is the constant `'specifics-sweeper'` (`stages/05-extract.ts:846-857`), while what is swept
  depends on the profile's own compaction and first extraction (`pipeline.ts:449-465`): a job takes over the
  sweep another profile has paid for. The two-profile configuration of `distill` has two passes, and
  there it happens; `OwnProfile` is about compaction and extraction. A chunk the cost cap left out is checkpointed as
  empty, and a retry of the job keeps it so (`distill/stages/04-compact.ts:152`).

### Bounds

Two jobs are the least with which one can overtake another, a command can be half way through a
batch, and a purge can hit one job while the other runs; two lanes are the least with which a job
can be executed twice; two attempts are the least with which a first and a last failure differ.
Two ends of the process let a recovery be interrupted and repeated. `MaxRequeued` stops the
operator from requeueing a job for ever, and `MaxClock` is four aging steps where the order
matters (the distance between the extreme tiers) and zero elsewhere. In `queue` the clock stands
still, and `OvertakingBounded` is left to `queue_faults`. In `pause`, cap 1 with two lanes of two
workers lets three calls overshoot, within a run and across runs, and threshold 2 is the least that has
a failure below it. In `lock` one launch holds and one decides or steals, each in either order of boot
and bind; each launch is one pid, and three of them, or two ports, are left to the theorems. Which jobs
of a run have which kind is fixed in the MC module; where the kinds differ the jobs are not symmetric.

In `ingest` a tick takes one file, so that the front of the listing can block the rest; an oversize
and a malformed file stand before the good one; two captures of one content give two bodies, and
two upsets a crash after a failed unlink, or a prune after a day. In `memory` and `sync` one bound
counts operations and faults together: four let a memory be created, hidden, shown and lose an
answer, and envelopes of two events let an acknowledgement or a refusal fall between them; three operations on two devices suffice for a fork, a loser to chain and an erasure, and
three memories for a chain of successors. Events are stamped by a counter plus the skew of the
device, so either device can be the later one. In `workers` three calls and three threads let one
call wait for a thread, one be in flight on it and one spawn the next. In `consolidate` two groups
are what a cursor needs, two memories a group what a pair needs; a page of three cuts a group; each
configuration has its own bound of user edits, requests and restarts. In `distill` two chunks at
concurrency 2 let one call fail while the other is in flight; a store of three entries
evicts under two passes, and one chunk is enough where two profiles meet.

Deadlock is checked in `consolidate`, `distill` and `erase_race`, where something is always due. It
is not in the others: with all jobs terminal and the bounds reached, or all launches dead, the
system rightly rests.

### Fairness

`JobQueue!Fairness`: the service manager starts the daemon again and boot runs to its end (weak
fairness of `BootStep`); a draining daemon whose lanes are idle exits; a lane in the middle of a
tick goes on, since nothing it does there awaits; a handler returns, since every provider call has
a timeout, and armed timers fire. The last two, and the claims of lane 0, are strong fairness
because another lane in the middle of its tick, or a restart, disables them for a while. Only lane
0 has it: the governor's budget never falls below one lane and may stay there. Nothing is assumed
of the operator.

`InstanceLock!FairSpec`: a launch keeps executing, the grace period ends, a pending signal is
delivered. A hung event loop may hang for ever. In `lock` the system may fail to tell
the start time of one launch (`QueryFails`); whoever meets a file of that one waits to the deadline and
gives up, as intended, and `StaleFilesNeverBlock` speaks of the others.

`PendingSettles` counts "parked until the operator resets the budget" and "left failed at the limit by
a crash" as settled, and has the alternative that the operator resets the budget infinitely often,
which in a model whose clock has stopped can keep one job overtaking.

`Ingest`: the interval timer starts ticks, and a tick runs to its end (weak fairness of
`DrainStep`). `MemorySync`: the shipper's timer re-arms itself after every round, the operator pulls
again and again, a merge runs on; strong where a merge of the other device disables the step for a
while. `WorkerHost`: timers fire, and the promise chain goes on; nothing is asked of the
threads. `Consolidation`: the timer queues the job every six hours, a pass goes on, and judge calls
time out. `Distill`: a lane takes the job and carries on with it (strong, since another run may keep
the event loop), the cleanup job runs daily, and a reembed job that is queued again and again gets
through at some time. In no module is a crash, a user or a fault fair.

## 4. Proofs

TLAPS checks the theorems for every set of jobs, lanes, devices, atoms, threads, launches and calls
and every value of the limits, from the assumptions on constants that the modules name. In
`JobQueue`, `MaxFaults` is arbitrary: the theorems hold with repository calls throwing, unless the
property itself says otherwise.

| Theorem | Statement |
|---|---|
| `TypeCorrect` | `Spec => []TypeOK` of `JobQueue` |
| `ExclusionInvariant` | `Spec => []Exclusion`, given `OneOperator` |
| `ExclusiveExecution` | `Spec => []NoDoubleExecution`, given `OneOperator` |
| `TimersAreCurrent` | `Spec => []TimersFindFailedJobs`, given `OneOperator` |
| `RetriesStayLeft` | `Spec => []RetriesLeft`, given `OneOperator` |
| `RetryLimitHolds` | `Spec => RetryLimit`, given `OneOperator` |
| `JobsAreTracked` | `Spec => []Tracked`, given `OneOperator` |
| `NoJobForgotten` | `Spec => []NothingForgotten`, given `OneOperator` |
| `CompletedStaysFinal` | `Spec => CompletedIsFinal`, given `OneOperator` |
| `QueueImplementsWorkQueue` | `Spec => ImplementsWorkQueue`, given `OneOperator` and `MaxFaults = 0` |
| `AgingBoundsOvertaking` | `Spec => []OvertakingBounded` |
| `PauseKeepsQueue` | `PauseSpec => Spec` of `JobQueue` |
| `PauseKeepsExclusion` | `PauseSpec => []NoDoubleExecution`, given `OneOperator` |
| `PauseTypeCorrect` | `PauseSpec => []PauseTypeOK` |
| `SpendStaysBounded` | `PauseSpec => []CommittedSpendBounded` |
| `StormsStayCheap` | `PauseSpec => []StormBurnsFewAttempts` |
| `OnePortOneWriter` | `Spec =>` launches that listen first and share a port have at most one writer among them |
| `FilesKeepWriters` | `Spec => []FilesKeepOneWriter` |
| `LockTypeCorrect` | `Spec => []TypeOK` of `InstanceLock` |
| `IngestTypeCorrect` | `Spec => []TypeOK` of `Ingest` |
| `SlotsAccount` | `Spec => []Accounted` |
| `StoredExactlyOnce` | `Spec => []ExactlyOnce` |
| `CapturedIsKept` | `Spec => []NothingLost` |
| `SyncInvariant` | `Spec => []SyncInv` |
| `SyncTypeCorrect` | `Spec => []TypeOK` of `MemorySync` |
| `ErasureAlwaysWins` | `Spec => []ErasureWins` |
| `WatermarkLeavesNoGap` | `Spec => []NoGap` |
| `SyncedIsStored` | `Spec => []SyncedMeansStored` |
| `OnlySharedLeaves` | `Spec => []EnvelopesAreShared` |
| `GenerationsNeverOverlap` | `Spec => []NoOverlap` |
| `OnlyUndoneComesBack` | `Spec => UndoMatches` |
| `StoryInvariant` | `Spec => []StoryInv` |
| `DevicesConverge` | `Spec => []Converged` |
| `HostTypeCorrect` | `Spec => []TypeOK` of `WorkerHost` |
| `HostKeepsItsBooks` | `Spec => []HostInv` |
| `AnswersAreOnesOwn` | `Spec => []AnswersMatch` |
| `NoRequestLeaks` | `Spec => []NothingLeaks` |
| `ConsolidationSound` | `Spec => []Books` |
| `MergesLeaveASurvivor` | `Spec => []Survivor` |
| `GuardSkippedByOneTier` | `Spec => []OnlyAutoAcceptSkipsGuard` of `Consolidation` |
| `AcceptedIsMerged` | `Spec => AcceptedMeansMerged` |
| `RejectedStays` | `Spec => RejectionStands` |
| `DistillInvariant` | `Spec => []DistillInv` |
| `DistillTypeCorrect` | `Spec => []TypeOK` of `Distill` |
| `CallsStayBounded` | `Spec => []CallsBounded` |
| `ErasedStaysOut` | `Spec => []ErasedUnlessRaced` |
| `PaidIsNotAskedAgain` | `Spec => RetryKeepsPaidWork` |
| `DoneIsWhole` | `Spec => DoneMeansWhole` |
| `OwnCheckpoints` | `Spec => []OwnProfile`, given that no configuration compacts in mode `always` |

The hypotheses are necessary. Without `OneOperator` (at most one queue command at a time) two commands
that have listed the same poisoned job requeue it one after the other, the second time while a lane
is running it. With a throwing repository call a completed job is failed and retried, which no abstract
queue does. And a compaction checkpoint of
mode `always` has no profile in its key.

**Queue.** `NoDoubleExecution` is not inductive: a pending row must be in no lane's
hands when it is claimed, and `requeueForRetry` makes a row pending whatever its state. `Exclusion`
adds what rules this out. `LanesOfLiveProcess`: only a live process has working lanes, so boot
recovery, which moves running rows, finds none. `RowFollowsLane`: the row in a lane's hands is in the
state the lane's last statement left, hence not pending. `TimersOfIdleJobs`: a job with a timer is
failed, in no lane's hands, and has one timer, so a timer that fires makes no held row pending.
`ListedRowsAreDead`: the rows a command has still to requeue are poison or gone; this is the part
that needs `OneOperator`. The step proof has one case per action and one step per part. `RetriesLeft`
rides on top: only a job with attempts left has a timer, which with the comparison in
`RecoverFailed` gives `RetryLimit`. `Tracked` says the converse of `RowFollowsLane`: while no repository
call has thrown, each running row is in some lane's hands and each failed row with attempts left is in
a lane's hands or on a timer; between the statements of a boot it says how far recovery has come.
It gives `NothingForgotten`, `CompletedIsFinal`, and the one case of the refinement that is not a
matter of definitions, that recovery finds no completed job running. For `OvertakingBounded`
rows carry one of the five tiers and no creation time of the future (`Stamped`), and a job four aging
steps older has the better effective tier whatever the two started with.

**Budget and breaker.** Each step of `ProviderPause` is one of `JobQueue` or leaves its variables
alone (`PauseStepIsQueueStep`), so what is proved of the queue holds of the composition.
`CommittedSpendBounded` is inductive once the types say that `calling` is a subset of lanes times workers:
the worker that starts a call passed the check, and it was not calling itself. For the storm, `BurnsAreCounted`:
each attempt a storm has burned is in the breaker's counter as long as it lies below the threshold.

**Lock.** Two things keep a second writer away, and each has its invariant. The files do, in either order
of boot and bind and on any ports: `FilesInv` says that until a file has been stolen unchecked or an
event loop has hung, `FilesHold` is the case. `Holds` is what each launch may count on: in the critical
section the sentinel is its own, from `writeLock` to the end of its service the lock is, it works only
where it holds one of the two, and whoever is about to unlink a sentinel has found its holder dead.
`TurnedAway` joins the two files: while one launch serves, another one inside the mutex gets no
further than the probe that the first one answers. The step proof goes through the phases of a launch;
most steps only move it on (`Keeps`, `MovesOn`, `StepsBack`). The other is the listener, whatever became of the
files: `PortsHeld` says that launches that listen have different ports, and that one which listens first
does so until its worker has stopped; that gives `OnePortOneWriter`.

**Ingest.** `ExactlyOnce` is not inductive: it does not say why the next
transaction stores no further copy. `Accounted` does: while a slot recognises replays, at most one
copy is not accounted for by `reopened`; where no slot does, none is, so that the copy the next
transaction stores is the one allowed. Pruning, erasing and keyless requests take a slot out of
the first case and count themselves in `reopened`. `NothingLost` needs the third part: a
file about to be unlinked has its content stored, whatever another capture did to the file
meanwhile.

**Memories on several devices.** `SyncInv` is in `MemorySync`. All lifecycle operations come down to one
kind of step, `LocalStep`: rows of one device change, each as `RowStep` allows, and events with new ids
are appended that say so. From it alone `LocalKeeps` shows the invariant and `LocalUndo` the action
property; an operation has only to be shown to be such a step. `RowsSound` ties the columns of an
own atom to the last event that changed it: archived means the last was an archive, and so on, so that
the operation whose guard reads the column undoes that event. Shipping moves events that are in
logs and changes no rows (`RestKeeps`). A merge is proved step by step on its copy. `CopySound` says
what holds of the copy at every await-free step: the log grew, a visible row got hidden or a hidden one
stayed so, atoms that only the device itself wrote about are as they were, erased atoms are gone or still
to be recomputed, and the losers on the stack are in the log. Between appending a synthetic event
and recomputing its atom one atom is exempt (`CopyPending`), and `RecomputeSound` shows that the
recomputation restores the rest. At the commit the copy's clauses become the invariant's.

**Convergence.** `Converged` relates the rows of two devices that never talk to each other, so nothing
about one step of one device suffices. `StoryInv` adds three facts to `SyncInv`. `OneStory`: an
id stands for the same event in every log, in flight and in the cloud, but for the scope with which a
create leaves. `RowsFollow`: an atom has a row exactly when its log has its creation and no tombstone,
and the row's columns are what the log's supersedes (the one of the greatest `(created_at, id)`) or else
its invalidates leave of it, unless an event that never leaves the device has touched it.
`SecretsKept`: where an atom is private nobody else has heard of its creation, hence a tombstone that
arrives has been preceded by a shared creation. A merge keeps this up on its copy (`CopyFollows`): a row
that does not yet follow from the copy's log is marked as touched and at most behind it, and the
recomputation of all touched atoms, forks first, ends with none. Once everything is exchanged
two logs have the same events of a shared atom; rows that follow from the same events are the same.
The order in which events came plays no part: what `recomputeProjection` writes comes from the set of
events, whose minimum and maximum are taken in total orders, and the columns it leaves alone are
those no event has set (`Behind`).

**Thread hosts.** `HostInv`: the map has exactly the calls that wait, each under its own id; a thread,
also one the host has given up, answers an id for the call that took it, so that a late reply finds its
own entry or none; and the thread the host posts to has not ended.

**Consolidation.** What a pass, a judge, a person or a user does comes down to a few changes of a row
(`RowChange`) and of a proposal (`PropChange`), although most of them act on rows they read earlier.
`Survivor` says that the links to winners run in no circle: every set of merged memories has one that
leads out of it. A merge takes two valid rows and links one to the other; the winner is superseded by
none, so a set with the new link leads out through it, and any other did so before. `Books` adds that
only one pass is in its sweep and that the merges it saw stand, so that a proposal it marks as
accepted is one.

**Distill.** `DistillInv` has a part about a run by itself (`RunSound`: which chunks have an
answer at which stage, the calls made and in flight) and one about what others change meanwhile
(`RunInStep`: what is still to be asked is not paid for in the store; atoms yet to insert were not
erased unless in the race window; atoms of the run are left, gated, erased or stored). The next chunk
and the next atom are the least of a set, for which the proof needs well-founded induction on
subsets. `OwnProfile` has its own invariant (`OwnInv`): each extraction in the store was made for the
profile in its key, and each compaction for the one profile that compacts.

Only model-checked: all liveness (`PendingSettles`, `StaleFilesNeverBlock`, `SpoolDrains`,
`SyncCatchesUp`, `CallsSettle`, `StaleProposalsLeave`, `GroupsHaveTheirTurn`, `JobsSettle`,
`SearchableInTheEnd`), which is beyond TLAPS, and `TypeOK` of `Consolidation`, which speaks of
`SetToSortSeq`, defined by recursion. Every other safety property of a passing run has a theorem.

## 5. Not modelled

Inside the modelled components: the governor's latency estimate and delay shaping, which change no
order the model tells apart; costs that differ from their estimate; the deadlines of `acquireMutex`
beyond "older than the grace period"; the WAL checkpoint, oversize scan and doctor timers. The
forensics dump of `queue purge` can show older values than the rows it deletes have by then
(`src/cli/queue-purge.ts:44` and `:92`); paused jobs are not requeued at midnight, only by the
command; both are seen by reading and not stated as properties. The spool of cost events; files that
stay unreadable for ever; retention and archival policies, which choose what `archive` is called on;
the backfill of create events; a quarantine
rename that fails, whose error is swallowed (`src/ingest/spool.ts:400-404`) and after which the file is met again;
the difference between a constraint violation and another error of an HTTP ingest, which both end in an error
for the client (`HttpFails`); the synthesis of gists; the wall-clock halves of caps; the model call
that grounds dates.

Provider health counters and the rate limiter report and delay, and migrations run before anything
else does: they are left for later. Search and ranking, redaction, formatting, dashboards, the MCP
server, backups, session parsing and the platform integration carry no protocol.

## 6. Plan

1. `StaleFilesNeverBlock` split into its safety part (a stale file is never taken for a live owner)
   and the liveness that is left to TLC; the same for `SpoolDrains`.
2. The spool of cost events, the rate limiter and the migrations, as modules of their own.
3. Two daemons: `InstanceLock` composed with the boot recovery of `JobQueue`, to show what a second
   writer does to rows a lane is running.
