# A TLA+ model of the m3l-automation console

m3l-automation is a TypeScript monorepo of automation scripts and the platform
that runs them: a library (`packages/m3l-common`), a command-line interface
(`m3l-cli`), a console server that runs scripts on behalf of browsers
(`m3l-console-server`), its web client (`m3l-console-web`) and an MCP server
(`m3l-mcp`).  This directory holds TLA+ specifications of the parts of it where
order, failure and concurrency decide whether it is correct, TLC models that
check them on small instances, and TLAPS proofs about all eight state machines.

All paths below are relative to `src/packages/`; `server/` abbreviates
`m3l-console-server/src/` and `core/` abbreviates `m3l-common/src/core/`.

## 1. Inventory

### The console server

| component | state | operations | what is hard |
|---|---|---|---|
| **run governor** `server/runs/governor.ts` | two ledgers: executing runs (global, per script), waiting runs | decide, accept, release, enqueue, dequeue | a reservation must be given back on every path, once |
| **run orchestrator** `server/runs/orchestrator*.ts`, `admission.ts` | maps `active`, `pendingQueued`, `queueTimers`; a draining flag | launch, cancel, queue timeout, settle and pump, drain, reconcileOnBoot | the maps, the ledgers and the table must agree after any failing call; timer, cancel and pump race for one row; drain races settling and launch |
| **table console_runs** `server/store/runs-repository.ts` | one row per run, durable | guarded updates `insertQueued`, `claimForStart`, `finish`, `abandonQueued`, `reconcile`, `list` | what readers see across failures and restarts |
| **run executors** `server/runs/executor.ts` | a child process or an in-process command | execute, abort | a spawned child is killed in the end, an in-process command is not |
| **event streams** `server/stream/event-stream.ts`, `runs/stream-events.ts`, `http/routes/run-stream.ts`, `http/stream-writer.ts` | a ring buffer per watched run, one SSE response per watcher with a pending-bytes counter | publish, end, subscribe with a cursor, write, drain of the socket | status read before the subscription; frames dropped under backpressure; cursors older than the ring |
| **console shutdown** `server/lifecycle/{shutdown,drain,http-server}.ts`, `http/drain-middleware.ts` | in-flight count, drain state, listener, deadline | track, release, drain, close, force-close | three drains in parallel, each with a timer, before the store closes |
| **HTTP pipeline** `server/http/handler.ts` … | per request | match, read the body, dispatch, write the response | where a request awaits, and what aborts it |
| **sessions** `server/sessions/*`, `store/sessions-repository.ts` | sessions, steps, bindings, artifacts, decisions | create, close, reopen, addStep, selectBinding, decide; reactions to run events | steps follow runs through events nobody awaits; a session's state and its artifact total are read before an await and used after it |
| **human-action audit** `server/audit/*`, `boot/human-action-audit.ts`, `boot/audit-index.ts`, `boot/audit-rebuild.ts` | append-only files, and an SQLite index of them | record (before or after the action), compensate, rebuild on boot | two stores and an effect that must not diverge, with failures and deaths between any two writes |
| store and migrations, telemetry, retention, composition | SQLite; counters | | mostly sequential |

The orchestrator calls the governor and the repository synchronously, hands
runs to executors, and publishes run events to a composite sink: the stream
hub, a logger, and the sessions service, which moves the step of the run.  The
SSE route reads the run's row and subscribes a response to the stream.  The
shutdown sequence ends the streams, drains the orchestrator and the HTTP
requests, closes the listener, and then closes the store everything else uses.

### The library

| component | what is hard |
|---|---|
| **append-only storage** `core/storage`, `internal/storage/append-only-*` | an append that fails half-way; rotation, sealing and the manifest across crashes; two writers over one directory, and midnight |
| **checkpoint store** `core/checkpoint` | a checkpoint refers to another file (the output), and either may be ahead after a crash |
| **polling and retry** `core/polling`, `core/network` | abort against retry, what is classified as retriable, bounded attempts |
| **concurrency pool** `core/utils/M3LConcurrencyPool.ts` | what still runs after one worker has thrown |
| **procedure engine** `core/procedure`, `internal/procedure` | flow directives that lead back, bounded by two guards |
| **agent runtime** `core/agent` | evaluation of a policy with budgets; its decision log is an append-only stream |
| **script host** `core/script`, `internal/script/signalHandlers.ts` | signals against cleanup |
| configuration, prompts, importers, exporters, logging, AWS clients | pure functions and I/O; not candidates for a model |

### The rest

`m3l-cli` has one candidate, the flow runner (`src/flow/run.ts`): branches,
the guard on step executions across resumptions, and what a halted flow resumes
at.  `m3l-mcp` maps tool calls to child processes of the CLI.
`m3l-console-web` matters here for its `EventSource` (`hooks/useRunStream.ts`).
`scripts/` are applications of the library; of them **dynamodb-crud**
(`src/scripts/dynamodb-crud`) has concurrency of its own: a parallel scan with
checkpoints that a later invocation resumes, and batch writes with several
batches in flight, retried until they run out of attempts.  `PROJECT.json` lists all of these,
with the reason for each that is not modelled, and every hazard at its line.

## 2. What makes each part correct

* **Runs.**  Limits hold on the table, not only in memory; every reservation is
  given back; nothing that could execute waits; nothing overtakes an older run
  of its script; followers are told the truth about the row; a row only moves
  forward and its start time is never made up; whatever is queued leaves the
  queue and whatever is cancelled ends; a drain ends.
* **Streams.**  A watcher never misses an event without being told of a gap;
  one whose end frame says "completed" has everything since its cursor, or knows
  of a gap; nobody waits on a stream that
  will not end; everybody is told the end in the end.
* **Shutdown.**  It ends, whatever handlers and clients do; the store closes
  under no run that was launched before the drain of the runs found none left.
* **Sessions.**  A step runs only while its run does and ends as it ended; no
  event of a run is forgotten unless handling it failed; a binding has a value;
  references by ordinal are unambiguous; the cap on open sessions holds.
* **Audit.**  Nothing is done or shown that the trail does not name; a change
  that was refused does not stand in the trail as done; the index is never
  ahead of the trail, and lacks only what is known to be missed.
* **Append-only storage.**  To each writer, a log that only grows at its end,
  through rotation, restarts and failures; segments bounded and without gaps; a
  seal is true; the sweep catches up with what earlier instances left.
* **Scan and checkpoint.**  A checkpoint is never ahead of the output; a run
  that says it is complete has written everything, however often it was killed
  and resumed.
* **Batches.**  Every item is confirmed or reported, exactly once; after the
  abort nothing is sent.

## 3. Modules

    RunGovernor ── RunOrchestrator ── MCRunOrchestrator, RunOrchestratorProofs
                        │  (Lifecycle == INSTANCE RunLifecycle)
    RunLifecycle ─── Sessions ── MCSessions, SessionsProofs
                           (StepLifecycle == INSTANCE RunLifecycle)
    RunStream ── MCRunStream, RunStreamProofs
    ConsoleShutdown ── MCConsoleShutdown, ConsoleShutdownProofs
    AppendOnlyLog ── AppendOnlyStream ── MCAppendOnlyStream, AppendOnlyStreamProofs
                           (Log == INSTANCE AppendOnlyLog)
    HumanActionAudit ── MCHumanActionAudit, HumanActionAuditProofs
    CheckpointedScan ── MCCheckpointedScan, CheckpointedScanProofs
    BatchWrite ── MCBatchWrite, BatchWriteProofs

**RunGovernor** is the arithmetic of `governor.ts`: a record of the two ledgers
and one operator per method.

**RunOrchestrator** models `orchestrator.ts` and `orchestrator-cancel.ts` over
it.  Node runs one callback at a time, so *one action is one turn of the event
loop*: everything a handler, a timer callback or a promise continuation does
before it returns.  The table (`status`, `queuedAt`, `started`) survives, the
other variables are the memory of the process.

| action | code |
|---|---|
| `LaunchStarts`, `LaunchQueues` | `launchRun` with `admitRun`, `persistQueuedRow`, then `startRun` or the queue |
| `LaunchInsertFails`, `LaunchClaimFails`, `LaunchExecuteThrows`, `LaunchCutShort` | the same with a store call or `execute()` that throws, or a process that dies between the two commits |
| `Settle` | `finishActiveRun`: record the outcome, release, publish, and pump one queued run, all in one continuation (`PumpQueue` is `pumpQueue`, its bounded listing included) |
| `SettleWriteFails`, `SettleCutShort` | `registry.finish` throws (the rejection is handled only by a drain in progress, otherwise it ends the process), or the process dies after the commit |
| `QueueTimeout`, `CancelQueued`, `CancelWriteFails` | `onQueueTimeout` and `cancelRun` through `abandonQueuedRun` |
| `CancelActive` | `cancelRun` of an active run: only its signal is aborted |
| `DrainBegins`, `DrainResumes` | `drainActive`, one round of its loop each; `Spinning` is the loop re-awaiting settled promises |
| `Crash`, `Boot` | the process dies; `reconcileOnBoot` of the next one |

**RunLifecycle** is the abstract specification: what a reader of `console_runs`
may rely on (forward moves only, truthful start, limits).  Any number of rows
may move in one step, since one turn may finish a run and start the next.

**RunStream** models one run's events from publication to the browsers that
watch it.  The server's half is the stream of the hub (`stream`, `highest`, the
ring of the last `BufferSize` ids), the route (`conn`, and `route`: the status
the handler has read in an earlier continuation than the subscription) and the
writer (`wire`, `backlog`, `gapDue`); the browser's half is its Last-Event-ID
(`cursor`), whether a gap was shown since (`gapSeen`) and what it was told.
`Offer` is the writer: of a list of frames a prefix is accepted, some become
pending, and once `MaxBacklog` are pending the rest is dropped; which, depends
on the socket, so it is a choice.  Lost connections and restarts of the
server are actions of the environment.

**ConsoleShutdown** models the sequence of `shutdown.ts` over the drain
controller, the tracked requests, the listener, the orchestrator's drain and
the store.  Requests come in the five kinds that differ: a plain one, a stream,
`POST /runs`, a session's `addStep`, and a probe, which is not tracked.  The two
that launch read their body (`BodyRead`), then await their audit record, and the
second its bindings, and launch in the turn after (`Launches`, or
`LaunchesNothing` when the record fails or the launch is refused or queued):
the shutdown may begin, and go on, while they wait.  `DrainAgain` is one turn
of `drainActive`: `entries` are the runs it has aborted and awaits, and
`EntriesSettle` the turn in which all of those have settled, which starts over
if others have been launched since.

**Sessions** models `sessions/service.ts` over its tables (`session`,
`bindings`, `step`, `ordinal`, `attached`, `result`) and the runs it launches
(`run`, `started`), which the environment moves as `RunLifecycle` allows.

| action | code |
|---|---|
| `CreateSession`, `CloseSession`, `ReopenSession` | the guarded updates, with the cap on open sessions |
| `BeginRequest`, `BindNext`, `BindFails` | the head of `addStep` and `selectBinding`, then one await per bound artifact; each binding row is inserted in the continuation of its own await |
| `SelectBinding`, `LaunchStep`, `LaunchRefused` | the continuation of the last await: the run is launched and its step inserted, attached and claimed in one turn; `RecordStep` lets any of those statements be the one that throws |
| `StartRun`, `EndRun`, `AbandonRun` | the events of the run: `handleRunStarted` in the turn they are published, and the head of `handleRunEnded` |
| `FinishStep` … `FinishStepFails` | the rest of `handleRunEnded`, after the artifact is written |
| `Restart` | the process dies; the runs are reconciled, the steps are not |

Its `StepLifecycle` is `RunLifecycle` with steps for runs: the code says that a
step has the state machine of a run, and `StepsImplementLifecycle` checks it.

**AppendOnlyStream** models the writer, the sealer, the manifest and the reader
of `internal/storage/append-only-*`.  One action is one file operation of one
writer, since writers are different processes; within a writer they come in
the order of its promise chain: `Resolve` (discover or reuse the active
segment, decide the rotation), `OpenSegment`, `AppendLine`, `Acknowledge`, then
`LoadManifest`, `AppendBaseline`, `Sweep`, `Measure`, `AppendClaim`, `EndPass`.
Any of them may fail, an append may tear, a writer may die at any of them, and
the day may change at any time.  A line is a piece without content, a digest a
length.  `ReadBy(w)` is what `read()` would hand over of the entries of `w` before
it ends or throws, and `ReadCompletes` whether it ends.  It throws at an
unreadable manifest, before a segment some seal of which states another length
(`SealHolds`), at a line that does not parse (`LinesParse`), and behind a segment
other than the last that is empty or ends in a fragment (`EndsWell`); nothing is
skipped.  The reading is with `onTruncatedTail`, which accepts a fragment at the
end of the last segment, and a segment is read in one chunk: a longer one has
some entries handed over before a wrong seal is found.
**AppendOnlyLog** is what writers and readers are promised: a log per writer,
with every acknowledged write in it, and a reading that hands over its
beginning, all of it if the reading ends.  `log` maps to the lines on disk
(`WrittenBy`), `acknowledged` to the writes that resolved, `read` to
`ReadCompletes` and `ReadBy`.

**HumanActionAudit** models the audit of the console's routes
(`boot/human-action-audit.ts`, `audit-index.ts`, `audit-rebuild.ts`): a route
that changes something records `allowed` and then acts, adding `failed` if its
handler throws; one that shows something acts, and answers when `served` is
recorded.  `AppendEntry` and `IndexEntry` are the two writes of an entry,
`Crash`, `DropIndex`, `Boot` and `BootWithoutRebuild` what the index goes
through.  It takes the trail as what the readers of `AppendOnlyLog` see.

**CheckpointedScan** composes three parts of the code: `scan-table.ts` (a
generator per segment, their merge, the deletion of the checkpoint), the
checkpoint store (a write replaces the whole file or nothing), and the
byte-offset exporter (a resumption truncates the output to the checkpoint's
length, or refuses an output that is shorter).  The generators run ahead of
the merge: the next page is fetched, and a checkpoint written, while other
segments' items are appended.  A run is a process of its own, as under the
console's spawning executor and the CLI: `Exit` of a run that failed takes the
generators that are still pending with it.  Under the in-process executor one
of them could yet write its checkpoint after the run has failed, which is not
modelled.

**BatchWrite** models `batch-write-table.ts`, the retry runner
`core/polling/M3LRetryRunner.ts` as that uses it, and the report of unprocessed
items.  `Pull` and `PlaceFrees` are the two halves of the driver's loop around
its await for a place; `Attempt` is the head of the runner's loop, `CallReturns`
and `CallFails` what follows a call, `DelayElapses` and `DelayAborted` the two
ends of a backoff.

Definitions called "Faulty variant" are never used by a specification.  Each
stands before the definition it is a wrong version of, and documents the bug
that some property excludes: substituted for that definition it makes the
property fail (the list is `mutants` in `PROJECT.json`).

## 4. Runs

Passing:

| run | instance | what it shows |
|---|---|---|
| `RunOrchestrator_faults.cfg` | 5 launches (four of one script, one of another), 2 slots, 1 per script, 2 queue places, 2 clock values, 2 faults, 1 crash | types; `ReservationsMatchRows`, `LimitsHold`, `PumpSeesEveryQueuedRow`, `WorkConserving`, `FeedMatchesRows`, `MemoryMatchesRows`; the action properties `NoOvertaking` and `DrainStartsNothingQueued`; the refinement `ImplementsLifecycle` |
| `RunOrchestrator_liveness.cfg` | 3 launches, 1 slot, 1 crash, spawned executors | `QueuedRunsLeave`, `DrainCompletes`, `CancelledRunsEnd` |
| `RunStream_safety.cfg` | 2 watchers, ring of 2, 2 pending frames, 3 events, 1 lost connection, 1 restart | types with `LiveWatchersHaveALiveRun`; `NoSilentLoss`, `CompletedMeansComplete` |
| `RunStream_liveness.cfg` | 1 watcher, 2 lost connections, 1 restart | `WatchersAreTold`, `DropsAreAnnounced` |
| `ConsoleShutdown_drain.cfg` | one request of each kind, with a readiness grace period | types with `GracefulMeansIdle`; `StoreOutlivesDrainedRuns`; `ShutdownCompletes` |
| `Sessions_safety.cfg` | 3 steps, one bound to the other two, and a selection; 2 sessions of which 1 may be open; 2 outcomes, 1 fault, 1 restart | types with `OpenSessionsBounded` and `OrdinalsAreDense`; `BoundStepsHaveResults`, `StepsFollowTheirRuns`, `NoStartedStepIsForgotten`; the refinement `StepsImplementLifecycle`; `RunningStepsEnd` |
| `AppendOnlyStream_one_writer.cfg` | 1 writer, 3 writes, segments of 2 lines, 3 days, 1 failing operation, 1 torn write, 2 crashes | types with `NoSequenceGaps` and `SegmentsAreBounded`; `SealsAreTrue`, `SweepLeavesNothingBehind`, `TrailOnlyGrows` |
| `AppendOnlyStream_two_writers.cfg` | 2 writers, 2 writes each, segments of 1 line, 2 days, 1 torn write | the refinement `StreamImplementsLog` |
| `HumanActionAudit_faults.cfg` | 2 requests that change something and 1 that shows something, 2 failing writes, 2 deaths, 1 dropped index | types with `IndexIsWithinTrail`; `NothingGoesUnaudited`, `FailuresAreCompensated`, `IndexLacksOnlyTheMissed` |
| `CheckpointedScan_resumes.cfg` | segments of 4 and 2 pages (one empty), a checkpoint every 2nd page, 2 fresh runs, 1 failure, 3 kills, 1 lost tail | `CheckpointIsBehindTheOutput`, `CompleteMeansWhole` |
| `BatchWrite_retries.cfg` | 3 chunks of 5 items, 2 in flight, 3 attempts, 1 failure, an abort | `EveryItemIsAccountedFor`, `AbortStopsCalls` |

Deadlock is not checked in any of them: the system may stop (every launch of
the instance has been made and has ended; the store is closed; every write has
been made).

### Where the code differs from what it says

Each row is a configuration that checks one sentence of a comment or document
of the repository, and finds it violated.  The first is a run of
`PROJECT.json`; the others are run by hand, `tlc -config X.cfg MCModule`, and
end in the violation described.

| configuration | property | the sentence | what happens |
|---|---|---|---|
| `CheckpointedScan_doubled.cfg` | `NothingIsDoubled` | "Duplicate work, never lost or doubled output" (ADR-0045) | the checkpoint of one segment carries the length of the whole output, in which another segment already has items of a page its cursor is not past; a resumption keeps them and reads that page again |
| `CheckpointedScan_lost.cfg` | `NothingIsLost` | the same | a fresh run leaves an older run's checkpoint in place until its own first one; `--resume` after a kill in between truncates the new output to the old length and goes on from the old cursors |
| `RunOrchestrator_slot_leak.cfg` | `NoSlotLeaks` | `governor.ts:106`, "the number of runs currently occupying a global concurrency slot" | only a failing `insertQueued` gives the slot back.  When `claimForStart` or `execute()` throws after admission, the slot stays taken with nothing executing, until the next restart |
| `RunOrchestrator_drain_write_fails.cfg` | `DrainCompletes` | `orchestrator-types.ts:227`, drain resolves once every run has settled | `registry.finish` fails for a run a drain is waiting for: the rejected entry never leaves the map, and the loop re-awaits settled promises for ever, in microtasks |
| `RunOrchestrator_drain_in_process.cfg` | `DrainCompletes` | `orchestrator-types.ts:232`, each executor's kill-signal escalation bounds the drain | an in-process command may ignore its signal, so the drain is not bounded |
| `RunStream_end_dropped.cfg` | `EndFramePrecedesEnd` | `run-stream.ts:24`, both paths emit `stream.end` before the response ends | the writer drops the `stream.end` frame itself under backpressure, then the response ends |
| `RunStream_unwatched_end.cfg` | `CompleteResponsesSayWhy` | `run-stream.ts:29`, a watcher can always tell why a stream ended | a run that ended unwatched has no stream: its watcher gets an empty response, again at every reconnection |
| `ConsoleShutdown_late_run.cfg` | `StoreOutlivesRuns` | `shutdown.ts:129`, the store closes after all three have settled, since a run may be writing to it | a launch resumes from its audit record, or `addStep` from its bindings, after the runs have been drained, and launches one more; the store closes under it, even when the drain of the requests was graceful |
| `Sessions_abandoned_step.cfg` | `EndedRunsEndTheirSteps` | `service.ts:196`, `run.ended` finishes the step | `handleRunEnded` ignores a step that is not running, so the step of a run abandoned in its queue stays queued for ever |
| `Sessions_closed_session.cfg` | `StepsJoinOpenSessions` | `console.md:182`, a step appended to a session that is not open is an error | the session is checked before the awaits of the bindings and never again |
| `Sessions_total_race.cfg` | `TotalWithinCap` | `console.md:183`, an output that exceeds the session total is an error | two steps read the total before either has recorded its artifact |
| `AppendOnlyStream_second_writer.cfg` | `RotationSealsAreComplete` | `append-only-sealer-types.ts:70`, the second-writer guard | the rotating writer compares its count with one measurement; the other writer appends after it |
| `AppendOnlyStream_midnight.cfg` | `SweptSealsAreComplete` | `append-only-sweep-policy.ts:128`, the strict rule is airtight | a writer that decided its segment before midnight appends to it after another one's sweep has sealed it |
| `AppendOnlyStream_empty_segment.cfg` | `OnlyTheLastIsEmpty` | `append-only-reader.ts:229`, a segment is only created by the append that fills it | `open(O_CREAT)` and the append are two operations; a death in between, and a new day, leave an empty segment in the middle, which the reader rejects |
| `AppendOnlyStream_torn_tail.cfg` | `AcknowledgedAreReadable` | `storage.md:302` and `append-only-writer.ts:362`, a torn tail costs the torn entry; `write()` resolves once the entry is durable | the next append goes behind the fragment, on the same line, and is lost with it although it was acknowledged |
| `AppendOnlyStream_torn_seal.cfg` | `ManifestStaysReadable` | ADR-0102, a half-written seal claims nothing | the retry is appended behind the fragment, and the malformed line is then in the middle of the manifest, which is fatal |
| `AppendOnlyStream_lost_seal.cfg` | `SweepRecoversSeals` | `append-only-writer.ts:233`, a seal lost by exiting is recovered by the next sweep | without a manifest the next instance writes a baseline that covers the segment |
| `HumanActionAudit_index_recovery.cfg` | `BootRecoversTheIndex` | `audit-index.ts:162`, a boot rebuild will recover this row | the rebuild returns at once when the index holds any row |
| `BatchWrite_unreported.cfg` | `UnprocessedAreReported` | `dynamodb-crud.md:103`, every item unprocessed after retry is in `failed.jsonl` and reported | another chunk's hard error, or a failing input, ends the run before the report |
| `BatchWrite_launched.cfg` | `FailureStopsLaunches` | `batch-write-table.ts:130`, a hard failure stops the launching of new chunks | the error is read before the wait for a place, not after it |

One more was met on the way and needs no model: a comment of
`run-dynamodb-crud.ts` (near line 575) leaves throttling to
`awsThrottlingClassifier`, but `batchWriteItems` wraps every error in
`M3LDynamoDBOperationError`, which that classifier does not know, so a throttled
call is as fatal as any other.  `CallFails` models what the code does.

### Bounds, and why they are enough

* *Orchestrator.*  Runs of two scripts, with two slots but one per script, are
  the least in which a run waits for its script while another is admitted past
  it and the pump must skip a row.  Two failing claims strand a row in each slot,
  two runs fill the queue, which makes as many queued rows as the pump lists,
  and the fifth run is the one that has to be refused.  Two clock values give
  ties and an order.  Two faults and a crash fall anywhere, so every failure is
  seen before, between and after every other step; the proofs below lift the
  bounds for everything but liveness.
  Runs of one script are interchangeable, hence the symmetry (not used where
  liveness is checked).
* *Streams.*  A ring of 2 with up to 4 events (3 and the final one) overflows;
  2 pending frames let a response drop an event, a gap and the end frame; the
  second watcher shows that watchers do not disturb each other.
* *Shutdown.*  One request of each kind; the in-flight count then has every
  value from none to four while each kind is the last to be released.  Two of the
  requests launch, so that a run may be launched while the drain waits for
  another.
* *Sessions.*  Two steps may race for ordinals and for the artifact total while
  a third awaits both their artifacts in turn and a selection one of them; the
  second session competes for the only open place.
* *Storage.*  One writer, three days: a segment left by size and one left by the
  day, both across a crash, and a sweep that meets its cap.  Two writers: with
  segments of one line every second write rotates, so both meet a rotation and
  midnight in every order; one write is torn at any point, which leaves a
  fragment behind which the other writer, or the next write, appends.  Failures
  that leave nothing behind are in the first instance.
* *Audit.*  Two requests that change something interleave their entries; two
  faults let both an entry and its compensation fail, or an insert and the
  rebuild after it; two deaths let a boot follow a boot.
* *Scan.*  Four pages give the longer segment two checkpoints and an empty page,
  and the other may be anywhere in its own; three kills allow a resumption of a
  resumption, two fresh runs a stale checkpoint.
* *Batches.*  Three chunks for two places is the least in which one waits; three
  attempts have a first, a middle and a last; the proof lifts all of it.

`MaxClock`, `MaxFaults`, `MaxCrashes`, `MaxEvents`, `MaxDrops`, `MaxRestarts`,
`MaxWrites`, `MaxDay`, `MaxTorn`, `MaxFresh` and `MaxLosses` bound what is
unbounded in the code; each is a guard of the actions it counts, never of
anything else.

### Fairness

* *Orchestrator.*  Timers fire (`QueueTimeout`), settled promises continue
  (`DrainResumes`), a supervisor restarts the server (`Boot`), and the promise
  of an *aborted* run of a spawned script settles, because
  `awaitSpawnedChild` escalates from SIGTERM to SIGKILL.  The last is not
  assumed of scripts run in process, and nothing is assumed of a run that was
  not aborted, of operators or of callers.  A drain that spins disables every
  other callback, as it does in Node.
* *Streams.*  Requests are served, sockets drain while their client reads, and
  an `EventSource` that was not closed reconnects and reads.  Runs need not end.
* *Shutdown.*  Timers fire and aborted runs settle.  No handler is obliged to
  complete and no client to hang up.
* *Sessions.*  A run that executes ends in some way, and the write of an artifact
  succeeds or fails.  Requests may stop anywhere and queued runs wait for ever.

The other modules state safety only.

## 5. Proofs

Every invariant, every action property and every refinement that a passing run
checks is a theorem, for every value of the constants that the module's
assumption admits; only the liveness properties are not:

| module | theorem | statement |
|---|---|---|
| `RunOrchestratorProofs` | `AlwaysConsistent` | `Spec => []Consistent` |
| | `TypeCorrect` | `Spec => []TypeOK` |
| | `ReservationsBalance` | `Spec => []ReservationsMatchRows` |
| | `LimitsAlwaysHold` | `Spec => []LimitsHold` |
| | `PumpMissesNoRow` | `Spec => []PumpSeesEveryQueuedRow` |
| | `NoRunWaitsInVain` | `Spec => []WorkConserving` |
| | `FeedTellsTheTruth` | `Spec => []FeedMatchesRows` |
| | `MemoryAgreesWithTable` | `Spec => []MemoryMatchesRows` |
| | `OldestFirst` | `Spec => NoOvertaking` |
| | `DrainClosesPump` | `Spec => DrainStartsNothingQueued` |
| | `RefinesLifecycle` | `Spec => ImplementsLifecycle` |
| `RunStreamProofs` | `AlwaysIInv` | `Spec => []IInv` |
| | `TypeCorrect` | `Spec => []TypeOK` |
| | `CompletedIsComplete` | `Spec => []CompletedMeansComplete` |
| | `NothingIsLostSilently` | `Spec => NoSilentLoss` |
| `SessionsProofs` | `AlwaysIInv` | `Spec => []IInv` |
| | `TypeCorrect` | `Spec => []TypeOK` |
| | `BoundStepsAlwaysHaveResults` | `Spec => []BoundStepsHaveResults` |
| | `StepsAlwaysFollowTheirRuns` | `Spec => []StepsFollowTheirRuns` |
| | `NoStartedStepIsEverForgotten` | `Spec => []NoStartedStepIsForgotten` |
| | `StepsRefineLifecycle` | `Spec => StepsImplementLifecycle` |
| `AppendOnlyStreamProofs` | `AlwaysIInv` | `Spec => []IInv` |
| | `TypeCorrect` | `Spec => []TypeOK` |
| | `SealsStayTrue` | `Cardinality(Writers) = 1` implies `Spec => []SealsAreTrue` |
| | `SweepsAreThorough` | `Cardinality(Writers) = 1` and `MaxFaults + MaxTorn < MaxSealAttempts` imply `Spec => SweepLeavesNothingBehind` |
| | `TrailGrows` | `Spec => TrailOnlyGrows` |
| | `ImplementsLog` | `Spec => StreamImplementsLog` |
| `CheckpointedScanProofs` | `AlwaysIInv` | `Spec => []IInv` |
| | `CheckpointIsNeverAhead` | `Spec => []CheckpointIsBehindTheOutput` |
| | `CompleteIsWhole` | `Spec => []CompleteMeansWhole` |
| `BatchWriteProofs` | `AlwaysAccounted` | `Spec => []BatchInv` |
| | `NothingIsLostInBatches` | `Spec => []EveryItemIsAccountedFor` |
| | `AbortIsFinal` | `Spec => AbortStopsCalls` |
| `ConsoleShutdownProofs` | `AlwaysCounted` | `Spec => []ShutdownInv` |
| | `GracefulDrainsAreIdle` | `Spec => []TypeOK` (with `GracefulMeansIdle`) |
| | `DrainedRunsComeFirst` | `Spec => []StoreOutlivesDrainedRuns` |
| `HumanActionAuditProofs` | `AlwaysAudited` | `Spec => []AuditInv` |
| | `TheIndexIsWithinTheTrail` | `Spec => []TypeOK` (with `IndexIsWithinTrail`) |
| | `EverythingIsAudited` | `Spec => []NothingGoesUnaudited` |
| | `EveryFailureIsCompensated` | `Spec => []FailuresAreCompensated` |
| | `TheIndexLacksOnlyTheMissed` | `Spec => []IndexLacksOnlyTheMissed` |

They assume what their modules do, and nothing else but the hypotheses in the
table:

* `GovernorAssumption` (what `config/runs.ts` accepts) and
  `OrchestratorAssumption` (finitely many runs, each naming a script, and
  outcomes that the code can report);
* `SessionsAssumption`: finitely many requests, of which a selection binds one
  artifact, and positive caps.  Finiteness is what makes the count of steps and
  of open sessions a number;
* `StreamAssumption` of `RunStream`: a ring of at least one event and room for
  two pending frames at least;
* `StreamAssumption` of `AppendOnlyStream`: finitely many writers, positive
  ceilings;
* `ScanAssumption` (every segment has a page), `BatchAssumption` (chunks are
  disjoint and limits positive), `ShutdownAssumption` (finitely many requests,
  of known kinds) and `AuditAssumption` (every route has a phase).

The hypotheses are where the code stops promising.  A seal is true only while
the directory has one writer (`AppendOnlyStream_second_writer.cfg` and
`_midnight.cfg` show what a second one does).  The sweep gives a segment up after
`MaxSealAttempts` failures in a row, so that it is thorough as long as there are
fewer failures, of either kind, than one segment has attempts; how many segments,
days and deaths there are does not matter, and `AppendOnlyStream_one_writer.cfg`
is an instance of it.  `TrailOnlyGrows` carries its conditions itself: one
writer, since a second one can falsify a seal or leave a segment empty, and a
manifest that can be read, since a torn seal and its retry make it unreadable
(`_torn_seal.cfg`), after which `read()` hands over nothing.  `ImplementsLog`
has no hypothesis, because it does not say that a reading ends: an acknowledged
write is on disk for ever, but behind a fragment, a false seal or an empty
segment `read()` throws before it comes to it (`_torn_tail.cfg`, `_midnight.cfg`,
`_empty_segment.cfg`).

**The invariant of the orchestrator.**  None of the properties is inductive.  That rows and
reservations balance in sum does not survive a settled run, since releasing a
slot of a script needs that script to hold one; and after a crash the ledgers
are empty while the rows are not, so limits on the ledgers say nothing of the
table.  `Consistent` is therefore

* `TypeOK`,
* `RowsBounded(status)`: running rows are within the global and the per-script
  limit and queued rows within the listing's, whether or not a process lives,
* `Serving`: while it does, the ledgers balance against the rows in sum, cover
  the running ones globally and per script, and stay within their limits
  (`Ledger`); the maps name only rows in the status they stand for and
  every waiting run of the map holds a reservation (`Held`), and timers belong
  to waiting runs,
* `Stopped`: while it does not, the memory is empty.

Rows that a failed claim has stranded keep their slot, which is why queued rows
are bounded by `QueueCapacity + MaxConcurrency`, exactly the limit the pump
lists; this is what `PumpMissesNoRow` rests on.

**The argument.**  First come lemmas on how counts of rows change when one
row moves (`CountEnter`, `CountLeave`, `CountKeep` and what follows from them),
then on what each governor operation does to `Ledger`, then `PumpKeepsLedger`,
then one lemma per action, which `NextConsistent` collects.
`WorkConserving` is inductive relative to `Consistent`: the only step that makes
room is a settled run, its slot fits one waiting run at most
(`ReleasedSlotIsRefilled`, `AcceptFitsNoMore`), and the pump, whose listing is
complete (`ListingIsComplete`), starts one if there is any.  The refinement
needs, besides, that a row not yet claimed has no start time (`Unclaimed`); the
mapping is the identity on `status` and `started`.

Three further invariants are relative to `Consistent`.  `Told`: the feed of a
run is a prefix of its story that ends where the row stands, or is empty, and
not empty for a run the process holds.  That the end is told once rests on the
second half: a row is ended only by whoever holds the run.  `InStep`: until a
call fails, the maps, the timers and the ledger of each script are those
computed from the table.  And `OldestStarts` needs no invariant of its own but
`WorkConserving`: a launch starts at once only if no run of its script is
pending, since a pending one would fit the free slot.

**Streams.**  What a watcher has missed shows only when it reads the next
event, so the invariant is about frames under way.  `Joined`: an event on the
wire stands behind its predecessor or behind a gap; `Follows`: the first one
stands so behind what the browser saw last; `CatchesUp`: the wire of a live
response ends where the stream does unless a gap frame is due, and while one is
nothing else is written.  `ConnOK` ties the response to the stream across the
await of the route, and `ToldOK` is what remains of it when the response is
over.  Each holds of sequences of any length; the lemmas on wires (a frame is
appended, the first is read, the ring is replayed) come first, then the lists of
frames a response is handed, then one lemma per action.

**Sessions.**  `Awaits(q)`: the reference a request awaits stays resolvable,
because steps are neither deleted nor renumbered and keep their results; that
is why the binding inserted turns later is still true.  `Unlaunched(q)`: a
request that is not over has launched nothing, hence its launch is the first;
`Follows` and `Remembered` tie step and run.  `OrdinalsAreDense` is inductive
because the ordinal is computed and inserted in one turn.  The refinement maps
a step to a run, and `StepIsLegal` shows each of its moves to be one of the
lifecycle's.

**Append-only storage.**  A writer's memory is about a directory other writers
change between its operations, so `IInv` says what survives that: `Aimed`,
`Placed` and `Landed` hold of one writer however far the others have grown the
segments (`OthersStay`), a segment that is to be measured exists (`WorkFound`),
and sequence numbers have no gaps although the segment was chosen two
operations before it is created.  Alone, a writer knows more (`OneAlone`): it
appends to the highest segment and knows its exact size (`AtTheEnd`), and what
it seals, claims or is to seal lies strictly below that segment
(`SealingBehind`), where nothing is appended any more; hence `SealsHold`.

What a sweep leaves is decided long before it ends: the work is listed from the
directory at the first of a series of operations, and the boundary and the seals
are those of an earlier one.  `PassOK` says what keeps them current while the
pass goes on: the boundary is still the manifest's, the seals the pass knows are
those of the manifest, the work that remains is of segments not sealed so far
and of each once, and the retries of its first piece are no more than the
failures so far.  `Thorough` is the property with the work that remains
added to the seals; each completed piece of work moves one segment from the
first to the second (`SweepsAreThorough` reads it where nothing remains).  That
the list has all the segments which the sweep admits is `InOrderIsAllOfIt`, from
the ranks of the segments (`PlacesAreAll`); that an append to the manifest adds
one seal, or moves the boundary, `ManifestGrows`.

A reading is defined by ranks: the i-th entry is the line that i - 1 others
precede.  `RanksAreAll` shows of any finite set that the ranks of a strict
total order are exactly the numbers below its size, `LastLine` that a new line
behind all the others has the last of them, `LinesExtend` that a step adds at
most such a line.  Which lines `read()` reaches depends on all the segments
before them, so `TrailGrows` has to show that none of these changes: alone, a
writer appends to the highest segment (`OnlyTheHighestGrows`), which no seal is
about, and what was read before stays read and in front (`ReadStaysRead`).  In
the refinement, `LandedIsWritten` finds the acknowledged write on disk,
`ReadLeads` shows the lines read to be the first of those written, and
`PrefixAt` that their writes are then a prefix.

**Scan.**  A checkpoint is composed at one moment and written at another, while
other segments go on appending; one kept of an earlier run may describe
another output altogether.  `Truthful(c)` therefore relates every record in
sight, written or pending, to the output: within the length it carries stand
all items behind its cursors and no torn line, unless the file has lost its
end, and then the run that resumed was refused.  `OutputOK` says the same of
the generators' own cursors, with the items of the page under way (`OnPage`),
and `OneAppends` that the merge appends one item at a time.

**Batches.**  That a successful run has accounted for everything is about its
last state only; what makes it true is a statement about every chunk in every
state.  `Accounted(c)` says that the items of a chunk that do not remain are
confirmed and those that failed are all that remain of a chunk that has
settled; `Started`, `Pending` and `HasAttempts` tie a chunk to the driver's
position and its attempts, and `Staged` the driver's stage to the chunks'.
Because chunks are disjoint, a step of one leaves the account of the others
(`OthersKeepAccounts`).

**Shutdown.**  A drain that settles at zero leaves no handler because the
controller's counter is the number of tracked handlers in progress (`Counted`,
from `CountOneMore` and `CountOneLess`), and a settled drain admits no more.
The store's half is `Outlived`: `drainActive` ends only in a turn that finds no
run active, so that every run active later was launched later.

**Audit.**  `Stands(r)` lists, for each place a request's handler may stand at,
what has been written of it, so that each write is of a new entry; `Files`
keeps the two files within each other.  `FilesStayTogether` shows that every
entry the index lacks is about to be inserted or is missed, and `BootKeepsInv`
that an index which is empty when the server is down needs no such account.

**Model-checked only.**

* Liveness: `QueuedRunsLeave`, `DrainCompletes`, `CancelledRunsEnd`,
  `WatchersAreTold`, `DropsAreAnnounced`, `ShutdownCompletes` and
  `RunningStepsEnd`.  TLAPS reasons neither about fairness nor about `ENABLED`.
* The sentences that the code does not keep (the second table of section 4):
  TLC's counterexample is all there is to show.

Induction over data and RECURSIVE operators are out of reach too; the modules
have neither.  For that reason the segments of a directory are ordered by rank
(`InOrder`) and the last baseline is the one at the greatest position
(`Boundary`): the facts about `SelectSeq` are inductions over sequences.

## 6. Not modelled

* The confirmation policy of a launch, audit, telemetry and event payloads:
  they decide whether a launch happens at all, or follow it.
* Wall-clock steps backwards: stamps of launches never decrease.
* `res.write` throwing (Node reports write errors by events, which are
  `Disconnect`), the wording of frames, and bytes: pending bytes are counted in
  frames.
* The second signal during a shutdown, which exits at once; probes beyond their
  not being tracked.
* *Sessions.*  Decisions (raise, answer) are guarded updates of one row beside
  the steps; reads; the layout of artifacts, whose size is one each.
* *Storage.*  `verify()`, the archival report and the full-text index, which only
  read; symbolic links; what `fsync` would add (the code does not call it, and
  the process dies here, not the machine; a lost tail is modelled where the
  code handles it, in the scan).
* *Audit.*  The contents of an entry beyond its request and outcome.
* *Scan.*  Checksums, fingerprints and the shape of the checkpoint file; writes
  to the table between two resumptions.
* *Batches.*  Single-item operations, one call each, and the confirmation gate;
  of the retry runner, its stall witness, which the batch operations do not
  use.
* Everything the inventory marks as pure or as I/O, and what the plan below
  still has.

## 7. Plan

Done: the run subsystem, the streams, the shutdown, the sessions, the storage
with the audit on it, the resumable scan with the checkpoint store, and the
batches with the retry runner.  Next, in this order:

1. **Proofs**: of the modules below, as they are written; of the bounds on
   segments (`SegmentsAreBounded`) and of `SealsAreTrue` for several writers, the
   weakest condition on how they share a directory under which they hold.
2. **Concurrency pool**, **procedure loop**, **CLI flow runner**: each small,
   each with a bound that must hold and a stop that must be final.
3. **Agent policy** budgets, **script host** signals, migrations, the poller and
   the stall witness of the retry runner.
4. The composition of `Sessions` with `RunOrchestrator` in place of the runs'
   abstract lifecycle.
