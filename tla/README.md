# TLA+ models of bazel-mcp

`bazel-mcp` is an MCP server, written in Rust on tokio, that runs Bazel for a
model: it admits a request, serializes it with the other users of the same
output base, supervises the Bazel process, reduces what it printed and reported,
and keeps a durable record that the model inspects later. Several server
processes may share one cache root. This directory holds models of the parts
whose correctness depends on the order of steps of several actors, the TLC runs
that check them, and TLAPS proofs of their main safety properties.

1. [The system](#1-the-system)
2. [Plan](#2-plan)
3. [Modules and how they follow the code](#3-modules-and-how-they-follow-the-code)
4. [Runs, bounds and fairness](#4-runs-bounds-and-fairness)
5. [Proofs](#5-proofs)
6. [What the runs found](#6-what-the-runs-found)
7. [What is left out](#7-what-is-left-out)

## 1. The system

Paths are relative to `src/crates/`.

| Part | State it keeps | Operations | Talks to |
|---|---|---|---|
| Lifecycle (`bazel-mcp-types/src/invocation.rs`) | the record's state | `validate_transition` | used by runner and store |
| Scheduler (`bazel-mcp-runner/src/scheduler.rs`) | pending and execution semaphores, one mutex per output base, the registry of live invocations with token and lifecycle watch | acquire, register, publish, `cancel_all`, remove | service |
| Invocation service (`runner/src/service.rs`) | the steps of every worker | `run`, `submit`, `wait`, `cancel`, `cancel_all_active`, worker supervision, version check | scheduler, execution, store |
| Execution (`runner/src/execution.rs`, `cancel.rs`) | the Bazel process and the outcome | start, wait, terminate, capture, commit, fallbacks | store, capture |
| Output-base lock (`runner/src/output_base_lock.rs`) | a file lock shared with other server processes | polled acquisition, native wait observer | execution |
| Capture (`runner/src/capture.rs`) | output tails, event pipeline, saved attempt | ingest, retry, drain, finish | BES, BEP, reducers |
| BES server (`bazel-mcp-bes/src/server.rs`) | one capture per invocation, active flag, sequence number | stream, flush, acknowledge, complete | Bazel, capture |
| BEP framing (`bazel-mcp-bep/src/framing.rs`) | pending bytes, limits | incremental and whole-stream decoding | capture |
| Store (`bazel-mcp-store/src/storage.rs`, `manifest*.rs`, `record.rs`) | `manifest.json` per invocation, the index | create, transition, finish, mutate | everyone |
| Coordination (`store/src/coordination.rs`) | owner leases, mutation locks, change markers | acquire, publish, begin and commit a refresh | other processes |
| Recovery (`store/src/recovery.rs`) | - | scan, clean debris, interrupt orphans | store |
| Retention (`store/src/retention.rs`) | the maintenance lock, trash | sweep, reclaim | store, deferred results |
| Telemetry (`store/src/telemetry.rs`, `index*.rs`) | counters, generation and flag per index entry | record, flush, merge | index, manifest |
| Deferred results (`types/src/deferred.rs`, `store/src/deferred_repository.rs`) | expiry clock, cancellation mark, override, failure | get, list, cancel, fail, extend, purge | task handlers, retention |
| Task handlers (`bazel-mcp-server/src/handler.rs`, `tasks.rs`) | calls in flight, finalizers | task submission, `tasks/get`, `tasks/result`, `tasks/cancel` in two dialects | service, deferred results |
| Server (`server/src/lib.rs`) | - | start, retention timer, shutdown | everything |
| Paging (`store/src/query_paging.rs`, `cursor.rs`) | a cursor the client carries | pages of a file | inspection |
| Inspection (`runner/src/inspection.rs`, `types/src/inspection.rs`) | - | views of a record, page by page | store, results |
| Reduction (`bazel-mcp-reducer/src`, `runner/src/execution.rs`, `test_evidence.rs`) | a bounded accumulator, parser states, the snapshot of test logs | observe, finish, copy logs, custom reducers, budget | capture, store |
| Policy, configuration, agent CLI (`bazel-mcp-policy/src`, `server/src/config.rs`, `agent.rs`) | the validated configuration | validate, resolve, split a command line | service |
| Protocol and results (`server/src/protocol.rs`, `result.rs`) | the negotiated version | negotiate, dispatch, pack | handlers |
| Benchmarks, reducer cases | development tools | | |

**How parts interact.** A tool call enters the service, which creates a record in
the store, registers the invocation and spawns a worker under a supervisor. The
worker waits for the in-process mutex, the file lock and a permit, moves the
record to Starting, spawns Bazel, moves it to Running, waits, captures, and
commits a terminal record. `bazel.cancel`, `tasks/cancel`, a client that goes
away, a timeout and the shutdown signal all reach the worker through one
cancellation token. Every lifecycle change is a store write followed by a
publication on a watch that `wait` and progress notifications read. Other server
processes see the record through change markers and their own index; recovery
and retention, in any process, act on records whose owner lease is free.

**What is hard.** The order of the worker's store writes, `bazel.cancel`'s and
their publications; registration after durable creation while a shutdown
collects tokens; early returns, store errors and panics that must not leak a
permit, a lock or a process; leases and locks across processes and crashes;
scans that read a cache root while others create, commit and delete in it; tasks
whose client gives up half way through a cancellation; clocks that purge.
`PROJECT.json` lists these hazards line by line with the properties that
watch them.

**What makes each part correct.**

- Service and scheduler: serialized output bases, a concurrency limit, no orphaned
  process, no leaked resource, waiters that return a final record, cancellation
  and shutdown that are carried through, an accepted invocation that ends.
- Store: terminal states are final, live invocations are not interrupted, dead
  ones are, deletion touches only what may be deleted, an index that observed
  every marker is current.
- Deferred results: a handle outlives its TTL, a running task is never purged, a
  cancelled task stays cancelled, a broken one reports an error.
- Telemetry: what is recorded reaches the manifest and stays there.
- BES, BEP and capture: what Bazel was told is durable is in the evidence, in order
  and from one stream; decoding does not depend on how reads cut the stream; what
  is reduced is what is retained, also when Bazel retries a build, rewrites its file
  or a write fails; nobody waits for ever.
- Reduction: streaming and batch agree; nothing is missing without a flag; the
  result keeps to its budget and holds no secret.
- Inspection and paging: pages neither skip nor repeat, their counts and flags are
  true, a cursor works in its own walk only.
- The surface: a call is executed as negotiated and as advertised; a child runs only
  what the policy admits, and as the server means it; two spellings of one output
  base are one; a failed version probe is forgotten, and only that; a result that
  was cut says so and fits.

## 2. Plan

| Step | Module | Question | State |
|---|---|---|---|
| 1 | `InvocationState`, `InvocationLifecycle` | what the runner promises | done |
| 2 | `InvocationService` | does the runner keep it; progress | done, proved |
| 3 | `DeferredTask` | task handles over the runner's promise | done, proved |
| 4 | `Store` | several processes on one cache root | done, proved |
| 5 | `TelemetryIndex` | counters through index rebuilds | done, proved |
| 6 | `BesStream`, `DurableLog` | the event service against an abstract durable, acknowledged log | done, proved |
| 7 | `BepFraming`, `CapturePipeline` | the incremental decoder, retries inside one stream, file tail and pipe | done |
| 8 | `Diagnostics`, `BuildReduction`, `CustomReducers`, `EvidenceReduction` | from events and text to the bounded result | done |
| 9 | `Paging`, `Inspection` | pages and cursors against the whole evidence | done, proved |
| 10 | `Paths`, `Policy`, `ChildProcess`, `ServerConfig`, `AgentCli`, `McpProtocol`, `RunResult`, `Surface` | a request from the outside in | done, proved |
| 11 | `*Proofs` | the safety properties of the modules above, for every value of the constants | done, see section 5 |
| 12 | native wait observer, byte accounting in `Store` | smaller pieces of the runner and the store | later |

**Composition.** `InvocationService` implements `InvocationLifecycle`, and
`DeferredTask` uses the runner through the edges of that specification; `Store` has
the same `InvocationState`. `CapturePipeline` extends the decoder of `BepFraming`;
`BesStream` implements `DurableLog`. `EvidenceReduction` runs `BuildReduction`,
`Diagnostics` and `CustomReducers` one after the other, as `execution.rs` does.
`Inspection` drives `Paging` by a client. `Surface` composes configuration, policy,
protocol, child process and result; an accepted request there is what
`InvocationService` starts from.

## 3. Modules and how they follow the code

| Module | Stands for |
|---|---|
| `InvocationState` | `InvocationState`, `is_terminal`, `validate_transition` |
| `InvocationLifecycle` | abstract: records follow the edges, one process per invocation, serialized per output base, results after the process |
| `InvocationService` | `service.rs`, `scheduler.rs`, `execution.rs`, `cancel.rs`, the lock of `output_base_lock.rs`, shutdown in `lib.rs` |
| `DeferredTask` | `deferred.rs`, `deferred_repository.rs`, the task methods of `handler.rs` and `tasks.rs` |
| `Store` | `storage.rs`, `coordination.rs`, `recovery.rs`, `retention.rs`, `index_coordinator.rs` |
| `TelemetryIndex` | `telemetry.rs`, the merges of `index.rs`, the commits of `storage.rs` |
| `BepFraming` | `framing.rs`: the incremental decoder |
| `CapturePipeline` | the file tail and the named pipe of `capture.rs`, over `BepFraming` |
| `DurableLog` | abstract: events are appended once, and acknowledged only when they are there |
| `BesStream` | `bazel-mcp-bes/src/server.rs` and its consumer in `capture.rs` |
| `Diagnostics` | `diagnostics/mod.rs`, `diagnostics/bazel.rs`, `finalize_diagnostics` |
| `BuildReduction` | `build.rs`: `BepAccumulator` and the batch reduction |
| `CustomReducers` | `extension.rs`: selection, order, patches |
| `EvidenceReduction` | `capture_evidence` and `reduce_evidence` of `execution.rs`, `test_evidence.rs`, `artifacts.rs` |
| `Paging` | `query_paging.rs`, `cursor.rs`, `invocation_repository.rs`, the log records of `inspection.rs` |
| `Inspection` | `inspection.rs`, `bazel_inspect`, `encode_inspect`, `types/src/inspection.rs`, `tasks/list` |
| `Paths`, `Policy` | canonicalization; the policy crate |
| `ChildProcess` | `start_execution`'s command line, environment and capture; `driver.rs`, `version.rs` |
| `ServerConfig`, `AgentCli` | `config.rs`, `RunnerConfig`; `agent.rs` |
| `McpProtocol`, `RunResult` | `protocol.rs` and the dispatch of `handler.rs`; `result.rs` |
| `Surface` | the composition: `main.rs`, `serve`, `run_agent_inner`, `call_tool_request`, `prepare_submission`, `validate_bazel_version`, `start_execution`, `build` |
| `*Proofs`, `MC*` | proofs about the module of that name; small instances |

**Seeded faults.** Definitions marked "Seeded fault" are deliberately wrong variants of
the definition that follows them; no specification uses them. Each shows that a
property notices the error it is for. Where a property is a conjunction of named
parts there is usually one for every part.

**InvocationService.** One worker per invocation, `pc[i]` its program point between
awaits; `cpc[i]` the `bazel.cancel` call, `wpc[i]` a waiter. `rec[i]` is the durable
record, `lifecycle[i]` the watch, `todo[i]` a state that is stored and not yet
published. `wsHolder`, `obHolder`, `permits`, `pending` are the mutex, the file lock
and the semaphores, `child[i]` the Bazel process. A store operation is atomic, and
one that fails has no effect (the store's own steps are in `Store`); the fault
actions let every store write of a worker and of `bazel.cancel` fail and let a worker
panic wherever it awaits. A request that was dispatched before the shutdown may still be
accepted after `cancel_all_active`. A commit that failed is repeated with the state of the
failure context (`FailureContext`), which is Failed before there was a process. Reading a
header does not fail, `child.wait` does not fail, and the fallback for lost evidence is in
`Store` only. One `bazel.cancel` and one waiter per invocation are a bound.

**DeferredTask.** One task in either dialect. `now` is the clock, `created`,
`updated` and `expires` the handle's times, `spc` the submission, `cpc[c]` a
`tasks/cancel` call, `finalizers` the detached tasks those calls spawn, `rpc[r]` a
`tasks/result` call. The runner is reduced to the record's edges, the
cancellation token and the supervisor's failure write. Saturation of 64-bit times
does not occur in the range of the clock. Calls in the wrong dialect are in
`Surface`, the pages of `tasks/list` in `Inspection`. The purge inside
`get_deferred_result` is one step.

**Store.** Per process: one operation per invocation (`op`), one refresh
(`refresh`, `scanned`), one startup or maintenance pass (`mpc`, `pass`), an index, and
`stale`, which stands for the difference between the markers on disk and those
observed. Shared: manifests, directories, trash, owner leases, mutation locks. A
crash drops the process's locks and memory at any step. The manifest's read,
check and replacement under the mutation lock are one step; publishing and
indexing are separate steps. Records are reduced to their state and whether an
unexpired deferred result protects them, so age and quota choose freely.
Recovery takes owner and mutation lock in one step. External deletion of
evidence, I/O errors of the sweep, unlinking of lock files and the batching of
notifications are left out.

**TelemetryIndex.** One retained invocation. `entry[p]` is the index entry's counter,
generation and scheduled flag; the three counters behave alike and one stands
for them. `mutex[p]` is the operation that holds the process's mutation mutex,
`lock` the file lock, `refresh[p]` a rebuild between its scan, its merge under the read
lock and its installation under the write lock. A record deleted by retention
has no telemetry to keep, so deletion is left out.

**BepFraming and CapturePipeline.** A byte is a number below `2 * Base`, so that with
`Base = 2` a prefix of three bytes has every shape a varint of ten has. The pipeline
`p` is a decoder with what its visitor keeps: durable evidence, events seen, the
attempt saved when Bazel announces a retry. The reader is fed chunks of any size
while Bazel writes (`fed` is all of them), Bazel may rewrite its file, the evidence file
may fill up, may not let itself be emptied for a retry and may fail its verification, the
pipe may not be there, and the runner may be dropped. A seek that fails once the file is
emptied, and a change of the evidence file by another program, are left out. `PostHoc` decodes
retained bytes in one go; it is what `finish` falls back to. `WholeStream` is the
reference: `read_frame` over the whole stream.

**BesStream.** `line`, `net` and `next` are a connection, its requests and Bazel's next
sequence number, `rpc` the server's task, `todo` what its loop still does for a request,
`pending`, `batch` and `ack` a batch and its answer, `channel` the bounded channel, and
`control` the runner's handle. A frame is its stream and sequence number.

**EvidenceReduction and the modules it uses.** A line of text is the set of marks the
parsers look for, an identity, a length and the place it names; parsers are the
automata the code has, over marks. An event is a record of all fields an event can
carry. `phase` follows `capture_evidence`: every step that touches a file may fail, the
removal of temporaries included; a reducer may fail, panic or answer with any patch of
`Patches`, and the reduction of the stream may panic (the code has fallbacks for both).
Texts are cut where the code cuts them, and no flag says so: the accumulator cuts an
aborted event's description, arguments (64 KiB) and set ids (4 KiB), which the batch
reducer keeps whole; messages and cases are cut to `MessageLimit` (1,000 bytes).
`StreamingAgreesWithBatch` is therefore about the events with those texts cut.
`SanitizeSummary` runs after the budget and replaces a secret by a longer text:
`ResultFitsBudget` bounds what that adds. The cases of a `test.xml` are any of `XmlCases`.
The location of an "Error in" line may be that of an inline message already reported
(`OwnPlace`), as in `bazel.rs:141-155`.

**Paging and Inspection.** An item is whether it matches the filter and its size. The
code's loops with their two early exits are sets of ordinals here. `client` sends a
request, keeps the items and sends the cursor back, or sends it with another view,
filter, workspace or invocation. Of the console only the end is read (2 MiB, 8 MiB when
the event stream was not complete, 1 MiB of one not yet retained); the limits count
lines here, so that none cuts through a line. A line printed more than once is
classified with " [repeated N times]" behind it, as in the code: one that reports a
failure by how it ends ("test x ... FAILED") does so only when it is printed once
(`IsActionable`). Meanwhile output grows, the invocation ends or goes, and the ledger
changes. Sorted lists and sums of sizes are stated by what they are (`InOrder`, counts
of smaller elements), not by the library's sorts and folds, so that they can be reasoned
about.

**Surface.** A scenario fixes the configuration, the file system, the host, how the
process is launched and what the client may send; TLC explores every scenario.
`req[r]` is a request in flight, `cells` the version probes, `cache` which probe a key
has, `fs` the file system, which Bazel changes when it creates its output base.
Arguments are `[flag, form, value]`, tokens of a command line say who contributed
them. The texts of a result are their lengths; only a run has a target, of at most
`TARGET_LIMIT` bytes, and lines of its program's output. `CommandTaken` is the command as
Bazel takes it: the first word that is not the value of a startup option.

*Assumptions about inputs.* Bazel normalizes `--output_base` lexically, as the server
does, before it follows links. An explicit `--output_base` that names Bazel's own
default base for the workspace is outside the model. Bytes of arguments count
values. `bazel.inspect` and `bazel.cancel` end at their dispatch in `Surface`.
`validate_arguments` does not ask that startup arguments are options (`flags.rs:42`), and
they stand before the command (`execution.rs:436`): with the startup arguments `run` and
`//:x`, Bazel takes `run` for its command, whatever command the policy allowed. That a
child takes the command that was allowed is therefore claimed only of startup arguments
that are options and their values (`StartupIsOptions`); which options take the next
argument is the constant `VALUED_STARTUP_OPTIONS`. An output base that a bazelrc file
chooses is not seen by the server: `docs/configuration.md:327-330` leaves two requests
that meet there to Bazel's own lock, and so does `OneLockPerOutputBase`.

## 4. Runs, bounds and fairness

| Run | Instance | Shows |
|---|---|---|
| `service_faults` | 1 invocation, 2 faults, cancel, waiter, shutdown, another process, fair | no orphan, nothing held, Ok, `wait` and publications are final, refinement of the lifecycle; a cancelled waiter never starts, waiters return, cancellation of a registered invocation stops Bazel although no deadline comes |
| `service_shutdown` | 2 invocations on one output base, another process, fair | output bases are serialized, accepted invocations end, `cancel_all_active` alone ends what is registered, the registry drains also of what is accepted later |
| `task_handle` | TTL 2, clock to 3, a cancel, a result call, 2 faults, a crash, fair | handles live one TTL, running tasks are kept, cancelled and broken tasks report so, cancellation is finalized, the extension's status is final |
| `store_crash` | 2 processes, 1 deferrable record, a crash, a fault | terminal is final, live is not interrupted, only reclaimable records go, an index that observed all markers is current |
| `store_orphans` | 2 processes, 1 maintainer, a crash, fair | orphans are interrupted |
| `telemetry_shared` | 2 processes, counter to 2, 2 mutations, a rebuild, a fault | a cleared flag means the manifest has the counter, a set one that a task will write it, shutdown keeps what was recorded; only a completion lowers a durable counter |
| `capture_streams` | all streams of up to 4 bytes and all of three frames, both transports, a rewrite, an evidence file of 3 or 9 bytes that may not let itself be emptied | decoder, evidence, reduction and result agree; the pipe is unlinked |
| `bes_capture` | 2 streams of 3 requests, batches of 2, one in flight, 1 fault, fair | acknowledged means durable and reduced, one ordered stream, refinement of the durable log; answers come and `finish` returns |
| `reduction_result` | 8 kinds of command, streams of up to 3 events and logs of up to 4 lines chosen per command, 7 items and 14 bytes kept, texts over their limits | streaming agrees with batch up to the cut texts, nothing but cut text missing without a flag, the budget holds up to what redaction adds, no secret gets out, a custom headline stays |
| `inspection_pages` | every view, up to 3 records or 5 bytes of output, pages of 2, scans of 3, budgets of 2 and 4, ends of 1, 2 and 3 lines | nothing skipped or repeated, true counts, cursors keep to their walk and invocation, a log begins with a failure that was read |
| `surface_requests` | 64 scenarios, 2 requests in flight, up to 2 sessions | dispatch, admission, locks, version cache and packed results |
| `surface_pack` | the same, among them a run with a target of 500 bytes answered in both encodings, packing fair | expected to fail, see section 6 |

Deadlock is checked with an explicit idle step for the states in which the system may
rest, except in `reduction_result` and the two runs of `Surface`: there a behaviour is
the life of one result, or a client's finite script, and ends.

`UnscheduledIsDurable`, `ScheduledHasTask` and `ShutdownKeepsTelemetry` are stated for
behaviours without a rebuild, a store error or a completion by another process
(`Undisturbed`); `EvidenceCoversReduction` and `ResultIsRetainedEvidence` for streams
without a straggler; `PagesAreTrue` not of the coverage view nor of a log that is being
written. Each of these breaks them, as section 6 says.

**Why the bounds are enough.** Interference in this code is between two actors on
one key: a worker and its canceller, two workers of one output base, a server and
another process, a scan and a commit, two event streams, a reader and a writer.
Each run has both actors and every fault that may come between their steps. Two
faults let a fallback fail as well. The clock passes the TTL, so a handle can expire,
and be extended before it does. One record suffices in `Store` because locks, leases
and manifests are per record and the only shared parts (markers, maintenance lock,
index replacement) are modelled as such. The code's limits (250,000 items, 64 MiB, ten
bytes of prefix, pages of 100) are constants; each run sets them so that they are
reached, passed by one and not reached. `ProcSymmetry` is used in `store_crash` only,
where processes have the same roles and no liveness is checked. That
no more run than there are permits is proved for every number of invocations
(`ConcurrencyIsLimited`).

**Fairness.**

- Steps of workers, supervisors, finalizers and handlers: weak fairness, because
  tokio polls every task that is woken. Acquisition of the mutex and of a
  permit: strong fairness, because tokio's queues are first-in first-out.
- The child: the grace periods of `terminate_child` between interrupt, terminate and kill
  end, and SIGKILL ends a process; nothing is assumed of Bazel otherwise. That
  `wait_for_exit` comes to its finite deadline (`DeadlinesFire`) is not part of the
  specification's fairness but a hypothesis of the properties that need it:
  `AcceptedTerminates`, `WaitersReturn` and the second half of `ShutdownDrains`.
  `CancellationStopsBazel` and the first half of `ShutdownDrains` do without it, so that
  no timeout can stand in for a cancellation that was lost.
- Another process that holds the output-base lock releases it eventually: it
  runs the same code.
- `Store`: the retention timer makes `GcBegin` strongly fair in a process that
  stays up. No restart is assumed: `OrphansAreInterrupted` is about runs in which
  a maintainer remains.
- `BesStream`: the tasks of the two streams and the reader thread. Once the runner
  finishes the capture Bazel has exited, so its connections close; before that
  nothing makes Bazel send or close.
- `Surface`: the packing loop alone, in `surface_pack`.
- Nothing makes a client submit, cancel or read, the clock pass, a fault or a
  crash happen.

## 5. Proofs

Every theorem is for all values of the constants. Each proof module has one inductive
invariant (`TelemetryIndexProofs` and `SurfaceProofs` two), a lemma per action or per conjunct that a step
preserves it, and the properties of the runs as its consequences. TLC checked every
invariant on the instance of its run before it was proved.

**`InvocationServiceProofs`**, from `ServiceAssumption` only (the sets and numbers have
their types; the key map is a function; at least one permit):

- `ServiceInvariance`: `Spec => []ServiceInv`;
- `ServiceTypeCorrect`, `OutputBaseIsSerialized`, `ConcurrencyIsLimited`,
  `ChildrenAreSupervised`, `OkResultsAreTerminal`, `PublicationIsDurable` and their
  combination `OutcomesAreReliable`: the safety properties of the runs, from it;
- `FinishedWorkersHoldNothing`, `WaitIsFinal`, `CancelledWaiterStaysQueued`: what is held
  at the end, and the two action properties;
- `ServiceImplementsLifecycle`: the runner refines `InvocationLifecycle`.

None of the properties is inductive by itself. `ServiceInv` adds what a worker
holds at each program point: the lock from acquisition to release
(`OwnsOutputBase`), a permit throughout execution (`HoldsPermit`), so that a live
process, which has a worker waiting for it (`SupervisedChild`), has both; and that what
it holds it took at a point it has passed (`HoldsWhatItTook`), so that nothing is left
when it is gone. A result exists only on the way out (`ResultWhenReturning`), which gives
the absence of orphans. `StoredBeforePublished` says that what is stored and not yet
published is final if it is terminal: the edge from one terminal state to another does not
exist, hence publication is durable. `AbsentBeforeCreate`, `ChildMatchesWorker` and
`StartingOrCancelled` are what the refinement needs: an abstract `Spawn` requires a
Starting record or one that `bazel.cancel` has ended, an abstract success an
exited process.

**`StoreProofs`**: `StoreInvariance`, `StoreTypeCorrect`, `LiveIsNeverInterrupted`,
`IndexesFollowDisk`, `TerminalRecordsAreFinal` and `DeletionIsSafe`, for every number of
processes, records, crashes and faults. `StoreInv` has three groups of conjuncts. Locks:
the mutation lock is held exactly by the operations past their lock step
(`MutationIsHeld`, `CommitIsHeld`), so a manifest does not change between a commit and
its index update. Ownership: a live server holds the leases of its invocations
(`LiveIsLeased`), a creation owns its lease and its directory (`CreationIsOwned`,
`CreationKeepsItsDirectory`), and nothing is known of what nobody created
(`UnusedIsClear`). Announcements: as long as nothing crashed or failed, whatever an index
or a scan in progress has wrong about the disk still has a marker ahead of it
(`PublishedIsScanned`, `ScansAreAnnounced`, `IndexIsAnnounced`), so an index that has seen
every marker is current.

**`TelemetryIndexProofs`**: `TelemetryTypeCorrect` and `FlushesAreMonotonic` (the property
`OnlyCompletionLowers`). A mutation writes what it merged a step earlier, so the invariant
says that this value is not behind the manifest (`MergedIsCurrent`), which holds because
nobody else writes while the lock is held (`LockedWhileMutating`). Type correctness needs
`GenerationBounded`: every record adds at least one to the counter it renumbers.
`FlagTellsTheTruth` and `ShutdownLosesNothing` need a second invariant, `FlagInv`: the
generation an operation copied belongs to the counters it carries, so that clearing the
flag for that generation clears it for nothing else. They assume at most one process
that completes the invocation: the server that runs it.

**`DeferredTaskProofs`**: `HandlesAreHonest`, `CancelledStaysCancelled` and
`ExtensionStateIsFinal`, from `TaskInvariance`. The TTL promise needs `TimesAreOrdered`
(an expiry never lies more than a TTL after the last update, so the TTL recomputed from
the two is one the handler asked for) and `PromiseIsKept`, from the extension to the
acknowledgement. That a broken task reports an error needs that its failure is stored
before its record ends (`FailureComesFirst`) and that results are read after the end
(`ResultsFollowTheEnd`).

**`BesStreamProofs`**: `AcknowledgementsHold`, `SuccessIsWhole` and `CaptureImplementsLog`,
the refinement of `DurableLog`, from `BesInvariance`, for every non-empty set of streams,
every batch size and channel capacity. One stream at most was ever captured
(`OneCapture`) and it has at most one item between itself and the evidence (`OneItem`),
because `ingest_stream` waits for the answer to an item before it collects again. So the
evidence, that item and the collected frames are in sequence (`FramesAreOrdered`) and
their lengths add up to what was accepted (`NothingIsLost`).

**`SurfaceProofs`**: `VersionCacheIsSound`, `RunsAreDispatchedByContract`,
`ResultsArePackedHonestly` and `OutputBasesAreLocked`, from `SurfaceInvariance` and
`SurfaceAssumption` (what a client sends are lists of arguments, execution policies are the
enumeration's, times, exit codes and signals are not negative, a directory's own path has
no links or dots in it, links lead to such paths, "none" is no executable), for every set
of scenarios and of slots. A failed probe may stay cached as long as a caller is to report
it, which is inductive only with the same for a probe under way (`ProbesHaveCallers`).
`RequestOk` says of one request that its dispatch is still the contract's, that its result
was fetched in its own dialect, and that its draft is honest at every turn of the packing
loop. `ExitIsEarned` ties an agent's exit code to the request it delivered. The first
attempt at `DispatchIsContract` failed for a good reason: two arms of a `CASE` held at
once, of which TLA+ leaves open which is taken. The arms of every `CASE` in the
project now exclude each other.

`OutputBasesAreLocked` says that no two children run in one output base, under the
hypothesis `DefaultsAreNotNamed`: no caller names the base Bazel itself chooses for the
workspace of another running child. The code's key is the workspace when no
`--output_base` is given, so it does not see that case. The argument: `Resolve` goes along
a path one component after the other (`ResolveSteps`), which gives an induction over
prefixes; what `normalize_absolute` returns has no dots, so the components behind the last
one that exists are kept as they are (`TailIsKept`) and `canonicalize_with_missing_tail`
returns where the normalized path leads (`CanonicalIsReal`). The option is given once, so
the first, which the server reads, is the last, which Bazel obeys (`BaseIsReal`). Creating
an output base adds directories and no links, hence a key computed before stays right
(`KeyOk`), and `Spawn` waits for its key (`KeysDiffer`). Working it out corrected the model
in three places: a resolved path used to ignore ".." behind a link, `canonicalize` used to
look at the last component only, and an output base of "/" could not be told from none.

**`ChildProofs`**: `ChildrenRunWhatWasAdmitted`, over `SurfaceProofs` and with no further
assumption. A child is put together from what `Prepare`, `Accept` and `Spawn` found at
different times, so `ChildOk` says of every phase what was found so far: the call passed
every check in an allowed root (`Admitted`), the driver is the one its command is routed to
(`Driven`), the child has that driver's command line, environment and time (`ChildOf`).
`ConfigSound` says that a configuration that was accepted is one to run with: there is a
time to give, `run` is not routed to Aspect, the roots are real paths. The rest is about
command lines. A line of Bazel's is five parts, one behind the other (`FiveParts`), and of
an Aspect line it is known of every token who contributed it (`AspectTokens`). Validation
kept the flags the server sets out of the caller's part, hence the server's win whatever
the order; it kept words and delimiters out of a run's own arguments, hence the
first word is the target and the first delimiter the boundary (`RunHasBoundary`). Before
the command there are then only the caller's startup arguments and the server's options,
so if the caller's are options and their values, the first other word is the command that
was allowed (`TakesItsCommand`). What an
agent was launched with is counted: a concatenation has an argument as often as its parts
together (`OccurrencesAdd`), so each cut `parse_bazel_arguments` makes loses only what it cuts
at, a delimiter (`ParsingKeeps`), and no later step changes an agent's call.

**`InspectionProofs`**: `NoItemIsSkipped`, `PagesSpeakTrue` and `WalksAreSound`, all
three properties of the run, from `EvidenceAssumption`, for every evidence, filter, page limit, scan cap and byte
budget. They rest on lemmas about the operators: a list `InOrder` has the elements of its
set once and ascending; a page of ordinals holds the matches between its cursor and the
next one. The properties are about what a client has kept, so `WalkInvariant` says what
ties that to the evidence: the cursor is one of this walk (`Named`), it stands
on a row or record that is there (`CursorCounts`), the items kept are the matches up to
it (`EvidenceIsRead`), which stays true when output grows because growth appends, and of
the ledger every entry that was there all along and lies behind the cursor (`LedgerIsRead`).
`FailuresComeFirst` is about the part of the console that is read and about lines that
report a failure as they are classified. It needs in addition that a walk through a log that
did not change starts with its first record (`LogStarts`), and that the record of such a
line is kept and stands before every other (`LineIsKept`). No cursor is accepted for
another invocation (`OthersAreKnown`). `EveryPageAdvances` needs that a log's cursor stays an index
even when the log was sorted anew under it (`LogCursorStands`), and that the page read with
the largest budget is one of the pages read with a smaller one, cut later: if its first item
fits, the smaller page has it too, and its cursor is ahead of the one that was sent.

**Only model-checked.** Liveness under fairness is out of the prover's reach. So is what a
definition by recursion or a fold computes: the decoders of `BepFraming` and
`CapturePipeline`, the reductions of `BuildReduction` and `EvidenceReduction` (whose
`RECURSIVE` operators also keep the prover's SMT backend out of every module above them).
Of the safety properties of `Surface`, `Store`, `Inspection`, `InvocationService`,
`DeferredTask`, `TelemetryIndex` and `BesStream` none is left to TLC alone.

## 6. What the runs found

**A loop that does not end.** `surface_pack`: `shrink_utf8` (`result.rs:279`) cuts a text
that is longer than its minimum to at least that minimum and adds a three-byte
ellipsis, so a headline of 96 bytes becomes 99, is longer than 96 again and is "shrunk"
to 99 for ever. When what is never taken away (a run's target, for one) keeps the
encoding above the limit, `build` does not reach the error it has for this case. The
counterexample is a successful run with a target of 500 bytes under the encoding "both",
which writes the result twice. The
inspection page's `shrink_inspect` cuts its headline, at least 64 bytes, in the same way.

**A cancellation nobody hears.** `CancelledRunHasItsToken`, with
`MCInvocationService_race.cfg`: `bazel.cancel` looks for the token once
(`service.rs:1057`). A call that reads Queued between the creation of the record
(`service.rs:726`) and its registration (`service.rs:731`) finds none. If the worker
starts Bazel before the call records Cancelled (Running to Cancelled is an edge), the
call answers `cancellation_requested`, and Bazel runs on to its own end or its deadline.
`specs/001-product-requirements.md:549` says that "`cancelled` means cancellation was
requested and the process stopped". A call that finds the token does stop Bazel
(`CancellationStopsBazel`), although the record says so a moment before.

**Sentences that do not hold.** Each of these is a property of its module, with a
configuration beside the runs where one is named; TLC finds the counterexample.

| Property | What happens | What is said |
|---|---|---|
| `AcceptedFailureIsTerminal` (`MCInvocationService_stuck.cfg`) | a worker that fails before Starting leaves its record Queued, because Queued to Failed is not an edge (`service.rs:928`); only recovery after the process ends, or a cancel, ends it | `specs/003`, lines 506 and 689 |
| `TerminalResultLivesOneTTL` (`MCDeferredTask_ttl.cfg`) | the TTL is recomputed from the last update (`types/src/deferred.rs:88`): after a touch the terminal result is kept for less | the comment at `deferred.rs:91`, `specs/003`, line 198, `docs/configuration.md:248` |
| `DeletedLeavesTheIndex` (`MCStore_ghost.cfg`) | a refresh that scanned before a deletion puts the deleted record back (`retention.rs:222`) | `docs/storage-performance.md`, lines 113 and 116 |
| `RefreshKeepsTelemetry` (`MCTelemetryIndex_refresh.cfg`) | a counter recorded between the merge and the installation of a rebuilt index is lost (`index_coordinator.rs:30`) | the comment at `index_coordinator.rs:26` |
| `SuppressionSparesCustom` | an override that suppresses also takes away diagnostics an earlier custom reducer added (`extension.rs:270`) | `docs/custom-reducers.md:111`: "only to built-in diagnostics" |
| `CoverageIsWhole` | an empty coverage page is answered from the first page of the artifacts, whose cursor the coverage view refuses and the artifacts view accepts (`inspection.rs:265`) | the comment at `types/src/pagination.rs:43`: pages are packed "without creating cursor gaps or duplicates" |
| `EvidenceIsAuthoritative` | an event of an abandoned attempt that follows its eviction is in the reduction and not in the evidence | the comments of `capture.rs` on durable evidence |

Other behaviours met while modelling that have no property of their own:

- the worker's publication can arrive after that of `bazel.cancel`, so that the
  watch goes from Cancelled back to Starting or Running (the stored record does
  not, and `PublishedTerminalIsDurable` holds of every terminal publication);
- `tasks/cancel` accepts a legacy task that `tasks/get` already reports as failed, and
  until the override is written a legacy task that ended otherwise is completed first
  and cancelled later;
- a flush that ends between the merge and the installation of a rebuilt index
  leaves the scheduled flag set without a task, and later counters are not flushed;
- a completion overwrites telemetry that another process had written;
- what the Bazel server writes to the pipe after its client's exit and the last empty
  read is not in the evidence (`FifoKeepsEveryByte`);
- an item larger than the byte budget gives an empty page with the request's own cursor;
- a log that is being written is sorted anew on every request, so that pages of it
  may overlap; log cursors carry the filter's text;
- redaction runs on text that was cut before, and after the budget was applied, which it
  may exceed by what it adds;
- a message cut to 1,000 bytes, and the texts only the streaming reducer cuts, carry no
  mark of it;
- words among the startup arguments take the place of the command (section 3);
- a "test x ... FAILED" line printed twice is no longer taken for a failure;
- the hint to read the log is always replaced by the one to read the diagnostics
  (`build.rs:741`); of two summaries of one label the first is kept; a run's headline
  is replaced by its first diagnostic;
- `server/discover` names the task extension under every protocol version; in the
  legacy dialect `bazel.inspect` and `bazel.cancel` with task parameters do not exist.

## 7. What is left out

- Later, see section 2: the native wait observer, which changes only what is displayed
  (it reports waiting as long as the first owner of Bazel's own lock lives); byte
  accounting of the index.
- Not modelled: the embedded Starlark interpreter, JUnit and LCOV parsing, formatting
  of query output, gRPC decoding, TOML and command-line parsing, metrics, progress
  texts, redaction patterns: conversions of one input without shared state, whose
  outcomes are chosen freely where they matter. Benchmarks and reducer cases are
  development tools.
- Failures left out of an action, none of which a property depends on: the agent's scratch
  directory, its store, its service and standard output (`Surface.StartAgent`); a seek
  after the evidence was emptied, and a change of the evidence file by others
  (`CapturePipeline`). `Surface` answers every `tasks/cancel` of a known task with ok; that
  a legacy task that has ended refuses it is in `DeferredTask` (`CancelChecks`).
- External: Bazel, the file system, tokio and the MCP library, modelled by how
  the code uses them. File locks are released by the kernel when a process
  ends, and a rename is atomic.
