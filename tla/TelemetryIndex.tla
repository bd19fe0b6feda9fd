--------------------------- MODULE TelemetryIndex ---------------------------
(***************************************************************************)
(* The telemetry counters of one retained invocation: added up in the      *)
(* index of every server process, written to the shared manifest by a      *)
(* coalesced flush or by the next durable mutation, and merged when an     *)
(* index is rebuilt from disk (telemetry.rs, index.rs,                     *)
(* index_coordinator.rs and the commits of storage.rs).                    *)
(*                                                                         *)
(* The three counters grow and merge alike, so one stands for them.        *)
(* An operation that holds the process's mutation mutex is a record in     *)
(* mutex[p]; the file lock it takes is lock.  The index lock protects one  *)
(* access at a time, so every access is a step.                            *)
(***************************************************************************)
EXTENDS Integers, FiniteSets

CONSTANTS
    Procs,          \* server processes that share the cache root
    Finisher,       \* the process that runs the invocation, which completes it
    MaxCount,       \* bound: value of a counter
    MaxTasks,       \* bound: flush tasks of a process
    MaxMutations,   \* bound: durable mutations
    MaxRefreshes,   \* bound: index rebuilds
    MaxFaults       \* bound: I/O errors of flushes

ASSUME TelemetryAssumption ==
    /\ Finisher \subseteq Procs /\ "free" \notin Procs
    /\ \A p, q \in Finisher : p = q    \* only the server that runs it completes it
    /\ {MaxCount, MaxTasks, MaxMutations, MaxRefreshes, MaxFaults} \subseteq Nat

VARIABLES
    durable,    \* the counter in manifest.json
    finished,   \* the terminal commit was made
    lock,       \* process that holds the invocation's mutation file lock
    entry,      \* entry[p]: counter, generation and scheduled flag in p's index
    mutex,      \* mutex[p]: the operation that holds p's mutation mutex
    tasks,      \* tasks[p]: live flush tasks
    refresh,    \* refresh[p]: the rebuilt entry and how far the rebuild is
    phase,      \* phase[p]: serving, or what the shutdown flush does
    pending,    \* pending[p]: the counter when the shutdown flush looked at it
    mutations, refreshes, faults

vars == <<durable, finished, lock, entry, mutex, tasks, refresh, phase, pending,
          mutations, refreshes, faults>>
shutdown == <<phase, pending>>
bounds == <<mutations, refreshes, faults>>

Free == "free"
NewEntry(count) == [count |-> count, generation |-> 0, scheduled |-> FALSE]
NoOperation == [kind |-> "none", step |-> "none", count |-> 0, generation |-> 0]
NoRefresh == [step |-> "none", entry |-> NewEntry(0)]
Larger(a, b) == IF a > b THEN a ELSE b

Entries == [count : 0..MaxCount, generation : 0..MaxCount, scheduled : BOOLEAN]
Operations == [kind : {"none", "task", "shutdown", "mutate", "finish"},
               step : {"none", "file_lock", "persist", "settle"},
               count : 0..MaxCount, generation : 0..MaxCount]
Rebuilds == [step : {"none", "scanned", "merged"}, entry : Entries]

TypeOK ==
    /\ durable \in 0..MaxCount /\ finished \in BOOLEAN /\ lock \in Procs \cup {Free}
    /\ entry \in [Procs -> Entries]
    /\ mutex \in [Procs -> Operations]
    /\ tasks \in [Procs -> 0..MaxTasks]
    /\ refresh \in [Procs -> Rebuilds]
    /\ phase \in [Procs -> {"serving", "flushing", "closed"}]
    /\ pending \in [Procs -> 0..MaxCount]
    /\ mutations \in 0..MaxMutations /\ refreshes \in 0..MaxRefreshes
    /\ faults \in 0..MaxFaults

Init ==
    /\ durable = 0 /\ finished = FALSE /\ lock = Free
    /\ entry = [p \in Procs |-> NewEntry(0)]
    /\ mutex = [p \in Procs |-> NoOperation]
    /\ tasks = [p \in Procs |-> 0]
    /\ refresh = [p \in Procs |-> NoRefresh]
    /\ phase = [p \in Procs |-> "serving"]
    /\ pending = [p \in Procs |-> 0]
    /\ mutations = 0 /\ refreshes = 0 /\ faults = 0

-----------------------------------------------------------------------------
(* Recording                                                                *)

\* mark_dirty: a new generation; a flush task is spawned unless one is scheduled.
MarkDirty(e, n) ==
    [count |-> e.count + n, generation |-> e.generation + 1, scheduled |-> TRUE]

\* record_model_visible_result and record_progress_notifications.
Record(p) ==
    /\ phase[p] # "closed"
    /\ \E n \in 1..(MaxCount - entry[p].count) :
          entry' = [entry EXCEPT ![p] = MarkDirty(@, n)]
    /\ IF entry[p].scheduled
         THEN UNCHANGED tasks
         ELSE /\ tasks[p] < MaxTasks
              /\ tasks' = [tasks EXCEPT ![p] = @ + 1]
    /\ UNCHANGED <<durable, finished, lock, mutex, refresh, shutdown, bounds>>

-----------------------------------------------------------------------------
(* flush_telemetry_once, by a flush task or by the shutdown flush           *)

FlushKinds == {"task", "shutdown"}

ReleaseLocks(p) ==
    /\ mutex' = [mutex EXCEPT ![p] = NoOperation]
    /\ lock' = IF lock = p THEN Free ELSE lock

\* A flush task that finds the entry unscheduled has nothing to do and returns.
FlushNothing(p) ==
    /\ phase[p] # "closed" /\ tasks[p] > 0
    /\ mutex[p] = NoOperation /\ ~entry[p].scheduled
    /\ tasks' = [tasks EXCEPT ![p] = @ - 1]
    /\ UNCHANGED <<durable, finished, lock, entry, mutex, refresh, shutdown, bounds>>

\* The counters and their generation are copied before the file lock is taken.
FlushSnapshot(p, kind) ==
    /\ mutex[p] = NoOperation /\ entry[p].scheduled
    /\ IF kind = "task" THEN phase[p] # "closed" /\ tasks[p] > 0 ELSE phase[p] = "flushing"
    /\ mutex' = [mutex EXCEPT ![p] =
          [kind |-> kind, step |-> "file_lock", count |-> entry[p].count,
           generation |-> entry[p].generation]]
    /\ UNCHANGED <<durable, finished, lock, entry, tasks, refresh, shutdown, bounds>>

\* Seeded fault: the manifest is replaced without the merge.
FlushPersistOverwrites(p) ==
    /\ mutex[p].kind \in FlushKinds /\ mutex[p].step = "file_lock"
    /\ lock = Free /\ lock' = p
    /\ durable' = mutex[p].count
    /\ mutex' = [mutex EXCEPT ![p].step = "settle"]
    /\ UNCHANGED <<finished, entry, tasks, refresh, shutdown, bounds>>

\* With the file lock held the manifest is read again and merged, then replaced.
FlushPersist(p) ==
    /\ mutex[p].kind \in FlushKinds /\ mutex[p].step = "file_lock"
    /\ lock = Free /\ lock' = p
    /\ durable' = Larger(durable, mutex[p].count)
    /\ mutex' = [mutex EXCEPT ![p].step = "settle"]
    /\ UNCHANGED <<finished, entry, tasks, refresh, shutdown, bounds>>

\* Seeded fault: whatever was recorded since counts as written.
MarkFlushedAlways(e, generation) == [e EXCEPT !.scheduled = FALSE]

\* mark_telemetry_flushed: only the generation that was written becomes clean.
MarkFlushed(e, generation) ==
    [e EXCEPT !.scheduled = @ /\ e.generation # generation]

\* Seeded fault: the task writes once and leaves newer records to nobody.
FlushSettleOnce(p) ==
    /\ mutex[p].kind = "task" /\ mutex[p].step = "settle"
    /\ entry' = [entry EXCEPT ![p] = MarkFlushed(@, mutex[p].generation)]
    /\ tasks' = [tasks EXCEPT ![p] = @ - 1]
    /\ ReleaseLocks(p)
    /\ UNCHANGED <<durable, finished, refresh, shutdown, bounds>>

\* A clean flush ends its task; otherwise the task tries again.
FlushSettle(p) ==
    /\ mutex[p].kind = "task" /\ mutex[p].step = "settle"
    /\ entry' = [entry EXCEPT ![p] = MarkFlushed(@, mutex[p].generation)]
    /\ tasks' = [tasks EXCEPT ![p] =
          IF entry[p].generation = mutex[p].generation THEN @ - 1 ELSE @]
    /\ ReleaseLocks(p)
    /\ UNCHANGED <<durable, finished, refresh, shutdown, bounds>>

\* An I/O error before or after the manifest was replaced: the task clears the flag
\* and gives up, so that the next record schedules another.
FlushFails(p) ==
    /\ faults < MaxFaults /\ faults' = faults + 1
    /\ mutex[p].kind = "task"
    /\ entry' = [entry EXCEPT ![p].scheduled = FALSE]
    /\ tasks' = [tasks EXCEPT ![p] = @ - 1]
    /\ ReleaseLocks(p)
    /\ UNCHANGED <<durable, finished, refresh, shutdown, mutations, refreshes>>

\* The process ends: its tasks and its locks go with it.
Exit(p) ==
    /\ phase' = [phase EXCEPT ![p] = "closed"]
    /\ tasks' = [tasks EXCEPT ![p] = 0]
    /\ refresh' = [refresh EXCEPT ![p] = NoRefresh]
    /\ ReleaseLocks(p)

\* Seeded fault: the process leaves while a flush task is still asleep.
ShutdownAtOnce(p) ==
    /\ phase[p] = "serving"
    /\ pending' = [pending EXCEPT ![p] = entry[p].count]
    /\ Exit(p)
    /\ UNCHANGED <<durable, finished, entry, bounds>>

\* run_server: after the transport ended, flush_pending_telemetry looks for
\* scheduled entries once; handlers that are still running may record more.
ShutdownFlush(p) ==
    /\ phase[p] = "serving"
    /\ pending' = [pending EXCEPT ![p] = entry[p].count]
    /\ IF entry[p].scheduled
         THEN /\ phase' = [phase EXCEPT ![p] = "flushing"]
              /\ UNCHANGED <<lock, mutex, tasks, refresh>>
         ELSE Exit(p)
    /\ UNCHANGED <<durable, finished, entry, bounds>>

\* A flush task or a mutation cleaned the entry before the shutdown flush got to it.
ShutdownNothing(p) ==
    /\ phase[p] = "flushing" /\ mutex[p] = NoOperation /\ ~entry[p].scheduled
    /\ Exit(p)
    /\ UNCHANGED <<durable, finished, entry, pending, bounds>>

\* The shutdown flush repeats until what it wrote is the last generation.
ShutdownSettle(p) ==
    /\ mutex[p].kind = "shutdown" /\ mutex[p].step = "settle"
    /\ entry' = [entry EXCEPT ![p] = MarkFlushed(@, mutex[p].generation)]
    /\ IF entry[p].generation = mutex[p].generation
         THEN Exit(p)
         ELSE ReleaseLocks(p) /\ UNCHANGED <<phase, tasks, refresh>>
    /\ UNCHANGED <<durable, finished, pending, bounds>>

\* An I/O error of the shutdown flush is only logged.
ShutdownFails(p) ==
    /\ faults < MaxFaults /\ faults' = faults + 1
    /\ mutex[p].kind = "shutdown"
    /\ Exit(p)
    /\ UNCHANGED <<durable, finished, entry, pending, mutations, refreshes>>

-----------------------------------------------------------------------------
(* Durable mutations: mutate, transition and finish_invocation              *)

\* Seeded fault: counters the manifest already holds are added again.
MergedTwice(p, kind) == durable + entry[p].count

\* merge_index_telemetry: mutate and transition add the index's counters to those
\* of the manifest they read; a completion starts from the metrics of the run,
\* whose telemetry is zero.
Merged(p, kind) ==
    IF kind = "finish" THEN entry[p].count ELSE Larger(durable, entry[p].count)

\* Both locks are held when the manifest is read and the index merged.
MutateBegin(p, kind) ==
    /\ phase[p] # "closed" /\ mutex[p] = NoOperation /\ lock = Free
    /\ mutations < MaxMutations /\ mutations' = mutations + 1
    /\ IF kind = "finish" THEN p \in Finisher /\ ~finished ELSE kind = "mutate"
    /\ lock' = p
    /\ mutex' = [mutex EXCEPT ![p] =
          [kind |-> kind, step |-> "persist", count |-> Merged(p, kind),
           generation |-> entry[p].generation]]
    /\ UNCHANGED <<durable, finished, entry, tasks, refresh, shutdown, refreshes, faults>>

MutatePersist(p) ==
    /\ mutex[p].kind \in {"mutate", "finish"} /\ mutex[p].step = "persist"
    /\ durable' = mutex[p].count
    /\ finished' = (finished \/ mutex[p].kind = "finish")
    /\ mutex' = [mutex EXCEPT ![p].step = "settle"]
    /\ UNCHANGED <<lock, entry, tasks, refresh, shutdown, bounds>>

\* replace keeps the larger counters, the generation and the flag of the entry it
\* replaces; then the generation that was merged is marked as flushed.
MutateSettle(p) ==
    /\ mutex[p].kind \in {"mutate", "finish"} /\ mutex[p].step = "settle"
    /\ LET replaced == [entry[p] EXCEPT !.count = Larger(@, mutex[p].count)]
       IN  entry' = [entry EXCEPT ![p] = MarkFlushed(replaced, mutex[p].generation)]
    /\ ReleaseLocks(p)
    /\ UNCHANGED <<durable, finished, tasks, refresh, shutdown, bounds>>

\* A mutation that fails before or after the manifest was replaced leaves the index
\* as it is.
MutateFails(p) ==
    /\ faults < MaxFaults /\ faults' = faults + 1
    /\ mutex[p].kind \in {"mutate", "finish"}
    /\ ReleaseLocks(p)
    /\ UNCHANGED <<durable, finished, entry, tasks, refresh, shutdown, mutations, refreshes>>

-----------------------------------------------------------------------------
(* refresh_index: the scan, the merge under the read lock, the installation *)
(* under the write lock                                                     *)

RefreshScan(p) ==
    /\ phase[p] # "closed" /\ refresh[p] = NoRefresh
    /\ refreshes < MaxRefreshes /\ refreshes' = refreshes + 1
    /\ refresh' = [refresh EXCEPT ![p] = [step |-> "scanned", entry |-> NewEntry(durable)]]
    /\ UNCHANGED <<durable, finished, lock, entry, mutex, tasks, shutdown, mutations, faults>>

\* merge_pending_telemetry.
RefreshMerge(p) ==
    /\ refresh[p].step = "scanned"
    /\ refresh' = [refresh EXCEPT ![p] =
          [step |-> "merged",
           entry |-> [entry[p] EXCEPT !.count = Larger(@, refresh[p].entry.count)]]]
    /\ UNCHANGED <<durable, finished, lock, entry, mutex, tasks, shutdown, bounds>>

RefreshInstall(p) ==
    /\ refresh[p].step = "merged"
    /\ entry' = [entry EXCEPT ![p] = refresh[p].entry]
    /\ refresh' = [refresh EXCEPT ![p] = NoRefresh]
    /\ UNCHANGED <<durable, finished, lock, mutex, tasks, shutdown, bounds>>

-----------------------------------------------------------------------------
FlushStep(p) ==
    \/ FlushNothing(p) \/ FlushSnapshot(p, "task")
    \/ FlushPersist(p) \/ FlushSettle(p) \/ FlushFails(p)

MutationStep(p) == MutatePersist(p) \/ MutateSettle(p) \/ MutateFails(p)

ShutdownStep(p) ==
    \/ FlushSnapshot(p, "shutdown") \/ ShutdownNothing(p)
    \/ ShutdownSettle(p) \/ ShutdownFails(p)

RefreshStep(p) == RefreshMerge(p) \/ RefreshInstall(p)

\* The system rests when every process has shut down.
AllClosed ==
    /\ \A p \in Procs : phase[p] = "closed"
    /\ UNCHANGED vars

Next ==
    \/ \E p \in Procs :
          \/ Record(p) \/ FlushStep(p) \/ MutationStep(p)
          \/ MutateBegin(p, "mutate") \/ MutateBegin(p, "finish")
          \/ ShutdownFlush(p) \/ ShutdownStep(p)
          \/ RefreshScan(p) \/ RefreshStep(p)
    \/ AllClosed

Spec == Init /\ [][Next]_vars

-----------------------------------------------------------------------------
(* Properties                                                               *)

\* Nothing but records, flushes and mutations happened: no I/O error, no index rebuild
\* (RefreshKeepsTelemetry says what a rebuild does), no completion by another process.
Undisturbed(p) == faults = 0 /\ refreshes = 0 /\ (finished => p \in Finisher)

\* An entry that no flush is scheduled for has reached the manifest: the flag is
\* cleared by flushes and mutations that raced newer records only if the generation
\* they wrote is the last (mark_telemetry_flushed).
UnscheduledIsDurable ==
    \A p \in Procs : Undisturbed(p) /\ phase[p] # "closed" /\ ~entry[p].scheduled
        => entry[p].count <= durable

\* mark_dirty spawns a flush task only when none is scheduled: while the flag is up a
\* task must be there that will not return before the last generation is written.
ScheduledHasTask ==
    \A p \in Procs : Undisturbed(p) /\ phase[p] # "closed" /\ entry[p].scheduled
        => tasks[p] > 0

\* The scheduled flag tells the truth about counters that are not in the manifest:
\* without it they are there, with it a flush task will write them (mark_dirty,
\* mark_telemetry_flushed).
ScheduledFlagIsTrue ==
    /\ TypeOK
    /\ UnscheduledIsDurable
    /\ ScheduledHasTask

\* A graceful shutdown keeps what was recorded when it began, although flush tasks
\* are asleep or in the middle of a write (flush_pending_telemetry).
ShutdownKeepsTelemetry ==
    [][\A p \in Procs : Undisturbed(p)' /\ phase[p] # "closed" /\ phase'[p] = "closed"
          => durable' >= pending'[p]]_vars

\* Flushes and mutations of several processes never lower the durable counter; only
\* the terminal completion, which does not read it, may.
OnlyCompletionLowers ==
    [][durable' < durable => ~finished /\ finished']_vars

\* index_coordinator.rs 26: "Replace disk-derived state without losing telemetry that
\* has not yet reached a manifest."
RefreshKeepsTelemetry ==
    [][\A p \in Procs : entry'[p].count >= entry[p].count]_vars
=============================================================================
