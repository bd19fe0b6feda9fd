------------------------ MODULE TelemetryIndexProofs ------------------------
(***************************************************************************)
(* Proofs about TelemetryIndex, for every number of processes and every    *)
(* bound: type correctness, that flushes and mutations never lower the     *)
(* durable counter, that the scheduled flag tells the truth, and that a    *)
(* graceful shutdown keeps what was recorded when it began.                *)
(*                                                                         *)
(* None is inductive: a mutation writes what it computed in an earlier     *)
(* step.  MergedIsCurrent says that this value is still not behind the     *)
(* manifest, which needs that nobody wrote in between, that is             *)
(* LockedWhileMutating.  FlagOf ties the generation an operation copied to *)
(* the counters it carries, so that clearing the flag for that generation  *)
(* clears it for nothing else.                                             *)
(***************************************************************************)
EXTENDS TelemetryIndex, TLAPS

\* An operation's kind and step agree, and a flush by a task has a live task.
OperationShape ==
    \A p \in Procs :
        /\ mutex[p].step = "none" <=> mutex[p].kind = "none"
        /\ mutex[p].step = "file_lock" => mutex[p].kind \in FlushKinds
        /\ mutex[p].step = "persist" => mutex[p].kind \in {"mutate", "finish"}
        /\ mutex[p].kind = "task" => tasks[p] > 0

\* The invocation's file lock is held exactly by operations past their file_lock step.
LockedWhileMutating ==
    \A p \in Procs : mutex[p].step \in {"persist", "settle"} <=> lock = p

\* What a mutation is about to write contains what the manifest holds.
MergedIsCurrent ==
    \A p \in Procs : mutex[p].step = "persist" =>
        IF mutex[p].kind = "mutate" THEN mutex[p].count >= durable ELSE ~finished

\* Every record adds at least one, so generations are bounded by the counter.
GenerationBounded ==
    \A p \in Procs :
        /\ entry[p].generation <= entry[p].count
        /\ refresh[p].entry.generation <= refresh[p].entry.count

TelemetryInv ==
    /\ TypeOK
    /\ OperationShape
    /\ LockedWhileMutating
    /\ MergedIsCurrent
    /\ GenerationBounded
-----------------------------------------------------------------------------
(* What the helpers return                                                  *)

\* The larger of two counters is a counter and is behind neither.
LEMMA LargerBounds ==
    ASSUME NEW a \in 0..MaxCount, NEW b \in 0..MaxCount
    PROVE  Larger(a, b) \in 0..MaxCount /\ Larger(a, b) >= a /\ Larger(a, b) >= b
BY TelemetryAssumption DEF Larger

\* A record keeps the entry in bounds and its generation within its counter.
LEMMA MarkDirtyEntry ==
    ASSUME NEW e \in Entries, e.generation <= e.count, NEW n \in 1..(MaxCount - e.count)
    PROVE  /\ MarkDirty(e, n) \in Entries
           /\ MarkDirty(e, n).generation <= MarkDirty(e, n).count
BY TelemetryAssumption DEF MarkDirty, Entries

\* Marking an entry as flushed changes its flag only.
LEMMA MarkFlushedEntry ==
    ASSUME NEW e \in Entries, NEW g
    PROVE  /\ MarkFlushed(e, g) \in Entries
           /\ MarkFlushed(e, g).generation = e.generation
           /\ MarkFlushed(e, g).count = e.count
BY DEF MarkFlushed, Entries

\* An entry read from disk is a clean entry.
LEMMA NewEntryType ==
    ASSUME NEW n \in 0..MaxCount
    PROVE  NewEntry(n) \in Entries /\ NewEntry(n).generation <= NewEntry(n).count
BY TelemetryAssumption DEF NewEntry, Entries

\* What the type invariant says of one process, component by component.
LEMMA Components ==
    ASSUME TypeOK, NEW p \in Procs
    PROVE  /\ entry[p] \in Entries /\ mutex[p] \in Operations /\ refresh[p] \in Rebuilds
           /\ entry[p].count \in 0..MaxCount /\ entry[p].generation \in 0..MaxCount
           /\ mutex[p].count \in 0..MaxCount /\ mutex[p].generation \in 0..MaxCount
           /\ refresh[p].entry \in Entries /\ refresh[p].entry.count \in 0..MaxCount
           /\ tasks[p] \in 0..MaxTasks
<1>1. entry[p] \in Entries /\ mutex[p] \in Operations /\ refresh[p] \in Rebuilds
      /\ tasks[p] \in 0..MaxTasks
  BY DEF TypeOK
<1>2. entry[p].count \in 0..MaxCount /\ entry[p].generation \in 0..MaxCount
  BY <1>1 DEF Entries
<1>3. mutex[p].count \in 0..MaxCount /\ mutex[p].generation \in 0..MaxCount
  BY <1>1 DEF Operations
<1>4. refresh[p].entry \in Entries
  BY <1>1 DEF Rebuilds
<1>5. refresh[p].entry.count \in 0..MaxCount
  BY <1>4 DEF Entries
<1> QED BY <1>1, <1>2, <1>3, <1>4, <1>5

\* The idle operation and the idle rebuild have their types.
LEMMA NoneTypes == NoOperation \in Operations /\ NoRefresh \in Rebuilds
<1>1. NoOperation \in Operations
  BY TelemetryAssumption DEF NoOperation, Operations
<1>2. NoRefresh \in Rebuilds
  BY TelemetryAssumption, NewEntryType DEF NoRefresh, Rebuilds
<1> QED BY <1>1, <1>2

\* Moving an operation to its last step keeps its type.
LEMMA SettleType ==
    ASSUME NEW o \in Operations PROVE [o EXCEPT !.step = "settle"] \in Operations
BY DEF Operations

-----------------------------------------------------------------------------
(* Every action preserves the invariant                                     *)

\* A new record: nothing durable changes.
LEMMA RecordPreserves ==
    ASSUME TelemetryInv, NEW p \in Procs, Record(p) PROVE TelemetryInv'
<1> USE TelemetryAssumption DEF TelemetryInv, shutdown, bounds
<1>t1. \E n \in 1..(MaxCount - entry[p].count) :
         entry' = [entry EXCEPT ![p] = MarkDirty(entry[p], n)]
         /\ MarkDirty(entry[p], n) \in Entries
         /\ MarkDirty(entry[p], n).generation <= MarkDirty(entry[p], n).count
  BY Components, MarkDirtyEntry DEF Record, GenerationBounded
<1>1. TypeOK'
  BY <1>t1, Components, NoneTypes DEF TypeOK, Free, OperationShape, Record
<1>2. OperationShape'
  BY Components DEF TypeOK, OperationShape, Operations, Record
<1>3. LockedWhileMutating'
  BY DEF TypeOK, Operations, Free, OperationShape, LockedWhileMutating, Record
<1>4. MergedIsCurrent'
  BY <1>t1, Components DEF TypeOK, Operations, Free, OperationShape, LockedWhileMutating,
     MergedIsCurrent, Record
<1>5. GenerationBounded'
  BY <1>t1, Components DEF TypeOK, GenerationBounded, Record
<1> QED BY <1>1, <1>2, <1>3, <1>4, <1>5

\* A flush task that returns ends no operation.
LEMMA FlushNothingPreserves ==
    ASSUME TelemetryInv, NEW p \in Procs, FlushNothing(p) PROVE TelemetryInv'
<1> USE TelemetryAssumption DEF TelemetryInv, shutdown, bounds
<1>1. TypeOK'
  BY Components, NoneTypes DEF TypeOK, Free, OperationShape, FlushNothing
<1>2. OperationShape'
  BY Components DEF TypeOK, OperationShape, Operations, NoOperation, FlushNothing
<1>3. LockedWhileMutating'
  BY DEF TypeOK, Operations, Free, OperationShape, LockedWhileMutating, FlushNothing
<1>4. MergedIsCurrent'
  BY Components DEF TypeOK, Operations, Free, OperationShape, LockedWhileMutating,
     MergedIsCurrent, FlushNothing
<1>5. GenerationBounded'
  BY DEF TypeOK, GenerationBounded, FlushNothing
<1> QED BY <1>1, <1>2, <1>3, <1>4, <1>5

\* A flush task copies the counters; it holds no file lock yet.
LEMMA FlushSnapshotTaskPreserves ==
    ASSUME TelemetryInv, NEW p \in Procs, FlushSnapshot(p, "task") PROVE TelemetryInv'
<1> USE TelemetryAssumption DEF TelemetryInv, shutdown, bounds
<1>t1. [kind |-> "task", step |-> "file_lock", count |-> entry[p].count,
       generation |-> entry[p].generation] \in Operations
  BY Components DEF Operations
<1>1. TypeOK'
  BY <1>t1, Components, NoneTypes DEF TypeOK, Free, OperationShape, FlushSnapshot, FlushKinds, NoOperation
<1>2. OperationShape'
  BY Components DEF TypeOK, OperationShape, Operations, FlushSnapshot, FlushKinds, NoOperation
<1>3. LockedWhileMutating'
  BY DEF TypeOK, Operations, Free, OperationShape, LockedWhileMutating, FlushSnapshot, FlushKinds, NoOperation
<1>4. MergedIsCurrent'
  BY <1>t1, Components DEF TypeOK, Operations, Free, OperationShape, LockedWhileMutating,
     MergedIsCurrent, FlushSnapshot, FlushKinds, NoOperation
<1>5. GenerationBounded'
  BY DEF TypeOK, GenerationBounded, FlushSnapshot, FlushKinds, NoOperation
<1> QED BY <1>1, <1>2, <1>3, <1>4, <1>5

\* So does the shutdown flush.
LEMMA FlushSnapshotShutdownPreserves ==
    ASSUME TelemetryInv, NEW p \in Procs, FlushSnapshot(p, "shutdown") PROVE TelemetryInv'
<1> USE TelemetryAssumption DEF TelemetryInv, shutdown, bounds
<1>t1. [kind |-> "shutdown", step |-> "file_lock", count |-> entry[p].count,
       generation |-> entry[p].generation] \in Operations
  BY Components DEF Operations
<1>1. TypeOK'
  BY <1>t1, Components, NoneTypes DEF TypeOK, Free, OperationShape, FlushSnapshot, FlushKinds, NoOperation
<1>2. OperationShape'
  BY Components DEF TypeOK, OperationShape, Operations, FlushSnapshot, FlushKinds, NoOperation
<1>3. LockedWhileMutating'
  BY DEF TypeOK, Operations, Free, OperationShape, LockedWhileMutating, FlushSnapshot, FlushKinds, NoOperation
<1>4. MergedIsCurrent'
  BY <1>t1, Components DEF TypeOK, Operations, Free, OperationShape, LockedWhileMutating,
     MergedIsCurrent, FlushSnapshot, FlushKinds, NoOperation
<1>5. GenerationBounded'
  BY DEF TypeOK, GenerationBounded, FlushSnapshot, FlushKinds, NoOperation
<1> QED BY <1>1, <1>2, <1>3, <1>4, <1>5

\* A flush writes with the lock that no mutation holds.
LEMMA FlushPersistPreserves ==
    ASSUME TelemetryInv, NEW p \in Procs, FlushPersist(p) PROVE TelemetryInv'
<1> USE TelemetryAssumption DEF TelemetryInv, shutdown, bounds
<1>t1. Larger(durable, mutex[p].count) \in 0..MaxCount
  BY Components, LargerBounds DEF TypeOK
<1>t2. [mutex[p] EXCEPT !.step = "settle"] \in Operations
  BY Components, SettleType
<1>1. TypeOK'
  BY <1>t1, <1>t2, Components, NoneTypes DEF TypeOK, Free, OperationShape, FlushPersist, FlushKinds
<1>2. OperationShape'
  BY Components DEF TypeOK, OperationShape, Operations, FlushPersist, FlushKinds
<1>3. LockedWhileMutating'
  BY DEF TypeOK, Operations, Free, OperationShape, LockedWhileMutating, FlushPersist, FlushKinds
<1>4. MergedIsCurrent'
  BY <1>t1, <1>t2, Components DEF TypeOK, Operations, Free, OperationShape, LockedWhileMutating,
     MergedIsCurrent, FlushPersist, FlushKinds
<1>5. GenerationBounded'
  BY DEF TypeOK, GenerationBounded, FlushPersist, FlushKinds
<1> QED BY <1>1, <1>2, <1>3, <1>4, <1>5

\* A flush that settles releases the lock it held.
LEMMA FlushSettlePreserves ==
    ASSUME TelemetryInv, NEW p \in Procs, FlushSettle(p) PROVE TelemetryInv'
<1> USE TelemetryAssumption DEF TelemetryInv, shutdown, bounds
<1>t1. MarkFlushed(entry[p], mutex[p].generation) \in Entries
  BY Components, MarkFlushedEntry
<1>1. TypeOK'
  BY <1>t1, Components, NoneTypes DEF TypeOK, Free, OperationShape, FlushSettle, ReleaseLocks, NoOperation
<1>2. OperationShape'
  BY Components DEF TypeOK, OperationShape, Operations, FlushSettle, ReleaseLocks, NoOperation
<1>3. LockedWhileMutating'
  BY DEF TypeOK, Operations, Free, OperationShape, LockedWhileMutating, FlushSettle, ReleaseLocks, NoOperation
<1>4. MergedIsCurrent'
  BY <1>t1, Components DEF TypeOK, Operations, Free, OperationShape, LockedWhileMutating,
     MergedIsCurrent, FlushSettle, ReleaseLocks, NoOperation
<1>5. GenerationBounded'
  BY Components, MarkFlushedEntry DEF TypeOK, GenerationBounded, FlushSettle, ReleaseLocks, NoOperation
<1> QED BY <1>1, <1>2, <1>3, <1>4, <1>5

\* So does one that fails, before or after its write.
LEMMA FlushFailsPreserves ==
    ASSUME TelemetryInv, NEW p \in Procs, FlushFails(p) PROVE TelemetryInv'
<1> USE TelemetryAssumption DEF TelemetryInv, shutdown, bounds
<1>t1. [entry[p] EXCEPT !.scheduled = FALSE] \in Entries
  BY Components DEF Entries
<1>1. TypeOK'
  BY <1>t1, Components, NoneTypes DEF TypeOK, Free, OperationShape, FlushFails, ReleaseLocks, NoOperation
<1>2. OperationShape'
  BY Components DEF TypeOK, OperationShape, Operations, FlushFails, ReleaseLocks, NoOperation
<1>3. LockedWhileMutating'
  BY DEF TypeOK, Operations, Free, OperationShape, LockedWhileMutating, FlushFails, ReleaseLocks, NoOperation
<1>4. MergedIsCurrent'
  BY <1>t1, Components DEF TypeOK, Operations, Free, OperationShape, LockedWhileMutating,
     MergedIsCurrent, FlushFails, ReleaseLocks, NoOperation
<1>5. GenerationBounded'
  BY Components DEF TypeOK, GenerationBounded, FlushFails, ReleaseLocks, NoOperation, Entries
<1> QED BY <1>1, <1>2, <1>3, <1>4, <1>5

\* The shutdown starts a flush or leaves.
LEMMA ShutdownFlushPreserves ==
    ASSUME TelemetryInv, NEW p \in Procs, ShutdownFlush(p) PROVE TelemetryInv'
<1> USE TelemetryAssumption DEF TelemetryInv, shutdown, bounds
<1>1. TypeOK'
  <2>1. CASE entry[p].scheduled
    BY <2>1, Components DEF TypeOK, ShutdownFlush
  <2>2. CASE ~entry[p].scheduled
    BY <2>2, Components, NoneTypes DEF TypeOK, Free, ShutdownFlush, Exit, ReleaseLocks
  <2> QED BY <2>1, <2>2
<1>2. OperationShape'
  BY Components DEF TypeOK, OperationShape, Operations, ShutdownFlush, Exit, ReleaseLocks, NoOperation
<1>3. LockedWhileMutating'
  BY DEF TypeOK, Operations, Free, OperationShape, LockedWhileMutating, ShutdownFlush, Exit, ReleaseLocks, NoOperation
<1>4. MergedIsCurrent'
  <2>1. CASE entry[p].scheduled
    BY <2>1, Components DEF TypeOK, Operations, Free, OperationShape, LockedWhileMutating,
       MergedIsCurrent, ShutdownFlush
  <2>2. CASE ~entry[p].scheduled
    BY <2>2, Components DEF TypeOK, Operations, Free, OperationShape, LockedWhileMutating,
       MergedIsCurrent, ShutdownFlush, Exit, ReleaseLocks, NoOperation
  <2> QED BY <2>1, <2>2
<1>5. GenerationBounded'
  <2>1. CASE entry[p].scheduled
    BY <2>1 DEF GenerationBounded, ShutdownFlush
  <2>2. CASE ~entry[p].scheduled
    BY <2>2, NewEntryType DEF TypeOK, GenerationBounded, NoRefresh, ShutdownFlush, Exit
  <2> QED BY <2>1, <2>2
<1> QED BY <1>1, <1>2, <1>3, <1>4, <1>5

\* The shutdown flush finds nothing and leaves.
LEMMA ShutdownNothingPreserves ==
    ASSUME TelemetryInv, NEW p \in Procs, ShutdownNothing(p) PROVE TelemetryInv'
<1> USE TelemetryAssumption DEF TelemetryInv, shutdown, bounds
<1>1. TypeOK'
  BY Components, NoneTypes DEF TypeOK, Free, OperationShape, ShutdownNothing, Exit, ReleaseLocks, NoOperation
<1>2. OperationShape'
  BY Components DEF TypeOK, OperationShape, Operations, ShutdownNothing, Exit, ReleaseLocks, NoOperation
<1>3. LockedWhileMutating'
  BY DEF TypeOK, Operations, Free, OperationShape, LockedWhileMutating, ShutdownNothing, Exit, ReleaseLocks, NoOperation
<1>4. MergedIsCurrent'
  BY Components DEF TypeOK, Operations, Free, OperationShape, LockedWhileMutating,
     MergedIsCurrent, ShutdownNothing, Exit, ReleaseLocks, NoOperation
<1>5. GenerationBounded'
  BY NewEntryType DEF TypeOK, GenerationBounded, ShutdownNothing, Exit, ReleaseLocks, NoOperation, NoRefresh
<1> QED BY <1>1, <1>2, <1>3, <1>4, <1>5

\* The shutdown flush settles and leaves, or tries again.
LEMMA ShutdownSettlePreserves ==
    ASSUME TelemetryInv, NEW p \in Procs, ShutdownSettle(p) PROVE TelemetryInv'
<1> USE TelemetryAssumption DEF TelemetryInv, shutdown, bounds
<1>t1. MarkFlushed(entry[p], mutex[p].generation) \in Entries
  BY Components, MarkFlushedEntry
<1>t2. /\ mutex' = [mutex EXCEPT ![p] = NoOperation] /\ lock' \in Procs \cup {Free}
       /\ entry' = [entry EXCEPT ![p] = MarkFlushed(entry[p], mutex[p].generation)]
       /\ UNCHANGED <<durable, finished, pending, mutations, refreshes, faults>>
  BY DEF TypeOK, ShutdownSettle, Exit, ReleaseLocks
<1>t3. /\ tasks' \in [Procs -> 0..MaxTasks] /\ refresh' \in [Procs -> Rebuilds]
       /\ phase' \in [Procs -> {"serving", "flushing", "closed"}]
  BY NoneTypes DEF TypeOK, ShutdownSettle, Exit
<1>1. TypeOK'
  BY <1>t1, <1>t2, <1>t3, NoneTypes DEF TypeOK
<1>2. OperationShape'
  BY Components DEF TypeOK, OperationShape, Operations, ShutdownSettle, Exit, ReleaseLocks, NoOperation
<1>3. LockedWhileMutating'
  BY DEF TypeOK, Operations, Free, OperationShape, LockedWhileMutating, ShutdownSettle, Exit, ReleaseLocks, NoOperation
<1>4. MergedIsCurrent'
  BY <1>t1, Components DEF TypeOK, Operations, Free, OperationShape, LockedWhileMutating,
     MergedIsCurrent, ShutdownSettle, Exit, ReleaseLocks, NoOperation
<1>5. GenerationBounded'
  BY Components, MarkFlushedEntry, NewEntryType DEF TypeOK, GenerationBounded, ShutdownSettle, Exit, ReleaseLocks, NoOperation, NoRefresh
<1> QED BY <1>1, <1>2, <1>3, <1>4, <1>5

\* The shutdown flush fails and leaves.
LEMMA ShutdownFailsPreserves ==
    ASSUME TelemetryInv, NEW p \in Procs, ShutdownFails(p) PROVE TelemetryInv'
<1> USE TelemetryAssumption DEF TelemetryInv, shutdown, bounds
<1>1. TypeOK'
  BY Components, NoneTypes DEF TypeOK, Free, OperationShape, ShutdownFails, Exit, ReleaseLocks, NoOperation
<1>2. OperationShape'
  BY Components DEF TypeOK, OperationShape, Operations, ShutdownFails, Exit, ReleaseLocks, NoOperation
<1>3. LockedWhileMutating'
  BY DEF TypeOK, Operations, Free, OperationShape, LockedWhileMutating, ShutdownFails, Exit, ReleaseLocks, NoOperation
<1>4. MergedIsCurrent'
  BY Components DEF TypeOK, Operations, Free, OperationShape, LockedWhileMutating,
     MergedIsCurrent, ShutdownFails, Exit, ReleaseLocks, NoOperation
<1>5. GenerationBounded'
  BY NewEntryType DEF TypeOK, GenerationBounded, ShutdownFails, Exit, ReleaseLocks, NoOperation, NoRefresh
<1> QED BY <1>1, <1>2, <1>3, <1>4, <1>5

\* A mutation merges the manifest it has just locked.
LEMMA MutateBeginMutatePreserves ==
    ASSUME TelemetryInv, NEW p \in Procs, MutateBegin(p, "mutate") PROVE TelemetryInv'
<1> USE TelemetryAssumption DEF TelemetryInv, shutdown, bounds
<1>t1. Merged(p, "mutate") \in 0..MaxCount /\ Merged(p, "mutate") >= durable
  BY Components, LargerBounds DEF Merged, TypeOK
<1>t2. [kind |-> "mutate", step |-> "persist", count |-> Merged(p, "mutate"),
       generation |-> entry[p].generation] \in Operations
  BY <1>t1, Components DEF Operations
<1>1. TypeOK'
  BY <1>t1, <1>t2, Components, NoneTypes DEF TypeOK, Free, OperationShape, MutateBegin
<1>2. OperationShape'
  BY Components DEF TypeOK, OperationShape, Operations, MutateBegin
<1>3. LockedWhileMutating'
  BY DEF TypeOK, Operations, Free, OperationShape, LockedWhileMutating, MutateBegin
<1>4. MergedIsCurrent'
  BY <1>t1, <1>t2, Components DEF TypeOK, Operations, Free, OperationShape, LockedWhileMutating,
     MergedIsCurrent, MutateBegin
<1>5. GenerationBounded'
  BY DEF TypeOK, GenerationBounded, MutateBegin
<1> QED BY <1>1, <1>2, <1>3, <1>4, <1>5

\* A completion begins only while the record is not finished.
LEMMA MutateBeginFinishPreserves ==
    ASSUME TelemetryInv, NEW p \in Procs, MutateBegin(p, "finish") PROVE TelemetryInv'
<1> USE TelemetryAssumption DEF TelemetryInv, shutdown, bounds
<1>t1. Merged(p, "finish") \in 0..MaxCount
  BY Components, LargerBounds DEF Merged, TypeOK
<1>t2. [kind |-> "finish", step |-> "persist", count |-> Merged(p, "finish"),
       generation |-> entry[p].generation] \in Operations
  BY <1>t1, Components DEF Operations
<1>1. TypeOK'
  BY <1>t1, <1>t2, Components, NoneTypes DEF TypeOK, Free, OperationShape, MutateBegin
<1>2. OperationShape'
  BY Components DEF TypeOK, OperationShape, Operations, MutateBegin
<1>3. LockedWhileMutating'
  BY DEF TypeOK, Operations, Free, OperationShape, LockedWhileMutating, MutateBegin
<1>4. MergedIsCurrent'
  BY <1>t1, <1>t2, Components DEF TypeOK, Operations, Free, OperationShape, LockedWhileMutating,
     MergedIsCurrent, MutateBegin
<1>5. GenerationBounded'
  BY DEF TypeOK, GenerationBounded, MutateBegin
<1> QED BY <1>1, <1>2, <1>3, <1>4, <1>5

\* A mutation writes what it merged.
LEMMA MutatePersistPreserves ==
    ASSUME TelemetryInv, NEW p \in Procs, MutatePersist(p) PROVE TelemetryInv'
<1> USE TelemetryAssumption DEF TelemetryInv, shutdown, bounds
<1>t1. [mutex[p] EXCEPT !.step = "settle"] \in Operations
  BY Components, SettleType
<1>1. TypeOK'
  BY <1>t1, Components, NoneTypes DEF TypeOK, Free, OperationShape, MutatePersist
<1>2. OperationShape'
  BY Components DEF TypeOK, OperationShape, Operations, MutatePersist
<1>3. LockedWhileMutating'
  BY DEF TypeOK, Operations, Free, OperationShape, LockedWhileMutating, MutatePersist
<1>4. MergedIsCurrent'
  BY <1>t1, Components DEF TypeOK, Operations, Free, OperationShape, LockedWhileMutating,
     MergedIsCurrent, MutatePersist
<1>5. GenerationBounded'
  BY DEF TypeOK, GenerationBounded, MutatePersist
<1> QED BY <1>1, <1>2, <1>3, <1>4, <1>5

\* A mutation that settles releases the lock.
LEMMA MutateSettlePreserves ==
    ASSUME TelemetryInv, NEW p \in Procs, MutateSettle(p) PROVE TelemetryInv'
<1> USE TelemetryAssumption DEF TelemetryInv, shutdown, bounds
<1>t1. [entry[p] EXCEPT !.count = Larger(entry[p].count, mutex[p].count)] \in Entries
  BY Components, LargerBounds DEF Entries
<1>t2. MarkFlushed([entry[p] EXCEPT !.count = Larger(entry[p].count, mutex[p].count)],
                  mutex[p].generation) \in Entries
  BY <1>t1, MarkFlushedEntry
<1>1. TypeOK'
  BY <1>t1, <1>t2, Components, NoneTypes DEF TypeOK, Free, OperationShape, MutateSettle, ReleaseLocks, NoOperation
<1>2. OperationShape'
  BY Components DEF TypeOK, OperationShape, Operations, MutateSettle, ReleaseLocks, NoOperation
<1>3. LockedWhileMutating'
  BY DEF TypeOK, Operations, Free, OperationShape, LockedWhileMutating, MutateSettle, ReleaseLocks, NoOperation
<1>4. MergedIsCurrent'
  BY <1>t1, <1>t2, Components DEF TypeOK, Operations, Free, OperationShape, LockedWhileMutating,
     MergedIsCurrent, MutateSettle, ReleaseLocks, NoOperation
<1>5. GenerationBounded'
  BY <1>t1, Components, MarkFlushedEntry, LargerBounds DEF TypeOK, GenerationBounded, MutateSettle, ReleaseLocks, NoOperation, Entries
<1> QED BY <1>1, <1>2, <1>3, <1>4, <1>5

\* So does one that fails.
LEMMA MutateFailsPreserves ==
    ASSUME TelemetryInv, NEW p \in Procs, MutateFails(p) PROVE TelemetryInv'
<1> USE TelemetryAssumption DEF TelemetryInv, shutdown, bounds
<1>1. TypeOK'
  BY Components, NoneTypes DEF TypeOK, Free, OperationShape, MutateFails, ReleaseLocks, NoOperation
<1>2. OperationShape'
  BY Components DEF TypeOK, OperationShape, Operations, MutateFails, ReleaseLocks, NoOperation
<1>3. LockedWhileMutating'
  BY DEF TypeOK, Operations, Free, OperationShape, LockedWhileMutating, MutateFails, ReleaseLocks, NoOperation
<1>4. MergedIsCurrent'
  BY Components DEF TypeOK, Operations, Free, OperationShape, LockedWhileMutating,
     MergedIsCurrent, MutateFails, ReleaseLocks, NoOperation
<1>5. GenerationBounded'
  BY DEF TypeOK, GenerationBounded, MutateFails, ReleaseLocks, NoOperation
<1> QED BY <1>1, <1>2, <1>3, <1>4, <1>5

\* A scan reads the manifest.
LEMMA RefreshScanPreserves ==
    ASSUME TelemetryInv, NEW p \in Procs, RefreshScan(p) PROVE TelemetryInv'
<1> USE TelemetryAssumption DEF TelemetryInv, shutdown, bounds
<1>t1. [step |-> "scanned", entry |-> NewEntry(durable)] \in Rebuilds
  BY NewEntryType DEF Rebuilds, TypeOK
<1>1. TypeOK'
  BY <1>t1, Components, NoneTypes DEF TypeOK, Free, OperationShape, RefreshScan
<1>2. OperationShape'
  BY Components DEF TypeOK, OperationShape, Operations, RefreshScan
<1>3. LockedWhileMutating'
  BY DEF TypeOK, Operations, Free, OperationShape, LockedWhileMutating, RefreshScan
<1>4. MergedIsCurrent'
  BY <1>t1, Components DEF TypeOK, Operations, Free, OperationShape, LockedWhileMutating,
     MergedIsCurrent, RefreshScan
<1>5. GenerationBounded'
  BY NewEntryType DEF TypeOK, GenerationBounded, RefreshScan
<1> QED BY <1>1, <1>2, <1>3, <1>4, <1>5

\* The merge keeps the entry within bounds.
LEMMA RefreshMergePreserves ==
    ASSUME TelemetryInv, NEW p \in Procs, RefreshMerge(p) PROVE TelemetryInv'
<1> USE TelemetryAssumption DEF TelemetryInv, shutdown, bounds
<1>t1. [entry[p] EXCEPT !.count = Larger(entry[p].count, refresh[p].entry.count)] \in Entries
  BY Components, LargerBounds DEF Entries
<1>t2. [step |-> "merged",
       entry |-> [entry[p] EXCEPT !.count = Larger(entry[p].count, refresh[p].entry.count)]]
         \in Rebuilds
  BY <1>t1 DEF Rebuilds
<1>1. TypeOK'
  BY <1>t1, <1>t2, Components, NoneTypes DEF TypeOK, Free, OperationShape, RefreshMerge
<1>2. OperationShape'
  BY Components DEF TypeOK, OperationShape, Operations, RefreshMerge
<1>3. LockedWhileMutating'
  BY DEF TypeOK, Operations, Free, OperationShape, LockedWhileMutating, RefreshMerge
<1>4. MergedIsCurrent'
  BY <1>t1, <1>t2, Components DEF TypeOK, Operations, Free, OperationShape, LockedWhileMutating,
     MergedIsCurrent, RefreshMerge
<1>5. GenerationBounded'
  BY <1>t1, Components, LargerBounds DEF TypeOK, GenerationBounded, RefreshMerge, Entries
<1> QED BY <1>1, <1>2, <1>3, <1>4, <1>5

\* The installation puts an entry of an earlier state in place.
LEMMA RefreshInstallPreserves ==
    ASSUME TelemetryInv, NEW p \in Procs, RefreshInstall(p) PROVE TelemetryInv'
<1> USE TelemetryAssumption DEF TelemetryInv, shutdown, bounds
<1>t1. refresh[p].entry \in Entries /\ NoRefresh \in Rebuilds
  BY Components, NoneTypes
<1>1. TypeOK'
  BY <1>t1, Components, NoneTypes DEF TypeOK, Free, OperationShape, RefreshInstall, NoRefresh, NewEntry
<1>2. OperationShape'
  BY Components DEF TypeOK, OperationShape, Operations, RefreshInstall, NoRefresh, NewEntry
<1>3. LockedWhileMutating'
  BY DEF TypeOK, Operations, Free, OperationShape, LockedWhileMutating, RefreshInstall, NoRefresh, NewEntry
<1>4. MergedIsCurrent'
  BY <1>t1, Components DEF TypeOK, Operations, Free, OperationShape, LockedWhileMutating,
     MergedIsCurrent, RefreshInstall, NoRefresh, NewEntry
<1>5. GenerationBounded'
  BY NewEntryType DEF TypeOK, GenerationBounded, RefreshInstall, NoRefresh, NewEntry
<1> QED BY <1>1, <1>2, <1>3, <1>4, <1>5

-----------------------------------------------------------------------------
(* The invariant and what follows from it                                   *)

\* The invariant holds initially.
LEMMA TelemetryInit == Init => TelemetryInv
<1> SUFFICES ASSUME Init PROVE TelemetryInv
  OBVIOUS
<1> USE TelemetryAssumption DEF Init
<1>1. NewEntry(0) \in Entries
  BY NewEntryType
<1>2. TypeOK
  <2>1. /\ 0 \in 0..MaxCount /\ 0 \in 0..MaxTasks /\ 0 \in 0..MaxMutations
        /\ 0 \in 0..MaxRefreshes /\ 0 \in 0..MaxFaults
    OBVIOUS
  <2>2. /\ entry \in [Procs -> Entries] /\ mutex \in [Procs -> Operations]
        /\ refresh \in [Procs -> Rebuilds]
    BY <1>1, NoneTypes
  <2>3. /\ tasks \in [Procs -> 0..MaxTasks] /\ pending \in [Procs -> 0..MaxCount]
        /\ phase \in [Procs -> {"serving", "flushing", "closed"}]
    BY <2>1
  <2> QED BY <2>1, <2>2, <2>3 DEF TypeOK, Free
<1>3. OperationShape
  BY DEF OperationShape, NoOperation
<1>4. LockedWhileMutating
  BY DEF LockedWhileMutating, NoOperation, Free
<1>5. MergedIsCurrent
  BY DEF MergedIsCurrent, NoOperation
<1>6. GenerationBounded
  BY DEF GenerationBounded, NoRefresh, NewEntry
<1> QED BY <1>2, <1>3, <1>4, <1>5, <1>6 DEF TelemetryInv

\* It only depends on the variables.
LEMMA StutterPreserves == TelemetryInv /\ UNCHANGED vars => TelemetryInv'
BY DEF vars, TelemetryInv, TypeOK, OperationShape, LockedWhileMutating, MergedIsCurrent,
   GenerationBounded

\* It is inductive.
LEMMA NextPreserves == TelemetryInv /\ [Next]_vars => TelemetryInv'
<1> SUFFICES ASSUME TelemetryInv, [Next]_vars PROVE TelemetryInv'
  OBVIOUS
<1>1. CASE UNCHANGED vars
  BY <1>1, StutterPreserves
<1>2. ASSUME NEW p \in Procs, Record(p) PROVE TelemetryInv'
  BY <1>2, RecordPreserves
<1>3. ASSUME NEW p \in Procs, FlushStep(p) PROVE TelemetryInv'
  BY <1>3, FlushNothingPreserves, FlushSnapshotTaskPreserves, FlushPersistPreserves,
     FlushSettlePreserves, FlushFailsPreserves DEF FlushStep
<1>4. ASSUME NEW p \in Procs, MutationStep(p) PROVE TelemetryInv'
  BY <1>4, MutatePersistPreserves, MutateSettlePreserves, MutateFailsPreserves
  DEF MutationStep
<1>5. ASSUME NEW p \in Procs, MutateBegin(p, "mutate") \/ MutateBegin(p, "finish")
      PROVE  TelemetryInv'
  BY <1>5, MutateBeginMutatePreserves, MutateBeginFinishPreserves
<1>6. ASSUME NEW p \in Procs, ShutdownFlush(p) \/ ShutdownStep(p) PROVE TelemetryInv'
  BY <1>6, ShutdownFlushPreserves, FlushSnapshotShutdownPreserves, ShutdownNothingPreserves,
     ShutdownSettlePreserves, ShutdownFailsPreserves DEF ShutdownStep
<1>7. ASSUME NEW p \in Procs, RefreshScan(p) \/ RefreshStep(p) PROVE TelemetryInv'
  BY <1>7, RefreshScanPreserves, RefreshMergePreserves, RefreshInstallPreserves
  DEF RefreshStep
<1> QED BY <1>1, <1>2, <1>3, <1>4, <1>5, <1>6, <1>7 DEF Next, AllClosed

\* The inductive invariant holds in every reachable state.
THEOREM TelemetryInvariance == Spec => []TelemetryInv
<1> QED BY TelemetryInit, NextPreserves, PTL DEF Spec

\* Type correctness: counters and generations stay within their bound, because a
\* generation never exceeds the counter it belongs to.
THEOREM TelemetryTypeCorrect == Spec => []TypeOK
<1>1. TelemetryInv => TypeOK
  BY DEF TelemetryInv
<1> QED BY <1>1, TelemetryInvariance, PTL

\* However flushes, mutations and rebuilds of any number of processes interleave, the
\* durable counter only goes down when finish_invocation replaces it.
THEOREM FlushesAreMonotonic == Spec => OnlyCompletionLowers
<1>1. TelemetryInv /\ [Next]_vars => [durable' < durable => ~finished /\ finished']_vars
  <2> SUFFICES ASSUME TelemetryInv, [Next]_vars, durable' # durable
               PROVE  durable' < durable => ~finished /\ finished'
    BY DEF TelemetryInv, TypeOK
  <2>1. PICK p \in Procs : FlushPersist(p) \/ MutatePersist(p)
    BY DEF Next, vars, FlushStep, MutationStep, ShutdownStep, RefreshStep, AllClosed, Record,
       FlushNothing, FlushSnapshot, FlushSettle, FlushFails, ShutdownFlush, ShutdownNothing,
       ShutdownSettle, ShutdownFails, MutateBegin, MutateSettle, MutateFails, RefreshScan,
       RefreshMerge, RefreshInstall
  <2>2. CASE FlushPersist(p)
    <3>1. Larger(durable, mutex[p].count) >= durable
      BY Components, LargerBounds DEF TelemetryInv, TypeOK
    <3> QED BY <2>2, <3>1, Components DEF FlushPersist, TelemetryInv, TypeOK, Larger
  <2>3. CASE MutatePersist(p)
    <3>1. CASE mutex[p].kind = "mutate"
      BY <2>3, <3>1, Components DEF MutatePersist, TelemetryInv, MergedIsCurrent, TypeOK
    <3>2. CASE mutex[p].kind = "finish"
      BY <2>3, <3>2 DEF MutatePersist, TelemetryInv, MergedIsCurrent
    <3> QED BY <2>3, <3>1, <3>2 DEF MutatePersist
  <2> QED BY <2>1, <2>2, <2>3
<1> QED BY <1>1, TelemetryInvariance, PTL DEF Spec, OnlyCompletionLowers

-----------------------------------------------------------------------------
(* The scheduled flag tells the truth                                       *)

\* Rebuilds are counted when they begin.
NoRebuildYet == refreshes = 0 => \A p \in Procs : refresh[p] = NoRefresh

\* Until an operation has settled, what it wrote is in the manifest.
SettlingIsDurable == \A p \in Procs : mutex[p].step = "settle" => mutex[p].count <= durable

\* Only the server of the invocation completes it.
FinisherCompletes == \A p \in Procs : mutex[p].kind = "finish" => p \in Finisher

\* The generation an operation copied is not ahead of the entry's, and while it is the
\* entry's the counters it carries are the entry's too; what is not scheduled is durable,
\* or about to be; what is scheduled has a task; a shutdown has counted what is there.
FlagOf(p) ==
    /\ mutex[p].step # "none" => mutex[p].generation <= entry[p].generation
    /\ mutex[p].step \in {"file_lock", "persist"} /\ mutex[p].generation = entry[p].generation
         => entry[p].count <= mutex[p].count
    /\ mutex[p].step = "persist" /\ ~entry[p].scheduled => entry[p].count <= mutex[p].count
    /\ mutex[p].step = "settle" /\ mutex[p].generation = entry[p].generation
         => entry[p].count <= durable
    /\ ~entry[p].scheduled => entry[p].count <= durable
    /\ entry[p].scheduled => tasks[p] > 0
    /\ phase[p] = "flushing" => pending[p] <= entry[p].count
    /\ mutex[p].kind = "shutdown" => phase[p] = "flushing"

Flags == \A p \in Procs : Undisturbed(p) /\ phase[p] # "closed" => FlagOf(p)

FlagInv == NoRebuildYet /\ SettlingIsDurable /\ FinisherCompletes /\ Flags

\* Nothing of process q changes.
Same(q) ==
    /\ entry'[q] = entry[q] /\ mutex'[q] = mutex[q] /\ tasks'[q] = tasks[q]
    /\ phase'[q] = phase[q] /\ pending'[q] = pending[q] /\ refresh'[q] = refresh[q]

\* A step of another process that does not lower the manifest keeps q's flag true.
LEMMA OthersKeepFlags ==
    ASSUME TelemetryInv, FlagInv, NEW q \in Procs, Same(q), durable' \in Int,
           Undisturbed(q)', phase'[q] # "closed", Undisturbed(q), durable' >= durable
    PROVE  FlagOf(q)'
<1>1. FlagOf(q)
  BY DEF FlagInv, Flags, Same
<1>2. entry[q].count \in Int /\ durable \in Int
  BY Components DEF TelemetryInv, TypeOK
<1> QED BY <1>1, <1>2 DEF FlagOf, Same

\* A record makes its entry scheduled, and a task is there or spawned.
LEMMA RecordKeepsFlags ==
    ASSUME TelemetryInv, FlagInv, NEW p \in Procs, Record(p)
    PROVE  FlagInv'
<1> USE DEF TelemetryInv, FlagInv
<1>t. /\ TypeOK /\ durable \in Int
      /\ \A q \in Procs : /\ entry[q].count \in Int /\ entry[q].generation \in Int
                          /\ mutex[q].count \in Int /\ mutex[q].generation \in Int
                          /\ tasks[q] \in Int /\ pending[q] \in Int
  BY Components DEF TypeOK
<1>o. \A q \in Procs : q # p => Same(q)
  BY DEF TypeOK, Same, Record, MarkDirty, shutdown, bounds
<1>d. durable' = durable /\ finished' = finished
  BY DEF Record, MarkDirty, shutdown, bounds
<1>p1. /\ entry'[p].count >= entry[p].count /\ entry'[p].count \in Int
       /\ entry'[p].generation = entry[p].generation + 1 /\ entry'[p].scheduled
  BY <1>t DEF TypeOK, Entries, Record, MarkDirty, shutdown, bounds
<1>p2. mutex'[p] = mutex[p] /\ phase'[p] = phase[p] /\ pending'[p] = pending[p]
  BY DEF TypeOK, Record, MarkDirty, shutdown, bounds
<1>p3. tasks'[p] \in Int /\ tasks'[p] >= tasks[p] /\ (~entry[p].scheduled => tasks'[p] > 0)
  BY <1>t DEF TypeOK, Record, MarkDirty, shutdown, bounds
<1>1. NoRebuildYet'
  BY <1>o DEF TypeOK, NoRebuildYet, Record, MarkDirty, shutdown, bounds
<1>2. SettlingIsDurable'
  BY <1>t, <1>o, <1>d, <1>p1, <1>p2, <1>p3 DEF SettlingIsDurable, Same
<1>3. FinisherCompletes'
  BY <1>o, <1>p1, <1>p2, <1>p3 DEF FinisherCompletes, Same
<1>4. Flags'
  <2>1. ASSUME NEW q \in Procs, Undisturbed(q)' PROVE Undisturbed(q)
    BY <2>1, <1>t, <1>d DEF TypeOK, Undisturbed, Record, MarkDirty, shutdown, bounds
  <2>2. ASSUME NEW q \in Procs, q # p, Undisturbed(q)', phase'[q] # "closed" PROVE FlagOf(q)'
    BY <2>1, <2>2, <1>t, <1>o, <1>d, OthersKeepFlags
  <2>3. ASSUME Undisturbed(p)', phase'[p] # "closed" PROVE FlagOf(p)'
    <3>1. FlagOf(p)
      BY <2>1, <2>3, <1>p1, <1>p2, <1>p3 DEF Flags
    <3> QED BY <3>1, <1>t, <1>d, <1>p1, <1>p2, <1>p3 DEF FlagOf
  <2> QED BY <2>2, <2>3 DEF Flags
<1> QED BY <1>1, <1>2, <1>3, <1>4

\* A task without work returns.
LEMMA FlushNothingKeepsFlags ==
    ASSUME TelemetryInv, FlagInv, NEW p \in Procs, FlushNothing(p)
    PROVE  FlagInv'
<1> USE DEF TelemetryInv, FlagInv
<1>t. /\ TypeOK /\ durable \in Int
      /\ \A q \in Procs : /\ entry[q].count \in Int /\ entry[q].generation \in Int
                          /\ mutex[q].count \in Int /\ mutex[q].generation \in Int
                          /\ tasks[q] \in Int /\ pending[q] \in Int
  BY Components DEF TypeOK
<1>o. \A q \in Procs : q # p => Same(q)
  BY DEF TypeOK, Same, FlushNothing, shutdown, bounds
<1>d. durable' = durable /\ finished' = finished
  BY DEF FlushNothing, shutdown, bounds
<1>p1. /\ entry'[p] = entry[p] /\ ~entry[p].scheduled /\ mutex'[p] = mutex[p]
       /\ phase'[p] = phase[p] /\ pending'[p] = pending[p]
  BY DEF TypeOK, FlushNothing, shutdown, bounds
<1>1. NoRebuildYet'
  BY <1>o DEF TypeOK, NoRebuildYet, FlushNothing, shutdown, bounds
<1>2. SettlingIsDurable'
  BY <1>t, <1>o, <1>d, <1>p1 DEF SettlingIsDurable, Same
<1>3. FinisherCompletes'
  BY <1>o, <1>p1 DEF FinisherCompletes, Same
<1>4. Flags'
  <2>1. ASSUME NEW q \in Procs, Undisturbed(q)' PROVE Undisturbed(q)
    BY <2>1, <1>t, <1>d DEF TypeOK, Undisturbed, FlushNothing, shutdown, bounds
  <2>2. ASSUME NEW q \in Procs, q # p, Undisturbed(q)', phase'[q] # "closed" PROVE FlagOf(q)'
    BY <2>1, <2>2, <1>t, <1>o, <1>d, OthersKeepFlags
  <2>3. ASSUME Undisturbed(p)', phase'[p] # "closed" PROVE FlagOf(p)'
    <3>1. FlagOf(p)
      BY <2>1, <2>3, <1>p1 DEF Flags
    <3> QED BY <3>1, <1>t, <1>d, <1>p1 DEF FlagOf
  <2> QED BY <2>2, <2>3 DEF Flags
<1> QED BY <1>1, <1>2, <1>3, <1>4

\* The entry is copied with its generation.
LEMMA FlushSnapshotTaskKeepsFlags ==
    ASSUME TelemetryInv, FlagInv, NEW p \in Procs, FlushSnapshot(p, "task")
    PROVE  FlagInv'
<1> USE DEF TelemetryInv, FlagInv
<1>t. /\ TypeOK /\ durable \in Int
      /\ \A q \in Procs : /\ entry[q].count \in Int /\ entry[q].generation \in Int
                          /\ mutex[q].count \in Int /\ mutex[q].generation \in Int
                          /\ tasks[q] \in Int /\ pending[q] \in Int
  BY Components DEF TypeOK
<1>o. \A q \in Procs : q # p => Same(q)
  BY DEF TypeOK, Same, FlushSnapshot, shutdown, bounds
<1>d. durable' = durable /\ finished' = finished
  BY DEF FlushSnapshot, shutdown, bounds
<1>p1. /\ entry'[p] = entry[p] /\ tasks'[p] = tasks[p]
       /\ phase'[p] = phase[p] /\ pending'[p] = pending[p] /\ phase[p] # "closed"
  BY DEF TypeOK, FlushSnapshot, shutdown, bounds
<1>p2. /\ mutex'[p].kind = "task" /\ mutex'[p].step = "file_lock"
       /\ mutex'[p].count = entry[p].count /\ mutex'[p].generation = entry[p].generation
  BY DEF TypeOK, FlushSnapshot, shutdown, bounds
<1>1. NoRebuildYet'
  BY <1>o DEF TypeOK, NoRebuildYet, FlushSnapshot, shutdown, bounds
<1>2. SettlingIsDurable'
  BY <1>t, <1>o, <1>d, <1>p1, <1>p2 DEF SettlingIsDurable, Same
<1>3. FinisherCompletes'
  BY <1>o, <1>p1, <1>p2 DEF FinisherCompletes, Same
<1>4. Flags'
  <2>1. ASSUME NEW q \in Procs, Undisturbed(q)' PROVE Undisturbed(q)
    BY <2>1, <1>t, <1>d DEF TypeOK, Undisturbed, FlushSnapshot, shutdown, bounds
  <2>2. ASSUME NEW q \in Procs, q # p, Undisturbed(q)', phase'[q] # "closed" PROVE FlagOf(q)'
    BY <2>1, <2>2, <1>t, <1>o, <1>d, OthersKeepFlags
  <2>3. ASSUME Undisturbed(p)', phase'[p] # "closed" PROVE FlagOf(p)'
    <3>1. FlagOf(p)
      BY <2>1, <2>3, <1>p1, <1>p2 DEF Flags
    <3> QED BY <3>1, <1>t, <1>d, <1>p1, <1>p2 DEF FlagOf
  <2> QED BY <2>2, <2>3 DEF Flags
<1> QED BY <1>1, <1>2, <1>3, <1>4

\* So it is by the shutdown flush.
LEMMA FlushSnapshotShutdownKeepsFlags ==
    ASSUME TelemetryInv, FlagInv, NEW p \in Procs, FlushSnapshot(p, "shutdown")
    PROVE  FlagInv'
<1> USE DEF TelemetryInv, FlagInv
<1>t. /\ TypeOK /\ durable \in Int
      /\ \A q \in Procs : /\ entry[q].count \in Int /\ entry[q].generation \in Int
                          /\ mutex[q].count \in Int /\ mutex[q].generation \in Int
                          /\ tasks[q] \in Int /\ pending[q] \in Int
  BY Components DEF TypeOK
<1>o. \A q \in Procs : q # p => Same(q)
  BY DEF TypeOK, Same, FlushSnapshot, shutdown, bounds
<1>d. durable' = durable /\ finished' = finished
  BY DEF FlushSnapshot, shutdown, bounds
<1>p1. /\ entry'[p] = entry[p] /\ tasks'[p] = tasks[p]
       /\ phase'[p] = phase[p] /\ pending'[p] = pending[p] /\ phase[p] = "flushing"
  BY DEF TypeOK, FlushSnapshot, shutdown, bounds
<1>p2. /\ mutex'[p].kind = "shutdown" /\ mutex'[p].step = "file_lock"
       /\ mutex'[p].count = entry[p].count /\ mutex'[p].generation = entry[p].generation
  BY DEF TypeOK, FlushSnapshot, shutdown, bounds
<1>1. NoRebuildYet'
  BY <1>o DEF TypeOK, NoRebuildYet, FlushSnapshot, shutdown, bounds
<1>2. SettlingIsDurable'
  BY <1>t, <1>o, <1>d, <1>p1, <1>p2 DEF SettlingIsDurable, Same
<1>3. FinisherCompletes'
  BY <1>o, <1>p1, <1>p2 DEF FinisherCompletes, Same
<1>4. Flags'
  <2>1. ASSUME NEW q \in Procs, Undisturbed(q)' PROVE Undisturbed(q)
    BY <2>1, <1>t, <1>d DEF TypeOK, Undisturbed, FlushSnapshot, shutdown, bounds
  <2>2. ASSUME NEW q \in Procs, q # p, Undisturbed(q)', phase'[q] # "closed" PROVE FlagOf(q)'
    BY <2>1, <2>2, <1>t, <1>o, <1>d, OthersKeepFlags
  <2>3. ASSUME Undisturbed(p)', phase'[p] # "closed" PROVE FlagOf(p)'
    <3>1. FlagOf(p)
      BY <2>1, <2>3, <1>p1, <1>p2 DEF Flags
    <3> QED BY <3>1, <1>t, <1>d, <1>p1, <1>p2 DEF FlagOf
  <2> QED BY <2>2, <2>3 DEF Flags
<1> QED BY <1>1, <1>2, <1>3, <1>4

\* The merged manifest is behind nobody.
LEMMA FlushPersistKeepsFlags ==
    ASSUME TelemetryInv, FlagInv, NEW p \in Procs, FlushPersist(p)
    PROVE  FlagInv'
<1> USE DEF TelemetryInv, FlagInv
<1>t. /\ TypeOK /\ durable \in Int
      /\ \A q \in Procs : /\ entry[q].count \in Int /\ entry[q].generation \in Int
                          /\ mutex[q].count \in Int /\ mutex[q].generation \in Int
                          /\ tasks[q] \in Int /\ pending[q] \in Int
  BY Components DEF TypeOK
<1>o. \A q \in Procs : q # p => Same(q)
  BY DEF TypeOK, Same, FlushPersist, shutdown, bounds
<1>d. durable' \in Int /\ durable' >= durable /\ durable' >= mutex[p].count
  BY <1>t DEF Larger, FlushPersist
<1>p1. /\ entry'[p] = entry[p] /\ tasks'[p] = tasks[p]
       /\ phase'[p] = phase[p] /\ pending'[p] = pending[p] /\ mutex[p].step = "file_lock"
  BY DEF TypeOK, FlushPersist, shutdown, bounds
<1>p2. /\ mutex'[p].kind = mutex[p].kind /\ mutex'[p].step = "settle"
       /\ mutex'[p].count = mutex[p].count /\ mutex'[p].generation = mutex[p].generation
  BY Components DEF TypeOK, Operations, FlushPersist, shutdown, bounds
<1>p3. finished' = finished /\ lock = Free /\ \A q \in Procs : mutex[q].step # "settle"
  BY TelemetryAssumption DEF LockedWhileMutating, Free, FlushPersist, shutdown, bounds
<1>1. NoRebuildYet'
  BY <1>o DEF TypeOK, NoRebuildYet, FlushPersist, shutdown, bounds
<1>2. SettlingIsDurable'
  BY <1>t, <1>o, <1>d, <1>p1, <1>p2, <1>p3 DEF SettlingIsDurable, Same
<1>3. FinisherCompletes'
  BY <1>o, <1>p1, <1>p2, <1>p3 DEF FinisherCompletes, Same
<1>4. Flags'
  <2>1. ASSUME NEW q \in Procs, Undisturbed(q)' PROVE Undisturbed(q) /\ (durable' >= durable \/ q = p)
    BY <2>1, <1>t, <1>d DEF TypeOK, Undisturbed, FlushPersist, shutdown, bounds
  <2>2. ASSUME NEW q \in Procs, q # p, Undisturbed(q)', phase'[q] # "closed" PROVE FlagOf(q)'
    BY <2>1, <2>2, <1>t, <1>o, <1>d, OthersKeepFlags
  <2>3. ASSUME Undisturbed(p)', phase'[p] # "closed" PROVE FlagOf(p)'
    <3>1. FlagOf(p)
      BY <2>1, <2>3, <1>p1, <1>p2, <1>p3 DEF Flags
    <3>2. mutex'[p].step # "none" => mutex'[p].generation <= entry'[p].generation
      BY <2>3, <3>1, <1>t, <1>d, <1>p1, <1>p2, <1>p3 DEF FlagOf
    <3>3. mutex'[p].step \in {"file_lock", "persist"} /\ mutex'[p].generation = entry'[p].generation
               => entry'[p].count <= mutex'[p].count
      BY <2>3, <3>1, <1>t, <1>d, <1>p1, <1>p2, <1>p3 DEF FlagOf
    <3>4. mutex'[p].step = "persist" /\ ~entry'[p].scheduled => entry'[p].count <= mutex'[p].count
      BY <2>3, <3>1, <1>t, <1>d, <1>p1, <1>p2, <1>p3 DEF FlagOf
    <3>5. mutex'[p].step = "settle" /\ mutex'[p].generation = entry'[p].generation
               => entry'[p].count <= durable'
      BY <2>3, <3>1, <1>t, <1>d, <1>p1, <1>p2, <1>p3 DEF FlagOf
    <3>6. ~entry'[p].scheduled => entry'[p].count <= durable'
      BY <2>3, <3>1, <1>t, <1>d, <1>p1, <1>p2, <1>p3 DEF FlagOf
    <3>7. entry'[p].scheduled => tasks'[p] > 0
      BY <2>3, <3>1, <1>t, <1>d, <1>p1, <1>p2, <1>p3 DEF FlagOf
    <3>8. phase'[p] = "flushing" => pending'[p] <= entry'[p].count
      BY <2>3, <3>1, <1>t, <1>d, <1>p1, <1>p2, <1>p3 DEF FlagOf
    <3>9. mutex'[p].kind = "shutdown" => phase'[p] = "flushing"
      BY <2>3, <3>1, <1>t, <1>d, <1>p1, <1>p2, <1>p3 DEF FlagOf
    <3> QED BY <3>2, <3>3, <3>4, <3>5, <3>6, <3>7, <3>8, <3>9 DEF FlagOf
  <2> QED BY <2>2, <2>3 DEF Flags
<1> QED BY <1>1, <1>2, <1>3, <1>4

\* A task that wrote the last generation clears the flag and ends.
LEMMA FlushSettleKeepsFlags ==
    ASSUME TelemetryInv, FlagInv, NEW p \in Procs, FlushSettle(p)
    PROVE  FlagInv'
<1> USE DEF TelemetryInv, FlagInv
<1>t. /\ TypeOK /\ durable \in Int
      /\ \A q \in Procs : /\ entry[q].count \in Int /\ entry[q].generation \in Int
                          /\ mutex[q].count \in Int /\ mutex[q].generation \in Int
                          /\ tasks[q] \in Int /\ pending[q] \in Int
  BY Components DEF TypeOK
<1>o. \A q \in Procs : q # p => Same(q)
  BY DEF TypeOK, Same, FlushSettle, MarkFlushed, ReleaseLocks, shutdown, bounds
<1>d. durable' = durable /\ finished' = finished
  BY DEF FlushSettle, MarkFlushed, ReleaseLocks, shutdown, bounds
<1>p1. /\ entry'[p].count = entry[p].count /\ entry'[p].generation = entry[p].generation
       /\ entry'[p].scheduled <=> (entry[p].scheduled /\ mutex[p].generation # entry[p].generation)
  BY Components DEF TypeOK, Entries, FlushSettle, MarkFlushed, ReleaseLocks, shutdown, bounds
<1>p2. mutex'[p].step = "none" /\ mutex'[p].kind = "none"
  BY DEF TypeOK, ReleaseLocks, NoOperation, Exit, FlushSettle, MarkFlushed, ReleaseLocks, shutdown, bounds
<1>p3. phase'[p] = phase[p] /\ pending'[p] = pending[p] /\ mutex[p].step = "settle"
  BY DEF TypeOK, FlushSettle, MarkFlushed, ReleaseLocks, shutdown, bounds
<1>p4. tasks'[p] \in Int /\ (mutex[p].generation # entry[p].generation => tasks'[p] = tasks[p])
  BY <1>t DEF TypeOK, FlushSettle, MarkFlushed, ReleaseLocks, shutdown, bounds
<1>1. NoRebuildYet'
  BY <1>o DEF TypeOK, NoRebuildYet, FlushSettle, MarkFlushed, ReleaseLocks, shutdown, bounds
<1>2. SettlingIsDurable'
  BY <1>t, <1>o, <1>d, <1>p1, <1>p2, <1>p3, <1>p4 DEF SettlingIsDurable, Same
<1>3. FinisherCompletes'
  BY <1>o, <1>p1, <1>p2, <1>p3, <1>p4 DEF FinisherCompletes, Same
<1>4. Flags'
  <2>1. ASSUME NEW q \in Procs, Undisturbed(q)' PROVE Undisturbed(q)
    BY <2>1, <1>t, <1>d DEF TypeOK, Undisturbed, FlushSettle, MarkFlushed, ReleaseLocks, shutdown, bounds
  <2>2. ASSUME NEW q \in Procs, q # p, Undisturbed(q)', phase'[q] # "closed" PROVE FlagOf(q)'
    BY <2>1, <2>2, <1>t, <1>o, <1>d, OthersKeepFlags
  <2>3. ASSUME Undisturbed(p)', phase'[p] # "closed" PROVE FlagOf(p)'
    <3>1. FlagOf(p)
      BY <2>1, <2>3, <1>p1, <1>p2, <1>p3, <1>p4 DEF Flags
    <3>2. mutex'[p].step # "none" => mutex'[p].generation <= entry'[p].generation
      BY <2>3, <3>1, <1>t, <1>d, <1>p1, <1>p2, <1>p3, <1>p4 DEF FlagOf
    <3>3. mutex'[p].step \in {"file_lock", "persist"} /\ mutex'[p].generation = entry'[p].generation
               => entry'[p].count <= mutex'[p].count
      BY <2>3, <3>1, <1>t, <1>d, <1>p1, <1>p2, <1>p3, <1>p4 DEF FlagOf
    <3>4. mutex'[p].step = "persist" /\ ~entry'[p].scheduled => entry'[p].count <= mutex'[p].count
      BY <2>3, <3>1, <1>t, <1>d, <1>p1, <1>p2, <1>p3, <1>p4 DEF FlagOf
    <3>5. mutex'[p].step = "settle" /\ mutex'[p].generation = entry'[p].generation
               => entry'[p].count <= durable'
      BY <2>3, <3>1, <1>t, <1>d, <1>p1, <1>p2, <1>p3, <1>p4 DEF FlagOf
    <3>6. ~entry'[p].scheduled => entry'[p].count <= durable'
      BY <2>3, <3>1, <1>t, <1>d, <1>p1, <1>p2, <1>p3, <1>p4 DEF FlagOf
    <3>7. entry'[p].scheduled => tasks'[p] > 0
      BY <2>3, <3>1, <1>t, <1>d, <1>p1, <1>p2, <1>p3, <1>p4 DEF FlagOf
    <3>8. phase'[p] = "flushing" => pending'[p] <= entry'[p].count
      BY <2>3, <3>1, <1>t, <1>d, <1>p1, <1>p2, <1>p3, <1>p4 DEF FlagOf
    <3>9. mutex'[p].kind = "shutdown" => phase'[p] = "flushing"
      BY <2>3, <3>1, <1>t, <1>d, <1>p1, <1>p2, <1>p3, <1>p4 DEF FlagOf
    <3> QED BY <3>2, <3>3, <3>4, <3>5, <3>6, <3>7, <3>8, <3>9 DEF FlagOf
  <2> QED BY <2>2, <2>3 DEF Flags
<1> QED BY <1>1, <1>2, <1>3, <1>4

\* A fault ends the promise.
LEMMA FlushFailsKeepsFlags ==
    ASSUME TelemetryInv, FlagInv, NEW p \in Procs, FlushFails(p)
    PROVE  FlagInv'
<1> USE DEF TelemetryInv, FlagInv
<1>t. /\ TypeOK /\ durable \in Int
      /\ \A q \in Procs : /\ entry[q].count \in Int /\ entry[q].generation \in Int
                          /\ mutex[q].count \in Int /\ mutex[q].generation \in Int
                          /\ tasks[q] \in Int /\ pending[q] \in Int
  BY Components DEF TypeOK
<1>o. \A q \in Procs : q # p => Same(q)
  BY DEF TypeOK, Same, FlushFails, ReleaseLocks, shutdown, bounds
<1>d. durable' = durable /\ finished' = finished
  BY DEF FlushFails, ReleaseLocks, shutdown, bounds
<1>p1. mutex'[p].step = "none" /\ mutex'[p].kind = "none"
  BY DEF TypeOK, ReleaseLocks, NoOperation, Exit, FlushFails, ReleaseLocks, shutdown, bounds
<1>1. NoRebuildYet'
  BY <1>o DEF TypeOK, NoRebuildYet, FlushFails, ReleaseLocks, shutdown, bounds
<1>2. SettlingIsDurable'
  BY <1>t, <1>o, <1>d, <1>p1 DEF SettlingIsDurable, Same
<1>3. FinisherCompletes'
  BY <1>o, <1>p1 DEF FinisherCompletes, Same
<1>4. Flags'
  BY <1>t DEF TypeOK, Flags, Undisturbed, FlushFails, ReleaseLocks, shutdown, bounds
<1> QED BY <1>1, <1>2, <1>3, <1>4

\* The shutdown counts what is there and flushes, or leaves.
LEMMA ShutdownFlushKeepsFlags ==
    ASSUME TelemetryInv, FlagInv, NEW p \in Procs, ShutdownFlush(p)
    PROVE  FlagInv'
<1> USE DEF TelemetryInv, FlagInv
<1>t. /\ TypeOK /\ durable \in Int
      /\ \A q \in Procs : /\ entry[q].count \in Int /\ entry[q].generation \in Int
                          /\ mutex[q].count \in Int /\ mutex[q].generation \in Int
                          /\ tasks[q] \in Int /\ pending[q] \in Int
  BY Components DEF TypeOK
<1>o. \A q \in Procs : q # p => Same(q)
  BY DEF TypeOK, Same, ShutdownFlush, Exit, ReleaseLocks, NoOperation, NoRefresh, shutdown, bounds
<1>d. durable' = durable /\ finished' = finished
  BY DEF ShutdownFlush, Exit, ReleaseLocks, NoOperation, NoRefresh, shutdown, bounds
<1>p1. /\ entry'[p] = entry[p] /\ pending'[p] = entry[p].count
       /\ phase[p] = "serving"
  BY DEF TypeOK, ShutdownFlush, Exit, ReleaseLocks, NoOperation, NoRefresh, shutdown, bounds
<1>p2. phase'[p] # "closed" => mutex'[p] = mutex[p] /\ tasks'[p] = tasks[p]
  BY DEF TypeOK, ShutdownFlush, Exit, ReleaseLocks, NoOperation, NoRefresh, shutdown, bounds
<1>p3. mutex'[p] = mutex[p] \/ (mutex'[p].step = "none" /\ mutex'[p].kind = "none")
  BY DEF TypeOK, ShutdownFlush, Exit, ReleaseLocks, NoOperation, NoRefresh, shutdown, bounds
<1>1. NoRebuildYet'
  BY <1>o DEF TypeOK, NoRebuildYet, ShutdownFlush, Exit, ReleaseLocks, NoOperation, NoRefresh, shutdown, bounds
<1>2. SettlingIsDurable'
  BY <1>t, <1>o, <1>d, <1>p1, <1>p2, <1>p3 DEF SettlingIsDurable, Same
<1>3. FinisherCompletes'
  BY <1>o, <1>p1, <1>p2, <1>p3 DEF FinisherCompletes, Same
<1>4. Flags'
  <2>1. ASSUME NEW q \in Procs, Undisturbed(q)' PROVE Undisturbed(q)
    BY <2>1, <1>t, <1>d DEF TypeOK, Undisturbed, ShutdownFlush, Exit, ReleaseLocks, NoOperation, NoRefresh, shutdown, bounds
  <2>2. ASSUME NEW q \in Procs, q # p, Undisturbed(q)', phase'[q] # "closed" PROVE FlagOf(q)'
    BY <2>1, <2>2, <1>t, <1>o, <1>d, OthersKeepFlags
  <2>3. ASSUME Undisturbed(p)', phase'[p] # "closed" PROVE FlagOf(p)'
    <3>1. FlagOf(p)
      BY <2>1, <2>3, <1>p1, <1>p2, <1>p3 DEF Flags
    <3>2. mutex'[p].step # "none" => mutex'[p].generation <= entry'[p].generation
      BY <2>3, <3>1, <1>t, <1>d, <1>p1, <1>p2, <1>p3 DEF FlagOf
    <3>3. mutex'[p].step \in {"file_lock", "persist"} /\ mutex'[p].generation = entry'[p].generation
               => entry'[p].count <= mutex'[p].count
      BY <2>3, <3>1, <1>t, <1>d, <1>p1, <1>p2, <1>p3 DEF FlagOf
    <3>4. mutex'[p].step = "persist" /\ ~entry'[p].scheduled => entry'[p].count <= mutex'[p].count
      BY <2>3, <3>1, <1>t, <1>d, <1>p1, <1>p2, <1>p3 DEF FlagOf
    <3>5. mutex'[p].step = "settle" /\ mutex'[p].generation = entry'[p].generation
               => entry'[p].count <= durable'
      BY <2>3, <3>1, <1>t, <1>d, <1>p1, <1>p2, <1>p3 DEF FlagOf
    <3>6. ~entry'[p].scheduled => entry'[p].count <= durable'
      BY <2>3, <3>1, <1>t, <1>d, <1>p1, <1>p2, <1>p3 DEF FlagOf
    <3>7. entry'[p].scheduled => tasks'[p] > 0
      BY <2>3, <3>1, <1>t, <1>d, <1>p1, <1>p2, <1>p3 DEF FlagOf
    <3>8. phase'[p] = "flushing" => pending'[p] <= entry'[p].count
      BY <2>3, <3>1, <1>t, <1>d, <1>p1, <1>p2, <1>p3 DEF FlagOf
    <3>9. mutex'[p].kind = "shutdown" => phase'[p] = "flushing"
      BY <2>3, <3>1, <1>t, <1>d, <1>p1, <1>p2, <1>p3 DEF FlagOf
    <3> QED BY <3>2, <3>3, <3>4, <3>5, <3>6, <3>7, <3>8, <3>9 DEF FlagOf
  <2> QED BY <2>2, <2>3 DEF Flags
<1> QED BY <1>1, <1>2, <1>3, <1>4

\* Somebody else wrote everything: the process leaves.
LEMMA ShutdownNothingKeepsFlags ==
    ASSUME TelemetryInv, FlagInv, NEW p \in Procs, ShutdownNothing(p)
    PROVE  FlagInv'
<1> USE DEF TelemetryInv, FlagInv
<1>t. /\ TypeOK /\ durable \in Int
      /\ \A q \in Procs : /\ entry[q].count \in Int /\ entry[q].generation \in Int
                          /\ mutex[q].count \in Int /\ mutex[q].generation \in Int
                          /\ tasks[q] \in Int /\ pending[q] \in Int
  BY Components DEF TypeOK
<1>o. \A q \in Procs : q # p => Same(q)
  BY DEF TypeOK, Same, ShutdownNothing, Exit, ReleaseLocks, NoOperation, NoRefresh, shutdown, bounds
<1>d. durable' = durable /\ finished' = finished
  BY DEF ShutdownNothing, Exit, ReleaseLocks, NoOperation, NoRefresh, shutdown, bounds
<1>p1. phase'[p] = "closed"
  BY DEF TypeOK, ShutdownNothing, Exit, ReleaseLocks, NoOperation, NoRefresh, shutdown, bounds
<1>p2. mutex'[p].step = "none" /\ mutex'[p].kind = "none"
  BY DEF TypeOK, ReleaseLocks, NoOperation, Exit, ShutdownNothing, Exit, ReleaseLocks, NoOperation, NoRefresh, shutdown, bounds
<1>1. NoRebuildYet'
  BY <1>o DEF TypeOK, NoRebuildYet, ShutdownNothing, Exit, ReleaseLocks, NoOperation, NoRefresh, shutdown, bounds
<1>2. SettlingIsDurable'
  BY <1>t, <1>o, <1>d, <1>p1, <1>p2 DEF SettlingIsDurable, Same
<1>3. FinisherCompletes'
  BY <1>o, <1>p1, <1>p2 DEF FinisherCompletes, Same
<1>4. Flags'
  <2>1. ASSUME NEW q \in Procs, Undisturbed(q)' PROVE Undisturbed(q)
    BY <2>1, <1>t, <1>d DEF TypeOK, Undisturbed, ShutdownNothing, Exit, ReleaseLocks, NoOperation, NoRefresh, shutdown, bounds
  <2>2. ASSUME NEW q \in Procs, q # p, Undisturbed(q)', phase'[q] # "closed" PROVE FlagOf(q)'
    BY <2>1, <2>2, <1>t, <1>o, <1>d, OthersKeepFlags
  <2>3. ASSUME Undisturbed(p)', phase'[p] # "closed" PROVE FlagOf(p)'
    BY <2>3, <1>p1, <1>p2
  <2> QED BY <2>2, <2>3 DEF Flags
<1> QED BY <1>1, <1>2, <1>3, <1>4

\* The shutdown flush leaves once it wrote the last generation.
LEMMA ShutdownSettleKeepsFlags ==
    ASSUME TelemetryInv, FlagInv, NEW p \in Procs, ShutdownSettle(p)
    PROVE  FlagInv'
<1> USE DEF TelemetryInv, FlagInv
<1>t. /\ TypeOK /\ durable \in Int
      /\ \A q \in Procs : /\ entry[q].count \in Int /\ entry[q].generation \in Int
                          /\ mutex[q].count \in Int /\ mutex[q].generation \in Int
                          /\ tasks[q] \in Int /\ pending[q] \in Int
  BY Components DEF TypeOK
<1>o. \A q \in Procs : q # p => Same(q)
  BY DEF TypeOK, Same, ShutdownSettle, Exit, ReleaseLocks, NoOperation, NoRefresh, MarkFlushed, shutdown, bounds
<1>d. durable' = durable /\ finished' = finished
  BY DEF ShutdownSettle, Exit, ReleaseLocks, NoOperation, NoRefresh, MarkFlushed, shutdown, bounds
<1>p1. /\ entry'[p].count = entry[p].count /\ entry'[p].generation = entry[p].generation
       /\ entry'[p].scheduled <=> (entry[p].scheduled /\ mutex[p].generation # entry[p].generation)
  BY Components DEF TypeOK, Entries, ShutdownSettle, Exit, ReleaseLocks, NoOperation, NoRefresh, MarkFlushed, shutdown, bounds
<1>p2. mutex'[p].step = "none" /\ mutex'[p].kind = "none"
  BY DEF TypeOK, ReleaseLocks, NoOperation, Exit, ShutdownSettle, Exit, ReleaseLocks, NoOperation, NoRefresh, MarkFlushed, shutdown, bounds
<1>p3. mutex[p].step = "settle" /\ pending'[p] = pending[p]
  BY DEF TypeOK, ShutdownSettle, Exit, ReleaseLocks, NoOperation, NoRefresh, MarkFlushed, shutdown, bounds
<1>p4. phase'[p] # "closed" => phase'[p] = phase[p] /\ tasks'[p] = tasks[p] /\ mutex[p].generation # entry[p].generation
  BY DEF TypeOK, ShutdownSettle, Exit, ReleaseLocks, NoOperation, NoRefresh, MarkFlushed, shutdown, bounds
<1>1. NoRebuildYet'
  BY <1>o DEF TypeOK, NoRebuildYet, ShutdownSettle, Exit, ReleaseLocks, NoOperation, NoRefresh, MarkFlushed, shutdown, bounds
<1>2. SettlingIsDurable'
  BY <1>t, <1>o, <1>d, <1>p1, <1>p2, <1>p3, <1>p4 DEF SettlingIsDurable, Same
<1>3. FinisherCompletes'
  BY <1>o, <1>p1, <1>p2, <1>p3, <1>p4 DEF FinisherCompletes, Same
<1>4. Flags'
  <2>1. ASSUME NEW q \in Procs, Undisturbed(q)' PROVE Undisturbed(q)
    BY <2>1, <1>t, <1>d DEF TypeOK, Undisturbed, ShutdownSettle, Exit, ReleaseLocks, NoOperation, NoRefresh, MarkFlushed, shutdown, bounds
  <2>2. ASSUME NEW q \in Procs, q # p, Undisturbed(q)', phase'[q] # "closed" PROVE FlagOf(q)'
    BY <2>1, <2>2, <1>t, <1>o, <1>d, OthersKeepFlags
  <2>3. ASSUME Undisturbed(p)', phase'[p] # "closed" PROVE FlagOf(p)'
    <3>1. FlagOf(p)
      BY <2>1, <2>3, <1>p1, <1>p2, <1>p3, <1>p4 DEF Flags
    <3>2. mutex'[p].step # "none" => mutex'[p].generation <= entry'[p].generation
      BY <2>3, <3>1, <1>t, <1>d, <1>p1, <1>p2, <1>p3, <1>p4 DEF FlagOf
    <3>3. mutex'[p].step \in {"file_lock", "persist"} /\ mutex'[p].generation = entry'[p].generation
               => entry'[p].count <= mutex'[p].count
      BY <2>3, <3>1, <1>t, <1>d, <1>p1, <1>p2, <1>p3, <1>p4 DEF FlagOf
    <3>4. mutex'[p].step = "persist" /\ ~entry'[p].scheduled => entry'[p].count <= mutex'[p].count
      BY <2>3, <3>1, <1>t, <1>d, <1>p1, <1>p2, <1>p3, <1>p4 DEF FlagOf
    <3>5. mutex'[p].step = "settle" /\ mutex'[p].generation = entry'[p].generation
               => entry'[p].count <= durable'
      BY <2>3, <3>1, <1>t, <1>d, <1>p1, <1>p2, <1>p3, <1>p4 DEF FlagOf
    <3>6. ~entry'[p].scheduled => entry'[p].count <= durable'
      BY <2>3, <3>1, <1>t, <1>d, <1>p1, <1>p2, <1>p3, <1>p4 DEF FlagOf
    <3>7. entry'[p].scheduled => tasks'[p] > 0
      BY <2>3, <3>1, <1>t, <1>d, <1>p1, <1>p2, <1>p3, <1>p4 DEF FlagOf
    <3>8. phase'[p] = "flushing" => pending'[p] <= entry'[p].count
      BY <2>3, <3>1, <1>t, <1>d, <1>p1, <1>p2, <1>p3, <1>p4 DEF FlagOf
    <3>9. mutex'[p].kind = "shutdown" => phase'[p] = "flushing"
      BY <2>3, <3>1, <1>t, <1>d, <1>p1, <1>p2, <1>p3, <1>p4 DEF FlagOf
    <3> QED BY <3>2, <3>3, <3>4, <3>5, <3>6, <3>7, <3>8, <3>9 DEF FlagOf
  <2> QED BY <2>2, <2>3 DEF Flags
<1> QED BY <1>1, <1>2, <1>3, <1>4

\* A fault of the shutdown flush ends the promise.
LEMMA ShutdownFailsKeepsFlags ==
    ASSUME TelemetryInv, FlagInv, NEW p \in Procs, ShutdownFails(p)
    PROVE  FlagInv'
<1> USE DEF TelemetryInv, FlagInv
<1>t. /\ TypeOK /\ durable \in Int
      /\ \A q \in Procs : /\ entry[q].count \in Int /\ entry[q].generation \in Int
                          /\ mutex[q].count \in Int /\ mutex[q].generation \in Int
                          /\ tasks[q] \in Int /\ pending[q] \in Int
  BY Components DEF TypeOK
<1>o. \A q \in Procs : q # p => Same(q)
  BY DEF TypeOK, Same, ShutdownFails, Exit, ReleaseLocks, NoOperation, NoRefresh, shutdown, bounds
<1>d. durable' = durable /\ finished' = finished
  BY DEF ShutdownFails, Exit, ReleaseLocks, NoOperation, NoRefresh, shutdown, bounds
<1>p1. mutex'[p].step = "none" /\ mutex'[p].kind = "none"
  BY DEF TypeOK, ReleaseLocks, NoOperation, Exit, ShutdownFails, Exit, ReleaseLocks, NoOperation, NoRefresh, shutdown, bounds
<1>1. NoRebuildYet'
  BY <1>o DEF TypeOK, NoRebuildYet, ShutdownFails, Exit, ReleaseLocks, NoOperation, NoRefresh, shutdown, bounds
<1>2. SettlingIsDurable'
  BY <1>t, <1>o, <1>d, <1>p1 DEF SettlingIsDurable, Same
<1>3. FinisherCompletes'
  BY <1>o, <1>p1 DEF FinisherCompletes, Same
<1>4. Flags'
  BY <1>t DEF TypeOK, Flags, Undisturbed, ShutdownFails, Exit, ReleaseLocks, NoOperation, NoRefresh, shutdown, bounds
<1> QED BY <1>1, <1>2, <1>3, <1>4

\* A mutation merges the entry with its generation.
LEMMA MutateBeginMutateKeepsFlags ==
    ASSUME TelemetryInv, FlagInv, NEW p \in Procs, MutateBegin(p, "mutate")
    PROVE  FlagInv'
<1> USE DEF TelemetryInv, FlagInv
<1>t. /\ TypeOK /\ durable \in Int
      /\ \A q \in Procs : /\ entry[q].count \in Int /\ entry[q].generation \in Int
                          /\ mutex[q].count \in Int /\ mutex[q].generation \in Int
                          /\ tasks[q] \in Int /\ pending[q] \in Int
  BY Components DEF TypeOK
<1>o. \A q \in Procs : q # p => Same(q)
  BY DEF TypeOK, Same, MutateBegin, Merged, Larger, shutdown, bounds
<1>d. durable' = durable /\ finished' = finished
  BY DEF MutateBegin, Merged, Larger, shutdown, bounds
<1>p1. /\ entry'[p] = entry[p] /\ tasks'[p] = tasks[p] /\ phase'[p] = phase[p] /\ pending'[p] = pending[p]
  BY DEF TypeOK, MutateBegin, Merged, Larger, shutdown, bounds
<1>p2. /\ mutex'[p].kind = "mutate" /\ mutex'[p].step = "persist" /\ mutex'[p].count \in Int
       /\ mutex'[p].count >= entry[p].count /\ mutex'[p].generation = entry[p].generation
  BY <1>t DEF TypeOK, MutateBegin, Merged, Larger, shutdown, bounds
<1>1. NoRebuildYet'
  BY <1>o DEF TypeOK, NoRebuildYet, MutateBegin, Merged, Larger, shutdown, bounds
<1>2. SettlingIsDurable'
  BY <1>t, <1>o, <1>d, <1>p1, <1>p2 DEF SettlingIsDurable, Same
<1>3. FinisherCompletes'
  BY <1>o, <1>p1, <1>p2 DEF FinisherCompletes, Same
<1>4. Flags'
  <2>1. ASSUME NEW q \in Procs, Undisturbed(q)' PROVE Undisturbed(q)
    BY <2>1, <1>t, <1>d DEF TypeOK, Undisturbed, MutateBegin, Merged, Larger, shutdown, bounds
  <2>2. ASSUME NEW q \in Procs, q # p, Undisturbed(q)', phase'[q] # "closed" PROVE FlagOf(q)'
    BY <2>1, <2>2, <1>t, <1>o, <1>d, OthersKeepFlags
  <2>3. ASSUME Undisturbed(p)', phase'[p] # "closed" PROVE FlagOf(p)'
    <3>1. FlagOf(p)
      BY <2>1, <2>3, <1>p1, <1>p2 DEF Flags
    <3> QED BY <3>1, <1>t, <1>d, <1>p1, <1>p2 DEF FlagOf
  <2> QED BY <2>2, <2>3 DEF Flags
<1> QED BY <1>1, <1>2, <1>3, <1>4

\* A completion takes the counters of its own entry.
LEMMA MutateBeginFinishKeepsFlags ==
    ASSUME TelemetryInv, FlagInv, NEW p \in Procs, MutateBegin(p, "finish")
    PROVE  FlagInv'
<1> USE DEF TelemetryInv, FlagInv
<1>t. /\ TypeOK /\ durable \in Int
      /\ \A q \in Procs : /\ entry[q].count \in Int /\ entry[q].generation \in Int
                          /\ mutex[q].count \in Int /\ mutex[q].generation \in Int
                          /\ tasks[q] \in Int /\ pending[q] \in Int
  BY Components DEF TypeOK
<1>o. \A q \in Procs : q # p => Same(q)
  BY DEF TypeOK, Same, MutateBegin, Merged, Larger, shutdown, bounds
<1>d. durable' = durable /\ finished' = finished
  BY DEF MutateBegin, Merged, Larger, shutdown, bounds
<1>p1. /\ entry'[p] = entry[p] /\ tasks'[p] = tasks[p] /\ phase'[p] = phase[p] /\ pending'[p] = pending[p] /\ p \in Finisher
  BY DEF TypeOK, MutateBegin, Merged, Larger, shutdown, bounds
<1>p2. /\ mutex'[p].kind = "finish" /\ mutex'[p].step = "persist" /\ mutex'[p].count \in Int
       /\ mutex'[p].count >= entry[p].count /\ mutex'[p].generation = entry[p].generation
  BY <1>t DEF TypeOK, MutateBegin, Merged, Larger, shutdown, bounds
<1>1. NoRebuildYet'
  BY <1>o DEF TypeOK, NoRebuildYet, MutateBegin, Merged, Larger, shutdown, bounds
<1>2. SettlingIsDurable'
  BY <1>t, <1>o, <1>d, <1>p1, <1>p2 DEF SettlingIsDurable, Same
<1>3. FinisherCompletes'
  BY <1>o, <1>p1, <1>p2 DEF FinisherCompletes, Same
<1>4. Flags'
  <2>1. ASSUME NEW q \in Procs, Undisturbed(q)' PROVE Undisturbed(q)
    BY <2>1, <1>t, <1>d DEF TypeOK, Undisturbed, MutateBegin, Merged, Larger, shutdown, bounds
  <2>2. ASSUME NEW q \in Procs, q # p, Undisturbed(q)', phase'[q] # "closed" PROVE FlagOf(q)'
    BY <2>1, <2>2, <1>t, <1>o, <1>d, OthersKeepFlags
  <2>3. ASSUME Undisturbed(p)', phase'[p] # "closed" PROVE FlagOf(p)'
    <3>1. FlagOf(p)
      BY <2>1, <2>3, <1>p1, <1>p2 DEF Flags
    <3> QED BY <3>1, <1>t, <1>d, <1>p1, <1>p2 DEF FlagOf
  <2> QED BY <2>2, <2>3 DEF Flags
<1> QED BY <1>1, <1>2, <1>3, <1>4

\* A mutation never lowers the manifest; a completion is made by the server itself.
LEMMA MutatePersistKeepsFlags ==
    ASSUME TelemetryInv, FlagInv, NEW p \in Procs, MutatePersist(p)
    PROVE  FlagInv'
<1> USE DEF TelemetryInv, FlagInv
<1>t. /\ TypeOK /\ durable \in Int
      /\ \A q \in Procs : /\ entry[q].count \in Int /\ entry[q].generation \in Int
                          /\ mutex[q].count \in Int /\ mutex[q].generation \in Int
                          /\ tasks[q] \in Int /\ pending[q] \in Int
  BY Components DEF TypeOK
<1>o. \A q \in Procs : q # p => Same(q)
  BY DEF TypeOK, Same, MutatePersist, shutdown, bounds
<1>d. durable' \in Int /\ durable' = mutex[p].count
  BY <1>t DEF MutatePersist
<1>p1. /\ entry'[p] = entry[p] /\ tasks'[p] = tasks[p]
       /\ phase'[p] = phase[p] /\ pending'[p] = pending[p] /\ mutex[p].step = "persist"
  BY DEF TypeOK, MutatePersist, shutdown, bounds
<1>p2. /\ mutex'[p].kind = mutex[p].kind /\ mutex'[p].step = "settle"
       /\ mutex'[p].count = mutex[p].count /\ mutex'[p].generation = mutex[p].generation
  BY Components DEF TypeOK, Operations, MutatePersist, shutdown, bounds
<1>p3. \A q \in Procs : q # p => mutex[q].step # "settle"
  BY <1>p1 DEF LockedWhileMutating
<1>p4. mutex[p].kind = "mutate" => durable' >= durable
  BY <1>p1, <1>d DEF MergedIsCurrent
<1>p5. mutex[p].kind \in {"mutate", "finish"} /\ (finished' <=> finished \/ mutex[p].kind = "finish")
  BY DEF MutatePersist, shutdown, bounds
<1>1. NoRebuildYet'
  BY <1>o DEF TypeOK, NoRebuildYet, MutatePersist, shutdown, bounds
<1>2. SettlingIsDurable'
  BY <1>t, <1>o, <1>d, <1>p1, <1>p2, <1>p3, <1>p4, <1>p5 DEF SettlingIsDurable, Same
<1>3. FinisherCompletes'
  BY <1>o, <1>p1, <1>p2, <1>p3, <1>p4, <1>p5 DEF FinisherCompletes, Same
<1>4. Flags'
  <2>1. ASSUME NEW q \in Procs, Undisturbed(q)' PROVE Undisturbed(q) /\ (durable' >= durable \/ q = p)
    BY <2>1, <1>t, <1>d, <1>p4, <1>p5, TelemetryAssumption DEF TypeOK, Undisturbed, FinisherCompletes, MutatePersist, shutdown, bounds
  <2>2. ASSUME NEW q \in Procs, q # p, Undisturbed(q)', phase'[q] # "closed" PROVE FlagOf(q)'
    BY <2>1, <2>2, <1>t, <1>o, <1>d, OthersKeepFlags
  <2>3. ASSUME Undisturbed(p)', phase'[p] # "closed" PROVE FlagOf(p)'
    <3>1. FlagOf(p)
      BY <2>1, <2>3, <1>p1, <1>p2, <1>p3, <1>p4, <1>p5 DEF Flags
    <3>2. mutex'[p].step # "none" => mutex'[p].generation <= entry'[p].generation
      BY <2>3, <3>1, <1>t, <1>d, <1>p1, <1>p2, <1>p3, <1>p4, <1>p5 DEF FlagOf
    <3>3. mutex'[p].step \in {"file_lock", "persist"} /\ mutex'[p].generation = entry'[p].generation
               => entry'[p].count <= mutex'[p].count
      BY <2>3, <3>1, <1>t, <1>d, <1>p1, <1>p2, <1>p3, <1>p4, <1>p5 DEF FlagOf
    <3>4. mutex'[p].step = "persist" /\ ~entry'[p].scheduled => entry'[p].count <= mutex'[p].count
      BY <2>3, <3>1, <1>t, <1>d, <1>p1, <1>p2, <1>p3, <1>p4, <1>p5 DEF FlagOf
    <3>5. mutex'[p].step = "settle" /\ mutex'[p].generation = entry'[p].generation
               => entry'[p].count <= durable'
      BY <2>3, <3>1, <1>t, <1>d, <1>p1, <1>p2, <1>p3, <1>p4, <1>p5 DEF FlagOf
    <3>6. ~entry'[p].scheduled => entry'[p].count <= durable'
      BY <2>3, <3>1, <1>t, <1>d, <1>p1, <1>p2, <1>p3, <1>p4, <1>p5 DEF FlagOf
    <3>7. entry'[p].scheduled => tasks'[p] > 0
      BY <2>3, <3>1, <1>t, <1>d, <1>p1, <1>p2, <1>p3, <1>p4, <1>p5 DEF FlagOf
    <3>8. phase'[p] = "flushing" => pending'[p] <= entry'[p].count
      BY <2>3, <3>1, <1>t, <1>d, <1>p1, <1>p2, <1>p3, <1>p4, <1>p5 DEF FlagOf
    <3>9. mutex'[p].kind = "shutdown" => phase'[p] = "flushing"
      BY <2>3, <3>1, <1>t, <1>d, <1>p1, <1>p2, <1>p3, <1>p4, <1>p5 DEF FlagOf
    <3> QED BY <3>2, <3>3, <3>4, <3>5, <3>6, <3>7, <3>8, <3>9 DEF FlagOf
  <2> QED BY <2>2, <2>3 DEF Flags
<1> QED BY <1>1, <1>2, <1>3, <1>4

\* A mutation that merged the last generation clears the flag.
LEMMA MutateSettleKeepsFlags ==
    ASSUME TelemetryInv, FlagInv, NEW p \in Procs, MutateSettle(p)
    PROVE  FlagInv'
<1> USE DEF TelemetryInv, FlagInv
<1>t. /\ TypeOK /\ durable \in Int
      /\ \A q \in Procs : /\ entry[q].count \in Int /\ entry[q].generation \in Int
                          /\ mutex[q].count \in Int /\ mutex[q].generation \in Int
                          /\ tasks[q] \in Int /\ pending[q] \in Int
  BY Components DEF TypeOK
<1>o. \A q \in Procs : q # p => Same(q)
  BY DEF TypeOK, Same, MutateSettle, MarkFlushed, ReleaseLocks, Larger, shutdown, bounds
<1>d. durable' = durable /\ finished' = finished
  BY DEF MutateSettle, MarkFlushed, ReleaseLocks, Larger, shutdown, bounds
<1>p1. /\ entry'[p].count \in Int /\ entry'[p].count >= entry[p].count
       /\ entry'[p].count = entry[p].count \/ entry'[p].count = mutex[p].count
  BY <1>t, Components DEF TypeOK, Entries, MutateSettle, MarkFlushed, ReleaseLocks, Larger, shutdown, bounds
<1>p2. /\ entry'[p].generation = entry[p].generation
       /\ entry'[p].scheduled <=> (entry[p].scheduled /\ mutex[p].generation # entry[p].generation)
  BY Components DEF TypeOK, Entries, MutateSettle, MarkFlushed, ReleaseLocks, Larger, shutdown, bounds
<1>p3. mutex'[p].step = "none" /\ mutex'[p].kind = "none"
  BY DEF TypeOK, ReleaseLocks, NoOperation, Exit, MutateSettle, MarkFlushed, ReleaseLocks, Larger, shutdown, bounds
<1>p4. tasks'[p] = tasks[p] /\ phase'[p] = phase[p] /\ pending'[p] = pending[p] /\ mutex[p].step = "settle"
  BY DEF TypeOK, MutateSettle, MarkFlushed, ReleaseLocks, Larger, shutdown, bounds
<1>p5. mutex[p].count <= durable
  BY <1>p4 DEF SettlingIsDurable
<1>1. NoRebuildYet'
  BY <1>o DEF TypeOK, NoRebuildYet, MutateSettle, MarkFlushed, ReleaseLocks, Larger, shutdown, bounds
<1>2. SettlingIsDurable'
  BY <1>t, <1>o, <1>d, <1>p1, <1>p2, <1>p3, <1>p4, <1>p5 DEF SettlingIsDurable, Same
<1>3. FinisherCompletes'
  BY <1>o, <1>p1, <1>p2, <1>p3, <1>p4, <1>p5 DEF FinisherCompletes, Same
<1>4. Flags'
  <2>1. ASSUME NEW q \in Procs, Undisturbed(q)' PROVE Undisturbed(q)
    BY <2>1, <1>t, <1>d DEF TypeOK, Undisturbed, MutateSettle, MarkFlushed, ReleaseLocks, Larger, shutdown, bounds
  <2>2. ASSUME NEW q \in Procs, q # p, Undisturbed(q)', phase'[q] # "closed" PROVE FlagOf(q)'
    BY <2>1, <2>2, <1>t, <1>o, <1>d, OthersKeepFlags
  <2>3. ASSUME Undisturbed(p)', phase'[p] # "closed" PROVE FlagOf(p)'
    <3>1. FlagOf(p)
      BY <2>1, <2>3, <1>p1, <1>p2, <1>p3, <1>p4, <1>p5 DEF Flags
    <3>2. mutex'[p].step # "none" => mutex'[p].generation <= entry'[p].generation
      BY <2>3, <3>1, <1>t, <1>d, <1>p1, <1>p2, <1>p3, <1>p4, <1>p5 DEF FlagOf
    <3>3. mutex'[p].step \in {"file_lock", "persist"} /\ mutex'[p].generation = entry'[p].generation
               => entry'[p].count <= mutex'[p].count
      BY <2>3, <3>1, <1>t, <1>d, <1>p1, <1>p2, <1>p3, <1>p4, <1>p5 DEF FlagOf
    <3>4. mutex'[p].step = "persist" /\ ~entry'[p].scheduled => entry'[p].count <= mutex'[p].count
      BY <2>3, <3>1, <1>t, <1>d, <1>p1, <1>p2, <1>p3, <1>p4, <1>p5 DEF FlagOf
    <3>5. mutex'[p].step = "settle" /\ mutex'[p].generation = entry'[p].generation
               => entry'[p].count <= durable'
      BY <2>3, <3>1, <1>t, <1>d, <1>p1, <1>p2, <1>p3, <1>p4, <1>p5 DEF FlagOf
    <3>6. ~entry'[p].scheduled => entry'[p].count <= durable'
      BY <2>3, <3>1, <1>t, <1>d, <1>p1, <1>p2, <1>p3, <1>p4, <1>p5 DEF FlagOf
    <3>7. entry'[p].scheduled => tasks'[p] > 0
      BY <2>3, <3>1, <1>t, <1>d, <1>p1, <1>p2, <1>p3, <1>p4, <1>p5 DEF FlagOf
    <3>8. phase'[p] = "flushing" => pending'[p] <= entry'[p].count
      BY <2>3, <3>1, <1>t, <1>d, <1>p1, <1>p2, <1>p3, <1>p4, <1>p5 DEF FlagOf
    <3>9. mutex'[p].kind = "shutdown" => phase'[p] = "flushing"
      BY <2>3, <3>1, <1>t, <1>d, <1>p1, <1>p2, <1>p3, <1>p4, <1>p5 DEF FlagOf
    <3> QED BY <3>2, <3>3, <3>4, <3>5, <3>6, <3>7, <3>8, <3>9 DEF FlagOf
  <2> QED BY <2>2, <2>3 DEF Flags
<1> QED BY <1>1, <1>2, <1>3, <1>4

\* A fault ends the promise.
LEMMA MutateFailsKeepsFlags ==
    ASSUME TelemetryInv, FlagInv, NEW p \in Procs, MutateFails(p)
    PROVE  FlagInv'
<1> USE DEF TelemetryInv, FlagInv
<1>t. /\ TypeOK /\ durable \in Int
      /\ \A q \in Procs : /\ entry[q].count \in Int /\ entry[q].generation \in Int
                          /\ mutex[q].count \in Int /\ mutex[q].generation \in Int
                          /\ tasks[q] \in Int /\ pending[q] \in Int
  BY Components DEF TypeOK
<1>o. \A q \in Procs : q # p => Same(q)
  BY DEF TypeOK, Same, MutateFails, ReleaseLocks, shutdown, bounds
<1>d. durable' = durable /\ finished' = finished
  BY DEF MutateFails, ReleaseLocks, shutdown, bounds
<1>p1. mutex'[p].step = "none" /\ mutex'[p].kind = "none"
  BY DEF TypeOK, ReleaseLocks, NoOperation, Exit, MutateFails, ReleaseLocks, shutdown, bounds
<1>1. NoRebuildYet'
  BY <1>o DEF TypeOK, NoRebuildYet, MutateFails, ReleaseLocks, shutdown, bounds
<1>2. SettlingIsDurable'
  BY <1>t, <1>o, <1>d, <1>p1 DEF SettlingIsDurable, Same
<1>3. FinisherCompletes'
  BY <1>o, <1>p1 DEF FinisherCompletes, Same
<1>4. Flags'
  BY <1>t DEF TypeOK, Flags, Undisturbed, MutateFails, ReleaseLocks, shutdown, bounds
<1> QED BY <1>1, <1>2, <1>3, <1>4

\* So does a rebuild.
LEMMA RefreshScanKeepsFlags ==
    ASSUME TelemetryInv, FlagInv, NEW p \in Procs, RefreshScan(p)
    PROVE  FlagInv'
<1> USE DEF TelemetryInv, FlagInv
<1>t. /\ TypeOK /\ durable \in Int
      /\ \A q \in Procs : /\ entry[q].count \in Int /\ entry[q].generation \in Int
                          /\ mutex[q].count \in Int /\ mutex[q].generation \in Int
                          /\ tasks[q] \in Int /\ pending[q] \in Int
  BY Components DEF TypeOK
<1>o. \A q \in Procs : q # p => Same(q)
  BY DEF TypeOK, Same, RefreshScan, shutdown, bounds
<1>d. durable' = durable /\ finished' = finished
  BY DEF RefreshScan, shutdown, bounds
<1>p1. mutex'[p] = mutex[p]
  BY DEF RefreshScan, shutdown, bounds
<1>1. NoRebuildYet'
  BY <1>t DEF TypeOK, NoRebuildYet, RefreshScan, shutdown, bounds
<1>2. SettlingIsDurable'
  BY <1>t, <1>o, <1>d, <1>p1 DEF SettlingIsDurable, Same
<1>3. FinisherCompletes'
  BY <1>o, <1>p1 DEF FinisherCompletes, Same
<1>4. Flags'
  BY <1>t DEF TypeOK, Flags, Undisturbed, RefreshScan, shutdown, bounds
<1> QED BY <1>1, <1>2, <1>3, <1>4

\* A rebuild is counted.
LEMMA RefreshMergeKeepsFlags ==
    ASSUME TelemetryInv, FlagInv, NEW p \in Procs, RefreshMerge(p)
    PROVE  FlagInv'
<1> USE DEF TelemetryInv, FlagInv
<1>t. /\ TypeOK /\ durable \in Int
      /\ \A q \in Procs : /\ entry[q].count \in Int /\ entry[q].generation \in Int
                          /\ mutex[q].count \in Int /\ mutex[q].generation \in Int
                          /\ tasks[q] \in Int /\ pending[q] \in Int
  BY Components DEF TypeOK
<1>o. \A q \in Procs : q # p => Same(q)
  BY DEF TypeOK, Same, RefreshMerge, shutdown, bounds
<1>d. durable' = durable /\ finished' = finished
  BY DEF RefreshMerge, shutdown, bounds
<1>p1. mutex'[p] = mutex[p] /\ refresh[p] # NoRefresh /\ refreshes' = refreshes
  BY DEF NoRefresh, RefreshMerge, shutdown, bounds
<1>1. NoRebuildYet'
  BY <1>p1 DEF NoRebuildYet
<1>2. SettlingIsDurable'
  BY <1>t, <1>o, <1>d, <1>p1 DEF SettlingIsDurable, Same
<1>3. FinisherCompletes'
  BY <1>o, <1>p1 DEF FinisherCompletes, Same
<1>4. Flags'
  BY <1>p1 DEF Flags, Undisturbed, NoRebuildYet
<1> QED BY <1>1, <1>2, <1>3, <1>4

\* Its installation too.
LEMMA RefreshInstallKeepsFlags ==
    ASSUME TelemetryInv, FlagInv, NEW p \in Procs, RefreshInstall(p)
    PROVE  FlagInv'
<1> USE DEF TelemetryInv, FlagInv
<1>t. /\ TypeOK /\ durable \in Int
      /\ \A q \in Procs : /\ entry[q].count \in Int /\ entry[q].generation \in Int
                          /\ mutex[q].count \in Int /\ mutex[q].generation \in Int
                          /\ tasks[q] \in Int /\ pending[q] \in Int
  BY Components DEF TypeOK
<1>o. \A q \in Procs : q # p => Same(q)
  BY DEF TypeOK, Same, RefreshInstall, shutdown, bounds
<1>d. durable' = durable /\ finished' = finished
  BY DEF RefreshInstall, shutdown, bounds
<1>p1. mutex'[p] = mutex[p] /\ refresh[p] # NoRefresh /\ refreshes' = refreshes
  BY DEF NoRefresh, RefreshInstall, shutdown, bounds
<1>1. NoRebuildYet'
  BY <1>p1 DEF NoRebuildYet
<1>2. SettlingIsDurable'
  BY <1>t, <1>o, <1>d, <1>p1 DEF SettlingIsDurable, Same
<1>3. FinisherCompletes'
  BY <1>o, <1>p1 DEF FinisherCompletes, Same
<1>4. Flags'
  BY <1>p1 DEF Flags, Undisturbed, NoRebuildYet
<1> QED BY <1>1, <1>2, <1>3, <1>4

\* FlagInv holds initially, with nothing recorded.
LEMMA FlagInit == Init => FlagInv
<1> SUFFICES ASSUME Init PROVE FlagInv
  OBVIOUS
<1>1. \A p \in Procs : /\ mutex[p].step = "none" /\ mutex[p].kind = "none"
                       /\ entry[p].count = 0 /\ ~entry[p].scheduled /\ phase[p] = "serving"
                       /\ refresh[p] = NoRefresh
  BY DEF Init, NoOperation, NewEntry
<1>2. durable = 0
  BY DEF Init
<1> QED BY <1>1, <1>2 DEF FlagInv, NoRebuildYet, SettlingIsDurable, FinisherCompletes, Flags, FlagOf

\* Every step preserves it.
LEMMA NextKeepsFlags == TelemetryInv /\ FlagInv /\ [Next]_vars => FlagInv'
<1> SUFFICES ASSUME TelemetryInv, FlagInv, [Next]_vars PROVE FlagInv'
  OBVIOUS
<1>1. CASE UNCHANGED vars
  BY <1>1 DEF vars, FlagInv, NoRebuildYet, SettlingIsDurable, FinisherCompletes, Flags, FlagOf,
     Undisturbed
<1>2. ASSUME NEW p \in Procs, Record(p) PROVE FlagInv'
  BY <1>2, RecordKeepsFlags
<1>3. ASSUME NEW p \in Procs, FlushStep(p) PROVE FlagInv'
  BY <1>3, FlushNothingKeepsFlags, FlushSnapshotTaskKeepsFlags, FlushPersistKeepsFlags,
     FlushSettleKeepsFlags, FlushFailsKeepsFlags DEF FlushStep
<1>4. ASSUME NEW p \in Procs, MutationStep(p) PROVE FlagInv'
  BY <1>4, MutatePersistKeepsFlags, MutateSettleKeepsFlags, MutateFailsKeepsFlags
  DEF MutationStep
<1>5. ASSUME NEW p \in Procs, MutateBegin(p, "mutate") \/ MutateBegin(p, "finish")
      PROVE  FlagInv'
  BY <1>5, MutateBeginMutateKeepsFlags, MutateBeginFinishKeepsFlags
<1>6. ASSUME NEW p \in Procs, ShutdownFlush(p) \/ ShutdownStep(p) PROVE FlagInv'
  BY <1>6, ShutdownFlushKeepsFlags, FlushSnapshotShutdownKeepsFlags, ShutdownNothingKeepsFlags,
     ShutdownSettleKeepsFlags, ShutdownFailsKeepsFlags DEF ShutdownStep
<1>7. ASSUME NEW p \in Procs, RefreshScan(p) \/ RefreshStep(p) PROVE FlagInv'
  BY <1>7, RefreshScanKeepsFlags, RefreshMergeKeepsFlags, RefreshInstallKeepsFlags
  DEF RefreshStep
<1> QED BY <1>1, <1>2, <1>3, <1>4, <1>5, <1>6, <1>7 DEF Next, AllClosed

\* The inductive invariant behind the scheduled flag.
THEOREM FlagInvariance == Spec => []FlagInv
<1> QED BY TelemetryInvariance, FlagInit, NextKeepsFlags, PTL DEF Spec

\* mark_dirty and mark_telemetry_flushed: however records, flushes and mutations of any
\* number of processes interleave, counters that no flush is scheduled for are in the
\* manifest, and scheduled ones have a task.
THEOREM FlagTellsTheTruth == Spec => []ScheduledFlagIsTrue
<1>1. TelemetryInv /\ FlagInv => ScheduledFlagIsTrue
  BY DEF TelemetryInv, FlagInv, Flags, FlagOf, ScheduledFlagIsTrue, UnscheduledIsDurable,
     ScheduledHasTask
<1> QED BY <1>1, TelemetryInvariance, FlagInvariance, PTL

\* flush_pending_telemetry: a process that shuts down gracefully leaves only when what was
\* recorded as the shutdown began is in the manifest.
THEOREM ShutdownLosesNothing == Spec => ShutdownKeepsTelemetry
<1> DEFINE Kept == \A p \in Procs : Undisturbed(p)' /\ phase[p] # "closed" /\ phase'[p] = "closed"
                       => durable' >= pending'[p]
<1>1. ASSUME TelemetryInv, FlagInv, [Next]_vars PROVE Kept
  <2> SUFFICES ASSUME NEW p \in Procs, Undisturbed(p)', phase[p] # "closed", phase'[p] = "closed"
               PROVE  durable' >= pending'[p]
    OBVIOUS
  <2>t. /\ durable \in Int /\ entry[p].count \in Int /\ pending[p] \in Int /\ faults \in Nat
    BY <1>1, Components DEF TelemetryInv, TypeOK
  <2>1. ShutdownFlush(p) \/ ShutdownNothing(p) \/ ShutdownSettle(p) \/ ShutdownFails(p)
    <3>1. ASSUME NEW q \in Procs, ShutdownFlush(q) \/ ShutdownNothing(q) \/ ShutdownSettle(q)
                                  \/ ShutdownFails(q)
          PROVE  q = p
      BY <1>1, <3>1 DEF TelemetryInv, TypeOK, ShutdownFlush, ShutdownNothing, ShutdownSettle,
         ShutdownFails, Exit, shutdown
    <3>2. ASSUME UNCHANGED phase PROVE FALSE
      BY <3>2
    <3> QED BY <1>1, <3>1, <3>2 DEF Next, vars, shutdown, FlushStep, MutationStep, ShutdownStep,
       RefreshStep, AllClosed, Record, FlushNothing, FlushSnapshot, FlushPersist, FlushSettle,
       FlushFails, MutateBegin, MutatePersist, MutateSettle, MutateFails, RefreshScan,
       RefreshMerge, RefreshInstall
  <2>2. ~ShutdownFails(p)
    BY <2>t DEF Undisturbed, ShutdownFails
  <2>3. durable' = durable
    BY <2>1, <2>2 DEF ShutdownFlush, ShutdownNothing, ShutdownSettle
  <2>4. Undisturbed(p)
    BY <2>1, <2>2 DEF Undisturbed, ShutdownFlush, ShutdownNothing, ShutdownSettle, bounds
  <2>5. FlagOf(p)
    BY <1>1, <2>4 DEF FlagInv, Flags
  <2>6. CASE ShutdownFlush(p)
    <3>1. pending'[p] = entry[p].count /\ ~entry[p].scheduled
      BY <1>1, <2>6 DEF ShutdownFlush, TelemetryInv, TypeOK
    <3> QED BY <2>3, <2>5, <3>1 DEF FlagOf
  <2>7. CASE ShutdownNothing(p)
    <3>1. pending'[p] = pending[p] /\ ~entry[p].scheduled /\ phase[p] = "flushing"
      BY <2>7 DEF ShutdownNothing
    <3> QED BY <2>3, <2>5, <2>t, <3>1 DEF FlagOf
  <2>8. CASE ShutdownSettle(p)
    <3>1. /\ pending'[p] = pending[p] /\ mutex[p].step = "settle"
          /\ entry[p].generation = mutex[p].generation
      BY <1>1, <2>8 DEF ShutdownSettle, TelemetryInv, TypeOK
    <3>2. phase[p] = "flushing"
      BY <2>5, <2>8 DEF ShutdownSettle, FlagOf
    <3> QED BY <2>3, <2>5, <2>t, <3>1, <3>2 DEF FlagOf
  <2> QED BY <2>1, <2>2, <2>6, <2>7, <2>8
<1>2. TelemetryInv /\ FlagInv /\ [Next]_vars => [Kept]_vars
  BY <1>1
<1> QED BY <1>2, TelemetryInvariance, FlagInvariance, PTL DEF Spec, ShutdownKeepsTelemetry
=============================================================================
