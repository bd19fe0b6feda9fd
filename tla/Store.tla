------------------------------- MODULE Store -------------------------------
(***************************************************************************)
(* The invocation store shared by several server processes: manifests on   *)
(* disk, owner and mutation file locks, change markers, the in-memory index *)
(* of every process, startup recovery, refresh and retention (storage.rs,  *)
(* coordination.rs, recovery.rs, retention.rs, index_coordinator.rs).      *)
(*                                                                         *)
(* Actors: in every process one store operation per invocation (the        *)
(* in-process mutation mutex), one index refresh (the change-state mutex)  *)
(* and one maintenance pass, and crashes that drop the process's locks.    *)
(* A manifest read, checked and replaced under its mutation lock is one    *)
(* step; publishing the change and updating the index are steps of their   *)
(* own.  The record is abstracted to its state and to whether an unexpired *)
(* deferred result protects it; which records age or quota select is a     *)
(* free choice.                                                            *)
(***************************************************************************)
EXTENDS InvocationState, Naturals, FiniteSets

CONSTANTS
    Procs,        \* server processes that share the cache root
    Inv,          \* invocation identifiers, each created at most once
    Deferrable,   \* invocations created with deferred metadata
    Maintainers,  \* processes whose periodic retention runs
    MaxCrashes,   \* bound: process crashes
    MaxFaults     \* bound: I/O errors of creations and publications

ASSUME StoreAssumption ==
    /\ Deferrable \subseteq Inv /\ Maintainers \subseteq Procs
    /\ MaxCrashes \in Nat /\ MaxFaults \in Nat
    /\ "free" \notin Procs

VARIABLES
    manifest,    \* manifest[i]: state in manifest.json, or Absent
    dir,         \* dir[i]: the invocation directory exists
    protected,   \* protected[i]: the manifest holds an unexpired deferred result
    trash,       \* trash[i]: a renamed directory waits to be unlinked
    owner,       \* owner[i]: process that holds the owner lease
    mutation,    \* mutation[i]: process that holds the mutation lock
    maintenance, \* process that holds MAINTENANCE
    worker,      \* worker[i]: live process that runs the invocation
    up,          \* up[p]: the store of p is open
    index,       \* index[p][i]: state in p's index, or Absent
    stale,       \* stale[p]: the marker set differs from what p observed
    op,          \* op[p][i]: step of p's store operation on i
    target,      \* target[p][i]: state that operation stores
    refresh,     \* refresh[p]: the refresh that holds p's change state, if any
    scanned,     \* scanned[p][i]: what the scan read, or "unread"
    mpc,         \* mpc[p]: step of startup or of the maintenance pass
    pass,        \* pass[p]: invocations the pass still has to visit
    recovered,   \* recovered[p]: invocations recovery re-read or interrupted
    changed,     \* changed[p]: the pass has deletions to publish
    used,        \* used[i]: the identifier was taken
    crashes, faults

disk    == <<manifest, dir, protected, trash, used>>
fileLocks == <<owner, mutation>>
ops     == <<op, target>>
scan    == <<refresh, scanned>>
pass_   == <<mpc, pass, recovered, changed>>
bounds  == <<crashes, faults>>
vars == <<manifest, dir, protected, trash, owner, mutation, maintenance, worker, up,
          index, stale, op, target, refresh, scanned, mpc, pass, recovered, changed,
          used, crashes, faults>>

Free == "free"
Unread == "unread"
NonterminalStates == States \ TerminalStates
OpSteps == {"idle", "create_lock", "create_persist", "create_publish", "create_index",
            "publish", "index", "reclaim_index"}
MaintenanceSteps == {"closed", "open_scan", "open_recover", "idle", "gc_refresh",
                     "gc_scan", "gc_recover", "gc_publish", "gc_reclaim"}
EveryAbsent == [i \in Inv |-> Absent]
EveryUnread == [i \in Inv |-> Unread]

TypeOK ==
    /\ manifest \in [Inv -> States \cup {Absent}]
    /\ dir \in [Inv -> BOOLEAN] /\ protected \in [Inv -> BOOLEAN]
    /\ trash \in [Inv -> BOOLEAN] /\ used \in [Inv -> BOOLEAN]
    /\ owner \in [Inv -> Procs \cup {Free}]
    /\ mutation \in [Inv -> Procs \cup {Free}]
    /\ maintenance \in Procs \cup {Free}
    /\ worker \in [Inv -> Procs \cup {Free}]
    /\ up \in [Procs -> BOOLEAN]
    /\ index \in [Procs -> [Inv -> States \cup {Absent}]]
    /\ stale \in [Procs -> BOOLEAN]
    /\ op \in [Procs -> [Inv -> OpSteps]]
    /\ target \in [Procs -> [Inv -> States \cup {Absent}]]
    /\ refresh \in [Procs -> {"idle", "changed", "forced"}]
    /\ scanned \in [Procs -> [Inv -> States \cup {Absent, Unread}]]
    /\ mpc \in [Procs -> MaintenanceSteps]
    /\ pass \in [Procs -> SUBSET Inv] /\ recovered \in [Procs -> SUBSET Inv]
    /\ changed \in [Procs -> BOOLEAN]
    /\ crashes \in 0..MaxCrashes /\ faults \in 0..MaxFaults

Init ==
    /\ manifest = [i \in Inv |-> Absent]
    /\ dir = [i \in Inv |-> FALSE] /\ protected = [i \in Inv |-> FALSE]
    /\ trash = [i \in Inv |-> FALSE] /\ used = [i \in Inv |-> FALSE]
    /\ owner = [i \in Inv |-> Free] /\ mutation = [i \in Inv |-> Free]
    /\ maintenance = Free
    /\ worker = [i \in Inv |-> Free]
    /\ up = [p \in Procs |-> FALSE]
    /\ index = [p \in Procs |-> EveryAbsent]
    /\ stale = [p \in Procs |-> FALSE]
    /\ op = [p \in Procs |-> [i \in Inv |-> "idle"]]
    /\ target = [p \in Procs |-> EveryAbsent]
    /\ refresh = [p \in Procs |-> "idle"]
    /\ scanned = [p \in Procs |-> EveryUnread]
    /\ mpc = [p \in Procs |-> "closed"]
    /\ pass = [p \in Procs |-> {}] /\ recovered = [p \in Procs |-> {}]
    /\ changed = [p \in Procs |-> FALSE]
    /\ crashes = 0 /\ faults = 0

-----------------------------------------------------------------------------
(* Locks, change markers and frames                                         *)

OpGoto(p, i, l) == op' = [op EXCEPT ![p][i] = l]
PassGoto(p, l) == mpc' = [mpc EXCEPT ![p] = l]
SetIndex(p, i, s) == index' = [index EXCEPT ![p][i] = s]

Unlocked(lock, i) == [lock EXCEPT ![i] = Free]

\* ChangeCoordinator::publish renames p's own marker: every other process now
\* sees a different marker set.  It waits for a refresh that holds the state.
Publish(p) ==
    /\ refresh[p] = "idle"
    /\ stale' = [q \in Procs |-> stale[q] \/ q # p]

OpFrame == UNCHANGED <<maintenance, up, scan, pass_, crashes>>

-----------------------------------------------------------------------------
(* create_invocation_with_deferred                                          *)

CreateBegin(p, i) ==
    /\ up[p] /\ ~used[i] /\ op[p][i] = "idle" /\ owner[i] = Free
    /\ used' = [used EXCEPT ![i] = TRUE]
    /\ owner' = [owner EXCEPT ![i] = p]
    /\ worker' = [worker EXCEPT ![i] = p]
    /\ OpGoto(p, i, "create_lock")
    /\ UNCHANGED <<manifest, dir, protected, trash, mutation, index, stale, target, faults>>
    /\ OpFrame

CreateDirectory(p, i) ==
    /\ op[p][i] = "create_lock" /\ mutation[i] = Free
    /\ mutation' = [mutation EXCEPT ![i] = p]
    /\ dir' = [dir EXCEPT ![i] = TRUE]
    /\ OpGoto(p, i, "create_persist")
    /\ UNCHANGED <<manifest, protected, trash, used, owner, worker, index, stale, target,
                   faults>>
    /\ OpFrame

CreatePersist(p, i) ==
    /\ op[p][i] = "create_persist" /\ dir[i]
    /\ manifest' = [manifest EXCEPT ![i] = "queued"]
    /\ protected' = [protected EXCEPT ![i] = i \in Deferrable]
    /\ OpGoto(p, i, "create_publish")
    /\ UNCHANGED <<dir, trash, used, owner, mutation, worker, index, stale, target, faults>>
    /\ OpFrame

CreatePublish(p, i) ==
    /\ op[p][i] = "create_publish" /\ Publish(p)
    /\ OpGoto(p, i, "create_index")
    /\ UNCHANGED <<disk, owner, mutation, worker, index, target, faults>>
    /\ OpFrame

CreateIndex(p, i) ==
    /\ op[p][i] = "create_index"
    /\ SetIndex(p, i, "queued")
    /\ mutation' = Unlocked(mutation, i)
    /\ OpGoto(p, i, "idle")
    /\ UNCHANGED <<disk, owner, worker, stale, target, faults>>
    /\ OpFrame

\* The manifest write or the publication fails: the directory is removed
\* again and the lease dropped.
CreateFails(p, i) ==
    /\ op[p][i] \in {"create_persist", "create_publish"} /\ faults < MaxFaults
    /\ faults' = faults + 1
    /\ manifest' = [manifest EXCEPT ![i] = Absent]
    /\ dir' = [dir EXCEPT ![i] = FALSE]
    /\ protected' = [protected EXCEPT ![i] = FALSE]
    /\ owner' = Unlocked(owner, i) /\ mutation' = Unlocked(mutation, i)
    /\ worker' = [worker EXCEPT ![i] = Free]
    /\ OpGoto(p, i, "idle")
    /\ UNCHANGED <<trash, used, index, stale, target>>
    /\ OpFrame

CreateStep(p, i) ==
    \/ CreateDirectory(p, i) \/ CreatePersist(p, i)
    \/ CreatePublish(p, i) \/ CreateIndex(p, i)

-----------------------------------------------------------------------------
(* transition and finish_invocation                                         *)

\* release_owner drops the lease p holds on an invocation that ends.
LeaseAfter(p, i, next) ==
    IF IsTerminal(next) /\ owner[i] = p THEN Unlocked(owner, i) ELSE owner

\* The worker's process asks for any edge; another process only cancels what
\* its own index shows as queued (cancel_with_reason).
Wants(p, i, next) ==
    \/ worker[i] = p /\ next # "interrupted"
    \/ next = "cancelled" /\ index[p][i] = "queued"

\* Seeded fault: the edge is checked against the index and not the manifest.
TransitionByIndex(p, i, next) ==
    /\ up[p] /\ op[p][i] = "idle" /\ index[p][i] # Absent
    /\ mutation[i] = Free /\ manifest[i] # Absent
    /\ Wants(p, i, next) /\ ValidateTransition(index[p][i], next)
    /\ manifest' = [manifest EXCEPT ![i] = next]
    /\ mutation' = [mutation EXCEPT ![i] = p]
    /\ target' = [target EXCEPT ![p][i] = next]
    /\ OpGoto(p, i, "publish")
    /\ UNCHANGED <<dir, protected, trash, used, owner, worker, index, stale, faults>>
    /\ OpFrame

\* Seeded fault: the index shows the new state before the manifest holds it.
TransitionIndexFirst(p, i, next) ==
    /\ up[p] /\ op[p][i] = "idle" /\ index[p][i] # Absent
    /\ mutation[i] = Free /\ manifest[i] # Absent
    /\ Wants(p, i, next) /\ ValidateTransition(manifest[i], next)
    /\ SetIndex(p, i, next)
    /\ target' = [target EXCEPT ![p][i] = next]
    /\ UNCHANGED <<disk, fileLocks, op, worker, stale, faults>>
    /\ OpFrame

\* Under the mutation lock: read the manifest, check the edge, replace it.
\* A refused edge is a State error and changes nothing.
TransitionPersist(p, i, next) ==
    /\ up[p] /\ op[p][i] = "idle" /\ index[p][i] # Absent
    /\ mutation[i] = Free /\ manifest[i] # Absent
    /\ Wants(p, i, next) /\ ValidateTransition(manifest[i], next)
    /\ manifest' = [manifest EXCEPT ![i] = next]
    /\ mutation' = [mutation EXCEPT ![i] = p]
    /\ target' = [target EXCEPT ![p][i] = next]
    /\ OpGoto(p, i, "publish")
    /\ UNCHANGED <<dir, protected, trash, used, owner, worker, index, stale, faults>>
    /\ OpFrame

TransitionPublish(p, i) ==
    /\ op[p][i] = "publish" /\ Publish(p)
    /\ OpGoto(p, i, "index")
    /\ UNCHANGED <<disk, fileLocks, worker, index, target, faults>>
    /\ OpFrame

\* replace the index entry, and release the lease of an ended invocation.
TransitionIndex(p, i) ==
    /\ op[p][i] = "index"
    /\ SetIndex(p, i, target[p][i])
    /\ mutation' = Unlocked(mutation, i)
    /\ owner' = LeaseAfter(p, i, target[p][i])
    /\ target' = [target EXCEPT ![p][i] = Absent]
    /\ OpGoto(p, i, "idle")
    /\ UNCHANGED <<disk, worker, stale, faults>>
    /\ OpFrame

\* The marker cannot be renamed: the manifest is committed, the index entry and
\* the lease stay as they were.
TransitionPublishFails(p, i) ==
    /\ op[p][i] = "publish" /\ faults < MaxFaults
    /\ faults' = faults + 1
    /\ mutation' = Unlocked(mutation, i)
    /\ target' = [target EXCEPT ![p][i] = Absent]
    /\ OpGoto(p, i, "idle")
    /\ UNCHANGED <<disk, owner, worker, index, stale>>
    /\ OpFrame

\* transition_lost_evidence: the manifest is gone, only the index moves.  The
\* lease of an ended invocation goes even when the index refuses the edge.
TransitionLostEvidence(p, i, next) ==
    /\ up[p] /\ op[p][i] = "idle" /\ index[p][i] # Absent
    /\ mutation[i] = Free /\ manifest[i] = Absent
    /\ Wants(p, i, next)
    /\ IF ValidateTransition(index[p][i], next) THEN SetIndex(p, i, next) ELSE UNCHANGED index
    /\ owner' = LeaseAfter(p, i, next)
    /\ UNCHANGED <<disk, mutation, ops, worker, stale, faults>>
    /\ OpFrame

TransitionStep(p, i) == TransitionPublish(p, i) \/ TransitionIndex(p, i)

\* is_expired: the clock passes the expiry of an ended invocation's result.
DeferredExpires(i) ==
    /\ protected[i] /\ IsTerminal(manifest[i])
    /\ protected' = [protected EXCEPT ![i] = FALSE]
    /\ UNCHANGED <<manifest, dir, trash, used, fileLocks, maintenance, worker, up, index,
                   stale, ops, scan, pass_, bounds>>

-----------------------------------------------------------------------------
(* refresh_index and load_index                                             *)

ScanFrame == UNCHANGED <<manifest, protected, trash, used, fileLocks, maintenance, worker,
                         up, ops, bounds>>

\* begin_refresh: some other process changed the marker set.
RefreshBegin(p) ==
    /\ up[p] /\ refresh[p] = "idle" /\ stale[p]
    /\ refresh' = [refresh EXCEPT ![p] = "changed"]
    /\ scanned' = [scanned EXCEPT ![p] = EveryUnread]
    /\ stale' = [stale EXCEPT ![p] = FALSE]
    /\ UNCHANGED <<dir, index, pass_>> /\ ScanFrame

Scanning(p) == refresh[p] # "idle" \/ mpc[p] = "open_scan"

\* Seeded fault: a directory without a manifest is removed without its lock.
ScanReadUnlocked(p, i) ==
    /\ Scanning(p) /\ scanned[p][i] = Unread
    /\ scanned' = [scanned EXCEPT ![p][i] = manifest[i]]
    /\ dir' = IF manifest[i] = Absent THEN [dir EXCEPT ![i] = FALSE] ELSE dir
    /\ UNCHANGED <<refresh, index, stale, pass_>> /\ ScanFrame

\* load_index visits one directory; one without a manifest is removed when
\* its mutation lock is free.
ScanRead(p, i) ==
    /\ Scanning(p) /\ scanned[p][i] = Unread
    /\ scanned' = [scanned EXCEPT ![p][i] = manifest[i]]
    /\ dir' = IF manifest[i] = Absent /\ mutation[i] = Free
              THEN [dir EXCEPT ![i] = FALSE] ELSE dir
    /\ UNCHANGED <<refresh, index, stale, pass_>> /\ ScanFrame

ScanDone(p) == \A i \in Inv : scanned[p][i] # Unread

OrphanCandidates(entries) == {i \in Inv : entries[i] \in NonterminalStates}

\* Seeded fault: the index is replaced before every directory was visited.
RefreshCommitEarly(p) ==
    /\ refresh[p] # "idle"
    /\ index' = [index EXCEPT ![p] = scanned[p]]
    /\ refresh' = [refresh EXCEPT ![p] = "idle"]
    /\ IF refresh[p] = "forced" THEN PassGoto(p, "gc_recover") ELSE UNCHANGED mpc
    /\ UNCHANGED <<pass, recovered, changed, dir, scanned, stale>> /\ ScanFrame

\* Seeded fault: the markers that count as observed are read after the scan.
RefreshCommitLateMarkers(p) ==
    /\ refresh[p] # "idle" /\ ScanDone(p)
    /\ index' = [index EXCEPT ![p] = scanned[p]]
    /\ refresh' = [refresh EXCEPT ![p] = "idle"]
    /\ stale' = [stale EXCEPT ![p] = FALSE]
    /\ IF refresh[p] = "forced" THEN PassGoto(p, "gc_recover") ELSE UNCHANGED mpc
    /\ UNCHANGED <<pass, recovered, changed, dir, scanned>> /\ ScanFrame

\* replace_from_disk and the commit of the observed markers.
RefreshCommit(p) ==
    /\ refresh[p] # "idle" /\ ScanDone(p)
    /\ index' = [index EXCEPT ![p] = scanned[p]]
    /\ refresh' = [refresh EXCEPT ![p] = "idle"]
    /\ IF refresh[p] = "forced"
       THEN /\ PassGoto(p, "gc_recover")
            /\ pass' = [pass EXCEPT ![p] = OrphanCandidates(scanned[p])]
            /\ recovered' = [recovered EXCEPT ![p] = {}]
            /\ UNCHANGED changed
       ELSE UNCHANGED pass_
    /\ UNCHANGED <<dir, scanned, stale>> /\ ScanFrame

RefreshStep(p) == RefreshCommit(p) \/ \E i \in Inv : ScanRead(p, i)

-----------------------------------------------------------------------------
(* Recovery, at startup and in every maintenance pass                       *)

Recovering(p, i) == mpc[p] \in {"open_recover", "gc_recover"} /\ i \in pass[p]
RecoveryFrame ==
    UNCHANGED <<dir, protected, trash, used, owner, mutation, maintenance, worker, up, index,
                stale, ops, scan, mpc, changed, bounds>>

\* The lease is held: the invocation belongs to a live process.
RecoverSkip(p, i) ==
    /\ Recovering(p, i) /\ owner[i] # Free
    /\ pass' = [pass EXCEPT ![p] = @ \ {i}]
    /\ UNCHANGED <<manifest, recovered>> /\ RecoveryFrame

\* Seeded fault: recovery does not try the owner lease.
RecoverWithoutLease(p, i) ==
    /\ Recovering(p, i) /\ mutation[i] = Free
    /\ pass' = [pass EXCEPT ![p] = @ \ {i}]
    /\ manifest' = IF manifest[i] \in NonterminalStates
                   THEN [manifest EXCEPT ![i] = "interrupted"] ELSE manifest
    /\ recovered' = [recovered EXCEPT ![p] = @ \cup {i}]
    /\ RecoveryFrame

\* recover_ids: with the lease and the mutation lock, read the manifest again
\* and interrupt an invocation that has not ended.
RecoverOne(p, i) ==
    /\ Recovering(p, i) /\ owner[i] = Free /\ mutation[i] = Free
    /\ pass' = [pass EXCEPT ![p] = @ \ {i}]
    /\ manifest' = IF manifest[i] \in NonterminalStates
                   THEN [manifest EXCEPT ![i] = "interrupted"] ELSE manifest
    /\ recovered' = IF manifest[i] # Absent
                    THEN [recovered EXCEPT ![p] = @ \cup {i}] ELSE recovered
    /\ RecoveryFrame

\* The entries recovery returned; what ended cannot change any more.
RecoveredIndex(p) ==
    [index EXCEPT ![p] = [i \in Inv |-> IF i \in recovered[p] THEN manifest[i] ELSE index[p][i]]]

RecoverStep(p) == \E i \in Inv : RecoverSkip(p, i) \/ RecoverOne(p, i)

-----------------------------------------------------------------------------
(* Store::open                                                              *)

OpenFrame == UNCHANGED <<manifest, dir, protected, used, fileLocks, worker, ops, bounds>>

\* MAINTENANCE, a marker of its own, the markers read, and the trash emptied.
\* ChangeCoordinator::open, read_changes: the process has seen every marker there is,
\* and its own is new to the others.
OwnMarkers(p) == stale' = [q \in Procs |-> q # p]

CleanTrash == trash' = [i \in Inv |-> FALSE]

OpenBegin(p) ==
    /\ mpc[p] = "closed" /\ maintenance = Free
    /\ maintenance' = p
    /\ OwnMarkers(p)
    /\ CleanTrash
    /\ scanned' = [scanned EXCEPT ![p] = EveryUnread]
    /\ PassGoto(p, "open_scan")
    /\ UNCHANGED <<up, index, refresh, pass, recovered, changed>> /\ OpenFrame

OpenScanned(p) ==
    /\ mpc[p] = "open_scan" /\ ScanDone(p)
    /\ index' = [index EXCEPT ![p] = scanned[p]]
    /\ pass' = [pass EXCEPT ![p] = OrphanCandidates(scanned[p])]
    /\ recovered' = [recovered EXCEPT ![p] = {}]
    /\ PassGoto(p, "open_recover")
    /\ UNCHANGED <<trash, maintenance, up, stale, scan, changed>> /\ OpenFrame

OpenFinish(p) ==
    /\ mpc[p] = "open_recover" /\ pass[p] = {}
    /\ index' = RecoveredIndex(p)
    /\ IF recovered[p] # {} THEN Publish(p) ELSE UNCHANGED stale
    /\ up' = [up EXCEPT ![p] = TRUE]
    /\ maintenance' = Free
    /\ PassGoto(p, "idle")
    /\ UNCHANGED <<trash, scan, pass, recovered, changed>> /\ OpenFrame

OpenStep(p) == OpenBegin(p) \/ OpenScanned(p) \/ OpenFinish(p)

-----------------------------------------------------------------------------
(* enforce_retention                                                        *)

GcFrame == UNCHANGED <<used, owner, worker, up, target, bounds>>
GcKeepsDisk == UNCHANGED <<manifest, dir, protected, trash, mutation, op>>

GcBegin(p) ==
    /\ up[p] /\ p \in Maintainers /\ mpc[p] = "idle" /\ maintenance = Free
    /\ maintenance' = p
    /\ PassGoto(p, "gc_refresh")
    /\ UNCHANGED <<index, stale, scan, pass, recovered, changed>> /\ GcKeepsDisk /\ GcFrame

\* Seeded fault: the pass scans only when the markers changed.
GcRefreshWhenChanged(p) ==
    /\ mpc[p] = "gc_refresh" /\ refresh[p] = "idle"
    /\ IF stale[p]
       THEN /\ refresh' = [refresh EXCEPT ![p] = "forced"]
            /\ scanned' = [scanned EXCEPT ![p] = EveryUnread]
            /\ stale' = [stale EXCEPT ![p] = FALSE]
            /\ PassGoto(p, "gc_scan")
            /\ UNCHANGED <<pass, recovered>>
       ELSE /\ PassGoto(p, "gc_recover")
            /\ pass' = [pass EXCEPT ![p] = OrphanCandidates(index[p])]
            /\ recovered' = [recovered EXCEPT ![p] = {}]
            /\ UNCHANGED <<refresh, scanned, stale>>
    /\ UNCHANGED <<maintenance, index, changed>> /\ GcKeepsDisk /\ GcFrame

\* The forced scan.
GcRefresh(p) ==
    /\ mpc[p] = "gc_refresh" /\ refresh[p] = "idle"
    /\ refresh' = [refresh EXCEPT ![p] = "forced"]
    /\ scanned' = [scanned EXCEPT ![p] = EveryUnread]
    /\ stale' = [stale EXCEPT ![p] = FALSE]
    /\ PassGoto(p, "gc_scan")
    /\ UNCHANGED <<maintenance, index, pass, recovered, changed>> /\ GcKeepsDisk /\ GcFrame

\* recover_orphaned_invocations: the index first, then the marker.
GcIndexRecovered(p) ==
    /\ mpc[p] = "gc_recover" /\ pass[p] = {} /\ recovered[p] # {}
    /\ index' = RecoveredIndex(p)
    /\ PassGoto(p, "gc_publish")
    /\ UNCHANGED <<maintenance, stale, scan, pass, recovered, changed>> /\ GcKeepsDisk /\ GcFrame

\* Age and quota select some of the ended invocations of the index.
GcSelect(p) ==
    /\ \/ mpc[p] = "gc_recover" /\ pass[p] = {} /\ recovered[p] = {} /\ UNCHANGED stale
       \/ mpc[p] = "gc_publish" /\ Publish(p)
    /\ \E candidates \in SUBSET {i \in Inv : IsTerminal(index[p][i])} :
           pass' = [pass EXCEPT ![p] = candidates]
    /\ PassGoto(p, "gc_reclaim")
    /\ changed' = [changed EXCEPT ![p] = FALSE]
    /\ UNCHANGED <<maintenance, index, scan, recovered>> /\ GcKeepsDisk /\ GcFrame

\* reclaim_terminal finds nothing to do.
ReclaimSkip(p, i) ==
    /\ mpc[p] = "gc_reclaim" /\ i \in pass[p] /\ op[p][i] = "idle" /\ mutation[i] = Free
    /\ ~IsTerminal(manifest[i])
    /\ pass' = [pass EXCEPT ![p] = @ \ {i}]
    /\ UNCHANGED <<maintenance, index, stale, scan, mpc, recovered, changed>>
    /\ GcKeepsDisk /\ GcFrame

\* A protected record loses its raw evidence and keeps its manifest.
ReclaimEvidence(p, i) ==
    /\ mpc[p] = "gc_reclaim" /\ i \in pass[p] /\ op[p][i] = "idle" /\ mutation[i] = Free
    /\ IsTerminal(manifest[i]) /\ protected[i]
    /\ SetIndex(p, i, manifest[i])
    /\ pass' = [pass EXCEPT ![p] = @ \ {i}]
    /\ changed' = [changed EXCEPT ![p] = TRUE]
    /\ UNCHANGED <<maintenance, stale, scan, mpc, recovered>> /\ GcKeepsDisk /\ GcFrame

\* Seeded fault: the deferred result is not consulted.
RenameUnprotected(p, i) ==
    /\ mpc[p] = "gc_reclaim" /\ i \in pass[p] /\ op[p][i] = "idle" /\ mutation[i] = Free
    /\ IsTerminal(manifest[i])
    /\ manifest' = [manifest EXCEPT ![i] = Absent]
    /\ dir' = [dir EXCEPT ![i] = FALSE] /\ trash' = [trash EXCEPT ![i] = TRUE]
    /\ mutation' = [mutation EXCEPT ![i] = p]
    /\ OpGoto(p, i, "reclaim_index")
    /\ pass' = [pass EXCEPT ![p] = @ \ {i}]
    /\ changed' = [changed EXCEPT ![p] = TRUE]
    /\ UNCHANGED <<protected, maintenance, index, stale, scan, mpc, recovered>> /\ GcFrame

\* The rename into trash/ commits the deletion.
ReclaimRename(p, i) ==
    /\ mpc[p] = "gc_reclaim" /\ i \in pass[p] /\ op[p][i] = "idle" /\ mutation[i] = Free
    /\ IsTerminal(manifest[i]) /\ ~protected[i]
    /\ manifest' = [manifest EXCEPT ![i] = Absent]
    /\ dir' = [dir EXCEPT ![i] = FALSE] /\ trash' = [trash EXCEPT ![i] = TRUE]
    /\ mutation' = [mutation EXCEPT ![i] = p]
    /\ OpGoto(p, i, "reclaim_index")
    /\ pass' = [pass EXCEPT ![p] = @ \ {i}]
    /\ changed' = [changed EXCEPT ![p] = TRUE]
    /\ UNCHANGED <<protected, maintenance, index, stale, scan, mpc, recovered>> /\ GcFrame

\* The entry leaves the index; the unlink may fail and leave the trash.
ReclaimIndex(p, i) ==
    /\ op[p][i] = "reclaim_index"
    /\ SetIndex(p, i, Absent)
    /\ mutation' = Unlocked(mutation, i)
    /\ \E left \in BOOLEAN : trash' = [trash EXCEPT ![i] = left]
    /\ OpGoto(p, i, "idle")
    /\ UNCHANGED <<manifest, dir, protected, maintenance, stale, scan, pass_>> /\ GcFrame

\* publish_retention_batch, and MAINTENANCE is released.
GcFinish(p) ==
    /\ mpc[p] = "gc_reclaim" /\ pass[p] = {}
    /\ \A i \in Inv : op[p][i] # "reclaim_index"
    /\ IF changed[p] THEN Publish(p) ELSE UNCHANGED stale
    /\ maintenance' = Free
    /\ PassGoto(p, "idle")
    /\ UNCHANGED <<index, scan, pass, recovered, changed>> /\ GcKeepsDisk /\ GcFrame

GcStep(p) ==
    \/ GcRefresh(p) \/ GcIndexRecovered(p) \/ GcSelect(p) \/ GcFinish(p)
    \/ \E i \in Inv : ReclaimSkip(p, i) \/ ReclaimEvidence(p, i) \/ ReclaimRename(p, i)
                      \/ ReclaimIndex(p, i)

-----------------------------------------------------------------------------

\* The process ends at any step; the kernel drops its file locks.
Crash(p) ==
    /\ mpc[p] # "closed" /\ crashes < MaxCrashes
    /\ crashes' = crashes + 1
    /\ up' = [up EXCEPT ![p] = FALSE]
    /\ owner' = [i \in Inv |-> IF owner[i] = p THEN Free ELSE owner[i]]
    /\ mutation' = [i \in Inv |-> IF mutation[i] = p THEN Free ELSE mutation[i]]
    /\ maintenance' = IF maintenance = p THEN Free ELSE maintenance
    /\ worker' = [i \in Inv |-> IF worker[i] = p THEN Free ELSE worker[i]]
    /\ index' = [index EXCEPT ![p] = EveryAbsent]
    /\ op' = [op EXCEPT ![p] = [i \in Inv |-> "idle"]]
    /\ target' = [target EXCEPT ![p] = EveryAbsent]
    /\ refresh' = [refresh EXCEPT ![p] = "idle"]
    /\ scanned' = [scanned EXCEPT ![p] = EveryUnread]
    /\ PassGoto(p, "closed")
    /\ pass' = [pass EXCEPT ![p] = {}] /\ recovered' = [recovered EXCEPT ![p] = {}]
    /\ changed' = [changed EXCEPT ![p] = FALSE]
    /\ stale' = [stale EXCEPT ![p] = FALSE]
    /\ UNCHANGED <<disk, faults>>

\* Every store is open and nothing is left to do.
Quiescent ==
    /\ \A p \in Procs : up[p] /\ mpc[p] = "idle" /\ refresh[p] = "idle"
    /\ UNCHANGED vars

OperationStep(p, i) ==
    \/ CreateBegin(p, i) \/ CreateStep(p, i) \/ CreateFails(p, i) \/ TransitionStep(p, i)
    \/ TransitionPublishFails(p, i)
    \/ \E s \in States : TransitionPersist(p, i, s) \/ TransitionLostEvidence(p, i, s)

ProcessStep(p) ==
    \/ OpenStep(p) \/ RefreshBegin(p) \/ RefreshStep(p) \/ RecoverStep(p)
    \/ GcBegin(p) \/ GcStep(p) \/ Crash(p)

Next ==
    \/ \E p \in Procs : ProcessStep(p) \/ \E i \in Inv : OperationStep(p, i)
    \/ \E i \in Inv : DeferredExpires(i)
    \/ Quiescent

Spec == Init /\ [][Next]_vars

\* Tasks are polled and retention runs on a timer; nobody has to start, or to
\* restart, a server.
Fairness ==
    \A p \in Procs :
        /\ WF_vars(OpenScanned(p) \/ OpenFinish(p)) /\ WF_vars(RefreshStep(p))
        /\ WF_vars(RecoverStep(p)) /\ SF_vars(GcBegin(p)) /\ WF_vars(GcStep(p))
        /\ \A i \in Inv : WF_vars(CreateStep(p, i)) /\ WF_vars(TransitionStep(p, i))

FairSpec == Spec /\ Fairness

-----------------------------------------------------------------------------
(* Properties                                                               *)

\* recover_ids takes the owner lease before it interrupts: whatever another
\* process's stale index says, a live server's invocation is never interrupted.
LiveNeverInterrupted ==
    \A i \in Inv : manifest[i] = "interrupted" => worker[i] = Free

\* transition, finish_invocation and recover_ids re-read the manifest under the
\* mutation lock: two processes racing to end an invocation never overwrite a
\* terminal state.
TerminalIsFinal ==
    [][\A i \in Inv : IsTerminal(manifest[i]) => manifest'[i] \in {manifest[i], Absent}]_vars

\* Retention deletes only ended records that no unexpired deferred result
\* protects; the only other removal is the undo of a failed creation.
OnlyReclaimableDeleted ==
    [][\A i \in Inv : manifest[i] # Absent /\ manifest'[i] = Absent =>
         \/ IsTerminal(manifest[i]) /\ ~protected[i]
         \/ \E p \in Procs : op[p][i] = "create_publish"]_vars

\* Another process that rebuilds its index while an invocation is being created
\* does not take the directory away before its manifest is written.
CreationKeepsItsDirectory ==
    \A p \in Procs, i \in Inv : op[p][i] = "create_persist" => dir[i]

\* An index shows a terminal state only after the manifest has it.
IndexedEndIsDurable ==
    \A p \in Procs, i \in Inv :
        up[p] /\ IsTerminal(index[p][i]) => manifest[i] \in {index[p][i], Absent}

\* No process works on i and p has observed every marker.
Settled(p, i) ==
    /\ up[p] /\ ~stale[p] /\ refresh[p] = "idle" /\ maintenance = Free
    /\ \A q \in Procs : op[q][i] = "idle"

\* The marker protocol: unless a crash or an error kept a commit from being
\* announced, a process that has observed every marker has the committed state of
\* every retained record in its index.
ObservedIndexIsCurrent ==
    crashes = 0 /\ faults = 0 =>
        \A p \in Procs, i \in Inv :
            Settled(p, i) /\ manifest[i] # Absent => index[p][i] = manifest[i]

\* What processes that share a cache root may rely on: an index shows an end only when
\* the manifest has it, one that has observed every marker shows what is committed
\* (refresh, publish_change), and no rebuild takes a directory away from a creation in
\* progress (load_index_blocking).
IndexFollowsDisk ==
    /\ TypeOK
    /\ CreationKeepsItsDirectory
    /\ IndexedEndIsDurable
    /\ ObservedIndexIsCurrent

\* enforce_retention always scans: while one server with a retention timer is
\* up, an invocation whose own server died ends, whether or not the dead server
\* got to announce its last commit.
OrphansAreInterrupted ==
    \A i \in Inv :
        ( /\ manifest[i] \in NonterminalStates /\ worker[i] = Free
          /\ crashes = MaxCrashes /\ \E p \in Maintainers : up[p] )
            ~> (manifest[i] \notin NonterminalStates)

\* Documented: a deleted record is absent from the live index.
DeletedLeavesTheIndex ==
    \A p \in Procs, i \in Inv :
        Settled(p, i) /\ used[i] /\ manifest[i] = Absent => index[p][i] = Absent
=============================================================================
