---------------------------- MODULE StoreProofs ----------------------------
(***************************************************************************)
(* Proofs about Store, for every set of processes and invocations and      *)
(* every bound on crashes and faults: type correctness, that a live        *)
(* server's invocation is never interrupted, that a terminal record is     *)
(* final, what retention may delete, and that the indexes follow the disk. *)
(*                                                                         *)
(* None of them is inductive.  StoreInv adds what the locks protect: the   *)
(* mutation lock is held exactly by the operations past their lock step,   *)
(* so a manifest does not change between a commit and its index update; a  *)
(* creation owns its lease and nobody has indexed it; and, as long as      *)
(* nothing crashed or failed, whatever an index or a scan has wrong about  *)
(* the disk still has an announcement ahead of it.                         *)
(***************************************************************************)
EXTENDS Store, TLAPS

LockedSteps == {"create_persist", "create_publish", "create_index", "publish", "index",
                "reclaim_index"}
CreateSteps == {"create_lock", "create_persist", "create_publish", "create_index"}
BeforeManifest == {"create_lock", "create_persist"}

\* The mutation lock is held exactly by an operation past its lock step.
MutationIsHeld == \A p \in Procs, i \in Inv : mutation[i] = p <=> op[p][i] \in LockedSteps

\* Operations and refreshes belong to open stores.
OpenStores ==
    \A p \in Procs :
        /\ up[p] <=> mpc[p] \notin {"closed", "open_scan", "open_recover"}
        /\ refresh[p] # "idle" => up[p]
        /\ \A i \in Inv : op[p][i] # "idle" => up[p]

\* No process has read anything of i.
Unseen(i) == \A q \in Procs : index[q][i] = Absent /\ scanned[q][i] \in {Absent, Unread}

\* An identifier nobody took has left no trace.
UnusedIsClear ==
    \A i \in Inv : ~used[i] => manifest[i] = Absent /\ worker[i] = Free /\ Unseen(i)

\* A creation holds the lease of its invocation, and until its manifest is written
\* nobody has seen the invocation.
CreationIsOwned ==
    \A p \in Procs, i \in Inv : op[p][i] \in CreateSteps =>
        /\ owner[i] = p /\ worker[i] = p /\ used[i]
        /\ op[p][i] \in BeforeManifest => manifest[i] = Absent /\ Unseen(i)
        /\ op[p][i] \notin BeforeManifest => manifest[i] = "queued"

\* While the mutation lock is held the manifest stays what the operation made it.
CommitIsHeld ==
    \A p \in Procs, i \in Inv :
        /\ op[p][i] \in {"publish", "index"} => manifest[i] = target[p][i] /\ manifest[i] # Absent
        /\ op[p][i] = "reclaim_index" => manifest[i] = Absent

\* The server of an invocation that has not ended holds its lease.
LiveIsLeased ==
    \A i \in Inv : manifest[i] \in NonterminalStates /\ worker[i] # Free => owner[i] = worker[i]

\* Neither an index nor a scan shows an end that the manifest does not have.
EndsAreDurable ==
    \A p \in Procs, i \in Inv :
        /\ IsTerminal(index[p][i]) => manifest[i] \in {index[p][i], Absent}
        /\ IsTerminal(scanned[p][i]) => manifest[i] \in {scanned[p][i], Absent}

\* A publication waits for the refresh, so a later scan read what was published.
PublishedIsScanned ==
    \A p \in Procs, i \in Inv :
        op[p][i] \in {"create_index", "index"} /\ refresh[p] # "idle" =>
            scanned[p][i] \in {Unread, manifest[i]}

Undisturbed == crashes = 0 /\ faults = 0

\* Something will still make p look at i again.
Announced(p, i) ==
    \/ stale[p]
    \/ \E q \in Procs : op[q][i] \in {"create_publish", "publish"}
    \/ op[p][i] \in {"create_index", "index"}

\* Without crashes and faults every invocation has its server.
UsedIsLive == Undisturbed => \A i \in Inv : used[i] => worker[i] # Free

\* What a scan has wrong about a retained record is still to be announced.
ScansAreAnnounced ==
    Undisturbed =>
        \A p \in Procs, i \in Inv :
            Scanning(p) /\ manifest[i] # Absent /\ scanned[p][i] \notin {Unread, manifest[i]}
                => Announced(p, i)

\* So is what an index has wrong, unless a refresh is about to replace it.
IndexIsAnnounced ==
    Undisturbed =>
        \A p \in Procs, i \in Inv :
            (up[p] \/ mpc[p] = "open_recover") /\ manifest[i] # Absent
            /\ index[p][i] # manifest[i] /\ refresh[p] = "idle" => Announced(p, i)

StoreInv ==
    /\ TypeOK
    /\ MutationIsHeld /\ OpenStores /\ UnusedIsClear /\ CreationIsOwned /\ CommitIsHeld
    /\ LiveIsLeased /\ LiveNeverInterrupted /\ CreationKeepsItsDirectory
    /\ EndsAreDurable /\ PublishedIsScanned
    /\ UsedIsLive /\ ScansAreAnnounced /\ IndexIsAnnounced
-----------------------------------------------------------------------------
(* States and cells                                                         *)

\* The states a record can be in, told apart from the two marks that are none.
LEMMA StateFacts ==
    /\ Absent \notin States /\ Unread \notin States /\ Absent # Unread
    /\ "queued" \in NonterminalStates /\ "queued" \in States /\ "queued" # "interrupted"
    /\ "interrupted" \in States /\ ~IsTerminal(Absent) /\ ~IsTerminal(Unread)
    /\ \A s \in States : IsTerminal(s) <=> s \notin NonterminalStates
    /\ \A s : s \in NonterminalStates => s \in States /\ ~IsTerminal(s) /\ s # "interrupted"
BY DEF Absent, Unread, States, NonterminalStates, TerminalStates, IsTerminal

\* validate_transition accepts nothing that leaves a terminal state.
LEMMA TransitionFacts ==
    ASSUME NEW s, NEW t, ValidateTransition(s, t)
    PROVE  s \in NonterminalStates /\ t \in States
BY DEF ValidateTransition, NonterminalStates, TerminalStates, States

\* One row of a table indexed by process and invocation.
LEMMA Row ==
    ASSUME NEW S, NEW f \in [Procs -> [Inv -> S]], NEW p \in Procs, NEW r \in [Inv -> S]
    PROVE  /\ [f EXCEPT ![p] = r] \in [Procs -> [Inv -> S]]
           /\ \A q \in Procs, j \in Inv :
                [f EXCEPT ![p] = r][q][j] = IF q = p THEN r[j] ELSE f[q][j]
OBVIOUS

\* The rows of an empty index, of an empty scan and of idle operations.
LEMMA EmptyRows ==
    /\ EveryAbsent \in [Inv -> States \cup {Absent}]
    /\ EveryUnread \in [Inv -> States \cup {Absent, Unread}]
    /\ [i \in Inv |-> "idle"] \in [Inv -> OpSteps]
    /\ \A i \in Inv : EveryAbsent[i] = Absent /\ EveryUnread[i] = Unread
BY DEF EveryAbsent, EveryUnread, OpSteps

\* Recovery puts into an index nothing but what the manifests hold.
LEMMA RecoveredRow ==
    ASSUME TypeOK, NEW p \in Procs
    PROVE  /\ RecoveredIndex(p) \in [Procs -> [Inv -> States \cup {Absent}]]
           /\ \A q \in Procs, j \in Inv : RecoveredIndex(p)[q][j] \in {index[q][j], manifest[j]}
<1> DEFINE r == [i \in Inv |-> IF i \in recovered[p] THEN manifest[i] ELSE index[p][i]]
<1>1. r \in [Inv -> States \cup {Absent}] /\ \A j \in Inv : r[j] \in {index[p][j], manifest[j]}
  BY DEF TypeOK
<1>2. RecoveredIndex(p) = [index EXCEPT ![p] = r]
  BY DEF RecoveredIndex
<1> HIDE DEF r
<1>3. index \in [Procs -> [Inv -> States \cup {Absent}]]
  BY DEF TypeOK
<1>4. /\ [index EXCEPT ![p] = r] \in [Procs -> [Inv -> States \cup {Absent}]]
      /\ \A q \in Procs, j \in Inv : [index EXCEPT ![p] = r][q][j] = IF q = p THEN r[j] ELSE index[q][j]
  BY <1>1, <1>3, Row
<1> QED BY <1>1, <1>2, <1>4

-----------------------------------------------------------------------------
(* Every action preserves the invariant                                     *)

\* A creation takes a fresh identifier and its lease.
LEMMA CreateBeginPreserves ==
    ASSUME StoreInv, NEW p \in Procs, NEW i \in Inv, CreateBegin(p, i)
    PROVE  StoreInv'
<1> USE DEF StoreInv
<1>1. TypeOK'
  BY StateFacts, StoreAssumption, EmptyRows DEF TypeOK, Free, CreateBegin, OpFrame,
     scan, pass_, OpGoto, OpSteps, Unlocked
<1>f. UNCHANGED <<manifest, dir, protected, trash, mutation, maintenance, up, index, stale,
         target, refresh, scanned, mpc, pass, recovered, changed, crashes, faults>>
  BY DEF CreateBegin, OpFrame, scan, pass_
<1>g. up[p] /\ ~used[i] /\ op[p][i] = "idle"
  BY DEF CreateBegin, OpFrame, scan, pass_
<1>op. \A q \in Procs, j \in Inv : op'[q][j] = IF q = p /\ j = i THEN "create_lock" ELSE op[q][j]
  BY DEF TypeOK, CreateBegin, OpFrame, scan, pass_, OpGoto
<1>used. used'[i] /\ \A j \in Inv : j # i => used'[j] = used[j]
  BY DEF TypeOK, CreateBegin, OpFrame, scan, pass_
<1>owner. \A j \in Inv : owner'[j] = IF j = i THEN p ELSE owner[j]
  BY DEF TypeOK, CreateBegin, OpFrame, scan, pass_, Unlocked
<1>worker. \A j \in Inv : worker'[j] = IF j = i THEN p ELSE worker[j]
  BY DEF TypeOK, CreateBegin, OpFrame, scan, pass_
<1>2. MutationIsHeld'
  BY <1>f, <1>g, <1>op, StoreAssumption DEF MutationIsHeld, LockedSteps, Free
<1>3. OpenStores'
  BY <1>f, <1>g, <1>op DEF OpenStores
<1>4. UnusedIsClear'
  BY <1>f, <1>g, <1>used, <1>worker, StateFacts DEF UnusedIsClear, Unseen
<1>5. CreationIsOwned'
  BY <1>f, <1>g, <1>op, <1>used, <1>owner, <1>worker, StateFacts, StoreAssumption DEF
     CreationIsOwned, Unseen, CreateSteps, BeforeManifest, UnusedIsClear
<1>6. CommitIsHeld'
  BY <1>f, <1>g, <1>op, StateFacts DEF CommitIsHeld
<1>7. LiveIsLeased'
  BY <1>f, <1>g, <1>owner, <1>worker, StateFacts DEF LiveIsLeased
<1>8. LiveNeverInterrupted'
  BY <1>f, <1>g, <1>worker, StateFacts DEF LiveNeverInterrupted, UnusedIsClear
<1>9. CreationKeepsItsDirectory'
  BY <1>f, <1>g, <1>op, StoreAssumption DEF CreationKeepsItsDirectory, MutationIsHeld,
     LockedSteps, Free
<1>10. EndsAreDurable'
  BY <1>f DEF EndsAreDurable
<1>11. PublishedIsScanned'
  BY <1>f, <1>g, <1>op, StateFacts DEF PublishedIsScanned
<1>12. UsedIsLive'
  BY <1>f, <1>g, <1>used, <1>worker, StoreAssumption DEF UsedIsLive, Undisturbed, Free
<1>13. ScansAreAnnounced'
  BY <1>f, <1>g, <1>op, StateFacts DEF ScansAreAnnounced, Undisturbed, Scanning,
     Announced
<1>14. IndexIsAnnounced'
  BY <1>f, <1>g, <1>op, StateFacts DEF IndexIsAnnounced, Undisturbed, Announced
<1> QED BY <1>1, <1>2, <1>3, <1>4, <1>5, <1>6, <1>7, <1>8, <1>9, <1>10, <1>11, <1>12,
   <1>13, <1>14

\* The directory is made under the mutation lock.
LEMMA CreateDirectoryPreserves ==
    ASSUME StoreInv, NEW p \in Procs, NEW i \in Inv, CreateDirectory(p, i)
    PROVE  StoreInv'
<1> USE DEF StoreInv
<1>1. TypeOK'
  BY StateFacts, StoreAssumption, EmptyRows DEF TypeOK, Free, CreateDirectory, OpFrame,
     scan, pass_, OpGoto, OpSteps, Unlocked
<1>f. UNCHANGED <<manifest, protected, trash, owner, maintenance, worker, up, index, stale,
         target, refresh, scanned, mpc, pass, recovered, changed, used, crashes, faults>>
  BY DEF CreateDirectory, OpFrame, scan, pass_
<1>g. op[p][i] = "create_lock" /\ mutation[i] = Free
  BY DEF CreateDirectory, OpFrame, scan, pass_
<1>op. \A q \in Procs, j \in Inv : op'[q][j] = IF q = p /\ j = i THEN "create_persist" ELSE op[q][j]
  BY DEF TypeOK, CreateDirectory, OpFrame, scan, pass_, OpGoto
<1>mutation. \A j \in Inv : mutation'[j] = IF j = i THEN p ELSE mutation[j]
  BY DEF TypeOK, CreateDirectory, OpFrame, scan, pass_, Unlocked
<1>dir. dir'[i] /\ \A j \in Inv : j # i => dir'[j] = dir[j]
  BY DEF TypeOK, CreateDirectory, OpFrame, scan, pass_
<1>2. MutationIsHeld'
  BY <1>f, <1>g, <1>op, <1>mutation, StoreAssumption DEF MutationIsHeld, LockedSteps,
     Free
<1>3. OpenStores'
  BY <1>f, <1>g, <1>op DEF OpenStores
<1>4. UnusedIsClear'
  BY <1>f DEF UnusedIsClear, Unseen
<1>5. CreationIsOwned'
  BY <1>f, <1>g, <1>op, StateFacts, StoreAssumption DEF CreationIsOwned, Unseen,
     CreateSteps, BeforeManifest
<1>6. CommitIsHeld'
  BY <1>f, <1>g, <1>op, StateFacts DEF CommitIsHeld
<1>7. LiveIsLeased'
  BY <1>f DEF LiveIsLeased
<1>8. LiveNeverInterrupted'
  BY <1>f DEF LiveNeverInterrupted
<1>9. CreationKeepsItsDirectory'
  BY <1>f, <1>g, <1>op, <1>dir, StoreAssumption DEF CreationKeepsItsDirectory,
     MutationIsHeld, LockedSteps, Free
<1>10. EndsAreDurable'
  BY <1>f DEF EndsAreDurable
<1>11. PublishedIsScanned'
  BY <1>f, <1>g, <1>op, StateFacts DEF PublishedIsScanned
<1>12. UsedIsLive'
  BY <1>f DEF UsedIsLive, Undisturbed
<1>13. ScansAreAnnounced'
  BY <1>f, <1>g, <1>op, StateFacts DEF ScansAreAnnounced, Undisturbed, Scanning,
     Announced
<1>14. IndexIsAnnounced'
  BY <1>f, <1>g, <1>op, StateFacts DEF IndexIsAnnounced, Undisturbed, Announced
<1> QED BY <1>1, <1>2, <1>3, <1>4, <1>5, <1>6, <1>7, <1>8, <1>9, <1>10, <1>11, <1>12,
   <1>13, <1>14

\* The first manifest; nobody has seen the invocation before.
LEMMA CreatePersistPreserves ==
    ASSUME StoreInv, NEW p \in Procs, NEW i \in Inv, CreatePersist(p, i)
    PROVE  StoreInv'
<1> USE DEF StoreInv
<1>1. TypeOK'
  BY StateFacts, StoreAssumption, EmptyRows DEF TypeOK, Free, CreatePersist, OpFrame,
     scan, pass_, OpGoto, OpSteps
<1>f. UNCHANGED <<dir, trash, owner, mutation, maintenance, worker, up, index, stale, target,
         refresh, scanned, mpc, pass, recovered, changed, used, crashes, faults>>
  BY DEF CreatePersist, OpFrame, scan, pass_
<1>g. op[p][i] = "create_persist"
  BY DEF CreatePersist, OpFrame, scan, pass_
<1>op. \A q \in Procs, j \in Inv : op'[q][j] = IF q = p /\ j = i THEN "create_publish" ELSE op[q][j]
  BY DEF TypeOK, CreatePersist, OpFrame, scan, pass_, OpGoto
<1>manifest. \A j \in Inv : manifest'[j] = IF j = i THEN "queued" ELSE manifest[j]
  BY DEF TypeOK, CreatePersist, OpFrame, scan, pass_
<1>2. MutationIsHeld'
  BY <1>f, <1>g, <1>op, StoreAssumption DEF MutationIsHeld, LockedSteps, Free
<1>3. OpenStores'
  BY <1>f, <1>g, <1>op DEF OpenStores
<1>4. UnusedIsClear'
  BY <1>f, <1>g, <1>manifest, StateFacts DEF UnusedIsClear, Unseen, CreationIsOwned,
     CreateSteps, BeforeManifest
<1>5. CreationIsOwned'
  BY <1>f, <1>g, <1>op, <1>manifest, StateFacts, StoreAssumption DEF CreationIsOwned,
     Unseen, CreateSteps, BeforeManifest, MutationIsHeld, LockedSteps
<1>6. CommitIsHeld'
  BY <1>f, <1>g, <1>op, <1>manifest, StateFacts, StoreAssumption DEF CommitIsHeld,
     MutationIsHeld, LockedSteps, Free
<1>7. LiveIsLeased'
  BY <1>f, <1>g, <1>manifest, StateFacts DEF LiveIsLeased, CreationIsOwned, CreateSteps
<1>8. LiveNeverInterrupted'
  BY <1>f, <1>g, <1>manifest, StateFacts DEF LiveNeverInterrupted
<1>9. CreationKeepsItsDirectory'
  BY <1>f, <1>g, <1>op, StoreAssumption DEF CreationKeepsItsDirectory, MutationIsHeld,
     LockedSteps, Free
<1>10. EndsAreDurable'
  BY <1>f, <1>g, <1>manifest, StateFacts DEF EndsAreDurable, CreationIsOwned,
     CreateSteps, BeforeManifest, Unseen
<1>11. PublishedIsScanned'
  BY <1>f, <1>g, <1>op, <1>manifest, StateFacts DEF PublishedIsScanned, MutationIsHeld,
     LockedSteps
<1>12. UsedIsLive'
  BY <1>f DEF UsedIsLive, Undisturbed
<1>13. ScansAreAnnounced'
  BY <1>f, <1>g, <1>op, <1>manifest, StateFacts DEF ScansAreAnnounced, Undisturbed,
     Scanning, Announced
<1>14. IndexIsAnnounced'
  BY <1>f, <1>g, <1>op, <1>manifest, StateFacts DEF IndexIsAnnounced, Undisturbed,
     Announced
<1> QED BY <1>1, <1>2, <1>3, <1>4, <1>5, <1>6, <1>7, <1>8, <1>9, <1>10, <1>11, <1>12,
   <1>13, <1>14

\* Every other process now sees a changed marker.
LEMMA CreatePublishPreserves ==
    ASSUME StoreInv, NEW p \in Procs, NEW i \in Inv, CreatePublish(p, i)
    PROVE  StoreInv'
<1> USE DEF StoreInv
<1>1. TypeOK'
  BY StateFacts, StoreAssumption, EmptyRows DEF TypeOK, Free, CreatePublish, OpFrame,
     scan, pass_, disk, OpGoto, OpSteps, Publish
<1>f. UNCHANGED <<manifest, dir, protected, trash, owner, mutation, maintenance, worker, up,
         index, target, refresh, scanned, mpc, pass, recovered, changed, used, crashes,
         faults>>
  BY DEF CreatePublish, OpFrame, scan, pass_, disk
<1>g. op[p][i] = "create_publish" /\ refresh[p] = "idle"
  BY DEF CreatePublish, OpFrame, scan, pass_, disk, Publish
<1>op. \A q \in Procs, j \in Inv : op'[q][j] = IF q = p /\ j = i THEN "create_index" ELSE op[q][j]
  BY DEF TypeOK, CreatePublish, OpFrame, scan, pass_, disk, OpGoto
<1>stale. stale'[p] = stale[p] /\ \A q \in Procs : stale[q] \/ q # p => stale'[q]
  BY DEF TypeOK, CreatePublish, OpFrame, scan, pass_, disk, Publish
<1>2. MutationIsHeld'
  BY <1>f, <1>g, <1>op, StoreAssumption DEF MutationIsHeld, LockedSteps, Free
<1>3. OpenStores'
  BY <1>f, <1>g, <1>op DEF OpenStores
<1>4. UnusedIsClear'
  BY <1>f DEF UnusedIsClear, Unseen
<1>5. CreationIsOwned'
  BY <1>f, <1>g, <1>op, StateFacts, StoreAssumption DEF CreationIsOwned, Unseen,
     CreateSteps, BeforeManifest
<1>6. CommitIsHeld'
  BY <1>f, <1>g, <1>op, StateFacts DEF CommitIsHeld
<1>7. LiveIsLeased'
  BY <1>f DEF LiveIsLeased
<1>8. LiveNeverInterrupted'
  BY <1>f DEF LiveNeverInterrupted
<1>9. CreationKeepsItsDirectory'
  BY <1>f, <1>g, <1>op, StoreAssumption DEF CreationKeepsItsDirectory, MutationIsHeld,
     LockedSteps, Free
<1>10. EndsAreDurable'
  BY <1>f DEF EndsAreDurable
<1>11. PublishedIsScanned'
  BY <1>f, <1>g, <1>op, StateFacts DEF PublishedIsScanned
<1>12. UsedIsLive'
  BY <1>f DEF UsedIsLive, Undisturbed
<1>13. ScansAreAnnounced'
  BY <1>f, <1>g, <1>op, <1>stale, StateFacts DEF ScansAreAnnounced, Undisturbed,
     Scanning, Announced
<1>14. IndexIsAnnounced'
  BY <1>f, <1>g, <1>op, <1>stale, StateFacts DEF IndexIsAnnounced, Undisturbed,
     Announced
<1> QED BY <1>1, <1>2, <1>3, <1>4, <1>5, <1>6, <1>7, <1>8, <1>9, <1>10, <1>11, <1>12,
   <1>13, <1>14

\* The creator indexes what it wrote.
LEMMA CreateIndexPreserves ==
    ASSUME StoreInv, NEW p \in Procs, NEW i \in Inv, CreateIndex(p, i)
    PROVE  StoreInv'
<1> USE DEF StoreInv
<1>1. TypeOK'
  BY StateFacts, StoreAssumption, EmptyRows DEF TypeOK, Free, CreateIndex, OpFrame,
     scan, pass_, disk, OpGoto, OpSteps, SetIndex, Unlocked
<1>f. UNCHANGED <<manifest, dir, protected, trash, owner, maintenance, worker, up, stale,
         target, refresh, scanned, mpc, pass, recovered, changed, used, crashes, faults>>
  BY DEF CreateIndex, OpFrame, scan, pass_, disk
<1>g. op[p][i] = "create_index"
  BY DEF CreateIndex, OpFrame, scan, pass_, disk
<1>op. \A q \in Procs, j \in Inv : op'[q][j] = IF q = p /\ j = i THEN "idle" ELSE op[q][j]
  BY DEF TypeOK, CreateIndex, OpFrame, scan, pass_, disk, OpGoto
<1>index. \A q \in Procs, j \in Inv : index'[q][j] = IF q = p /\ j = i THEN "queued" ELSE index[q][j]
  BY DEF TypeOK, CreateIndex, OpFrame, scan, pass_, disk, SetIndex
<1>mutation. \A j \in Inv : mutation'[j] = IF j = i THEN Free ELSE mutation[j]
  BY DEF TypeOK, CreateIndex, OpFrame, scan, pass_, disk, Unlocked
<1>2. MutationIsHeld'
  BY <1>f, <1>g, <1>op, <1>mutation, StoreAssumption DEF MutationIsHeld, LockedSteps,
     Free
<1>3. OpenStores'
  BY <1>f, <1>g, <1>op DEF OpenStores
<1>4. UnusedIsClear'
  BY <1>f, <1>g, <1>index, StateFacts DEF UnusedIsClear, Unseen, CreationIsOwned,
     CreateSteps
<1>5. CreationIsOwned'
  BY <1>f, <1>g, <1>op, <1>index, StateFacts, StoreAssumption DEF CreationIsOwned,
     Unseen, CreateSteps, BeforeManifest
<1>6. CommitIsHeld'
  BY <1>f, <1>g, <1>op, StateFacts DEF CommitIsHeld
<1>7. LiveIsLeased'
  BY <1>f DEF LiveIsLeased
<1>8. LiveNeverInterrupted'
  BY <1>f DEF LiveNeverInterrupted
<1>9. CreationKeepsItsDirectory'
  BY <1>f, <1>g, <1>op, StoreAssumption DEF CreationKeepsItsDirectory, MutationIsHeld,
     LockedSteps, Free
<1>10. EndsAreDurable'
  BY <1>f, <1>g, <1>index, StateFacts DEF EndsAreDurable, CreationIsOwned, CreateSteps,
     BeforeManifest
<1>11. PublishedIsScanned'
  BY <1>f, <1>g, <1>op, StateFacts DEF PublishedIsScanned
<1>12. UsedIsLive'
  BY <1>f DEF UsedIsLive, Undisturbed
<1>13. ScansAreAnnounced'
  BY <1>f, <1>g, <1>op, StateFacts DEF ScansAreAnnounced, Undisturbed, Scanning,
     Announced, PublishedIsScanned, OpenStores
<1>14. IndexIsAnnounced'
  BY <1>f, <1>g, <1>op, <1>index, StateFacts DEF IndexIsAnnounced, Undisturbed,
     Announced, CreationIsOwned, CreateSteps, BeforeManifest
<1> QED BY <1>1, <1>2, <1>3, <1>4, <1>5, <1>6, <1>7, <1>8, <1>9, <1>10, <1>11, <1>12,
   <1>13, <1>14

\* A failed creation is undone.
LEMMA CreateFailsPreserves ==
    ASSUME StoreInv, NEW p \in Procs, NEW i \in Inv, CreateFails(p, i)
    PROVE  StoreInv'
<1> USE DEF StoreInv
<1>1. TypeOK'
  BY StateFacts, StoreAssumption, EmptyRows DEF TypeOK, Free, CreateFails, OpFrame,
     scan, pass_, OpGoto, OpSteps, Unlocked
<1>f. UNCHANGED <<trash, maintenance, up, index, stale, target, refresh, scanned, mpc, pass,
         recovered, changed, used, crashes>>
  BY DEF CreateFails, OpFrame, scan, pass_
<1>g. op[p][i] \in {"create_persist", "create_publish"}
  BY DEF CreateFails, OpFrame, scan, pass_
<1>op. \A q \in Procs, j \in Inv : op'[q][j] = IF q = p /\ j = i THEN "idle" ELSE op[q][j]
  BY DEF TypeOK, CreateFails, OpFrame, scan, pass_, OpGoto
<1>faults. faults' # 0
  BY DEF TypeOK, CreateFails, OpFrame, scan, pass_
<1>manifest. \A j \in Inv : manifest'[j] = IF j = i THEN Absent ELSE manifest[j]
  BY EmptyRows DEF TypeOK, CreateFails, OpFrame, scan, pass_
<1>dir. ~dir'[i] /\ \A j \in Inv : j # i => dir'[j] = dir[j]
  BY DEF TypeOK, CreateFails, OpFrame, scan, pass_
<1>owner. \A j \in Inv : owner'[j] = IF j = i THEN Free ELSE owner[j]
  BY DEF TypeOK, CreateFails, OpFrame, scan, pass_, Unlocked
<1>mutation. \A j \in Inv : mutation'[j] = IF j = i THEN Free ELSE mutation[j]
  BY DEF TypeOK, CreateFails, OpFrame, scan, pass_, Unlocked
<1>worker. \A j \in Inv : worker'[j] = IF j = i THEN Free ELSE worker[j]
  BY DEF TypeOK, CreateFails, OpFrame, scan, pass_
<1>2. MutationIsHeld'
  BY <1>f, <1>g, <1>op, <1>mutation, StoreAssumption DEF MutationIsHeld, LockedSteps,
     Free
<1>3. OpenStores'
  BY <1>f, <1>g, <1>op DEF OpenStores
<1>4. UnusedIsClear'
  BY <1>f, <1>g, <1>manifest, <1>worker, StateFacts DEF UnusedIsClear, Unseen
<1>5. CreationIsOwned'
  BY <1>f, <1>g, <1>op, <1>manifest, <1>owner, <1>worker, StateFacts, StoreAssumption
     DEF CreationIsOwned, Unseen, CreateSteps, BeforeManifest, MutationIsHeld,
     LockedSteps
<1>6. CommitIsHeld'
  BY <1>f, <1>g, <1>op, <1>manifest, StateFacts DEF CommitIsHeld, MutationIsHeld,
     LockedSteps
<1>7. LiveIsLeased'
  BY <1>f, <1>g, <1>manifest, <1>owner, <1>worker, StateFacts DEF LiveIsLeased
<1>8. LiveNeverInterrupted'
  BY <1>f, <1>g, <1>manifest, <1>worker, StateFacts DEF LiveNeverInterrupted
<1>9. CreationKeepsItsDirectory'
  BY <1>f, <1>g, <1>op, <1>dir, StoreAssumption DEF CreationKeepsItsDirectory,
     MutationIsHeld, LockedSteps, Free
<1>10. EndsAreDurable'
  BY <1>f, <1>g, <1>manifest, StateFacts DEF EndsAreDurable
<1>11. PublishedIsScanned'
  BY <1>f, <1>g, <1>op, <1>manifest, StateFacts DEF PublishedIsScanned, MutationIsHeld,
     LockedSteps
<1>12. UsedIsLive'
  BY <1>f, <1>g, <1>faults, <1>worker, StoreAssumption DEF UsedIsLive, Undisturbed,
     Free
<1>13. ScansAreAnnounced'
  BY <1>f, <1>g, <1>op, <1>faults, <1>manifest, StateFacts DEF ScansAreAnnounced,
     Undisturbed, Scanning, Announced
<1>14. IndexIsAnnounced'
  BY <1>f, <1>g, <1>op, <1>faults, <1>manifest, StateFacts DEF IndexIsAnnounced,
     Undisturbed, Announced
<1> QED BY <1>1, <1>2, <1>3, <1>4, <1>5, <1>6, <1>7, <1>8, <1>9, <1>10, <1>11, <1>12,
   <1>13, <1>14

\* A commit under the mutation lock; from then on its announcement is pending.
LEMMA TransitionPersistPreserves ==
    ASSUME StoreInv, NEW p \in Procs, NEW i \in Inv, NEW next \in States, TransitionPersist(p, i, next)
    PROVE  StoreInv'
<1> USE DEF StoreInv
<1>1. TypeOK'
  BY StateFacts, StoreAssumption, EmptyRows, TransitionFacts DEF TypeOK, Free,
     TransitionPersist, OpFrame, scan, pass_, OpGoto, OpSteps, Unlocked
<1>f. UNCHANGED <<dir, protected, trash, owner, maintenance, worker, up, index, stale,
         refresh, scanned, mpc, pass, recovered, changed, used, crashes, faults>>
  BY DEF TransitionPersist, OpFrame, scan, pass_
<1>g. up[p] /\ op[p][i] = "idle" /\ mutation[i] = Free /\ manifest[i] # Absent
      /\ manifest[i] \in NonterminalStates /\ (next = "interrupted" => worker[i] # p)
      /\ (worker[i] # p => next = "cancelled")
  BY TransitionFacts, StateFacts DEF TransitionPersist, Wants
<1>op. \A q \in Procs, j \in Inv : op'[q][j] = IF q = p /\ j = i THEN "publish" ELSE op[q][j]
  BY DEF TypeOK, TransitionPersist, OpFrame, scan, pass_, OpGoto
<1>manifest. \A j \in Inv : manifest'[j] = IF j = i THEN next ELSE manifest[j]
  BY DEF TypeOK, TransitionPersist, OpFrame, scan, pass_
<1>mutation. \A j \in Inv : mutation'[j] = IF j = i THEN p ELSE mutation[j]
  BY DEF TypeOK, TransitionPersist, OpFrame, scan, pass_, Unlocked
<1>target. \A q \in Procs, j \in Inv : target'[q][j] = IF q = p /\ j = i THEN next ELSE target[q][j]
  BY DEF TypeOK, TransitionPersist, OpFrame, scan, pass_
<1>2. MutationIsHeld'
  BY <1>f, <1>g, <1>op, <1>mutation, StoreAssumption DEF MutationIsHeld, LockedSteps,
     Free
<1>3. OpenStores'
  BY <1>f, <1>g, <1>op DEF OpenStores
<1>4. UnusedIsClear'
  BY <1>f, <1>g, <1>manifest, StateFacts DEF UnusedIsClear, Unseen
<1>5. CreationIsOwned'
  BY <1>f, <1>g, <1>op, <1>manifest, StateFacts, StoreAssumption, StoreAssumption DEF
     CreationIsOwned, Unseen, CreateSteps, BeforeManifest, MutationIsHeld, LockedSteps,
     Free
<1>6. CommitIsHeld'
  BY <1>f, <1>g, <1>op, <1>manifest, <1>target, StateFacts, StoreAssumption DEF
     CommitIsHeld, MutationIsHeld, LockedSteps, Free
<1>7. LiveIsLeased'
  BY <1>f, <1>g, <1>manifest, StateFacts DEF LiveIsLeased
<1>8. LiveNeverInterrupted'
  BY <1>f, <1>g, <1>manifest, StateFacts DEF LiveNeverInterrupted
<1>9. CreationKeepsItsDirectory'
  BY <1>f, <1>g, <1>op, StoreAssumption DEF CreationKeepsItsDirectory, MutationIsHeld,
     LockedSteps, Free
<1>10. EndsAreDurable'
  BY <1>f, <1>g, <1>manifest, StateFacts DEF EndsAreDurable
<1>11. PublishedIsScanned'
  BY <1>f, <1>g, <1>op, <1>manifest, StateFacts, StoreAssumption DEF
     PublishedIsScanned, MutationIsHeld, LockedSteps, Free
<1>12. UsedIsLive'
  BY <1>f DEF UsedIsLive, Undisturbed
<1>13. ScansAreAnnounced'
  BY <1>f, <1>g, <1>op, <1>manifest, StateFacts DEF ScansAreAnnounced, Undisturbed,
     Scanning, Announced
<1>14. IndexIsAnnounced'
  BY <1>f, <1>g, <1>op, <1>manifest, StateFacts DEF IndexIsAnnounced, Undisturbed,
     Announced
<1> QED BY <1>1, <1>2, <1>3, <1>4, <1>5, <1>6, <1>7, <1>8, <1>9, <1>10, <1>11, <1>12,
   <1>13, <1>14

\* The announcement reaches every other process.
LEMMA TransitionPublishPreserves ==
    ASSUME StoreInv, NEW p \in Procs, NEW i \in Inv, TransitionPublish(p, i)
    PROVE  StoreInv'
<1> USE DEF StoreInv
<1>1. TypeOK'
  BY StateFacts, StoreAssumption, EmptyRows DEF TypeOK, Free, TransitionPublish,
     OpFrame, scan, pass_, disk, fileLocks, OpGoto, OpSteps, Publish
<1>f. UNCHANGED <<manifest, dir, protected, trash, owner, mutation, maintenance, worker, up,
         index, target, refresh, scanned, mpc, pass, recovered, changed, used, crashes,
         faults>>
  BY DEF TransitionPublish, OpFrame, scan, pass_, disk, fileLocks
<1>g. op[p][i] = "publish" /\ refresh[p] = "idle"
  BY DEF TransitionPublish, OpFrame, scan, pass_, disk, fileLocks, Publish
<1>op. \A q \in Procs, j \in Inv : op'[q][j] = IF q = p /\ j = i THEN "index" ELSE op[q][j]
  BY DEF TypeOK, TransitionPublish, OpFrame, scan, pass_, disk, fileLocks, OpGoto
<1>stale. stale'[p] = stale[p] /\ \A q \in Procs : stale[q] \/ q # p => stale'[q]
  BY DEF TypeOK, TransitionPublish, OpFrame, scan, pass_, disk, fileLocks, Publish
<1>2. MutationIsHeld'
  BY <1>f, <1>g, <1>op, StoreAssumption DEF MutationIsHeld, LockedSteps, Free
<1>3. OpenStores'
  BY <1>f, <1>g, <1>op DEF OpenStores
<1>4. UnusedIsClear'
  BY <1>f DEF UnusedIsClear, Unseen
<1>5. CreationIsOwned'
  BY <1>f, <1>g, <1>op, StateFacts, StoreAssumption DEF CreationIsOwned, Unseen,
     CreateSteps, BeforeManifest
<1>6. CommitIsHeld'
  BY <1>f, <1>g, <1>op, StateFacts DEF CommitIsHeld
<1>7. LiveIsLeased'
  BY <1>f DEF LiveIsLeased
<1>8. LiveNeverInterrupted'
  BY <1>f DEF LiveNeverInterrupted
<1>9. CreationKeepsItsDirectory'
  BY <1>f, <1>g, <1>op, StoreAssumption DEF CreationKeepsItsDirectory, MutationIsHeld,
     LockedSteps, Free
<1>10. EndsAreDurable'
  BY <1>f DEF EndsAreDurable
<1>11. PublishedIsScanned'
  BY <1>f, <1>g, <1>op, StateFacts DEF PublishedIsScanned
<1>12. UsedIsLive'
  BY <1>f DEF UsedIsLive, Undisturbed
<1>13. ScansAreAnnounced'
  BY <1>f, <1>g, <1>op, <1>stale, StateFacts DEF ScansAreAnnounced, Undisturbed,
     Scanning, Announced
<1>14. IndexIsAnnounced'
  BY <1>f, <1>g, <1>op, <1>stale, StateFacts DEF IndexIsAnnounced, Undisturbed,
     Announced
<1> QED BY <1>1, <1>2, <1>3, <1>4, <1>5, <1>6, <1>7, <1>8, <1>9, <1>10, <1>11, <1>12,
   <1>13, <1>14

\* The writer indexes its commit and releases the lease of an ended invocation.
LEMMA TransitionIndexPreserves ==
    ASSUME StoreInv, NEW p \in Procs, NEW i \in Inv, TransitionIndex(p, i)
    PROVE  StoreInv'
<1> USE DEF StoreInv
<1>1. TypeOK'
  <2>1. owner' \in [Inv -> Procs \cup {Free}]
    BY DEF TypeOK, Free, TransitionIndex, LeaseAfter, Unlocked
  <2>2. index' \in [Procs -> [Inv -> States \cup {Absent}]]
    BY DEF TypeOK, TransitionIndex, SetIndex
  <2>3. UNCHANGED <<manifest, dir, protected, trash, maintenance, worker, up, stale, refresh,
                    scanned, mpc, pass, recovered, changed, used, crashes, faults>>
    BY DEF TransitionIndex, OpFrame, scan, pass_, disk
  <2>4. mutation' \in [Inv -> Procs \cup {Free}]
    BY DEF TypeOK, Free, TransitionIndex, Unlocked
  <2>5. op' \in [Procs -> [Inv -> OpSteps]] /\ target' \in [Procs -> [Inv -> States \cup {Absent}]]
    BY DEF TypeOK, TransitionIndex, OpGoto, OpSteps
  <2> QED BY <2>1, <2>2, <2>3, <2>4, <2>5 DEF TypeOK
<1>f. UNCHANGED <<manifest, dir, protected, trash, maintenance, worker, up, stale, refresh,
         scanned, mpc, pass, recovered, changed, used, crashes, faults>>
  BY DEF TransitionIndex, OpFrame, scan, pass_, disk
<1>g. op[p][i] = "index"
  BY DEF TransitionIndex, OpFrame, scan, pass_, disk
<1>op. \A q \in Procs, j \in Inv : op'[q][j] = IF q = p /\ j = i THEN "idle" ELSE op[q][j]
  BY DEF TypeOK, TransitionIndex, OpFrame, scan, pass_, disk, OpGoto
<1>index. \A q \in Procs, j \in Inv : index'[q][j] = IF q = p /\ j = i THEN target[p][i] ELSE index[q][j]
  BY DEF TypeOK, TransitionIndex, OpFrame, scan, pass_, disk, SetIndex
<1>target. \A q \in Procs, j \in Inv : target'[q][j] = IF q = p /\ j = i THEN Absent ELSE target[q][j]
  BY EmptyRows DEF TypeOK, TransitionIndex, OpFrame, scan, pass_, disk
<1>mutation. \A j \in Inv : mutation'[j] = IF j = i THEN Free ELSE mutation[j]
  BY DEF TypeOK, TransitionIndex, OpFrame, scan, pass_, disk, Unlocked
<1>owner. \A j \in Inv : owner'[j] = owner[j] \/ (j = i /\ IsTerminal(target[p][i]) /\ owner'[i] = Free)
  <2>1. CASE IsTerminal(target[p][i]) /\ owner[i] = p
    BY <2>1 DEF TypeOK, TransitionIndex, LeaseAfter, Unlocked
  <2>2. CASE ~(IsTerminal(target[p][i]) /\ owner[i] = p)
    <3>1. owner' = owner
      BY <2>2 DEF TransitionIndex, LeaseAfter
    <3> QED BY <3>1
  <2> QED BY <2>1, <2>2
<1>2. MutationIsHeld'
  BY <1>f, <1>g, <1>op, <1>mutation, StoreAssumption DEF MutationIsHeld, LockedSteps,
     Free
<1>3. OpenStores'
  BY <1>f, <1>g, <1>op DEF OpenStores
<1>4. UnusedIsClear'
  BY <1>f, <1>g, <1>index, StateFacts DEF UnusedIsClear, Unseen, CommitIsHeld
<1>5. CreationIsOwned'
  BY <1>f, <1>g, <1>op, <1>index, <1>owner, StateFacts, StoreAssumption DEF
     CreationIsOwned, Unseen, CreateSteps, BeforeManifest, MutationIsHeld, LockedSteps,
     CommitIsHeld
<1>6. CommitIsHeld'
  BY <1>f, <1>g, <1>op, <1>target, StateFacts DEF CommitIsHeld
<1>7. LiveIsLeased'
  BY <1>f, <1>g, <1>owner, StateFacts DEF LiveIsLeased, CommitIsHeld
<1>8. LiveNeverInterrupted'
  BY <1>f DEF LiveNeverInterrupted
<1>9. CreationKeepsItsDirectory'
  BY <1>f, <1>g, <1>op, StoreAssumption DEF CreationKeepsItsDirectory, MutationIsHeld,
     LockedSteps, Free
<1>10. EndsAreDurable'
  BY <1>f, <1>g, <1>index, StateFacts DEF EndsAreDurable, CommitIsHeld
<1>11. PublishedIsScanned'
  BY <1>f, <1>g, <1>op, StateFacts DEF PublishedIsScanned
<1>12. UsedIsLive'
  BY <1>f DEF UsedIsLive, Undisturbed
<1>13. ScansAreAnnounced'
  BY <1>f, <1>g, <1>op, StateFacts DEF ScansAreAnnounced, Undisturbed, Scanning,
     Announced, PublishedIsScanned, OpenStores
<1>14. IndexIsAnnounced'
  BY <1>f, <1>g, <1>op, <1>index, StateFacts DEF IndexIsAnnounced, Undisturbed,
     Announced, CommitIsHeld
<1> QED BY <1>1, <1>2, <1>3, <1>4, <1>5, <1>6, <1>7, <1>8, <1>9, <1>10, <1>11, <1>12,
   <1>13, <1>14

\* A fault: the commit stays, unannounced.
LEMMA TransitionPublishFailsPreserves ==
    ASSUME StoreInv, NEW p \in Procs, NEW i \in Inv, TransitionPublishFails(p, i)
    PROVE  StoreInv'
<1> USE DEF StoreInv
<1>1. TypeOK'
  BY StateFacts, StoreAssumption, EmptyRows DEF TypeOK, Free, TransitionPublishFails,
     OpFrame, scan, pass_, disk, OpGoto, OpSteps, Unlocked
<1>f. UNCHANGED <<manifest, dir, protected, trash, owner, maintenance, worker, up, index,
         stale, refresh, scanned, mpc, pass, recovered, changed, used, crashes>>
  BY DEF TransitionPublishFails, OpFrame, scan, pass_, disk
<1>g. op[p][i] = "publish"
  BY DEF TransitionPublishFails, OpFrame, scan, pass_, disk
<1>op. \A q \in Procs, j \in Inv : op'[q][j] = IF q = p /\ j = i THEN "idle" ELSE op[q][j]
  BY DEF TypeOK, TransitionPublishFails, OpFrame, scan, pass_, disk, OpGoto
<1>target. \A q \in Procs, j \in Inv : target'[q][j] = IF q = p /\ j = i THEN Absent ELSE target[q][j]
  BY EmptyRows DEF TypeOK, TransitionPublishFails, OpFrame, scan, pass_, disk
<1>mutation. \A j \in Inv : mutation'[j] = IF j = i THEN Free ELSE mutation[j]
  BY DEF TypeOK, TransitionPublishFails, OpFrame, scan, pass_, disk, Unlocked
<1>faults. faults' # 0
  BY DEF TypeOK, TransitionPublishFails, OpFrame, scan, pass_, disk
<1>2. MutationIsHeld'
  BY <1>f, <1>g, <1>op, <1>mutation, StoreAssumption DEF MutationIsHeld, LockedSteps,
     Free
<1>3. OpenStores'
  BY <1>f, <1>g, <1>op DEF OpenStores
<1>4. UnusedIsClear'
  BY <1>f DEF UnusedIsClear, Unseen
<1>5. CreationIsOwned'
  BY <1>f, <1>g, <1>op, StateFacts, StoreAssumption DEF CreationIsOwned, Unseen,
     CreateSteps, BeforeManifest
<1>6. CommitIsHeld'
  BY <1>f, <1>g, <1>op, <1>target, StateFacts DEF CommitIsHeld
<1>7. LiveIsLeased'
  BY <1>f DEF LiveIsLeased
<1>8. LiveNeverInterrupted'
  BY <1>f DEF LiveNeverInterrupted
<1>9. CreationKeepsItsDirectory'
  BY <1>f, <1>g, <1>op, StoreAssumption DEF CreationKeepsItsDirectory, MutationIsHeld,
     LockedSteps, Free
<1>10. EndsAreDurable'
  BY <1>f DEF EndsAreDurable
<1>11. PublishedIsScanned'
  BY <1>f, <1>g, <1>op, StateFacts DEF PublishedIsScanned
<1>12. UsedIsLive'
  BY <1>f, <1>g, <1>faults, StoreAssumption DEF UsedIsLive, Undisturbed, Free
<1>13. ScansAreAnnounced'
  BY <1>f, <1>g, <1>op, <1>faults, StateFacts DEF ScansAreAnnounced, Undisturbed,
     Scanning, Announced
<1>14. IndexIsAnnounced'
  BY <1>f, <1>g, <1>op, <1>faults, StateFacts DEF IndexIsAnnounced, Undisturbed,
     Announced
<1> QED BY <1>1, <1>2, <1>3, <1>4, <1>5, <1>6, <1>7, <1>8, <1>9, <1>10, <1>11, <1>12,
   <1>13, <1>14

\* Only the index moves, and only of a record that is gone.
LEMMA TransitionLostEvidencePreserves ==
    ASSUME StoreInv, NEW p \in Procs, NEW i \in Inv, NEW next \in States, TransitionLostEvidence(p, i, next)
    PROVE  StoreInv'
<1> USE DEF StoreInv
<1>1. TypeOK'
  <2>1. owner' \in [Inv -> Procs \cup {Free}]
    BY DEF TypeOK, Free, TransitionLostEvidence, LeaseAfter, Unlocked
  <2>2. index' \in [Procs -> [Inv -> States \cup {Absent}]]
    <3>1. CASE ValidateTransition(index[p][i], next)
      <4>1. index' = [index EXCEPT ![p][i] = next]
        BY <3>1 DEF TransitionLostEvidence, SetIndex
      <4> QED BY <4>1 DEF TypeOK
    <3>2. CASE ~ValidateTransition(index[p][i], next)
      <4>1. index' = index
        BY <3>2 DEF TransitionLostEvidence
      <4> QED BY <4>1 DEF TypeOK
    <3> QED BY <3>1, <3>2
  <2>3. UNCHANGED <<manifest, dir, protected, trash, mutation, maintenance, worker, up, stale,
                    op, target, refresh, scanned, mpc, pass, recovered, changed, used, crashes,
                    faults>>
    BY DEF TransitionLostEvidence, OpFrame, scan, pass_, disk, ops
  <2> QED BY <2>1, <2>2, <2>3 DEF TypeOK
<1>f. UNCHANGED <<manifest, dir, protected, trash, mutation, maintenance, worker, up, stale,
         op, target, refresh, scanned, mpc, pass, recovered, changed, used, crashes, faults>>
  BY DEF TransitionLostEvidence, OpFrame, scan, pass_, disk, ops
<1>g. op[p][i] = "idle" /\ manifest[i] = Absent /\ index[p][i] # Absent
  BY DEF TransitionLostEvidence, OpFrame, scan, pass_, disk, ops
<1>index. \A q \in Procs, j \in Inv : index'[q][j] = index[q][j] \/ (q = p /\ j = i)
  <2>1. CASE ValidateTransition(index[p][i], next)
    <3>1. index' = [index EXCEPT ![p][i] = next]
      BY <2>1 DEF TransitionLostEvidence, SetIndex
    <3> QED BY <3>1 DEF TypeOK
  <2>2. CASE ~ValidateTransition(index[p][i], next)
    <3>1. index' = index
      BY <2>2 DEF TransitionLostEvidence
    <3> QED BY <3>1 DEF TypeOK
  <2> QED BY <2>1, <2>2
<1>owner. \A j \in Inv : owner'[j] = owner[j] \/ (j = i /\ owner[i] = p /\ owner'[i] = Free)
  <2>1. CASE IsTerminal(next) /\ owner[i] = p
    BY <2>1 DEF TypeOK, TransitionLostEvidence, LeaseAfter, Unlocked
  <2>2. CASE ~(IsTerminal(next) /\ owner[i] = p)
    <3>1. owner' = owner
      BY <2>2 DEF TransitionLostEvidence, LeaseAfter
    <3> QED BY <3>1
  <2> QED BY <2>1, <2>2
<1>2. MutationIsHeld'
  BY <1>f DEF MutationIsHeld
<1>3. OpenStores'
  BY <1>f DEF OpenStores
<1>4. UnusedIsClear'
  BY <1>f, <1>g, <1>index, StateFacts DEF UnusedIsClear, Unseen
<1>5. CreationIsOwned'
  BY <1>f, <1>g, <1>index, <1>owner, StateFacts, StoreAssumption DEF CreationIsOwned,
     Unseen, CreateSteps, BeforeManifest
<1>6. CommitIsHeld'
  BY <1>f DEF CommitIsHeld
<1>7. LiveIsLeased'
  BY <1>f, <1>g, <1>owner, StateFacts DEF LiveIsLeased
<1>8. LiveNeverInterrupted'
  BY <1>f DEF LiveNeverInterrupted
<1>9. CreationKeepsItsDirectory'
  BY <1>f DEF CreationKeepsItsDirectory
<1>10. EndsAreDurable'
  BY <1>f, <1>g, <1>index, StateFacts DEF EndsAreDurable
<1>11. PublishedIsScanned'
  BY <1>f DEF PublishedIsScanned
<1>12. UsedIsLive'
  BY <1>f DEF UsedIsLive, Undisturbed
<1>13. ScansAreAnnounced'
  BY <1>f DEF ScansAreAnnounced, Undisturbed, Scanning, Announced
<1>14. IndexIsAnnounced'
  BY <1>f, <1>g, <1>index, StateFacts DEF IndexIsAnnounced, Undisturbed, Announced
<1> QED BY <1>1, <1>2, <1>3, <1>4, <1>5, <1>6, <1>7, <1>8, <1>9, <1>10, <1>11, <1>12,
   <1>13, <1>14

\* Only the protection ends.
LEMMA DeferredExpiresPreserves ==
    ASSUME StoreInv, NEW i \in Inv, DeferredExpires(i)
    PROVE  StoreInv'
<1> USE DEF StoreInv
<1>1. TypeOK'
  BY StateFacts, StoreAssumption, EmptyRows DEF TypeOK, Free, DeferredExpires,
     fileLocks, ops, scan, pass_, bounds
<1>f. UNCHANGED <<manifest, dir, trash, owner, mutation, maintenance, worker, up, index,
         stale, op, target, refresh, scanned, mpc, pass, recovered, changed, used, crashes,
         faults>>
  BY DEF DeferredExpires, fileLocks, ops, scan, pass_, bounds
<1>2. MutationIsHeld'
  BY <1>f DEF MutationIsHeld
<1>3. OpenStores'
  BY <1>f DEF OpenStores
<1>4. UnusedIsClear'
  BY <1>f DEF UnusedIsClear, Unseen
<1>5. CreationIsOwned'
  BY <1>f DEF CreationIsOwned, Unseen
<1>6. CommitIsHeld'
  BY <1>f DEF CommitIsHeld
<1>7. LiveIsLeased'
  BY <1>f DEF LiveIsLeased
<1>8. LiveNeverInterrupted'
  BY <1>f DEF LiveNeverInterrupted
<1>9. CreationKeepsItsDirectory'
  BY <1>f DEF CreationKeepsItsDirectory
<1>10. EndsAreDurable'
  BY <1>f DEF EndsAreDurable
<1>11. PublishedIsScanned'
  BY <1>f DEF PublishedIsScanned
<1>12. UsedIsLive'
  BY <1>f DEF UsedIsLive, Undisturbed
<1>13. ScansAreAnnounced'
  BY <1>f DEF ScansAreAnnounced, Undisturbed, Scanning, Announced
<1>14. IndexIsAnnounced'
  BY <1>f DEF IndexIsAnnounced, Undisturbed, Announced
<1> QED BY <1>1, <1>2, <1>3, <1>4, <1>5, <1>6, <1>7, <1>8, <1>9, <1>10, <1>11, <1>12,
   <1>13, <1>14

\* A refresh starts with nothing read.
LEMMA RefreshBeginPreserves ==
    ASSUME StoreInv, NEW p \in Procs, RefreshBegin(p)
    PROVE  StoreInv'
<1> USE DEF StoreInv
<1>1. TypeOK'
  BY StateFacts, StoreAssumption, EmptyRows DEF TypeOK, Free, RefreshBegin, ScanFrame,
     fileLocks, ops, bounds, pass_, Publish
<1>f. UNCHANGED <<manifest, dir, protected, trash, owner, mutation, maintenance, worker, up,
         index, op, target, mpc, pass, recovered, changed, used, crashes, faults>>
  BY DEF RefreshBegin, ScanFrame, fileLocks, ops, bounds, pass_
<1>g. up[p] /\ refresh[p] = "idle"
  BY DEF RefreshBegin, ScanFrame, fileLocks, ops, bounds, pass_
<1>refresh. \A q \in Procs : refresh'[q] = IF q = p THEN "changed" ELSE refresh[q]
  BY DEF TypeOK, RefreshBegin, ScanFrame, fileLocks, ops, bounds, pass_
<1>scanned. \A q \in Procs, j \in Inv : scanned'[q][j] = IF q = p THEN Unread ELSE scanned[q][j]
  BY EmptyRows DEF TypeOK, RefreshBegin, ScanFrame, fileLocks, ops, bounds, pass_
<1>stale. ~stale'[p] /\ \A q \in Procs : q # p => stale'[q] = stale[q]
  BY DEF TypeOK, RefreshBegin, ScanFrame, fileLocks, ops, bounds, pass_, Publish
<1>2. MutationIsHeld'
  BY <1>f DEF MutationIsHeld
<1>3. OpenStores'
  BY <1>f, <1>g, <1>refresh DEF OpenStores
<1>4. UnusedIsClear'
  BY <1>f, <1>g, <1>scanned, StateFacts DEF UnusedIsClear, Unseen
<1>5. CreationIsOwned'
  BY <1>f, <1>g, <1>scanned, StateFacts, StoreAssumption DEF CreationIsOwned, Unseen,
     CreateSteps, BeforeManifest
<1>6. CommitIsHeld'
  BY <1>f DEF CommitIsHeld
<1>7. LiveIsLeased'
  BY <1>f DEF LiveIsLeased
<1>8. LiveNeverInterrupted'
  BY <1>f DEF LiveNeverInterrupted
<1>9. CreationKeepsItsDirectory'
  BY <1>f DEF CreationKeepsItsDirectory
<1>10. EndsAreDurable'
  BY <1>f, <1>g, <1>scanned, StateFacts DEF EndsAreDurable
<1>11. PublishedIsScanned'
  BY <1>f, <1>g, <1>refresh, <1>scanned, StateFacts DEF PublishedIsScanned
<1>12. UsedIsLive'
  BY <1>f DEF UsedIsLive, Undisturbed
<1>13. ScansAreAnnounced'
  BY <1>f, <1>g, <1>refresh, <1>scanned, <1>stale, StateFacts DEF ScansAreAnnounced,
     Undisturbed, Scanning, Announced
<1>14. IndexIsAnnounced'
  BY <1>f, <1>g, <1>refresh, <1>stale, StateFacts DEF IndexIsAnnounced, Undisturbed,
     Announced
<1> QED BY <1>1, <1>2, <1>3, <1>4, <1>5, <1>6, <1>7, <1>8, <1>9, <1>10, <1>11, <1>12,
   <1>13, <1>14

\* A scan reads what is on disk; it removes no directory whose lock is held.
LEMMA ScanReadPreserves ==
    ASSUME StoreInv, NEW p \in Procs, NEW i \in Inv, ScanRead(p, i)
    PROVE  StoreInv'
<1> USE DEF StoreInv
<1>1. TypeOK'
  BY StateFacts, StoreAssumption, EmptyRows DEF TypeOK, Free, ScanRead, ScanFrame,
     fileLocks, ops, bounds, pass_
<1>f. UNCHANGED <<manifest, protected, trash, owner, mutation, maintenance, worker, up,
         index, stale, op, target, refresh, mpc, pass, recovered, changed, used, crashes,
         faults>>
  BY DEF ScanRead, ScanFrame, fileLocks, ops, bounds, pass_
<1>scanned. \A q \in Procs, j \in Inv : scanned'[q][j] = IF q = p /\ j = i THEN manifest[i] ELSE scanned[q][j]
  BY DEF TypeOK, ScanRead, ScanFrame, fileLocks, ops, bounds, pass_
<1>dir. \A j \in Inv : mutation[j] # Free => dir'[j] = dir[j]
  BY DEF TypeOK, ScanRead, ScanFrame, fileLocks, ops, bounds, pass_
<1>2. MutationIsHeld'
  BY <1>f DEF MutationIsHeld
<1>3. OpenStores'
  BY <1>f DEF OpenStores
<1>4. UnusedIsClear'
  BY <1>f, <1>scanned, StateFacts DEF UnusedIsClear, Unseen
<1>5. CreationIsOwned'
  BY <1>f, <1>scanned, StateFacts, StoreAssumption DEF CreationIsOwned, Unseen,
     CreateSteps, BeforeManifest
<1>6. CommitIsHeld'
  BY <1>f DEF CommitIsHeld
<1>7. LiveIsLeased'
  BY <1>f DEF LiveIsLeased
<1>8. LiveNeverInterrupted'
  BY <1>f DEF LiveNeverInterrupted
<1>9. CreationKeepsItsDirectory'
  BY <1>f, <1>dir, StoreAssumption DEF CreationKeepsItsDirectory, MutationIsHeld,
     LockedSteps, Free
<1>10. EndsAreDurable'
  BY <1>f, <1>scanned, StateFacts DEF EndsAreDurable
<1>11. PublishedIsScanned'
  BY <1>f, <1>scanned, StateFacts DEF PublishedIsScanned
<1>12. UsedIsLive'
  BY <1>f DEF UsedIsLive, Undisturbed
<1>13. ScansAreAnnounced'
  BY <1>f, <1>scanned, StateFacts DEF ScansAreAnnounced, Undisturbed, Scanning,
     Announced
<1>14. IndexIsAnnounced'
  BY <1>f DEF IndexIsAnnounced, Undisturbed, Announced
<1> QED BY <1>1, <1>2, <1>3, <1>4, <1>5, <1>6, <1>7, <1>8, <1>9, <1>10, <1>11, <1>12,
   <1>13, <1>14

\* The index becomes what the scan read.
LEMMA RefreshCommitPreserves ==
    ASSUME StoreInv, NEW p \in Procs, RefreshCommit(p)
    PROVE  StoreInv'
<1> USE DEF StoreInv
<1>1. TypeOK'
  <2>1. scanned[p] \in [Inv -> States \cup {Absent}]
    BY DEF TypeOK, RefreshCommit, ScanDone
  <2>2. index' \in [Procs -> [Inv -> States \cup {Absent}]]
        /\ refresh' \in [Procs -> {"idle", "changed", "forced"}]
    BY <2>1 DEF TypeOK, RefreshCommit
  <2>3. mpc' \in [Procs -> MaintenanceSteps] /\ pass' \in [Procs -> SUBSET Inv]
        /\ recovered' \in [Procs -> SUBSET Inv] /\ UNCHANGED changed
    <3>1. CASE refresh[p] = "forced"
      <4>1. OrphanCandidates(scanned[p]) \in SUBSET Inv
        BY DEF OrphanCandidates
      <4>2. /\ mpc' = [mpc EXCEPT ![p] = "gc_recover"] /\ UNCHANGED changed
            /\ pass' = [pass EXCEPT ![p] = OrphanCandidates(scanned[p])]
            /\ recovered' = [recovered EXCEPT ![p] = {}]
        BY <3>1 DEF RefreshCommit, PassGoto
      <4> QED BY <4>1, <4>2 DEF TypeOK, MaintenanceSteps
    <3>2. CASE refresh[p] # "forced"
      BY <3>2 DEF TypeOK, RefreshCommit, pass_
    <3> QED BY <3>1, <3>2
  <2>4. UNCHANGED <<manifest, dir, protected, trash, owner, mutation, maintenance, worker, up,
                    stale, op, target, scanned, used, crashes, faults>>
    BY DEF RefreshCommit, ScanFrame, fileLocks, ops, bounds
  <2> QED BY <2>2, <2>3, <2>4 DEF TypeOK
<1>f. UNCHANGED <<manifest, dir, protected, trash, owner, mutation, maintenance, worker, up,
         stale, op, target, scanned, changed, used, crashes, faults>>
  BY DEF RefreshCommit, ScanFrame, fileLocks, ops, bounds, pass_
<1>g. refresh[p] # "idle" /\ \A j \in Inv : scanned[p][j] # Unread
  BY DEF RefreshCommit, ScanDone
<1>index. \A q \in Procs, j \in Inv : index'[q][j] = IF q = p THEN scanned[p][j] ELSE index[q][j]
  BY DEF TypeOK, RefreshCommit, ScanFrame, fileLocks, ops, bounds, pass_, SetIndex
<1>refresh. \A q \in Procs : refresh'[q] = IF q = p THEN "idle" ELSE refresh[q]
  BY DEF TypeOK, RefreshCommit, ScanFrame, fileLocks, ops, bounds, pass_
<1>mpc. \A q \in Procs : mpc'[q] = mpc[q] \/ (q = p /\ mpc'[p] = "gc_recover")
  <2>1. CASE refresh[p] = "forced"
    BY <2>1 DEF TypeOK, RefreshCommit, PassGoto
  <2>2. CASE refresh[p] # "forced"
    <3>1. mpc' = mpc
      BY <2>2 DEF RefreshCommit, pass_
    <3> QED BY <3>1
  <2> QED BY <2>1, <2>2
<1>2. MutationIsHeld'
  BY <1>f DEF MutationIsHeld
<1>3. OpenStores'
  BY <1>f, <1>g, <1>refresh, <1>mpc DEF OpenStores
<1>4. UnusedIsClear'
  BY <1>f, <1>g, <1>index, StateFacts DEF UnusedIsClear, Unseen
<1>5. CreationIsOwned'
  BY <1>f, <1>g, <1>index, StateFacts, StoreAssumption DEF CreationIsOwned, Unseen,
     CreateSteps, BeforeManifest, Unread
<1>6. CommitIsHeld'
  BY <1>f DEF CommitIsHeld
<1>7. LiveIsLeased'
  BY <1>f DEF LiveIsLeased
<1>8. LiveNeverInterrupted'
  BY <1>f DEF LiveNeverInterrupted
<1>9. CreationKeepsItsDirectory'
  BY <1>f DEF CreationKeepsItsDirectory
<1>10. EndsAreDurable'
  BY <1>f, <1>g, <1>index, StateFacts DEF EndsAreDurable
<1>11. PublishedIsScanned'
  BY <1>f, <1>g, <1>refresh, StateFacts DEF PublishedIsScanned
<1>12. UsedIsLive'
  BY <1>f DEF UsedIsLive, Undisturbed
<1>13. ScansAreAnnounced'
  BY <1>f, <1>g, <1>refresh, <1>mpc, StateFacts DEF ScansAreAnnounced, Undisturbed,
     Scanning, Announced, OpenStores
<1>14. IndexIsAnnounced'
  BY <1>f, <1>g, <1>index, <1>refresh, <1>mpc, StateFacts DEF IndexIsAnnounced,
     Undisturbed, Announced, ScansAreAnnounced, Scanning
<1> QED BY <1>1, <1>2, <1>3, <1>4, <1>5, <1>6, <1>7, <1>8, <1>9, <1>10, <1>11, <1>12,
   <1>13, <1>14

\* A leased invocation is left alone.
LEMMA RecoverSkipPreserves ==
    ASSUME StoreInv, NEW p \in Procs, NEW i \in Inv, RecoverSkip(p, i)
    PROVE  StoreInv'
<1> USE DEF StoreInv
<1>1. TypeOK'
  BY StateFacts, StoreAssumption, EmptyRows DEF TypeOK, Free, RecoverSkip,
     RecoveryFrame, ops, scan, bounds
<1>f. UNCHANGED <<manifest, dir, protected, trash, owner, mutation, maintenance, worker, up,
         index, stale, op, target, refresh, scanned, mpc, recovered, changed, used, crashes,
         faults>>
  BY DEF RecoverSkip, RecoveryFrame, ops, scan, bounds
<1>2. MutationIsHeld'
  BY <1>f DEF MutationIsHeld
<1>3. OpenStores'
  BY <1>f DEF OpenStores
<1>4. UnusedIsClear'
  BY <1>f DEF UnusedIsClear, Unseen
<1>5. CreationIsOwned'
  BY <1>f DEF CreationIsOwned, Unseen
<1>6. CommitIsHeld'
  BY <1>f DEF CommitIsHeld
<1>7. LiveIsLeased'
  BY <1>f DEF LiveIsLeased
<1>8. LiveNeverInterrupted'
  BY <1>f DEF LiveNeverInterrupted
<1>9. CreationKeepsItsDirectory'
  BY <1>f DEF CreationKeepsItsDirectory
<1>10. EndsAreDurable'
  BY <1>f DEF EndsAreDurable
<1>11. PublishedIsScanned'
  BY <1>f DEF PublishedIsScanned
<1>12. UsedIsLive'
  BY <1>f DEF UsedIsLive, Undisturbed
<1>13. ScansAreAnnounced'
  BY <1>f DEF ScansAreAnnounced, Undisturbed, Scanning, Announced
<1>14. IndexIsAnnounced'
  BY <1>f DEF IndexIsAnnounced, Undisturbed, Announced
<1> QED BY <1>1, <1>2, <1>3, <1>4, <1>5, <1>6, <1>7, <1>8, <1>9, <1>10, <1>11, <1>12,
   <1>13, <1>14

\* Only a record without lease, and so without a server, is interrupted.
LEMMA RecoverOnePreserves ==
    ASSUME StoreInv, NEW p \in Procs, NEW i \in Inv, RecoverOne(p, i)
    PROVE  StoreInv'
<1> USE DEF StoreInv
<1>1. TypeOK'
  BY StateFacts, StoreAssumption, EmptyRows DEF TypeOK, Free, RecoverOne,
     RecoveryFrame, ops, scan, bounds
<1>f. UNCHANGED <<dir, protected, trash, owner, mutation, maintenance, worker, up, index,
         stale, op, target, refresh, scanned, mpc, changed, used, crashes, faults>>
  BY DEF RecoverOne, RecoveryFrame, ops, scan, bounds
<1>g. owner[i] = Free /\ mutation[i] = Free
  BY DEF RecoverOne, RecoveryFrame, ops, scan, bounds
<1>manifest. \A j \in Inv : manifest'[j] = manifest[j]
            \/ (j = i /\ manifest[i] \in NonterminalStates /\ manifest'[i] = "interrupted")
  <2>1. CASE manifest[i] \in NonterminalStates
    BY <2>1 DEF TypeOK, RecoverOne
  <2>2. CASE manifest[i] \notin NonterminalStates
    <3>1. manifest' = manifest
      BY <2>2 DEF RecoverOne
    <3> QED BY <3>1
  <2> QED BY <2>1, <2>2
<1>2. MutationIsHeld'
  BY <1>f DEF MutationIsHeld
<1>3. OpenStores'
  BY <1>f DEF OpenStores
<1>4. UnusedIsClear'
  BY <1>f, <1>g, <1>manifest, StateFacts DEF UnusedIsClear, Unseen
<1>5. CreationIsOwned'
  BY <1>f, <1>g, <1>manifest, StateFacts, StoreAssumption, StoreAssumption DEF
     CreationIsOwned, Unseen, CreateSteps, BeforeManifest, Free
<1>6. CommitIsHeld'
  BY <1>f, <1>g, <1>manifest, StateFacts, StoreAssumption DEF CommitIsHeld,
     MutationIsHeld, LockedSteps, Free
<1>7. LiveIsLeased'
  BY <1>f, <1>g, <1>manifest, StateFacts DEF LiveIsLeased
<1>8. LiveNeverInterrupted'
  BY <1>f, <1>g, <1>manifest, StateFacts DEF LiveNeverInterrupted, LiveIsLeased
<1>9. CreationKeepsItsDirectory'
  BY <1>f DEF CreationKeepsItsDirectory
<1>10. EndsAreDurable'
  BY <1>f, <1>g, <1>manifest, StateFacts DEF EndsAreDurable
<1>11. PublishedIsScanned'
  BY <1>f, <1>g, <1>manifest, StateFacts, StoreAssumption DEF PublishedIsScanned,
     MutationIsHeld, LockedSteps, Free
<1>12. UsedIsLive'
  BY <1>f DEF UsedIsLive, Undisturbed
<1>13. ScansAreAnnounced'
  BY <1>f, <1>g, <1>manifest, StateFacts DEF ScansAreAnnounced, Undisturbed, Scanning,
     Announced, UsedIsLive, LiveIsLeased, UnusedIsClear
<1>14. IndexIsAnnounced'
  BY <1>f, <1>g, <1>manifest, StateFacts DEF IndexIsAnnounced, Undisturbed, Announced,
     UsedIsLive, LiveIsLeased, UnusedIsClear
<1> QED BY <1>1, <1>2, <1>3, <1>4, <1>5, <1>6, <1>7, <1>8, <1>9, <1>10, <1>11, <1>12,
   <1>13, <1>14

\* A store that opens starts with nothing read.
LEMMA OpenBeginPreserves ==
    ASSUME StoreInv, NEW p \in Procs, OpenBegin(p)
    PROVE  StoreInv'
<1> USE DEF StoreInv
<1>1. TypeOK'
  BY StateFacts, StoreAssumption, EmptyRows DEF TypeOK, Free, OpenBegin, OpenFrame,
     fileLocks, ops, bounds, OwnMarkers, CleanTrash, PassGoto, MaintenanceSteps,
     Publish
<1>f. UNCHANGED <<manifest, dir, protected, owner, mutation, worker, up, index, op, target,
         refresh, pass, recovered, changed, used, crashes, faults>>
  BY DEF OpenBegin, OpenFrame, fileLocks, ops, bounds, OwnMarkers, CleanTrash, PassGoto
<1>g. mpc[p] = "closed"
  BY DEF OpenBegin, OpenFrame, fileLocks, ops, bounds, OwnMarkers, CleanTrash, PassGoto
<1>mpc. \A q \in Procs : mpc'[q] = IF q = p THEN "open_scan" ELSE mpc[q]
  BY DEF TypeOK, OpenBegin, OpenFrame, fileLocks, ops, bounds, OwnMarkers, CleanTrash,
     PassGoto
<1>scanned. \A q \in Procs, j \in Inv : scanned'[q][j] = IF q = p THEN Unread ELSE scanned[q][j]
  BY EmptyRows DEF TypeOK, OpenBegin, OpenFrame, fileLocks, ops, bounds, OwnMarkers,
     CleanTrash, PassGoto
<1>stale. \A q \in Procs : q # p => stale'[q]
  BY DEF TypeOK, OpenBegin, OpenFrame, fileLocks, ops, bounds, OwnMarkers, CleanTrash,
     PassGoto, Publish
<1>2. MutationIsHeld'
  BY <1>f DEF MutationIsHeld
<1>3. OpenStores'
  BY <1>f, <1>g, <1>mpc DEF OpenStores
<1>4. UnusedIsClear'
  BY <1>f, <1>g, <1>scanned, StateFacts DEF UnusedIsClear, Unseen
<1>5. CreationIsOwned'
  BY <1>f, <1>g, <1>scanned, StateFacts, StoreAssumption DEF CreationIsOwned, Unseen,
     CreateSteps, BeforeManifest
<1>6. CommitIsHeld'
  BY <1>f DEF CommitIsHeld
<1>7. LiveIsLeased'
  BY <1>f DEF LiveIsLeased
<1>8. LiveNeverInterrupted'
  BY <1>f DEF LiveNeverInterrupted
<1>9. CreationKeepsItsDirectory'
  BY <1>f DEF CreationKeepsItsDirectory
<1>10. EndsAreDurable'
  BY <1>f, <1>g, <1>scanned, StateFacts DEF EndsAreDurable
<1>11. PublishedIsScanned'
  BY <1>f, <1>g, <1>scanned, StateFacts DEF PublishedIsScanned
<1>12. UsedIsLive'
  BY <1>f DEF UsedIsLive, Undisturbed
<1>13. ScansAreAnnounced'
  BY <1>f, <1>g, <1>mpc, <1>scanned, <1>stale, StateFacts DEF ScansAreAnnounced,
     Undisturbed, Scanning, Announced
<1>14. IndexIsAnnounced'
  BY <1>f, <1>g, <1>mpc, <1>stale, StateFacts DEF IndexIsAnnounced, Undisturbed,
     Announced, OpenStores
<1> QED BY <1>1, <1>2, <1>3, <1>4, <1>5, <1>6, <1>7, <1>8, <1>9, <1>10, <1>11, <1>12,
   <1>13, <1>14

\* The scan becomes the index.
LEMMA OpenScannedPreserves ==
    ASSUME StoreInv, NEW p \in Procs, OpenScanned(p)
    PROVE  StoreInv'
<1> USE DEF StoreInv
<1>1. TypeOK'
  <2>1. scanned[p] \in [Inv -> States \cup {Absent}]
    BY DEF TypeOK, OpenScanned, ScanDone
  <2>2. index' \in [Procs -> [Inv -> States \cup {Absent}]]
    BY <2>1 DEF TypeOK, OpenScanned
  <2>3. mpc' \in [Procs -> MaintenanceSteps] /\ pass' \in [Procs -> SUBSET Inv]
        /\ recovered' \in [Procs -> SUBSET Inv]
    BY DEF TypeOK, OpenScanned, PassGoto, MaintenanceSteps, OrphanCandidates
  <2>4. UNCHANGED <<manifest, dir, protected, trash, owner, mutation, maintenance, worker, up,
                    stale, op, target, refresh, scanned, changed, used, crashes, faults>>
    BY DEF OpenScanned, OpenFrame, scan, fileLocks, ops, bounds
  <2> QED BY <2>2, <2>3, <2>4 DEF TypeOK
<1>f. UNCHANGED <<manifest, dir, protected, trash, owner, mutation, maintenance, worker, up,
         stale, op, target, refresh, scanned, changed, used, crashes, faults>>
  BY DEF OpenScanned, OpenFrame, fileLocks, ops, bounds, PassGoto, scan
<1>g. mpc[p] = "open_scan" /\ \A j \in Inv : scanned[p][j] # Unread
  BY DEF OpenScanned, ScanDone
<1>index. \A q \in Procs, j \in Inv : index'[q][j] = IF q = p THEN scanned[p][j] ELSE index[q][j]
  BY DEF TypeOK, OpenScanned, OpenFrame, fileLocks, ops, bounds, PassGoto, scan,
     SetIndex
<1>mpc. \A q \in Procs : mpc'[q] = IF q = p THEN "open_recover" ELSE mpc[q]
  BY DEF TypeOK, OpenScanned, OpenFrame, fileLocks, ops, bounds, PassGoto, scan
<1>2. MutationIsHeld'
  BY <1>f DEF MutationIsHeld
<1>3. OpenStores'
  BY <1>f, <1>g, <1>mpc DEF OpenStores
<1>4. UnusedIsClear'
  BY <1>f, <1>g, <1>index, StateFacts DEF UnusedIsClear, Unseen
<1>5. CreationIsOwned'
  BY <1>f, <1>g, <1>index, StateFacts, StoreAssumption DEF CreationIsOwned, Unseen,
     CreateSteps, BeforeManifest
<1>6. CommitIsHeld'
  BY <1>f DEF CommitIsHeld
<1>7. LiveIsLeased'
  BY <1>f DEF LiveIsLeased
<1>8. LiveNeverInterrupted'
  BY <1>f DEF LiveNeverInterrupted
<1>9. CreationKeepsItsDirectory'
  BY <1>f DEF CreationKeepsItsDirectory
<1>10. EndsAreDurable'
  BY <1>f, <1>g, <1>index, StateFacts DEF EndsAreDurable
<1>11. PublishedIsScanned'
  BY <1>f DEF PublishedIsScanned
<1>12. UsedIsLive'
  BY <1>f DEF UsedIsLive, Undisturbed
<1>13. ScansAreAnnounced'
  BY <1>f, <1>g, <1>mpc, StateFacts DEF ScansAreAnnounced, Undisturbed, Scanning,
     Announced
<1>14. IndexIsAnnounced'
  BY <1>f, <1>g, <1>index, <1>mpc, StateFacts DEF IndexIsAnnounced, Undisturbed,
     Announced, ScansAreAnnounced, Scanning, OpenStores
<1> QED BY <1>1, <1>2, <1>3, <1>4, <1>5, <1>6, <1>7, <1>8, <1>9, <1>10, <1>11, <1>12,
   <1>13, <1>14

\* Recovered entries are indexed and announced.
LEMMA OpenFinishPreserves ==
    ASSUME StoreInv, NEW p \in Procs, OpenFinish(p)
    PROVE  StoreInv'
<1> USE DEF StoreInv
<1>1. TypeOK'
  <2>1. index' \in [Procs -> [Inv -> States \cup {Absent}]]
    BY RecoveredRow DEF OpenFinish
  <2>2. stale' \in [Procs -> BOOLEAN]
    BY DEF TypeOK, OpenFinish, Publish
  <2>3. up' \in [Procs -> BOOLEAN] /\ mpc' \in [Procs -> MaintenanceSteps]
        /\ maintenance' \in Procs \cup {Free}
    BY DEF TypeOK, OpenFinish, PassGoto, MaintenanceSteps
  <2>4. UNCHANGED <<manifest, dir, protected, trash, owner, mutation, worker, op, target,
                    refresh, scanned, pass, recovered, changed, used, crashes, faults>>
    BY DEF OpenFinish, OpenFrame, scan, fileLocks, ops, bounds
  <2> QED BY <2>1, <2>2, <2>3, <2>4 DEF TypeOK
<1>f. UNCHANGED <<manifest, dir, protected, trash, owner, mutation, worker, op, target,
         refresh, scanned, pass, recovered, changed, used, crashes, faults>>
  BY DEF OpenFinish, OpenFrame, fileLocks, ops, bounds, PassGoto, scan
<1>g. mpc[p] = "open_recover"
  BY DEF OpenFinish, OpenFrame, fileLocks, ops, bounds, PassGoto, scan
<1>index. \A q \in Procs, j \in Inv : index'[q][j] \in {index[q][j], manifest[j]}
  BY RecoveredRow DEF OpenFinish
<1>stale. \A q \in Procs : stale[q] => stale'[q]
  BY DEF TypeOK, OpenFinish, OpenFrame, fileLocks, ops, bounds, PassGoto, scan, Publish
<1>mpc. \A q \in Procs : mpc'[q] = IF q = p THEN "idle" ELSE mpc[q]
  BY DEF TypeOK, OpenFinish, OpenFrame, fileLocks, ops, bounds, PassGoto, scan
<1>up. up'[p] /\ \A q \in Procs : q # p => up'[q] = up[q]
  BY DEF TypeOK, OpenFinish, OpenFrame, fileLocks, ops, bounds, PassGoto, scan
<1>2. MutationIsHeld'
  BY <1>f DEF MutationIsHeld
<1>3. OpenStores'
  BY <1>f, <1>g, <1>mpc, <1>up DEF OpenStores
<1>4. UnusedIsClear'
  BY <1>f, <1>g, <1>index, StateFacts DEF UnusedIsClear, Unseen
<1>5. CreationIsOwned'
  BY <1>f, <1>g, <1>index, StateFacts, StoreAssumption DEF CreationIsOwned, Unseen,
     CreateSteps, BeforeManifest
<1>6. CommitIsHeld'
  BY <1>f DEF CommitIsHeld
<1>7. LiveIsLeased'
  BY <1>f DEF LiveIsLeased
<1>8. LiveNeverInterrupted'
  BY <1>f DEF LiveNeverInterrupted
<1>9. CreationKeepsItsDirectory'
  BY <1>f DEF CreationKeepsItsDirectory
<1>10. EndsAreDurable'
  BY <1>f, <1>g, <1>index, StateFacts DEF EndsAreDurable
<1>11. PublishedIsScanned'
  BY <1>f DEF PublishedIsScanned
<1>12. UsedIsLive'
  BY <1>f DEF UsedIsLive, Undisturbed
<1>13. ScansAreAnnounced'
  BY <1>f, <1>g, <1>stale, <1>mpc, StateFacts DEF ScansAreAnnounced, Undisturbed,
     Scanning, Announced
<1>14. IndexIsAnnounced'
  BY <1>f, <1>g, <1>index, <1>stale, <1>mpc, <1>up, StateFacts DEF IndexIsAnnounced,
     Undisturbed, Announced
<1> QED BY <1>1, <1>2, <1>3, <1>4, <1>5, <1>6, <1>7, <1>8, <1>9, <1>10, <1>11, <1>12,
   <1>13, <1>14

\* Only MAINTENANCE is taken.
LEMMA GcBeginPreserves ==
    ASSUME StoreInv, NEW p \in Procs, GcBegin(p)
    PROVE  StoreInv'
<1> USE DEF StoreInv
<1>1. TypeOK'
  BY StateFacts, StoreAssumption, EmptyRows DEF TypeOK, Free, GcBegin, GcFrame,
     GcKeepsDisk, bounds, PassGoto, scan, MaintenanceSteps
<1>f. UNCHANGED <<manifest, dir, protected, trash, owner, mutation, worker, up, index, stale,
         op, target, refresh, scanned, pass, recovered, changed, used, crashes, faults>>
  BY DEF GcBegin, GcFrame, GcKeepsDisk, bounds, PassGoto, scan
<1>g. mpc[p] = "idle"
  BY DEF GcBegin, GcFrame, GcKeepsDisk, bounds, PassGoto, scan
<1>mpc. \A q \in Procs : mpc'[q] = IF q = p THEN "gc_refresh" ELSE mpc[q]
  BY DEF TypeOK, GcBegin, GcFrame, GcKeepsDisk, bounds, PassGoto, scan
<1>2. MutationIsHeld'
  BY <1>f DEF MutationIsHeld
<1>3. OpenStores'
  BY <1>f, <1>g, <1>mpc DEF OpenStores
<1>4. UnusedIsClear'
  BY <1>f DEF UnusedIsClear, Unseen
<1>5. CreationIsOwned'
  BY <1>f DEF CreationIsOwned, Unseen
<1>6. CommitIsHeld'
  BY <1>f DEF CommitIsHeld
<1>7. LiveIsLeased'
  BY <1>f DEF LiveIsLeased
<1>8. LiveNeverInterrupted'
  BY <1>f DEF LiveNeverInterrupted
<1>9. CreationKeepsItsDirectory'
  BY <1>f DEF CreationKeepsItsDirectory
<1>10. EndsAreDurable'
  BY <1>f DEF EndsAreDurable
<1>11. PublishedIsScanned'
  BY <1>f DEF PublishedIsScanned
<1>12. UsedIsLive'
  BY <1>f DEF UsedIsLive, Undisturbed
<1>13. ScansAreAnnounced'
  BY <1>f, <1>g, <1>mpc, StateFacts DEF ScansAreAnnounced, Undisturbed, Scanning,
     Announced
<1>14. IndexIsAnnounced'
  BY <1>f, <1>g, <1>mpc, StateFacts DEF IndexIsAnnounced, Undisturbed, Announced
<1> QED BY <1>1, <1>2, <1>3, <1>4, <1>5, <1>6, <1>7, <1>8, <1>9, <1>10, <1>11, <1>12,
   <1>13, <1>14

\* The forced scan starts with nothing read.
LEMMA GcRefreshPreserves ==
    ASSUME StoreInv, NEW p \in Procs, GcRefresh(p)
    PROVE  StoreInv'
<1> USE DEF StoreInv
<1>1. TypeOK'
  BY StateFacts, StoreAssumption, EmptyRows DEF TypeOK, Free, GcRefresh, GcFrame,
     GcKeepsDisk, bounds, PassGoto, MaintenanceSteps, Publish
<1>f. UNCHANGED <<manifest, dir, protected, trash, owner, mutation, maintenance, worker, up,
         index, op, target, pass, recovered, changed, used, crashes, faults>>
  BY DEF GcRefresh, GcFrame, GcKeepsDisk, bounds, PassGoto
<1>g. mpc[p] = "gc_refresh" /\ refresh[p] = "idle"
  BY DEF GcRefresh, GcFrame, GcKeepsDisk, bounds, PassGoto
<1>refresh. \A q \in Procs : refresh'[q] = IF q = p THEN "forced" ELSE refresh[q]
  BY DEF TypeOK, GcRefresh, GcFrame, GcKeepsDisk, bounds, PassGoto
<1>scanned. \A q \in Procs, j \in Inv : scanned'[q][j] = IF q = p THEN Unread ELSE scanned[q][j]
  BY EmptyRows DEF TypeOK, GcRefresh, GcFrame, GcKeepsDisk, bounds, PassGoto
<1>stale. ~stale'[p] /\ \A q \in Procs : q # p => stale'[q] = stale[q]
  BY DEF TypeOK, GcRefresh, GcFrame, GcKeepsDisk, bounds, PassGoto, Publish
<1>mpc. \A q \in Procs : mpc'[q] = IF q = p THEN "gc_scan" ELSE mpc[q]
  BY DEF TypeOK, GcRefresh, GcFrame, GcKeepsDisk, bounds, PassGoto
<1>2. MutationIsHeld'
  BY <1>f DEF MutationIsHeld
<1>3. OpenStores'
  BY <1>f, <1>g, <1>refresh, <1>mpc DEF OpenStores
<1>4. UnusedIsClear'
  BY <1>f, <1>g, <1>scanned, StateFacts DEF UnusedIsClear, Unseen
<1>5. CreationIsOwned'
  BY <1>f, <1>g, <1>scanned, StateFacts, StoreAssumption DEF CreationIsOwned, Unseen,
     CreateSteps, BeforeManifest
<1>6. CommitIsHeld'
  BY <1>f DEF CommitIsHeld
<1>7. LiveIsLeased'
  BY <1>f DEF LiveIsLeased
<1>8. LiveNeverInterrupted'
  BY <1>f DEF LiveNeverInterrupted
<1>9. CreationKeepsItsDirectory'
  BY <1>f DEF CreationKeepsItsDirectory
<1>10. EndsAreDurable'
  BY <1>f, <1>g, <1>scanned, StateFacts DEF EndsAreDurable
<1>11. PublishedIsScanned'
  BY <1>f, <1>g, <1>refresh, <1>scanned, StateFacts DEF PublishedIsScanned
<1>12. UsedIsLive'
  BY <1>f DEF UsedIsLive, Undisturbed
<1>13. ScansAreAnnounced'
  BY <1>f, <1>g, <1>refresh, <1>scanned, <1>stale, <1>mpc, StateFacts DEF
     ScansAreAnnounced, Undisturbed, Scanning, Announced
<1>14. IndexIsAnnounced'
  BY <1>f, <1>g, <1>refresh, <1>stale, <1>mpc, StateFacts DEF IndexIsAnnounced,
     Undisturbed, Announced
<1> QED BY <1>1, <1>2, <1>3, <1>4, <1>5, <1>6, <1>7, <1>8, <1>9, <1>10, <1>11, <1>12,
   <1>13, <1>14

\* Recovered entries are indexed.
LEMMA GcIndexRecoveredPreserves ==
    ASSUME StoreInv, NEW p \in Procs, GcIndexRecovered(p)
    PROVE  StoreInv'
<1> USE DEF StoreInv
<1>1. TypeOK'
  <2>1. index' \in [Procs -> [Inv -> States \cup {Absent}]]
    BY RecoveredRow DEF GcIndexRecovered
  <2>2. mpc' \in [Procs -> MaintenanceSteps]
    BY DEF TypeOK, GcIndexRecovered, PassGoto, MaintenanceSteps
  <2>3. UNCHANGED <<manifest, dir, protected, trash, owner, mutation, maintenance, worker, up,
                    stale, op, target, refresh, scanned, pass, recovered, changed, used,
                    crashes, faults>>
    BY DEF GcIndexRecovered, GcFrame, GcKeepsDisk, bounds, scan
  <2> QED BY <2>1, <2>2, <2>3 DEF TypeOK
<1>f. UNCHANGED <<manifest, dir, protected, trash, owner, mutation, maintenance, worker, up,
         stale, op, target, refresh, scanned, pass, recovered, changed, used, crashes,
         faults>>
  BY DEF GcIndexRecovered, GcFrame, GcKeepsDisk, bounds, PassGoto, scan
<1>g. mpc[p] = "gc_recover"
  BY DEF GcIndexRecovered, GcFrame, GcKeepsDisk, bounds, PassGoto, scan
<1>index. \A q \in Procs, j \in Inv : index'[q][j] \in {index[q][j], manifest[j]}
  BY RecoveredRow DEF GcIndexRecovered
<1>mpc. \A q \in Procs : mpc'[q] = IF q = p THEN "gc_publish" ELSE mpc[q]
  BY DEF TypeOK, GcIndexRecovered, GcFrame, GcKeepsDisk, bounds, PassGoto, scan
<1>2. MutationIsHeld'
  BY <1>f DEF MutationIsHeld
<1>3. OpenStores'
  BY <1>f, <1>g, <1>mpc DEF OpenStores
<1>4. UnusedIsClear'
  BY <1>f, <1>g, <1>index, StateFacts DEF UnusedIsClear, Unseen
<1>5. CreationIsOwned'
  BY <1>f, <1>g, <1>index, StateFacts, StoreAssumption DEF CreationIsOwned, Unseen,
     CreateSteps, BeforeManifest
<1>6. CommitIsHeld'
  BY <1>f DEF CommitIsHeld
<1>7. LiveIsLeased'
  BY <1>f DEF LiveIsLeased
<1>8. LiveNeverInterrupted'
  BY <1>f DEF LiveNeverInterrupted
<1>9. CreationKeepsItsDirectory'
  BY <1>f DEF CreationKeepsItsDirectory
<1>10. EndsAreDurable'
  BY <1>f, <1>g, <1>index, StateFacts DEF EndsAreDurable
<1>11. PublishedIsScanned'
  BY <1>f DEF PublishedIsScanned
<1>12. UsedIsLive'
  BY <1>f DEF UsedIsLive, Undisturbed
<1>13. ScansAreAnnounced'
  BY <1>f, <1>g, <1>mpc, StateFacts DEF ScansAreAnnounced, Undisturbed, Scanning,
     Announced
<1>14. IndexIsAnnounced'
  BY <1>f, <1>g, <1>index, <1>mpc, StateFacts DEF IndexIsAnnounced, Undisturbed,
     Announced
<1> QED BY <1>1, <1>2, <1>3, <1>4, <1>5, <1>6, <1>7, <1>8, <1>9, <1>10, <1>11, <1>12,
   <1>13, <1>14

\* Candidates are picked from the index.
LEMMA GcSelectPreserves ==
    ASSUME StoreInv, NEW p \in Procs, GcSelect(p)
    PROVE  StoreInv'
<1> USE DEF StoreInv
<1>1. TypeOK'
  <2>0. stale' = stale \/ stale' = [q \in Procs |-> stale[q] \/ q # p]
    BY DEF GcSelect, Publish
  <2>1. stale' \in [Procs -> BOOLEAN]
    BY <2>0, ZenonT(60) DEF TypeOK
  <2>2. pass' \in [Procs -> SUBSET Inv]
    BY DEF TypeOK, GcSelect
  <2>3. mpc' \in [Procs -> MaintenanceSteps] /\ changed' \in [Procs -> BOOLEAN]
    BY DEF TypeOK, GcSelect, PassGoto, MaintenanceSteps
  <2>4. UNCHANGED <<manifest, dir, protected, trash, owner, mutation, maintenance, worker, up,
                    index, op, target, refresh, scanned, recovered, used, crashes, faults>>
    BY DEF GcSelect, GcFrame, GcKeepsDisk, bounds, scan
  <2> QED BY <2>1, <2>2, <2>3, <2>4 DEF TypeOK
<1>f. UNCHANGED <<manifest, dir, protected, trash, owner, mutation, maintenance, worker, up,
         index, op, target, refresh, scanned, recovered, used, crashes, faults>>
  BY DEF GcSelect, GcFrame, GcKeepsDisk, bounds, PassGoto, scan
<1>g. mpc[p] \in {"gc_recover", "gc_publish"}
  BY DEF GcSelect, GcFrame, GcKeepsDisk, bounds, PassGoto, scan
<1>stale. \A q \in Procs : stale[q] => stale'[q]
  BY DEF TypeOK, GcSelect, GcFrame, GcKeepsDisk, bounds, PassGoto, scan, Publish
<1>mpc. \A q \in Procs : mpc'[q] = IF q = p THEN "gc_reclaim" ELSE mpc[q]
  BY DEF TypeOK, GcSelect, GcFrame, GcKeepsDisk, bounds, PassGoto, scan
<1>2. MutationIsHeld'
  BY <1>f DEF MutationIsHeld
<1>3. OpenStores'
  BY <1>f, <1>g, <1>mpc DEF OpenStores
<1>4. UnusedIsClear'
  BY <1>f DEF UnusedIsClear, Unseen
<1>5. CreationIsOwned'
  BY <1>f DEF CreationIsOwned, Unseen
<1>6. CommitIsHeld'
  BY <1>f DEF CommitIsHeld
<1>7. LiveIsLeased'
  BY <1>f DEF LiveIsLeased
<1>8. LiveNeverInterrupted'
  BY <1>f DEF LiveNeverInterrupted
<1>9. CreationKeepsItsDirectory'
  BY <1>f DEF CreationKeepsItsDirectory
<1>10. EndsAreDurable'
  BY <1>f DEF EndsAreDurable
<1>11. PublishedIsScanned'
  BY <1>f DEF PublishedIsScanned
<1>12. UsedIsLive'
  BY <1>f DEF UsedIsLive, Undisturbed
<1>13. ScansAreAnnounced'
  BY <1>f, <1>g, <1>stale, <1>mpc, StateFacts DEF ScansAreAnnounced, Undisturbed,
     Scanning, Announced
<1>14. IndexIsAnnounced'
  BY <1>f, <1>g, <1>stale, <1>mpc, StateFacts DEF IndexIsAnnounced, Undisturbed,
     Announced
<1> QED BY <1>1, <1>2, <1>3, <1>4, <1>5, <1>6, <1>7, <1>8, <1>9, <1>10, <1>11, <1>12,
   <1>13, <1>14

\* Nothing to reclaim.
LEMMA ReclaimSkipPreserves ==
    ASSUME StoreInv, NEW p \in Procs, NEW i \in Inv, ReclaimSkip(p, i)
    PROVE  StoreInv'
<1> USE DEF StoreInv
<1>1. TypeOK'
  BY StateFacts, StoreAssumption, EmptyRows DEF TypeOK, Free, ReclaimSkip, GcFrame,
     GcKeepsDisk, bounds, PassGoto, scan
<1>f. UNCHANGED <<manifest, dir, protected, trash, owner, mutation, maintenance, worker, up,
         index, stale, op, target, refresh, scanned, mpc, recovered, changed, used, crashes,
         faults>>
  BY DEF ReclaimSkip, GcFrame, GcKeepsDisk, bounds, PassGoto, scan
<1>2. MutationIsHeld'
  BY <1>f DEF MutationIsHeld
<1>3. OpenStores'
  BY <1>f DEF OpenStores
<1>4. UnusedIsClear'
  BY <1>f DEF UnusedIsClear, Unseen
<1>5. CreationIsOwned'
  BY <1>f DEF CreationIsOwned, Unseen
<1>6. CommitIsHeld'
  BY <1>f DEF CommitIsHeld
<1>7. LiveIsLeased'
  BY <1>f DEF LiveIsLeased
<1>8. LiveNeverInterrupted'
  BY <1>f DEF LiveNeverInterrupted
<1>9. CreationKeepsItsDirectory'
  BY <1>f DEF CreationKeepsItsDirectory
<1>10. EndsAreDurable'
  BY <1>f DEF EndsAreDurable
<1>11. PublishedIsScanned'
  BY <1>f DEF PublishedIsScanned
<1>12. UsedIsLive'
  BY <1>f DEF UsedIsLive, Undisturbed
<1>13. ScansAreAnnounced'
  BY <1>f DEF ScansAreAnnounced, Undisturbed, Scanning, Announced
<1>14. IndexIsAnnounced'
  BY <1>f DEF IndexIsAnnounced, Undisturbed, Announced
<1> QED BY <1>1, <1>2, <1>3, <1>4, <1>5, <1>6, <1>7, <1>8, <1>9, <1>10, <1>11, <1>12,
   <1>13, <1>14

\* A protected record keeps its manifest.
LEMMA ReclaimEvidencePreserves ==
    ASSUME StoreInv, NEW p \in Procs, NEW i \in Inv, ReclaimEvidence(p, i)
    PROVE  StoreInv'
<1> USE DEF StoreInv
<1>1. TypeOK'
  BY StateFacts, StoreAssumption, EmptyRows DEF TypeOK, Free, ReclaimEvidence, GcFrame,
     GcKeepsDisk, bounds, PassGoto, scan, SetIndex
<1>f. UNCHANGED <<manifest, dir, protected, trash, owner, mutation, maintenance, worker, up,
         stale, op, target, refresh, scanned, mpc, recovered, used, crashes, faults>>
  BY DEF ReclaimEvidence, GcFrame, GcKeepsDisk, bounds, PassGoto, scan
<1>g. IsTerminal(manifest[i])
  BY DEF ReclaimEvidence, GcFrame, GcKeepsDisk, bounds, PassGoto, scan
<1>index. \A q \in Procs, j \in Inv : index'[q][j] = IF q = p /\ j = i THEN manifest[i] ELSE index[q][j]
  BY DEF TypeOK, ReclaimEvidence, GcFrame, GcKeepsDisk, bounds, PassGoto, scan,
     SetIndex
<1>2. MutationIsHeld'
  BY <1>f DEF MutationIsHeld
<1>3. OpenStores'
  BY <1>f DEF OpenStores
<1>4. UnusedIsClear'
  BY <1>f, <1>g, <1>index, StateFacts DEF UnusedIsClear, Unseen
<1>5. CreationIsOwned'
  BY <1>f, <1>g, <1>index, StateFacts, StoreAssumption DEF CreationIsOwned, Unseen,
     CreateSteps, BeforeManifest
<1>6. CommitIsHeld'
  BY <1>f DEF CommitIsHeld
<1>7. LiveIsLeased'
  BY <1>f DEF LiveIsLeased
<1>8. LiveNeverInterrupted'
  BY <1>f DEF LiveNeverInterrupted
<1>9. CreationKeepsItsDirectory'
  BY <1>f DEF CreationKeepsItsDirectory
<1>10. EndsAreDurable'
  BY <1>f, <1>g, <1>index, StateFacts DEF EndsAreDurable
<1>11. PublishedIsScanned'
  BY <1>f DEF PublishedIsScanned
<1>12. UsedIsLive'
  BY <1>f DEF UsedIsLive, Undisturbed
<1>13. ScansAreAnnounced'
  BY <1>f DEF ScansAreAnnounced, Undisturbed, Scanning, Announced
<1>14. IndexIsAnnounced'
  BY <1>f, <1>g, <1>index, StateFacts DEF IndexIsAnnounced, Undisturbed, Announced
<1> QED BY <1>1, <1>2, <1>3, <1>4, <1>5, <1>6, <1>7, <1>8, <1>9, <1>10, <1>11, <1>12,
   <1>13, <1>14

\* An ended, unprotected record is deleted under its lock.
LEMMA ReclaimRenamePreserves ==
    ASSUME StoreInv, NEW p \in Procs, NEW i \in Inv, ReclaimRename(p, i)
    PROVE  StoreInv'
<1> USE DEF StoreInv
<1>1. TypeOK'
  BY StateFacts, StoreAssumption, EmptyRows DEF TypeOK, Free, ReclaimRename, GcFrame,
     GcKeepsDisk, bounds, PassGoto, scan, OpGoto, OpSteps, Unlocked
<1>f. UNCHANGED <<protected, owner, maintenance, worker, up, index, stale, target, refresh,
         scanned, mpc, recovered, used, crashes, faults>>
  BY DEF ReclaimRename, GcFrame, GcKeepsDisk, bounds, PassGoto, scan
<1>g. mpc[p] = "gc_reclaim" /\ op[p][i] = "idle" /\ mutation[i] = Free /\ IsTerminal(manifest[i])
  BY DEF ReclaimRename, GcFrame, GcKeepsDisk, bounds, PassGoto, scan
<1>op. \A q \in Procs, j \in Inv : op'[q][j] = IF q = p /\ j = i THEN "reclaim_index" ELSE op[q][j]
  BY DEF TypeOK, ReclaimRename, GcFrame, GcKeepsDisk, bounds, PassGoto, scan, OpGoto
<1>manifest. \A j \in Inv : manifest'[j] = IF j = i THEN Absent ELSE manifest[j]
  BY EmptyRows DEF TypeOK, ReclaimRename, GcFrame, GcKeepsDisk, bounds, PassGoto, scan
<1>dir. ~dir'[i] /\ \A j \in Inv : j # i => dir'[j] = dir[j]
  BY DEF TypeOK, ReclaimRename, GcFrame, GcKeepsDisk, bounds, PassGoto, scan
<1>mutation. \A j \in Inv : mutation'[j] = IF j = i THEN p ELSE mutation[j]
  BY DEF TypeOK, ReclaimRename, GcFrame, GcKeepsDisk, bounds, PassGoto, scan, Unlocked
<1>2. MutationIsHeld'
  BY <1>f, <1>g, <1>op, <1>mutation, StoreAssumption DEF MutationIsHeld, LockedSteps,
     Free
<1>3. OpenStores'
  BY <1>f, <1>g, <1>op DEF OpenStores
<1>4. UnusedIsClear'
  BY <1>f, <1>g, <1>manifest, StateFacts DEF UnusedIsClear, Unseen
<1>5. CreationIsOwned'
  BY <1>f, <1>g, <1>op, <1>manifest, StateFacts, StoreAssumption, StoreAssumption DEF
     CreationIsOwned, Unseen, CreateSteps, BeforeManifest, MutationIsHeld, LockedSteps,
     Free
<1>6. CommitIsHeld'
  BY <1>f, <1>g, <1>op, <1>manifest, StateFacts, StoreAssumption DEF CommitIsHeld,
     MutationIsHeld, LockedSteps, Free
<1>7. LiveIsLeased'
  BY <1>f, <1>g, <1>manifest, StateFacts DEF LiveIsLeased
<1>8. LiveNeverInterrupted'
  BY <1>f, <1>g, <1>manifest, StateFacts DEF LiveNeverInterrupted
<1>9. CreationKeepsItsDirectory'
  BY <1>f, <1>g, <1>op, <1>dir, StoreAssumption DEF CreationKeepsItsDirectory,
     MutationIsHeld, LockedSteps, Free
<1>10. EndsAreDurable'
  BY <1>f, <1>g, <1>manifest, StateFacts DEF EndsAreDurable
<1>11. PublishedIsScanned'
  BY <1>f, <1>g, <1>op, <1>manifest, StateFacts, StoreAssumption DEF
     PublishedIsScanned, MutationIsHeld, LockedSteps, Free
<1>12. UsedIsLive'
  BY <1>f DEF UsedIsLive, Undisturbed
<1>13. ScansAreAnnounced'
  BY <1>f, <1>g, <1>op, <1>manifest, StateFacts DEF ScansAreAnnounced, Undisturbed,
     Scanning, Announced
<1>14. IndexIsAnnounced'
  BY <1>f, <1>g, <1>op, <1>manifest, StateFacts DEF IndexIsAnnounced, Undisturbed,
     Announced
<1> QED BY <1>1, <1>2, <1>3, <1>4, <1>5, <1>6, <1>7, <1>8, <1>9, <1>10, <1>11, <1>12,
   <1>13, <1>14

\* The deleted entry leaves the index.
LEMMA ReclaimIndexPreserves ==
    ASSUME StoreInv, NEW p \in Procs, NEW i \in Inv, ReclaimIndex(p, i)
    PROVE  StoreInv'
<1> USE DEF StoreInv
<1>1. TypeOK'
  BY StateFacts, StoreAssumption, EmptyRows DEF TypeOK, Free, ReclaimIndex, GcFrame,
     GcKeepsDisk, bounds, PassGoto, scan, pass_, OpGoto, OpSteps, SetIndex, Unlocked
<1>f. UNCHANGED <<manifest, dir, protected, owner, maintenance, worker, up, stale, target,
         refresh, scanned, mpc, pass, recovered, changed, used, crashes, faults>>
  BY DEF ReclaimIndex, GcFrame, GcKeepsDisk, bounds, PassGoto, scan, pass_
<1>g. op[p][i] = "reclaim_index"
  BY DEF ReclaimIndex, GcFrame, GcKeepsDisk, bounds, PassGoto, scan, pass_
<1>op. \A q \in Procs, j \in Inv : op'[q][j] = IF q = p /\ j = i THEN "idle" ELSE op[q][j]
  BY DEF TypeOK, ReclaimIndex, GcFrame, GcKeepsDisk, bounds, PassGoto, scan, pass_,
     OpGoto
<1>index. \A q \in Procs, j \in Inv : index'[q][j] = IF q = p /\ j = i THEN Absent ELSE index[q][j]
  BY EmptyRows DEF TypeOK, ReclaimIndex, GcFrame, GcKeepsDisk, bounds, PassGoto, scan,
     pass_, SetIndex
<1>mutation. \A j \in Inv : mutation'[j] = IF j = i THEN Free ELSE mutation[j]
  BY DEF TypeOK, ReclaimIndex, GcFrame, GcKeepsDisk, bounds, PassGoto, scan, pass_,
     Unlocked
<1>2. MutationIsHeld'
  BY <1>f, <1>g, <1>op, <1>mutation, StoreAssumption DEF MutationIsHeld, LockedSteps,
     Free
<1>3. OpenStores'
  BY <1>f, <1>g, <1>op DEF OpenStores
<1>4. UnusedIsClear'
  BY <1>f, <1>g, <1>index, StateFacts DEF UnusedIsClear, Unseen
<1>5. CreationIsOwned'
  BY <1>f, <1>g, <1>op, <1>index, StateFacts, StoreAssumption DEF CreationIsOwned,
     Unseen, CreateSteps, BeforeManifest
<1>6. CommitIsHeld'
  BY <1>f, <1>g, <1>op, StateFacts DEF CommitIsHeld
<1>7. LiveIsLeased'
  BY <1>f DEF LiveIsLeased
<1>8. LiveNeverInterrupted'
  BY <1>f DEF LiveNeverInterrupted
<1>9. CreationKeepsItsDirectory'
  BY <1>f, <1>g, <1>op, StoreAssumption DEF CreationKeepsItsDirectory, MutationIsHeld,
     LockedSteps, Free
<1>10. EndsAreDurable'
  BY <1>f, <1>g, <1>index, StateFacts DEF EndsAreDurable
<1>11. PublishedIsScanned'
  BY <1>f, <1>g, <1>op, StateFacts DEF PublishedIsScanned
<1>12. UsedIsLive'
  BY <1>f DEF UsedIsLive, Undisturbed
<1>13. ScansAreAnnounced'
  BY <1>f, <1>g, <1>op, StateFacts DEF ScansAreAnnounced, Undisturbed, Scanning,
     Announced
<1>14. IndexIsAnnounced'
  BY <1>f, <1>g, <1>op, <1>index, StateFacts DEF IndexIsAnnounced, Undisturbed,
     Announced, CommitIsHeld
<1> QED BY <1>1, <1>2, <1>3, <1>4, <1>5, <1>6, <1>7, <1>8, <1>9, <1>10, <1>11, <1>12,
   <1>13, <1>14

\* The pass announces its deletions.
LEMMA GcFinishPreserves ==
    ASSUME StoreInv, NEW p \in Procs, GcFinish(p)
    PROVE  StoreInv'
<1> USE DEF StoreInv
<1>1. TypeOK'
  <2>0. stale' = stale \/ stale' = [q \in Procs |-> stale[q] \/ q # p]
    BY DEF GcFinish, Publish
  <2>1. stale' \in [Procs -> BOOLEAN]
    BY <2>0, ZenonT(60) DEF TypeOK
  <2>2. mpc' \in [Procs -> MaintenanceSteps] /\ maintenance' \in Procs \cup {Free}
    BY DEF TypeOK, GcFinish, PassGoto, MaintenanceSteps
  <2>3. UNCHANGED <<manifest, dir, protected, trash, owner, mutation, worker, up, index, op,
                    target, refresh, scanned, pass, recovered, changed, used, crashes, faults>>
    BY DEF GcFinish, GcFrame, GcKeepsDisk, bounds, scan
  <2> QED BY <2>1, <2>2, <2>3 DEF TypeOK
<1>f. UNCHANGED <<manifest, dir, protected, trash, owner, mutation, worker, up, index, op,
         target, refresh, scanned, pass, recovered, changed, used, crashes, faults>>
  BY DEF GcFinish, GcFrame, GcKeepsDisk, bounds, PassGoto, scan
<1>g. mpc[p] = "gc_reclaim"
  BY DEF GcFinish, GcFrame, GcKeepsDisk, bounds, PassGoto, scan
<1>stale. \A q \in Procs : stale[q] => stale'[q]
  BY DEF TypeOK, GcFinish, GcFrame, GcKeepsDisk, bounds, PassGoto, scan, Publish
<1>mpc. \A q \in Procs : mpc'[q] = IF q = p THEN "idle" ELSE mpc[q]
  BY DEF TypeOK, GcFinish, GcFrame, GcKeepsDisk, bounds, PassGoto, scan
<1>2. MutationIsHeld'
  BY <1>f DEF MutationIsHeld
<1>3. OpenStores'
  BY <1>f, <1>g, <1>mpc DEF OpenStores
<1>4. UnusedIsClear'
  BY <1>f DEF UnusedIsClear, Unseen
<1>5. CreationIsOwned'
  BY <1>f DEF CreationIsOwned, Unseen
<1>6. CommitIsHeld'
  BY <1>f DEF CommitIsHeld
<1>7. LiveIsLeased'
  BY <1>f DEF LiveIsLeased
<1>8. LiveNeverInterrupted'
  BY <1>f DEF LiveNeverInterrupted
<1>9. CreationKeepsItsDirectory'
  BY <1>f DEF CreationKeepsItsDirectory
<1>10. EndsAreDurable'
  BY <1>f DEF EndsAreDurable
<1>11. PublishedIsScanned'
  BY <1>f DEF PublishedIsScanned
<1>12. UsedIsLive'
  BY <1>f DEF UsedIsLive, Undisturbed
<1>13. ScansAreAnnounced'
  BY <1>f, <1>g, <1>stale, <1>mpc, StateFacts DEF ScansAreAnnounced, Undisturbed,
     Scanning, Announced
<1>14. IndexIsAnnounced'
  BY <1>f, <1>g, <1>stale, <1>mpc, StateFacts DEF IndexIsAnnounced, Undisturbed,
     Announced
<1> QED BY <1>1, <1>2, <1>3, <1>4, <1>5, <1>6, <1>7, <1>8, <1>9, <1>10, <1>11, <1>12,
   <1>13, <1>14

\* A crash drops the locks and forgets what the process knew.
LEMMA CrashPreserves ==
    ASSUME StoreInv, NEW p \in Procs, Crash(p)
    PROVE  StoreInv'
<1> USE DEF StoreInv
<1>1. TypeOK'
  <2>1. owner' \in [Inv -> Procs \cup {Free}] /\ mutation' \in [Inv -> Procs \cup {Free}]
        /\ worker' \in [Inv -> Procs \cup {Free}] /\ maintenance' \in Procs \cup {Free}
    BY DEF TypeOK, Crash
  <2>2. index' \in [Procs -> [Inv -> States \cup {Absent}]]
        /\ target' \in [Procs -> [Inv -> States \cup {Absent}]]
        /\ scanned' \in [Procs -> [Inv -> States \cup {Absent, Unread}]]
        /\ op' \in [Procs -> [Inv -> OpSteps]]
    BY EmptyRows DEF TypeOK, Crash
  <2>3. up' \in [Procs -> BOOLEAN] /\ stale' \in [Procs -> BOOLEAN]
        /\ changed' \in [Procs -> BOOLEAN]
        /\ refresh' \in [Procs -> {"idle", "changed", "forced"}]
    BY DEF TypeOK, Crash
  <2>4. mpc' \in [Procs -> MaintenanceSteps] /\ pass' \in [Procs -> SUBSET Inv]
        /\ recovered' \in [Procs -> SUBSET Inv]
    BY DEF TypeOK, Crash, PassGoto, MaintenanceSteps
  <2>5. crashes' \in 0..MaxCrashes
    BY StoreAssumption DEF TypeOK, Crash
  <2>6. UNCHANGED <<manifest, dir, protected, trash, used, faults>>
    BY DEF Crash, disk
  <2> QED BY <2>1, <2>2, <2>3, <2>4, <2>5, <2>6 DEF TypeOK
<1>f. UNCHANGED <<manifest, dir, protected, trash, used, faults>>
  BY DEF Crash, PassGoto, disk
<1>op. \A q \in Procs, j \in Inv : op'[q][j] = IF q = p THEN "idle" ELSE op[q][j]
  BY DEF TypeOK, Crash, PassGoto, disk
<1>crashes. crashes' # 0
  BY DEF TypeOK, Crash, PassGoto, disk
<1>up. ~up'[p] /\ \A q \in Procs : q # p => up'[q] = up[q]
  BY DEF TypeOK, Crash, PassGoto, disk
<1>owner. \A j \in Inv : owner'[j] = IF owner[j] = p THEN Free ELSE owner[j]
  BY DEF TypeOK, Crash, PassGoto, disk, Unlocked
<1>mutation. \A j \in Inv : mutation'[j] = IF mutation[j] = p THEN Free ELSE mutation[j]
  BY DEF TypeOK, Crash, PassGoto, disk, Unlocked
<1>worker. \A j \in Inv : worker'[j] = IF worker[j] = p THEN Free ELSE worker[j]
  BY DEF TypeOK, Crash, PassGoto, disk
<1>index. \A q \in Procs, j \in Inv : index'[q][j] = IF q = p THEN Absent ELSE index[q][j]
  BY EmptyRows DEF TypeOK, Crash, PassGoto, disk, SetIndex
<1>target. \A q \in Procs, j \in Inv : target'[q][j] = IF q = p THEN Absent ELSE target[q][j]
  BY EmptyRows DEF TypeOK, Crash, PassGoto, disk
<1>refresh. \A q \in Procs : refresh'[q] = IF q = p THEN "idle" ELSE refresh[q]
  BY DEF TypeOK, Crash, PassGoto, disk
<1>scanned. \A q \in Procs, j \in Inv : scanned'[q][j] = IF q = p THEN Unread ELSE scanned[q][j]
  BY EmptyRows DEF TypeOK, Crash, PassGoto, disk
<1>mpc. \A q \in Procs : mpc'[q] = IF q = p THEN "closed" ELSE mpc[q]
  BY DEF TypeOK, Crash, PassGoto, disk
<1>2. MutationIsHeld'
  BY <1>f, <1>op, <1>mutation, StoreAssumption DEF MutationIsHeld, LockedSteps, Free
<1>3. OpenStores'
  BY <1>f, <1>op, <1>up, <1>refresh, <1>mpc DEF OpenStores
<1>4. UnusedIsClear'
  BY <1>f, <1>worker, <1>index, <1>scanned, StateFacts DEF UnusedIsClear, Unseen
<1>5. CreationIsOwned'
  BY <1>f, <1>op, <1>owner, <1>worker, <1>index, <1>scanned, StateFacts,
     StoreAssumption DEF CreationIsOwned, Unseen, CreateSteps, BeforeManifest
<1>6. CommitIsHeld'
  BY <1>f, <1>op, <1>target, StateFacts DEF CommitIsHeld
<1>7. LiveIsLeased'
  BY <1>f, <1>owner, <1>worker, StateFacts DEF LiveIsLeased
<1>8. LiveNeverInterrupted'
  BY <1>f, <1>worker, StateFacts DEF LiveNeverInterrupted
<1>9. CreationKeepsItsDirectory'
  BY <1>f, <1>op, StoreAssumption DEF CreationKeepsItsDirectory, MutationIsHeld,
     LockedSteps, Free
<1>10. EndsAreDurable'
  BY <1>f, <1>index, <1>scanned, StateFacts DEF EndsAreDurable
<1>11. PublishedIsScanned'
  BY <1>f, <1>op, <1>refresh, <1>scanned, StateFacts DEF PublishedIsScanned
<1>12. UsedIsLive'
  BY <1>f, <1>crashes, <1>worker, StoreAssumption DEF UsedIsLive, Undisturbed, Free
<1>13. ScansAreAnnounced'
  BY <1>f, <1>op, <1>crashes, <1>refresh, <1>scanned, <1>mpc, StateFacts DEF
     ScansAreAnnounced, Undisturbed, Scanning, Announced
<1>14. IndexIsAnnounced'
  BY <1>f, <1>op, <1>crashes, <1>up, <1>index, <1>refresh, <1>mpc, StateFacts DEF
     IndexIsAnnounced, Undisturbed, Announced
<1> QED BY <1>1, <1>2, <1>3, <1>4, <1>5, <1>6, <1>7, <1>8, <1>9, <1>10, <1>11, <1>12,
   <1>13, <1>14

-----------------------------------------------------------------------------
(* The inductive invariant                                                  *)

\* Nothing is taken, locked or indexed when the first server starts.
LEMMA InitEstablishesInv == Init => StoreInv
<1> SUFFICES ASSUME Init PROVE StoreInv
  OBVIOUS
<1>1. TypeOK
  BY StoreAssumption DEF Init, TypeOK, Free, EveryAbsent, EveryUnread, OpSteps, MaintenanceSteps
<1>2. \A p \in Procs, i \in Inv :
         op[p][i] = "idle" /\ index[p][i] = Absent /\ scanned[p][i] = Unread
  BY DEF Init, EveryAbsent, EveryUnread
<1>3. \A p \in Procs : ~up[p] /\ mpc[p] = "closed" /\ refresh[p] = "idle"
  BY DEF Init
<1>4. \A i \in Inv : manifest[i] = Absent /\ worker[i] = Free /\ mutation[i] = Free /\ ~used[i]
  BY DEF Init
<1>5. MutationIsHeld /\ CreationIsOwned /\ CommitIsHeld /\ CreationKeepsItsDirectory
      /\ PublishedIsScanned
  BY <1>2, <1>4, StoreAssumption DEF MutationIsHeld, CreationIsOwned, CommitIsHeld,
     CreationKeepsItsDirectory, PublishedIsScanned, LockedSteps, CreateSteps, Free
<1>6. OpenStores
  BY <1>2, <1>3 DEF OpenStores
<1>7. UnusedIsClear /\ LiveIsLeased /\ LiveNeverInterrupted /\ UsedIsLive
  BY <1>2, <1>4, StateFacts DEF UnusedIsClear, Unseen, LiveIsLeased, LiveNeverInterrupted, UsedIsLive
<1>8. EndsAreDurable /\ ScansAreAnnounced /\ IndexIsAnnounced
  BY <1>2, <1>4, StateFacts DEF EndsAreDurable, ScansAreAnnounced, IndexIsAnnounced
<1> QED BY <1>1, <1>5, <1>6, <1>7, <1>8 DEF StoreInv

\* Every step of every process, and every stuttering step, preserves StoreInv.
LEMMA NextPreservesInv == StoreInv /\ [Next]_vars => StoreInv'
<1> SUFFICES ASSUME StoreInv, [Next]_vars PROVE StoreInv'
  OBVIOUS
<1>1. ASSUME NEW p \in Procs, NEW i \in Inv, OperationStep(p, i) PROVE StoreInv'
  <2>1. CASE \E s \in States : TransitionPersist(p, i, s) \/ TransitionLostEvidence(p, i, s)
    BY <2>1, TransitionPersistPreserves, TransitionLostEvidencePreserves
  <2>2. CASE ~ \E s \in States : TransitionPersist(p, i, s) \/ TransitionLostEvidence(p, i, s)
    BY <1>1, <2>2, CreateBeginPreserves, CreateDirectoryPreserves, CreatePersistPreserves,
       CreatePublishPreserves, CreateIndexPreserves, CreateFailsPreserves,
       TransitionPublishPreserves, TransitionIndexPreserves, TransitionPublishFailsPreserves
       DEF OperationStep, CreateStep, TransitionStep
  <2> QED BY <2>1, <2>2
<1>2. ASSUME NEW p \in Procs, ProcessStep(p) PROVE StoreInv'
  <2>1. CASE OpenStep(p)
    BY <2>1, OpenBeginPreserves, OpenScannedPreserves, OpenFinishPreserves DEF OpenStep
  <2>2. CASE RefreshBegin(p) \/ RefreshStep(p)
    BY <2>2, RefreshBeginPreserves, RefreshCommitPreserves, ScanReadPreserves DEF RefreshStep
  <2>3. CASE RecoverStep(p)
    BY <2>3, RecoverSkipPreserves, RecoverOnePreserves DEF RecoverStep
  <2>4. CASE GcStep(p)
    BY <2>4, GcRefreshPreserves, GcIndexRecoveredPreserves, GcSelectPreserves,
       GcFinishPreserves, ReclaimSkipPreserves, ReclaimEvidencePreserves,
       ReclaimRenamePreserves, ReclaimIndexPreserves DEF GcStep
  <2>5. CASE GcBegin(p) \/ Crash(p)
    BY <2>5, GcBeginPreserves, CrashPreserves
  <2> QED BY <1>2, <2>1, <2>2, <2>3, <2>4, <2>5 DEF ProcessStep
<1>3. CASE UNCHANGED vars
  BY <1>3 DEF vars, StoreInv, TypeOK, MutationIsHeld, OpenStores, UnusedIsClear, Unseen,
     CreationIsOwned, CommitIsHeld, LiveIsLeased, LiveNeverInterrupted,
     CreationKeepsItsDirectory, EndsAreDurable, PublishedIsScanned, UsedIsLive, Undisturbed,
     ScansAreAnnounced, Scanning, Announced, IndexIsAnnounced
<1> QED BY <1>1, <1>2, <1>3, DeferredExpiresPreserves DEF Next, Quiescent

\* StoreInv holds in every reachable state of any number of processes.
THEOREM StoreInvariance == Spec => []StoreInv
<1>1. Init => StoreInv
  BY InitEstablishesInv
<1>2. StoreInv /\ [Next]_vars => StoreInv'
  BY NextPreservesInv
<1> QED BY <1>1, <1>2, PTL DEF Spec

-----------------------------------------------------------------------------
(* What it implies                                                          *)

\* Every variable keeps its type (TypeOK).
THEOREM StoreTypeCorrect == Spec => []TypeOK
<1>1. StoreInv => TypeOK
  BY DEF StoreInv
<1> QED BY <1>1, StoreInvariance, PTL

\* recover_ids never interrupts the invocation of a live server, whatever the index of
\* the recovering process says.
THEOREM LiveIsNeverInterrupted == Spec => []LiveNeverInterrupted
<1>1. StoreInv => LiveNeverInterrupted
  BY DEF StoreInv
<1> QED BY <1>1, StoreInvariance, PTL

\* What an index of a process shows follows the disk (refresh, publish_change,
\* load_index_blocking).
THEOREM IndexesFollowDisk == Spec => []IndexFollowsDisk
<1>1. StoreInv => IndexFollowsDisk
  <2> SUFFICES ASSUME StoreInv PROVE IndexFollowsDisk
    OBVIOUS
  <2>1. IndexedEndIsDurable
    BY DEF StoreInv, EndsAreDurable, IndexedEndIsDurable
  <2>2. ObservedIndexIsCurrent
    <3> SUFFICES ASSUME crashes = 0, faults = 0, NEW p \in Procs, NEW i \in Inv,
                        Settled(p, i), manifest[i] # Absent, index[p][i] # manifest[i]
                 PROVE  FALSE
      BY DEF ObservedIndexIsCurrent
    <3>1. Announced(p, i)
      BY DEF StoreInv, IndexIsAnnounced, Undisturbed, Settled
    <3> QED BY <3>1 DEF Announced, Settled
  <2> QED BY <2>1, <2>2 DEF StoreInv, IndexFollowsDisk
<1> QED BY <1>1, StoreInvariance, PTL

-----------------------------------------------------------------------------
(* What no step does                                                        *)

\* The five actions that write or remove a manifest.
ManifestWriter(p, i) ==
    \/ CreatePersist(p, i) \/ CreateFails(p, i) \/ RecoverOne(p, i) \/ ReclaimRename(p, i)
    \/ \E s \in States : TransitionPersist(p, i, s)

\* Every other step leaves every manifest as it is.
LEMMA OthersKeepManifests ==
    ASSUME [Next]_vars
    PROVE  UNCHANGED manifest \/ \E p \in Procs, i \in Inv : ManifestWriter(p, i)
<1>1. ASSUME NEW p \in Procs, NEW i \in Inv, OperationStep(p, i)
      PROVE  UNCHANGED manifest \/ ManifestWriter(p, i)
  BY <1>1 DEF OperationStep, CreateStep, TransitionStep, ManifestWriter, CreateBegin,
     CreateDirectory, CreatePublish, CreateIndex, TransitionPublish, TransitionIndex,
     TransitionPublishFails, TransitionLostEvidence, disk
<1>2. ASSUME NEW p \in Procs, ProcessStep(p)
      PROVE  UNCHANGED manifest \/ \E i \in Inv : ManifestWriter(p, i)
  <2>1. CASE OpenStep(p)
    BY <2>1 DEF OpenStep, OpenBegin, OpenScanned, OpenFinish, OpenFrame
  <2>2. CASE RefreshBegin(p) \/ RefreshStep(p)
    BY <2>2 DEF RefreshStep, RefreshBegin, RefreshCommit, ScanRead, ScanFrame
  <2>3. CASE RecoverStep(p)
    BY <2>3 DEF RecoverStep, RecoverSkip, ManifestWriter
  <2>4. CASE GcBegin(p) \/ GcStep(p)
    BY <2>4 DEF GcStep, GcBegin, GcRefresh, GcIndexRecovered, GcSelect, GcFinish, ReclaimSkip,
       ReclaimEvidence, ReclaimIndex, GcKeepsDisk, ManifestWriter
  <2>5. CASE Crash(p)
    BY <2>5 DEF Crash, disk
  <2> QED BY <1>2, <2>1, <2>2, <2>3, <2>4, <2>5 DEF ProcessStep
<1>3. CASE \E i \in Inv : DeferredExpires(i)
  BY <1>3 DEF DeferredExpires
<1>4. CASE UNCHANGED vars
  BY <1>4 DEF vars
<1> QED BY <1>1, <1>2, <1>3, <1>4 DEF Next, Quiescent

\* Two processes that race to end an invocation never overwrite a terminal record:
\* transition, finish_invocation and recover_ids read it again under the mutation lock.
THEOREM TerminalRecordsAreFinal == Spec => TerminalIsFinal
<1>1. ASSUME StoreInv, [Next]_vars
      PROVE  \A i \in Inv : IsTerminal(manifest[i]) => manifest'[i] \in {manifest[i], Absent}
  <2> SUFFICES ASSUME NEW p \in Procs, NEW i \in Inv, ManifestWriter(p, i),
                      NEW j \in Inv, IsTerminal(manifest[j])
               PROVE  manifest'[j] \in {manifest[j], Absent}
    BY <1>1, OthersKeepManifests
  <2>1. CASE CreatePersist(p, i)
    <3>1. manifest[i] = Absent
      BY <1>1, <2>1 DEF StoreInv, CreationIsOwned, CreateSteps, BeforeManifest, CreatePersist
    <3> QED BY <1>1, <2>1, <3>1, StateFacts DEF StoreInv, TypeOK, CreatePersist
  <2>2. CASE CreateFails(p, i)
    BY <1>1, <2>2 DEF StoreInv, TypeOK, CreateFails
  <2>3. CASE RecoverOne(p, i)
    <3>1. CASE manifest[i] \in NonterminalStates
      BY <1>1, <2>3, <3>1, StateFacts DEF StoreInv, TypeOK, RecoverOne
    <3>2. CASE manifest[i] \notin NonterminalStates
      BY <2>3, <3>2 DEF RecoverOne
    <3> QED BY <3>1, <3>2
  <2>4. CASE ReclaimRename(p, i)
    BY <1>1, <2>4 DEF StoreInv, TypeOK, ReclaimRename
  <2>5. ASSUME NEW s \in States, TransitionPersist(p, i, s)
        PROVE  manifest'[j] \in {manifest[j], Absent}
    <3>1. manifest[i] \in NonterminalStates
      BY <2>5, TransitionFacts DEF TransitionPersist
    <3> QED BY <1>1, <2>5, <3>1, StateFacts DEF StoreInv, TypeOK, TransitionPersist
  <2> QED BY <2>1, <2>2, <2>3, <2>4, <2>5 DEF ManifestWriter
<1>2. StoreInv /\ [Next]_vars => 
        [\A i \in Inv : IsTerminal(manifest[i]) => manifest'[i] \in {manifest[i], Absent}]_vars
  BY <1>1
<1> QED BY <1>2, StoreInvariance, PTL DEF Spec, TerminalIsFinal

\* Retention and the undo of a failed creation are the only ways a manifest goes, and
\* retention takes only what has ended and no deferred result protects.
THEOREM DeletionIsSafe == Spec => OnlyReclaimableDeleted
<1> DEFINE Reclaimable ==
        \A i \in Inv : manifest[i] # Absent /\ manifest'[i] = Absent =>
           \/ IsTerminal(manifest[i]) /\ ~protected[i]
           \/ \E p \in Procs : op[p][i] = "create_publish"
<1>1. ASSUME StoreInv, [Next]_vars PROVE Reclaimable
  <2> SUFFICES ASSUME NEW p \in Procs, NEW i \in Inv, ManifestWriter(p, i),
                      NEW j \in Inv, manifest[j] # Absent, manifest'[j] = Absent
               PROVE  \/ IsTerminal(manifest[j]) /\ ~protected[j]
                      \/ \E q \in Procs : op[q][j] = "create_publish"
    BY <1>1, OthersKeepManifests
  <2>1. CASE CreatePersist(p, i)
    BY <1>1, <2>1, StateFacts DEF StoreInv, TypeOK, CreatePersist
  <2>2. CASE CreateFails(p, i)
    <3>1. j = i
      BY <1>1, <2>2 DEF StoreInv, TypeOK, CreateFails
    <3>2. op[p][i] # "create_persist"
      BY <1>1, <3>1 DEF StoreInv, CreationIsOwned, CreateSteps, BeforeManifest
    <3> QED BY <2>2, <3>1, <3>2 DEF CreateFails
  <2>3. CASE RecoverOne(p, i)
    <3>1. CASE manifest[i] \in NonterminalStates
      BY <1>1, <2>3, <3>1, StateFacts DEF StoreInv, TypeOK, RecoverOne
    <3>2. CASE manifest[i] \notin NonterminalStates
      BY <2>3, <3>2 DEF RecoverOne
    <3> QED BY <3>1, <3>2
  <2>4. CASE ReclaimRename(p, i)
    BY <1>1, <2>4 DEF StoreInv, TypeOK, ReclaimRename
  <2>5. ASSUME NEW s \in States, TransitionPersist(p, i, s) PROVE FALSE
    BY <1>1, <2>5, StateFacts DEF StoreInv, TypeOK, TransitionPersist
  <2> QED BY <2>1, <2>2, <2>3, <2>4, <2>5 DEF ManifestWriter
<1>2. StoreInv /\ [Next]_vars => [Reclaimable]_vars
  BY <1>1
<1> QED BY <1>2, StoreInvariance, PTL DEF Spec, OnlyReclaimableDeleted
=============================================================================
