---------------------------- MODULE TreeServices ----------------------------
(***************************************************************************)
(* The services that run beside the tree of TreeStore with handles of      *)
(* their own: a reader of old versions (getters.rs), and the stale keys    *)
(* repair (merkle_tree/src/repair.rs, storage/rocksdb.rs) of a store that  *)
(* an early version of the code has truncated without removing the stale   *)
(* keys.  verify_consistency() (consistency.rs) is an operator on the      *)
(* store.                                                                  *)
(*                                                                         *)
(* A behaviour has one of the two services.  With the repair it starts     *)
(* with a legacy phase, in which the early code runs.                      *)
(***************************************************************************)
EXTENDS TreeStore

CONSTANT Parallelism        \* versions that one step of the repair checks

ASSUME ParallelismAssumption == Parallelism \in Nat \ {0}

VARIABLES
    service,            \* "reader" or "repair"
    legacy,             \* the early code is still running
    repair,             \* the thread of StaleKeysRepairTask
    repair_next,        \* StaleKeysRepairData in the Tree column family
    raced,              \* history: a version was truncated while it was being checked
    hasty               \* history: the pruner was let loose on versions not yet checked

svars == <<service, legacy, repair, repair_next, raced, hasty>>
allvars == <<vars, svars>>

\* The versions from start on that one step checks, each with what was read so far.
NoRepair == [pc |-> "off", start |-> 0, work |-> [v \in {} |-> 0]]

IdleRepair == [NoRepair EXCEPT !.pc = "idle"]

ServicesInit ==
    /\ Init
    /\ service \in {"reader", "repair"}
    /\ legacy = (service = "repair")
    /\ repair = NoRepair
    /\ repair_next = 0
    /\ raced = FALSE
    /\ hasty = FALSE

-----------------------------------------------------------------------------
(***************************************************************************)
(* The early code: a truncated version keeps its stale keys, and its nodes *)
(* may stay below the version that overwrites it.                          *)
(***************************************************************************)
truncate_recent_versions_incorrectly(retained) ==
    /\ legacy
    /\ retained \in 1..(version_count - 1)
    /\ version_count' = retained
    /\ UNCHANGED <<tree, stale>>
    /\ history' = SubSeq(history, 1, retained)
    /\ UNCHANGED <<patch, pruner, target, reader, pruned, retain, crashes, svars>>

\* MerkleTree::extend(): a new version that is written at once.
MerkleTreeExtend(batch) ==
    /\ ~hasty
    /\ version_count < MaxVersions
    /\ LET new == extend(tree, version_count, batch)
           p == [version_count |-> version_count + 1, nodes |-> new.nodes, stale |-> new.stale]
       IN  apply_patch(p) \/ (legacy /\ apply_patch_KeepingGarbage(p))
    /\ history' = Append(history, Overwrite(LatestContents, batch))
    /\ UNCHANGED <<patch, pruner, target, reader, pruned, retain, crashes, svars>>

Upgrade ==
    /\ legacy
    /\ legacy' = FALSE
    /\ UNCHANGED <<vars, service, repair, repair_next, raced, hasty>>

-----------------------------------------------------------------------------
(***************************************************************************)
(* StaleKeysRepairTask.                                                    *)
(***************************************************************************)
\* run() on a thread of its own, after a restart as well.
StartRepair ==
    /\ service = "repair" /\ ~legacy /\ ~hasty
    /\ repair.pc = "off"
    /\ repair' = IdleRepair
    /\ UNCHANGED <<vars, service, legacy, repair_next, raced, hasty>>

\* The first two reads of step(); only the task itself writes what the first one reads.
\* Without stale keys the task waits for the poll interval.
RepairReadMin ==
    /\ repair.pc = "idle"
    /\ stale # {}
    /\ repair' = [repair EXCEPT !.pc = "manifest", !.start = Max({repair_next, MinStaleVersion})]
    /\ UNCHANGED <<vars, service, legacy, repair_next, raced, hasty>>

\* The task waits until there are as many versions as it can check at once.
RepairReadManifest_FullRange ==
    /\ repair.pc = "manifest"
    /\ LET end == repair.start + Parallelism - 1
       IN  repair' = IF end > version_count - 1
                     THEN IdleRepair
                     ELSE [repair EXCEPT !.pc = "check",
                                !.work = [v \in repair.start..end |-> [pc |-> "root"]]]
    /\ UNCHANGED <<vars, service, legacy, repair_next, raced, hasty>>

\* The versions to check: at most Parallelism of them, and none beyond the latest.
RepairReadManifest ==
    /\ repair.pc = "manifest"
    /\ LET end == Min({repair.start + Parallelism - 1, version_count - 1})
       IN  repair' = IF repair.start > end
                     THEN IdleRepair
                     ELSE [repair EXCEPT !.pc = "check",
                                !.work = [v \in repair.start..end |-> [pc |-> "root"]]]
    /\ UNCHANGED <<vars, service, legacy, repair_next, raced, hasty>>

\* all_keys_for_version(): the root is read before the iterator is opened.  A version
\* without a filled root has no keys.
RepairReadRoot(v) ==
    /\ repair.pc = "check" /\ v \in DOMAIN repair.work
    /\ repair.work[v].pc = "root"
    /\ LET root == RootAt(tree, v)
       IN  repair' = [repair EXCEPT !.work[v] =
                        IF root.kind = "filled" THEN [pc |-> "keys", root |-> root.node]
                        ELSE [pc |-> "stale", valid |-> {}]]
    /\ UNCHANGED <<vars, service, legacy, repair_next, raced, hasty>>

\* The nodes stored for the version that its root reaches through nodes of the version;
\* the iterator meets a parent before its children.
ValidKeys(root, v) ==
    LET stored == {k \in DOMAIN tree : k[1] = v /\ k[2] # <<>>}
        NodeAt(p) == IF p = <<>> THEN root ELSE tree[<<v, p>>]
        Valid[n \in 0..KeyLen] ==
            IF n = 0 THEN {<<>>}
            ELSE {k[2] : k \in {k \in stored :
                    /\ Len(k[2]) = n
                    /\ AllButLast(k[2]) \in Valid[n - 1]
                    /\ NodeAt(AllButLast(k[2])).kind = "internal"
                    /\ LastOf(k[2]) \in DOMAIN NodeAt(AllButLast(k[2])).refs
                    /\ NodeAt(AllButLast(k[2])).refs[LastOf(k[2])].version = v}}
    IN  UNION {Valid[n] : n \in 0..KeyLen}

\* A node is read as the kind of node that its parent announces.
KindsAgree(root, v, valid) ==
    \A p \in valid \ {<<>>} :
        LET parent == IF Len(p) = 1 THEN root ELSE tree[<<v, AllButLast(p)>>]
        IN  LastOf(p) \in DOMAIN parent.refs =>
                parent.refs[LastOf(p)].is_leaf = (tree[<<v, p>>].kind = "leaf")

\* The iterator over the nodes of the version; a node of another kind than announced
\* cannot be deserialized, and bogus_stale_keys() panics.
RepairReadKeys(v) ==
    /\ repair.pc = "check" /\ v \in DOMAIN repair.work
    /\ repair.work[v].pc = "keys"
    /\ LET root == repair.work[v].root
           valid == ValidKeys(root, v)
       IN  repair' = IF KindsAgree(root, v, valid)
                     THEN [repair EXCEPT !.work[v] = [pc |-> "stale", valid |-> valid]]
                     ELSE [NoRepair EXCEPT !.pc = "panicked"]
    /\ UNCHANGED <<vars, service, legacy, repair_next, raced, hasty>>

\* A stale key is bogus if the version has no valid node at its nibbles.
Bogus(valid, v) == {s \in stale : s[1] = v /\ s[2][2] \notin valid}

\* bogus_stale_keys(), after the keys were read.
RepairReadStale(v) ==
    /\ repair.pc = "check" /\ v \in DOMAIN repair.work
    /\ repair.work[v].pc = "stale"
    /\ repair' = [repair EXCEPT !.work[v] = [pc |-> "done", bogus |-> Bogus(repair.work[v].valid, v)]]
    /\ UNCHANGED <<vars, service, legacy, repair_next, raced, hasty>>

AllChecked == repair.pc = "check" /\ \A v \in DOMAIN repair.work : repair.work[v].pc = "done"

\* The progress is stored, the keys are not removed.
repair_stale_keys_DataOnly ==
    /\ AllChecked
    /\ repair_next' = Max(DOMAIN repair.work) + 1
    /\ repair' = IdleRepair
    /\ UNCHANGED <<vars, service, legacy, raced, hasty>>

\* update_task_data(): one write batch stores the progress and removes the bogus keys.
repair_stale_keys ==
    /\ AllChecked
    /\ repair_next' = Max(DOMAIN repair.work) + 1
    /\ stale' = stale \ UNION {repair.work[v].bogus : v \in DOMAIN repair.work}
    /\ repair' = IdleRepair
    /\ UNCHANGED <<tree, version_count, patch, pruner, target, reader, history, pruned,
                   retain, crashes, service, legacy, raced, hasty>>

\* The handle is dropped, or the write of repair_stale_keys() fails: run() returns.
RepairStops ==
    /\ repair.pc = "idle" \/ AllChecked
    /\ repair' = NoRepair
    /\ UNCHANGED <<vars, service, legacy, repair_next, raced, hasty>>

RepairStep ==
    \/ RepairReadMin
    \/ RepairReadManifest
    \/ \E v \in Versions : RepairReadRoot(v) \/ RepairReadKeys(v) \/ RepairReadStale(v)
    \/ repair_stale_keys

-----------------------------------------------------------------------------
(***************************************************************************)
(* verify_consistency(): the errors that the tree of this model can have.  *)
(* Hashes and leaf indices are left out with their errors.                 *)
(***************************************************************************)
\* The check of one node, its children excepted.
NodeError(nk, is_leaf) ==
    IF nk \notin DOMAIN tree THEN "MissingNode"
    ELSE LET node == NodeOf(tree, nk)
             newest == Max({node.refs[b].version : b \in DOMAIN node.refs})
         IN  IF is_leaf # (node.kind = "leaf") THEN "Deserialize"
             ELSE IF node.kind = "leaf"
                  THEN IF Nibbles(node.key, Len(nk[2])) # nk[2] THEN "FullKeyMismatch" ELSE "ok"
             ELSE IF DOMAIN node.refs = {} THEN "EmptyInternalNode"
             ELSE IF nk[2] # <<>> /\ newest # nk[1] THEN "KeyVersionMismatch"
             ELSE IF nk[2] = <<>> /\ newest > nk[1] THEN "RootVersionMismatch"
             ELSE IF Len(nk[2]) = KeyLen THEN "TerminalInternalNode"
             ELSE "ok"

\* The set of results that the parallel walk may return.
verify_consistency(version) ==
    IF version >= version_count THEN {"MissingVersion"}
    ELSE IF <<version, <<>>>> \notin DOMAIN tree THEN {"MissingRoot"}
    ELSE IF RootAt(tree, version).kind = "empty" THEN {"ok"}
    ELSE LET root == <<version, <<>>>>
             Sound(nks) == {e \in nks : NodeError(e[1], e[2]) = "ok"}
             Children(nk) == {<<child, NodeOf(tree, nk).refs[LastOf(child[2])].is_leaf>> :
                                child \in ChildrenOf(tree, nk)}
             Level[n \in 0..KeyLen] ==
                IF n = 0 THEN {<<root, NodeOf(tree, root).kind = "leaf">>}
                ELSE UNION {Children(e[1]) : e \in Sound(Level[n - 1])}
             visited == UNION {Level[n] : n \in 0..KeyLen}
             leaves == {e \in visited : e[2]}
             errors == {NodeError(e[1], e[2]) : e \in visited} \ {"ok"}
         IN  IF errors # {} THEN errors
             ELSE IF Cardinality(leaves) # tree[root].leaf_count THEN {"LeafCountMismatch"}
             ELSE {"ok"}

-----------------------------------------------------------------------------
Rollback(last) ==
    /\ ~legacy /\ ~hasty
    /\ roll_back_logs(last)
    /\ raced' = (raced \/ (repair.pc = "check" /\ \E v \in DOMAIN repair.work : v > last))
    /\ UNCHANGED <<service, legacy, repair, repair_next, hasty>>

\* A target; beyond the versions that the repair has passed only without a repair.
SetTarget(version) ==
    /\ set_target_retained_version(version)
    /\ repair.pc # "off" => version < repair_next
    /\ hasty' = (hasty \/ (service = "repair" /\ version >= repair_next))
    /\ UNCHANGED <<service, legacy, repair, repair_next, raced>>

ServicesNext ==
    \/ \E batch \in Batches : MerkleTreeExtend(batch)
    \/ \E last \in Versions : Rollback(last)
    \/ ~legacy /\ start_pruner /\ UNCHANGED svars
    \/ \E version \in Versions : SetTarget(version)
    \/ target > 0 /\ PrunerStep /\ UNCHANGED svars     \* with target 0 it finds nothing
    \/ service = "reader" /\ \E version \in Versions, key \in ReaderKeys : StartRead(version, key)
        /\ UNCHANGED svars
    \/ LoadNextLevel /\ UNCHANGED svars
    \/ FinishLoad /\ UNCHANGED svars
    \/ EndRead /\ UNCHANGED svars
    \/ \E retained \in Versions : truncate_recent_versions_incorrectly(retained)
    \/ Upgrade
    \/ StartRepair
    \/ RepairStep
    \/ RepairStops

ServicesSpec == ServicesInit /\ [][ServicesNext]_allvars /\ WF_allvars(RepairStep)

-----------------------------------------------------------------------------
\* What the version of a stale key has really replaced; a version with an empty root is
\* left out (its predecessor's root is a stale key that the repair takes for bogus).
TrulyStale(w) == IF RootAt(tree, w).kind = "empty" THEN {} ELSE ReplacedBy(w)

\* A version that the repair has passed has no stale key of a node that it still uses,
\* whatever was rolled back and rewritten while the repair was reading, and although the
\* task never starts again from an earlier version.
CheckedVersionsAreClean ==
    \A s \in stale : s[1] < repair_next /\ s[1] < version_count
        => s[2] \notin Reachable(tree, s[1])

\* The repair does not lose the stale keys of nodes that were really replaced (they
\* would never be pruned) and does not panic, unless a version is truncated while it is
\* being checked.
RepairIsPrecise ==
    service = "repair" /\ ~raced /\ ~hasty =>
        /\ repair.pc # "panicked"
        /\ \A w \in (pruned + 1)..(version_count - 1) : \A k \in TrulyStale(w) : <<w, k>> \in stale

\* "after pruning, a tree may end up broken" (the doc of StaleKeysRepairTask): not if
\* the pruner is only given targets that the repair has passed, while it goes on.
RepairedPruningIsSafe == ~hasty => RetainedVersionsHold

\* verify_consistency() accepts a version exactly if all of its nodes are there, have
\* the right shape and are as many as the root says; it finds every damage that pruning
\* with bogus stale keys does.
VerificationIsExact ==
    service = "repair" => \A v \in pruned..(version_count - 1) :
        (verify_consistency(v) = {"ok"}) <=> Holds(tree, v, history[v + 1])

\* A running repair gets past every version that has bogus stale keys, one range of
\* versions after the other.
RepairCatchesUp ==
    \A w \in Versions :
        LET Bad == /\ repair.pc \notin {"off", "panicked"}
                   /\ w < version_count
                   /\ \E s \in stale : s[1] = w /\ s[2] \in Reachable(tree, w)
        IN  Bad ~> ~Bad

\* The repair of bogus stale keys makes pruning safe while the tree goes on: it misses none, takes
\* no right one away, and verify_consistency() tells the damage of those that were pruned before
\* (StaleKeysRepairTask, verify_consistency).
RepairIsSafe ==
    /\ CheckedVersionsAreClean
    /\ RepairIsPrecise
    /\ RepairedPruningIsSafe
    /\ VerificationIsExact

-----------------------------------------------------------------------------
(***************************************************************************)
(* The instance that is checked: three versions of the keys of TreeStore,  *)
(* of which the legacy code may truncate and rewrite the last.             *)
(***************************************************************************)
\* The first batch forks the root, the second one moves a leaf down.
MCServedBatches ==
    { << Entry(k01, 1), Entry(k10, 1) >>,
      << Entry(k00, 2) >> }

MCReaderKeys == {k00}
=============================================================================
