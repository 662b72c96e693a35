----------------------------- MODULE TreeStore ------------------------------
(***************************************************************************)
(* The versioned tree over its lifetime: ZkSyncTree (merkle_tree/src/      *)
(* domain.rs) extends the tree in memory, saves, resets and rolls it back; *)
(* MerkleTreePruner (pruning.rs) runs on a thread of its own with its own  *)
(* handle to the database; a ZkSyncTreeReader (getters.rs) reads old       *)
(* versions from a third thread.  A RocksDB write batch is atomic and      *)
(* every read is a separate step, except that the nodes of one tree level  *)
(* are read by one multi-get.                                              *)
(***************************************************************************)
EXTENDS TreeUpdater

CONSTANTS
    Batches,            \* the batches that may arrive: sequences of [key, value]
    MaxVersions,        \* bound: versions of the tree
    PrunedKeyCount,     \* target_pruned_key_count
    ReaderKeys,         \* keys that a reader may ask for ({}: no reader)
    MaxCrashes          \* bound: restarts of the process

ASSUME StoreAssumption ==
    /\ MaxVersions \in Nat
    /\ PrunedKeyCount \in Nat \ {0}
    /\ MaxCrashes \in Nat

VARIABLES
    tree,               \* the Tree column family: node keys to nodes and roots
    stale,              \* the StaleKeys column family: pairs <<new version, node key>>
    version_count,      \* the manifest
    patch,              \* Patched::patch
    pruner,             \* the pruner thread
    target,             \* target_retained_version
    reader,             \* a call of entries()
    history,            \* history: contents of the versions of the patched tree
    pruned,             \* history: the last version whose stale keys were pruned
    retain,             \* history: the greatest target ever set
    crashes

store == <<tree, stale, version_count>>
vars == <<tree, stale, version_count, patch, pruner, target, reader, history, pruned, retain, crashes>>

NoPatch == [version_count |-> 0, nodes |-> [k \in {} |-> EmptyRoot], stale |-> {}]

StoppedPruner == [pc |-> "off", min |-> 0, next |-> 0, last |-> 0, keys |-> {}]

IdleReader == [pc |-> "idle"]

Init ==
    /\ tree = [k \in {} |-> EmptyRoot]
    /\ stale = {}
    /\ version_count = 0
    /\ patch = NoPatch
    /\ pruner = StoppedPruner
    /\ target = 0
    /\ reader = IdleReader
    /\ history = <<>>
    /\ pruned = 0
    /\ retain = 0
    /\ crashes = 0

(***************************************************************************)
(* Reads through Patched.                                                  *)
(***************************************************************************)
\* manifest() of the patched database.
Manifest == IF patch = NoPatch THEN version_count ELSE patch.version_count

is_new_version(version) ==
    /\ patch # NoPatch
    /\ version >= patch.version_count \/ <<version, <<>>>> \in DOMAIN patch.nodes

\* try_root(), try_tree_node() and tree_nodes() of Patched as one function.
PatchedTree ==
    patch.nodes @@ [k \in {k \in DOMAIN tree : ~is_new_version(k[1])} |-> tree[k]]

-----------------------------------------------------------------------------
(***************************************************************************)
(* ZkSyncTree.                                                             *)
(***************************************************************************)
Overwrite(contents, batch) ==
    [k \in DOMAIN contents \cup KeysOf(batch) |->
        IF k \in KeysOf(batch)
        THEN batch[Max({i \in DOMAIN batch : batch[i].key = k})].value
        ELSE contents[k]]

\* The contents of the latest version.
LatestContents == IF history = <<>> THEN [k \in {} |-> 0] ELSE LastOf(history)

\* process_l1_batch(): a new version, added to the patch in memory.
process_l1_batch(batch) ==
    /\ Manifest < MaxVersions
    /\ LET new == extend(PatchedTree, Manifest, batch)
       IN  patch' = [version_count |-> Manifest + 1,
                     nodes |-> new.nodes @@ patch.nodes,
                     stale |-> patch.stale \cup new.stale]
    /\ history' = Append(history, Overwrite(LatestContents, batch))
    /\ UNCHANGED <<store, pruner, target, reader, pruned, retain, crashes>>

\* apply_patch() of RocksDBWrapper without the deletion of the version's key range.
apply_patch_KeepingGarbage(p) ==
    /\ tree' = p.nodes @@ tree
    /\ stale' = stale \cup p.stale
    /\ version_count' = p.version_count

\* apply_patch() of RocksDBWrapper: one write batch.  The key range of every new
\* version is deleted first, which removes what a truncated version has left there.
apply_patch(p) ==
    LET new == {k[1] : k \in DOMAIN p.nodes}
        kept == {k \in DOMAIN tree : k[1] \notin new}
    IN  /\ tree' = p.nodes @@ [k \in kept |-> tree[k]]
        /\ stale' = stale \cup p.stale
        /\ version_count' = p.version_count

\* save(): the patch is taken out before it is written.
save ==
    /\ patch # NoPatch
    /\ apply_patch(patch)
    /\ patch' = NoPatch
    /\ UNCHANGED <<pruner, target, reader, history, pruned, retain, crashes>>

\* reset(); a save() whose write fails does the same, and so does a roll_back_logs()
\* whose write fails: the patch is gone and the store is what it was.
reset ==
    /\ patch # NoPatch
    /\ patch' = NoPatch
    /\ history' = SubSeq(history, 1, version_count)
    /\ UNCHANGED <<store, pruner, target, reader, pruned, retain, crashes>>

\* The obligation of the caller of roll_back_logs(): the versions that the pruner was
\* allowed to prune are not rolled back to.
MayKeep(last) == last >= Min({retain, version_count - 1})

\* truncate_recent_versions(): nodes stay, stale keys of truncated versions go.
truncate(retained) ==
    IF version_count > retained
    THEN /\ version_count' = retained
         /\ stale' = {s \in stale : s[1] \notin retained..(version_count - 1)}
         /\ UNCHANGED tree
    ELSE UNCHANGED store

\* History: the version that a reader has asked for was not there all along.
DisturbReader(retained) ==
    reader' = IF reader.pc # "idle" /\ reader.version >= retained
              THEN [reader EXCEPT !.disturbed = TRUE] ELSE reader

roll_back_logs(last) ==
    /\ MayKeep(last)
    /\ last < version_count
    /\ patch' = NoPatch
    /\ truncate(last + 1)
    /\ history' = SubSeq(history, 1, last + 1)
    /\ DisturbReader(last + 1)
    /\ UNCHANGED <<pruner, target, pruned, retain, crashes>>

-----------------------------------------------------------------------------
(***************************************************************************)
(* The pruner.                                                             *)
(***************************************************************************)
MinStaleVersion == Min({s[1] : s \in stale})

\* ZkSyncTree::pruner(), which panics if it is called twice for a tree, and the start
\* of run() on a new thread.
start_pruner ==
    /\ pruner.pc = "off"
    /\ pruner' = [pruner EXCEPT !.pc = "idle"]
    /\ UNCHANGED <<store, patch, target, reader, history, pruned, retain, crashes>>

\* MerkleTreePrunerHandle::set_target_retained_version(): fetch_max.
set_target_retained_version(version) ==
    /\ pruner.pc \notin {"off", "dead"}
    /\ version > target
    /\ target' = version
    /\ retain' = Max({retain, version})
    /\ UNCHANGED <<store, patch, pruner, reader, history, pruned, crashes>>

\* The first read of prune_up_to(), after the target was loaded.
ReadMinStale ==
    /\ pruner.pc = "idle"
    /\ stale # {}
    /\ pruner' = [pruner EXCEPT !.pc = "range", !.min = MinStaleVersion, !.last = target]
    /\ UNCHANGED <<store, patch, target, reader, history, pruned, retain, crashes>>

IdlePruner == [StoppedPruner EXCEPT !.pc = "idle"]

\* The target used as it is, even if it is beyond the last version.
ReadManifest_Unlimited ==
    /\ pruner.pc = "range"
    /\ pruner' = IF pruner.min > pruner.last
                 THEN IdlePruner
                 ELSE [pruner EXCEPT !.pc = "collect", !.next = pruner.min, !.keys = {}]
    /\ UNCHANGED <<store, patch, target, reader, history, pruned, retain, crashes>>

\* last_prunable_version() and the range of the versions to prune.
ReadManifest ==
    /\ pruner.pc = "range"
    /\ LET last == Min({version_count - 1, pruner.last})
       IN  pruner' = IF pruner.min > last
                     THEN IdlePruner
                     ELSE [pruner EXCEPT !.pc = "collect", !.next = pruner.min,
                                         !.last = last, !.keys = {}]
    /\ UNCHANGED <<store, patch, target, reader, history, pruned, retain, crashes>>

\* The keys that the next version has replaced are collected.
CollectVersion_OffByOne ==
    /\ pruner.pc = "collect"
    /\ LET keys == pruner.keys \cup {s[2] : s \in {s \in stale : s[1] = pruner.next + 1}}
       IN  pruner' = [pruner EXCEPT !.pc = "apply", !.keys = keys]
    /\ UNCHANGED <<store, patch, target, reader, history, pruned, retain, crashes>>

\* One iteration of the loop over versions: stale_keys(version).
CollectVersion ==
    /\ pruner.pc = "collect"
    /\ LET keys == pruner.keys \cup {s[2] : s \in {s \in stale : s[1] = pruner.next}}
           enough == Cardinality(keys) >= PrunedKeyCount \/ pruner.next = pruner.last
       IN  pruner' = IF enough /\ keys = {}
                     THEN IdlePruner
                     ELSE [pruner EXCEPT !.pc = IF enough THEN "apply" ELSE "collect",
                                         !.next = IF enough THEN @ ELSE @ + 1,
                                         !.keys = keys]
    /\ UNCHANGED <<store, patch, target, reader, history, pruned, retain, crashes>>

\* The stale keys stay after their nodes were deleted.
prune_KeepingStaleKeys ==
    /\ pruner.pc = "apply"
    /\ tree' = [k \in DOMAIN tree \ pruner.keys |-> tree[k]]
    /\ pruned' = pruner.next
    /\ pruner' = IdlePruner
    /\ UNCHANGED <<stale, version_count, patch, target, reader, history, retain, crashes>>

\* prune(): one write batch deletes the nodes and the stale keys.
prune ==
    /\ pruner.pc = "apply"
    /\ tree' = [k \in DOMAIN tree \ pruner.keys |-> tree[k]]
    /\ stale' = {s \in stale : s[1] \notin pruner.min..pruner.next}
    /\ pruned' = pruner.next
    /\ pruner' = IdlePruner
    /\ UNCHANGED <<version_count, patch, target, reader, history, retain, crashes>>

\* The handle is dropped, or the write of prune() fails: run() returns.
PrunerStops ==
    /\ pruner.pc \in {"idle", "apply"}
    /\ pruner' = [StoppedPruner EXCEPT !.pc = "dead"]
    /\ UNCHANGED <<store, patch, target, reader, history, pruned, retain, crashes>>

-----------------------------------------------------------------------------
(***************************************************************************)
(* A reader: entries() of a committed version for one key.                 *)
(***************************************************************************)
\* load_and_transform_entries(): the root is read first.
StartRead(version, key) ==
    /\ reader.pc = "idle"
    /\ LET root == RootAt(tree, version)
       IN  reader' = IF <<version, <<>>>> \notin DOMAIN tree
                     THEN [pc |-> "missing", version |-> version, key |-> key,
                           disturbed |-> version >= version_count]
                     ELSE [pc |-> "load", version |-> version, key |-> key, level |-> 1,
                           ws |-> WorkingPatchSet(version, root),
                           disturbed |-> version >= version_count]
    /\ UNCHANGED <<store, patch, pruner, target, history, pruned, retain, crashes>>

\* The node that the next level of the key's path refers to.
ReaderWants == LET p == Nibbles(reader.key, reader.level) IN
    IF reader.level <= KeyLen /\ HasChildRef(reader.ws, p)
    THEN {<<child_ref(reader.ws, p).version, p>>} ELSE {}

\* The next iteration of load_ancestors(); node.unwrap() panics if the node is gone.
LoadNextLevel ==
    /\ reader.pc = "load"
    /\ ReaderWants # {}
    /\ reader' = IF ReaderWants \subseteq DOMAIN tree
                 THEN [reader EXCEPT !.ws = LoadLevel(@, tree, {reader.key}, reader.level),
                                     !.level = @ + 1]
                 ELSE [reader EXCEPT !.pc = "panicked"]
    /\ UNCHANGED <<store, patch, pruner, target, history, pruned, retain, crashes>>

\* extract_entry().
FinishLoad ==
    /\ reader.pc = "load"
    /\ ReaderWants = {}
    /\ reader' = [reader EXCEPT !.pc = "done"]
    /\ UNCHANGED <<store, patch, pruner, target, history, pruned, retain, crashes>>

\* The call has returned to its caller.
EndRead ==
    /\ reader.pc \in {"done", "missing", "panicked"}
    /\ reader' = IdleReader
    /\ UNCHANGED <<store, patch, pruner, target, history, pruned, retain, crashes>>

-----------------------------------------------------------------------------
\* The process stops and starts again: only the store survives.
Crash ==
    /\ crashes < MaxCrashes
    /\ crashes' = crashes + 1
    /\ patch' = NoPatch
    /\ pruner' = StoppedPruner
    /\ target' = 0
    /\ reader' = IdleReader
    /\ history' = SubSeq(history, 1, version_count)
    /\ UNCHANGED <<store, pruned, retain>>

Versions == 0..(MaxVersions - 1)

PrunerStep == ReadMinStale \/ ReadManifest \/ CollectVersion \/ prune

Next ==
    \/ \E batch \in Batches : process_l1_batch(batch)
    \/ save
    \/ reset
    \/ \E last \in Versions : roll_back_logs(last)
    \/ start_pruner
    \/ \E version \in Versions : set_target_retained_version(version)
    \/ PrunerStep
    \/ PrunerStops
    \/ Crash

Spec == Init /\ [][Next]_vars

\* The pruner's thread is scheduled.
FairSpec == Spec /\ WF_vars(PrunerStep)

-----------------------------------------------------------------------------

\* Every version that was not pruned, saved or not, is complete and holds what was
\* written to it, whatever was pruned, rolled back, overwritten or lost in between.
RetainedVersionsHold ==
    \A v \in pruned..(Manifest - 1) : Holds(PatchedTree, v, history[v + 1])

\* The pruner never prunes past the target it was given nor past the latest version,
\* although both may change while it collects keys ("We must retain at least one tree
\* version").
PrunerKeepsTarget == pruned <= retain /\ (pruned > 0 => pruned < version_count)

\* Pruning and truncation leave no node behind: every node of a version of the tree
\* belongs to a version that was not pruned.  (Roots of empty versions have no
\* stale key and stay.)
NoLeftovers ==
    LET live == UNION {Reachable(tree, v) : v \in pruned..(version_count - 1)}
    IN  \A k \in DOMAIN tree \ live :
            k[1] >= version_count \/ (k[2] = <<>> /\ tree[k].kind = "empty")

\* The nodes that version w has replaced; the root of an empty version is not recorded
\* when the first entries arrive.
ReplacedBy(w) ==
    (Reachable(tree, w - 1) \ Reachable(tree, w))
        \ {k \in {<<w - 1, <<>>>>} : RootAt(tree, w - 1).kind = "empty"
                                      /\ RootAt(tree, w).kind = "filled"}

\* The stale keys are exactly the nodes that a version has replaced, for the versions
\* that are not pruned: no other node is ever scheduled for deletion.
StaleKeysAreExact ==
    stale = UNION {{<<w, k>> : k \in ReplacedBy(w)} : w \in (pruned + 1)..(version_count - 1)}

\* A read of a version that is there from its start to its end returns the entry of that
\* version, although nodes are written and pruned between its steps.
ReadsAreRight ==
    reader.pc \in {"done", "missing", "panicked"} /\ ~reader.disturbed
            /\ reader.version \in pruned..(version_count - 1) =>
        LET contents == history[reader.version + 1]
            found == reader.ws[Nibbles(reader.key, LongestPrefix(reader.ws, reader.key))].inner
        IN  /\ reader.pc = "done"
            /\ IF reader.key \in DOMAIN contents
               THEN found.kind = "leaf" /\ found.key = reader.key
                        /\ found.value = contents[reader.key]
               ELSE DOMAIN reader.ws = {} \/ found.kind # "leaf" \/ found.key # reader.key

\* A running pruner removes the stale keys up to its target, in as many rounds as it
\* takes, and never gets stuck on a limited number of keys.
PrunerCatchesUp ==
    \A w \in Versions :
        LET Prunable == /\ pruner.pc \notin {"off", "dead"}
                        /\ w <= target /\ w < version_count
                        /\ \E s \in stale : s[1] = w
        IN  Prunable ~> ~Prunable

\* No version is lost that was to be kept: the versions from the target on are all there, and the
\* pruner stops at its target and before the latest version (MerkleTreePruner, truncate).
VersionsAreRetained ==
    /\ RetainedVersionsHold
    /\ PrunerKeepsTarget

\* Garbage is recorded exactly and collected fully: a node has a stale key just when a later
\* version has replaced it, and what is pruned or truncated leaves nothing (apply_patch, prune).
GarbageIsExact ==
    /\ StaleKeysAreExact
    /\ NoLeftovers

-----------------------------------------------------------------------------
(***************************************************************************)
(* The instance that is checked: three keys of two binary nibbles, of      *)
(* which two fork below a common prefix, so that leaves move down when a   *)
(* neighbour arrives.                                                      *)
(***************************************************************************)
Entry(k, v) == [key |-> k, value |-> v]

k00 == <<0, 0>>
k01 == <<0, 1>>
k10 == <<1, 0>>

\* An empty batch, a batch that forks a leaf, one that updates, one that does both.
MCBatches ==
    { << >>,
      << Entry(k00, 1) >>,
      << Entry(k01, 1), Entry(k10, 1) >>,
      << Entry(k10, 2), Entry(k00, 2) >> }

NoReaderKeys == {}
=============================================================================
