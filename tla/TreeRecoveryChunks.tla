------------------------- MODULE TreeRecoveryChunks -------------------------
(***************************************************************************)
(* Restoring a tree from a snapshot, chunk by chunk: what the chunks of    *)
(* MerkleTreeRecovery (merkle_tree/src/recovery/mod.rs) write.  Every      *)
(* chunk is one atomic patch and the process may stop between two chunks,  *)
(* so a later session sees exactly the state that the last chunk left; how *)
(* patches reach the disk is the subject of ParallelDatabase.              *)
(***************************************************************************)
EXTENDS TreeUpdater

CONSTANTS
    Snapshot,       \* the entries of the snapshot: a function from keys to values
    Version,        \* recovered_version
    MaxChunk,       \* bound: entries in a chunk
    LaterBatches    \* batches that extend the tree after recovery

ASSUME SnapshotAssumption ==
    /\ Version \in Nat \ {0}
    /\ \A k \in DOMAIN Snapshot : Len(k) = KeyLen

VARIABLES
    tree,           \* the nodes of the database
    stale,          \* the stale keys of the database
    recovered,      \* history: the keys that have been fed to the tree
    phase           \* "recovering", "recovered", or "extended" by a later batch

vars == <<tree, stale, recovered, phase>>

Init ==
    /\ tree = [k \in {} |-> EmptyRoot]
    /\ stale = {}
    /\ recovered = {}
    /\ phase = "recovering"

EntriesOf(keys) == [i \in DOMAIN keys |-> [key |-> keys[i], value |-> Snapshot[keys[i]]]]

\* apply_patch() of RocksDBWrapper for an update: nothing is deleted.
Apply(patch) ==
    /\ tree' = patch.nodes @@ tree
    /\ stale' = stale \cup patch.stale

\* Key order: by the first nibble that differs.
KeyLess(a, b) == a # b /\ LET d == ForkDepth(a, b, 0) IN a[d + 1] < b[d + 1]

\* last_processed_key() reads the greatest key of the recovered version.
HasLastProcessedKey == RootAt(tree, Version).kind = "filled"

last_processed_key ==
    LET path == GreatestPath(tree, WorkingPatchSet(Version, RootAt(tree, Version)))
    IN  path.ws[path.p].inner.key

\* Chunks of keys that were not fed to the tree yet, in any order.
Chunks ==
    {c \in UNION {[1..n -> DOMAIN Snapshot \ recovered] : n \in 0..MaxChunk} : IsInjective(c)}

\* The assertion of extend_during_linear_recovery(): a chunk that fails it panics
\* before anything is written.
LinearlyOrdered(keys) ==
    /\ \A i \in 1..(Len(keys) - 1) : KeyLess(keys[i], keys[i + 1])
    /\ keys # <<>> /\ HasLastProcessedKey => KeyLess(last_processed_key, keys[1])

extend_linear(keys) ==
    /\ phase = "recovering"
    /\ LinearlyOrdered(keys)
    /\ Apply(extend_during_linear_recovery(tree, Version, EntriesOf(keys)))
    /\ recovered' = recovered \cup Range(keys)
    /\ UNCHANGED phase

extend_random(keys) ==
    /\ phase = "recovering"
    /\ Apply(extend_during_random_recovery(tree, Version, EntriesOf(keys)))
    /\ recovered' = recovered \cup Range(keys)
    /\ UNCHANGED phase

\* finalize(): the empty root if nothing was recovered; then the stale keys of the
\* recovered version are pruned.
finalize_recovery ==
    /\ phase = "recovering"
    /\ LET root == <<Version, <<>>>>
           patch == IF root \in DOMAIN tree
                    THEN PatchSet([k \in {} |-> EmptyRoot], {})
                    ELSE for_empty_root(Version)
           written == patch.nodes @@ tree
           pruned == {s \in stale \cup patch.stale : s[1] = Version}
       IN  /\ tree' = [k \in DOMAIN written \ {s[2] : s \in pruned} |-> written[k]]
           /\ stale' = (stale \cup patch.stale) \ pruned
    /\ phase' = "recovered"
    /\ UNCHANGED recovered

\* MerkleTree::extend() on the recovered tree.
extend_recovered(batch) ==
    /\ phase = "recovered"
    /\ Apply(extend(tree, Version + 1, batch))
    /\ phase' = "extended"
    /\ UNCHANGED recovered

Next ==
    \/ \E keys \in Chunks : extend_linear(keys)
    \/ \E keys \in Chunks : extend_random(keys)
    \/ finalize_recovery
    \/ \E batch \in LaterBatches : extend_recovered(batch)

Spec == Init /\ [][Next]_vars

-----------------------------------------------------------------------------
RecoveredEntries == [k \in recovered |-> Snapshot[k]]

\* Whatever way the entries were cut into linear and random chunks, the tree contains
\* exactly the entries fed to it, in the canonical shape and with the right leaf
\* count ("we create a Merkle tree with the same entries as the snapshot").
RecoveredMatchesSnapshot ==
    <<Version, <<>>>> \in DOMAIN tree => Holds(tree, Version, RecoveredEntries)

InSomeOrder(keys) == FoldSet(LAMBDA k, acc : Append(acc, k), <<>>, keys)

\* The nodes of a recovered tree, their versions included, are those that a single
\* insertion of all entries would create: chunk boundaries leave no node behind and
\* lose none.
ChunkingIsInvisible ==
    phase # "extended" /\ <<Version, <<>>>> \in DOMAIN tree =>
        tree = extend([k \in {} |-> EmptyRoot], Version, EntriesOf(InSomeOrder(recovered))).nodes

\* A resumed recovery continues from the right place: the last processed key is the
\* greatest key of the tree, although linear recovery reads only one path.
LastProcessedKeyIsGreatest ==
    /\ HasLastProcessedKey <=> recovered # {}
    /\ HasLastProcessedKey =>
         \A k \in recovered : k = last_processed_key \/ KeyLess(k, last_processed_key)

\* Recovery makes no node stale other than a root of the previous version, so that
\* pruning in finalize() never touches the recovered tree.
RecoveryLeavesNoStaleNodes ==
    phase # "extended" => \A s \in stale : s = <<Version, <<Version - 1, <<>>>>>>

\* A change applied to a recovered tree has the outcome it would have had on the
\* original one: the new version holds the merged entries and the old one is intact.
LaterBatchHasSameOutcome ==
    [][\A batch \in LaterBatches : extend_recovered(batch) =>
        LET written == [k \in KeysOf(batch) |->
                          batch[Max({i \in DOMAIN batch : batch[i].key = k})].value]
            merged == [k \in recovered \cup DOMAIN written |->
                          IF k \in DOMAIN written THEN written[k] ELSE Snapshot[k]]
        IN  /\ Holds(tree', Version + 1, merged)
            /\ Holds(tree', Version, RecoveredEntries)]_vars

\* A recovery that is cut into chunks, and interrupted between any two, ends with what one
\* insertion of the snapshot would give, resumes at the right key, and gives pruning nothing to
\* remove (extend_linear, extend_random, last_processed_key, finalize).
RecoveryIsExact ==
    /\ RecoveredMatchesSnapshot
    /\ ChunkingIsInvisible
    /\ LastProcessedKeyIsGreatest
    /\ RecoveryLeavesNoStaleNodes

-----------------------------------------------------------------------------
(***************************************************************************)
(* The instance that is checked: all keys of three binary nibbles, paths    *)
(* with forks at every depth.                                               *)
(***************************************************************************)
MCSnapshot == [k \in [1..KeyLen -> {0, 1}] |-> 1]

Entry(k, v) == [key |-> k, value |-> v]

MCLaterBatches ==
    { << >>,
      << Entry(<<0, 0, 1>>, 2) >>,
      << Entry(<<1, 1, 0>>, 2), Entry(<<0, 1, 1>>, 2), Entry(<<1, 1, 0>>, 3) >> }
=============================================================================
