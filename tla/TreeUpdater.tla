---------------------------- MODULE TreeUpdater ----------------------------
(***************************************************************************)
(* The insertion algorithm of the versioned Merkle tree: the operations of *)
(* TreeUpdater and Storage (merkle_tree/src/storage/mod.rs) on the working *)
(* patch set (storage/patch.rs).  Everything here is a pure function of a  *)
(* version, a database and the entries of a batch.                         *)
(*                                                                         *)
(* A key is a sequence of nibbles of length KeyLen (2 * KEY_SIZE in the    *)
(* code); a node sits at a prefix of a key ("nibbles") and is stored under *)
(* the node key <<version, nibbles>>; the root of version v is stored      *)
(* under <<v, <<>>>>.  Hashes are left out: a node refers to its children  *)
(* by version.  Leaf indices are left out too: nothing here reads them.    *)
(***************************************************************************)
EXTENDS SequenceHelpers, FiniteSets, TLC

CONSTANT KeyLen

ASSUME KeyLenAssumption == KeyLen \in Nat \ {0}

Nibbles(key, n) == SubSeq(key, 1, n)

\* `prev_version: None` of a working node.
NoVersion == -1

LeafNode(entry) == [kind |-> "leaf", key |-> entry.key, value |-> entry.value]

InternalNode(refs) == [kind |-> "internal", refs |-> refs]

ChildRef(version, is_leaf) == [version |-> version, is_leaf |-> is_leaf]

EmptyRoot == [kind |-> "empty"]

FilledRoot(leaf_count, node) ==
    [kind |-> "filled", leaf_count |-> leaf_count, node |-> node]

LeafCount(root) == IF root.kind = "empty" THEN 0 ELSE root.leaf_count

RootAt(db, version) ==
    IF <<version, <<>>>> \in DOMAIN db THEN db[<<version, <<>>>>] ELSE EmptyRoot

(***************************************************************************)
(* The working patch set: a function from nibbles to working nodes.        *)
(***************************************************************************)
WorkingPatchSet(version, root) ==
    IF root.kind = "empty"
    THEN [p \in {} |-> root]
    ELSE [p \in {<<>>} |-> [inner |-> root.node, prev_version |-> version - 1]]

InternalAt(ws, p) == p \in DOMAIN ws /\ ws[p].inner.kind = "internal"

HasChildRef(ws, p) ==
    InternalAt(ws, AllButLast(p)) /\ LastOf(p) \in DOMAIN ws[AllButLast(p)].inner.refs

child_ref(ws, p) == ws[AllButLast(p)].inner.refs[LastOf(p)]

\* WorkingPatchSet::insert() of every node of f; prev_version is retained.
InsertNodes(ws, f) ==
    [p \in DOMAIN f |->
        [inner |-> f[p],
         prev_version |-> IF p \in DOMAIN ws THEN ws[p].prev_version ELSE NoVersion]] @@ ws

\* One iteration of load_ancestors(): one multi-get for the level n.
LoadLevel(ws, db, keys, n) ==
    LET requested == {p \in {Nibbles(k, n) : k \in keys} : HasChildRef(ws, p)}
        loaded(p) == [inner |-> db[<<child_ref(ws, p).version, p>>],
                      prev_version |-> child_ref(ws, p).version]
    IN  [p \in requested |-> loaded(p)] @@ ws

load_ancestors(ws, db, keys) ==
    LET Loaded[n \in 0..KeyLen] == IF n = 0 THEN ws ELSE LoadLevel(Loaded[n - 1], db, keys, n)
    IN  Loaded[KeyLen]

\* The length of the longest prefix of the key that load_ancestors() has found.
LongestPrefix(ws, key) ==
    Max({0} \cup {n \in 0..KeyLen : Nibbles(key, n) \in DOMAIN ws})

\* load_greatest_key() follows the last child of every internal node: it loads
\* the ancestors of the greatest key of the tree.
LastChild_First(ws, p) == Append(p, Min(DOMAIN ws[p].inner.refs))

LastChild(ws, p) == Append(p, Max(DOMAIN ws[p].inner.refs))

GreatestPath(db, ws) ==
    FoldOver(LAMBDA acc, n :
                IF InternalAt(acc.ws, acc.p)
                THEN LET p == LastChild(acc.ws, acc.p)
                     IN  [p |-> p, ws |-> LoadLevel(acc.ws, db, {p}, n)]
                ELSE acc,
             [p |-> <<>>, ws |-> ws], [n \in 1..KeyLen |-> n])

\* The position at which the descent along the key ends, started at the prefix of
\* length from: the first node that is not internal.
traverse(ws, key, from) ==
    Min({n \in from..KeyLen : ~InternalAt(ws, Nibbles(key, n))})

\* The number of nibbles before the first one, from n on, that tells the keys apart.
ForkDepth(key, other, n) == Min({d \in n..(KeyLen - 1) : key[d + 1] # other[d + 1]})

\* The nodes that replace a leaf with another key at the position of length n.
Fork(key, other, entry, leaf, version, n) ==
    LET d == ForkDepth(key, other, n)
        path == {Nibbles(key, i) : i \in n..d}
        refs(p) == IF Len(p) < d
                   THEN [b \in {key[Len(p) + 1]} |-> ChildRef(version, FALSE)]
                   ELSE [b \in {key[d + 1], other[d + 1]} |-> ChildRef(version, TRUE)]
    IN  [p \in path |-> InternalNode(refs(p))]
            @@ (Nibbles(key, d + 1) :> LeafNode(entry)) @@ (Nibbles(other, d + 1) :> leaf)

\* The parent of the position of length n with its reference to it set to ref.
WithChildRef(ws, key, n, ref) ==
    [p \in {Nibbles(key, n - 1)} |-> InternalNode((key[n] :> ref) @@ ws[p].inner.refs)]

\* Only the reference to the changed node gets the new version.
BumpVersions_ParentOnly(ws, key, n, version) ==
    [p \in {Nibbles(key, i) : i \in (n - 1)..(n - 1)} \cap DOMAIN ws |->
        [ws[p] EXCEPT !.inner.refs[key[Len(p) + 1]].version = Max({@, version})]] @@ ws

\* The last loop of insert(): the references on the way up get the new version.
BumpVersions(ws, key, n, version) ==
    [p \in {Nibbles(key, i) : i \in 0..(n - 1)} |->
        [ws[p] EXCEPT !.inner.refs[key[Len(p) + 1]].version = Max({@, version})]] @@ ws

\* TreeUpdater::insert(), the leaf data it returns reduced to its position.
insert(ws, version, entry, from) ==
    LET key == entry.key
        n == traverse(ws, key, from)
        pos == Nibbles(key, n)
        at == ws[pos].inner
        Matches == pos \in DOMAIN ws /\ at.key = key
        Differs == pos \in DOMAIN ws /\ at.key # key
        nodes == IF Differs
                 THEN Fork(key, at.key, entry, at, version, n)
                 ELSE [p \in {pos} |-> LeafNode(entry)]
        parent == IF Matches \/ n = 0 THEN [p \in {} |-> at]
                  ELSE WithChildRef(ws, key, n,
                        IF Differs
                        THEN [child_ref(ws, pos) EXCEPT !.is_leaf = FALSE]
                        ELSE ChildRef(version, TRUE))
        inserted == InsertNodes(InsertNodes(ws, parent), nodes)
    IN  [ws |-> BumpVersions(inserted, key, n, version),
         is_new |-> ~Matches,
         len |-> IF Differs THEN ForkDepth(key, at.key, n) + 1 ELSE n]

(***************************************************************************)
(* finalize_inner(): which nodes are written, which node keys are stale.   *)
(***************************************************************************)
PatchSet(nodes, stale) == [nodes |-> nodes, stale |-> stale]

for_empty_root(version) ==
    PatchSet([k \in {<<version, <<>>>>} |-> EmptyRoot],
             IF version = 0 THEN {} ELSE {<<version, <<version - 1, <<>>>>>>})

NodeVersion(ws, version, p) ==
    IF p = <<>> THEN version ELSE child_ref(ws, p).version

\* The root is always replaced by an insertion and never by an update.
WasReplaced(ws, version, operation, p) ==
    IF p = <<>> THEN operation = "insert"
    ELSE ws[p].prev_version < NodeVersion(ws, version, p)

finalize(ws, version, leaf_count, operation) ==
    IF DOMAIN ws = {} THEN for_empty_root(version)
    ELSE LET Replaced(p) == WasReplaced(ws, version, operation, p)
             written == {p \in DOMAIN ws : Replaced(p) \/ operation = "update"}
             outdated == {p \in DOMAIN ws : Replaced(p) /\ ws[p].prev_version # NoVersion}
             node(k) == IF k[2] = <<>> THEN FilledRoot(leaf_count, ws[<<>>].inner)
                        ELSE ws[k[2]].inner
         IN  PatchSet([k \in {<<NodeVersion(ws, version, p), p>> : p \in written} |-> node(k)],
                      {<<version, <<ws[p].prev_version, p>>>> : p \in outdated})

(***************************************************************************)
(* Storage: a batch of entries (a sequence of [key, value]) on top of the  *)
(* base version.                                                           *)
(***************************************************************************)
KeysOf(entries) == {entries[i].key : i \in DOMAIN entries}

\* Storage::extend(): a new version on top of the previous one.
extend(db, version, entries) ==
    LET root == IF version = 0 THEN EmptyRoot ELSE RootAt(db, version - 1)
        loaded == load_ancestors(WorkingPatchSet(version, root), db, KeysOf(entries))
        Step(acc, e) == LET r == insert(acc.ws, version, e, LongestPrefix(loaded, e.key))
                        IN  [ws |-> r.ws, count |-> acc.count + (IF r.is_new THEN 1 ELSE 0)]
        result == FoldOver(Step, [ws |-> loaded, count |-> LeafCount(root)], entries)
    IN  finalize(result.ws, version, result.count, "insert")

\* Storage::extend_during_random_recovery(): every entry counts as a new leaf.
extend_during_random_recovery(db, version, entries) ==
    LET root == RootAt(db, version)
        loaded == load_ancestors(WorkingPatchSet(version, root), db, KeysOf(entries))
        Step(ws, e) == insert(ws, version, e, LongestPrefix(loaded, e.key)).ws
    IN  finalize(FoldOver(Step, loaded, entries), version,
                 LeafCount(root) + Len(entries), "update")

CommonPrefix(p, key) ==
    Max({n \in 0..Len(p) : Nibbles(p, n) = Nibbles(key, n)})

\* Storage::extend_during_linear_recovery(): every descent starts from the ancestor
\* shared with the previous leaf.
extend_during_linear_recovery(db, version, entries) ==
    LET root == RootAt(db, version)
        greatest == GreatestPath(db, WorkingPatchSet(version, root))
        Step(acc, e) == LET r == insert(acc.ws, version, e, CommonPrefix(acc.p, e.key))
                        IN  [ws |-> r.ws, p |-> Nibbles(e.key, r.len)]
    IN  finalize(FoldOver(Step, greatest, entries).ws, version,
                 LeafCount(root) + Len(entries), "update")

(***************************************************************************)
(* The reference: what a version of the tree says, and its canonical shape.*)
(***************************************************************************)
\* The node keys reachable from the root of a version, level by level; a reference
\* whose node is missing from db is reachable all the same.
NodeOf(db, nk) == IF nk[2] = <<>> THEN db[nk].node ELSE db[nk]

ChildrenOf(db, nk) ==
    IF nk \notin DOMAIN db \/ NodeOf(db, nk).kind # "internal" THEN {}
    ELSE {<<NodeOf(db, nk).refs[b].version, Append(nk[2], b)>> : b \in DOMAIN NodeOf(db, nk).refs}

Reachable(db, version) ==
    IF RootAt(db, version).kind = "empty" THEN {<<version, <<>>>>}
    ELSE LET Level[n \in 0..KeyLen] ==
                 IF n = 0 THEN {<<version, <<>>>>}
                 ELSE UNION {ChildrenOf(db, nk) : nk \in Level[n - 1]}
         IN  UNION {Level[n] : n \in 0..KeyLen}

\* The entries a version contains, as a function from keys to values.
Contents(db, version) ==
    LET nodes == {NodeOf(db, nk) : nk \in Reachable(db, version)}
        leaves == {node \in nodes : node.kind = "leaf"}
    IN  [k \in {leaf.key : leaf \in leaves} |-> (CHOOSE leaf \in leaves : leaf.key = k).value]

\* The shape of a tree depends on its keys only: an internal node wherever two keys
\* share the prefix, and a leaf one nibble below the last such prefix of its key.
Shared(keys, p) == Cardinality({k \in keys : Nibbles(k, Len(p)) = p}) > 1

ShapeOf(keys) ==
    LET prefixes == {Nibbles(k, n) : k \in keys, n \in 0..KeyLen}
    IN  {p \in prefixes : p = <<>> \/ Shared(keys, AllButLast(p))}

\* Every reference of a node leads to a node of the kind it announces.
RefsAreRight(db, nk) ==
    nk \in DOMAIN db /\ \A child \in ChildrenOf(db, nk) :
        /\ child \in DOMAIN db
        /\ NodeOf(db, nk).refs[LastOf(child[2])].is_leaf = (NodeOf(db, child).kind = "leaf")

\* The version is complete in db, has the canonical shape and says what it should.
Holds(db, version, contents) ==
    LET root == RootAt(db, version)
        nodes == Reachable(db, version)
    IN  /\ <<version, <<>>>> \in DOMAIN db
        /\ root.kind = "empty" <=> DOMAIN contents = {}
        /\ DOMAIN contents # {} =>
             /\ \A nk \in nodes : RefsAreRight(db, nk)
             /\ {nk[2] : nk \in nodes} = ShapeOf(DOMAIN contents)
             /\ Contents(db, version) = contents
             /\ root.leaf_count = Cardinality(DOMAIN contents)
=============================================================================
