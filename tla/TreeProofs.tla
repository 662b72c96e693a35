----------------------------- MODULE TreeProofs -----------------------------
(***************************************************************************)
(* The full mode of the Merkle tree: a batch of reads and writes, each     *)
(* with a Merkle proof (merkle_tree/src/storage/proofs.rs), node hashes    *)
(* and their caches (hasher/nodes.rs), proofs of single entries            *)
(* (getters.rs).  The shape of the tree is that of TreeUpdater; here       *)
(* hashes and leaf indices are added.                                      *)
(*                                                                         *)
(* A nibble has NibbleBits bits (4 in the code), so that an internal node  *)
(* is a binary tree of this height.  The value of an entry is the pair     *)
(* <<leaf_index, value>>.  A hash is the term that was hashed.             *)
(***************************************************************************)
EXTENDS TreeUpdater

CONSTANT NibbleBits

ASSUME NibbleBitsAssumption == NibbleBits \in Nat \ {0}

TREE_DEPTH == NibbleBits * KeyLen

SUBTREE_COUNT == 2^NibbleBits

\* The bit of the key that tells the sides apart at a height above the leaves.
bit(key, depth) ==
    (key[KeyLen - depth \div NibbleBits] \div 2^(depth % NibbleBits)) % 2

-----------------------------------------------------------------------------
(***************************************************************************)
(* Hashing.                                                                *)
(***************************************************************************)
EmptyLeaf == <<0, 0>>

hash_leaf(value) == <<"leaf", value>>

hash_branch(lhs, rhs) == <<"branch", lhs, rhs>>

empty_subtree_hash[depth \in 0..TREE_DEPTH] ==
    IF depth = 0 THEN hash_leaf(EmptyLeaf)
    ELSE hash_branch(empty_subtree_hash[depth - 1], empty_subtree_hash[depth - 1])

\* No hash at all (None), and the hash of a child reference that was not computed yet.
NoHash == <<"none">>
BlankHash == <<"blank">>

hash_optional_branch(depth, lhs, rhs) ==
    LET some(h) == IF h = NoHash THEN empty_subtree_hash[depth] ELSE h
    IN  IF lhs = NoHash /\ rhs = NoHash THEN NoHash ELSE hash_branch(some(lhs), some(rhs))

\* The siblings of a leaf from the bottom up, combined with its hash.
FoldSiblings(value, key, siblings) ==
    FoldOver(LAMBDA h, i : IF bit(key, i - 1) = 1
                           THEN hash_branch(siblings[i], h)
                           ELSE hash_branch(h, siblings[i]),
             hash_leaf(value), [i \in 1..Len(siblings) |-> i])

EmptySiblings(n) == [i \in 1..n |-> empty_subtree_hash[i - 1]]

extend_merkle_path(path) == EmptySiblings(TREE_DEPTH - Len(path)) \o path

\* fold_merkle_path(), and blake2_fold_merkle_path() that has to be the same function.
fold_merkle_path(path, key, value) == FoldSiblings(value, key, extend_merkle_path(path))

\* LeafNode::hash(): the leaf's subtree at a level has no other leaf.
LeafNodeHash(leaf, level) == FoldSiblings(leaf.value, leaf.key, EmptySiblings(TREE_DEPTH - level))

(***************************************************************************)
(* An internal node.  Level j of its binary tree has 2^j hashes; level     *)
(* NibbleBits is that of the children.  InternalNodeCache keeps the levels *)
(* in between.                                                             *)
(***************************************************************************)
hash_inner(children, level) ==
    LET levels[j \in 0..NibbleBits] ==
            IF j = NibbleBits THEN children
            ELSE [i \in 0..(2^j - 1) |->
                    hash_optional_branch(TREE_DEPTH - (level + j + 1),
                                         levels[j + 1][2 * i], levels[j + 1][2 * i + 1])]
    IN  levels

\* Only the hash of the node is updated; the levels in between stay as they were.
update_nibble_StaleLevels(cache, children, level, nibble) ==
    [cache EXCEPT ![0] = hash_inner(children, level)[0], ![NibbleBits] = children]

\* Only the hashes above the changed child are computed again.
update_nibble(cache, children, level, nibble) ==
    LET levels[j \in 0..NibbleBits] ==
            IF j = NibbleBits THEN children
            ELSE LET i == nibble \div 2^(NibbleBits - j)
                 IN  [cache[j] EXCEPT ![i] =
                        hash_optional_branch(TREE_DEPTH - (level + j + 1),
                                             levels[j + 1][2 * i], levels[j + 1][2 * i + 1])]
    IN  levels

(***************************************************************************)
(* The patch set with hashes: the nodes (ws, as in TreeUpdater), the hash  *)
(* in every child reference by the position of the child, and the caches   *)
(* of internal nodes.                                                      *)
(***************************************************************************)
RefPositions(ws) ==
    UNION {{Append(p, b) : b \in DOMAIN ws[p].inner.refs} : p \in {q \in DOMAIN ws : InternalAt(ws, q)}}

\* A new reference has no hash yet.
WithNodes(t, ws) ==
    [t EXCEPT !.ws = ws,
              !.hashes = @ @@ [p \in RefPositions(ws) \ DOMAIN @ |-> BlankHash]]

child_hashes(t, p) ==
    [b \in 0..(SUBTREE_COUNT - 1) |->
        IF Append(p, b) \in DOMAIN t.hashes THEN t.hashes[Append(p, b)] ELSE NoHash]

InternalHash(t, p) ==
    LET hash == hash_inner(child_hashes(t, p), NibbleBits * Len(p))[0][0]
    IN  IF hash = NoHash THEN empty_subtree_hash[TREE_DEPTH - NibbleBits * Len(p)] ELSE hash

NodeHash(t, p) ==
    IF t.ws[p].inner.kind = "leaf" THEN LeafNodeHash(t.ws[p].inner, NibbleBits * Len(p))
    ELSE InternalHash(t, p)

\* update_child_hash() of the parent's InternalNodeUpdater.
update_child_hash(t, child, hash) ==
    LET p == AllButLast(child)
        changed == [t EXCEPT !.hashes = (child :> hash) @@ @]
        children == child_hashes(changed, p)
        levels == IF p \in DOMAIN t.cache
                  THEN update_nibble(t.cache[p], children, NibbleBits * Len(p), LastOf(child))
                  ELSE hash_inner(children, NibbleBits * Len(p))
    IN  [changed EXCEPT !.cache = (p :> levels) @@ @]

\* MerklePath: an empty subtree below the first sibling is not stored.
NewPath(level) == [level |-> level, hashes |-> <<>>]

push(path, hash) ==
    [level |-> path.level - 1,
     hashes |-> IF hash # NoHash THEN Append(path.hashes, hash)
                ELSE IF path.hashes # <<>>
                THEN Append(path.hashes, empty_subtree_hash[TREE_DEPTH - path.level])
                ELSE <<>>]

Sibling(i) == IF i % 2 = 0 THEN i + 1 ELSE i - 1

\* InternalNodeUpdater::extend_merkle_path(), which fills the cache of the parent.
ExtendPathAlong(t, child, path, levels) ==
    LET b == LastOf(child)
        adjacent(j) == IF j = NibbleBits THEN child_hashes(t, AllButLast(child))[Sibling(b)]
                       ELSE levels[j][Sibling(b \div 2^(NibbleBits - j))]
    IN  [t |-> [t EXCEPT !.cache = (AllButLast(child) :> levels) @@ @],
         path |-> FoldOver(LAMBDA acc, i : push(acc, adjacent(NibbleBits + 1 - i)),
                           path, [i \in 1..NibbleBits |-> i])]

ExtendPath(t, child, path) ==
    LET p == AllButLast(child)
    IN  ExtendPathAlong(t, child, path,
            IF p \in DOMAIN t.cache THEN t.cache[p]
            ELSE hash_inner(child_hashes(t, p), NibbleBits * Len(p)))

Descending(from, to) == [i \in 1..(from - to + 1) |-> from + 1 - i]

-----------------------------------------------------------------------------
(***************************************************************************)
(* One instruction.                                                        *)
(***************************************************************************)
TreeLogEntry(op, value) == [op |-> op, value |-> value]

\* update_node_hashes(): from the leaf up to the root of the subtree, a child of the
\* root of the tree.
WithParentHash(r, p) == [t |-> r.t, path |-> r.path, hash |-> r.t.cache[p][0][0]]

update_node_hashes(t, pos, path) ==
    FoldOver(LAMBDA acc, n :
                LET child == Nibbles(pos, n)
                IN  WithParentHash(ExtendPath(update_child_hash(acc.t, child, acc.hash), child, acc.path),
                                   AllButLast(child)),
             [t |-> t, path |-> path, hash |-> LeafNodeHash(t.ws[pos].inner, NibbleBits * Len(pos))],
             Descending(Len(pos), 2))

\* What insert() has found at the position: nothing, the entry itself or another leaf.
WriteBase(t, at, is_new) ==
    IF is_new THEN TreeLogEntry("Inserted", EmptyLeaf) ELSE TreeLogEntry("Updated", t.ws[at].inner.value)

Written(done, base) == [t |-> done.t, root_hash |-> done.hash, path |-> done.path, base |-> base]

\* The hash of a leaf that was moved down is not computed.
HashWritten_AdjacentForgotten(t, key, at, r) ==
    Written(update_node_hashes(WithNodes(t, r.ws), Nibbles(key, r.len), NewPath(NibbleBits * r.len)),
            WriteBase(t, at, r.is_new))

\* After insert(): the hash of the leaf that was moved aside, if any, and the hashes of
\* all nodes above the new leaf.
HashWritten(t, key, at, r) ==
    LET nodes == WithNodes(t, r.ws)
        adjacent == Nibbles(t.ws[at].inner.key, r.len)
        hashed == IF at \in DOMAIN t.ws /\ t.ws[at].inner.key # key
                  THEN [nodes EXCEPT !.hashes =
                        (adjacent :> LeafNodeHash(t.ws[at].inner, NibbleBits * r.len)) @@ @]
                  ELSE nodes
    IN  Written(update_node_hashes(hashed, Nibbles(key, r.len), NewPath(NibbleBits * r.len)),
                WriteBase(t, at, r.is_new))

ApplyWrite(t, version, entry, from) ==
    HashWritten(t, entry.key, Nibbles(entry.key, traverse(t.ws, entry.key, from)),
                insert(t.ws, version, entry, from))

find_diverging_bit(key, other) ==
    Min({d \in 0..(TREE_DEPTH - 1) :
            bit(key, TREE_DEPTH - 1 - d) # bit(other, TREE_DEPTH - 1 - d)})

\* The path starts at the leaf, or where the missing key leaves that of another leaf.
PathStart(found, key, leaf, n, diverging_level) ==
    IF found /\ leaf.key # key
    THEN FoldOver(LAMBDA acc, i : push(acc, NoHash),
                  push(NewPath(diverging_level), LeafNodeHash(leaf, diverging_level)),
                  [i \in 1..(diverging_level - NibbleBits * n - 1) |-> i])
    ELSE NewPath(NibbleBits * n)

Proved(up, base) == [t |-> up.t, path |-> up.path, base |-> base]

\* create_proof(): up to the nodes with the given number of nibbles; n is where the
\* descent has ended.
create_proof_at(t, key, n, root_nibble_count) ==
    LET pos == Nibbles(key, n)
        leaf == t.ws[pos].inner
        Found == pos \in DOMAIN t.ws
        start == PathStart(Found, key, leaf, n, find_diverging_bit(key, leaf.key) + 1)
    IN  Proved(FoldOver(LAMBDA acc, i : ExtendPath(acc.t, Nibbles(key, i), acc.path),
                        [t |-> t, path |-> start], Descending(n, root_nibble_count + 1)),
               IF Found /\ leaf.key = key THEN TreeLogEntry("Read", leaf.value)
               ELSE TreeLogEntry("ReadMissingKey", EmptyLeaf))

create_proof(t, key, from, root_nibble_count) ==
    create_proof_at(t, key, traverse(t.ws, key, from), root_nibble_count)

-----------------------------------------------------------------------------
(***************************************************************************)
(* A batch: a sequence of instructions [key, is_write, value].             *)
(***************************************************************************)
\* ensure_internal_root_node(): the reference to a leaf that was the root is blank.
ensure_internal_root_node(t, version) ==
    LET root == t.ws[<<>>].inner
        nodes == IF DOMAIN t.ws = {} THEN [p \in {<<>>} |-> InternalNode([b \in {} |-> 0])]
                 ELSE IF root.kind = "leaf"
                 THEN (<<>> :> InternalNode(root.key[1] :> ChildRef(version, TRUE)))
                        @@ (Nibbles(root.key, 1) :> root)
                 ELSE [p \in {} |-> root]
    IN  WithNodes(t, InsertNodes(t.ws, nodes))

\* extend_precomputed(): the instructions of one subtree, in their order.
SubtreeLog(logs, i, r, hash) ==
    [t |-> r.t, hash |-> hash,
     logs |-> (i :> [base |-> r.base, path |-> r.path, root_hash |-> hash]) @@ logs]

SubtreeWrite(logs, i, r) == SubtreeLog(logs, i, r, r.root_hash)

extend_precomputed(t, version, nibble, instructions, from) ==
    LET Step(acc, i) ==
            LET ins == instructions[i]
            IN  IF ins.is_write
                THEN SubtreeWrite(acc.logs, i,
                        ApplyWrite(acc.t, version, [key |-> ins.key, value |-> ins.value], from[i]))
                ELSE SubtreeLog(acc.logs, i, create_proof(acc.t, ins.key, from[i], 1), acc.hash)
        indices == SelectSeq([i \in DOMAIN instructions |-> i],
                             LAMBDA i : instructions[i].key[1] = nibble)
        hash == IF <<nibble>> \in DOMAIN t.ws THEN NodeHash(t, <<nibble>>)
                ELSE empty_subtree_hash[TREE_DEPTH - NibbleBits]
    IN  FoldOver(Step, [t |-> t, hash |-> hash, logs |-> [i \in {} |-> 0]], indices)

\* finalize_logs(): the subtrees' root hashes are put into the root in the order of the
\* instructions, and the paths get their upper part.
FinalLog(logs, log, r, hash) ==
    [t |-> r.t, hash |-> hash,
     logs |-> Append(logs, [base |-> log.base, path |-> r.path.hashes, root_hash |-> hash])]

FinalWrite(logs, log, child, t) ==
    FinalLog(logs, log, ExtendPath(t, child, log.path), t.cache[<<>>][0][0])

finalize_logs(t, version, instructions, logs) ==
    LET child(i) == <<instructions[i].key[1]>>
        is_leaf(i) == child(i) \in DOMAIN t.ws /\ t.ws[child(i)].inner.kind = "leaf"
        refs(acc, i) == (child(i)[1] :> ChildRef(version, is_leaf(i))) @@ acc.t.ws[<<>>].inner.refs
        Step(acc, i) ==
            IF instructions[i].is_write
            THEN FinalWrite(acc.logs, logs[i], child(i),
                    update_child_hash(
                        WithNodes(acc.t, InsertNodes(acc.t.ws, <<>> :> InternalNode(refs(acc, i)))),
                        child(i), logs[i].root_hash))
            ELSE FinalLog(acc.logs, logs[i], ExtendPath(acc.t, child(i), logs[i].path), acc.hash)
    IN  FoldOver(Step, [t |-> t, hash |-> InternalHash(t, <<>>), logs |-> <<>>],
                 [i \in DOMAIN instructions |-> i])

\* The parts of the patch set that start with their nibble; the root is that of base.
merge(base, parts) ==
    LET own(f, b) == [p \in {p \in DOMAIN f : Len(p) > 0 /\ p[1] = b} |-> f[p]]
        below(f, b) == [p \in {p \in DOMAIN f : Len(p) > 1 /\ p[1] = b} |-> f[p]]
        Add(acc, b) == [ws |-> own(parts[b].t.ws, b) @@ acc.ws,
                        hashes |-> below(parts[b].t.hashes, b) @@ acc.hashes,
                        cache |-> acc.cache]
    IN  FoldSet(LAMBDA b, acc : Add(acc, b), base, DOMAIN parts)

Finalized(final, version, leaf_count) ==
    [t |-> final.t, logs |-> final.logs, leaf_count |-> leaf_count,
     patch |-> finalize(IF DOMAIN final.t.ws[<<>>].inner.refs = {} THEN [p \in {} |-> 0] ELSE final.t.ws,
                        version, leaf_count, "insert")]

\* The subtrees put together.
Combine(t, parts, version, leaf_count, instructions) ==
    LET logs == [i \in DOMAIN instructions |-> parts[instructions[i].key[1]].logs[i]]
        new_leaves == Cardinality({i \in DOMAIN logs : logs[i].base.op = "Inserted"})
    IN  Finalized(finalize_logs(merge(t, parts), version, instructions, logs),
                  version, leaf_count + new_leaves)

ExtendInternal(t, version, leaf_count, instructions, from) ==
    Combine(t, [b \in {instructions[i].key[1] : i \in DOMAIN instructions} |->
                    extend_precomputed(t, version, b, instructions, from)],
            version, leaf_count, instructions)

\* Storage::extend_with_proofs(): t has the nodes loaded for the keys of the batch.
extend_with_proofs(loaded, version, leaf_count, instructions) ==
    ExtendInternal(ensure_internal_root_node(loaded, version), version, leaf_count, instructions,
                   [i \in DOMAIN instructions |-> LongestPrefix(loaded.ws, instructions[i].key)])
=============================================================================
