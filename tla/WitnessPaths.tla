---------------------------- MODULE WitnessPaths -----------------------------
(***************************************************************************)
(* The Merkle paths of a batch: what the tree puts into a witness          *)
(* (merkle_tree/src/domain.rs, witness.rs) and what the verifier does with it*)
(* (airbender_verifier/src/merkle_witness.rs, lib.rs).  A program is what the*)
(* VM does to every slot that it touches: it reads it, writes it, or writes*)
(* it and rolls this back.                                                 *)
(***************************************************************************)
EXTENDS TreeProofs

-----------------------------------------------------------------------------
(***************************************************************************)
(* The tree before a batch, as an earlier batch in the lightweight mode has*)
(* left it, and the reference for all hashes.                              *)
(***************************************************************************)
KeyAt(p, i) ==
    p \o [j \in 1..(KeyLen - Len(p)) |->
            (i \div 2^(NibbleBits * (KeyLen - Len(p) - j))) % SUBTREE_COUNT]

LeafAt(tree, key) == IF key \in DOMAIN tree THEN tree[key] ELSE EmptyLeaf

Halve(hashes) ==
    [i \in 1..(Len(hashes) \div 2) |-> hash_branch(hashes[2 * i - 1], hashes[2 * i])]

\* The hash of the complete binary tree below a position.
SubtreeHash(tree, p) ==
    LET height == TREE_DEPTH - NibbleBits * Len(p)
        leaves == [i \in 1..2^height |-> hash_leaf(LeafAt(tree, KeyAt(p, i - 1)))]
    IN  FoldOver(LAMBDA acc, i : Halve(acc), leaves, [i \in 1..height |-> i])[1]

RootHash(tree) == SubtreeHash(tree, <<>>)

EntriesOf(tree) ==
    [i \in 1..Cardinality(DOMAIN tree) |->
        LET key == CHOOSE k \in DOMAIN tree : tree[k][1] = i
        IN  [key |-> key, value |-> tree[key]]]

Database(tree) == extend([k \in {} |-> 0], 0, EntriesOf(tree)).nodes

Hashed(tree, ws) ==
    [ws |-> ws, hashes |-> [p \in RefPositions(ws) |-> SubtreeHash(tree, p)],
     cache |-> [p \in {} |-> 0]]

LoadFrom(db, tree, version, keys) ==
    Hashed(tree, load_ancestors(WorkingPatchSet(version, RootAt(db, 0)), db, keys))

Load(tree, version, keys) == LoadFrom(Database(tree), tree, version, keys)

\* Does the slot's net change make a log of this operation a write?
IsWrite(op, value) == op.kind = "write" /\ op.value # value

\* The deduplicated storage logs of a program: a write that leaves the value as it was
\* is a read, a write that was rolled back leaves no trace.
sort_storage_access_queries(state, prog) ==
    LET kept == SelectSeq(prog, LAMBDA op : op.kind # "rolled_back")
        before(i) == state[kept[i].key][2]
    IN  [i \in DOMAIN kept |->
            [key |-> kept[i].key, is_write |-> IsWrite(kept[i], before(i)),
             value |-> IF IsWrite(kept[i], before(i)) THEN kept[i].value ELSE before(i)]]

\* The instructions for the tree: a new leaf gets the next index; a write that was
\* rolled back is an update with the same value.
InstructionsOf(tree, prog) ==
    LET kept == SelectSeq(prog, LAMBDA op : op.kind # "rolled_back" \/ op.key \in DOMAIN tree)
        before(i) == LeafAt(tree, kept[i].key)
        Same(i) == kept[i].kind = "rolled_back"
        Change(i) == IsWrite(kept[i], before(i)[2])
        fresh(i) == Cardinality({j \in 1..i : Change(j) /\ kept[j].key \notin DOMAIN tree})
        index(i) == IF kept[i].key \in DOMAIN tree THEN before(i)[1]
                    ELSE Cardinality(DOMAIN tree) + fresh(i)
    IN  [i \in DOMAIN kept |->
            [key |-> kept[i].key, is_write |-> Same(i) \/ Change(i),
             value |-> IF Same(i) THEN before(i)
                       ELSE IF Change(i) THEN <<index(i), kept[i].value>> ELSE EmptyLeaf]]

Writes(instructions) == SelectSeq(instructions, LAMBDA ins : ins.is_write)

\* The tree after the batch.
After(tree, prog) ==
    FoldOver(LAMBDA acc, ins : (ins.key :> ins.value) @@ acc, tree,
             Writes(InstructionsOf(tree, prog)))

-----------------------------------------------------------------------------
(***************************************************************************)
(* The witness.                                                            *)
(***************************************************************************)
empty_subtree_prefix_len(path) ==
    LET base == TREE_DEPTH - Len(path)
    IN  IF base < 0 THEN 0
        ELSE Max({n \in 0..Len(path) : \A i \in 1..n : path[i] = empty_subtree_hash[base + i - 1]})

Stripped(path) == SubSeq(path, empty_subtree_prefix_len(path) + 1, Len(path))

StorageLogMetadata(log, ins) ==
    [root_hash |-> log.root_hash,
     is_write |-> log.base.op \in {"Inserted", "Updated"},
     first_write |-> log.base.op = "Inserted",
     path |-> Stripped(log.path),
     key |-> ins.key,
     index |-> IF ins.is_write THEN ins.value[1] ELSE log.base.value[1],
     value_read |-> log.base.value[2]]

\* push_merkle_path() of every log that is not a no-op update.
WitnessOf(logs, instructions) ==
    LET NoOp(i) == logs[i].base.op = "Updated" /\ logs[i].base.value[2] = instructions[i].value[2]
        kept == SelectSeq([i \in DOMAIN logs |-> i], LAMBDA i : ~NoOp(i))
    IN  [n \in DOMAIN kept |-> StorageLogMetadata(logs[kept[n]], instructions[kept[n]])]

\* The legacy encoder: every path padded, and cut where it first differs from the
\* first one.
LegacyForm(paths) ==
    LET padded == [i \in DOMAIN paths |-> extend_merkle_path(paths[i].path)]
        fui(i) == Max({n \in 0..TREE_DEPTH : \A j \in 1..n : padded[i][j] = padded[1][j]})
    IN  [i \in DOMAIN paths |->
            [paths[i] EXCEPT !.path = IF i = 1 THEN padded[1]
                                      ELSE SubSeq(padded[i], fui(i) + 1, TREE_DEPTH)]]

-----------------------------------------------------------------------------
(***************************************************************************)
(* normalize_stored_paths().                                               *)
(***************************************************************************)
is_legacy_delta_form(paths) == paths # <<>> /\ Len(paths[1].path) = TREE_DEPTH

CanNormalize(paths) ==
    /\ \A i \in DOMAIN paths : Len(paths[i].path) <= TREE_DEPTH
    /\ is_legacy_delta_form(paths) => empty_subtree_prefix_len(paths[1].path) > 0

normalize_stored_paths(paths) ==
    LET prefix == paths[1].path
        populated_from == empty_subtree_prefix_len(prefix)
        spliced(i) == LET fui == TREE_DEPTH - Len(paths[i].path)
                      IN  IF is_legacy_delta_form(paths) /\ i > 1 /\ fui > populated_from
                          THEN SubSeq(prefix, populated_from + 1, fui) \o paths[i].path
                          ELSE paths[i].path
    IN  [i \in DOMAIN paths |-> [paths[i] EXCEPT !.path = Stripped(spliced(i))]]

-----------------------------------------------------------------------------
(***************************************************************************)
(* The storage view.                                                       *)
(***************************************************************************)
\* classify_witness_leaf() and tree_log_entry_from_witness().
tree_log_entry_from_witness(meta) ==
    CASE ~meta.is_write /\ meta.first_write -> TreeLogEntry("malformed", EmptyLeaf)
      [] ~meta.is_write /\ ~meta.first_write /\ meta.index = 0 -> TreeLogEntry("ReadMissingKey", EmptyLeaf)
      [] ~meta.is_write /\ ~meta.first_write /\ meta.index # 0 ->
            TreeLogEntry("Read", <<meta.index, meta.value_read>>)
      [] meta.is_write /\ meta.first_write -> TreeLogEntry("Inserted", EmptyLeaf)
      [] meta.is_write /\ ~meta.first_write /\ meta.index = 0 -> TreeLogEntry("malformed", EmptyLeaf)
      [] meta.is_write /\ ~meta.first_write /\ meta.index # 0 ->
            TreeLogEntry("Updated", <<meta.index, meta.value_read>>)

ViewIsBuilt(paths) ==
    LET base(i) == tree_log_entry_from_witness(paths[i])
    IN  /\ \A i \in DOMAIN paths : base(i).op # "malformed"
        /\ \A i, j \in DOMAIN paths : paths[i].key = paths[j].key => base(i).value = base(j).value

\* build_view_from_merkle_paths(): the leaf of every slot that has a path.
WitnessedView(paths) ==
    LET entry(k) == CHOOSE i \in DOMAIN paths : paths[i].key = k
    IN  [k \in KeysOf(paths) |-> tree_log_entry_from_witness(paths[entry(k)]).value]

-----------------------------------------------------------------------------
(***************************************************************************)
(* verify_paths_and_new_root().                                            *)
(***************************************************************************)
Error == [ok |-> FALSE]

\* map_log_tree(): the instruction for a log and an entry that agree.
Agree(log, base) ==
    \/ log.is_write /\ base.op \in {"Updated", "Inserted"}
    \/ ~log.is_write /\ base.op = "Read" /\ log.value = base.value[2]
    \/ ~log.is_write /\ base.op = "ReadMissingKey"

map_log_tree(log, base, idx) ==
    [key |-> log.key, is_write |-> log.is_write,
     value |-> IF ~log.is_write THEN EmptyLeaf
               ELSE <<IF base.op = "Inserted" THEN idx ELSE base.value[1], log.value>>]

NextIndex(base, idx) == IF base.op = "Inserted" THEN idx + 1 ELSE idx

\* The first pass without the check that the path belongs to the slot of the log.
PassOne_AnyKey(paths, logs, idx) ==
    LET Step(acc, i) ==
            LET base == tree_log_entry_from_witness(paths[i])
            IN  IF /\ acc.ok
                   /\ Len(paths[i].path) <= TREE_DEPTH
                   /\ base.op # "malformed"
                   /\ Agree(logs[i], base)
                THEN [ok |-> TRUE, idx |-> NextIndex(base, acc.idx),
                      steps |-> Append(acc.steps,
                        [base |-> base,
                         ins |-> map_log_tree([logs[i] EXCEPT !.key = paths[i].key], base, acc.idx)])]
                ELSE Error
    IN  FoldOver(Step, [ok |-> TRUE, idx |-> idx, steps |-> <<>>], [i \in DOMAIN paths |-> i])

\* The first pass: every entry is classified, bound to the slot of its log and mapped to
\* an instruction.
PassOne(paths, logs, idx) ==
    LET Step(acc, i) ==
            LET base == tree_log_entry_from_witness(paths[i])
            IN  IF /\ acc.ok
                   /\ Len(paths[i].path) <= TREE_DEPTH
                   /\ base.op # "malformed"
                   /\ paths[i].key = logs[i].key
                   /\ Agree(logs[i], base)
                THEN [ok |-> TRUE, idx |-> NextIndex(base, acc.idx),
                      steps |-> Append(acc.steps,
                        [base |-> base, ins |-> map_log_tree(logs[i], base, acc.idx)])]
                ELSE Error
    IN  FoldOver(Step, [ok |-> TRUE, idx |-> idx, steps |-> <<>>], [i \in DOMAIN paths |-> i])

\* The hash before a write is not compared with the running root.
FoldOne_NewOnly(root_hash, meta, base, ins) ==
    IF ins.is_write
    THEN base.op \notin {"Read", "ReadMissingKey"}
            /\ fold_merkle_path(meta.path, ins.key, ins.value) = meta.root_hash
    ELSE /\ meta.root_hash = root_hash
         /\ fold_merkle_path(meta.path, ins.key, base.value) = root_hash

\* One entry of the second pass: the path leads from the old leaf to the running root
\* and, for a write, from the new leaf to the next root.
FoldOne(root_hash, meta, base, ins) ==
    /\ IF ins.is_write THEN base.op \notin {"Read", "ReadMissingKey"}
       ELSE meta.root_hash = root_hash /\ base.op \in {"Read", "ReadMissingKey"}
    /\ fold_merkle_path(meta.path, ins.key, base.value) = root_hash
    /\ ins.is_write => fold_merkle_path(meta.path, ins.key, ins.value) = meta.root_hash

\* The second pass: root i is the running root before entry i.
PassTwo(paths, steps, old_root_hash) ==
    \A i \in DOMAIN paths :
        FoldOne(IF i = 1 THEN old_root_hash ELSE paths[i - 1].root_hash,
                paths[i], steps[i].base, steps[i].ins)

verify_paths_and_new_root(paths, logs, old_root_hash, idx) ==
    LET first == PassOne(paths, logs, idx)
    IN  IF /\ Len(paths) = Len(logs)
           /\ paths # <<>>
           /\ Len(paths[1].path) # TREE_DEPTH
           /\ first.ok
           /\ PassTwo(paths, first.steps, old_root_hash)
        THEN [ok |-> TRUE, root |-> LastOf(paths).root_hash, index |-> first.idx]
        ELSE Error
=============================================================================
