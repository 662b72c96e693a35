--------------------------- MODULE MiniMerkleTree ---------------------------
(***************************************************************************)
(* mini_merkle_tree/src/lib.rs: a left-leaning binary Merkle tree in       *)
(* memory that doubles when it is full and whose leftmost leaves can be    *)
(* trimmed.  What is needed of the trimmed leaves is a cache: the left     *)
(* siblings on the path to the first leaf that is kept.                    *)
(*                                                                         *)
(* Hashes are ideal.  A leaf is <<"leaf", bytes>>, a node <<"node", l, r>>;*)
(* an empty subtree is <<"empty", depth, leaf>>, the same whatever order   *)
(* it is hashed in.  NoSibling is <<>>.                                       *)
(***************************************************************************)
EXTENDS SequenceHelpers

NoSibling == <<>>

MiniPanic == <<"panic">>

hash_bytes(bytes) == <<"leaf", bytes>>

compress_hashes(l, r) ==
    IF l = r /\ l[1] = "empty" THEN <<"empty", l[2] + 1, l[3]>> ELSE <<"node", l, r>>

\* compute_empty_tree_hashes().
EmptyTreeHash(empty_leaf, depth) == <<"empty", depth, empty_leaf>>

DefaultEmptyLeaf == "default"

-----------------------------------------------------------------------------
PowerOfTwo(n) == CHOOSE d \in 0..n : 2^d = n

tree_depth_by_size(size) == PowerOfTwo(size)

next_power_of_two(n) == CHOOSE p \in {2^d : d \in 0..n} : p >= n /\ (p = 1 \/ p < 2 * n)

\* from_hashes(); no minimum is a minimum of 1.
from_hashes(hashes, min_tree_size, empty_leaf) ==
    LET size == IF min_tree_size > next_power_of_two(Len(hashes))
                THEN min_tree_size ELSE next_power_of_two(Len(hashes))
    IN  [hashes |-> hashes, size |-> size, start_index |-> 0,
         cache |-> [i \in 1..tree_depth_by_size(size) |-> NoSibling], empty_leaf |-> empty_leaf]

\* new(): the leaves are hashed.
NewMiniTree(leaves, min_tree_size) ==
    from_hashes([i \in DOMAIN leaves |-> hash_bytes(leaves[i])], min_tree_size, DefaultEmptyLeaf)

\* The sibling of a position: index ^ 1.
SiblingIndex(index) == IF index % 2 = 0 THEN index + 1 ELSE index - 1

\* One iteration of the loop over the levels: the level starts at a left sibling, from
\* the cache if need be, and ends at a right one, empty if need be.
OneLevel(tree, level, acc, side) ==
    LET odd == acc.start % 2 = 1
        front == IF odd THEN <<tree.cache[level]>> \o acc.hashes ELSE acc.hashes
        hashes == IF Len(front) % 2 = 0 THEN front
                  ELSE Append(front, EmptyTreeHash(tree.empty_leaf, level - 1))
        index == IF odd THEN acc.index + 1 ELSE acc.index
    IN  [hashes |-> [i \in 1..(Len(hashes) \div 2) |-> compress_hashes(hashes[2 * i - 1], hashes[2 * i])],
         index |-> index \div 2, start |-> acc.start \div 2,
         path |-> Append(acc.path,
                    IF \/ side = "Left" /\ index % 2 = 0
                       \/ side = "Right" /\ index % 2 = 1
                       \/ SiblingIndex(index) >= Len(hashes)
                    THEN NoSibling ELSE hashes[SiblingIndex(index) + 1])]

\* The root and the path to a leaf; side is "Left", "Right" or "Both".  A cache that does
\* not hold what is needed, and a level that stays empty, panic.
compute_merkle_root_and_path(tree, index, side) ==
    LET level[l \in 0..tree_depth_by_size(tree.size)] ==
            IF l = 0 THEN [hashes |-> tree.hashes, index |-> index, start |-> tree.start_index, path |-> <<>>]
            ELSE OneLevel(tree, l, level[l - 1], side)
        top == level[tree_depth_by_size(tree.size)]
    IN  [root |-> IF top.hashes = <<>> THEN MiniPanic ELSE top.hashes[1], path |-> top.path]

merkle_root(tree) ==
    LET depth == tree_depth_by_size(tree.size)
    IN  IF tree.hashes = <<>> /\ tree.start_index = 0
        THEN EmptyTreeHash(DefaultEmptyLeaf, depth)
        ELSE IF tree.hashes = <<>> /\ tree.start_index = tree.size
        THEN tree.cache[depth + 1]
        ELSE compute_merkle_root_and_path(tree, 0, "Both").root

\* Indices are relative to the first leaf that is kept, and absolute.
merkle_root_and_path(tree, index) == compute_merkle_root_and_path(tree, index, "Both")

merkle_root_and_path_by_absolute_index(tree, index) ==
    merkle_root_and_path(tree, index - tree.start_index)

merkle_root_and_paths_for_range(tree, end) ==
    LET right == compute_merkle_root_and_path(tree, end - 1, "Right")
    IN  [root |-> right.root, left_path |-> tree.cache, right_path |-> right.path]

push_hash(tree, leaf_hash) ==
    LET grows == tree.start_index + Len(tree.hashes) + 1 > tree.size
        size == IF grows THEN 2 * tree.size ELSE tree.size
    IN  [tree EXCEPT !.hashes = Append(@, leaf_hash), !.size = size,
                     !.cache = IF grows /\ Len(@) < tree_depth_by_size(size) THEN Append(@, NoSibling) ELSE @]

\* Variant: a second trimming leaves the cache of the first one.
trim_start_OldCache(tree, count) ==
    LET left == compute_merkle_root_and_path(tree, count, "Left")
        start_index == tree.start_index + count
        path == IF tree.start_index = 0 THEN left.path ELSE tree.cache
    IN  [tree EXCEPT !.hashes = SubSeq(@, count + 1, Len(@)), !.start_index = start_index,
                     !.cache = IF start_index = tree.size THEN Append(path, left.root) ELSE path]

trim_start(tree, count) ==
    LET left == compute_merkle_root_and_path(tree, count, "Left")
        start_index == tree.start_index + count
    IN  [tree EXCEPT !.hashes = SubSeq(@, count + 1, Len(@)), !.start_index = start_index,
                     !.cache = IF start_index = tree.size THEN Append(left.path, left.root) ELSE left.path]

hashes_prefix(tree, count) == SubSeq(tree.hashes, 1, count)

mini_length(tree) == tree.start_index + Len(tree.hashes)
=============================================================================
