-------------------------- MODULE NodeSerialization -------------------------
(***************************************************************************)
(* What the tree writes to RocksDB, byte by byte: node keys and stale keys *)
(* (merkle_tree/src/types/internal.rs), nodes, roots, the manifest and the *)
(* progress of the repair (storage/serialization.rs).  A byte string is a  *)
(* sequence of 0..255; the strings of the manifest are byte strings too.   *)
(***************************************************************************)
EXTENDS Integers, Sequences, FiniteSets, SequencesExt, FiniteSetsExt

CONSTANTS
    KEY_SIZE, HASH_SIZE,    \* bytes of a key and of a hash (32 and 32 in the code)
    VersionBytes            \* bytes of a version in a database key (8 in the code)

ASSUME SerializationAssumption ==
    /\ KEY_SIZE \in Nat \ {0} /\ HASH_SIZE \in Nat \ {0} /\ VersionBytes \in Nat \ {0}

Ok(value) == [err |-> "", value |-> value]
DeserializeError(kind) == [err |-> kind]
IsOk(r) == r.err = ""

ZeroBytes(n) == [i \in 1..n |-> 0]

-----------------------------------------------------------------------------
(***************************************************************************)
(* Nibbles: [nibble_count, bytes], two nibbles in a byte, unused ones zero.*)
(***************************************************************************)
NibblesFrom(bytes, n) == [nibble_count |-> n, bytes |-> bytes]

\* The nibbles as a sequence: the reference for the operations on bytes.
NibbleSeq(nb) ==
    [i \in 1..nb.nibble_count |->
        IF i % 2 = 1 THEN nb.bytes[(i + 1) \div 2] \div 16 ELSE nb.bytes[i \div 2] % 16]

HighNibble(byte) == byte - (byte % 16)

\* Nibbles::new(): the first n nibbles of a key.
NibblesNew(key, n) ==
    NibblesFrom([i \in 1..KEY_SIZE |->
                    IF i > (n + 1) \div 2 THEN 0
                    ELSE IF n % 2 = 1 /\ i = (n + 1) \div 2 THEN HighNibble(key[i])
                    ELSE key[i]], n)

\* split_last() of a sequence that is not empty: the parent and the last nibble.
split_last(nb) ==
    LET n == nb.nibble_count
        last == (n + 1) \div 2
        byte == nb.bytes[last]
    IN  IF n % 2 = 1
        THEN <<NibblesFrom([nb.bytes EXCEPT ![last] = 0], n - 1), byte \div 16>>
        ELSE <<NibblesFrom([nb.bytes EXCEPT ![last] = HighNibble(byte)], n - 1), byte % 16>>

\* push() on a sequence that is not full.
push(nb, nibble) ==
    LET n == nb.nibble_count + 1
    IN  NibblesFrom([nb.bytes EXCEPT ![(n + 1) \div 2] =
                        IF n % 2 = 0 THEN @ + nibble ELSE nibble * 16], n)

\* common_prefix(): the first byte that differs decides.
common_prefix(nb, other) ==
    LET used == (nb.nibble_count + 1) \div 2
        differs == {i \in 1..used : nb.bytes[i] # other.bytes[i]}
        i == Min(differs)
        shared == HighNibble(nb.bytes[i]) = HighNibble(other.bytes[i])
        cut == [j \in 1..KEY_SIZE |-> IF j < i THEN nb.bytes[j]
                                      ELSE IF j = i /\ shared THEN HighNibble(nb.bytes[i])
                                      ELSE 0]
    IN  IF differs = {} THEN nb
        ELSE NibblesFrom(cut, (2 * i) - (IF shared THEN 1 ELSE 2))

-----------------------------------------------------------------------------
(***************************************************************************)
(* Keys of the database.                                                   *)
(***************************************************************************)
version_to_be_bytes(n) == [i \in 1..VersionBytes |-> (n \div 256^(VersionBytes - i)) % 256]

version_from_be_bytes(bytes) ==
    LET Value[i \in 0..Len(bytes)] == IF i = 0 THEN 0 ELSE (Value[i - 1] * 256) + bytes[i]
    IN  Value[Len(bytes)]

\* NodeKey::to_db_key().
to_db_key(nk) ==
    version_to_be_bytes(nk.version) \o <<nk.nibbles.nibble_count>>
        \o SubSeq(nk.nibbles.bytes, 1, (nk.nibbles.nibble_count + 1) \div 2)

\* NodeKey::from_db_key(), which panics on anything else.
from_db_key(bytes) ==
    LET count == bytes[VersionBytes + 1]
        used == SubSeq(bytes, VersionBytes + 2, Len(bytes))
    IN  IF Len(bytes) < VersionBytes + 1 \/ count > 2 * KEY_SIZE \/ Len(used) # (count + 1) \div 2
        THEN DeserializeError("panic")
        ELSE Ok([version |-> version_from_be_bytes(SubSeq(bytes, 1, VersionBytes)),
                 nibbles |-> NibblesFrom(used \o ZeroBytes(KEY_SIZE - Len(used)), count)])

StaleNodeKey(version, nk) == version_to_be_bytes(version) \o to_db_key(nk)

EmptyNodeKey(version) == [version |-> version, nibbles |-> NibblesFrom(ZeroBytes(KEY_SIZE), 0)]

MANIFEST_KEY == <<0>>
STALE_KEYS_REPAIR_KEY == <<0, 0>>

\* The order of keys in RocksDB.
BytesLess(a, b) ==
    \/ Len(a) < Len(b) /\ IsPrefix(a, b)
    \/ \E i \in 1..Min({Len(a), Len(b)}) :
           a[i] < b[i] /\ SubSeq(a, 1, i - 1) = SubSeq(b, 1, i - 1)

\* The range of keys that apply_patch() deletes for a new version.
InVersionRange(bytes, version) ==
    /\ ~BytesLess(bytes, to_db_key(EmptyNodeKey(version)))
    /\ BytesLess(bytes, to_db_key(EmptyNodeKey(version + 1)))

\* The range of stale keys that prune() and truncate() delete.
InStaleRange(bytes, first, end) ==
    /\ ~BytesLess(bytes, version_to_be_bytes(first))
    /\ BytesLess(bytes, version_to_be_bytes(end))

-----------------------------------------------------------------------------
(***************************************************************************)
(* LEB128 (a crate): seven bits in a byte, the least significant first.    *)
(***************************************************************************)
leb128_write(n) ==
    LET len == Min({k \in 1..4 : n < 128^k})
    IN  [i \in 1..len |-> ((n \div 128^(i - 1)) % 128) + (IF i < len THEN 128 ELSE 0)]

leb128_read(bytes) ==
    LET ends == {i \in DOMAIN bytes : bytes[i] < 128}
        Value[i \in 0..4] == IF i = 0 THEN 0
                             ELSE Value[i - 1] + ((bytes[i] % 128) * 128^(i - 1))
    IN  IF ends = {} THEN DeserializeError("Leb128")
        ELSE Ok([n |-> Value[Min(ends)], rest |-> SubSeq(bytes, Min(ends) + 1, Len(bytes))])

Skip(bytes, n) == SubSeq(bytes, n + 1, Len(bytes))

(***************************************************************************)
(* Nodes.                                                                  *)
(***************************************************************************)
serialize_leaf(leaf) == leaf.full_key \o leaf.value_hash \o leb128_write(leaf.leaf_index)

deserialize_leaf(bytes, strict) ==
    LET index == leb128_read(Skip(bytes, KEY_SIZE + HASH_SIZE))
    IN  IF Len(bytes) < KEY_SIZE + HASH_SIZE THEN DeserializeError("UnexpectedEof")
        ELSE IF ~IsOk(index) THEN index
        ELSE IF strict /\ index.value.rest # <<>> THEN DeserializeError("Leftovers")
        ELSE Ok([kind |-> "leaf", full_key |-> SubSeq(bytes, 1, KEY_SIZE),
                 value_hash |-> SubSeq(bytes, KEY_SIZE + 1, KEY_SIZE + HASH_SIZE),
                 leaf_index |-> index.value.n])

CHILD_COUNT == 16

\* ChildKind: two bits of the bitmap.
ChildKind(node, i) ==
    IF i \notin DOMAIN node.refs THEN 0 ELSE IF node.refs[i].is_leaf THEN 2 ELSE 1

\* The four bytes of the bitmap, the lowest children in the lowest bits of the first.
BitmapOf(node) ==
    [b \in 1..4 |-> LET i == 4 * (b - 1) IN
        ChildKind(node, i) + (4 * ChildKind(node, i + 1)) + (16 * ChildKind(node, i + 2))
            + (64 * ChildKind(node, i + 3))]

serialize_internal(node) ==
    LET Refs[i \in 0..CHILD_COUNT] ==
            IF i = 0 THEN <<>>
            ELSE IF i - 1 \notin DOMAIN node.refs THEN Refs[i - 1]
            ELSE Refs[i - 1] \o node.refs[i - 1].hash \o leb128_write(node.refs[i - 1].version)
    IN  BitmapOf(node) \o Refs[CHILD_COUNT]

\* ChildRef::deserialize(): the reference and the bytes after it.
deserialize_ref(bytes, is_leaf) ==
    LET version == leb128_read(Skip(bytes, HASH_SIZE))
    IN  IF Len(bytes) < HASH_SIZE THEN DeserializeError("UnexpectedEof")
        ELSE IF ~IsOk(version) THEN version
        ELSE Ok([ref |-> [hash |-> SubSeq(bytes, 1, HASH_SIZE), version |-> version.value.n,
                          is_leaf |-> is_leaf],
                 rest |-> version.value.rest])

\* One iteration of the loop over the children, i from 0.
DeserializeChild(acc, kind, i) ==
    IF ~IsOk(acc) \/ kind = 0 THEN acc
    ELSE IF kind = 3 THEN DeserializeError("InvalidChildKind")
    ELSE LET r == deserialize_ref(acc.value.rest, kind = 2)
         IN  IF IsOk(r)
             THEN Ok([refs |-> [j \in DOMAIN acc.value.refs \cup {i} |->
                                    IF j = i THEN r.value.ref ELSE acc.value.refs[j]],
                      rest |-> r.value.rest])
             ELSE r

deserialize_internal(bytes, strict) ==
    LET bitmap == SubSeq(bytes, 1, 4)
        Kind(i) == (bitmap[(i \div 4) + 1] \div 4^(i % 4)) % 4
        none == Ok([refs |-> [j \in {} |-> 0], rest |-> Skip(bytes, 4)])
        Read[i \in 0..CHILD_COUNT] ==
            IF i = 0 THEN none ELSE DeserializeChild(Read[i - 1], Kind(i - 1), i - 1)
        read == Read[CHILD_COUNT]
    IN  IF Len(bytes) < 4 THEN DeserializeError("UnexpectedEof")
        ELSE IF bitmap = ZeroBytes(4) THEN DeserializeError("EmptyInternalNode")
        ELSE IF ~IsOk(read) THEN read
        ELSE IF strict /\ read.value.rest # <<>> THEN DeserializeError("Leftovers")
        ELSE Ok([kind |-> "internal", refs |-> read.value.refs])

serialize_node(node) == IF node.kind = "leaf" THEN serialize_leaf(node) ELSE serialize_internal(node)

(***************************************************************************)
(* Roots, the manifest and the progress of the repair.                     *)
(***************************************************************************)
serialize_root(root) ==
    IF root.kind = "empty" THEN leb128_write(0)
    ELSE leb128_write(root.leaf_count) \o serialize_node(root.node)

\* The internal node is tried first.
OneLeafNode_InternalFirst(bytes, strict) ==
    LET internal == deserialize_internal(bytes, strict)
    IN  IF IsOk(internal) THEN internal ELSE deserialize_leaf(bytes, strict)

\* The node of a root with one leaf, which may be either.
OneLeafNode(bytes, strict) ==
    LET leaf == deserialize_leaf(bytes, strict)
    IN  IF IsOk(leaf) THEN leaf ELSE deserialize_internal(bytes, strict)

deserialize_root(bytes, strict) ==
    LET count == leb128_read(bytes)
        node == IF count.value.n = 1 THEN OneLeafNode(count.value.rest, strict)
                ELSE deserialize_internal(count.value.rest, strict)
    IN  IF ~IsOk(count) THEN count
        ELSE IF count.value.n = 0 THEN Ok([kind |-> "empty"])
        ELSE IF ~IsOk(node) THEN node
        ELSE Ok([kind |-> "filled", leaf_count |-> count.value.n, node |-> node.value])

\* RawNode::deserialize() and deserialize_root(): what a node can be read as.
RawNode(bytes) ==
    {r.value : r \in {r \in {deserialize_leaf(bytes, TRUE), deserialize_internal(bytes, TRUE)} : IsOk(r)}}

\* Names of tags, shortened; a custom tag has the prefix CUSTOM.
ARCHITECTURE == <<97>>
DEPTH == <<100>>
HASHER == <<104>>
IS_RECOVERING == <<105>>
CUSTOM == <<99, 46>>
TRUE_STR == <<116>>
FALSE_STR == <<102>>

\* A number below 1000 as a decimal string, and back.
Decimal(n) == LET Digit(i) == 48 + ((n \div 10^i) % 10) IN
    IF n < 10 THEN <<Digit(0)>> ELSE IF n < 100 THEN <<Digit(1), Digit(0)>>
    ELSE <<Digit(2), Digit(1), Digit(0)>>

ParseDecimal(s) ==
    LET Value[i \in 0..Len(s)] == IF i = 0 THEN 0 ELSE (Value[i - 1] * 10) + (s[i] - 48)
    IN  IF s # <<>> /\ \A i \in DOMAIN s : s[i] \in 48..57 THEN Ok(Value[Len(s)])
        ELSE DeserializeError("MalformedTag")

ParseBool(s) == IF s = TRUE_STR THEN Ok(TRUE) ELSE IF s = FALSE_STR THEN Ok(FALSE)
                ELSE DeserializeError("MalformedTag")

serialize_str(s) == leb128_write(Len(s)) \o s

deserialize_str(bytes) ==
    LET len == leb128_read(bytes)
    IN  IF ~IsOk(len) THEN len
        ELSE IF Len(len.value.rest) < len.value.n THEN DeserializeError("UnexpectedEof")
        ELSE Ok([s |-> SubSeq(len.value.rest, 1, len.value.n), rest |-> Skip(len.value.rest, len.value.n)])

\* TreeTags::serialize(); the custom tags come in the order of a hash map.
serialize_tags(tags, order) ==
    LET Pair(k, v) == serialize_str(k) \o serialize_str(v)
        Custom[i \in 0..Len(order)] ==
            IF i = 0 THEN <<>> ELSE Custom[i - 1] \o Pair(CUSTOM \o order[i], tags.custom[order[i]])
    IN  leb128_write(3 + (IF tags.is_recovering THEN 1 ELSE 0) + Len(order))
            \o Pair(ARCHITECTURE, tags.architecture) \o Pair(DEPTH, Decimal(tags.depth))
            \o Pair(HASHER, tags.hasher)
            \o (IF tags.is_recovering THEN Pair(IS_RECOVERING, TRUE_STR) ELSE <<>>)
            \o Custom[Len(order)]

\* One tag read into the tags found so far (a function from names to values).
SetTag(found, key, value) ==
    IF key = DEPTH /\ ~IsOk(ParseDecimal(value)) THEN ParseDecimal(value)
    ELSE IF key = IS_RECOVERING /\ ~IsOk(ParseBool(value)) THEN ParseBool(value)
    ELSE IF key \notin {ARCHITECTURE, DEPTH, HASHER, IS_RECOVERING} /\ ~IsPrefix(CUSTOM, key)
         THEN DeserializeError("UnknownTag")
    ELSE Ok([k \in DOMAIN found \cup {key} |-> IF k = key THEN value ELSE found[k]])

\* One iteration of the loop over the tags.
DeserializeTag(acc) ==
    LET key == deserialize_str(acc.value.rest)
        value == deserialize_str(key.value.rest)
        found == SetTag(acc.value.found, key.value.s, value.value.s)
    IN  IF ~IsOk(acc) THEN acc ELSE IF ~IsOk(key) THEN key ELSE IF ~IsOk(value) THEN value
        ELSE IF ~IsOk(found) THEN found
        ELSE Ok([found |-> found.value, rest |-> value.value.rest])

deserialize_tags(bytes) ==
    LET count == leb128_read(bytes)
        none == Ok([found |-> [k \in {} |-> 0], rest |-> count.value.rest])
        Read[i \in 0..count.value.n] == IF i = 0 THEN none ELSE DeserializeTag(Read[i - 1])
        read == Read[count.value.n]
        found == read.value.found
        custom == {k \in DOMAIN found : IsPrefix(CUSTOM, k)}
    IN  IF ~IsOk(count) THEN count ELSE IF ~IsOk(read) THEN read
        ELSE IF \E k \in {ARCHITECTURE, HASHER, DEPTH} : k \notin DOMAIN found
             THEN DeserializeError("MissingTag")
        ELSE Ok([architecture |-> found[ARCHITECTURE], hasher |-> found[HASHER],
                 depth |-> ParseDecimal(found[DEPTH]).value,
                 is_recovering |-> IS_RECOVERING \in DOMAIN found /\ ParseBool(found[IS_RECOVERING]).value,
                 custom |-> [k \in {Skip(c, Len(CUSTOM)) : c \in custom} |-> found[CUSTOM \o k]]])

NoTags == [architecture |-> <<>>]

serialize_manifest(manifest, order) ==
    leb128_write(manifest.version_count)
        \o (IF manifest.tags = NoTags THEN <<>> ELSE serialize_tags(manifest.tags, order))

deserialize_manifest(bytes) ==
    LET count == leb128_read(bytes)
        tags == IF count.value.rest = <<>> THEN Ok(NoTags) ELSE deserialize_tags(count.value.rest)
    IN  IF ~IsOk(count) THEN count ELSE IF ~IsOk(tags) THEN tags
        ELSE Ok([version_count |-> count.value.n, tags |-> tags.value])

\* StaleKeysRepairData.
serialize_repair_data(next_version) == leb128_write(next_version)

deserialize_repair_data(bytes) ==
    LET r == leb128_read(bytes) IN IF IsOk(r) THEN Ok(r.value.n) ELSE r

-----------------------------------------------------------------------------
\* The operations on packed nibbles are those on sequences of nibbles; a common prefix
\* is taken with a complete key.
NibblesAreSequences(key, other, n) ==
    LET nb == NibblesNew(key, n)
        full == NibblesNew(other, 2 * KEY_SIZE)
        common == common_prefix(nb, full)
    IN  /\ NibbleSeq(nb) = SubSeq(NibbleSeq(NibblesNew(key, 2 * KEY_SIZE)), 1, n)
        /\ n > 0 => /\ split_last(nb) = <<NibblesNew(key, n - 1), Last(NibbleSeq(nb))>>
                    /\ push(split_last(nb)[1], split_last(nb)[2]) = nb
        /\ NibbleSeq(common) = SubSeq(NibbleSeq(nb), 1, common.nibble_count)
        /\ common = NibblesNew(other, common.nibble_count)
        /\ common.nibble_count < n => NibbleSeq(nb)[common.nibble_count + 1]
                                        # NibbleSeq(full)[common.nibble_count + 1]

\* Database keys: a key is read back; the iterator of all_keys_for_version() meets a
\* parent before its children; the ranges that are deleted hold the keys of their
\* versions and nothing else, not even the manifest or the progress of the repair.
KeysAreOrdered(a, b) ==
    /\ from_db_key(to_db_key(a)) = Ok(a)
    /\ a.version = b.version /\ a.nibbles.nibble_count < b.nibbles.nibble_count
        => BytesLess(to_db_key(a), to_db_key(b))
    /\ InVersionRange(to_db_key(a), b.version) <=> a.version = b.version
    /\ ~InVersionRange(MANIFEST_KEY, a.version) /\ ~InVersionRange(STALE_KEYS_REPAIR_KEY, a.version)
    /\ InStaleRange(StaleNodeKey(a.version, b), b.version, b.version + 1) <=> a.version = b.version

\* A root is read back as it was written, also a root with one leaf, which is stored
\* either as a leaf or as an internal node without a mark.
RootIsReadBack(root) ==
    \A strict \in BOOLEAN : deserialize_root(serialize_root(root), strict) = Ok(root)

\* A node is read back, never from a part of its bytes, and RawNode knows what it is.
NodeIsReadBack(node) ==
    LET bytes == serialize_node(node)
        Read(s) == IF node.kind = "leaf" THEN deserialize_leaf(s, FALSE) ELSE deserialize_internal(s, FALSE)
    IN  /\ Read(bytes) = Ok(node)
        /\ node \in RawNode(bytes)
        /\ \A n \in 0..(Len(bytes) - 1) : ~IsOk(Read(SubSeq(bytes, 1, n)))

\* The manifest is read back whatever the order of its custom tags, and so is the
\* progress of the repair.
ManifestIsReadBack(manifest) ==
    /\ deserialize_repair_data(serialize_repair_data(manifest.version_count)) = Ok(manifest.version_count)
    /\ \A order \in (IF manifest.tags = NoTags THEN {<<>>} ELSE SetToSeqs(DOMAIN manifest.tags.custom)) :
            deserialize_manifest(serialize_manifest(manifest, order)) = Ok(manifest)
=============================================================================
