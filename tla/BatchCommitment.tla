--------------------------- MODULE BatchCommitment --------------------------
(***************************************************************************)
(* The commitment to a batch: the serialization of what it consists of      *)
(* (types/src/commitment/mod.rs, types/src/l2_to_l1_log.rs), as the node    *)
(* computes it, and the verifier's part                                     *)
(* (airbender_verifier/src/commitment.rs): pass-through data, blob hashes,  *)
(* the bootloader's heap and the public input of the proof.                 *)
(*                                                                         *)
(* A byte string is a sequence of fields <<width, value>>, in the order and *)
(* of the width of the code; values are tagged tuples.  Hashes are ideal.   *)
(***************************************************************************)
EXTENDS MiniMerkleTree, VmVersions, StateDiffs

CONSTANTS
    BLOB_CHUNK_SIZE,            \* 31 in the code
    ELEMENTS_PER_4844_BLOCK     \* 4096 in the code

ASSUME BlobAssumption ==
    BLOB_CHUNK_SIZE \in Nat \ {0} /\ ELEMENTS_PER_4844_BLOCK \in Nat \ {0}

ZK_SYNC_BYTES_PER_BLOB == BLOB_CHUNK_SIZE * ELEMENTS_PER_4844_BLOCK

TOTAL_BLOBS_IN_COMMITMENT == 16

ZKPORTER_IS_AVAILABLE == FALSE

Num(n) == <<"n", n>>

AsByte(b) == Num(IF b THEN 1 ELSE 0)

ZeroHash == <<"zero">>

keccak256(bytes) == <<"keccak", bytes>>

Blake2Hash(bytes) == <<"blake2", bytes>>

SizeOf(bytes) ==
    LET size[i \in 0..Len(bytes)] == IF i = 0 THEN 0 ELSE size[i - 1] + bytes[i][1]
    IN  size[Len(bytes)]

Hashes(hs) == [i \in DOMAIN hs |-> <<32, hs[i]>>]

-----------------------------------------------------------------------------
(***************************************************************************)
(* SerializeCommitment and the system logs.                                 *)
(***************************************************************************)
\* Also packed_encoding() and to_bytes().
SerializeLog(log) ==
    << <<1, Num(log.shard_id)>>, <<1, AsByte(log.is_service)>>, <<2, Num(log.tx_number_in_block)>>,
       <<20, <<"address", log.sender>>>>, <<32, Num(log.key)>>, <<32, log.value>> >>

from_slice(data) ==
    [shard_id |-> data[1][2][2], is_service |-> data[2][2] # Num(0),
     tx_number_in_block |-> data[3][2][2], sender |-> data[4][2][2], key |-> data[5][2][2],
     value |-> data[6][2]]

\* Keys are written least significant byte first.
SerializeInitialWrite(write) == << <<32, <<"le", write.key>>>>, <<32, write.value>> >>

SerializeRepeatedWrite(write) == << <<8, Num(write.index)>>, <<32, write.value>> >>

PADDED_ENCODED_STORAGE_DIFF_LEN_BYTES == 272

\* StateDiffRecord::encode_padded().
SerializeDiff(diff) ==
    LET packed == << <<20, <<"address", diff.slot>>>>, <<32, <<"key", diff.slot>>>>,
                     <<32, <<"derived", diff.slot>>>>, <<8, Num(diff.enumeration_index)>>,
                     <<32, Num(diff.initial_value)>>, <<32, Num(diff.final_value)>> >>
    IN  Append(packed, <<PADDED_ENCODED_STORAGE_DIFF_LEN_BYTES - SizeOf(packed), Num(0)>>)

serialize_commitments(values, Serialize(_)) ==
    Joined([i \in DOMAIN values |-> Serialize(values[i])])

pre_boojum_serialize_commitments(values, Serialize(_)) ==
    << <<4, Num(Len(values))>> >> \o serialize_commitments(values, Serialize)

L2_TO_L1_LOGS_TREE_ROOT_KEY == 0
STATE_DIFF_HASH_KEY_PRE_GATEWAY == 2
BLOB1_LINEAR_HASH_KEY_PRE_GATEWAY == 7

parse_system_logs_for_blob_hashes_pre_gateway(version, system_logs) ==
    LET created == SelectSeq(system_logs,
                     LAMBDA log : /\ log.sender = "PUBDATA_CHUNK_PUBLISHER"
                                  /\ log.key \in BLOB1_LINEAR_HASH_KEY_PRE_GATEWAY..
                                        (BLOB1_LINEAR_HASH_KEY_PRE_GATEWAY + num_blobs_created(version) - 1))
        sorted == SortSeq(created, LAMBDA a, b : a.key < b.key)
    IN  [i \in 1..num_blobs_required(version) |->
            IF i \in DOMAIN sorted THEN sorted[i].value ELSE ZeroHash]

\* The root of the tree of the user logs.
LogsRoot(logs, version) ==
    merkle_root(NewMiniTree([i \in DOMAIN logs |-> SerializeLog(logs[i])],
                            l2_to_l1_logs_tree_size(version)))

\* find_map() over the system logs; the value of a missing one is NoLog.
NoLog == <<"missing">>

LogValue(system_logs, key) ==
    LET found == SelectSeq(system_logs, LAMBDA log : log.key = key)
    IN  IF found = <<>> THEN NoLog ELSE found[1].value

-----------------------------------------------------------------------------
(***************************************************************************)
(* The three parts of a commitment.                                         *)
(***************************************************************************)
RootStateBytes(state) == << <<8, Num(state.last_leaf_index)>>, <<32, state.root_hash>> >>

\* L1BatchPassThroughData::to_bytes() is an error for any number of states but two.
PassThroughBytes(states) == RootStateBytes(states[1]) \o RootStateBytes(states[2])

\* The state of the rollup and that of zkPorter, which is zero.
SharedStates(index, root) ==
    << [last_leaf_index |-> index, root_hash |-> root], [last_leaf_index |-> 0, root_hash |-> ZeroHash] >>

compute_pass_through_data_hash(index, root) == keccak256(PassThroughBytes(SharedStates(index, root)))

NoCode == <<"none">>

\* L1BatchMetaParameters::to_bytes(); a chain without an emulator has its default account's
\* hash in its place.
MetaBytes(meta) ==
    << <<1, AsByte(meta.zkporter_is_available)>>, <<32, meta.bootloader_code_hash>>,
       <<32, meta.default_aa_code_hash>> >>
    \o IF ~is_post_1_5_0(meta.protocol_version) THEN <<>>
       ELSE << <<32, IF meta.evm_emulator_code_hash = NoCode THEN meta.default_aa_code_hash
                     ELSE meta.evm_emulator_code_hash>> >>

MetaHash(meta) == keccak256(MetaBytes(meta))

BlobBytes(blob_hashes) ==
    Joined([i \in DOMAIN blob_hashes |->
                    Hashes(<<blob_hashes[i].linear_hash, blob_hashes[i].commitment>>)])

\* L1BatchAuxiliaryOutput::to_bytes().
AuxBytes(aux) ==
    IF aux.kind = "PreBoojum"
    THEN Hashes(<<aux.l2_l1_logs_merkle_root, aux.l2_l1_logs_linear_hash,
                  aux.initial_writes_hash, aux.repeated_writes_hash>>)
    ELSE Hashes(<<aux.system_logs_linear_hash, aux.state_diffs_hash,
                  aux.bootloader_initial_content_commitment, aux.events_queue_commitment>>)
         \o BlobBytes(aux.blob_hashes)

AuxHash(aux) == keccak256(AuxBytes(aux))

compute_commitment(pass_through_data_hash, metadata_hash, auxiliary_output_hash) ==
    keccak256(Hashes(<<pass_through_data_hash, metadata_hash, auxiliary_output_hash>>))

\* L1BatchCommitment::hash().
CommitmentHash(states, meta, aux) ==
    [pass_through_data |-> keccak256(PassThroughBytes(states)), meta_parameters |-> MetaHash(meta),
     aux_output |-> AuxHash(aux),
     commitment |-> compute_commitment(keccak256(PassThroughBytes(states)), MetaHash(meta), AuxHash(aux))]

-----------------------------------------------------------------------------
(***************************************************************************)
(* L1BatchCommitment::new(), with which the node commits to a batch.        *)
(***************************************************************************)
PreBoojumOutput(input) ==
    LET Sum(values, Serialize(_)) == keccak256(pre_boojum_serialize_commitments(values, Serialize))
    IN  [outcome |-> "ok", kind |-> "PreBoojum",
         l2_l1_logs_merkle_root |-> LogsRoot(input.l2_to_l1_logs, input.protocol_version),
         l2_l1_logs_linear_hash |-> Sum(input.l2_to_l1_logs, SerializeLog),
         initial_writes_hash |-> Sum(input.initial_writes, SerializeInitialWrite),
         repeated_writes_hash |-> Sum(input.repeated_writes, SerializeRepeatedWrite)]

\* The logs of the batch have to say what the node computes: "ok", "error" or "panic".
SanityChecks(input, logs_root, state_diffs_hash) ==
    LET pre_gateway == is_pre_gateway(input.protocol_version)
        diff_hash == LogValue(input.system_logs, STATE_DIFF_HASH_KEY_PRE_GATEWAY)
        root == LogValue(input.system_logs, L2_TO_L1_LOGS_TREE_ROOT_KEY)
        linear == [i \in DOMAIN input.blob_hashes |-> input.blob_hashes[i].linear_hash]
    IN  CASE pre_gateway /\ diff_hash = NoLog -> "panic"
          [] pre_gateway /\ diff_hash # NoLog
                /\ \/ diff_hash # state_diffs_hash
                   \/ linear # parse_system_logs_for_blob_hashes_pre_gateway(input.protocol_version, input.system_logs)
                -> "error"
          [] OTHER -> IF root = NoLog THEN "panic" ELSE IF root # logs_root THEN "error" ELSE "ok"

PostBoojumOutput(input, disable_sanity_checks) ==
    LET local_root == LogsRoot(input.l2_to_l1_logs, input.protocol_version)
        logs_root == IF is_pre_gateway(input.protocol_version) THEN local_root
                     ELSE compress_hashes(local_root, input.aggregation_root)
        state_diffs_hash == keccak256(serialize_commitments(input.state_diffs, SerializeDiff))
    IN  [outcome |-> IF input.system_logs = <<>> \/ disable_sanity_checks THEN "ok"
                     ELSE SanityChecks(input, logs_root, state_diffs_hash),
         kind |-> "PostBoojum", l2_l1_logs_merkle_root |-> logs_root, local_root |-> local_root,
         system_logs_linear_hash |-> keccak256(serialize_commitments(input.system_logs, SerializeLog)),
         state_diffs_hash |-> state_diffs_hash,
         state_diffs_compressed |-> compress_state_diffs(input.state_diffs),
         bootloader_initial_content_commitment |-> input.bootloader_initial_content_commitment,
         events_queue_commitment |-> input.events_queue_commitment,
         blob_hashes |-> input.blob_hashes, aggregation_root |-> input.aggregation_root]

AuxOutput(input, disable_sanity_checks) ==
    IF input.kind = "PreBoojum" THEN PreBoojumOutput(input)
    ELSE PostBoojumOutput(input, disable_sanity_checks)

NodeMeta(input) ==
    [zkporter_is_available |-> ZKPORTER_IS_AVAILABLE, bootloader_code_hash |-> input.bootloader_code_hash,
     default_aa_code_hash |-> input.default_aa_code_hash,
     evm_emulator_code_hash |-> input.evm_emulator_code_hash, protocol_version |-> input.protocol_version]

\* L1BatchCommitment::new(): the outcome and, if it is "ok", the hashes.
NodeCommitment(input, disable_sanity_checks) ==
    LET aux == AuxOutput(input, disable_sanity_checks)
    IN  [outcome |-> aux.outcome,
         hash |-> CommitmentHash(SharedStates(input.rollup_last_leaf_index, input.rollup_root_hash),
                                 NodeMeta(input), aux)]

DefaultBlob == [linear_hash |-> ZeroHash, commitment |-> ZeroHash]

for_genesis_batch(root, index, bootloader, default_aa, evm_emulator, version) ==
    [kind |-> IF is_pre_boojum(version) THEN "PreBoojum" ELSE "PostBoojum", l2_to_l1_logs |-> <<>>,
     rollup_last_leaf_index |-> index, rollup_root_hash |-> root,
     bootloader_code_hash |-> bootloader, default_aa_code_hash |-> default_aa,
     evm_emulator_code_hash |-> evm_emulator, protocol_version |-> version,
     initial_writes |-> <<>>, repeated_writes |-> <<>>, system_logs |-> <<>>, state_diffs |-> <<>>,
     events_queue_commitment |-> ZeroHash, bootloader_initial_content_commitment |-> ZeroHash,
     blob_hashes |-> [i \in 1..num_blobs_required(version) |-> DefaultBlob],
     aggregation_root |-> ZeroHash]

-----------------------------------------------------------------------------
(***************************************************************************)
(* L1BatchWithMetadata.                                                     *)
(***************************************************************************)

Counted(items, Serialize(_)) ==
    << <<4, Num(Len(items))>> >> \o Joined([i \in DOMAIN items |-> Serialize(items[i])])

\* A length and that many bytes.
Prefixed(bytes) == << <<4, Num(Len(bytes))>>, <<Len(bytes), <<"bytes", bytes>>>> >>

construct_pubdata(logs, messages, bytecodes, state_diffs_compressed) ==
    Counted(logs, SerializeLog) \o Counted(messages, Prefixed) \o Counted(bytecodes, Prefixed)
        \o << <<Len(state_diffs_compressed), <<"diffs", state_diffs_compressed>>>> >>

-----------------------------------------------------------------------------
(***************************************************************************)
(* The verifier's side: blobs, heap and public input.  Pubdata is a         *)
(* sequence of bytes, fields of width one.                                  *)
(***************************************************************************)
NumBlobs(pubdata) == (Len(pubdata) + ZK_SYNC_BYTES_PER_BLOB - 1) \div ZK_SYNC_BYTES_PER_BLOB

\* Blob i, from zero, padded with zeros; i is below the number of blobs.
padded_blob_for(pubdata, i) ==
    [j \in 1..ZK_SYNC_BYTES_PER_BLOB |->
        LET at == i * ZK_SYNC_BYTES_PER_BLOB + j
        IN  IF at <= Len(pubdata) THEN pubdata[at] ELSE <<1, Num(0)>>]

compute_blob_linear_hashes(pubdata) ==
    [i \in 1..TOTAL_BLOBS_IN_COMMITMENT |->
        IF i <= NumBlobs(pubdata) THEN keccak256(padded_blob_for(pubdata, i - 1)) ELSE ZeroHash]

\* The polynomial of the blob's chunks at a point of 16 bytes, and the hash of both.
compute_blob_opening_commitment(blob, versioned_hash, linear_hash) ==
    LET point == <<"low half", keccak256(Hashes(<<linear_hash, versioned_hash>>))>>
        coefficients == [i \in 1..(Len(blob) \div BLOB_CHUNK_SIZE) |->
                            SubSeq(blob, (i - 1) * BLOB_CHUNK_SIZE + 1, i * BLOB_CHUNK_SIZE)]
    IN  keccak256(<< <<32, versioned_hash>>, <<16, point>>, <<32, <<"value", coefficients, point>>>> >>)

\* One slot; a slot that claims no blob is empty whatever the pubdata is.
BlobIsValid(pubdata, i, blob_hash, versioned_hash) ==
    IF blob_hash.linear_hash = ZeroHash THEN blob_hash.commitment = ZeroHash
    ELSE /\ i < NumBlobs(pubdata)
         /\ blob_hash.linear_hash = keccak256(padded_blob_for(pubdata, i))
         /\ blob_hash.commitment =
              compute_blob_opening_commitment(padded_blob_for(pubdata, i), versioned_hash, blob_hash.linear_hash)

verify_blob_hashes(pubdata, versioned_hashes, blob_hashes) ==
    /\ Len(versioned_hashes) = Len(blob_hashes)
    /\ \A i \in DOMAIN blob_hashes : BlobIsValid(pubdata, i - 1, blob_hashes[i], versioned_hashes[i])

\* Entries are <<offset, value>>; a later one overwrites an earlier one, and one that does
\* not fit panics.
HeapFits(entries, words) == \A i \in DOMAIN entries : entries[i][1] < words

expand_bootloader_heap(entries, words) ==
    LET at(w) == {i \in DOMAIN entries : entries[i][1] = w}
    IN  [w \in 1..words |->
            <<32, IF at(w - 1) = {} THEN Num(0)
                  ELSE entries[CHOOSE i \in at(w - 1) : \A j \in at(w - 1) : j <= i][2]>>]

\* The 32 bytes of a digest, most significant first; a u32 is the sequence of its four
\* bytes, least significant first.
DigestBytes(hash) == [i \in 1..32 |-> <<"byte", hash, i>>]

bytes32_to_u32x8(hash) == [w \in 1..8 |-> [b \in 1..4 |-> DigestBytes(hash)[4 * (w - 1) + b]]]

compute_proof_public_input(prev_batch_commitment, current_commitment) ==
    bytes32_to_u32x8(keccak256(Hashes(<<prev_batch_commitment, current_commitment>>)))

\* The wrapper of the proof makes its public input from the bytes of seven words, in the
\* little-endian order of the machine; L1 expects the digest without its last four bytes.
WrapperPublicInput(words) == [i \in 1..28 |-> words[((i - 1) \div 4) + 1][((i - 1) % 4) + 1]]

L1PublicInput(prev_batch_commitment, current_commitment) ==
    [i \in 1..28 |-> DigestBytes(keccak256(Hashes(<<prev_batch_commitment, current_commitment>>)))[i]]
=============================================================================
