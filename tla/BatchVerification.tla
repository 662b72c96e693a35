-------------------------- MODULE BatchVerification -------------------------
(***************************************************************************)
(* A chain of batches and their verifier (airbender_verifier/src/lib.rs).   *)
(* The node executes a batch on the tree and sends the verifier its input,  *)
(* in which up to MaxDeviations fields are not what they should be.  The    *)
(* verifier runs execute() and verify_commitment(); L1 settles a batch if   *)
(* the public input of the proof is the one it expects, and the next batch  *)
(* follows.                                                                 *)
(*                                                                         *)
(* The VM is a function of its input: its program is in the transactions,   *)
(* and any other code, mode or limit makes it write other values.           *)
(***************************************************************************)
EXTENDS WitnessPaths, BatchCommitment, Bytecodes

CONSTANTS
    GenesisTree,        \* the tree that the chain starts from
    BatchPrograms,      \* programs of the batches; every one leaves a storage log
    HeapWords,          \* get_used_bootloader_memory_bytes() / 32
    MaxBatches,         \* bound: batches of the chain
    MaxDeviations       \* bound: fields of an input that are changed

ASSUME BatchVerificationAssumption ==
    /\ MaxBatches \in Nat /\ MaxDeviations \in Nat
    /\ HeapWords \in Nat /\ HeapWords > 2      \* as many as HeapOf() uses, at least

VARIABLES
    phase,
    chain,          \* the tree, what L1 has stored, and the two hashes of its last batch
    input,          \* AirbenderVerifierInput, with its records flattened
    deviations,     \* the fields that were changed
    view,           \* storage view
    vm,             \* output of the VM
    tree,           \* result of the tree check
    result          \* VerificationResult

vars == <<phase, chain, input, deviations, view, vm, tree, result>>

locals == <<view, vm, tree, result>>

Nothing == <<>>

-----------------------------------------------------------------------------
(***************************************************************************)
(* Codes, the environment and the VM.                                       *)
(***************************************************************************)
BootloaderCode == [i \in 1..CodeWordLen |-> 0]
AccountCode == [i \in 1..CodeWordLen |-> 1]
EmulatorCode == [i \in 1..CodeWordLen |-> IF i = 1 THEN 1 ELSE 0]
UserCode == [i \in 1..(3 * CodeWordLen) |-> 1]
OtherCode == [i \in 1..(3 * CodeWordLen) |-> 0]
EvenCode == [i \in 1..(2 * CodeWordLen) |-> 0]

Contract(code) == [hash |-> for_bytecode(code), code |-> code]

NoContract == [hash |-> NoCode, code |-> <<>>]

UserHash == for_bytecode(UserCode)

ProgramOf(blocks) ==
    Joined([i \in 1..(Len(blocks) - 1) |-> blocks[i].txs])

\* Storage operations; "halt" halts a transaction, "tip_halt" and "late_tip_halt" the end of the
\* batch, before and after the bootloader has asked for its pubdata.
IsStorageOp(op) == op.kind \in {"read", "write", "rolled_back"}

StorageOps(program) == SelectSeq(program, IsStorageOp)

\* Does the VM run what the chain has agreed on?
IsCanonical(in, emulator) ==
    /\ in.bootloader.code = BootloaderCode
    /\ in.default_aa.code = AccountCode
    /\ in.evm_emulator.code = emulator.code
    /\ in.version = latest
    /\ in.execution_mode = "VerifyExecute"
    /\ in.validation_gas_limit = "u32::MAX"
    /\ ~in.enforced_base_fee
    /\ UserHash \in DOMAIN in.used_bytecodes => in.used_bytecodes[UserHash] = UserCode

ExecutedProgram(in, emulator) ==
    LET ops == StorageOps(ProgramOf(in.blocks))
    IN  IF IsCanonical(in, emulator) THEN ops
        ELSE [i \in DOMAIN ops |-> [ops[i] EXCEPT !.value = 3 - @]]

\* The position of a key in the order of slots.
SlotOf(key) == key[1] * SUBTREE_COUNT + key[2]

StateDiffsOf(state, logs) ==
    LET writes == SelectSeq(logs, LAMBDA log : log.is_write)
    IN  [i \in DOMAIN writes |->
            [slot |-> SlotOf(writes[i].key), enumeration_index |-> state[writes[i].key][1],
             initial_value |-> state[writes[i].key][2], final_value |-> writes[i].value]]

RootLog ==
    [shard_id |-> 0, is_service |-> TRUE, tx_number_in_block |-> 0, sender |-> "L1_MESSENGER",
     key |-> L2_TO_L1_LOGS_TREE_ROOT_KEY,
     value |-> compress_hashes(LogsRoot(<<>>, latest), ZeroHash)]

\* A byte of header and one for every difference.
PubdataOf(diffs) ==
    << <<1, Num(1)>> >> \o [i \in DOMAIN diffs |-> <<1, Num(diffs[i].final_value)>>]

\* The first block of the VM is the environment's, the others are those of the input.
BlockEnv(in, i) == IF i = 1 THEN in.first_l2_block ELSE in.blocks[i].meta

HeapOf(in) ==
    << <<0, Num(in.number)>>,
       <<1, <<"blocks", [i \in 1..Max({1, Len(in.blocks)}) |-> BlockEnv(in, i)]>>>>,
       <<2, <<"txs", ProgramOf(in.blocks)>>>> >>

l2_block_hash(block, txs) == <<"l2_block", block, txs>>

\* Of the newest version, in which blocks may have the same timestamp.
assert_next_block(block, txs, next) ==
    /\ block.number # 0 => next.number = block.number + 1
    /\ block.timestamp <= next.timestamp
    /\ next.prev_block_hash = l2_block_hash(block, txs)

\* How steps in a row end: "ok", or as the first that is not, an "error" or a "panic".
FirstFailure(steps) ==
    IF \A i \in DOMAIN steps : steps[i] = "ok" THEN "ok"
    ELSE IF \E i \in DOMAIN steps : steps[i] = "panic" /\ \A j \in 1..(i - 1) : steps[j] = "ok" THEN "panic"
    ELSE "error"

\* A slot or a bytecode that is not
\* there is a panic, a transaction that halts an error.
execute_tx(in, state, tx) ==
    IF UserHash \notin DOMAIN in.used_bytecodes \/ (IsStorageOp(tx) /\ tx.key \notin DOMAIN state) THEN "panic"
    ELSE IF tx.kind = "halt" THEN "error" ELSE "ok"

start_new_l2_block(in, i) ==
    IF in.blocks[i].txs # <<>> /\ assert_next_block(BlockEnv(in, i), in.blocks[i].txs, in.blocks[i + 1].meta)
    THEN "ok" ELSE "panic"

\* What is wanted of the pubdata must be there; a halt after that is an error.
finish_batch(in) ==
    LET Ends(kind) == \E i \in 1..(Len(in.blocks) - 1) : \E j \in DOMAIN in.blocks[i].txs :
                        in.blocks[i].txs[j].kind = kind
    IN  IF Ends("tip_halt") \/ is_pre_medium_interop(in.version) # (in.validator = "Address") THEN "panic"
        ELSE IF Ends("late_tip_halt") THEN "error" ELSE "ok"

\* The transactions of a block, and the start of the next one.
execute_block(in, state, i) ==
    LET txs == in.blocks[i].txs
        executed == FirstFailure([j \in DOMAIN txs |-> execute_tx(in, state, txs[j])])
    IN  IF executed # "ok" THEN executed ELSE start_new_l2_block(in, i)

execute_vm(in, state) ==
    LET executed == FirstFailure([i \in 1..(Len(in.blocks) - 1) |-> execute_block(in, state, i)])
    IN  IF executed # "ok" THEN executed ELSE finish_batch(in)

VmRun(in, emulator, state) ==
    LET logs == sort_storage_access_queries(state, ExecutedProgram(in, emulator))
        diffs == StateDiffsOf(state, logs)
    IN  IF execute_vm(in, state) # "ok" THEN [outcome |-> execute_vm(in, state)]
        ELSE [outcome |-> "ok", logs |-> logs, system_logs |-> <<RootLog>>, state_diffs |-> diffs,
              pubdata |-> PubdataOf(diffs), heap |-> HeapOf(in)]

-----------------------------------------------------------------------------
(***************************************************************************)
(* The node and L1.                                                         *)
(***************************************************************************)
VersionedHash(i) == <<"versioned", i>>

NodeMerklePaths(contents, program) ==
    LET instructions == InstructionsOf(contents, program)
        out == extend_with_proofs(Load(contents, 1, KeysOf(instructions)), 1,
                                  Cardinality(DOMAIN contents), instructions)
    IN  WitnessOf(out.logs, instructions)

BlobHashesOf(pubdata) ==
    [i \in 1..TOTAL_BLOBS_IN_COMMITMENT |->
        IF i > NumBlobs(pubdata) THEN DefaultBlob
        ELSE LET linear_hash == compute_blob_linear_hashes(pubdata)[i]
             IN  [linear_hash |-> linear_hash,
                  commitment |-> compute_blob_opening_commitment(padded_blob_for(pubdata, i - 1), VersionedHash(i),
                                                                 linear_hash)]]

FirstBlock == [number |-> 1, timestamp |-> 1, prev_block_hash |-> ZeroHash]

\* Two blocks, the second after the first.
Linked(first, txs) ==
    << [meta |-> first, txs |-> txs],
       [meta |-> [number |-> 2, timestamp |-> 2, prev_block_hash |-> l2_block_hash(first, txs)], txs |-> <<>>] >>

\* The input without what the commitment needs.
ExecutionInput(program) ==
    LET contents == chain.contents
    IN  [merkle_paths |-> NodeMerklePaths(contents, program),
         next_enumeration_index |-> Cardinality(DOMAIN contents) + 1,
         previous_batch_hash |-> RootHash(contents),
         number |-> chain.number, run_number |-> chain.number,
         version |-> latest, run_version |-> latest,
         enforced_base_fee |-> FALSE, validator |-> "CommitmentScheme",
         execution_mode |-> "VerifyExecute", validation_gas_limit |-> "u32::MAX",
         first_l2_block |-> FirstBlock, blocks |-> Linked(FirstBlock, program),
         bootloader |-> Contract(BootloaderCode), default_aa |-> Contract(AccountCode),
         evm_emulator |-> chain.emulator,
         run_bootloader_code |-> BootloaderCode, run_default_aa |-> for_bytecode(AccountCode),
         run_evm_emulator |-> chain.emulator.hash,
         declared |-> KeysOf(program),
         used_bytecodes |-> (UserHash :> UserCode),
         zk_porter |-> FALSE]

\* The chain's own view of the slots of a program.
TrueView(contents, keys) == [k \in keys |-> LeafAt(contents, k)]

CommitmentInputOf(in) ==
    LET run == VmRun(in, chain.emulator, TrueView(chain.contents, in.declared))
    IN  [given |-> TRUE, prev_batch_commitment |-> chain.stored,
         prev_meta_hash |-> chain.meta_hash, prev_aux_hash |-> chain.aux_hash,
         blob_hashes |-> BlobHashesOf(run.pubdata),
         versioned_hashes |-> [i \in 1..TOTAL_BLOBS_IN_COMMITMENT |-> VersionedHash(i)]]

\* L1 knows the chain's code hashes; without an emulator, its hash is zero.
L1Meta ==
    [zkporter_is_available |-> ZKPORTER_IS_AVAILABLE, bootloader_code_hash |-> for_bytecode(BootloaderCode),
     default_aa_code_hash |-> for_bytecode(AccountCode),
     evm_emulator_code_hash |-> IF chain.emulator = NoContract THEN ZeroHash ELSE chain.emulator.hash,
     protocol_version |-> latest]

ProduceBatch ==
    /\ phase = "idle"
    /\ chain.number <= MaxBatches
    /\ \E program \in BatchPrograms : \E in \in {ExecutionInput(program)} :
        input' = [commitment_input |-> CommitmentInputOf(in)] @@ in
    /\ phase' = "received"
    /\ deviations' = {}
    /\ UNCHANGED <<chain, locals>>

\* The values that a field of the input may have instead.
Codes(code) ==
    {[hash |-> for_bytecode(OtherCode), code |-> OtherCode], [hash |-> for_bytecode(code), code |-> OtherCode],
     [hash |-> for_bytecode(code), code |-> EvenCode],
     [hash |-> CodeHash("Unknown", 1, code), code |-> code]}

\* Of the number that may be followed by any and as late as the next block, or later than it.
FirstBlocks ==
    {[FirstBlock EXCEPT !.number = 0, !.timestamp = 2], [FirstBlock EXCEPT !.timestamp = 3]}

Alternatives(field) ==
    LET ci == input.commitment_input
        txs == input.blocks[1].txs
        Ending(kind) == Append(txs, [kind |-> kind, key |-> <<0, 0>>, value |-> 0])
    IN  CASE field = "merkle_paths" ->
                {<<>>, Tail(input.merkle_paths), [input.merkle_paths EXCEPT ![1].value_read = 3 - @],
                 [input.merkle_paths EXCEPT ![1].path = EmptySiblings(TREE_DEPTH + 1)]}
          [] field = "next_enumeration_index" -> {input.next_enumeration_index + 1}
          [] field = "previous_batch_hash" -> {Nothing, RootHash(<<0, 0>> :> <<1, 2>>)}
          [] field \in {"number", "run_number"} -> {input.number + 1}
          [] field \in {"version", "run_version"} -> {latest - 1, last_potentially_undefined}
          [] field \in {"enforced_base_fee", "zk_porter"} -> {TRUE}
          [] field = "validator" -> {"Address"}
          [] field = "execution_mode" -> {"EthCall", "EstimateFee"}
          [] field = "validation_gas_limit" -> {"300_000"}
          [] field = "first_l2_block" -> FirstBlocks
          [] field = "blocks" ->
                {Linked(first, txs) : first \in FirstBlocks}
                    \cup {Linked(FirstBlock, other) :
                            other \in {Tail(txs), Ending("halt"), Ending("tip_halt"), Ending("late_tip_halt")}}
                    \cup {<<>>, [input.blocks EXCEPT ![1].txs = Ending("read")], [input.blocks EXCEPT ![2].txs = txs],
                          [input.blocks EXCEPT ![2].meta.number = 3]}
          [] field = "bootloader" -> Codes(BootloaderCode)
          [] field = "default_aa" -> Codes(AccountCode)
          [] field = "evm_emulator" -> {NoContract, Contract(OtherCode)}
          [] field = "run_bootloader_code" -> {OtherCode}
          [] field \in {"run_default_aa", "run_evm_emulator"} -> {for_bytecode(OtherCode)}
          [] field = "declared" -> {{}, input.declared \cup {<<3, 3>>}}
          [] field = "used_bytecodes" -> {UserHash :> OtherCode, UserHash :> EvenCode,
                                          for_bytecode(OtherCode) :> OtherCode}
          [] field = "commitment_input" ->
                {[ci EXCEPT !.given = FALSE], [ci EXCEPT !.prev_batch_commitment = ZeroHash],
                 [ci EXCEPT !.prev_meta_hash = MetaHash(L1Meta)], [ci EXCEPT !.prev_aux_hash = ZeroHash],
                 [ci EXCEPT !.blob_hashes = [i \in DOMAIN @ |-> DefaultBlob]],
                 [ci EXCEPT !.blob_hashes[1] = ci.blob_hashes[2], !.blob_hashes[2] = ci.blob_hashes[1]],
                 [ci EXCEPT !.blob_hashes[3].commitment = ci.blob_hashes[1].commitment],
                 [ci EXCEPT !.blob_hashes[3] = ci.blob_hashes[1]],
                 [ci EXCEPT !.versioned_hashes[1] = VersionedHash(2)],
                 [ci EXCEPT !.versioned_hashes = Tail(@)],
                 [ci EXCEPT !.blob_hashes = Tail(@), !.versioned_hashes = Tail(@)]}

Fields ==
    <<"merkle_paths", "next_enumeration_index", "previous_batch_hash", "number", "run_number", "version",
      "run_version", "enforced_base_fee", "validator", "execution_mode", "validation_gas_limit",
      "first_l2_block", "blocks", "bootloader", "default_aa", "evm_emulator", "run_bootloader_code",
      "run_default_aa", "run_evm_emulator", "declared", "used_bytecodes", "zk_porter", "commitment_input">>

Deviate(f) ==
    /\ phase = "received"
    /\ Cardinality(deviations) < MaxDeviations
    /\ \A g \in deviations : g < f
    /\ \E value \in Alternatives(Fields[f]) :
        /\ value # input[Fields[f]]
        /\ input' = [input EXCEPT ![Fields[f]] = value]
    /\ deviations' = deviations \cup {f}
    /\ UNCHANGED <<phase, chain, locals>>

-----------------------------------------------------------------------------
(***************************************************************************)
(* execute(), in the order of the code.                                     *)
(***************************************************************************)
\* verify() takes the commitment's input first; normalize_stored_paths() comes next.
Begin ==
    /\ phase = "received"
    /\ IF input.commitment_input.given /\ CanNormalize(input.merkle_paths)
       THEN /\ input' = [input EXCEPT !.merkle_paths = normalize_stored_paths(@)]
            /\ phase' = "normalized"
       ELSE /\ phase' = "rejected"
            /\ UNCHANGED input
    /\ UNCHANGED <<chain, deviations, locals>>

\* Variant: the shape of the validator is not looked at.
EnvironmentIsPinned_AnyShape(in) ==
    /\ in.version = latest
    /\ is_supported_by_fast_vm(in.version)
    /\ in.previous_batch_hash # Nothing
    /\ ~in.enforced_base_fee
    /\ in.run_number = in.number
    /\ in.run_version = in.version
    /\ in.execution_mode = "VerifyExecute"
    /\ in.validation_gas_limit = "u32::MAX"

\* What no commitment binds is pinned, and copies agree with the environment.
EnvironmentIsPinned(in) ==
    /\ in.version = latest
    /\ is_supported_by_fast_vm(in.version)
    /\ in.previous_batch_hash # Nothing
    /\ ~in.enforced_base_fee
    /\ in.run_number = in.number
    /\ in.run_version = in.version
    /\ is_pre_medium_interop(in.version) = (in.validator = "Address")
    /\ in.execution_mode = "VerifyExecute"
    /\ in.validation_gas_limit = "u32::MAX"

FirstBlockAgrees(in) == in.blocks # <<>> => in.blocks[1].meta = in.first_l2_block

CheckEnvironment ==
    /\ phase = "normalized"
    /\ phase' = IF EnvironmentIsPinned(input) /\ FirstBlockAgrees(input) THEN "pinned" ELSE "rejected"
    /\ UNCHANGED <<chain, input, deviations, locals>>

BaseContracts(in) ==
    <<in.bootloader, in.default_aa>> \o IF in.evm_emulator = NoContract THEN <<>> ELSE <<in.evm_emulator>>

CopiesAgree(in) ==
    /\ in.run_default_aa = in.default_aa.hash
    /\ in.run_evm_emulator = in.evm_emulator.hash
    /\ in.run_bootloader_code = in.bootloader.code

CheckBytecodes ==
    /\ phase = "pinned"
    /\ LET base == BaseContracts(input)
           outcome == FirstFailure([i \in DOMAIN base |-> verify_bytecode_hash(base[i].hash, base[i].code)])
       IN  phase' = CASE outcome = "panic" -> "panicked"
                      [] outcome = "error" -> "rejected"
                      [] OTHER -> IF CopiesAgree(input) THEN "loaded" ELSE "rejected"
    /\ UNCHANGED <<chain, input, deviations, locals>>

\* used_bytecodes is a hash map: with several bytecodes that fail, any of them may be the
\* one that is met first.
UsedBytecodesChecked(codes) ==
    LET outcomes == {verify_bytecode_hash(hash, codes[hash]) : hash \in DOMAIN codes}
    IN  IF outcomes \subseteq {"ok"} THEN {"ok"} ELSE outcomes \ {"ok"}

\* The declared slots that have no path are empty ones.
ViewOf(in) ==
    LET witnessed == WitnessedView(in.merkle_paths)
    IN  [k \in in.declared \cup DOMAIN witnessed |-> IF k \in DOMAIN witnessed THEN witnessed[k] ELSE EmptyLeaf]

\* The view and the bytecodes of the users' contracts.
BuildView ==
    /\ phase = "loaded"
    /\ \E outcome \in UsedBytecodesChecked(input.used_bytecodes) :
         phase' = CASE ~ViewIsBuilt(input.merkle_paths) -> "rejected"
                    [] ViewIsBuilt(input.merkle_paths) /\ outcome = "panic" -> "panicked"
                    [] ViewIsBuilt(input.merkle_paths) /\ outcome = "error" -> "rejected"
                    [] OTHER -> "viewed"
    /\ view' = IF phase' = "viewed" THEN ViewOf(input) ELSE view
    /\ UNCHANGED <<chain, input, deviations, vm, tree, result>>

\* The transactions of the last block are never executed: there must be none.
RunVm ==
    /\ phase = "viewed"
    /\ \E run \in {VmRun(input, chain.emulator, view)} :
        IF input.blocks # <<>> /\ LastOf(input.blocks).txs # <<>>
        THEN phase' = "rejected" /\ UNCHANGED vm
        ELSE /\ vm' = run
             /\ phase' = CASE run.outcome = "ok" -> "executed"
                           [] run.outcome = "error" -> "rejected"
                           [] run.outcome = "panic" -> "panicked"
    /\ UNCHANGED <<chain, input, deviations, view, tree, result>>

CheckTree ==
    /\ phase = "executed"
    /\ tree' = verify_paths_and_new_root(input.merkle_paths, vm.logs, input.previous_batch_hash,
                                         input.next_enumeration_index)
    /\ phase' = CASE ~tree'.ok -> "rejected"
                  [] tree'.ok /\ ~HeapFits(vm.heap, HeapWords) -> "panicked"
                  [] OTHER -> "proved"
    /\ UNCHANGED <<chain, input, deviations, view, vm, result>>

-----------------------------------------------------------------------------
(***************************************************************************)
(* verify_commitment().                                                     *)
(***************************************************************************)
\* Variant: the previous commitment is not opened.
PreviousIsBound_NotOpened(in) == TRUE

\* The previous commitment opens to the root and the index that the tree check started from.
PreviousIsBound(in) ==
    in.commitment_input.prev_batch_commitment =
        compute_commitment(compute_pass_through_data_hash(in.next_enumeration_index, in.previous_batch_hash),
                           in.commitment_input.prev_meta_hash, in.commitment_input.prev_aux_hash)

CommitmentInputIsValid(in, pubdata) ==
    /\ in.zk_porter = ZKPORTER_IS_AVAILABLE
    /\ PreviousIsBound(in)
    /\ verify_blob_hashes(pubdata, in.commitment_input.versioned_hashes, in.commitment_input.blob_hashes)
    /\ Len(in.commitment_input.blob_hashes) = TOTAL_BLOBS_IN_COMMITMENT

\* An explicit zero for a chain without an emulator.
MetaOf(in) ==
    [zkporter_is_available |-> in.zk_porter, bootloader_code_hash |-> in.bootloader.hash,
     default_aa_code_hash |-> in.default_aa.hash,
     evm_emulator_code_hash |-> IF in.evm_emulator = NoContract THEN ZeroHash ELSE in.evm_emulator.hash,
     protocol_version |-> in.version]

\* Variant: the heap's hash is that of the entries alone.
AuxOf_SparseHeap(in, run) ==
    [kind |-> "PostBoojum",
     system_logs_linear_hash |-> keccak256(serialize_commitments(run.system_logs, SerializeLog)),
     state_diffs_hash |-> keccak256(serialize_commitments(run.state_diffs, SerializeDiff)),
     bootloader_initial_content_commitment |-> Blake2Hash(expand_bootloader_heap(run.heap, Len(run.heap))),
     events_queue_commitment |-> ZeroHash, blob_hashes |-> in.commitment_input.blob_hashes]

AuxOf(in, run) ==
    [kind |-> "PostBoojum",
     system_logs_linear_hash |-> keccak256(serialize_commitments(run.system_logs, SerializeLog)),
     state_diffs_hash |-> keccak256(serialize_commitments(run.state_diffs, SerializeDiff)),
     bootloader_initial_content_commitment |-> Blake2Hash(expand_bootloader_heap(run.heap, HeapWords)),
     events_queue_commitment |-> ZeroHash, blob_hashes |-> in.commitment_input.blob_hashes]

VerifyCommitment ==
    /\ phase = "proved"
    /\ IF CommitmentInputIsValid(input, vm.pubdata)
       THEN /\ \E hashes \in {CommitmentHash(SharedStates(tree.index, tree.root), MetaOf(input), AuxOf(input, vm))} :
                 result' = [hashes |-> hashes,
                            proof_public_input |->
                                compute_proof_public_input(input.commitment_input.prev_batch_commitment,
                                                           hashes.commitment)]
            /\ phase' = "accepted"
       ELSE phase' = "rejected" /\ UNCHANGED result
    /\ UNCHANGED <<chain, input, deviations, view, vm, tree>>

\* What L1 expects, with the batch's own root and auxiliary output and its meta parameters.
L1Commitment ==
    compute_commitment(result.hashes.pass_through_data, MetaHash(L1Meta), result.hashes.aux_output)

Settle ==
    /\ phase = "accepted"
    /\ IF WrapperPublicInput(result.proof_public_input) = L1PublicInput(chain.stored, L1Commitment)
       THEN /\ chain' = [chain EXCEPT !.contents = After(@, StorageOps(ProgramOf(input.blocks))),
                                      !.stored = L1Commitment, !.meta_hash = MetaHash(L1Meta),
                                      !.aux_hash = result.hashes.aux_output, !.number = @ + 1]
            /\ phase' = "settled"
       ELSE phase' = "refused" /\ UNCHANGED chain
    /\ UNCHANGED <<input, deviations, locals>>

\* After the verdict, the next batch, or the same one again.
NextBatch ==
    /\ phase \in {"settled", "refused", "rejected", "panicked"}
    /\ phase' = "idle"
    /\ input' = Nothing
    /\ deviations' = {}
    /\ view' = Nothing /\ vm' = Nothing /\ tree' = Nothing /\ result' = Nothing
    /\ UNCHANGED chain

Genesis(emulator) ==
    NodeCommitment(for_genesis_batch(RootHash(GenesisTree), Cardinality(DOMAIN GenesisTree) + 1,
                                     for_bytecode(BootloaderCode), for_bytecode(AccountCode),
                                     emulator.hash, latest), FALSE).hash

Init ==
    /\ phase = "idle"
    /\ \E emulator \in {NoContract, Contract(EmulatorCode)} : \E genesis \in {Genesis(emulator)} :
         chain = [contents |-> GenesisTree, emulator |-> emulator, number |-> 1,
                  stored |-> genesis.commitment, meta_hash |-> genesis.meta_parameters,
                  aux_hash |-> genesis.aux_output]
    /\ input = Nothing
    /\ deviations = {}
    /\ view = Nothing /\ vm = Nothing /\ tree = Nothing /\ result = Nothing

\* The chain has as many batches as the bound allows.
Finished == phase = "idle" /\ chain.number > MaxBatches /\ UNCHANGED vars

Next ==
    \/ ProduceBatch
    \/ \E f \in DOMAIN Fields : Deviate(f)
    \/ Begin
    \/ CheckEnvironment
    \/ CheckBytecodes
    \/ BuildView
    \/ RunVm
    \/ CheckTree
    \/ VerifyCommitment
    \/ Settle
    \/ NextBatch
    \/ Finished

Spec == Init /\ [][Next]_vars

-----------------------------------------------------------------------------
\* What L1 has stored opens to the root and the next index of the tree.
StoredOpensToTheTree ==
    chain.stored =
        compute_commitment(
            compute_pass_through_data_hash(Cardinality(DOMAIN chain.contents) + 1, RootHash(chain.contents)),
            chain.meta_hash, chain.aux_hash)

\* The tree check of a batch that starts from the chain's root and next index and that the
\* chain's own code executed ends with those of the tree after its transactions
\* (verify_paths_and_new_root()).
TreeCheckIsSound ==
    /\ phase = "accepted"
    /\ IsCanonical(input, chain.emulator)
    /\ input.next_enumeration_index = Cardinality(DOMAIN chain.contents) + 1
    /\ input.previous_batch_hash = RootHash(chain.contents)
    => LET after == After(chain.contents, StorageOps(ProgramOf(input.blocks)))
       IN  tree.index = Cardinality(DOMAIN after) + 1 /\ tree.root = RootHash(after)

\* What is settled follows the tree: whatever was wrong with the input, the batch was
\* executed by the chain's own code in the canonical mode, the tree check did not go wrong,
\* and the stored commitment opens to the root and the next index of the tree after the
\* transactions of the batch (execute(), verify_commitment()).
SettledFollowsTheTree ==
    /\ phase = "settled" => IsCanonical(input, chain.emulator)
    /\ TreeCheckIsSound
    /\ StoredOpensToTheTree

\* A batch as the node sends it is settled, with and without an emulator: nothing that is
\* pinned is too strict, and the public input is the one that L1 computes.
HonestBatchSettles ==
    deviations = {} => phase \notin {"rejected", "panicked", "refused"}

\* What no batch that was sealed has: blocks that do not follow one another, a block without
\* transactions before another one, a slot or a bytecode that a transaction needs and that is not
\* there, or a transaction after which the batch cannot be finished.
BlocksAreImpossible(in) ==
    \E i \in 1..(Len(in.blocks) - 1) :
        \/ in.blocks[i].txs = <<>>
        \/ ~assert_next_block(in.blocks[i].meta, in.blocks[i].txs, in.blocks[i + 1].meta)
        \/ \E j \in DOMAIN in.blocks[i].txs : LET tx == in.blocks[i].txs[j] IN
              \/ UserHash \notin DOMAIN in.used_bytecodes
              \/ IsStorageOp(tx) /\ tx.key \notin in.declared \cup KeysOf(in.merkle_paths)
              \/ tx.kind = "tip_halt"

\* Or a bytecode of an impossible length.
IsImpossible(in) ==
    \/ \E i \in DOMAIN BaseContracts(in) : ~validate_bytecode(BaseContracts(in)[i].code)
    \/ \E h \in DOMAIN in.used_bytecodes : ~validate_bytecode(in.used_bytecodes[h])
    \/ BlocksAreImpossible(in)

\* The verifier panics only on an input that no sealed batch has, never because of the environment,
\* of what it is told of the previous batch or of what it is to commit to ("Reject both directions
\* here so a hostile payload yields an error instead"; "declared nowhere ... panics in
\* StorageSnapshot"); and no such input gets through the VM (execute(), execute_vm()).
PanicsOnlyOnImpossibleInput ==
    /\ phase = "panicked" => IsImpossible(input)
    /\ phase \in {"executed", "proved", "accepted", "settled"} => ~IsImpossible(input)

\* The node's own commitment to an honest batch: its sanity checks pass, and apart from
\* the emulator of a chain that has none its hashes are those of the verifier
\* (L1BatchCommitment::new()).
CommitmentMatchesNode ==
    phase = "accepted" /\ deviations = {} =>
        LET after == After(chain.contents, StorageOps(ProgramOf(input.blocks)))
            node == NodeCommitment(
                [for_genesis_batch(RootHash(after), Cardinality(DOMAIN after) + 1, for_bytecode(BootloaderCode),
                                   for_bytecode(AccountCode), chain.emulator.hash, latest)
                 EXCEPT !.system_logs = vm.system_logs, !.state_diffs = vm.state_diffs,
                        !.bootloader_initial_content_commitment = Blake2Hash(expand_bootloader_heap(HeapOf(input), HeapWords)),
                        !.blob_hashes = BlobHashesOf(vm.pubdata)], FALSE)
        IN  /\ node.outcome = "ok"
            /\ node.hash.pass_through_data = result.hashes.pass_through_data
            /\ node.hash.aux_output = result.hashes.aux_output
            /\ chain.emulator # NoContract => node.hash = result.hashes

\* An honest batch is never refused, and the node, the verifier and L1 agree on its commitment
\* (L1BatchCommitment::new(), verify_commitment()).
HonestBatchIsAgreed ==
    /\ HonestBatchSettles
    /\ CommitmentMatchesNode

-----------------------------------------------------------------------------
(***************************************************************************)
(* The instance that is checked: a tree with two leaves and batches of one  *)
(* or two operations.  Words of two bytes and blobs of two, so that a batch *)
(* has one or two blobs.                                                    *)
(***************************************************************************)
MCKey(a, b) == <<a, b>>

MCGenesisTree == (MCKey(0, 0) :> <<1, 1>>) @@ (MCKey(2, 1) :> <<2, 1>>)

MCOp(kind, key, value) == [kind |-> kind, key |-> key, value |-> value]

MCBatchPrograms ==
    { <<MCOp("write", MCKey(0, 0), 2), MCOp("write", MCKey(1, 0), 1)>>,
      <<MCOp("read", MCKey(2, 1), 0), MCOp("rolled_back", MCKey(1, 0), 2)>>,
      <<MCOp("write", MCKey(1, 0), 2)>> }
=============================================================================
