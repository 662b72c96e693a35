----------------------------- MODULE VmVersions -----------------------------
(***************************************************************************)
(* Protocol versions, the VM version each of them runs on                  *)
(* (basic_types/src/protocol_version.rs, multivm/src/utils/mod.rs,         *)
(* versions/vm_fast/version.rs) and the layout of the bootloader's memory  *)
(* in each version of the VM (versions/vm_latest/constants.rs).            *)
(***************************************************************************)
EXTENDS Integers, Sequences, FiniteSets

CONSTANT
    PatchBits       \* PACKED_SEMVER_MINOR_OFFSET, 32 in the code

ASSUME PatchBitsAssumption == PatchBits \in Nat \ {0}

-----------------------------------------------------------------------------
(***************************************************************************)
(* Protocol versions are numbered; 32 is the speculative next one.         *)
(***************************************************************************)
ProtocolVersionId == 0..32

latest == 31

last_potentially_undefined == 9

gateway_upgrade == 26

is_pre_boojum(v) == v <= 17
is_pre_gateway(v) == v < gateway_upgrade
is_pre_medium_interop(v) == v < 31
is_1_4_0(v) == v >= 18 /\ v < 20
is_1_4_1(v) == v = 20
is_pre_1_4_1(v) == v < 20
is_pre_1_4_2(v) == v < 21
is_pre_1_5_0(v) == v < 23
is_post_1_5_0(v) == v >= 23

VmVersionOf(v) ==
    CASE v \in 0..1 -> "M5WithoutRefunds"
      [] v \in 2..3 -> "M5WithRefunds"
      [] v = 4 -> "M6Initial"
      [] v \in 5..6 -> "M6BugWithCompressionFixed"
      [] v \in 7..12 -> "Vm1_3_2"
      [] v \in 13..15 -> "VmVirtualBlocks"
      [] v \in 16..17 -> "VmVirtualBlocksRefundsEnhancement"
      [] v \in 18..19 -> "VmBoojumIntegration"
      [] v = 20 -> "Vm1_4_1"
      [] v \in 21..22 -> "Vm1_4_2"
      [] v = 23 -> "Vm1_5_0SmallBootloaderMemory"
      [] v \in 24..25 -> "Vm1_5_0IncreasedBootloaderMemory"
      [] v = 26 -> "VmGateway"
      [] v = 27 -> "VmEvmEmulator"
      [] v = 28 -> "VmEcPrecompiles"
      [] v \in 29..30 -> "VmInterop"
      [] v \in 31..32 -> "VmMediumInterop"

\* The VM of the API: nothing older than Vm1_3_2.
into_api_vm_version(v) == IF v < 7 THEN "Vm1_3_2" ELSE VmVersionOf(v)

num_blobs_required(v) ==
    IF is_pre_1_4_1(v) THEN 0 ELSE IF is_pre_1_5_0(v) THEN 2 ELSE 16

num_blobs_created(v) ==
    IF is_pre_1_4_2(v) THEN 0 ELSE IF is_pre_1_5_0(v) THEN 2 ELSE 6

l2_to_l1_logs_tree_size(v) ==
    IF is_pre_boojum(v) THEN 512
    ELSE IF is_1_4_0(v) \/ is_1_4_1(v) THEN 2048
    ELSE IF is_pre_1_5_0(v) THEN 4096
    ELSE 16384

\* The patch is what is left of a usize in a u32.
into_packed_semver_with_patch(v, patch) == (v * 2^PatchBits) + (patch % 2^PatchBits)

\* The minor version is masked to 16 bits, which no version here exceeds.
try_from_packed(packed) ==
    LET minor == packed \div 2^PatchBits
    IN  IF minor \in ProtocolVersionId
        THEN [ok |-> TRUE, minor |-> minor, patch |-> packed % 2^PatchBits]
        ELSE [ok |-> FALSE]

-----------------------------------------------------------------------------
(***************************************************************************)
(* The versions of vm_latest.                                              *)
(***************************************************************************)
Vm150Versions ==
    {"Vm1_5_0SmallBootloaderMemory", "Vm1_5_0IncreasedBootloaderMemory", "VmGateway",
     "VmEvmEmulator", "VmEcPrecompiles", "VmInterop", "VmMediumInterop"}

\* MultiVmSubversion::try_from(): the name without its prefix; "error" for an older VM.
MultiVmSubversion(vm) ==
    CASE vm = "Vm1_5_0SmallBootloaderMemory" -> "SmallBootloaderMemory"
      [] vm = "Vm1_5_0IncreasedBootloaderMemory" -> "IncreasedBootloaderMemory"
      [] vm = "VmGateway" -> "Gateway"
      [] vm = "VmEvmEmulator" -> "EvmEmulator"
      [] vm = "VmEcPrecompiles" -> "EcPrecompiles"
      [] vm = "VmInterop" -> "Interop"
      [] vm = "VmMediumInterop" -> "MediumInterop"
      [] OTHER -> "error"

\* Variant: the first version of 1.5.0 is run like the second one.
FastVmSubversion_Small(vm) ==
    CASE vm \in {"Vm1_5_0SmallBootloaderMemory", "Vm1_5_0IncreasedBootloaderMemory"} -> "IncreasedBootloaderMemory"
      [] vm \in {"VmGateway", "VmEvmEmulator", "VmEcPrecompiles"} -> "Gateway"
      [] vm = "VmInterop" -> "Interop"
      [] vm = "VmMediumInterop" -> "MediumInterop"
      [] OTHER -> "error"

\* FastVmVersion::try_from() followed by the conversion into a MultiVmSubversion: the
\* fast VM does not tell the versions between the gateway and interop apart.
FastVmSubversion(vm) ==
    CASE vm = "Vm1_5_0IncreasedBootloaderMemory" -> "IncreasedBootloaderMemory"
      [] vm \in {"VmGateway", "VmEvmEmulator", "VmEcPrecompiles"} -> "Gateway"
      [] vm = "VmInterop" -> "Interop"
      [] vm = "VmMediumInterop" -> "MediumInterop"
      [] OTHER -> "error"

is_supported_by_fast_vm(v) == FastVmSubversion(VmVersionOf(v)) # "error"

\* LegacyVmInstance::new_with_specific_version() panics for the other versions.
new_with_specific_version(vm) == MultiVmSubversion(vm)

\* The helpers of multivm/src/utils/mod.rs choose a constant by the version of the VM and
\* panic for an unsupported one.
Dispatch(vm, value) == IF vm \in Vm150Versions THEN <<"ok", value>> ELSE <<"panic">>

-----------------------------------------------------------------------------
(***************************************************************************)
(* The layout of the bootloader's memory, in words.                        *)
(***************************************************************************)
MAX_TXS_IN_BATCH == 10000
MAX_MSG_ROOTS_IN_BATCH == 100
DEBUG_SLOTS_OFFSET == 8
DEBUG_FIRST_SLOTS == 32
PAYMASTER_CONTEXT_SLOTS == 32 + 1
MAX_POSTOP_SLOTS == PAYMASTER_CONTEXT_SLOTS + 7
CURRENT_L2_TX_HASHES_SLOTS == 2
TX_OPERATOR_SLOTS_PER_L2_BLOCK_INFO == 4
TX_OPERATOR_L2_BLOCK_INFO_SLOTS == (MAX_TXS_IN_BATCH + 1) * TX_OPERATOR_SLOTS_PER_L2_BLOCK_INFO
INTEROP_ROOT_SLOTS_SIZE == 5
INTEROP_ROOT_SLOTS == (MAX_MSG_ROOTS_IN_BATCH + 1) * INTEROP_ROOT_SLOTS_SIZE
COMPRESSED_BYTECODES_SLOTS == 196608
PRIORITY_TXS_L1_DATA_SLOTS == 2
TXS_STATUS_ROLLING_HASH_SLOTS == 1
OPERATOR_PROVIDED_L1_MESSENGER_PUBDATA_SLOTS == 1360000
BOOTLOADER_TX_DESCRIPTION_SIZE == 2
VM_HOOK_PARAMS_COUNT == 3

get_used_bootloader_memory_bytes(sub) ==
    IF sub = "SmallBootloaderMemory" THEN 59000000 ELSE 63800000

get_used_bootloader_memory_words(sub) == get_used_bootloader_memory_bytes(sub) \div 32

get_max_new_factory_deps(sub) ==
    IF sub \in {"SmallBootloaderMemory", "IncreasedBootloaderMemory"} THEN 32 ELSE 64

get_new_factory_deps_reserved_slots(sub) == get_max_new_factory_deps(sub) + 4

get_operator_refunds_offset(sub) ==
    DEBUG_SLOTS_OFFSET + DEBUG_FIRST_SLOTS + PAYMASTER_CONTEXT_SLOTS
        + CURRENT_L2_TX_HASHES_SLOTS + get_new_factory_deps_reserved_slots(sub)

get_tx_overhead_offset(sub) == get_operator_refunds_offset(sub) + MAX_TXS_IN_BATCH

get_tx_trusted_gas_limit_offset(sub) == get_tx_overhead_offset(sub) + MAX_TXS_IN_BATCH

get_tx_operator_l2_block_info_offset(sub) ==
    get_tx_trusted_gas_limit_offset(sub) + MAX_TXS_IN_BATCH

\* Of interop: the block processed last, the number of its roots, and the current root.
get_last_processed_block_number_offset(sub) ==
    get_tx_operator_l2_block_info_offset(sub) + TX_OPERATOR_L2_BLOCK_INFO_SLOTS

get_interop_blocks_begin_offset(sub) == get_last_processed_block_number_offset(sub) + 3

get_interop_root_offset(sub) == get_interop_blocks_begin_offset(sub) + MAX_TXS_IN_BATCH

\* After the rolling hash of the interop roots.
get_settlement_layer_offset(sub) == get_interop_root_offset(sub) + INTEROP_ROOT_SLOTS + 1

get_interop_fee_offset(sub) == get_settlement_layer_offset(sub) + 1

get_compressed_bytecodes_offset(sub) ==
    CASE sub = "Interop" -> get_interop_root_offset(sub) + INTEROP_ROOT_SLOTS + 1
      [] sub = "MediumInterop" -> get_interop_fee_offset(sub) + 1
      [] OTHER -> get_tx_operator_l2_block_info_offset(sub) + TX_OPERATOR_L2_BLOCK_INFO_SLOTS

get_priority_txs_l1_data_offset(sub) ==
    get_compressed_bytecodes_offset(sub) + COMPRESSED_BYTECODES_SLOTS

get_operator_provided_l1_messenger_pubdata_offset(sub) ==
    get_priority_txs_l1_data_offset(sub) + PRIORITY_TXS_L1_DATA_SLOTS
        + IF sub \in {"Interop", "MediumInterop"} THEN TXS_STATUS_ROLLING_HASH_SLOTS ELSE 0

get_bootloader_tx_description_offset(sub) ==
    get_operator_provided_l1_messenger_pubdata_offset(sub)
        + OPERATOR_PROVIDED_L1_MESSENGER_PUBDATA_SLOTS

get_tx_description_offset(sub) ==
    get_bootloader_tx_description_offset(sub)
        + BOOTLOADER_TX_DESCRIPTION_SIZE * MAX_TXS_IN_BATCH + MAX_POSTOP_SLOTS

get_bootloader_tx_encoding_space(sub) ==
    get_used_bootloader_memory_words(sub) - get_tx_description_offset(sub) - MAX_TXS_IN_BATCH

get_result_success_first_slot(sub) ==
    (get_used_bootloader_memory_bytes(sub) - MAX_TXS_IN_BATCH * 32) \div 32

get_vm_hook_position(sub) == get_result_success_first_slot(sub) - 1

get_vm_hook_params_start_position(sub) == get_vm_hook_position(sub) - VM_HOOK_PARAMS_COUNT

-----------------------------------------------------------------------------
(***************************************************************************)
(* The helpers of multivm/src/utils/mod.rs, by version of the VM.          *)
(***************************************************************************)
vm_bootloader_encoding_space(vm) ==
    Dispatch(vm, get_bootloader_tx_encoding_space(MultiVmSubversion(vm)))

vm_bootloader_max_txs_in_batch(vm) == Dispatch(vm, MAX_TXS_IN_BATCH)

vm_used_bootloader_memory_bytes(vm) ==
    Dispatch(vm, get_used_bootloader_memory_bytes(MultiVmSubversion(vm)))

vm_used_bootloader_memory_words(vm) ==
    Dispatch(vm, get_used_bootloader_memory_words(MultiVmSubversion(vm)))

vm_max_new_factory_deps(vm) == Dispatch(vm, get_max_new_factory_deps(MultiVmSubversion(vm)))

-----------------------------------------------------------------------------
(***************************************************************************)
(* The regions of the bootloader's memory, as <<first slot, number of       *)
(* slots>>, in the order of their offsets.                                  *)
(***************************************************************************)
TxEncodings(sub) == <<get_tx_description_offset(sub), get_bootloader_tx_encoding_space(sub)>>

HookParams(sub) == <<get_vm_hook_params_start_position(sub), VM_HOOK_PARAMS_COUNT>>

HookOpcode(sub) == <<get_vm_hook_position(sub), 1>>

RegionsOf(sub) ==
    << <<get_operator_refunds_offset(sub), MAX_TXS_IN_BATCH>>,
       <<get_tx_overhead_offset(sub), MAX_TXS_IN_BATCH>>,
       <<get_tx_trusted_gas_limit_offset(sub), MAX_TXS_IN_BATCH>>,
       <<get_tx_operator_l2_block_info_offset(sub), TX_OPERATOR_L2_BLOCK_INFO_SLOTS>> >>
    \o (IF sub \notin {"Interop", "MediumInterop"} THEN <<>>
        ELSE << <<get_last_processed_block_number_offset(sub), 3>>,
                <<get_interop_blocks_begin_offset(sub), MAX_TXS_IN_BATCH>>,
                <<get_interop_root_offset(sub), INTEROP_ROOT_SLOTS>> >>)
    \o (IF sub # "MediumInterop" THEN <<>>
        ELSE << <<get_settlement_layer_offset(sub), 1>>, <<get_interop_fee_offset(sub), 1>> >>)
    \o << <<get_compressed_bytecodes_offset(sub), COMPRESSED_BYTECODES_SLOTS>>,
          <<get_priority_txs_l1_data_offset(sub), PRIORITY_TXS_L1_DATA_SLOTS>>,
          <<get_operator_provided_l1_messenger_pubdata_offset(sub),
            OPERATOR_PROVIDED_L1_MESSENGER_PUBDATA_SLOTS>>,
          <<get_bootloader_tx_description_offset(sub), BOOTLOADER_TX_DESCRIPTION_SIZE * MAX_TXS_IN_BATCH>>,
          TxEncodings(sub),
          HookParams(sub),
          HookOpcode(sub),
          <<get_result_success_first_slot(sub), MAX_TXS_IN_BATCH>> >>

\* The slot after the last one of a region.
EndOf(region) == region[1] + region[2]

Overlap(r, s) == r[1] < EndOf(s) /\ s[1] < EndOf(r)

\* The regions follow one another to the end of the memory, and two of them share slots only
\* where the space for transactions ends: its last four words are those of the hook
\* (get_bootloader_tx_encoding_space() ends at the results, get_vm_hook_position() is before them).
LayoutIsRight(sub) ==
    LET regions == RegionsOf(sub)
    IN  /\ \A i, j \in DOMAIN regions :
              i < j => Overlap(regions[i], regions[j])
                           = (regions[i] = TxEncodings(sub) /\ regions[j] \in {HookParams(sub), HookOpcode(sub)})
        /\ \A i \in 1..(Len(regions) - 1) : regions[i][1] < regions[i + 1][1]
        /\ EndOf(HookParams(sub)) = HookOpcode(sub)[1]
        /\ EndOf(HookOpcode(sub)) = EndOf(TxEncodings(sub))
        /\ EndOf(regions[Len(regions)]) = get_used_bootloader_memory_words(sub)

\* A version comes back from its packed form.  One the fast VM runs is one the reference VM, the
\* API and every helper know, and the memory of the two VMs is laid out alike though the fast VM
\* merges versions.
VersionIsServed(v) ==
    LET vm == VmVersionOf(v)
    IN  /\ \A patch \in 0..(2^PatchBits - 1) :
              try_from_packed(into_packed_semver_with_patch(v, patch)) = [ok |-> TRUE, minor |-> v, patch |-> patch]
        /\ is_supported_by_fast_vm(v) =>
          /\ new_with_specific_version(vm) # "error"
          /\ into_api_vm_version(v) = vm
          /\ RegionsOf(FastVmSubversion(vm)) = RegionsOf(MultiVmSubversion(vm))
          /\ vm_used_bootloader_memory_bytes(vm)[2] \div 32 = vm_used_bootloader_memory_words(vm)[2]
          /\ vm_used_bootloader_memory_words(vm) = Dispatch(vm, get_used_bootloader_memory_words(FastVmSubversion(vm)))
          /\ vm_bootloader_encoding_space(vm) = Dispatch(vm, get_bootloader_tx_encoding_space(FastVmSubversion(vm)))
          /\ vm_bootloader_max_txs_in_batch(vm) # <<"panic">>
          /\ vm_max_new_factory_deps(vm) = Dispatch(vm, get_max_new_factory_deps(FastVmSubversion(vm)))
=============================================================================
