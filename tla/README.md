# Verification of the EraVM batch verifier

TLA+ models, model-checking configurations and machine-checked proofs for the
Rust workspace in `../src`.

## The system

The program re-executes one L1 batch of an EraVM chain and checks that the
public input published for it is right. Its parts:

| part | where | what it does |
| --- | --- | --- |
| batch verifier | `crates/airbender_verifier` | checks the inputs, replays the batch in the fast VM, checks every Merkle path and the new root, rebuilds the commitment |
| Merkle tree | `crates/merkle_tree` | versioned radix-16 tree: batch insertion, proofs, recovery, pruning, truncation, repair |
| mini Merkle tree | `crates/mini_merkle_tree` | in-memory binary tree with trimming, used for log and priority-operation roots |
| fast VM adapter | `crates/multivm/src/versions/vm_fast` | drives the `vm2` interpreter: bootloader hooks, transactions, snapshots |
| reference VM | `crates/multivm/src/versions/vm_latest` | the older VM: history recorders, oracles, bootloader state, tracers |
| VM helpers | `crates/multivm/src/utils`, `pubdata_builders`, `tracers` | storage-write deduplication, gas and fee formulas, pubdata encodings |
| VM interface | `crates/vm_interface` | storage views, results, the snapshot protocol |
| types | `crates/types`, `basic_types`, `constants`, `contracts`, `crypto_primitives` | transactions, commitments, protocol versions, compression of state diffs |
| cycle model | `crates/cycle_*` | estimates the proving cycles of a batch from VM statistics |
| command line | `host`, `guest`, `crates/cli_utils`, `crates/vm_compare` | proving, statistics, set-up download, comparison of the two VMs |

`PROJECT.json` lists every part with its status.

## Modules

### Tree recovery: `ParallelDatabase`, `MerkleTreeRecovery`, `DurableLog`

`ParallelDatabase` models `storage/parallel.rs`: a main thread that hands patches
over a bounded channel to a persistence thread, and reads through the buffer of
the patches it has handed over. The state follows the code: `commands` (the
buffer), `chan` (the channel), `current` (the command the thread holds), `thread`
(where the thread is), `senders` (the live clones of the channel's sender: the
database's and the one inside `PersistenceThreadHandle`), `persistence_handle`.
A patch's `Arc` is shared exactly while the patch is in `chan` or `current`, which
is what `Arc::strong_count(..) > 1` tells. The store is the sequence of the write
batches applied to it: RocksDB applies a batch atomically. A failing thread drops
the failed patch, then the receiver, then the queued patches, and only then
counts as finished; these are separate steps because the main thread observes
each of them.

`MerkleTreeRecovery` adds the calls of `recovery/mod.rs` on top, one action for
each call, and one for each later step of a call that waits. A patch keeps what
the code's decisions depend on: its number, whether it is a manifest update, an
empty root or a chunk, the node keys it writes, and `is_recovering` of its
manifest. Every write can fail, the process can crash between any two steps, and
the application may drop the recovery object or the handle at any time.

`DurableLog` is the abstract promise: patches become durable one by one in the
order of their acceptance, those that are not durable may be forgotten, and the
patch that ends recovery is the last one.

### The tree and its store: `TreeUpdater`, `TreeRecoveryChunks`, `TreeStore`, `TreeServices`

`TreeUpdater` holds the algorithms of `storage/mod.rs` and `storage/patch.rs` as
operators: a tree is a function from `<<version, path>>` to nodes, a path a sequence
of nibbles; `load_ancestors`, `insert` with its forks and moved leaves, the finalisation
into written nodes and stale keys, and the two insertions used by recovery. There are
no hashes in this module: they never influence which nodes are written.

`TreeRecoveryChunks` restores a snapshot in every way of cutting it into chunks,
linear or random, finalises it and extends it by a later batch.

`TreeStore` composes the versioned store with those who use it. The writer
(`process_l1_batch`, `save`, `reset`, `roll_back_logs`) works on `patch`, the versions
in memory, over `tree`, `stale` and `version_count` on disk. The pruner is a thread of
its own (`pruner.pc`): reading the least stale version, reading the manifest and the
target, collecting one version after the other and deleting are separate steps, between
which batches are saved and rolled back. A reader loads a root and then level after
level. Writes can fail and the process can crash. `pruned` and `retain` are history
variables: what was deleted, and the highest target ever set. The model assumes of the
caller that it never rolls back below the pruning target (`MayKeep`).

`TreeServices` adds what runs beside that store with handles of its own: the reader of old
versions, the repair of stale keys (`repair.rs`) and, as an operator on an unchanging store,
the consistency check (`consistency.rs`). A behaviour has the reader or the repair. With the
repair it begins with a legacy phase, in which the early code truncates versions without
their stale keys; then the task reads its progress, the oldest stale key, the manifest and
each version's root, nodes and stale keys in separate steps, and deletes by what it read.
`raced` and `hasty` are history variables: a version was truncated while it was checked, and
the pruner was allowed on versions not yet checked; the properties say what holds without.

### Proofs and the witness: `TreeProofs`, `WitnessPaths`, `MerkleWitness`

`TreeProofs` adds hashing to `TreeUpdater`: the caches of internal nodes, Merkle paths,
the sixteen subtrees that are processed apart and put together at the root, and proofs
of single entries. Hashes are ideal: a hash is the term it was computed from, so two
hashes are equal exactly when their inputs are. A blank hash is a term of its own.

`WitnessPaths` has the operations on Merkle paths that the tree, the witness format and the
verifier share. `MerkleWitness` follows one batch from the tree to the verifier. `process_l1_batch_full`
runs the batch and strips the paths; an older server may send the legacy form instead
(`SendLegacy`), and one entry may be damaged on the way (`Corrupt`); `Normalize`,
`build_view_from_merkle_paths`, `execute_vm` and `Verify` are the steps of `execute()`.
What the library function `sort_storage_access_queries` and the legacy encoder do is
modelled from their use. `RootHash`, `SubtreeHash` and `After` define the same tree
naively, as a full binary tree, and are the reference everything is compared with.

### Replaying a batch: `BootloaderState`, `BatchExecution`

`BootloaderState` holds the operations of `vm_latest/bootloader`, which both VMs share, as
operators on a record: blocks with their transactions, the offsets at which the next
transaction, its compressed bytecodes and its block's interop roots go, snapshots, and the
memory, once as it is written step by step and once as `bootloader_memory()` puts it
together at the end. A memory is a list of writes; the words of a fixed-size entry are one
slot, those of a transaction are separate ones.

`BatchExecution` drives it as `execute_vm()` and `execute_tx()` do: a snapshot, an attempt
with compressed bytecodes, and, when compression failed, a rollback and an attempt without
(`ExecuteTx`, `TxResult`, `CompressionFailed`); blocks are started in between and the batch
is finished. `kind` says whether the fast VM of the verifier or the reference VM of the
comparison tool is driven. They differ in how they roll back: the fast VM copies the
interpreter but keeps its cache of bytecodes, the reference VM undoes the records of its
histories from the snapshot's time on (`history`). The hooks that change state are actions.
The interpreter and the bootloader it runs are external: they read the heap at cursors of
their own, mark bytecodes as known or fail to, and may halt at any moment. Gas, account
validation and the refund formula are in `VmRuns`; here a refund is any member of `Refunds`.

### The whole verifier: `BatchVerification`, `BatchCommitment`, `VmVersions`, `Bytecodes`, `StateDiffs`

`BatchVerification` is the composition. The node executes a batch on the tree and sends the
input of the verifier; up to `MaxDeviations` of its fields are not what they should be. The
verifier takes the steps of `execute()` and `verify_commitment()` in the code's order, and
stops with an error or a panic where the code does. L1 settles a batch if the public input is
the one it expects, and the next batch follows on the chain that is there. The VM is a
function of its input: any other code, mode or limit makes it write other values. Its run
(`execute_vm`) is that of the code: the transactions of a block, then the start of the next
one, which asserts that the block is not empty and that the next one follows it by number,
time and hash, and at the end `finish_batch`. A transaction that halts is an error, and so is
an end of the batch that halts after it has asked for its pubdata; one that halts before is a
panic, as in `finish_batch()`, and so is a slot or a bytecode that is not there. The
bytecodes used are checked in the order of a `HashMap`, so that which of two bad ones is met
first, an error or a panic, is a choice (`UsedBytecodesChecked`).

`BatchCommitment` is the serialization of a batch (`types/src/commitment`,
`l2_to_l1_log.rs`), computed the node's way and the verifier's way: byte strings are sequences
of fields with the code's widths and order, hashes are ideal. `VmVersions` has the protocol
versions, their dispatch and the layout of the bootloader's memory; `Bytecodes` the hashes of
bytecodes; `StateDiffs` the encoding of storage changes over words of a small width
(`ByteBase`, `WordBytes`). `SequenceHelpers` has the few operators on sequences that these
modules and the tree share.

### The two VMs: `VmRuns`, `FastVmWorld`, `CallTracers`, `AccountValidation`

These four put the fast VM and the reference VM side by side, on one external program.

`VmRuns` is one run from `inspect_inner()` to its result. The fast VM is suspended at the
bootloader's hooks and handles them in a loop; the tracers of the reference VM watch every
cycle and act after it. Both meter account validation, suggest refunds, provide pubdata and
turn the end of the run into a result. While they see the same they take the same steps; once
an account has panicked with gas hidden from it they need not, and one is followed alone.

`FastVmWorld` is what the fast VM sees of storage and bytecodes (`world.rs`): three sources of
code behind a cache that is not rolled back, under transactions that deploy, publish EVM code
and are undone. `CallTracers` has both call tracers and the tracer that remembers the data
returned to the bootloader, attached in the middle of near calls they have not seen.
`AccountValidation` has both validation tracers, with their hooks, slots allowed by hashes,
trusted addresses, time ranges and gas.

### The reference VM: `VmOracles`, `ReferenceVm`, `FramedWorld`

`VmOracles` begins with the log of undoable events with its two modes, stacks of frames and the
maps, vectors and memories recorded by it (`history_recorder.rs`), and has the oracles on top: storage and transient storage with their frames, prices and refunds; events;
memory pages, code pages and decommitted bytecodes. `ReferenceVm` drives them as the `zk_evm`
interpreter does, one cycle for one call it makes into an oracle, with inspections, snapshots
and rollbacks, and with the tracers that count circuits and learn of EVM deployments.

`FramedWorld` is the abstract promise: values and events, nested calls that undo their changes
when they panic, snapshots that restore everything. `OraclesImplementFramedWorld` states the
refinement; `AbsWorld` and `AbsFrames` are its mapping.

### Libraries: `MiniMerkleTree`, `StorageWritesDeduplicator`, `StorageView`, `StorageViewUsers`, `NodeSerialization`, `Pubdata`, `FeeModel`, `RevertReasons`

Operators translated from one file or a few, and for the tree, the deduplicator and the view also
the state machine of their use: a tree that grows and is trimmed, logs that are applied and rolled back, a view that is
read and written through itself and through the immutable views that share its cache.
`NodeSerialization` is what the tree writes to RocksDB, byte by byte; `Pubdata` the builders,
the parameters that choose one and the compressed form in which bytecodes are published; `FeeModel` the base fee, its adjustment and the refund;
`RevertReasons` the parsing of returned data, for a `usize` of any width.

### Tools: `ProverHost`, `HostData`, `VmComparison`

`ProverHost` has the commands `prove-fri`, `gen-vks`, `download-trusted-setup` and
`prove-snark` over the files they read and leave. A file is created and filled in two steps,
and a command may stop between any two steps. Commands run one at a time, the guest is built
anew only between two of them, no decoder accepts a proper prefix of a file, the prover may
return a proof that does not verify, and the wrapper needs a whole trusted setup. The operator
may move a proof to a directory of their own, under the standard name or another one, and the
name of that directory may be parsed to the number of a batch (`batch-007`): several inputs of
`prove-snark` may then have one output directory, as `proof_file_output_dir()` has it. `HostData`
has the encoding of batch inputs and the running medians of the statistics. `VmComparison`
has the traces of the comparison tool, the equality of their steps and the report.

`Library` joins the modules of these last two sections for one run: a behaviour is about one
`subject`, an input of a pure function or one of the machines.

## Runs

Ten runs pass and two are counterexamples to comments of the code (see Findings).

| run | module and configuration | shows |
| --- | --- | --- |
| `recovery` | `MerkleTreeRecovery` | two sessions with failing writes and crashes: what is durable is a prefix of what was accepted, and complete once it says so (`PersistenceIsSound`); reads through the buffer are current and the buffer is bounded (`BufferIsRight`); refinement (`ImplementsDurableLog`); every call returns, or all it waits for is that the application drops its handle (`CallsReturn`) |
| `recovery_chunks` | `TreeRecoveryChunks` | the restored tree is that of the snapshot however it was cut (`RecoveryIsExact`), and a later batch on it has the same outcome (`LaterBatchHasSameOutcome`) |
| `tree_store` | `TreeStore` | versions are written, lost, rolled back and rewritten while the pruner runs: retained versions stay intact (`VersionsAreRetained`), stale keys are exact and nothing else is left (`GarbageIsExact`), and the pruner reaches its target (`PrunerCatchesUp`) |
| `tree_services` | `TreeServices` | a reader gets the entry of its version although nodes are written and pruned between its steps (`ReadsAreRight`); a repaired store has no bogus stale key and has lost no other, so that pruning it is safe, and the consistency check accepts exactly the sound stores (`RepairIsSafe`); the repair reaches every version (`RepairCatchesUp`) |
| `merkle_witness` | `MerkleWitness` | full mode writes what lightweight mode writes and its proofs verify (`TreeIsProved`); honest witnesses in either form are accepted (`HonestWitnessPasses`); an accepted witness, damaged or not, has shown the VM the right slots and gives the right root (`AcceptedMeansRight`); the streaming check equals the oracle of the tests (`StreamingMatchesOracle`) |
| `vm_batch` | `BatchExecution` | batches, well-formed or not, in either VM: an accepted batch was executed as given (`ExecutedAsGiven`); a retried transaction starts afresh, there is one retry, and no assertion fails on a chain of blocks (`RetriesAreClean`); the restored memory is the live heap (`HeapIsRestored`) |
| `reference_vm` | `ReferenceVm` | the oracles implement `FramedWorld` (`OraclesImplementFramedWorld`); what was paid for matches what is stored, an inspection reports its own logs, state diffs and circuit counts are exact (`RecordsAreExact`); live memory pages keep their words and published code is known (`MemoryIsIntact`) |
| `batch_verification` | `BatchVerification` | what settles continues the chain's tree whatever two fields of the input are changed (`SettledFollowsTheTree`); an honest batch settles with the node's commitment (`HonestBatchIsAgreed`); the verifier panics only for input that no sealed batch has, and no such input gets through the VM (`PanicsOnlyOnImpossibleInput`) |
| `vms` | `MCVms`, `Vms.cfg` | the VMs' results agree, validation is bounded, the refund is stored where it is read (`RunsAgree`, `LimitIsNoticed`); reachable code is served and has its hash (`CodeIsServed`); both call tracers collect the calls that were made (`TracersReportRightly`); both validation tracers enforce one set of rules (`ValidationIsRight`) |
| `library` | `Library` | every encoding is read back (`EncodingsAreReadBack`, `PubdataIsRight`), every incremental structure equals its reference (`IncrementalIsExact`, `ViewsAreRight`), every supported version has its VM and a memory whose regions are disjoint, but for the words of the hook at the end of the space for transactions (`VersionsAreLaidOut`), fees and refunds are fair (`FeesAreFair`), revert reasons do not depend on the width of `usize` (`ReasonsAreParsedRightly`); a command that succeeds leaves what it promises, of inputs that share a directory the last one (`CommandsDeliver`), only `gen-vks` replaces a key that is there (`OnlyGenVksReplacesKeys`); two VMs that match have taken the same steps (`ComparisonIsSound`) |
| `empty_tree` | `MerkleTreeRecovery`, `EmptyTreeIsFinalized.cfg` | counterexample 1 |
| `one_leaf_root` | `MerkleWitness`, `RootIsTransformed.cfg` | counterexample 2 |

Most of these properties are conjunctions: the module that defines one states its parts one by
one, each with a comment on the code it is about. Values of constants that a configuration
cannot write are in the `MC` module, or, where a module has no other use, at its end.

`PROJECT.json` gives for each property a variant of the code under which it fails.

Deadlock is checked where a model should never stop (`recovery`, `merkle_witness`, `vm_batch`,
`batch_verification`). The others stop because a bound is reached or the input is used up.

### Bounds

- Recovery: six patches are the opening manifest, enough chunks to fill the channel of
  capacity 1, the thread and the buffer, and more; two sessions let a second opening meet
  what the first one left. One node key is enough for reads: lookups of different keys are
  independent.
- Tree: nibbles are binary instead of hexadecimal, keys have 2 or 3 of them, so that leaves
  move down, forks span several levels and nodes have one or all children; 3 versions, 2 keys
  in a pruning round (so that a round ends in the middle of the versions to prune), one crash;
  the repair checks two versions at a time.
- Witness: two nibbles of two bits, so that nodes have inner levels and there are four
  subtrees; up to 3 operations on trees of 0, 2 and 3 leaves. No two keys share all bits but
  the last: in the per-path form a first path of full depth means the legacy form, which the
  code accepts as infeasible for 256 bits.
- Replay: up to three blocks and three transactions, which bring no, one, repeated, shared or
  incompressible bytecodes or come from L1, blocks with zero to two interop roots, and seven
  malformed batches (wrong hashes, numbers, timestamps, an empty block in the middle,
  transactions in the last block).
- Whole verifier: two batches of two blocks with every pair of changed fields: a field that is
  compared with another copy of itself is changed together with that copy. The blocks may be
  none, not follow one another by number, time or hash, follow at the same time, begin with
  block 0, be empty, have transactions in the last one, or have one that halts, or that halts
  the end of the batch early or late.
- Reference VM: two slots, one of them new, values 0 and 1, programs of four or five cycles
  for each group of operations, three nested calls and one snapshot: enough for a panicking
  call inside a call that returns, on either side of a snapshot.
- VMs: runs of five instructions with validation limits below, at and above the gas; seven
  steps of deploying and undoing with two accounts and four bytecodes; three far calls and
  four frames; a validation of up to the limit of six units of gas, so that a slot can be
  hashed, hashed again and read.
- Libraries: words of two or four small bytes around every length field; nine leaves cross
  three powers of two; numbers around the lengths of LEB128; prices up to the end of a 64-valued
  `u64`, so that a product of them wraps, or panics when it is converted back;
  a `usize` of 7 and of 26 values beside data of at most 7 bytes.
- Host: three batches, one of which the guest refuses; three folders of the operator's, two with
  names of no batch and one with a name that gives the first batch; the first batch's proof is
  moved to either kind, the second's beside it under the same stem; two guests, four commands: an
  interrupted one, a new guest, and two more.

### Fairness

- `recovery`: weak fairness of the main thread's continuation steps and of the persistence
  thread: the operating system schedules both, and blocking channel operations return when
  they can. Nothing is assumed of the application: that it drops its handle is its choice, and
  `CallsReturn` names the state in which a call waits for nothing else (see Findings).
- `tree_store`: weak fairness of the pruner's steps only: its loop polls, and nothing blocks it.
- `tree_services`: weak fairness of the repair's steps: the same kind of loop.

## Proofs

Eight modules prove, for every value of the constants, what the runs check on an instance. Each
inductive invariant was an invariant of a run before it was proved.

`MerkleTreeRecoveryProofs`: for every capacity, number of patches and sessions, recovery
implements `DurableLog`, the store is a prefix of the accepted patches, a store marked as
recovered is complete and never written again, and `finalize()` is honest
(`PersistenceStaysSound`, `RecoveredStaysFrozen`, `Refinement`, `TypeCorrect`). None of these is
inductive alone. The inductive invariant `IndInv` adds: while the thread works, the accepted
patches are the written ones, the one being written and the queued ones in this order
(`QueueInOrder`); only the last accepted patch can end recovery, and only `finalize()` submits
it (`EndsLast`); patches are numbered by acceptance and the buffer holds accepted patches only
(`Numbered`), which is why the manifest read through the buffer still says that the tree is
being recovered; and where each call may be (`CallState`). Assumed of the constants: the
channel has a capacity, the bounds are natural numbers, and `NoCmd` is not a patch.

The same module proves that reads through the buffer are current and that the buffer is bounded
(`BufferStaysRight`). Its invariant `BufferInv`, on top of `IndInv`, says that the buffer is a
suffix of the accepted patches that begins no later than the store ends (`BufferIsSuffix`): a
buffer with a gap could be right about a key now and wrong after the next write. From it follow,
for sets of patches and the latest among them, both parts of a read; that there is room for a
chunk before it is sent (`RoomForChunk`) carries the bound over the two steps of sending.

`ProverHostProofs`: for every set of batches, folders, levels and lists, whatever commands run and
wherever they stop, a saved proof is valid, a command that succeeds has left what it promises
(`CommandsAlwaysDeliver`), and no command but `gen-vks` creates anew, fills or removes a key that
it has not created itself where there was none (`KeysAreOnlyReplacedByGenVks`). Of the inputs of
`prove-snark` that lead to one directory it is the last whose SNARK is there (`IsLastInto`); a
download that succeeds has left a whole setup only if it fetched it (`DownloadDelivers`).
`HostInv` adds for every command and each of its steps what it has read and already written
(`FriState`, `VksState`, `DownloadState`, `SnarkState`): which proofs of the list are on disk,
that the key in memory is the one in the file, and that a later write goes to a file of an
earlier input only if the two share their directory. Assumed: proofs are moved to folders under
one of two names, and lists consist of batches and of proof files.

`VmStepsProofs`, `VmLatestProofs`, `VmRunsProofs`: for every table of costs, limit of validation, amount of gas and program, the two
VMs agree until an account panics with gas hidden from it, each bounds validation, stores the
refund and provides the end of the batch once (`RunsAlwaysAgree`), and the fast VM notices the
limit no later than the reference VM (`LimitIsAlwaysNoticed`). `RunInv` has a part for each VM
(`FastInv`, `LatestInv`): the gas it may have in each phase, that requests noted in a cycle are
served when it ends, and that what is in the heap is in the bootloader's state. `Coupled` relates
the two: same phase, heap and notes, gas that is equal up to what is hidden in every frame, and
what the reference VM has counted is at most what the fast VM has taken (`CoupledGas`), which is
the reason why the limit is noticed in time. The first module has the frames, the gas and the
events of the machine and the steps of the fast VM, the second the cycles of the reference VM and
its tracers, the third both VMs side by side (`RunInvariantHolds`). Assumed: the computational price of an instruction
is at most its gas, as in the VM's table; a call leaves its caller some share; a bootloader error
is not `EthCall`, which belongs to a mode that the verifier refuses.

`StorageProofs`: for every set of bytecodes, accounts and contracts, every width of words and
length fields, and any sequence of transactions, deployments, calls and rollbacks, whatever can be
reached is served and has its hash, results report the EVM bytecodes that were kept, and
signatures are answered with their signer (`CodeIsAlwaysServed`). That code is there now does not
say that it is there after a rollback: `WorldInv` adds where the entries of each cache come from
(`CachesAreRight`), that the changes now and those a rollback returns to name only bytecodes that
are in one of the caches or in the storage (`Covered`), that what is marked as known is
(`MarksAreKnown`), and when an answer may be prepared (`Prepared`). The proof that a decoded
program has the bytes of its bytecode and that padding makes a valid bytecode is arithmetic over
any width of words. Assumed: the bytecodes of the three sources are valid, an EVM bytecode fits the
largest length when it is padded (24 kB against 2 MB), and a contract has its code in the storage.

The same module proves of `StorageView` that for every set of slots and values, every read and write through a view
and its immutable view is answered rightly, and the cache they share holds values of the
storage only, each counted once (`ViewsStayRight`). `ViewInv` adds that a view consists of exactly the changes
made and a cache filled from the storage, in both of its parts (`IsView`): that an answer is
right now says nothing about the next one. Nothing is assumed of the constants.

`AccountValidationProofs`: for every program, limit, table of hashes and set of trusted slots,
whatever else the batch deploys, rolls back or writes meanwhile, a slot is allowed only by a
chain of hashes from the account's address (`SlotsComeFromTheUser`), the fast tracer refuses what
the reference tracer refuses (`FastTracerIsStricter`), and if every hash was returned they stop
at the same instruction for the same rule (`TracersAgree`): both look up code hashes and the
targets of trusted slots in the storage as it is at the moment.
`ValidationStaysRight` puts the three together. The
inductive invariant `TracersInv` relates the two while they run (`InStep`): they are in the
same phase, the gas that one has counted and the gas that the other has left add up to the
limit, and a hash that the fast tracer waits for is one that the reference tracer has already
allowed. `SlotsOK` and `Agreement` say how far their slots and findings may differ at each
moment. `ValidationAssumption` gives the constants their types.

`BatchVerificationProofs`: for every chain, program, tree and any number of changed fields, the
verifier panics only for input that no sealed batch has: a bytecode of impossible length, a slot
or a bytecode missing that a transaction needs, an empty block before another one, blocks that do
not follow one another, or transactions after which the batch cannot be finished; and no such
input gets through the VM (`PanicsAreForImpossibleInput`). What L1
settles was executed by the chain's own code in the canonical mode (a part of `VerifierInv`,
`VerifierInvariantHolds`). The inductive invariant `VerifierInv` says what each phase of
`execute()` has established: the environment is pinned and its first block is the input's, the
base contracts and then the users' bytecodes are those of their hashes, the view has every
declared slot, the blocks the VM has run were possible, the heap is the one the
VM ran with, and the commitment is that of the input. The argument from the public input back to
the input is in the lemmas: equal public inputs have equal previous and new commitments
(`PublicInputIsBinding`, `CommitmentIsBinding`), these equal metadata (`MetaIsBinding`), which
with the checks already made fixes code, mode and limits (`BoundInputIsCanonical`).
`SettledBatchesFollowTheTree` adds that the commitment stored on L1 always opens to the root and
next index of the tree after the settled batches. Its hypothesis `TreeCheckIsSound`, that a tree
check from the right root with the right code ends with the right root, is about the recursion
over Merkle paths, which the prover cannot follow; the run `batch_verification` checks it as a
part of `SettledFollowsTheTree`. Assumed: hashes are ideal, and the
bootloader's memory has room for the words that the model puts into it.

Only model-checked: liveness (outside the prover's reach); `RangeIsIntersection`, whose minimum
and maximum are folds; `TreeCheckIsSound` and `HonestBatchIsAgreed`; and everything whose operators recurse over the data, where a proof would
need induction over it: the tree, the store, the witness, the encodings, the replay of a batch and
the histories of the reference VM.

## Findings

1. `finalize()` of an empty tree fails with background persistence
   (`recovery/mod.rs:237`, run `empty_tree`).
2. Full mode on a tree of one leaf, as lightweight mode or recovery leaves it, computes
   root hashes and paths from a blank hash (`storage/patch.rs:270`, run `one_leaf_root`).

Other things seen while modelling, without a run of their own.

Tree
- `wait_for_persistence()` and `finalize()` do not return while the `PersistenceThreadHandle`,
  which owns a clone of the sender, is alive (`recovery/mod.rs:305`).
- `prune()` may go on with a database that is not synced when the persistence thread has failed
  but not finished (`storage/parallel.rs:187`); `apply_patch` may collect a failed patch and
  still return `Ok` (`storage/parallel.rs:294`).
- A reader of a version that is being pruned panics in `load_ancestors()`, whose comment says
  that "unwrap() is safe" (`storage/patch.rs:539`); `entries()` still reads a version that was
  rolled back (`getters.rs:70`); `first_retained_version()` is one too high after an empty
  version (`lib.rs:294`). Rolling back to a pruned version finds no root and continues from an
  empty tree (`domain.rs:358`). A chunk that is fed again to random recovery is counted again
  (`storage/mod.rs:369`).
- A pruner that collected its keys before the repair's write deletes nodes in use; a rollback
  while a version is checked may make the repair drop real stale keys, or panic; the repair
  takes the stale key of an empty root's predecessor as bogus. The properties of
  `tree_services` exclude these cases by name (`hasty`, `raced`).
- `trim_start(0)` panics on an empty tree, and `merkle_root()` of an empty tree ignores a
  custom hash of empty leaves (`mini_merkle_tree/src/lib.rs`). `common_prefix` with a shorter
  other key, padded by zeros, can be too long (`types/internal.rs`).

Replay and the verifier
- `finish_batch()` panics when the end of the batch halts before it has asked for the pubdata;
  a comment says that it returns a result also then (`airbender_verifier/src/lib.rs:671`).
- Blocks that do not follow one another, or an empty block before another one, are not refused:
  the assertions of `start_new_l2_block()` panic (`bootloader/state.rs:100`, `l2_blocks.rs:25`).
- A refund set on a transaction pushed before a snapshot, and roots cleared by
  `insert_fictive_l2_block()`, are not restored by `apply_snapshot()`
  (`bootloader/state.rs:363`), which `execute_tx()` never meets; were the last block to have
  transactions, the hook would write the number of roots of the block it adds at the index of
  the block before it (`vm_fast/vm.rs:596`).
- The fast VM never reports that compression failed, while the reference VM may
  (`vm_fast/bytecode.rs:12`).
- The last four words of the space for encoded transactions overlap the slot and the parameters
  of VM hooks (`vm_latest/constants.rs:212`).
- `verify_bytecode_hash` panics for bytecodes with an even number of words, and
  `for_raw_evm_bytecode` truncates the length to 16 bits (`basic_types/src/bytecode.rs`); the
  module's comment at `bytecode.rs:8` says that EVM bytecodes are preceded by their length, which
  the code takes from the hash instead.

The two VMs
- They meter validation differently. The reference VM counts the base price of opcodes and
  aborts at once; the fast VM hides the gas beyond the limit and halts when validation is left.
  An inner call that exhausts its own gas makes the fast VM halt with `ValidationOutOfGas`
  although validation as a whole is within the limit; a panic burns the hidden gas only in the
  reference VM; a panic with no gas left is `BootloaderOutOfGas` in one and `VMPanic` in the
  other.
- When pubdata is requested outside of a whole batch, the fast VM reaches `unreachable!` and the
  reference VM stops; when a refund is asked for twice, the reference VM asserts and the fast
  VM computes it again. The comment at `vm_fast/vm.rs:711` ("Earlier VMs return empty execution
  logs in this case") is not so for an aborted run of the reference VM.
- A failed keccak call leaves its slot allowed in the reference validation tracer only;
  that tracer reads returned data from the start of its page, whatever the pointer's
  offset.
- `current_stack_depth` of the fast call tracer wraps, or panics in debug builds, on near returns
  begun before it was attached (`vm_fast/tracers/calls.rs:98`).
- With signature verification switched off, `has_default_aa` reads the storage before the batch.
- The code oracle's heap is cleared when its caller forwards it and the caller's caller returns;
  a comment says that it is kept alive forever (`old_vm/memory.rs`). The comment at
  `old_vm/oracles/decommitter.rs:97` ("one and only one corresponding event in the history") is
  not so for a code page that is decommitted again.

Fees
- The L1-pegged branch of the adjustment may raise the L1 price when only the base fee is over
  its limit, and its conversion to 64 bits may panic; `l1_gas_price * 17` may wrap;
  `compute_refund` divides by the base fee.

Tools
- An interrupted download leaves a truncated trusted setup, which later downloads report as
  present (`setup_download.rs:44`); an interrupted write of the FRI key makes every `prove-fri`
  fail until `gen-vks` (`fri.rs:308`).
- A key of an older guest is loaded (only the security level is compared) and noticed only when
  a proof does not verify. An interrupted `gen-vks` or `prove-snark` leaves keys, or a proof and
  a key, of different guests; a SNARK key that is given is used as it is.
- Proof files with the same stem outside of `batch-<n>` share an output directory, and so do
  `batch-007` and `batch-7` (`host/src/lib.rs:163`).
- The equality of observed steps is not transitive, although the types are declared `Eq`
  (`vm_compare/src/types.rs`), and memory between the captured head and tail is not compared.

## Not modelled

- The interpreters (`zksync_vm2`, `zk_evm`), the bootloader and the system contracts, hash
  functions, RocksDB, the prover and the SNARK wrapper are outside of this repository. They are
  modelled by how the code uses them: an interpreter takes any step that its interface allows,
  hashes are ideal, a write batch is atomic.
- Transactions and their types (`types/src/transaction_request.rs`, `l1`, `l2`, `abi.rs`,
  `protocol_upgrade.rs`): conversions between ABI, RLP and JSON forms without state, in which
  there is nothing but the layout.
- The cycle model (`cycle_estimator`, `cycle_model`, `cycle_tracer`): a regression over
  floating-point statistics.
- `TreeRangeDigest` (`hasher/proofs.rs`), a hash over sorted leaves folded as they
  arrive; nothing in the verifier uses it. The check of one entry is modelled.
- The prestate and storage-invocation tracers, which nothing in the repository attaches.
- The command `run` of the host, which writes no file, the intermediate artifacts of the wrapper,
  and the resolution of batch numbers to paths.
- Modes and versions that this program never selects: running the bootloader's tip alone, and
  the timestamps of protocol versions before the supported ones.
- Logging, metrics, wording of errors, JSON field order.
