----------------------------- MODULE FastVmWorld ----------------------------
(***************************************************************************)
(* What the fast VM sees of the world (vm_fast/world.rs): the storage       *)
(* before the batch and the bytecodes, from three sources, with a cache of  *)
(* decoded programs in front of them.  The caches only grow: they are not   *)
(* part of a snapshot, and a transaction that is rolled back leaves its     *)
(* entries behind.                                                          *)
(*                                                                         *)
(* The VM around it is external: its storage changes (diff) are undone with *)
(* a frame, a transaction or an attempt; the system contracts mark          *)
(* bytecodes as known, deploy only known ones and let only known ones be    *)
(* read; the witness has the code of everything that is known or deployed   *)
(* before the batch, except the default account and the emulator.           *)
(***************************************************************************)
EXTENDS Bytecodes, StorageView

CONSTANTS
    EraCodes,           \* factory dependencies of transactions
    EvmCodes,           \* raw EVM bytecodes that contracts deploy
    SnapshotCodes,      \* bytecodes of the storage before the batch
    DefaultAccount,     \* the bytecode of an account without code
    Accounts,
    Contracts,          \* the accounts that have code before the batch
    MaxWorldSteps       \* bound on the operations inside transactions

ASSUME WorldAssumption ==
    /\ EraCodes \union SnapshotCodes \union {DefaultAccount} \subseteq Seq(0..(CodeByte - 1))
    /\ EvmCodes \subseteq Seq(0..(CodeByte - 1))
    /\ \A c \in EvmCodes : Len(pad_evm_bytecode(c)) <= MAX_BYTECODE_LENGTH_BYTES
    /\ \A c \in EraCodes \union SnapshotCodes \union {DefaultAccount} : validate_bytecode(c)
    /\ Contracts \subseteq Accounts /\ (Contracts # {} => SnapshotCodes # {})
    /\ MaxWorldSteps \in Nat

VARIABLES
    world,      \* dynamic_bytecodes, program_cache, bytecode_cache, expected_ecrecover_call
    view,       \* the storage view under it
    diff,       \* the changes of storage: hashes marked as known and codes of accounts
    tx,         \* the transaction that is executed, or NoWorldTx
    marked,     \* hashes marked as known by events of the transaction
    served,     \* the last bytecode served: what was asked for and what was returned
    deps,       \* dynamic_factory_deps of the last result
    world_steps

world_vars == <<world, view, diff, tx, marked, served, deps, world_steps>>

NoWorldTx == <<>>

NothingServed == [hash |-> <<>>, code |-> <<>>]

EraHashes == {for_bytecode(c) : c \in EraCodes}

EvmHash(raw) == for_raw_evm_bytecode(raw)

CodeSlot(account) == <<"code", account>>

\* The slots of the storage before the batch that are read: the code of the accounts.
Snapshot ==
    [slot \in {CodeSlot(a) : a \in Accounts} |-> IF slot[2] \in Contracts THEN <<1, 1>> ELSE <<>>]

ContractHash == for_bytecode(CHOOSE c \in SnapshotCodes : TRUE)

load_factory_dep(hash) ==
    LET found == {c \in SnapshotCodes : for_bytecode(c) = hash}
    IN  IF found = {} THEN <<>> ELSE <<CHOOSE c \in found : TRUE>>

\* Does the VM, with its changes on top of the storage, know the bytecode?
IsKnown(hash) ==
    hash \in diff.known \union {for_bytecode(c) : c \in SnapshotCodes \union {DefaultAccount}}

HasCode(account) == account \in DOMAIN diff.code \union Contracts

CodeOf(account) ==
    IF account \in DOMAIN diff.code THEN diff.code[account]
    ELSE IF account \in Contracts THEN ContractHash ELSE for_bytecode(DefaultAccount)

-----------------------------------------------------------------------------
(***************************************************************************)
(* World.                                                                   *)
(***************************************************************************)
\* Program::new() keeps whole words.
Program(bytes) == CodeChunks(bytes, CodeWordLen)

code_page_bytes(program) == be_words_to_bytes(program)

NewWorld ==
    [dynamic_bytecodes |-> NoKeys,
     program_cache |-> With(NoKeys, for_bytecode(DefaultAccount), Program(DefaultAccount)),
     bytecode_cache |-> NoKeys, expected_ecrecover_call |-> <<>>]

raw_bytecode(w, hash) ==
    IF hash \in DOMAIN w.bytecode_cache THEN <<"ok", w.bytecode_cache[hash]>>
    ELSE IF hash \in DOMAIN w.dynamic_bytecodes THEN <<"ok", w.dynamic_bytecodes[hash]>>
    ELSE IF load_factory_dep(hash) # <<>> THEN <<"ok", load_factory_dep(hash)[1]>>
    ELSE CodePanic

\* Returns the words of the program.
decommit(w, hash) ==
    LET raw == raw_bytecode(w, hash)
    IN  IF hash \in DOMAIN w.program_cache THEN [result |-> <<"ok", w.program_cache[hash]>>, world |-> w]
        ELSE IF raw = CodePanic THEN [result |-> CodePanic, world |-> w]
        ELSE [result |-> <<"ok", Program(raw[2])>>,
              world |-> [w EXCEPT !.program_cache = With(@, hash, Program(raw[2]))]]

decommit_code(w, hash) ==
    LET raw == raw_bytecode(w, hash)
    IN  IF hash \in DOMAIN w.program_cache THEN <<"ok", code_page_bytes(w.program_cache[hash])>>
        ELSE IF raw = CodePanic THEN CodePanic
        ELSE <<"ok", SubSeq(raw[2], 1, Len(raw[2]) - (Len(raw[2]) % CodeWordLen))>>

\* Variant: every bytecode of the cache is reported.
decommit_dynamic_bytecodes_All(w, hashes) == w.dynamic_bytecodes

\* Only of the hashes that the events of the result mark as known.
decommit_dynamic_bytecodes(w, hashes) ==
    [h \in hashes \intersect DOMAIN w.dynamic_bytecodes |-> w.dynamic_bytecodes[h]]

\* Reads the storage before the batch, without the changes of the VM.
has_default_aa(v, account) == ImmutableRead(Snapshot, v, CodeSlot(account))

\* What the recovery itself returns for a signature: its signer.
Recovered(input) == input.signer

\* ecrecover; another precompile is not touched.
call_precompile(w, input) ==
    IF w.expected_ecrecover_call # <<>> /\ w.expected_ecrecover_call[1].input = input
    THEN w.expected_ecrecover_call[1].output ELSE Recovered(input)

\* insert_bytecodes_with_hashes(): the hashes were made from the bytecodes.
insert_bytecodes(w, codes) ==
    LET hashes == {for_bytecode(c) : c \in codes}
    IN  [w EXCEPT !.bytecode_cache =
            [h \in DOMAIN @ \union hashes |->
                IF h \in hashes THEN CHOOSE c \in codes : for_bytecode(c) = h ELSE @[h]]]

\* "must be reset on each transaction".
ExpectedCall(needs_default_aa_check, code_value, call) ==
    IF needs_default_aa_check /\ code_value = 0 THEN <<call>> ELSE <<>>

\* EvmDeployTracer: a call of publishEVMBytecode() with a padded bytecode and its raw length.
handle_far_call(w, raw_len, published) ==
    [w EXCEPT !.dynamic_bytecodes = With(@, for_evm_bytecode(raw_len, published), published)]

-----------------------------------------------------------------------------
(***************************************************************************)
(* Transactions.                                                            *)
(***************************************************************************)
WorldInit ==
    /\ world = NewWorld
    /\ view = NewView
    /\ diff = [known |-> {}, code |-> NoKeys]
    /\ tx = NoWorldTx /\ marked = {} /\ served = NothingServed /\ deps = NoKeys /\ world_steps = 0

\* The rest of push_transaction_inner().  An account without code signs for itself; a
\* contract may accept the signature of someone else.  skip is skip_signature_verification.
PushTransaction(account, codes, signer, skip) ==
    /\ tx = NoWorldTx
    /\ signer # account => HasCode(account)
    /\ \E input \in {[account |-> account, signer |-> signer]} :
       \E read \in {IF skip THEN has_default_aa(view, account) ELSE [value |-> 1, view |-> view]} :
        /\ tx' = [account |-> account, codes |-> codes, input |-> input, before |-> diff]
        /\ world' = [insert_bytecodes(world, codes) EXCEPT !.expected_ecrecover_call =
                        ExpectedCall(skip, read.value, [input |-> input, output |-> account])]
        /\ view' = read.view
    /\ marked' = {} /\ UNCHANGED <<diff, served, deps>>

\* The bootloader marks a factory dependency of the transaction.
MarkAsKnown(code) ==
    /\ tx # NoWorldTx /\ code \in tx.codes
    /\ diff' = [diff EXCEPT !.known = @ \union {for_bytecode(code)}]
    /\ marked' = marked \union {for_bytecode(code)}
    /\ UNCHANGED <<world, view, tx, served, deps>>

\* A contract deploys an EVM bytecode.
PublishEvmBytecode(raw) ==
    /\ tx # NoWorldTx
    /\ world' = handle_far_call(world, Len(raw), pad_evm_bytecode(raw))
    /\ diff' = [diff EXCEPT !.known = @ \union {EvmHash(raw)}]
    /\ marked' = marked \union {EvmHash(raw)}
    /\ UNCHANGED <<view, tx, served, deps>>

Deploy(account, hash) ==
    /\ tx # NoWorldTx /\ IsKnown(hash) /\ ~HasCode(account)
    /\ diff' = [diff EXCEPT !.code = With(@, account, hash)]
    /\ UNCHANGED <<world, view, tx, marked, served, deps>>

\* A far call gets the hash from the account; one without code runs the default account.
CallAccount(account) ==
    LET hash == CodeOf(account)
    IN  /\ tx # NoWorldTx
        /\ hash[2] = "EraVm"
        /\ \E d \in {decommit(world, hash)} :
            /\ world' = d.world
            /\ served' = [hash |-> hash, code |-> IF d.result = CodePanic THEN CodePanic
                                                 ELSE <<"ok", code_page_bytes(d.result[2])>>]
        /\ UNCHANGED <<view, diff, tx, marked, deps>>

\* The code oracle checks that the bytecode is known.
CodeOracle(hash) ==
    /\ tx # NoWorldTx /\ IsKnown(hash)
    /\ served' = [hash |-> hash, code |-> decommit_code(world, hash)]
    /\ UNCHANGED <<world, view, diff, tx, marked, deps>>

\* Everything since the start is undone: the transaction reverts, or a frame that did all of it.
Revert ==
    /\ tx # NoWorldTx /\ diff # tx.before
    /\ diff' = tx.before /\ marked' = {}
    /\ UNCHANGED <<world, view, tx, served, deps>>

\* The result of inspect_inner().
EndTransaction ==
    /\ tx # NoWorldTx
    /\ deps' = decommit_dynamic_bytecodes(world, marked)
    /\ tx' = NoWorldTx
    /\ UNCHANGED <<world, view, diff, marked, served>>

WorldNext ==
    /\ world_steps < MaxWorldSteps
    /\ world_steps' = world_steps + 1
    /\ \/ \E account, signer \in Accounts, codes \in {{}} \union {{c} : c \in EraCodes}, skip \in BOOLEAN :
            PushTransaction(account, codes, signer, skip)
       \/ \E code \in EraCodes : MarkAsKnown(code)
       \/ \E raw \in EvmCodes : PublishEvmBytecode(raw)
       \/ \E account \in Accounts, hash \in EraHashes \union {EvmHash(c) : c \in EvmCodes} : Deploy(account, hash)
       \/ \E account \in Accounts : CallAccount(account)
       \/ \E hash \in diff.known \union {for_bytecode(c) : c \in SnapshotCodes \union {DefaultAccount}} :
            CodeOracle(hash)
       \/ Revert \/ EndTransaction

WorldSpec == WorldInit /\ [][WorldNext]_world_vars

-----------------------------------------------------------------------------
\* What a hash is asked for is there and is its bytecode, in whole words, whichever source
\* it comes from and whatever was left in the caches by transactions that were undone;
\* code pages and raw code agree (raw_bytecode(), decommit(), decommit_code()).
ServedCodeHasItsHash ==
    served.hash # <<>> =>
        /\ served.code # CodePanic
        /\ IF served.hash[2] = "EraVm" THEN for_bytecode(served.code[2]) = served.hash
           ELSE for_evm_bytecode(served.hash[3], served.code[2]) = served.hash

\* Everything a contract can get at can be decommitted, in every state, although the storage
\* is rolled back and the caches are not.
ReachableCodeIsThere ==
    \A hash \in diff.known \union {CodeOf(a) : a \in Accounts} : decommit_code(world, hash) # CodePanic

\* The bytecodes that a result reports are the EVM bytecodes that the transaction published
\* and did not revert, none from the cache of an earlier one: the next batch finds
\* them (decommit_dynamic_bytecodes(); the tracer does not know of reverts).
DynamicDepsAreKept ==
    tx = NoWorldTx =>
        /\ DOMAIN deps = {h \in marked : h[2] = "Evm"}
        /\ \A h \in DOMAIN deps : h \in diff.known /\ for_evm_bytecode(h[3], deps[h]) = h

\* Every signature is answered with its signer during a transaction, whether the answer is
\* computed or prepared, and whether or not the account is a contract, unless the account was
\* deployed in this batch: has_default_aa() reads the storage before it
\* (call_precompile(), push_transaction_inner()).
PreparedRecoveryIsRight ==
    tx # NoWorldTx /\ tx.account \notin DOMAIN diff.code =>
        \A signer \in Accounts :
            LET input == [tx.input EXCEPT !.signer = signer]
            IN  call_precompile(world, input) = signer

\* The fast VM's world finds the code and the signers that a transaction needs, and reports the
\* bytecodes it has left, though its caches outlive what is rolled back (World, DynamicBytecodes).
CodeIsServed ==
    /\ ServedCodeHasItsHash
    /\ ReachableCodeIsThere
    /\ DynamicDepsAreKept
    /\ PreparedRecoveryIsRight
=============================================================================
