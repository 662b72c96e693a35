--------------------------- MODULE BootloaderState ---------------------------
(***************************************************************************)
(* The bootloader state of both VMs (vm_latest/bootloader): the L2 blocks  *)
(* and transactions of a batch, where the next transaction goes in the     *)
(* bootloader's memory, and the memory itself, written step by step while  *)
(* the batch runs and put together again at its end.                       *)
(*                                                                         *)
(* A transaction is [id, words, deps, l1]: its hash, the length of its     *)
(* encoding, the bytecodes it brings and whether it comes from L1.  An     *)
(* L2BlockEnv is [number, timestamp, prev, virtual, roots].  A memory is a *)
(* sequence of <<slot, value>>; a slot is <<region, offset>>, and the      *)
(* slots of a fixed-size entry of a region are one.  A hash is the term    *)
(* that was hashed.                                                        *)
(***************************************************************************)
EXTENDS Integers, FiniteSets, SequencesExt

\* A heap is a function on the slots written so far.
WriteAll(heap, memory) ==
    FoldLeft(LAMBDA h, write : (write[1] :> write[2]) @@ h, heap, memory)

Indices(s) == [i \in DOMAIN s |-> i]

-----------------------------------------------------------------------------
(***************************************************************************)
(* Blocks.                                                                 *)
(***************************************************************************)
NewL2Block(env, first) ==
    [number |-> env.number, timestamp |-> env.timestamp, prev |-> env.prev,
     virtual |-> env.virtual, roots |-> env.roots,
     rolling |-> <<>>, first |-> first, txs |-> <<>>]

l2_block_hash(block) == <<block.number, block.timestamp, block.prev, block.rolling>>

PushTx(block, tx) ==
    [block EXCEPT !.txs = Append(@, tx), !.rolling = Append(@, tx.tx.id)]

\* The hash of the previous block is not compared.
IsNextBlock_AnyHash(prev, env) ==
    /\ prev.number = 0 \/ env.number = prev.number + 1
    /\ prev.timestamp <= env.timestamp

\* assert_next_block() does not panic.  Blocks may share a timestamp, as since the protocol version
\* with fast blocks (is_pre_interop_fast_blocks() is false).
IsNextBlock(prev, env) ==
    /\ prev.number = 0 \/ env.number = prev.number + 1
    /\ prev.timestamp <= env.timestamp
    /\ env.prev = prev.hash

l2_block(block) ==
    [number |-> block.number, timestamp |-> block.timestamp, hash |-> l2_block_hash(block)]

(***************************************************************************)
(* What a transaction and a block write.  config is <<>>, or for the first *)
(* transaction of a block <<the number of interop roots applied before,    *)
(* the index of the block>>.                                               *)
(***************************************************************************)
apply_interop_roots(block, applied, index) ==
    [i \in DOMAIN block.roots |-> <<<<"root", applied + i - 1>>, <<block.number, block.roots[i]>>>>]
        \o <<<<<<"root_count", index>>, Len(block.roots) + 1>>>>

apply_l2_block(block, tx_index, config) ==
    LET starts == config # <<>>
        info == [number |-> block.number, timestamp |-> block.timestamp, prev |-> block.prev,
                 virtual |-> IF starts THEN block.virtual ELSE 0]
    IN  <<<<<<"block", tx_index>>, info>>>>
            \o IF starts THEN apply_interop_roots(block, config[1], config[2]) ELSE <<>>

AppliedRoots(block, config) == IF config # <<>> THEN Len(block.roots) ELSE 0

apply_tx_to_memory(tx, block, offset, bytecodes_len, tx_index, config) ==
    <<<<<<"description", tx_index>>, offset>>, <<<<"refund", tx_index>>, tx.refund>>>>
        \o [i \in 1..tx.tx.words |-> <<<<"tx", offset + i - 1>>, <<tx.tx, i>>>>]
        \o apply_l2_block(block, tx_index, config)
        \o [i \in DOMAIN tx.compressed |-> <<<<"bytecode", bytecodes_len + i - 1>>, tx.compressed[i]>>]

apply_pubdata_to_memory(pubdata) == <<<<<<"pubdata", 0>>, pubdata>>>>

-----------------------------------------------------------------------------
(***************************************************************************)
(* BootloaderState.  pubdata is <<>> until it is set.                      *)
(***************************************************************************)
NewBootloaderState(env) ==
    [tx_to_execute |-> 0, l2_blocks |-> <<NewL2Block(env, 0)>>, bytecodes_len |-> 0,
     free_tx_offset |-> 0, pubdata |-> <<>>, applied_roots |-> 0]

last_l2_block(bs) == Last(bs.l2_blocks)

WithLastBlock(bs, block) == [bs EXCEPT !.l2_blocks[Len(bs.l2_blocks)] = block]

free_tx_index(bs) == last_l2_block(bs).first + Len(last_l2_block(bs).txs)

get_new_block_config(bs) == <<bs.applied_roots, Len(bs.l2_blocks) - 1>>

\* start_new_l2_block() does not panic.
CanStartBlock(bs, env) ==
    last_l2_block(bs).txs # <<>> /\ IsNextBlock(l2_block(last_l2_block(bs)), env)

push_l2_block(bs, env) ==
    [bs EXCEPT !.l2_blocks = Append(@, NewL2Block(env, free_tx_index(bs)))]

\* push_tx(): the new state, and what is to be written to the heap.
PushedTx(bs, tx, config) ==
    [bs |-> [WithLastBlock(bs, PushTx(last_l2_block(bs), tx)) EXCEPT
                !.bytecodes_len = @ + Len(tx.compressed),
                !.free_tx_offset = @ + tx.tx.words,
                !.applied_roots = @ + AppliedRoots(last_l2_block(bs), config)],
     memory |-> apply_tx_to_memory(tx, last_l2_block(bs), bs.free_tx_offset, bs.bytecodes_len,
                                 free_tx_index(bs), config)]

push_tx(bs, tx, compressed) ==
    PushedTx(bs, [tx |-> tx, compressed |-> compressed, refund |-> 0, offset |-> bs.free_tx_offset],
             IF last_l2_block(bs).txs = <<>> THEN get_new_block_config(bs) ELSE <<>>)

get_last_tx_compressed_bytecodes(bs) ==
    IF last_l2_block(bs).txs = <<>> THEN <<>> ELSE Last(last_l2_block(bs).txs).compressed

\* The assertion that the transaction has been pushed is part of TypeOK of BatchExecution.
move_tx_to_execute_pointer(bs) == [bs EXCEPT !.tx_to_execute = @ + 1]

current_tx(bs) == bs.tx_to_execute - 1

BlockOfTx(bs, index) == Max({i \in DOMAIN bs.l2_blocks : bs.l2_blocks[i].first <= index})

set_refund_for_current_tx(bs, refund) ==
    LET b == BlockOfTx(bs, current_tx(bs))
    IN  [bs EXCEPT !.l2_blocks[b].txs[current_tx(bs) - bs.l2_blocks[b].first + 1].refund = refund]

insert_fictive_l2_block(bs) ==
    LET block == last_l2_block(bs)
    IN  IF block.txs = <<>> THEN WithLastBlock(bs, [block EXCEPT !.roots = <<>>])
        ELSE push_l2_block(bs, [number |-> block.number + 1, timestamp |-> block.timestamp + 1,
                                prev |-> l2_block_hash(block), virtual |-> 1, roots |-> <<>>])

(***************************************************************************)
(* bootloader_memory(): the whole memory, from the blocks and transactions *)
(* alone.                                                                  *)
(***************************************************************************)
\* The restored part of the memory, and the offsets behind it.
RestoreTx(acc, bs, i, n) ==
    LET block == bs.l2_blocks[i]
        tx == block.txs[n]
        config == IF n = 1 THEN <<acc.roots, i - 1>> ELSE <<>>
    IN  [memory |-> acc.memory
            \o apply_tx_to_memory(tx, block, acc.offset, acc.bytecodes, acc.tx_index, config),
         offset |-> acc.offset + tx.tx.words, bytecodes |-> acc.bytecodes + Len(tx.compressed),
         tx_index |-> acc.tx_index + 1, roots |-> acc.roots + AppliedRoots(block, config)]

RestoreEmptyBlock(acc, block, config) ==
    [acc EXCEPT !.memory = @ \o apply_l2_block(block, acc.tx_index, config),
                !.roots = @ + AppliedRoots(block, config)]

bootloader_memory(bs) ==
    LET RestoreBlock(acc, i) ==
            LET block == bs.l2_blocks[i]
            IN  IF block.txs = <<>>
                THEN RestoreEmptyBlock(acc, block, <<acc.roots, Len(bs.l2_blocks) - 1>>)
                ELSE FoldLeft(LAMBDA a, n : RestoreTx(a, bs, i, n), acc, Indices(block.txs))
        start == [memory |-> <<>>, offset |-> 0, bytecodes |-> 0, tx_index |-> 0, roots |-> 0]
    IN  FoldLeft(RestoreBlock, start, Indices(bs.l2_blocks)).memory \o apply_pubdata_to_memory(bs.pubdata[1])

(***************************************************************************)
(* Snapshots.                                                              *)
(***************************************************************************)
get_snapshot(bs) ==
    [tx_to_execute |-> bs.tx_to_execute, l2_blocks_len |-> Len(bs.l2_blocks),
     rolling |-> last_l2_block(bs).rolling, txs_len |-> Len(last_l2_block(bs).txs),
     bytecodes_len |-> bs.bytecodes_len, free_tx_offset |-> bs.free_tx_offset,
     has_pubdata |-> bs.pubdata # <<>>, applied_roots |-> bs.applied_roots]

\* L2BlockSnapshot: the rolling hash and the number of transactions.
RestoredBlock(block, s) ==
    [block EXCEPT !.rolling = s.rolling, !.txs = SubSeq(@, 1, s.txs_len)]

apply_snapshot(bs, s) ==
    [bs EXCEPT !.tx_to_execute = s.tx_to_execute, !.bytecodes_len = s.bytecodes_len,
               !.free_tx_offset = s.free_tx_offset, !.applied_roots = s.applied_roots,
               !.l2_blocks = [SubSeq(@, 1, s.l2_blocks_len) EXCEPT
                                ![s.l2_blocks_len] = RestoredBlock(@, s)],
               !.pubdata = IF s.has_pubdata THEN @ ELSE <<>>]
=============================================================================
