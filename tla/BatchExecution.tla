---------------------------- MODULE BatchExecution ----------------------------
(***************************************************************************)
(* A batch is replayed transaction by transaction, in the fast VM by the   *)
(* verifier (execute_vm, execute_tx) and in the reference VM by the        *)
(* comparison tool, which repeats these steps.  The model has the driver,  *)
(* the VM around the interpreter (pushing transactions, bootloader hooks,  *)
(* snapshots) and the bootloader state.                                    *)
(*                                                                         *)
(* The interpreter and the bootloader it runs are external.  What matters  *)
(* of them: the bootloader takes transactions, blocks, interop roots and   *)
(* compressed bytecodes from its heap, at cursors of its own; it marks     *)
(* bytecodes as known, emits events, calls the hooks, and may halt at any  *)
(* moment.  The result of a transaction is one of "Success", "Revert" and  *)
(* "Halt".  Account validation and its gas are not part of this module.    *)
(***************************************************************************)
EXTENDS BootloaderState

CONSTANTS
    Batches,         \* batches to execute: sequences of [env, txs]
    Stored,          \* the last block in storage: [number, timestamp, hash]
    Incompressible,  \* bytecodes that bytecode::compress() refuses
    Refunds          \* refunds the operator may propose

VARIABLES
    kind,      \* "fast" or "latest"
    batch,     \* the batch that is executed
    pc,        \* where the driver is
    at,        \* <<block, transaction>> being executed
    compress,  \* the transaction is executed with compression
    bs,        \* bootloader_state
    vm,        \* the machine: heap, known bytecodes, world, cursors, timestamp
    history,   \* latest: what the recorders can undo
    snapshots, \* the snapshots that exist
    run,       \* how far the current execution is, and its result
    start      \* history variable: bs and vm before the current transaction

vars == <<kind, batch, pc, at, compress, bs, vm, history, snapshots, run, start>>

Ended == {"accepted", "rejected", "panicked"}

Block == batch[at[1]]
Transaction == Block.txs[at[2]]

-----------------------------------------------------------------------------
(***************************************************************************)
(* Histories of the reference VM.  A recorder notes with every change of   *)
(* its part of the machine when it was made and how to undo it.            *)
(***************************************************************************)
Parts == {"heap", "known", "world"}

\* What is noted when the parts of `after` that differ replace those of vm at time ts.
Recorded(ts, after) ==
    IF kind = "fast" THEN history
    ELSE [p \in Parts |-> IF after[p] = vm[p] THEN history[p]
                          ELSE Append(history[p], [ts |-> ts, undo |-> vm[p]])]

Earlier(records, ts) == SelectSeq(records, LAMBDA r : r.ts < ts)

\* Records of the time itself are kept.
Undone_SameTimeKept(records, ts, current) ==
    LET kept == SelectSeq(records, LAMBDA r : r.ts <= ts)
    IN  IF Len(kept) = Len(records) THEN current ELSE records[Len(kept) + 1].undo

\* rollback_to_timestamp(): everything from ts on is undone.
Undone(records, ts, current) ==
    LET kept == Earlier(records, ts)
    IN  IF Len(kept) = Len(records) THEN current ELSE records[Len(kept) + 1].undo

\* The assertion in apply_historic_record().
Monotonic(records) ==
    \A i, j \in DOMAIN records : i < j => records[i].ts <= records[j].ts

-----------------------------------------------------------------------------
(***************************************************************************)
(* The external bootloader.                                                *)
(***************************************************************************)
NoCursors == [tx |-> 0, bytecode |-> 0, root |-> 0, block |-> 0, number |-> 0]

Holds(slot, value) == slot \in DOMAIN vm.heap /\ vm.heap[slot] = value

\* The block of the next transaction; a new number starts a block, and applies its roots.
StartsBlock(block) == block.number # vm.cursors.number

RootsRead(block) ==
    IF ~ StartsBlock(block) THEN <<>>
    ELSE [i \in 1..(vm.heap[<<"root_count", vm.cursors.block>>] - 1) |-> vm.heap[<<"root", vm.cursors.root + i - 1>>][2]]

MovedCursors(block, roots, txs, bytecodes) ==
    [tx |-> vm.cursors.tx + txs, bytecode |-> vm.cursors.bytecode + bytecodes,
     root |-> vm.cursors.root + Len(roots),
     block |-> vm.cursors.block + (IF StartsBlock(block) THEN 1 ELSE 0), number |-> block.number]

\* For each bytecode of the transaction: it is known, the next compressed one, or published whole.
PublishDep(acc, dep) ==
    CASE dep \in acc.marked -> acc
      [] dep \notin acc.marked /\ Holds(<<"bytecode", vm.cursors.bytecode + Len(acc.compressed)>>, dep) ->
            [acc EXCEPT !.compressed = Append(@, dep), !.marked = @ \union {dep}]
      [] OTHER -> [acc EXCEPT !.requested = @ \union {dep}, !.marked = @ \union {dep}]

Published(tx) ==
    FoldLeft(PublishDep, [compressed |-> <<>>, requested |-> {}, marked |-> vm.world.marked], tx.deps)

\* The transaction at the cursor, if its words are where its description says.
TxRead ==
    LET offset == vm.heap[<<"description", vm.cursors.tx>>]
        tx == vm.heap[<<"tx", offset>>][1]
    IN  IF \A i \in 1..tx.words : Holds(<<"tx", offset + i - 1>>, <<tx, i>>) THEN tx ELSE [tx EXCEPT !.id = "broken"]

Event(tx, block, roots, compressed, requested) ==
    [tx |-> tx, block |-> <<block.number, block.timestamp, block.prev, block.virtual>>,
     roots |-> roots, compressed |-> compressed, requested |-> requested]

-----------------------------------------------------------------------------
(***************************************************************************)
(* Pushing a transaction.                                                  *)
(***************************************************************************)
\* compress_bytecodes(): each unknown bytecode once, in the order of first occurrence.
compress_bytecodes(deps, marked) ==
    LET first == SelectSeq(Indices(deps), LAMBDA i : \A j \in 1..(i - 1) : deps[j] # deps[i])
        kept == SelectSeq(first, LAMBDA i : deps[i] \notin marked \union Incompressible)
    IN  [i \in DOMAIN kept |-> deps[kept[i]]]

CompressedBytecodes(tx, marked, with_compression) ==
    IF tx.l1 \/ ~ with_compression THEN <<>> ELSE compress_bytecodes(tx.deps, marked)

\* push_transaction_inner(), push_raw_transaction(): the machine after the push.
PushedVm(machine, tx, memory) ==
    [machine EXCEPT !.heap = WriteAll(@, memory), !.known = @ \union Range(tx.deps)]

PushedOn(state, machine, tx, with_compression) ==
    push_tx(state, tx, CompressedBytecodes(tx, machine.world.marked, with_compression))

Running(stage) == [stage |-> stage, result |-> "none"]

\* inspect_transaction_with_bytecode_compression() up to the first step of the machine.
PushAndStart(machine, tx, pushed) ==
    /\ bs' = move_tx_to_execute_pointer(pushed.bs)
    /\ vm' = PushedVm(machine, tx, pushed.memory)
    /\ run' = Running("tx")
    /\ pc' = "run"

-----------------------------------------------------------------------------
(***************************************************************************)
(* Snapshots.  The fast VM copies the interpreter, but for its caches of   *)
(* bytecodes; the reference VM keeps its registers and the time.           *)
(***************************************************************************)
Snapshot ==
    [bootloader |-> get_snapshot(bs), cursors |-> vm.cursors, ts |-> vm.ts,
     heap |-> IF kind = "fast" THEN vm.heap ELSE <<>>,
     world |-> IF kind = "fast" THEN vm.world ELSE <<>>]

RolledBackVm(s) ==
    IF kind = "fast"
    THEN [vm EXCEPT !.heap = s.heap, !.world = s.world, !.cursors = s.cursors, !.ts = s.ts]
    ELSE [heap |-> Undone(history.heap, s.ts, vm.heap), known |-> Undone(history.known, s.ts, vm.known),
          world |-> Undone(history.world, s.ts, vm.world), cursors |-> s.cursors, ts |-> s.ts]

RolledBackHistory(s) ==
    [p \in Parts |-> IF kind = "fast" THEN history[p] ELSE Earlier(history[p], s.ts)]

-----------------------------------------------------------------------------
(***************************************************************************)
(* The driver: execute_vm() and execute_tx().                              *)
(***************************************************************************)
EmptyVm ==
    [heap |-> <<>>, known |-> {}, world |-> [marked |-> {}, events |-> <<>>],
     cursors |-> NoCursors, ts |-> 1]

Init ==
    /\ kind \in {"fast", "latest"}
    /\ batch \in Batches
    /\ pc = "start"
    /\ at = <<1, 1>>
    /\ compress = TRUE
    /\ bs = NewBootloaderState(batch[1].env)
    /\ vm = EmptyVm
    /\ history = [p \in Parts |-> <<>>]
    /\ snapshots = <<>>
    /\ run = Running("none")
    /\ start = <<>>

\* new_vm_state() of the reference VM checks the first block; execute_vm() of the verifier that the
\* last one has no transactions (the comparison tool leaves them out).
Start ==
    /\ pc = "start"
    /\ pc' = CASE kind = "fast" -> IF Last(batch).txs = <<>> THEN "next" ELSE "rejected"
               [] kind = "latest" -> IF IsNextBlock(Stored, batch[1].env) THEN "next" ELSE "panicked"
    /\ UNCHANGED <<kind, batch, at, compress, bs, vm, history, snapshots, run, start>>

\* make_snapshot(), which the fast VM refuses while there is one, and the first attempt.
ExecuteTx ==
    /\ pc = "next" /\ at[1] < Len(batch) /\ at[2] <= Len(Block.txs)
    /\ IF kind = "fast" /\ snapshots # <<>>
       THEN pc' = "panicked" /\ UNCHANGED <<bs, vm, run, snapshots, start, compress>>
       ELSE /\ snapshots' = Append(snapshots, Snapshot)
            /\ start' = [bs |-> bs, vm |-> vm]
            /\ compress' = TRUE
            /\ \E pushed \in {PushedOn(bs, vm, Transaction, TRUE)} : PushAndStart(vm, Transaction, pushed)
    /\ history' = Recorded(vm.ts, vm')
    /\ UNCHANGED <<kind, batch, at>>

StartBlock ==
    /\ pc = "next" /\ at[1] < Len(batch) /\ at[2] > Len(Block.txs)
    /\ \E next \in {batch[at[1] + 1].env} :
          IF CanStartBlock(bs, next)
          THEN bs' = push_l2_block(bs, next) /\ at' = <<at[1] + 1, 1>> /\ pc' = pc
          ELSE pc' = "panicked" /\ UNCHANGED <<bs, at>>
    /\ UNCHANGED <<kind, batch, compress, vm, history, snapshots, run, start>>

FinishBatch ==
    /\ pc = "next" /\ at[1] = Len(batch)
    /\ pc' = "run"
    /\ run' = Running("tip")
    /\ UNCHANGED <<kind, batch, at, compress, bs, vm, history, snapshots, start>>

-----------------------------------------------------------------------------
(***************************************************************************)
(* The run loop: steps of the external bootloader and the hooks.  A write  *)
(* of the machine and the operator's refund carry the time of the cycle,   *)
(* the other writes of the operator the time after it.                     *)
(***************************************************************************)
InRun(stages) == pc = "run" /\ run.stage \in stages

\* The bootloader takes the next transaction; marking its bytecodes may fail.
ProcessTx ==
    /\ InRun({"tx"})
    /\ \E tx \in {TxRead}, block \in {vm.heap[<<"block", vm.cursors.tx>>]}, ok \in BOOLEAN :
       \E roots \in {RootsRead(block)}, published \in {Published(tx)} :
          /\ ok \/ tx.deps # <<>>
          /\ vm' = [vm EXCEPT
                      !.world.events = Append(@, Event(tx, block, roots, published.compressed,
                                                       IF ok THEN published.requested ELSE {})),
                      !.world.marked = IF ok THEN published.marked ELSE @,
                      !.cursors = MovedCursors(block, roots, 1, Len(published.compressed)),
                      !.ts = @ + 1]
    /\ history' = Recorded(vm.ts, vm')
    /\ run' = Running("processed")
    /\ UNCHANGED <<kind, batch, pc, at, compress, bs, snapshots, start>>

\* The refund is not set in the bootloader state.
AskOperatorForRefund_Forgotten ==
    /\ InRun({"processed"})
    /\ \E refund \in Refunds :
          vm' = [vm EXCEPT !.heap = WriteAll(@, <<<<<<"refund", current_tx(bs)>>, refund>>>>), !.ts = @ + 1]
    /\ history' = Recorded(vm.ts, vm')
    /\ run' = Running("refunded")
    /\ UNCHANGED <<kind, batch, pc, at, compress, bs, snapshots, start>>

AskOperatorForRefund ==
    /\ InRun({"processed"})
    /\ \E refund \in Refunds :
          /\ vm' = [vm EXCEPT !.heap = WriteAll(@, <<<<<<"refund", current_tx(bs)>>, refund>>>>), !.ts = @ + 1]
          /\ bs' = set_refund_for_current_tx(bs, refund)
    /\ history' = Recorded(vm.ts, vm')
    /\ run' = Running("refunded")
    /\ UNCHANGED <<kind, batch, pc, at, compress, snapshots, start>>

\* PostResult and TxHasEnded: the result posted, or the one in the heap.
TxHasEnded ==
    /\ InRun({"processed", "refunded"})
    /\ run' \in [stage : {"ended"}, result : {"Success", "Revert"}]
    /\ vm' = [vm EXCEPT !.ts = @ + 1]
    /\ pc' = "result"
    /\ UNCHANGED <<kind, batch, at, compress, bs, history, snapshots, start>>

\* The block that ends the batch.
FinalBatchInfo ==
    /\ InRun({"tip"})
    /\ bs' = insert_fictive_l2_block(bs)
    /\ vm' = [vm EXCEPT !.heap = WriteAll(@, apply_l2_block(last_l2_block(bs'), free_tx_index(bs),
                                                            get_new_block_config(bs))),
                        !.ts = @ + 1]
    /\ history' = Recorded(vm.ts + 1, vm')
    /\ run' = Running("tip_block")
    /\ UNCHANGED <<kind, batch, pc, at, compress, snapshots, start>>

NoTx == [id |-> "tip", words |-> 0, deps |-> <<>>, l1 |-> FALSE]

\* The bootloader takes the last block.
ProcessTip ==
    /\ InRun({"tip_block"})
    /\ \E block \in {vm.heap[<<"block", vm.cursors.tx>>]} :
       \E roots \in {RootsRead(block)} :
          vm' = [vm EXCEPT !.world.events = Append(@, Event(NoTx, block, roots, <<>>, {})),
                           !.cursors = MovedCursors(block, roots, 0, 0), !.ts = @ + 1]
    /\ history' = Recorded(vm.ts, vm')
    /\ run' = Running("tip_done")
    /\ UNCHANGED <<kind, batch, pc, at, compress, bs, snapshots, start>>

\* The bytecodes whose publication was requested must be in the VM's own store.
PubdataRequested ==
    /\ InRun({"tip_done"})
    /\ \E requested \in {UNION {vm.world.events[i].requested : i \in DOMAIN vm.world.events}} :
          IF bs.pubdata = <<>> /\ requested \subseteq vm.known
          THEN /\ bs' = [bs EXCEPT !.pubdata = <<<<requested, vm.world.marked>>>>]
               /\ vm' = [vm EXCEPT !.heap = WriteAll(@, apply_pubdata_to_memory(<<requested, vm.world.marked>>)),
                                   !.ts = @ + 1]
               /\ run' = Running("pubdata")
               /\ pc' = pc
          ELSE pc' = "panicked" /\ UNCHANGED <<bs, vm, run>>
    /\ history' = Recorded(vm'.ts, vm')
    /\ UNCHANGED <<kind, batch, at, compress, snapshots, start>>

ProgramFinished ==
    /\ InRun({"pubdata"})
    /\ run' = [stage |-> "ended", result |-> "Success"]
    /\ pc' = "finished"
    /\ UNCHANGED <<kind, batch, at, compress, bs, vm, history, snapshots, start>>

\* The bootloader reverts or panics, or a tracer stops it.
Halts ==
    /\ InRun({"tx", "processed", "refunded", "tip", "tip_block", "tip_done", "pubdata"})
    /\ run' = [stage |-> "ended", result |-> "Halt"]
    /\ pc' = IF run.stage \in {"tx", "processed", "refunded"} THEN "result" ELSE "finished"
    /\ UNCHANGED <<kind, batch, at, compress, bs, vm, history, snapshots, start>>

-----------------------------------------------------------------------------
(***************************************************************************)
(* What the driver does with a result.                                     *)
(***************************************************************************)
\* has_unpublished_bytecodes(): the fast VM looks into its cache, the reference VM into storage.
has_unpublished_bytecodes ==
    ~ (Range(get_last_tx_compressed_bytecodes(bs)) \subseteq IF kind = "fast" THEN vm.known ELSE vm.world.marked)

\* Compression worked, or was not asked for.  A halt is refused by the verifier (the comparison tool
\* goes on, which is not modelled).  After a rollback there is no snapshot to pop.
TxResult ==
    /\ pc = "result" /\ ~ has_unpublished_bytecodes
    /\ IF run.result = "Halt"
       THEN pc' = "rejected" /\ UNCHANGED <<at, snapshots>>
       ELSE /\ pc' = "next"
            /\ at' = <<at[1], at[2] + 1>>
            /\ snapshots' = IF compress THEN Front(snapshots) ELSE snapshots
    /\ UNCHANGED <<kind, batch, compress, bs, vm, history, run, start>>

\* rollback_to_the_latest_snapshot() and the second attempt, whatever the first one's result was.
RollBackAndRetry(s) ==
    /\ \E old \in {apply_snapshot(bs, s.bootloader)}, machine \in {RolledBackVm(s)}, noted \in {RolledBackHistory(s)} :
       \E pushed \in {PushedOn(old, machine, Transaction, FALSE)} :
          /\ PushAndStart(machine, Transaction, pushed)
          /\ history' = [p \in Parts |->
                IF kind = "fast" \/ vm'[p] = machine[p] THEN noted[p]
                ELSE Append(noted[p], [ts |-> machine.ts, undo |-> machine[p]])]
    /\ snapshots' = Front(snapshots)
    /\ compress' = FALSE

\* Compression failed; "compression can't fail if we don't apply it".
CompressionFailed ==
    /\ pc = "result" /\ has_unpublished_bytecodes
    /\ IF compress THEN RollBackAndRetry(Last(snapshots))
       ELSE pc' = "rejected" /\ UNCHANGED <<bs, vm, run, history, snapshots, compress>>
    /\ UNCHANGED <<kind, batch, at, start>>

\* finish_batch() needs the pubdata; execute_vm() wants the batch to have been finished.
Finish ==
    /\ pc = "finished"
    /\ pc' = CASE bs.pubdata = <<>> -> "panicked"
               [] bs.pubdata # <<>> -> IF run.result = "Success" THEN "accepted" ELSE "rejected"
    /\ UNCHANGED <<kind, batch, at, compress, bs, vm, history, snapshots, run, start>>

\* Nothing is left to do.
Done == pc \in Ended /\ UNCHANGED vars

Next ==
    \/ Start \/ ExecuteTx \/ StartBlock \/ FinishBatch
    \/ ProcessTx \/ AskOperatorForRefund \/ TxHasEnded
    \/ FinalBatchInfo \/ ProcessTip \/ PubdataRequested \/ ProgramFinished \/ Halts
    \/ TxResult \/ CompressionFailed \/ Finish
    \/ Done

Spec == Init /\ [][Next]_vars

-----------------------------------------------------------------------------
(***************************************************************************)
(* Properties.                                                             *)
(***************************************************************************)

\* The blocks follow each other, and only the last one has no transactions.
Linked(blocks) ==
    \A i \in 1..(Len(blocks) - 1) :
        \E env \in {blocks[i].env}, next \in {blocks[i + 1].env}, txs \in {blocks[i].txs} :
            /\ txs # <<>>
            /\ next.number = env.number + 1
            /\ next.timestamp >= env.timestamp
            /\ next.prev = <<env.number, env.timestamp, env.prev, [j \in DOMAIN txs |-> txs[j].id]>>

\* What the bootloader should have been given of a block.
GivenOf(block, txs) ==
    [i \in DOMAIN txs |->
        [tx |-> txs[i],
         block |-> <<block.env.number, block.env.timestamp, block.env.prev, IF i = 1 THEN block.env.virtual ELSE 0>>,
         roots |-> IF i = 1 /\ txs[i] # NoTx THEN block.env.roots ELSE <<>>]]

Given(blocks) ==
    FoldLeft(LAMBDA acc, block : acc \o GivenOf(block, block.txs), <<>>, Front(blocks))
        \o GivenOf(Last(blocks), <<NoTx>>)

\* A batch is accepted only when its blocks form a chain, and then the bootloader has executed
\* each transaction once, in order, in its block, with the interop roots of the block at the
\* first one, and has found for each the compressed bytecodes that were pushed with it, whatever
\* attempts were rolled back (execute_vm, push_tx, apply_snapshot).
ExecutedAsGiven ==
    pc = "accepted" =>
        /\ Linked(batch)
        /\ \E events \in {vm.world.events} :
              [i \in DOMAIN events |-> [tx |-> events[i].tx, block |-> events[i].block, roots |-> events[i].roots]]
                  = Given(batch)
        /\ \A i \in 0..(free_tx_index(bs) - 1) :
              \E b \in {BlockOfTx(bs, i)} :
                  vm.world.events[i + 1].compressed = bs.l2_blocks[b].txs[i - bs.l2_blocks[b].first + 1].compressed

\* "Keeps tracking everything related to the bootloader memory and can restore the whole memory"
\* (bootloader/state.rs): at the end of a batch the memory put together from the blocks and
\* transactions is what the hooks and pushes have left in the live heap.  The verifier commits
\* to the former.
HeapIsRestored ==
    pc = "finished" /\ bs.pubdata # <<>> => WriteAll(<<>>, bootloader_memory(bs)) = vm.heap

\* When a transaction is tried again, the machine and the bootloader state are as if the first
\* attempt had not been made (rollback_to_snapshot, apply_snapshot), but for the fast VM's cache.
RetryStartsAfresh ==
    pc = "run" /\ run.stage = "tx" /\ ~ compress =>
        \E pushed \in {PushedOn(start.bs, start.vm, Transaction, FALSE)} :
           /\ bs = move_tx_to_execute_pointer(pushed.bs)
           /\ \E fresh \in {PushedVm(start.vm, Transaction, pushed.memory)} :
                 IF kind = "fast" THEN [vm EXCEPT !.known = fresh.known] = fresh ELSE vm = fresh

\* No assertion fails and nothing is unwrapped in vain on a chain of blocks, unless the end of
\* the batch halts before the pubdata is provided: bytecodes to be published are there, snapshots
\* are used up before the next one is made (vm_interface/src/vm.rs: "a VM instance has at most one
\* snapshot"), timestamps of records are monotonic.
NeverPanics ==
    /\ Len(snapshots) <= 1
    /\ pc = "panicked" /\ Linked(batch) /\ IsNextBlock(Stored, batch[1].env) =>
           run.result = "Halt"
    /\ \A p \in Parts : Monotonic(history[p])

\* A second attempt is the last one ("compression can't fail if we don't apply it"), and in the
\* fast VM, whose cache holds every bytecode pushed (world.rs: "the cache lookup alone decides
\* it"), there is none.
RetriesOnce ==
    /\ pc = "result" /\ has_unpublished_bytecodes => compress
    /\ kind = "fast" => compress

\* A transaction is tried again at most once and from where the first attempt began, and no
\* assertion of the driver or of the VMs fails on the way (execute_vm, push_tx,
\* rollback_to_snapshot).
RetriesAreClean ==
    /\ RetryStartsAfresh
    /\ RetriesOnce
    /\ NeverPanics

-----------------------------------------------------------------------------
(***************************************************************************)
(* The instance that is checked: up to three blocks and three transactions, *)
(* which share bytecodes, repeat them, come from L1 or bring nothing, in    *)
(* blocks with zero to two interop roots, and batches whose blocks do not   *)
(* fit.                                                                     *)
(***************************************************************************)
\* Transactions: without bytecodes, with two, from L1, with one twice.
TxA == [id |-> "a", words |-> 1, deps |-> <<>>, l1 |-> FALSE]
TxB == [id |-> "b", words |-> 2, deps |-> <<"d1", "d2">>, l1 |-> FALSE]
TxC == [id |-> "c", words |-> 1, deps |-> <<"d2">>, l1 |-> TRUE]
TxD == [id |-> "d", words |-> 1, deps |-> <<"d3", "d1", "d3", "big">>, l1 |-> FALSE]

MCStored == [number |-> 4, timestamp |-> 1, hash |-> <<"stored">>]
MCIncompressible == {"big"}

Env(number, timestamp, prev, roots) ==
    [number |-> number, timestamp |-> timestamp, prev |-> prev, virtual |-> 1, roots |-> roots]

HashOf(block) ==
    <<block.env.number, block.env.timestamp, block.env.prev, [i \in DOMAIN block.txs |-> block.txs[i].id]>>

\* The chain of blocks with these transactions, roots and timestamps, upon the stored one.
Chain(txs, roots, times) ==
    FoldLeft(LAMBDA acc, i :
                Append(acc, [env |-> Env(4 + i, times[i], IF i = 1 THEN MCStored.hash ELSE HashOf(acc[i - 1]), roots[i]),
                             txs |-> txs[i]]),
             <<>>, Indices(txs))

Honest ==
    {Chain(<<<<TxB, TxD>>, <<TxC>>, <<>>>>, <<<<"r1">>, <<"r2", "r3">>, <<"r4">>>>, <<2, 2, 3>>),
     Chain(<<<<TxA>>, <<TxB, TxC>>, <<>>>>, <<<<>>, <<"r1">>, <<>>>>, <<2, 3, 3>>),
     Chain(<<<<TxD, TxB, TxB>>, <<>>>>, <<<<"r1", "r2">>, <<"r3">>>>, <<1, 2>>),
     Chain(<<<<>>>>, <<<<"r1">>>>, <<2>>)}

Two == Chain(<<<<TxB>>, <<TxC>>, <<>>>>, <<<<>>, <<"r1">>, <<>>>>, <<2, 3, 3>>)

Malformed ==
    {Chain(<<<<TxA>>, <<TxC>>>>, <<<<>>, <<>>>>, <<2, 3>>),
     Chain(<<<<TxA>>, <<>>, <<>>>>, <<<<>>, <<>>, <<>>>>, <<2, 3, 3>>),
     Chain(<<<<TxA>>, <<>>>>, <<<<>>, <<>>>>, <<3, 2>>),
     [Two EXCEPT ![1].env.prev = <<"other">>],
     [Two EXCEPT ![2].env.number = 7],
     [Two EXCEPT ![2].env.prev = <<"other">>],
     [Two EXCEPT ![3].env.prev = HashOf(Two[1])]}

MCBatches == Honest \union Malformed
=============================================================================
