----------------------------- MODULE ReferenceVm -----------------------------
(***************************************************************************)
(* The state of the reference virtual machine (multivm vm_latest): the     *)
(* oracles, the call stack, the snapshots and the tracer that counts       *)
(* circuit cycles.  The opcode semantics belong to zk_evm; a cycle here is *)
(* one call zk_evm makes into the oracles.  Queries of a cycle carry a     *)
(* timestamp after the cycle's own; calls and returns carry that itself.   *)
(***************************************************************************)
EXTENDS VmOracles

CONSTANTS
  SlotValues,        \* the values of slots
  HeapValue,         \* a word written to a heap
  Programs,          \* [operations, accesses, cycles]: the operations of a program, the
                     \* slots [key, rw_flag, value] they access and, as a bound, how
                     \* many cycles it runs
  MaxDepth,          \* bound: nested calls
  MaxVmSnapshots     \* bound: snapshots at a time

VARIABLES
  oracle,        \* StorageOracle
  sink,          \* InMemoryEventSink
  memory,        \* SimpleMemory
  decommitter,   \* DecommitterOracle
  precompiles,   \* PrecompilesProcessorWithHistory
  local,         \* local_state: [timestamp, callstack, memory_page_counter]
  snapshots,     \* the local states of the snapshots
  tracer,        \* the inspection in progress, None between inspections
  program,       \* the program that is executed
  ideal          \* auxiliary: the memory if no page were ever cleared, and the
                 \* bytecodes published on the way to the current state

vm_vars == <<oracle, sink, memory, decommitter, precompiles, local, snapshots, tracer,
             program, ideal>>

oracles == <<oracle, sink, memory, decommitter, precompiles, ideal>>

BOOTLOADER == "bootloader"

BOOTLOADER_BASE_PAGE == 4

STARTING_BASE_PAGE == 8

\* zk_evm: pages reserved for a far call.
NEW_MEMORY_PAGES_PER_FAR_CALL == 4

STARTING_TIMESTAMP == 2 * TIME_DELTA_PER_CYCLE

BootloaderFrame ==
  [is_local_frame |-> FALSE, base_memory_page |-> BOOTLOADER_BASE_PAGE,
   this |-> BOOTLOADER, pointers |-> {heap_page_from_base(BOOTLOADER_BASE_PAGE)},
   exception |-> FALSE]

NewPrecompiles == [timestamp_history |-> from_inner(<<>>),
                   precompile_cycles_history |-> from_inner(<<>>)]

\* new_vm_state: the bootloader's frame is open, the histories are deleted.
FreshFrames ==
  LET f == FramesPush(NewFrames, 0)
  IN [forward |-> delete_history(f.forward), rollback |-> delete_history(f.rollback)]

VmInit ==
  /\ \E values \in [Slots -> {0}] :
       oracle = [NewStorageOracle(values) EXCEPT !.storage_frames_stack = FreshFrames,
                                                 !.transient_storage_frames_stack = FreshFrames]
  /\ sink = FreshFrames
  /\ memory = [NewMemory EXCEPT !.observable_pages =
                 delete_history(start_global_frame(NewMemory, BOOTLOADER_BASE_PAGE, 0, 0)
                                  .observable_pages)]
  /\ decommitter = NewDecommitter
  /\ precompiles = NewPrecompiles
  /\ local = [timestamp |-> STARTING_TIMESTAMP, callstack |-> <<BootloaderFrame>>,
              memory_page_counter |-> STARTING_BASE_PAGE]
  /\ snapshots = <<>>
  /\ tracer = None
  /\ program \in Programs
  /\ ideal = [memory |-> <<>>, published |-> {}]

-----------------------------------------------------------------------------
(* Inspections (implementation/execution.rs) and the circuits tracer.      *)

current == Last(local.callstack)

Depth == Len(local.callstack)

\* initialize_tracer; the last three fields are auxiliary.
BeginInspection ==
  /\ tracer = None
  /\ local.callstack # <<>>
  /\ tracer' = Some([from |-> local.timestamp,
                     written |-> Len(oracle.written_storage_keys.history),
                     read |-> Len(oracle.read_storage_keys.history),
                     decommitted |-> Len(decommitter.decommitted_code_hashes.history),
                     precompile |-> Len(precompiles.precompile_cycles_history.inner),
                     storage_application_cycles |-> 0, code_decommitter_cycles |-> 0,
                     precompile_cycles |-> 0,
                     depth |-> Depth, shallowest |-> Depth,
                     logs |-> Len(current_frame(oracle.storage_frames_stack.forward.inner))])
  /\ UNCHANGED <<oracles, local, snapshots, program>>

\* The bootloader's hooks and its return end an inspection.
EndInspection ==
  /\ tracer # None
  /\ local.callstack # <<>> => current.this = BOOTLOADER
  /\ local.timestamp > tracer[1].from
  /\ tracer' = None
  /\ UNCHANGED <<oracles, local, snapshots, program>>

STORAGE_WRITE_STORAGE_APPLICATION_CYCLES == 2

STORAGE_READ_STORAGE_APPLICATION_CYCLES == 1

After(seq, n) == SubSeq(seq, n + 1, Len(seq))

trace_decommitments(t, d) ==
  LET entries == After(d.decommitted_code_hashes.history, t.decommitted)
      CyclesOf(e) == IF e[2].value = None THEN 0
                     ELSE (Len(d.known_bytecodes.inner[e[2].key]) + 1) \div 2
  IN [t EXCEPT !.code_decommitter_cycles =
                  FoldLeft(LAMBDA n, e : n + CyclesOf(e), @, entries),
               !.decommitted = Len(d.decommitted_code_hashes.history)]

trace_storage_writes(t, o) ==
  [t EXCEPT !.storage_application_cycles =
               @ + STORAGE_WRITE_STORAGE_APPLICATION_CYCLES
                   * Len(After(o.written_storage_keys.history, t.written)),
            !.written = Len(o.written_storage_keys.history)]

trace_storage_reads(t, o) ==
  LET unwritten == SelectSeq(After(o.read_storage_keys.history, t.read),
                             LAMBDA e : ~Written(o, e[2].key))
  IN [t EXCEPT !.storage_application_cycles =
                  @ + STORAGE_READ_STORAGE_APPLICATION_CYCLES * Len(unwritten),
               !.read = Len(o.read_storage_keys.history)]

trace_precompile_calls(t, p) ==
  [t EXCEPT !.precompile_cycles =
               FoldLeft(LAMBDA n, cycles : n + cycles, @,
                        After(p.precompile_cycles_history.inner, t.precompile)),
            !.precompile = Len(p.precompile_cycles_history.inner)]

\* CircuitsTracer::finish_cycle
CircuitsFinishCycle(t, o, d, p) ==
  trace_precompile_calls(
    trace_storage_reads(trace_storage_writes(trace_decommitments(t, d), o), o), p)

-----------------------------------------------------------------------------
(* The cycles.                                                             *)

now == local.timestamp

\* The timestamp of the queries of a cycle.
query_timestamp == now + 1

LastTimestamp == STARTING_TIMESTAMP + program.cycles * TIME_DELTA_PER_CYCLE

Uses(operation) ==
  /\ tracer # None
  /\ local.callstack # <<>>
  /\ ~current.exception
  /\ now < LastTimestamp
  /\ operation \in program.operations

\* What ends every cycle.
FinishCycle(callstack, memory_page_counter) ==
  /\ local' = [timestamp |-> now + TIME_DELTA_PER_CYCLE, callstack |-> callstack,
               memory_page_counter |-> memory_page_counter]
  /\ tracer' = Some([CircuitsFinishCycle(tracer[1], oracle', decommitter', precompiles')
                       EXCEPT !.shallowest = Min({@, Len(callstack)})])
  /\ UNCHANGED <<snapshots, program>>

Stay == FinishCycle(local.callstack, local.memory_page_counter)

OnlyOracle == UNCHANGED <<sink, memory, decommitter, precompiles, ideal>>

Query(access, transient) ==
  [key |-> access.key, transient |-> transient, rw_flag |-> access.rw_flag,
   written_value |-> access.value, timestamp |-> query_timestamp]

StorageAccess ==
  /\ Uses("storage")
  /\ \E access \in program.accesses : \E query \in {Query(access, FALSE)} :
       oracle' = execute_partial_query(get_access_refund(oracle, query), query)
  /\ OnlyOracle
  /\ Stay

\* The refund is computed and the opcode then runs out of ergs.
StorageOutOfErgs ==
  /\ Uses("out_of_ergs")
  /\ \E access \in program.accesses : oracle' = get_access_refund(oracle, Query(access, FALSE))
  /\ OnlyOracle
  /\ Stay

TransientAccess ==
  /\ Uses("transient")
  /\ \E access \in program.accesses : \E query \in {Query(access, TRUE)} :
       oracle' = execute_partial_query(get_access_refund(oracle, query), query)
  /\ OnlyOracle
  /\ Stay

StartNewTx ==
  /\ Uses("new_tx")
  /\ current.this = BOOTLOADER
  /\ oracle' = start_new_tx(oracle, now)
  /\ OnlyOracle
  /\ Stay

EmitEvent ==
  /\ Uses("event")
  /\ \E aux_byte \in {"EVENT_AUX_BYTE", "L1_MESSAGE_AUX_BYTE"} :
       sink' = add_partial_query(sink, [timestamp |-> query_timestamp, aux_byte |-> aux_byte,
                                        from_bootloader |-> current.this = BOOTLOADER,
                                        rollback |-> FALSE])
  /\ UNCHANGED <<oracle, memory, decommitter, precompiles, ideal>>
  /\ Stay

\* Precompiles after v28 record no cycles when they are not enabled.
Precompile ==
  /\ Uses("precompile")
  /\ \E resolved \in BOOLEAN :
       precompiles' =
         [timestamp_history |-> VecPush(precompiles.timestamp_history, query_timestamp,
                                        query_timestamp),
          precompile_cycles_history |->
            IF resolved THEN VecPush(precompiles.precompile_cycles_history, 1, query_timestamp)
            ELSE precompiles.precompile_cycles_history]
  /\ UNCHANGED <<oracle, sink, memory, decommitter, ideal>>
  /\ Stay

HeapWrite ==
  /\ Uses("heap")
  /\ \E page \in {heap_page_from_base(current.base_memory_page)} :
       /\ memory' = MemoryWrite(memory, page, 1, HeapValue, query_timestamp)
       /\ ideal' = [ideal EXCEPT !.memory =
                      MemoryApply(@, [page |-> page, slot |-> 1, set_value |-> HeapValue]).inner]
  /\ UNCHANGED <<oracle, sink, decommitter, precompiles>>
  /\ Stay

-----------------------------------------------------------------------------
(* Calls and returns.                                                      *)

NearCall ==
  /\ Uses("near_call")
  /\ Depth < MaxDepth
  /\ oracle' = StorageStartFrame(oracle, now)
  /\ sink' = FramesPush(sink, now)
  /\ UNCHANGED <<memory, decommitter, precompiles, ideal>>
  /\ FinishCycle(Append(local.callstack, [current EXCEPT !.is_local_frame = TRUE]),
                 local.memory_page_counter)

\* The registers are shared: the caller keeps the pointers of the callee.
NearReturn ==
  /\ Uses("near_call")
  /\ current.is_local_frame
  /\ \E panicked \in BOOLEAN :
       /\ oracle' = StorageFinishFrame(oracle, panicked, now)
       /\ sink' = SinkFinishFrame(sink, panicked, now)
  /\ UNCHANGED <<memory, decommitter, precompiles, ideal>>
  /\ FinishCycle([Front(local.callstack) EXCEPT ![Depth - 1].pointers = current.pointers],
                 local.memory_page_counter)

IdealCode(hash, page) ==
  [ideal EXCEPT !.memory =
     FoldLeft(LAMBDA m, i : MemoryApply(m, [page |-> page, slot |-> i,
                                            set_value |-> CodeWords[hash][i]]).inner,
              @, [i \in DOMAIN CodeWords[hash] |-> i])]

\* A hash that is not in the storage must have been inserted: the
\* decommitter panics otherwise, and zk_evm does not ask for such a hash.
Loadable(hash) == hash \in StoredCode \cup DOMAIN decommitter.known_bytecodes.inner

\* prepare_to_decommit and, for a fresh hash, decommit_into_memory: the
\* decommitter, the memory and the page with the code.
Decommitted(hash, fresh_page) ==
  LET prepared == prepare_to_decommit(decommitter, hash, query_timestamp)
      loaded == decommit_into_memory(prepared, memory, hash, fresh_page, query_timestamp)
  IN IF IsFresh(prepared, hash)
     THEN [decommitter |-> loaded.decommitter, memory |-> loaded.memory,
           ideal |-> IdealCode(hash, fresh_page), page |-> fresh_page]
     ELSE [decommitter |-> prepared, memory |-> memory, ideal |-> ideal,
           page |-> DecommittedPage(prepared, hash)[1]]

\* A caller that cannot pay for the decommitment.
Unpaid(hash) ==
  [decommitter |-> prepare_to_decommit(decommitter, hash, query_timestamp),
   memory |-> memory, ideal |-> ideal]

\* EvmDeployTracer: the call publishes a bytecode, or none.  The cycle is
\* over and the timestamp is that of the next one.
Publishable == IF "publish" \in program.operations THEN {None} \cup {Some(h) : h \in CodeHash \ StoredCode}
               ELSE {None}

Publish(d, published) ==
  IF published = None THEN d
  ELSE insert_dynamic_bytecode(d, published[1], now + TIME_DELTA_PER_CYCLE)

\* The code is loaded, then the new frame starts on every oracle.  A frame
\* whose code was not loaded has an exception pending.
FarCall ==
  /\ Uses("far_call")
  /\ Depth < MaxDepth
  /\ \E this \in {UserContract, CODE_ORACLE}, paid \in BOOLEAN, hash \in ContractCode,
        calldata \in current.pointers, base \in {local.memory_page_counter},
        published \in Publishable :
       /\ Loadable(hash)
       /\ \E code \in {IF paid THEN Decommitted(hash, base) ELSE Unpaid(hash)} :
            /\ decommitter' = Publish(code.decommitter, published)
            /\ ideal' = [code.ideal EXCEPT !.published = @ \cup Range(published)]
            /\ memory' = start_global_frame(code.memory, base, calldata, now)
       /\ oracle' = StorageStartFrame(oracle, now)
       /\ sink' = FramesPush(sink, now)
       /\ UNCHANGED precompiles
       /\ FinishCycle(Append(local.callstack,
                             [is_local_frame |-> FALSE, base_memory_page |-> base,
                              this |-> this, exception |-> ~paid,
                              pointers |-> {heap_page_from_base(base), calldata}]),
                      base + NEW_MEMORY_PAGES_PER_FAR_CALL)

\* Only pages of the callee or of its own callees are returned.
Returnable == {page \in current.pointers : page >= current.base_memory_page}

WithPointer(callstack, page) ==
  IF callstack = <<>> THEN callstack
  ELSE [callstack EXCEPT ![Len(callstack)].pointers = @ \cup ({page} \ {0})]

FarReturn ==
  /\ tracer # None
  /\ local.callstack # <<>>
  /\ now < LastTimestamp
  /\ ~current.is_local_frame
  /\ (IF current.this = BOOTLOADER THEN "end" ELSE "far_call") \in program.operations
  /\ \E panicked \in BOOLEAN, returndata \in Returnable \cup {0} :
       /\ current.exception => panicked
       /\ panicked => returndata = 0
       /\ oracle' = StorageFinishFrame(oracle, panicked, now)
       /\ sink' = SinkFinishFrame(sink, panicked, now)
       /\ memory' = finish_global_frame(memory, current.base_memory_page, current.this,
                                        returndata, now)
       /\ UNCHANGED <<decommitter, precompiles, ideal>>
       /\ FinishCycle(WithPointer(Front(local.callstack), returndata),
                      local.memory_page_counter)

\* The decommit opcode, which only the code oracle uses: a fresh bytecode
\* goes to its heap.
DecommitOpcode ==
  /\ Uses("decommit")
  /\ current.this = CODE_ORACLE
  /\ \E hash \in CodeHash :
       /\ Loadable(hash)
       /\ \E code \in {Decommitted(hash, heap_page_from_base(current.base_memory_page))} :
            /\ decommitter' = code.decommitter
            /\ memory' = code.memory
            /\ ideal' = code.ideal
            /\ UNCHANGED <<oracle, sink, precompiles>>
            /\ FinishCycle(WithPointer(local.callstack, code.page), local.memory_page_counter)

-----------------------------------------------------------------------------
(* The world and the open frames of the oracles, as FramedWorld sees them. *)

\* The values before the writes that the rollback queue has after its n-th.
UndoneValues(frames, values, n) ==
  LET queue == frames.rollback.inner.data
  IN [k \in Slots |->
        LET writes == {i \in n + 1 .. Len(queue) : queue[i].key = k}
        IN IF writes = {} THEN values[k] ELSE queue[Min(writes)].read_value]

TransientValues(o) ==
  [k \in Slots |-> read_from_transient_storage(o.transient_storage.inner, k)]

EventsOf(history) ==
  LET tmp == CancelPairs(history).tmp
  IN {[timestamp |-> t, from_bootloader |-> tmp[t].from_bootloader,
       is_event |-> tmp[t].aux_byte = "EVENT_AUX_BYTE"] : t \in DOMAIN tmp}

AbsWorld(o, s) ==
  [storage |-> o.storage.inner, transient |-> TransientValues(o),
   events |-> EventsOf(s.forward.inner.data)]

\* The worlds the open frames would return to if they panicked.
AbsFrames(o, s) ==
  LET Start(stack, i) == stack.inner.frame_start_indices[i + 1]
  IN [i \in 1 .. Len(s.forward.inner.frame_start_indices) - 1 |->
        [storage |-> UndoneValues(o.storage_frames_stack, o.storage.inner,
                                  Start(o.storage_frames_stack.rollback, i)),
         transient |-> UndoneValues(o.transient_storage_frames_stack, TransientValues(o),
                                    Start(o.transient_storage_frames_stack.rollback, i)),
         events |-> EventsOf(SubSeq(s.forward.inner.data, 1, Start(s.forward, i)))]]

-----------------------------------------------------------------------------
(* Snapshots (implementation/snapshots.rs), taken between inspections.     *)
(* `ideal` and `kept` are auxiliary.                                       *)

MakeSnapshot ==
  /\ tracer = None
  /\ Len(snapshots) < MaxVmSnapshots
  /\ snapshots' = Append(snapshots, [local |-> local, ideal |-> ideal,
                                     kept |-> [world |-> AbsWorld(oracle, sink),
                                               frames |-> AbsFrames(oracle, sink)]])
  /\ UNCHANGED <<oracles, local, tracer, program>>

PrecompilesRollback(p, timestamp) ==
  [timestamp_history |-> VecRollback(p.timestamp_history, timestamp),
   precompile_cycles_history |-> VecRollback(p.precompile_cycles_history, timestamp)]

RestoredLocal(snapshot) == snapshot.local

RollbackToTheLatestSnapshot ==
  /\ tracer = None
  /\ snapshots # <<>>
  /\ \E snapshot \in {Last(snapshots)} :
       /\ decommitter' = DecommitterRollback(decommitter, snapshot.local.timestamp)
       /\ sink' = FramesRollback(sink, snapshot.local.timestamp)
       /\ oracle' = StorageOracleRollback(oracle, snapshot.local.timestamp)
       /\ memory' = SimpleMemoryRollback(memory, snapshot.local.timestamp)
       /\ precompiles' = PrecompilesRollback(precompiles, snapshot.local.timestamp)
       /\ local' = RestoredLocal(snapshot)
       /\ ideal' = snapshot.ideal
  /\ snapshots' = Front(snapshots)
  /\ UNCHANGED <<tracer, program>>

PopSnapshotNoRollback ==
  /\ tracer = None
  /\ snapshots # <<>>
  /\ snapshots' \in {Front(snapshots), Tail(snapshots)}
  /\ UNCHANGED <<oracles, local, tracer, program>>

VmNext ==
  \/ BeginInspection \/ EndInspection
  \/ StorageAccess \/ StorageOutOfErgs \/ TransientAccess \/ StartNewTx
  \/ EmitEvent \/ Precompile \/ HeapWrite
  \/ NearCall \/ NearReturn \/ FarCall \/ FarReturn
  \/ DecommitOpcode
  \/ MakeSnapshot \/ RollbackToTheLatestSnapshot \/ PopSnapshotNoRollback

VmSpec == VmInit /\ [][VmNext]_vm_vars

-----------------------------------------------------------------------------
(* The properties.                                                         *)

FW == INSTANCE FramedWorld WITH
        Values <- SlotValues,
        state <- [world |-> AbsWorld(oracle, sink), frames |-> AbsFrames(oracle, sink),
                  saved |-> [i \in DOMAIN snapshots |-> snapshots[i].kept]]

\* The oracles implement a world with nested calls: a panicking frame takes
\* storage, transient storage and events back to where it began, and every
\* snapshot keeps its world and its open frames until it is rolled back to,
\* however many frames opened, closed or panicked since.
OraclesImplementFramedWorld == FW!Spec

\* Each recorder's history is sorted by time: the assertion of
\* apply_historic_record, also after rollbacks and new inspections.
HistoriesMonotonic ==
  /\ FramesMonotonic(sink)
  /\ FramesMonotonic(oracle.storage_frames_stack)
  /\ FramesMonotonic(oracle.transient_storage_frames_stack)
  /\ Monotonic(oracle.storage) /\ Monotonic(oracle.transient_storage)
  /\ Monotonic(oracle.paid_changes) /\ Monotonic(oracle.initial_values)
  /\ Monotonic(memory.memory) /\ Monotonic(memory.observable_pages)
  /\ Monotonic(decommitter.known_bytecodes) /\ Monotonic(decommitter.decommitted_code_hashes)

\* What a slot is charged for is always the price of the value it holds:
\* undoing the writes of a panicking frame, or rolling a snapshot back,
\* leaves no slot paid for a value it no longer has.
PaidMatchesValue ==
  \A k \in DOMAIN oracle.paid_changes.inner :
    /\ k \in DOMAIN oracle.initial_values.inner
    /\ oracle.paid_changes.inner[k] =
         base_price_for_write(k, oracle.initial_values.inner[k], oracle.storage.inner[k])

\* The assertions the oracles make about their queues: a panicking frame
\* would find each value it wrote, and no event is cancelled that was not
\* emitted, counting from the inspection's start or from the first event.
QueueAssertionsHold ==
  /\ UndoFindsWrittenValues(oracle)
  /\ CancelPairs(current_frame(sink.forward.inner)).ok
  /\ tracer # None /\ Depth = tracer[1].depth
       => CancelPairs(log_queries_after_timestamp(sink, tracer[1].from)).ok

\* The logs an inspection reports are all those made since it began, when
\* it ends in the frame it began in and never left.
InspectionReportsItsLogs ==
  tracer # None /\ Depth = tracer[1].depth /\ tracer[1].shallowest = Depth
    => storage_log_queries_after_timestamp(oracle, tracer[1].from) =
         After(current_frame(oracle.storage_frames_stack.forward.inner), tracer[1].logs)

SameWords(page) ==
  \A l \in DOMAIN memory.memory.inner \cup DOMAIN ideal.memory :
    l[1] = page => read_slot(memory.memory.inner, page, l[2])
                     = read_slot(ideal.memory, page, l[2])

CodePages ==
  {DecommittedPage(decommitter, h)[1] :
     h \in {c \in CodeHash : ~IsFresh(decommitter, c)}}

\* Pages of the code oracle's heaps with a bytecode.
OracleCodePages == {page \in CodePages : page % NEW_MEMORY_PAGES_PER_FAR_CALL # 0}

\* Clearing the pages of a call that returned never takes away a page that
\* an open call can read, and code loaded for a call stays; the heap of the
\* code oracle is an exception (see the README).
LivePagesIntact ==
  /\ \A i \in DOMAIN local.callstack :
       \A page \in local.callstack[i].pointers \ OracleCodePages : SameWords(page)
  /\ \A page \in CodePages \ OracleCodePages : SameWords(page)

\* The pages of the next far call hold nothing, and a page is used by one
\* call only, also when rollbacks took the page counter back.
FreshPagesEmpty ==
  \A l \in DOMAIN memory.memory.inner : l[1] < local.memory_page_counter

\* A bytecode published since the last state rolled back to is known, so
\* that collecting the results of an inspection finds it.
PublishedIsKnown == ideal.published \subseteq DOMAIN decommitter.known_bytecodes.inner

\* At the bootloader's level the state diffs are exactly the slots whose
\* value differs from the one the batch began with.
StateDiffsExact ==
  Depth = 1 /\ current.this = BOOTLOADER
    => get_state_diffs(oracle) =
         [k \in {s \in Slots \ MessengerSlots : oracle.storage.inner[s] # 0}
            |-> <<0, oracle.storage.inner[k]>>]

\* An inspection counts two cycles for each slot first written in it and
\* one for each slot first read in it before any write.
CyclesCountTouchedSlots ==
  tracer # None =>
    LET Since(r) == {e \in Range(r.history) : e[1] >= tracer[1].from}
        written == Range(oracle.written_storage_keys.history)
        only_read == {e \in Since(oracle.read_storage_keys) :
                        ~\E w \in written : w[2].key = e[2].key /\ w[1] <= e[1]}
    IN tracer[1].storage_application_cycles =
         2 * Cardinality(Since(oracle.written_storage_keys)) + Cardinality(only_read)

\* What the oracles report is what happened, however many frames panicked and snapshots were rolled
\* back to: their records are in order, and logs, payments, state diffs and cycles follow from
\* them (storage.rs, event_sink.rs, history_recorder.rs, circuits_tracer).
RecordsAreExact ==
  /\ HistoriesMonotonic
  /\ QueueAssertionsHold
  /\ PaidMatchesValue
  /\ InspectionReportsItsLogs
  /\ StateDiffsExact
  /\ CyclesCountTouchedSlots

\* Memory is cleared and reused without harm: no page in use is cleared, no page is handed out
\* that holds something, and bytecodes that were published are found (memory.rs, decommitter.rs).
MemoryIsIntact ==
  /\ LivePagesIntact
  /\ FreshPagesEmpty
  /\ PublishedIsKnown

-----------------------------------------------------------------------------
(***************************************************************************)
(* The instance that is checked: each behaviour runs a program that uses   *)
(* one group of operations.                                                *)
(***************************************************************************)
MCCodeWords == [h \in CodeHash |-> IF h \in StoredCode THEN <<1>> ELSE <<2, 3>>]

WriteOf(key, value) == [key |-> key, rw_flag |-> TRUE, value |-> value]

ReadOf(key) == [key |-> key, rw_flag |-> FALSE, value |-> 0]

ProgramOf(operations, accesses, cycles) ==
  [operations |-> operations, accesses |-> accesses, cycles |-> cycles]

MCPrograms ==
  {ProgramOf({"storage", "near_call", "end"}, {WriteOf(1, 0), WriteOf(1, 1), WriteOf(2, 1), ReadOf(2)}, 4),
   ProgramOf({"storage", "near_call"}, {WriteOf(1, 0), WriteOf(1, 1)}, 5),
   ProgramOf({"storage", "out_of_ergs", "precompile"}, {WriteOf(1, 1), ReadOf(1)}, 4),
   ProgramOf({"transient", "new_tx", "near_call"}, {WriteOf(1, 0), WriteOf(1, 1), ReadOf(1)}, 4),
   ProgramOf({"event", "near_call"}, {}, 5),
   ProgramOf({"event", "far_call"}, {}, 4),
   ProgramOf({"heap", "far_call", "publish"}, {}, 4),
   ProgramOf({"far_call", "decommit"}, {}, 5)}
=============================================================================
