------------------------------ MODULE VmOracles ------------------------------
(***************************************************************************)
(* What the reference virtual machine keeps beside its registers, each a   *)
(* record of recorders (multivm/src/versions/vm_latest): the storage       *)
(* oracle, the event sink, the memory and the decommitter of bytecodes.    *)
(***************************************************************************)
EXTENDS Integers, Sequences, SequencesExt, FiniteSetsExt, Functions, StateDiffs

CONSTANTS
  TIME_DELTA_PER_CYCLE,
  Slots,          \* storage keys
  InitialSlots,   \* those the tree does not have: is_write_initial
  FreeSlots,      \* SYSTEM_CONTEXT_ADDRESS and the bootloader's balance
  MessengerSlots, \* those of L1_MESSENGER_ADDRESS
  CodeHash,       \* stored bytecode hashes
  CodeWords,      \* the words of each: CodeHash -> sequence of values
  StoredCode,     \* the hashes the storage has a factory dependency for
  ContractCode,   \* the hashes that contracts have
  CODE_ORACLE,    \* CODE_ORACLE_ADDRESS
  UserContract    \* any other contract

ASSUME TimeDeltaAssumption == TIME_DELTA_PER_CYCLE \in Nat \ {0}

-----------------------------------------------------------------------------
(***************************************************************************)
(* old_vm/history_recorder.rs: a component together with the records that  *)
(* undo what was done to it.  A recorder is a record [inner, history];     *)
(* history is a sequence of <<timestamp, undo record>>.  Applying a record *)
(* to a component returns the new component and the record that undoes it. *)
(***************************************************************************)
\* An Option is a sequence of at most one element.
None == <<>>

Some(x) == <<x>>

normalize_timestamp(timestamp) == timestamp - (timestamp % TIME_DELTA_PER_CYCLE)

from_inner(inner) == [inner |-> inner, history |-> <<>>]

apply_historic_record(Apply(_, _), r, item, timestamp) ==
  LET applied == Apply(r.inner, item)
  IN [inner |-> applied.inner,
      history |-> Append(r.history, <<normalize_timestamp(timestamp), applied.undo>>)]

\* The items at the end of the history that are not older than `timestamp`
\* are undone, last first.
rollback_to_timestamp(Apply(_, _), r, timestamp) ==
  LET kept == Max({0} \cup {i \in DOMAIN r.history : r.history[i][1] < timestamp})
      undo[i \in kept .. Len(r.history)] ==
        IF i = Len(r.history) THEN r.inner ELSE Apply(undo[i + 1], r.history[i + 1][2]).inner
  IN [inner |-> undo[kept],
      history |-> SubSeq(r.history, 1, kept)]

delete_history(r) == [r EXCEPT !.history = <<>>]

\* The assertion of apply_historic_record, on the whole history.
Monotonic(r) ==
  \A i \in 1 .. Len(r.history) - 1 : r.history[i][1] <= r.history[i + 1][1]

-----------------------------------------------------------------------------
(* Vec: <<"Push", x>> and <<"Pop">>.                                       *)

VecApply(vec, item) ==
  IF Head(item) = "Push" THEN [inner |-> Append(vec, item[2]), undo |-> <<"Pop">>]
  ELSE [inner |-> Front(vec), undo |-> <<"Push", Last(vec)>>]

VecPush(r, x, timestamp) == apply_historic_record(VecApply, r, <<"Push", x>>, timestamp)

VecRollback(r, timestamp) == rollback_to_timestamp(VecApply, r, timestamp)

(* HashMap: the value of a record is an Option, None removes the key.      *)

MapGet(map, key) == IF key \in DOMAIN map THEN Some(map[key]) ELSE None

MapApply(map, item) ==
  [inner |-> [k \in (DOMAIN map \ {item.key}) \cup (IF item.value = None THEN {} ELSE {item.key})
                |-> IF k = item.key THEN item.value[1] ELSE map[k]],
   undo |-> [key |-> item.key, value |-> MapGet(map, item.key)]]

MapInsert(r, key, value, timestamp) ==
  apply_historic_record(MapApply, r, [key |-> key, value |-> Some(value)], timestamp)

MapRollback(r, timestamp) == rollback_to_timestamp(MapApply, r, timestamp)

(* StorageWrapper: every key has a value.  TransientStorageWrapper: a map  *)
(* whose missing keys read as zero; undoing a write leaves a zero behind.  *)

StorageApply(values, item) ==
  [inner |-> [values EXCEPT ![item.key] = item.value],
   undo |-> [key |-> item.key, value |-> values[item.key]]]

write_to_storage(r, key, value, timestamp) ==
  apply_historic_record(StorageApply, r, [key |-> key, value |-> value], timestamp)

StorageRollback(r, timestamp) == rollback_to_timestamp(StorageApply, r, timestamp)

read_from_transient_storage(map, key) == IF key \in DOMAIN map THEN map[key] ELSE 0

TransientApply(map, item) ==
  [inner |-> [k \in DOMAIN map \cup {item.key} |-> IF k = item.key THEN item.value ELSE map[k]],
   undo |-> [key |-> item.key, value |-> read_from_transient_storage(map, item.key)]]

write_to_transient_storage(r, key, value, timestamp) ==
  apply_historic_record(TransientApply, r, [key |-> key, value |-> value], timestamp)

TransientRollback(r, timestamp) == rollback_to_timestamp(TransientApply, r, timestamp)

(* MemoryWrapper: the slots that are not empty, by <<page, slot>>.         *)

EmptyValue == 0

read_slot(memory, page, slot) ==
  IF <<page, slot>> \in DOMAIN memory THEN memory[<<page, slot>>] ELSE EmptyValue

MemoryApply(memory, item) ==
  LET at == <<item.page, item.slot>>
  IN [inner |-> [l \in (DOMAIN memory \ {at})
                       \cup (IF item.set_value = EmptyValue THEN {} ELSE {at})
                   |-> IF l = at THEN item.set_value ELSE memory[l]],
      undo |-> [page |-> item.page, slot |-> item.slot,
                set_value |-> read_slot(memory, item.page, item.slot)]]

write_to_memory(r, page, slot, value, timestamp) ==
  apply_historic_record(MemoryApply, r,
                        [page |-> page, slot |-> slot, set_value |-> value], timestamp)

\* One undo record per slot that is not empty, with the timestamp as given.
clear_page(r, page, timestamp) ==
  LET used == SetToSeq({l \in DOMAIN r.inner : l[1] = page})
  IN [inner |-> Restrict(r.inner, {l \in DOMAIN r.inner : l[1] # page}),
      history |-> r.history
                  \o [i \in DOMAIN used |->
                        <<timestamp, [page |-> page, slot |-> used[i][2],
                                      set_value |-> r.inner[used[i]]]>>]]

MemoryRollback(r, timestamp) == rollback_to_timestamp(MemoryApply, r, timestamp)

-----------------------------------------------------------------------------
(* FramedStack: data and the indices at which the frames start.            *)

NewFramedStack == from_inner([data |-> <<>>, frame_start_indices |-> <<0>>])

StackApply(stack, item) ==
  CASE Head(item) = "Push" ->
         [inner |-> [stack EXCEPT !.data = Append(@, item[2])], undo |-> <<"Pop">>]
    [] Head(item) = "Pop" ->
         [inner |-> [stack EXCEPT !.data = Front(@)], undo |-> <<"Push", Last(stack.data)>>]
    [] Head(item) = "PushFrame" ->
         [inner |-> [stack EXCEPT !.frame_start_indices = Append(@, item[2])],
          undo |-> <<"MergeFrame">>]
    [] OTHER ->
         [inner |-> [stack EXCEPT !.frame_start_indices = Front(@)],
          undo |-> <<"PushFrame", Last(stack.frame_start_indices)>>]

current_frame(stack) ==
  SubSeq(stack.data, Last(stack.frame_start_indices) + 1, Len(stack.data))

push_to_frame(r, x, timestamp) ==
  apply_historic_record(StackApply, r, <<"Push", x>>, timestamp)

extend_frame(r, items, timestamp) ==
  FoldLeft(LAMBDA s, x : push_to_frame(s, x, timestamp), r, items)

clear_frame(r, timestamp) ==
  FoldLeft(LAMBDA s, x : apply_historic_record(StackApply, s, <<"Pop">>, timestamp),
           r, current_frame(r.inner))

push_frame(r, timestamp) ==
  apply_historic_record(StackApply, r, <<"PushFrame", Len(r.inner.data)>>, timestamp)

merge_frame(r, timestamp) ==
  apply_historic_record(StackApply, r, <<"MergeFrame">>, timestamp)

StackRollback(r, timestamp) == rollback_to_timestamp(StackApply, r, timestamp)

(* AppDataFrameManagerWithHistory: a forward and a rollback stack.         *)

NewFrames == [forward |-> NewFramedStack, rollback |-> NewFramedStack]

push_forward(f, item, timestamp) ==
  [f EXCEPT !.forward = push_to_frame(@, item, timestamp)]

push_rollback(f, item, timestamp) ==
  [f EXCEPT !.rollback = push_to_frame(@, item, timestamp)]

FramesPush(f, timestamp) ==
  [forward |-> push_frame(f.forward, timestamp), rollback |-> push_frame(f.rollback, timestamp)]

FramesMerge(f, timestamp) ==
  [forward |-> merge_frame(f.forward, timestamp),
   rollback |-> merge_frame(f.rollback, timestamp)]

FramesRollback(f, timestamp) ==
  [forward |-> StackRollback(f.forward, timestamp),
   rollback |-> StackRollback(f.rollback, timestamp)]

move_rollback_to_forward(f, Filter(_), timestamp) ==
  [forward |-> extend_frame(f.forward,
                            SelectSeq(Reverse(current_frame(f.rollback.inner)), Filter),
                            timestamp),
   rollback |-> clear_frame(f.rollback, timestamp)]

FramesMonotonic(f) == Monotonic(f.forward) /\ Monotonic(f.rollback)

\* The longest suffix of the logs that are not older than `timestamp`: the
\* logs are not sorted, and the first older one from the end stops it.
LogsAfter(logs, timestamp) ==
  SubSeq(logs,
         1 + Max({0} \cup {i \in DOMAIN logs : logs[i].timestamp < timestamp}),
         Len(logs))

-----------------------------------------------------------------------------
(***************************************************************************)
(* oracles/storage.rs: persistent and transient storage, with the queues   *)
(* that undo the writes of panicking frames and the pubdata each slot has  *)
(* been paid for.                                                          *)
(***************************************************************************)
\* Refunds (constants of zk_evm): only which one is chosen matters.
WARM_WRITE_REFUND == 3

COLD_WRITE_AFTER_WARM_READ_REFUND == 2

WARM_READ_REFUND == 1

ColdRefund == 0

NewStorageOracle(values) ==
  [storage |-> from_inner(values), transient_storage |-> from_inner(<<>>),
   storage_frames_stack |-> NewFrames, transient_storage_frames_stack |-> NewFrames,
   paid_changes |-> from_inner(<<>>), initial_values |-> from_inner(<<>>),
   returned_io_refunds |-> from_inner(<<>>), returned_pubdata_costs |-> from_inner(<<>>),
   written_storage_keys |-> from_inner(<<>>), read_storage_keys |-> from_inner(<<>>)]

\* Variant: transient values are not rolled back.
StorageOracleRollback_TransientKept(o, timestamp) ==
  [o EXCEPT !.storage = StorageRollback(@, timestamp),
            !.storage_frames_stack = FramesRollback(@, timestamp),
            !.transient_storage_frames_stack = FramesRollback(@, timestamp),
            !.paid_changes = MapRollback(@, timestamp),
            !.initial_values = MapRollback(@, timestamp),
            !.written_storage_keys = MapRollback(@, timestamp),
            !.read_storage_keys = MapRollback(@, timestamp)]

StorageOracleRollback(o, timestamp) ==
  [storage |-> StorageRollback(o.storage, timestamp),
   storage_frames_stack |-> FramesRollback(o.storage_frames_stack, timestamp),
   transient_storage |-> TransientRollback(o.transient_storage, timestamp),
   transient_storage_frames_stack |->
     FramesRollback(o.transient_storage_frames_stack, timestamp),
   paid_changes |-> MapRollback(o.paid_changes, timestamp),
   initial_values |-> MapRollback(o.initial_values, timestamp),
   returned_io_refunds |-> VecRollback(o.returned_io_refunds, timestamp),
   returned_pubdata_costs |-> VecRollback(o.returned_pubdata_costs, timestamp),
   written_storage_keys |-> MapRollback(o.written_storage_keys, timestamp),
   read_storage_keys |-> MapRollback(o.read_storage_keys, timestamp)]

is_storage_key_free(key) == key \in FreeSlots

get_pubdata_price_bytes(initial_value, final_value, is_initial) ==
  (IF is_initial THEN BYTES_PER_DERIVED_KEY ELSE BYTES_PER_ENUMERATION_INDEX)
  + Len(compress_with_best_strategy(initial_value, final_value))

base_price_for_write(key, prev_value, new_value) ==
  IF is_storage_key_free(key) \/ prev_value = new_value THEN 0
  ELSE get_pubdata_price_bytes(prev_value, new_value, key \in InitialSlots)

\* The initial value of a slot, its current one when none is recorded.
base_price_for_key_write(o, key, new_value) ==
  LET recorded == MapGet(o.initial_values.inner, key)
  IN base_price_for_write(key,
                          IF recorded = None THEN o.storage.inner[key] ELSE recorded[1],
                          new_value)

prepaid_for_write(o, key) ==
  IF key \in DOMAIN o.paid_changes.inner THEN o.paid_changes.inner[key] ELSE 0

InsertIfAbsent(r, key, value, timestamp) ==
  IF key \in DOMAIN r.inner THEN r ELSE MapInsert(r, key, value, timestamp)

Read(o, key) == key \in DOMAIN o.read_storage_keys.inner

Written(o, key) == key \in DOMAIN o.written_storage_keys.inner

get_storage_access_refund(o, query) ==
  CASE query.rw_flag /\ (Written(o, query.key) \/ is_storage_key_free(query.key)) ->
         WARM_WRITE_REFUND
    [] query.rw_flag /\ ~Written(o, query.key) /\ ~is_storage_key_free(query.key)
         /\ Read(o, query.key) -> COLD_WRITE_AFTER_WARM_READ_REFUND
    [] ~query.rw_flag /\ (Read(o, query.key) \/ is_storage_key_free(query.key)) ->
         WARM_READ_REFUND
    [] OTHER -> ColdRefund

\* Asked before a query is executed; the VM may then run out of ergs and
\* never execute it.
get_access_refund(o, query) ==
  [o EXCEPT !.returned_io_refunds =
     VecPush(@, IF query.transient THEN 0 ELSE get_storage_access_refund(o, query),
             query.timestamp)]

\* The two queues of a write: the write itself and the log that undoes it.
PushWrite(frames, log) ==
  push_rollback(push_forward(frames, log, log.timestamp),
                [log EXCEPT !.rollback = TRUE], log.timestamp)

write_storage_value(o, log) ==
  [o EXCEPT
     !.written_storage_keys = InsertIfAbsent(@, log.key, TRUE, log.timestamp),
     !.storage = write_to_storage(@, log.key, log.written_value, log.timestamp),
     !.storage_frames_stack = PushWrite(@, log)]

record_storage_read(o, log) ==
  [o EXCEPT !.storage_frames_stack = push_forward(@, log, log.timestamp)]

write_transient_storage_value(o, log) ==
  [o EXCEPT
     !.transient_storage =
       write_to_transient_storage(@, log.key, log.written_value, log.timestamp),
     !.transient_storage_frames_stack = PushWrite(@, log)]

record_transient_storage_read(o, log) ==
  [o EXCEPT !.transient_storage_frames_stack = push_forward(@, log, log.timestamp)]

\* A log: the query with the value it found.
LogOf(query, read_value) ==
  [key |-> query.key, read_value |-> read_value, written_value |-> query.written_value,
   rw_flag |-> query.rw_flag, timestamp |-> query.timestamp, rollback |-> FALSE]

PushCost(o, cost, timestamp) ==
  [o EXCEPT !.returned_pubdata_costs = VecPush(@, cost, timestamp)]

TransientQuery(o, query) ==
  LET log == LogOf(query, read_from_transient_storage(o.transient_storage.inner, query.key))
  IN PushCost(IF query.rw_flag THEN write_transient_storage_value(o, log)
              ELSE record_transient_storage_read(o, log),
              0, query.timestamp)

StorageQuery(o, query) ==
  LET read_value == o.storage.inner[query.key]
      log == LogOf(query, read_value)
      o1 == [o EXCEPT
               !.read_storage_keys = InsertIfAbsent(@, query.key, TRUE, query.timestamp),
               !.initial_values = InsertIfAbsent(@, query.key, read_value, query.timestamp)]
      current_price == base_price_for_key_write(o1, query.key, query.written_value)
      o2 == [o1 EXCEPT !.paid_changes =
               MapInsert(@, query.key, current_price, query.timestamp)]
  IN IF query.rw_flag
     THEN PushCost(write_storage_value(o2, log),
                   current_price - prepaid_for_write(o, query.key), query.timestamp)
     ELSE PushCost(record_storage_read(o1, log), 0, query.timestamp)

execute_partial_query(o, query) ==
  IF query.transient THEN TransientQuery(o, query) ELSE StorageQuery(o, query)

StorageStartFrame(o, timestamp) ==
  [o EXCEPT !.storage_frames_stack = FramesPush(@, timestamp),
            !.transient_storage_frames_stack = FramesPush(@, timestamp)]

\* Variant: what is paid is not brought back.
UndoWrite_StillPaid(log, o, timestamp) ==
  [o EXCEPT !.storage = write_to_storage(@, log.key, log.read_value, timestamp)]

\* Undoes one write of a panicking frame: the value it replaced is written
\* back and what is paid becomes the price of that value.
UndoWrite(log, o, timestamp) ==
  LET o1 == [o EXCEPT !.storage = write_to_storage(@, log.key, log.read_value, timestamp)]
  IN [o1 EXCEPT !.paid_changes =
        MapInsert(@, log.key, base_price_for_key_write(o1, log.key, log.read_value), timestamp)]

UndoTransientWrite(log, o, timestamp) ==
  [o EXCEPT !.transient_storage =
     write_to_transient_storage(@, log.key, log.read_value, timestamp)]

Everything(log) == TRUE

UndoFrame(o, timestamp) ==
  LET o1 == FoldRight(LAMBDA log, s : UndoWrite(log, s, timestamp),
                      current_frame(o.storage_frames_stack.rollback.inner), o)
      o2 == FoldRight(LAMBDA log, s : UndoTransientWrite(log, s, timestamp),
                      current_frame(o.transient_storage_frames_stack.rollback.inner), o1)
  IN [o2 EXCEPT
        !.storage_frames_stack = move_rollback_to_forward(@, Everything, timestamp),
        !.transient_storage_frames_stack = move_rollback_to_forward(@, Everything, timestamp)]

StorageFinishFrame(o, panicked, timestamp) ==
  LET o1 == IF panicked THEN UndoFrame(o, timestamp) ELSE o
  IN [o1 EXCEPT !.storage_frames_stack = FramesMerge(@, timestamp),
                !.transient_storage_frames_stack = FramesMerge(@, timestamp)]

\* Every transient key that has an entry is overwritten with zero, in the
\* arbitrary order of the map.
start_new_tx(o, timestamp) ==
  FoldSet(LAMBDA key, s :
            write_transient_storage_value(
              s, [key |-> key, read_value |-> s.transient_storage.inner[key],
                  written_value |-> 0, rw_flag |-> TRUE, timestamp |-> timestamp,
                  rollback |-> FALSE]),
          o, DOMAIN o.transient_storage.inner)

storage_log_queries_after_timestamp(o, timestamp) ==
  LogsAfter(current_frame(o.storage_frames_stack.forward.inner), timestamp)

\* Whether the assertions of finish_frame hold for a panicking frame: each
\* undone write finds the value it had written.
UndoFindsWrittenValues(o) ==
  LET logs == current_frame(o.storage_frames_stack.rollback.inner)
  IN FoldRight(LAMBDA log, st :
                 [ok |-> st.ok /\ st.values[log.key] = log.written_value,
                  values |-> [st.values EXCEPT ![log.key] = log.read_value]],
               logs, [ok |-> TRUE, values |-> o.storage.inner]).ok

-----------------------------------------------------------------------------
(* What is made of the logs at the end of a batch.                         *)

\* sort_storage_access_queries (external): per slot, the value before the
\* first access and the value after the last one, undone writes included.
AccessedSlots(logs) == {logs[i].key : i \in DOMAIN logs}

FirstValue(logs, key) == SelectSeq(logs, LAMBDA l : l.key = key)[1].read_value

FinalValue(logs, key) ==
  FoldLeft(LAMBDA v, l : CASE l.key # key \/ ~l.rw_flag -> v
                           [] l.rollback -> l.read_value
                           [] OTHER -> l.written_value,
           FirstValue(logs, key), logs)

\* PubdataTracer::get_state_diffs: the slots whose value changed, without
\* those of the L1 messenger, as slot -> <<initial, final>>.
get_state_diffs(o) ==
  LET logs == storage_log_queries_after_timestamp(o, 0)
      changed == {k \in AccessedSlots(logs) \ MessengerSlots :
                    FirstValue(logs, k) # FinalValue(logs, k)}
  IN [k \in changed |-> <<FirstValue(logs, k), FinalValue(logs, k)>>]

-----------------------------------------------------------------------------
(***************************************************************************)
(* old_vm/event_sink.rs: events and L1 messages.  A query is [timestamp,   *)
(* aux_byte, from_bootloader, rollback]; what an event says does not       *)
(* matter, its timestamp identifies it.                                    *)
(***************************************************************************)
add_partial_query(sink, query) ==
  push_rollback(push_forward(sink, query, query.timestamp),
                [query EXCEPT !.rollback = TRUE], query.timestamp)

\* Events of the bootloader outlive the panic of the frame that emitted them.
IsCancelled(query) == ~query.from_bootloader \/ query.aux_byte # "EVENT_AUX_BYTE"

SinkFinishFrame(sink, panicked, timestamp) ==
  FramesMerge(IF panicked THEN move_rollback_to_forward(sink, IsCancelled, timestamp) ELSE sink,
              timestamp)

\* The second log with a timestamp removes the first; tmp maps a timestamp
\* to its query and `ok` says whether the assertions on rollback flags hold.
CancelPairs(history) ==
  LET after[i \in 0 .. Len(history)] ==
        IF i = 0 THEN [tmp |-> <<>>, ok |-> TRUE]
        ELSE LET st == after[i - 1]
                 el == history[i]
             IN IF el.timestamp \in DOMAIN st.tmp
                THEN [tmp |-> Restrict(st.tmp, DOMAIN st.tmp \ {el.timestamp}),
                      ok |-> st.ok /\ el.rollback]
                ELSE [tmp |-> [t \in DOMAIN st.tmp \cup {el.timestamp} |->
                                 IF t = el.timestamp THEN el ELSE st.tmp[t]],
                      ok |-> st.ok /\ ~el.rollback]
  IN after[Len(history)]

log_queries_after_timestamp(sink, timestamp) ==
  LogsAfter(current_frame(sink.forward.inner), timestamp)

-----------------------------------------------------------------------------
(***************************************************************************)
(* old_vm/memory.rs (pages, and which of them a far call keeps) and        *)
(* old_vm/oracles/decommitter.rs (code pages).  A page is modelled by one  *)
(* slot per word of the longest bytecode.                                  *)
(***************************************************************************)
\* utils.rs: the pages of a far call, from its base page.
stack_page_from_base(base) == base + 1

heap_page_from_base(base) == base + 2

aux_heap_page_from_base(base) == base + 3

NewMemory == [memory |-> from_inner(<<>>), observable_pages |-> NewFramedStack]

\* Variant: the words stay.
SimpleMemoryRollback_PagesOnly(m, timestamp) ==
  [m EXCEPT !.observable_pages = StackRollback(@, timestamp)]

SimpleMemoryRollback(m, timestamp) ==
  [memory |-> MemoryRollback(m.memory, timestamp),
   observable_pages |-> StackRollback(m.observable_pages, timestamp)]

MemoryWrite(m, page, slot, value, timestamp) ==
  [m EXCEPT !.memory = write_to_memory(@, page, slot, value, timestamp)]

start_global_frame(m, new_base_page, calldata_page, timestamp) ==
  [m EXCEPT !.observable_pages =
     extend_frame(push_frame(@, timestamp),
                  <<calldata_page, stack_page_from_base(new_base_page),
                    heap_page_from_base(new_base_page),
                    aux_heap_page_from_base(new_base_page)>>, timestamp)]

\* The pages a call created are cleared when it returns, except the one it
\* returns and, for the code oracle, all of them.
finish_global_frame(m, base_page, this, returndata_page, timestamp) ==
  LET Clearable(page) == page >= base_page /\ page # returndata_page
      dropped == IF this = CODE_ORACLE THEN <<>>
                 ELSE SelectSeq(current_frame(m.observable_pages.inner), Clearable)
      merged == merge_frame(clear_frame(m.observable_pages, timestamp), timestamp)
  IN [memory |-> FoldLeft(LAMBDA r, page : clear_page(r, page, timestamp), m.memory, dropped),
      observable_pages |-> IF this = CODE_ORACLE THEN merged
                           ELSE push_to_frame(merged, returndata_page, timestamp)]

-----------------------------------------------------------------------------
NewDecommitter ==
  [known_bytecodes |-> from_inner(<<>>), dynamic_bytecode_hashes |-> {},
   decommitted_code_hashes |-> from_inner(<<>>), decommitment_requests |-> from_inner(<<>>)]

\* dynamic_bytecode_hashes is a plain set and is not rolled back.
DecommitterRollback(d, timestamp) ==
  [d EXCEPT !.known_bytecodes = MapRollback(@, timestamp),
            !.decommitted_code_hashes = MapRollback(@, timestamp),
            !.decommitment_requests = VecRollback(@, timestamp)]

\* The bytecode, cached on its first use; the caller checks that it exists.
get_bytecode(d, hash, timestamp) ==
  IF hash \in DOMAIN d.known_bytecodes.inner THEN d
  ELSE [d EXCEPT !.known_bytecodes = MapInsert(@, hash, CodeWords[hash], timestamp)]

insert_dynamic_bytecode(d, hash, timestamp) ==
  [d EXCEPT !.dynamic_bytecode_hashes = @ \cup {hash},
            !.known_bytecodes = MapInsert(@, hash, CodeWords[hash], timestamp)]

\* The page a hash was decommitted to, None if it never was.
DecommittedPage(d, hash) ==
  LET entry == MapGet(d.decommitted_code_hashes.inner, hash)
  IN IF entry = None THEN None ELSE entry[1]

IsFresh(d, hash) == DecommittedPage(d, hash) = None

prepare_to_decommit(d, hash, timestamp) ==
  IF MapGet(d.decommitted_code_hashes.inner, hash) # None THEN d
  ELSE [d EXCEPT !.decommitted_code_hashes = MapInsert(@, hash, None, timestamp)]

\* Loads a fresh bytecode into a page: the decommitter and the memory after.
decommit_into_memory(d, m, hash, page, timestamp) ==
  LET d1 == [get_bytecode(d, hash, timestamp) EXCEPT
               !.decommitment_requests = VecPush(@, "request", timestamp),
               !.decommitted_code_hashes = MapInsert(@, hash, Some(page), timestamp)]
      words == d1.known_bytecodes.inner[hash]
  IN [decommitter |-> d1,
      memory |-> FoldLeft(LAMBDA r, i : MemoryWrite(r, page, i, words[i], timestamp),
                          m, [i \in DOMAIN words |-> i])]

=============================================================================
