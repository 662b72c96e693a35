---------------------- MODULE StorageWritesDeduplicator ----------------------
(***************************************************************************)
(* multivm/src/utils/deduplicator.rs: the storage writes of a batch with   *)
(* the writes that cancel out removed, with counters of what is left and   *)
(* snapshots that undo updates.                                            *)
(***************************************************************************)
EXTENDS StateDiffs, SequencesExt, Functions

CONSTANTS
  Slots,
  InitialSlots,        \* the slots the tree does not have before the batch
  SlotValues,          \* the values that writes use
  MaxLogs,             \* bound: logs applied in one call
  MaxCalls,            \* bound: calls of the deduplicator
  MaxDedupSnapshots    \* bound: snapshots at a time

VARIABLES
  dedup,       \* the StorageWritesDeduplicator
  slots,       \* the storage the logs come from
  slot_saves,  \* that storage at each snapshot
  calls        \* the calls made so far

dedup_vars == <<dedup, slots, slot_saves, calls>>

\* A deduplicator; absent map entries are absent from the functions' domains.
NewDeduplicator ==
  [initial_values |-> <<>>, modified_key_values |-> <<>>,
   initial_storage_writes |-> 0, repeated_storage_writes |-> 0,
   total_updated_values_size |-> 0, snapshots |-> <<>>]

Put(f, k, v) == [x \in DOMAIN f \cup {k} |-> IF x = k THEN v ELSE f[x]]

Drop(f, k) == [x \in DOMAIN f \ {k} |-> f[x]]

\* Adds n to the counter the kind of a write selects.
Count(d, is_initial, n) ==
  IF is_initial THEN [d EXCEPT !.initial_storage_writes = @ + n]
  ELSE [d EXCEPT !.repeated_storage_writes = @ + n]

Resize(d, n) == [d EXCEPT !.total_updated_values_size = @ + n]

SetModified(d, f) == [d EXCEPT !.modified_key_values = f]

\* One write log: the new state and the update items it pushed.
ProcessWrite(d, log) ==
  LET initial_values == IF log.key \in DOMAIN d.initial_values THEN d.initial_values
                        ELSE Put(d.initial_values, log.key, log.previous_value)
      initial_value == initial_values[log.key]
      d1 == [d EXCEPT !.initial_values = initial_values]
      modified == d.modified_key_values
      was_key_modified == log.key \in DOMAIN modified
      slot == [value |-> log.value,
               size |-> Len(compress_with_best_strategy(initial_value, log.value))]
      Item(type, old) == <<[key |-> log.key, type |-> type, old |-> old,
                            is_write_initial |-> log.is_write_initial]>>
  IN CASE was_key_modified /\ initial_value = log.value ->
            [d |-> Resize(Count(SetModified(d1, Drop(modified, log.key)),
                                log.is_write_initial, -1),
                          -modified[log.key].size),
             updates |-> Item("Remove", <<modified[log.key]>>)]
       [] was_key_modified /\ initial_value # log.value ->
            [d |-> Resize(SetModified(d1, Put(modified, log.key, slot)),
                          slot.size - modified[log.key].size),
             updates |-> Item("Update", <<modified[log.key]>>)]
       [] ~was_key_modified /\ initial_value # log.value ->
            [d |-> Resize(Count(SetModified(d1, Put(modified, log.key, slot)),
                                log.is_write_initial, 1),
                          slot.size),
             updates |-> Item("Insert", <<>>)]
       [] OTHER -> [d |-> d1, updates |-> <<>>]

process_storage_logs(d, logs) ==
  FoldLeft(LAMBDA st, log :
             LET r == ProcessWrite(st.d, log)
             IN [d |-> r.d, updates |-> st.updates \o r.updates],
           [d |-> d, updates |-> <<>>],
           SelectSeq(logs, LAMBDA log : log.is_write))

UndoItem(item, d) ==
  LET modified == d.modified_key_values
  IN CASE item.type = "Insert" ->
            Resize(Count(SetModified(d, Drop(modified, item.key)), item.is_write_initial, -1),
                   -modified[item.key].size)
       [] item.type = "Update" ->
            Resize(SetModified(d, Put(modified, item.key, item.old[1])),
                   item.old[1].size - modified[item.key].size)
       [] item.type = "Remove" ->
            Resize(Count(SetModified(d, Put(modified, item.key, item.old[1])),
                         item.is_write_initial, 1),
                   item.old[1].size)

dedup_rollback(d, updates) == FoldRight(UndoItem, updates, d)

dedup_apply(d, logs) ==
  LET r == process_storage_logs(d, logs)
      last == Len(d.snapshots)
  IN IF last = 0 THEN r.d ELSE [r.d EXCEPT !.snapshots[last] = @ \o r.updates]

\* The state after apply_and_rollback (its result is the counters in between).
apply_and_rollback(d, logs) ==
  LET r == process_storage_logs(d, logs) IN dedup_rollback(r.d, r.updates)

dedup_make_snapshot(d) == [d EXCEPT !.snapshots = Append(@, <<>>)]

rollback_to_latest_snapshot_popping(d) ==
  [dedup_rollback(d, Last(d.snapshots)) EXCEPT !.snapshots = Front(@)]

pop_front_snapshot_no_rollback(d) ==
  [d EXCEPT !.snapshots = IF @ = <<>> THEN @ ELSE Tail(@)]

metrics(d) ==
  [initial |-> d.initial_storage_writes, repeated |-> d.repeated_storage_writes,
   size |-> d.total_updated_values_size]

-----------------------------------------------------------------------------
(* A caller that executes transactions on a storage, passes their logs on, *)
(* and takes and drops snapshots together with those of the storage.       *)

InitialStorage == [k \in Slots |-> 0]

\* The logs of writing `writes` (slot and value pairs), each with the value
\* it replaces and the kind the tree gives its slot; a pair of a slot with
\* itself is a read.
LogsOf(writes, from) ==
  FoldLeft(LAMBDA st, w :
             LET write == w[2] \in SlotValues
             IN [logs |-> Append(st.logs,
                            [key |-> w[1], is_write |-> write,
                             is_write_initial |-> w[1] \in InitialSlots,
                             previous_value |-> st.slots[w[1]],
                             value |-> IF write THEN w[2] ELSE st.slots[w[1]]]),
                 slots |-> IF write THEN [st.slots EXCEPT ![w[1]] = w[2]] ELSE st.slots],
           [logs |-> <<>>, slots |-> from], writes)

Transactions == BoundedSeq(Slots \X (SlotValues \cup {-1}), MaxLogs) \ {<<>>}

DedupInit ==
  /\ dedup = NewDeduplicator
  /\ slots = InitialStorage
  /\ slot_saves = <<>>
  /\ calls = 0

Apply ==
  \E writes \in Transactions : \E r \in {LogsOf(writes, slots)} :
    /\ dedup' = dedup_apply(dedup, r.logs)
    /\ slots' = r.slots
    /\ UNCHANGED slot_saves

\* The transaction is measured and not executed.
ApplyAndRollback ==
  \E writes \in Transactions :
    /\ dedup' = apply_and_rollback(dedup, LogsOf(writes, slots).logs)
    /\ UNCHANGED <<slots, slot_saves>>

MakeSnapshot ==
  /\ Len(slot_saves) < MaxDedupSnapshots
  /\ dedup' = dedup_make_snapshot(dedup)
  /\ slot_saves' = Append(slot_saves, slots)
  /\ UNCHANGED slots

RollbackToLatest ==
  /\ slot_saves # <<>>
  /\ dedup' = rollback_to_latest_snapshot_popping(dedup)
  /\ slots' = Last(slot_saves)
  /\ slot_saves' = Front(slot_saves)

PopFront ==
  /\ slot_saves # <<>>
  /\ dedup' = pop_front_snapshot_no_rollback(dedup)
  /\ slot_saves' = Tail(slot_saves)
  /\ UNCHANGED slots

DedupNext ==
  /\ calls < MaxCalls
  /\ calls' = calls + 1
  /\ Apply \/ ApplyAndRollback \/ MakeSnapshot \/ RollbackToLatest \/ PopFront

-----------------------------------------------------------------------------
Differing == {k \in Slots : slots[k] # InitialStorage[k]}

\* The modified slots are exactly those whose value differs from the one
\* before the batch, with their current values, whatever was written, undone
\* and written again in between (process_storage_logs, rollback).
ModifiedIsDifference ==
  /\ DOMAIN dedup.modified_key_values = Differing
  /\ \A k \in Differing : dedup.modified_key_values[k].value = slots[k]

\* The counters, which are adjusted step by step and never recomputed, are
\* those of the modified slots (hazard: the kind of each log decides which
\* counter moves, and the size comes from the value it replaces).
CountersMatchModified ==
  metrics(dedup) =
    [initial |-> Cardinality(Differing \cap InitialSlots),
     repeated |-> Cardinality(Differing \ InitialSlots),
     size |-> FoldSet(LAMBDA k, n :
                        n + Len(compress_with_best_strategy(InitialStorage[k], slots[k])),
                      0, Differing)]
=============================================================================
