----------------------------- MODULE StorageView ----------------------------
(***************************************************************************)
(* vm_interface/src/storage: the storage of a batch.  StorageSnapshot holds *)
(* what the witness says of the slots before the batch; StorageView caches  *)
(* it and keeps the changes of the reference VM; ImmutableStorageView is    *)
(* the same view without the changes, for the fast VM, which keeps its own. *)
(*                                                                         *)
(* A snapshot maps slots to <<>> (nothing there) or <<value, index>>.  Zero *)
(* is the value of an empty slot.  A slot the snapshot does not have panics *)
(* in the code: the callers here read only slots it has.                    *)
(***************************************************************************)
EXTENDS Integers, Sequences, FiniteSets, Functions

-----------------------------------------------------------------------------
(***************************************************************************)
(* StorageSnapshot; slots have model-independent zero values.               *)
(***************************************************************************)
SnapshotValue(snapshot, key) == IF snapshot[key] = <<>> THEN 0 ELSE snapshot[key][1]

SnapshotIsInitial(snapshot, key) == snapshot[key] = <<>> \/ snapshot[key][2] = 0

\* No index is <<>>; an index of zero is none.
SnapshotIndex(snapshot, key) ==
    IF SnapshotIsInitial(snapshot, key) THEN <<>> ELSE <<snapshot[key][2]>>

-----------------------------------------------------------------------------
(***************************************************************************)
(* StorageView over a snapshot.  A call returns its value and the view.     *)
(***************************************************************************)
NoKeys == [k \in {} |-> 0]

With(f, key, value) == [k \in DOMAIN f \union {key} |-> IF k = key THEN value ELSE f[k]]

NewView == [modified_storage_keys |-> NoKeys, read_storage_keys |-> NoKeys,
            initial_writes |-> NoKeys, storage_invocations_missed |-> 0]

\* From the cache of reads, which is filled.
CachedRead(snapshot, v, key) ==
    IF key \in DOMAIN v.read_storage_keys
    THEN [value |-> v.read_storage_keys[key], view |-> v]
    ELSE LET value == SnapshotValue(snapshot, key)
         IN  [value |-> value,
              view |-> [v EXCEPT !.read_storage_keys = With(@, key, value),
                                    !.storage_invocations_missed = @ + 1]]

\* Variant: the cache of reads goes before the changes.
get_value_no_log_CacheFirst(snapshot, v, key) ==
    IF key \in DOMAIN v.read_storage_keys \/ key \notin DOMAIN v.modified_storage_keys
    THEN CachedRead(snapshot, v, key)
    ELSE [value |-> v.modified_storage_keys[key], view |-> v]

get_value_no_log(snapshot, v, key) ==
    IF key \in DOMAIN v.modified_storage_keys
    THEN [value |-> v.modified_storage_keys[key], view |-> v]
    ELSE CachedRead(snapshot, v, key)

read_value(snapshot, v, key) == get_value_no_log(snapshot, v, key)

\* Returns the value before.
set_value(snapshot, v, key, value) ==
    LET original == get_value_no_log(snapshot, v, key)
    IN  [value |-> original.value,
         view |-> [original.view EXCEPT !.modified_storage_keys = With(@, key, value)]]

ViewIsInitial(snapshot, v, key) ==
    IF key \in DOMAIN v.initial_writes
    THEN [value |-> v.initial_writes[key], view |-> v]
    ELSE LET initial == SnapshotIsInitial(snapshot, key)
         IN  [value |-> initial, view |-> [v EXCEPT !.initial_writes = With(@, key, initial)]]

\* read_value() of ImmutableStorageView.
ImmutableRead(snapshot, v, key) == CachedRead(snapshot, v, key)

\* is_bytecode_known() of ReadStorage, for the immutable view: the slot of the hash is not zero.
is_bytecode_known(snapshot, v, key) ==
    LET read == ImmutableRead(snapshot, v, key) IN [value |-> read.value # 0, view |-> read.view]

=============================================================================
