-------------------------- MODULE StorageViewUsers -------------------------
(***************************************************************************)
(* Two users of one view: the reference VM through the view, the fast VM    *)
(* through the immutable one (to_rc_ptr() shares it).                       *)
(***************************************************************************)
EXTENDS StorageView

CONSTANTS
    ViewSlots, ViewValues,
    MaxViewCalls        \* bound: calls on the views

VARIABLES
    storage,     \* the snapshot
    shared_view, \* the StorageView, shared by both VMs' views of it
    changes,     \* what was written through the view, and nothing else
    answer,      \* of the last call: what was returned, and what should have been
    view_calls   \* the calls made so far

view_vars == <<storage, shared_view, changes, answer, view_calls>>

\* The slots of a snapshot: empty, in the tree, and written before a snapshot that was
\* taken in the middle of a batch.
ViewInit ==
    /\ storage \in [ViewSlots -> {<<>>} \union (ViewValues \X {0, 1})]
    /\ shared_view = NewView
    /\ changes = NoKeys
    /\ answer = [got |-> 0, due |-> 0]
    /\ view_calls = 0

InStorage(key) == SnapshotValue(storage, key)

InView(key) == IF key \in DOMAIN changes THEN changes[key] ELSE InStorage(key)

Answers(r, due) == answer' = [got |-> r.value, due |-> due] /\ shared_view' = r.view

ReadValue ==
    \E key \in ViewSlots :
        /\ Answers(read_value(storage, shared_view, key), InView(key))
        /\ UNCHANGED changes

SetValue ==
    \E key \in ViewSlots, value \in ViewValues \union {0} :
        /\ Answers(set_value(storage, shared_view, key, value), InView(key))
        /\ changes' = With(changes, key, value)

IsWriteInitial ==
    \E key \in ViewSlots :
        /\ Answers(ViewIsInitial(storage, shared_view, key), SnapshotIndex(storage, key) = <<>>)
        /\ UNCHANGED changes

ReadImmutable ==
    \E key \in ViewSlots :
        /\ Answers(ImmutableRead(storage, shared_view, key), InStorage(key))
        /\ UNCHANGED changes

IsBytecodeKnown ==
    \E key \in ViewSlots :
        /\ Answers(is_bytecode_known(storage, shared_view, key), InStorage(key) # 0)
        /\ UNCHANGED changes

ViewNext ==
    /\ view_calls < MaxViewCalls
    /\ view_calls' = view_calls + 1
    /\ UNCHANGED storage
    /\ ReadValue \/ SetValue \/ IsWriteInitial \/ ReadImmutable \/ IsBytecodeKnown

ViewSpec == ViewInit /\ [][ViewNext]_view_vars

-----------------------------------------------------------------------------
\* Whatever was read and written before, and through which of the two views: a read through
\* the view has what was written last, set_value() returns what it replaces, a read through
\* the immutable view has what was there before the batch, and a write is initial exactly if
\* the tree has no such slot, though it was written since (get_value_no_log(),
\* ImmutableStorageView, is_write_initial()).
ViewsAnswerRightly == answer.got = answer.due

\* The cache, which is reported as what the batch has read, never holds a written value, and
\* every slot counts as missed once (read_storage_keys(), missed_storage_invocations()).
CacheIsOfTheStorage ==
    /\ \A key \in DOMAIN shared_view.read_storage_keys : shared_view.read_storage_keys[key] = InStorage(key)
    /\ shared_view.storage_invocations_missed = Cardinality(DOMAIN shared_view.read_storage_keys)
    /\ shared_view.modified_storage_keys = changes

\* Views and their cache are right for both users (StorageView, ImmutableStorageView).
ViewsAreRight ==
    /\ ViewsAnswerRightly
    /\ CacheIsOfTheStorage
=============================================================================
