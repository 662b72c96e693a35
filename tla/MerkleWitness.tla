---------------------------- MODULE MerkleWitness ---------------------------
(***************************************************************************)
(* One batch from the tree to the verifier.  The tree processes the batch  *)
(* in full mode and produces the Merkle paths of its storage logs          *)
(* (merkle_tree/src/domain.rs, witness.rs); the witness arrives, in the    *)
(* current or in the legacy encoding, possibly corrupted in one place; the *)
(* verifier (airbender_verifier/src/merkle_witness.rs) brings it into the  *)
(* canonical form, builds the storage view from it, runs the VM on the     *)
(* view and checks every path against the root before the batch.           *)
(*                                                                         *)
(* The VM is a program: for every slot it touches, whether it reads it,    *)
(* writes it, or writes it and rolls this back.  What it logs depends on   *)
(* the view.                                                               *)
(***************************************************************************)
EXTENDS WitnessPaths, SequencesExt

CONSTANTS
    Trees,              \* trees before the batch: functions from keys to <<index, value>>
    Programs,           \* sequences of [key, kind, value], at most one per key
    Corruptions         \* positions at which a witness may be corrupted ({}: never)

VARIABLES
    phase,
    contents,           \* the tree before the batch
    program,
    output,             \* what extend_with_proofs() has returned
    witness,            \* WitnessInputMerklePaths
    corrupted,          \* the witness is not what the tree has produced
    view,               \* the storage view of the verifier
    vm_logs,            \* deduplicated storage logs of the VM
    result              \* what verify_paths_and_new_root() has returned

vars == <<phase, contents, program, output, witness, corrupted, view, vm_logs, result>>

-----------------------------------------------------------------------------
process_l1_batch_full ==
    /\ phase = "batch"
    /\ \E instructions \in {InstructionsOf(contents, program)} :
       \E out \in {extend_with_proofs(Load(contents, 1, KeysOf(instructions)), 1,
                                     Cardinality(DOMAIN contents), instructions)} :
            /\ output' = [out EXCEPT !.t = [ws |-> out.t.ws, hashes |-> out.t.hashes]]
            /\ witness' = [merkle_paths |-> WitnessOf(out.logs, instructions),
                           next_enumeration_index |-> Cardinality(DOMAIN contents) + 1]
    /\ phase' = "sent"
    /\ UNCHANGED <<contents, program, corrupted, view, vm_logs, result>>

SendLegacy ==
    /\ phase = "sent"
    /\ ~corrupted
    /\ witness.merkle_paths # <<>>
    /\ Len(witness.merkle_paths[1].path) < TREE_DEPTH
    /\ witness' = [witness EXCEPT !.merkle_paths = LegacyForm(@)]
    /\ UNCHANGED <<phase, contents, program, output, corrupted, view, vm_logs, result>>

\* The witnesses that differ from this one in one field of entry i, or by one entry.
Damaged(paths, i) ==
    LET e == paths[i]
        hashes == {RootHash(contents), RootHash(After(contents, program)),
                   empty_subtree_hash[0], empty_subtree_hash[1]}
        entries ==
            {[e EXCEPT !.root_hash = h] : h \in hashes}
            \cup {[e EXCEPT !.is_write = ~@], [e EXCEPT !.first_write = ~@],
                  [e EXCEPT !.is_write = ~@, !.first_write = ~@]}
            \cup {[e EXCEPT !.key = k] : k \in {program[j].key : j \in DOMAIN program}}
            \cup {[e EXCEPT !.index = n] : n \in 0..(Cardinality(DOMAIN contents) + 1)}
            \cup {[e EXCEPT !.value_read = v] : v \in 0..2}
            \cup {[e EXCEPT !.path = <<h>> \o @] : h \in hashes}
            \cup {[e EXCEPT !.path = extend_merkle_path(@)], [e EXCEPT !.path = EmptySiblings(TREE_DEPTH) \o @]}
            \cup {[e EXCEPT !.path = SubSeq(@, 2, Len(@))]}
            \cup {[e EXCEPT !.path[j] = h] : j \in DOMAIN e.path, h \in hashes}
    IN  {[paths EXCEPT ![i] = other] : other \in entries}
        \cup {RemoveAt(paths, i), InsertAt(paths, i, e)}
        \cup {[paths EXCEPT ![1] = e, ![i] = paths[1]]}

Corrupt(i) ==
    /\ phase = "sent"
    /\ ~corrupted
    /\ i \in DOMAIN witness.merkle_paths
    /\ \E paths \in Damaged(witness.merkle_paths, i) :
        /\ paths # witness.merkle_paths
        /\ witness' = [witness EXCEPT !.merkle_paths = paths]
    /\ corrupted' = TRUE
    /\ UNCHANGED <<phase, contents, program, output, view, vm_logs, result>>

Normalize ==
    /\ phase = "sent"
    /\ IF CanNormalize(witness.merkle_paths)
       THEN /\ witness' = [witness EXCEPT !.merkle_paths = normalize_stored_paths(@)]
            /\ phase' = "normalized"
       ELSE /\ phase' = "rejected"
            /\ UNCHANGED witness
    /\ UNCHANGED <<contents, program, output, corrupted, view, vm_logs, result>>

\* The other slots that the batch is declared to touch are empty.
build_view_from_merkle_paths ==
    /\ phase = "normalized"
    /\ IF ViewIsBuilt(witness.merkle_paths)
       THEN /\ view' = WitnessedView(witness.merkle_paths) @@ [k \in KeysOf(program) |-> EmptyLeaf]
            /\ phase' = "viewed"
       ELSE /\ phase' = "rejected"
            /\ UNCHANGED view
    /\ UNCHANGED <<contents, program, output, witness, corrupted, vm_logs, result>>

\* The VM runs on the view.
execute_vm ==
    /\ phase = "viewed"
    /\ vm_logs' = sort_storage_access_queries(view, program)
    /\ phase' = "executed"
    /\ UNCHANGED <<contents, program, output, witness, corrupted, view, result>>

Verify ==
    /\ phase = "executed"
    /\ result' = verify_paths_and_new_root(witness.merkle_paths, vm_logs, RootHash(contents),
                                           witness.next_enumeration_index)
    /\ phase' = IF result'.ok THEN "accepted" ELSE "rejected"
    /\ UNCHANGED <<contents, program, output, witness, corrupted, view, vm_logs>>

\* The batch was verified or rejected.
Done == phase \in {"accepted", "rejected"} /\ UNCHANGED vars

Init ==
    /\ phase = "batch"
    /\ contents \in Trees
    /\ program \in Programs
    /\ output = <<>>
    /\ witness = <<>>
    /\ corrupted = FALSE
    /\ view = <<>>
    /\ vm_logs = <<>>
    /\ result = Error

Next ==
    \/ process_l1_batch_full
    \/ SendLegacy
    \/ \E i \in Corruptions : Corrupt(i)
    \/ Normalize
    \/ build_view_from_merkle_paths
    \/ execute_vm
    \/ Verify
    \/ Done

Spec == Init /\ [][Next]_vars

-----------------------------------------------------------------------------

\* The full mode, which works on subtrees in parallel and puts the root together at the
\* end, stores the same nodes and the same stale keys as the lightweight mode, and the
\* hash in every child reference is that of the subtree.  (Above a single leaf the full
\* mode stores an internal root.)
FullModeMatchesLightweight ==
    phase = "sent" =>
        LET after == After(contents, program)
            writes == Writes(InstructionsOf(contents, program))
            light == extend(Database(contents), 1,
                            [i \in DOMAIN writes |-> [key |-> writes[i].key, value |-> writes[i].value]])
        IN  /\ Cardinality(DOMAIN after) # 1 => output.patch = light
            /\ output.leaf_count = Cardinality(DOMAIN after)
            /\ \A p \in DOMAIN output.t.hashes : output.t.hashes[p] = SubtreeHash(after, p)

\* "We can always transform the root to an `InternalNode`" (storage/proofs.rs): the last
\* root hash of a batch is that of the tree, whatever its root node was before.
RootIsTransformed ==
    phase = "sent" /\ output.logs # <<>> =>
        Last(output.logs).root_hash = RootHash(After(contents, program))

\* entries_with_proofs() for one key.
ProofIn(t, key) == create_proof(t, key, LongestPrefix(t.ws, key), 0)

EntryWithProof(tree, key) == ProofIn(Load(tree, 0, {key}), key)

\* Every key, present or missing, can be proved in the tree before the batch: the path
\* leads from its leaf to the root.
ProofsVerify ==
    phase = "batch" =>
        \A key \in KeysOf(program) \cup DOMAIN contents :
            LET proof == EntryWithProof(contents, key)
            IN  /\ proof.base.value = LeafAt(contents, key)
                /\ fold_merkle_path(proof.path.hashes, key, LeafAt(contents, key)) = RootHash(contents)

\* Both encodings of a witness have the same canonical form, and to bring a witness, even
\* a corrupted one, into this form again changes nothing.
NormalFormIsCanonical ==
    phase = "normalized" =>
        /\ normalize_stored_paths(witness.merkle_paths) = witness.merkle_paths
        /\ ~corrupted => witness.merkle_paths =
                WitnessOf(output.logs, InstructionsOf(contents, program))

\* A witness of the tree is accepted, and the verifier arrives at the root and the next
\* index of the tree.  (A batch without storage logs has no root to return.)
HonestWitnessIsAccepted ==
    ~corrupted /\ phase \in {"accepted", "rejected"} /\ witness.merkle_paths # <<>> =>
        /\ phase = "accepted"
        /\ result.root = RootHash(After(contents, program))
        /\ result.index = output.leaf_count + 1

\* Whatever happened to the witness, a batch is accepted only if the VM has seen the
\* slots as they were in the tree, and then with the right root and index.
AcceptedMeansRight ==
    phase = "accepted" =>
        /\ \A i \in DOMAIN vm_logs : view[vm_logs[i].key] = LeafAt(contents, vm_logs[i].key)
        /\ result.root = RootHash(After(contents, program))
        /\ result.index = Cardinality(DOMAIN After(contents, program)) + 1

\* The oracle of the code's tests: get_bowp(), generate_tree_instructions(),
\* verify_proofs() and root_hash().
OracleVerify(paths, logs, old_root_hash, idx) ==
    LET bases == [i \in DOMAIN paths |-> tree_log_entry_from_witness(paths[i])]
        inserted(i) == Cardinality({j \in 1..i : bases[j].op = "Inserted"})
        full == [i \in DOMAIN paths |->
                    [paths[i] EXCEPT !.path = IF Len(@) < TREE_DEPTH THEN extend_merkle_path(@) ELSE @]]
        ins(i) == map_log_tree(logs[i], bases[i], idx + inserted(i - 1))
        Ok == /\ \A i \in DOMAIN paths : bases[i].op # "malformed"
              /\ Len(paths) = Len(logs)
              /\ \A i \in DOMAIN paths : paths[i].key = logs[i].key /\ Agree(logs[i], bases[i])
              /\ \A i \in DOMAIN paths : Len(full[i].path) <= TREE_DEPTH
              /\ \A i \in DOMAIN paths :
                    FoldOne(IF i = 1 THEN old_root_hash ELSE paths[i - 1].root_hash, full[i], bases[i], ins(i))
              /\ paths # <<>>
    IN  IF Ok THEN [ok |-> TRUE, root |-> Last(paths).root_hash, index |-> idx + inserted(Len(paths))]
        ELSE Error

\* The streaming check and the oracle agree on every witness ("On every input the two
\* MUST agree").
StreamingMatchesOracle ==
    phase = "executed" =>
        verify_paths_and_new_root(witness.merkle_paths, vm_logs, RootHash(contents),
                                  witness.next_enumeration_index)
        = OracleVerify(witness.merkle_paths, vm_logs, RootHash(contents),
                       witness.next_enumeration_index)

\* The full mode proves the tree that the lightweight mode stores: same nodes, right hashes, and a
\* path to the root for every key (extend_with_proofs(), entries_with_proofs()).
TreeIsProved ==
    /\ FullModeMatchesLightweight
    /\ ProofsVerify

\* A witness of the tree comes through both encodings and the verifier accepts it
\* (normalize_stored_paths(), verify_paths_and_new_root()).
HonestWitnessPasses ==
    /\ NormalFormIsCanonical
    /\ HonestWitnessIsAccepted

-----------------------------------------------------------------------------
(***************************************************************************)
(* The instance that is checked: keys of two nibbles of two bits.  No two   *)
(* keys share all bits but the last: a path of full length stands for the   *)
(* legacy encoding.                                                         *)
(***************************************************************************)
Key(a, b) == <<a, b>>

k0 == Key(0, 0)
k1 == Key(0, 2)
k2 == Key(1, 0)
k3 == Key(2, 1)
k4 == Key(3, 3)

MCTrees ==
    { [k \in {} |-> 0],
      (k0 :> <<1, 1>>) @@ (k1 :> <<2, 1>>),
      (k2 :> <<1, 1>>) @@ (k3 :> <<2, 1>>),
      (k1 :> <<3, 1>>) @@ (k2 :> <<2, 1>>) @@ (k3 :> <<1, 1>>) }

\* A tree of one leaf, as genesis in the lightweight mode or recovery leaves it.
OneLeafTrees == { k0 :> <<1, 1>> }

MCOps ==
    [key : {k0, k1, k2, k3, k4}, kind : {"read", "rolled_back"}, value : {0}]
        \cup [key : {k0, k1, k2, k3, k4}, kind : {"write"}, value : {1, 2}]

MCPrograms ==
    {<<a>> : a \in MCOps}
        \cup {<<a, b>> : a \in {op \in MCOps : op.key \in {k0, k1}},
                         b \in {op \in MCOps : op.key \in {k2, k3, k4}}}
        \cup {<<a, b, c>> : a \in {op \in MCOps : op.key = k0},
                            b \in {op \in MCOps : op.key \in {k3, k4}},
                            c \in {op \in MCOps : op.key = k1}}

MCCorruptions == {1, 2}

NoCorruptions == {}
=============================================================================
