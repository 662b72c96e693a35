------------------------------- MODULE Library ------------------------------
(***************************************************************************)
(* The library code that the components use, and the tools around them.  A  *)
(* behaviour is about one subject: an input of a pure function, whose       *)
(* initial state is all there is to check, or one of four small machines: a *)
(* MiniMerkleTree that grows and is trimmed, a deduplicator of storage      *)
(* writes, a StorageView, and the commands of the prover host.              *)
(***************************************************************************)
EXTENDS NodeSerialization, StorageWritesDeduplicator, Pubdata, FeeModel, StorageViewUsers, RevertReasons,
        ProverHost, HostData, VmComparison

CONSTANTS
    Keys, Hashes32, Numbers,    \* of nodes: byte strings, and numbers in LEB128
    Manifests,
    Codes,                      \* bytecodes
    PubdataEvents,              \* the events that may occur, as a sequence
    MaxEvents,
    PubdataInputs,
    Wires,                      \* serialized parameters
    FeeInputs, MaxPrice,
    MaxData, GuestUsize, HostUsize,
    MaxLeaves,                  \* leaves pushed to a MiniMerkleTree
    MaxPayload,                 \* bytes of a batch's payload
    Samples, MaxSamples,        \* proving times and cycles
    Steps,                      \* steps a VM is observed at
    Runs, FinishedBatches,      \* runs of a transaction, and finished batches
    MaxCapture, Pointers, Memories, PointerWidth

VARIABLES
    subject,    \* <<what this behaviour is about, input>>
    mini,       \* the MiniMerkleTree
    leaves      \* all the leaves it was given, trimmed ones too

library_vars == <<subject, mini, leaves, dedup_vars, view_vars, host_vars>>

-----------------------------------------------------------------------------
(***************************************************************************)
(* A caller of MiniMerkleTree; the leaves are numbered.                     *)
(***************************************************************************)
MiniInit ==
    \E n \in 0..2, min_tree_size \in {1, 2, 4} :
        /\ leaves = [i \in 1..n |-> i]
        /\ mini = NewMiniTree(leaves, min_tree_size)

PushLeaf ==
    /\ Len(leaves) < MaxLeaves
    /\ leaves' = Append(leaves, Len(leaves) + 1)
    /\ mini' = push_hash(mini, hash_bytes(Len(leaves) + 1))

TrimStart ==
    \E count \in 1..Len(mini.hashes) :
        /\ mini' = trim_start(mini, count)
        /\ UNCHANGED leaves

-----------------------------------------------------------------------------
(***************************************************************************)
(* The inputs.                                                              *)
(***************************************************************************)
Leaf(key, hash, index) == [kind |-> "leaf", full_key |-> key, value_hash |-> hash, leaf_index |-> index]

Ref(hash, version, is_leaf) == [hash |-> hash, version |-> version, is_leaf |-> is_leaf]

Internal(places, hash, version, is_leaf) ==
    [kind |-> "internal", refs |-> [i \in places |-> Ref(hash, version + i, is_leaf \/ i = 3)]]

Filled(leaf_count, node) == [kind |-> "filled", leaf_count |-> leaf_count, node |-> node]

NodeSubject ==
    \/ \E k \in Keys, h \in Hashes32, n \in Numbers : subject = <<"node", Leaf(k, h, n)>>
    \/ \E h \in Hashes32, n \in Numbers, b \in BOOLEAN, places \in {{0}, {3, 4}, {15}, {0, 7, 9, 15}} :
           subject = <<"node", Internal(places, h, n, b)>>
    \/ subject = <<"root", [kind |-> "empty"]>>
    \/ \E k \in Keys, h \in Hashes32, n \in Numbers : subject = <<"root", Filled(1, Leaf(k, h, n))>>
    \/ \E h \in Hashes32, n \in Numbers, b \in BOOLEAN :
           \/ subject = <<"root", Filled(1, Internal({n % 16}, h, n, b))>>
           \/ subject = <<"root", Filled(n + 2, Internal({0, 1 + (n % 15)}, h, n, b))>>
    \/ \E m \in Manifests : subject = <<"manifest", m>>
    \/ \E k \in Keys, other \in Keys, n \in 0..(2 * KEY_SIZE) : subject = <<"nibbles", k, other, n>>
    \/ \E k \in Keys, other \in Keys, a \in {0, 1, 255, 256}, b \in {1, 256}, n \in 0..3, m \in 0..3 :
           subject = <<"db key", [version |-> a, nibbles |-> NibblesNew(k, n)],
                       [version |-> b, nibbles |-> NibblesNew(other, m)]>>

KnownCodes == [h \in {for_bytecode(c) : c \in {c \in Codes : validate_bytecode(c)}} |-> bytes_to_be_words(h[4][2])]

Events(places) == [i \in DOMAIN places |-> PubdataEvents[places[i]]]

\* Slots 1 and 2 are in the tree, 3 and 4 are not.
OldSlots == <<0, Modulus - 1, 0, 0>>

SlotIndex == <<1, 2, 0, 0>>

DiffsTo(new) ==
    LET changed == {s \in DOMAIN OldSlots : OldSlots[s] # new[s]}
    IN  SetToSeq({[slot |-> s, enumeration_index |-> SlotIndex[s], initial_value |-> OldSlots[s],
                   final_value |-> new[s]] : s \in changed})

CodeSubject ==
    \/ \E v \in ProtocolVersionId : subject = <<"version", v>>
    \/ \E code \in Codes : subject = <<"code", code>>
    \/ \E prev \in Word, new \in Word : subject = <<"value", prev, new>>
    \/ \E places \in BoundedSeq(DOMAIN PubdataEvents, MaxEvents), new \in [1..4 -> {0, 1, Modulus - 1}] :
           /\ Len(places) < MaxEvents \/ new[1] = 1
           /\ subject = <<"events", places, new>>
    \/ \E a \in PubdataInputs, b \in PubdataInputs : subject = <<"inputs", a, b>>
    \/ \E wire \in Wires : subject = <<"params", wire>>

FeeSubject ==
    \/ \E input \in FeeInputs, limit \in 0..MaxPrice, max_base_fee \in (0..MaxPrice) \union {PriceLimit} :
           subject = <<"limits", input, limit, max_base_fee>>
    \/ \E a \in FeeInputs, b \in FeeInputs : subject = <<"prices", a, b>>
    \/ \E input \in FeeInputs, left \in 0..2, limit \in 0..MaxPrice, gas \in 0..2, published \in 0..2 :
           subject = <<"refund", input, left, limit, gas, published>>
    \/ \E data \in BoundedSeq(0..(ReasonByte - 1), MaxData) : subject = <<"reason", data>>

ToolSubject ==
    \/ \E payload \in BoundedSeq(FileByte, MaxPayload) : subject = <<"batch file", payload>>
    \/ \E samples \in BoundedSeq(Samples, MaxSamples) : subject = <<"samples", samples>>
    \/ \E this \in Steps, other \in Steps : subject = <<"steps", this, other>>
    \/ \E pointer \in Pointers, memory \in Memories : subject = <<"pointer", pointer, memory>>
    \/ \E txs \in [1..2 -> [legacy : Runs, fast : Runs]], this \in FinishedBatches, other \in FinishedBatches :
           subject = <<"comparison", << <<txs[1]>>, <<txs[2]>>, <<>> >>, this, other>>

-----------------------------------------------------------------------------
NoTree == mini = NewMiniTree(<<>>, 1) /\ leaves = <<>>

NoView ==
    /\ storage = NoKeys /\ shared_view = NewView /\ changes = NoKeys
    /\ answer = [got |-> 0, due |-> 0] /\ view_calls = 0

LibraryInit ==
    /\ DedupInit /\ HostInit
    /\ \/ subject = <<"mini">> /\ MiniInit /\ NoView
       \/ subject = <<"view">> /\ NoTree /\ ViewInit
       \/ /\ subject \in {<<"dedup">>, <<"host">>} \/ NodeSubject \/ CodeSubject \/ FeeSubject \/ ToolSubject
          /\ NoTree /\ NoView

LibraryNext ==
    /\ UNCHANGED subject
    /\ \/ subject[1] = "mini" /\ (PushLeaf \/ TrimStart) /\ UNCHANGED <<dedup_vars, view_vars, host_vars>>
       \/ subject[1] = "dedup" /\ DedupNext /\ UNCHANGED <<mini, leaves, view_vars, host_vars>>
       \/ subject[1] = "view" /\ ViewNext /\ UNCHANGED <<mini, leaves, dedup_vars, host_vars>>
       \/ subject[1] = "host" /\ HostNext /\ UNCHANGED <<mini, leaves, dedup_vars, view_vars>>

LibrarySpec == LibraryInit /\ [][LibraryNext]_library_vars

-----------------------------------------------------------------------------
(***************************************************************************)
(* Properties.                                                              *)
(***************************************************************************)
Subject(name) == subject[1] = name

\* The rows of the tree of all leaves, from the leaves to the root.
Rows ==
    LET row[l \in 0..tree_depth_by_size(mini.size)] ==
            IF l = 0
            THEN [i \in 1..mini.size |-> IF i <= Len(leaves) THEN hash_bytes(leaves[i])
                                         ELSE EmptyTreeHash(DefaultEmptyLeaf, 0)]
            ELSE [i \in 1..(Len(row[l - 1]) \div 2) |-> compress_hashes(row[l - 1][2 * i - 1], row[l - 1][2 * i])]
    IN  row

\* The root is that of all leaves ever pushed, though only the last ones and the cache are
\* kept: trimming, also of the whole tree, and growing after it do not change it
\* (trim_start(), push_hash(), merkle_root()).
TrimmedRootIsComplete ==
    Subject("mini") =>
        /\ mini_length(mini) = Len(leaves)
        /\ merkle_root(mini) = Rows[tree_depth_by_size(mini.size)][1]

\* The path to every leaf that is kept has its siblings in the tree of all leaves, and the
\* two paths of a range of leaves fold to the root, as in the priority queue of L1
\* (merkle_root_and_path_by_absolute_index(), merkle_root_and_paths_for_range()).
FoldRange(range, start, paths) ==
    LET fold[l \in 0..Len(paths.right_path)] ==
            IF l = 0 THEN [hashes |-> range, start |-> start]
            ELSE LET odd == fold[l - 1].start % 2 = 1
                     front == (IF odd THEN <<paths.left_path[l]>> ELSE <<>>) \o fold[l - 1].hashes
                     all == IF Len(front) % 2 = 0 THEN front ELSE Append(front, paths.right_path[l])
                 IN  [hashes |-> [i \in 1..(Len(all) \div 2) |-> compress_hashes(all[2 * i - 1], all[2 * i])],
                      start |-> fold[l - 1].start \div 2]
    IN  fold[Len(paths.right_path)].hashes

PathsLeadToTheRoot ==
    Subject("mini") => \E rows \in {Rows} : \E depth \in {tree_depth_by_size(mini.size)} :
        /\ \A index \in mini.start_index..(Len(leaves) - 1) :
            \E p \in {merkle_root_and_path_by_absolute_index(mini, index)} :
                /\ p.root = rows[depth][1]
                /\ p.path = [l \in 1..depth |-> rows[l - 1][SiblingIndex(index \div 2^(l - 1)) + 1]]
        /\ \A end \in 1..Len(mini.hashes) :
            \E p \in {merkle_root_and_paths_for_range(mini, end)} :
                /\ p.root = rows[depth][1]
                /\ FoldRange(hashes_prefix(mini, end), mini.start_index, p) = <<p.root>>

\* What is kept step by step is what would be computed from everything at once: the trimmed tree,
\* the deduplicated writes and their counters, and the statistics of proved batches
\* (trim_start(), process_storage_logs(), add_sample()).
IncrementalIsExact ==
    /\ TrimmedRootIsComplete
    /\ PathsLeadToTheRoot
    /\ ModifiedIsDifference
    /\ CountersMatchModified
    /\ Subject("samples") => MediansAreExact(subject[2])

\* What the tree and the tools write is read back, and no part or neighbour of it is taken for
\* it: nodes, roots, manifests, keys of the database and their nibbles, and batch files
\* (serialize(), deserialize(), to_db_key(), load_batch()).
EncodingsAreReadBack ==
    /\ Subject("nibbles") => NibblesAreSequences(subject[2], subject[3], subject[4])
    /\ Subject("db key") => KeysAreOrdered(subject[2], subject[3])
    /\ Subject("node") => NodeIsReadBack(subject[2])
    /\ Subject("root") => RootIsReadBack(subject[2])
    /\ Subject("manifest") => ManifestIsReadBack(subject[2])
    /\ Subject("batch file") => BatchIsReadBack(subject[2])

\* Every protocol version that runs has a memory whose regions are disjoint but for the words of
\* the hook, which end the space for transactions, and where both VMs run it they agree on them
\* (vm_latest/constants.rs, FastVmVersion).
VersionsAreLaidOut ==
    Subject("version") =>
        /\ VersionIsServed(subject[2])
        /\ \E subversion \in {MultiVmSubversion(VmVersionOf(subject[2]))} :
               subversion # "error" => LayoutIsRight(subversion)

\* From the pubdata alone the state of a batch can be had again: compressed values and bytecodes
\* decode, hashes are tight, nothing that happened is left out, and the header and the parameters
\* that are accepted fix it (compress_with_best_strategy(), PubdataInput, PubdataParams).
PubdataIsRight ==
    /\ Subject("value") => ValueIsDecoded(subject[2], subject[3])
    /\ Subject("code") => HashIsTight(subject[2]) /\ CompressionDecodes(subject[2])
    /\ Subject("events") => PubdataIsComplete(Events(subject[2]), KnownCodes, DiffsTo(subject[3]), OldSlots,
                                              subject[3], SlotIndex, latest)
    /\ Subject("inputs") => HeaderFixesPubdata(subject[2], subject[3], latest)
    /\ Subject("params") => ParamsAreGated(subject[2])

\* Prices and refunds are within what the user has signed and cover what the operator pays
\* (adjust_pubdata_price_for_tx(), derive_base_fee_and_gas_per_pubdata(), the refund tracer).
FeesAreFair ==
    /\ Subject("limits") => AdjustmentFits(subject[2], subject[3], subject[4])
    /\ Subject("prices") => BaseFeeCovers(subject[2], subject[3])
    /\ Subject("refund") => RefundIsFair(subject[2], subject[3], subject[4], subject[5], subject[6])

\* A revert is parsed as it was encoded, and alike by the guest and by the host, whose words have
\* different widths (VmRevertReason::try_from_bytes()).
ReasonsAreParsedRightly ==
    Subject("reason") =>
        /\ ReasonIsWidthIndependent(subject[2], GuestUsize, HostUsize)
        /\ ReasonIsFaithful(subject[2], GuestUsize)

\* The comparison of the two VMs reports a match just for equal runs and the same first divergence
\* with and without fail_fast, though it looks at summaries of steps and of memory (compare(),
\* ObservedStep, summarize_pointer()).
ComparisonIsSound ==
    /\ Subject("steps") => EqualityIsSound(subject[2], subject[3])
    /\ Subject("pointer") => SummarySeparates(subject[2], MaxCapture, subject[3],
                                              [i \in DOMAIN subject[3] |-> 0], PointerWidth)
    /\ Subject("comparison") =>
          /\ \A fail_fast \in BOOLEAN : MatchIsSound(subject[2], subject[3], subject[4], fail_fast)
          /\ FailFastIsFirst(subject[2], subject[3], subject[4])

-----------------------------------------------------------------------------
(***************************************************************************)
(* The instance that is checked, with inputs at the boundaries of the       *)
(* encodings: keys that differ in one nibble, a key that reads like the     *)
(* bitmap of an internal node, numbers around the lengths of LEB128, prices *)
(* around the limits, data around every offset.                             *)
(***************************************************************************)
CONSTANTS b1, b2, b3        \* batches
CONSTANTS f1, f2, f3        \* folders

MCFill(front, n) == front \o ZeroBytes(n - Len(front))

MCKeys == {MCFill(<<2, 0, 0, 0>>, 32), MCFill(<<18, 52>>, 32), MCFill(<<18, 49>>, 32), MCFill(<<34>>, 32)}

MCHashes32 == {MCFill(<<>>, 32), MCFill(<<255, 128>>, 32)}

MCNumbers == {0, 1, 127, 128, 20000}

MCTags(depth, recovering, custom) ==
    [architecture |-> <<65>>, depth |-> depth, hasher |-> <<66, 67>>, is_recovering |-> recovering,
     custom |-> custom]

MCManifests ==
    {[version_count |-> n, tags |-> t] : n \in {0, 1, 300},
        t \in {NoTags} \union {MCTags(d, r, c) : d \in {7, 256}, r \in BOOLEAN,
                 c \in {[k \in {} |-> <<>>], [k \in {<<97>>, <<105>>} |-> <<0>> \o k]}}}

MCCodes == BoundedSeq({0, 1, 2}, 6)

MCLog(n) ==
    [shard_id |-> 0, is_service |-> TRUE, tx_number_in_block |-> n, sender |-> "contract", key |-> n,
     value |-> <<"value", n>>]

MCEvent(address, topics, value) == [address |-> address, topics |-> topics, value |-> value]

MCPubdataEvents ==
    << MCEvent("L1_MESSENGER", <<"L2ToL1LogSent">>, MCLog(1)),
       MCEvent("contract", <<"L2ToL1LogSent">>, MCLog(2)),
       MCEvent("L1_MESSENGER", <<"L1MessageSent", "contract", "hash">>, <<1, 2>>),
       MCEvent("L1_MESSENGER", <<"L1MessageSent", "contract", "hash">>, <<>>),
       MCEvent("L1_MESSENGER", <<"BytecodeL1PublicationRequested">>, for_bytecode(<<1, 0>>)),
       MCEvent("L1_MESSENGER", <<"L2ToL1LogSent">>, MCLog(3)) >>

MCInput(logs, messages, bytecodes) ==
    [user_logs |-> logs, l2_to_l1_messages |-> messages, published_bytecodes |-> bytecodes,
     state_diffs |-> <<>>]

MCPubdataInputs ==
    {MCInput(logs, messages, bytecodes) :
        logs \in BoundedSeq({MCLog(1), MCLog(2)}, 2),
        messages \in {<<>>, << <<>> >>, << <<1>>, <<2>> >>, << <<2>>, <<1>> >>, << <<2>> >>},
        bytecodes \in {<<>>, << <<1, 0>> >>}}

MCValidators ==
    {ValidatorAddress("zero"), ValidatorAddress("a")}
        \union {CommitmentScheme(L2DACommitmentSchemes[i]) : i \in DOMAIN L2DACommitmentSchemes}

MCWires ==
    {<<"bin", <<v, t>>>> : v \in MCValidators, t \in PubdataTypes}
        \union {<<"json", [pubdata_validator |-> v, l2_da_validator_address |-> a, pubdata_type |-> t]>> :
                    v \in {<<>>} \union {<<v>> : v \in MCValidators}, a \in {<<>>, <<"a">>}, t \in PubdataTypes}

MCFeeInputs ==
    {L1Pegged(l1, l2) : l1 \in {0, 1, 5, 15, 22}, l2 \in {0, 1, 3, PriceLimit - 1}}
        \union {PubdataIndependent(1, l2, p) : l2 \in {0, 1, 3, PriceLimit - 1}, p \in {0, 1, 4, 30, PriceLimit - 1}}

MCFile(b) == <<b, FRI_PROOF_FILE_NAME>>
MCBatchLists == {<<b1, b2>>, <<b3>>}
\* The names of f1 and f2 are no batch's, that of f3 gives b1, as "batch-007" beside "batch-7".
MCFolderNumber == [f \in Folders |-> IF f = f3 THEN b1 ELSE "none"]
MCMovedProofs == {MCFile(f1), MCFile(f2), MCFile(f3)}
MCMoves == {<<b1, MCFile(f1)>>, <<b2, MCFile(f2)>>, <<b1, MCFile(f3)>>}
MCFileLists == {<<MCFile(b1), MCFile(f3), MCFile(b2)>>, <<MCFile(f1), MCFile(f2)>>}

MCSamples == {<<1, 0>>, <<2, 1>>, <<1, 2>>, <<3, 2>>, <<4, 2>>}

MCFrame(pc, gas, heap) == [place |-> "a", program_counter |-> pc, gas |-> gas, heap |-> heap]

MCPointer(raw, offset, length) ==
    [register |-> 1, raw |-> raw, offset |-> offset, length |-> length, memory |-> <<length>>]

MCSteps ==
    [step : {1}, opcode : {"HeapRead"},
     frame : {MCFrame(pc, gas, heap) : pc \in {<<>>, <<1>>, <<2>>}, gas \in {0, 1}, heap \in {1, 2}},
     pointers : {<<>>} \union {<<MCPointer(raw, offset, length)>> :
                                 raw \in {1, 2}, offset \in {0, 1}, length \in {0, 1}}]

MCOther == <<"other">>
MCObserved(pc, gas) == <<"observed", "HeapRead", MCFrame(pc, gas, 1), <<>>>>

MCAttempt(instructions) == [instructions |-> instructions, result |-> "success"]

MCRuns ==
    {[compression_ok |-> TRUE, compressed |-> MCAttempt(i), uncompressed |-> MCAttempt(<<>>)] :
        i \in {<<MCObserved(<<1>>, 0)>>, <<MCObserved(<<>>, 0)>>, <<MCObserved(<<1>>, 0), MCOther>>,
               <<MCOther, MCObserved(<<1>>, 0)>>, <<MCObserved(<<1>>, 1), MCObserved(<<1>>, 0)>>}}
    \union {[compression_ok |-> FALSE, compressed |-> MCAttempt(<<MCOther>>),
             uncompressed |-> [MCAttempt(<<MCObserved(<<1>>, 0)>>) EXCEPT !.result = r]] :
                r \in {"success", "revert"}}

MCFinishedBatches ==
    {[part \in ToSet(BatchParts) |-> IF part \in changed THEN 2 ELSE 1] :
        changed \in {{}, {"events"}, {"pubdata_input", "contracts"}}}

MCPointers == [start : {0, 1, 7}, offset : 0..2, length : 0..6]

MCMemories == {m \in [1..13 -> {0, 1}] : \A i \in 1..13 : i \notin 2..7 => m[i] = 0}
=============================================================================
