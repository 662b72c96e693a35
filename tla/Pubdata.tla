------------------------------- MODULE Pubdata ------------------------------
(***************************************************************************)
(* The data a batch publishes: what is collected from the events            *)
(* (multivm/src/utils/events.rs, VmEvent), the builders that make the input *)
(* of the L1 messenger and the pubdata for the settlement layer             *)
(* (multivm/src/pubdata_builders) and the parameters that choose a builder  *)
(* (basic_types/src/commitment.rs).                                         *)
(*                                                                         *)
(* Bytes are fields, as in BatchCommitment.  An event has its address, its  *)
(* topics and its decoded value; values that do not decode panic, and the   *)
(* messenger is a system contract whose values do.                          *)
(***************************************************************************)
EXTENDS BatchCommitment, Bytecodes, SequencesExt, FiniteSets

-----------------------------------------------------------------------------
(***************************************************************************)
(* basic_types/src/commitment.rs: what a chain publishes, and how.          *)
(***************************************************************************)
L2DACommitmentSchemes ==
    <<"None", "EmptyNoDA", "PubdataKeccak256", "BlobsAndPubdataKeccak256", "BlobsZksyncOS">>

\* TryFrom<u8> does not know the last one.
scheme_try_from(value) ==
    IF value \in 0..3 THEN <<"ok", L2DACommitmentSchemes[value + 1]>> ELSE CodeError

\* Nor does FromStr.
scheme_from_str(s) ==
    IF s \in {L2DACommitmentSchemes[i] : i \in 1..4} THEN <<"ok", s>> ELSE CodeError

PubdataTypes == {"Rollup", "NoDA", "Avail", "Celestia", "Eigen", "ObjectStore"}

\* L2PubdataValidator: an address or a scheme.
ValidatorAddress(a) == <<"Address", a>>

CommitmentScheme(s) == <<"CommitmentScheme", s>>

\* An Option is a sequence of at most one.
l2_da_validator(v) == IF v[1] = "Address" THEN <<v[2]>> ELSE <<>>

l2_da_commitment_scheme(v) == IF v[1] = "Address" THEN <<>> ELSE <<v[2]>>

\* TryFrom<(Option<Address>, Option<L2DACommitmentScheme>)>: exactly one is there.
validator_try_from(address, scheme) ==
    IF Len(address) = Len(scheme) THEN CodeError
    ELSE <<"ok", IF address = <<>> THEN CommitmentScheme(scheme[1]) ELSE ValidatorAddress(address[1])>>

\* PubdataParams::new().
PubdataParams(validator, pubdata_type) ==
    IF validator \in {CommitmentScheme("None"), CommitmentScheme("BlobsZksyncOS")} THEN CodeError
    ELSE <<"ok", [pubdata_validator |-> validator, pubdata_type |-> pubdata_type]>>

genesis_params ==
    [pubdata_validator |-> CommitmentScheme("BlobsAndPubdataKeccak256"), pubdata_type |-> "Rollup"]

pre_gateway_params == [pubdata_validator |-> ValidatorAddress("zero"), pubdata_type |-> "Rollup"]

\* The derived Serialize: two fields; JSON has names, bincode has positions.
serialize_params(params, human_readable) ==
    IF human_readable
    THEN <<"json", [pubdata_validator |-> <<params.pubdata_validator>>, l2_da_validator_address |-> <<>>,
                    pubdata_type |-> params.pubdata_type]>>
    ELSE <<"bin", <<params.pubdata_validator, params.pubdata_type>>>>

\* The derived Deserialize of the fields takes any tag.
deserialize_params(wire) ==
    IF wire[1] = "bin" THEN PubdataParams(wire[2][1], wire[2][2])
    ELSE LET r == wire[2]
         IN  IF r.pubdata_validator # <<>> THEN PubdataParams(r.pubdata_validator[1], r.pubdata_type)
             ELSE IF r.l2_da_validator_address # <<>>
             THEN PubdataParams(ValidatorAddress(r.l2_da_validator_address[1]), r.pubdata_type)
             ELSE CodeError

-----------------------------------------------------------------------------
(***************************************************************************)
(* Events.                                                                  *)
(***************************************************************************)
FromMessenger(event, signature) ==
    event.address = "L1_MESSENGER" /\ event.topics # <<>> /\ event.topics[1] = signature

extract_l2tol1logs_from_l1_messenger(events) ==
    LET own == SelectSeq(events, LAMBDA e : FromMessenger(e, "L2ToL1LogSent"))
    IN  [i \in DOMAIN own |-> own[i].value]

extract_bytecode_publication_requests_from_l1_messenger(events) ==
    LET own == SelectSeq(events, LAMBDA e : FromMessenger(e, "BytecodeL1PublicationRequested"))
    IN  [i \in DOMAIN own |-> own[i].value]

\* The sender and the hash of a message are topics.
extract_long_l2_to_l1_messages(events) ==
    LET own == SelectSeq(events, LAMBDA e : Len(e.topics) = 3 /\ FromMessenger(e, "L1MessageSent"))
    IN  [i \in DOMAIN own |-> own[i].value]

\* build_pubdata_input() of the pubdata tracer, after collecting all events of the batch.
\* A requested bytecode that the VM does not know panics.
build_pubdata_input(events, known_bytecodes, state_diffs) ==
    LET requests == extract_bytecode_publication_requests_from_l1_messenger(events)
    IN  IF \E i \in DOMAIN requests : requests[i] \notin DOMAIN known_bytecodes THEN CodePanic
        ELSE <<"ok", [user_logs |-> extract_l2tol1logs_from_l1_messenger(events),
                      l2_to_l1_messages |-> extract_long_l2_to_l1_messages(events),
                      published_bytecodes |->
                          [i \in DOMAIN requests |-> be_words_to_bytes(known_bytecodes[requests[i]])],
                      state_diffs |-> state_diffs]>>

-----------------------------------------------------------------------------
(***************************************************************************)
(* pubdata_builders/utils.rs.                                               *)
(***************************************************************************)
\* Every link hashes the last link and the hash of an item.
Chained(hashes) ==
    LET link[i \in 0..Len(hashes)] ==
            IF i = 0 THEN ZeroHash ELSE keccak256(Hashes(<<link[i - 1], hashes[i]>>))
    IN  link[Len(hashes)]

build_chained_log_hash(logs) ==
    Chained([i \in DOMAIN logs |-> keccak256(SerializeLog(logs[i]))])

build_logs_root(logs, tree_size) ==
    merkle_root(NewMiniTree([i \in DOMAIN logs |-> SerializeLog(logs[i])], tree_size))

build_chained_message_hash(messages) ==
    Chained([i \in DOMAIN messages |-> keccak256(messages[i])])

build_chained_bytecode_hash(bytecodes) ==
    Chained([i \in DOMAIN bytecodes |-> for_bytecode(bytecodes[i])])

encode_user_logs(logs) == Counted(logs, SerializeLog)

extend_from_pubdata_input(input) ==
    LET compressed == compress_state_diffs(input.state_diffs)
    IN  encode_user_logs(input.user_logs) \o Counted(input.l2_to_l1_messages, Prefixed)
        \o Counted(input.published_bytecodes, Prefixed) \o << <<Len(compressed), <<"diffs", compressed>>>> >>

-----------------------------------------------------------------------------
(***************************************************************************)
(* The builders.  An operator input is the header of hashes and the bytes   *)
(* behind it; before the gateway there is no header.                        *)
(***************************************************************************)
validatePubdata(input, version, pubdata) ==
    [header |-> <<build_chained_log_hash(input.user_logs),
                  build_logs_root(input.user_logs, l2_to_l1_logs_tree_size(version)),
                  build_chained_message_hash(input.l2_to_l1_messages),
                  build_chained_bytecode_hash(input.published_bytecodes)>>,
     pubdata |-> pubdata]

FullOperatorInput(input, version) ==
    LET pubdata == extend_from_pubdata_input(input) \o Counted(input.state_diffs, SerializeDiff)
    IN  IF is_pre_gateway(version) THEN [header |-> <<>>, pubdata |-> pubdata]
        ELSE validatePubdata(input, version, pubdata)

FullSettlementPubdata(input) == extend_from_pubdata_input(input)

\* The caller is past the gateway: the code asserts it.
HashedOperatorInput(input, version) == validatePubdata(input, version, encode_user_logs(input.user_logs))

HashedSettlementPubdata(input) ==
    << <<32, keccak256(serialize_commitments(input.state_diffs, SerializeDiff))>> >>

pubdata_params_to_builder(pubdata_type, version) ==
    IF is_pre_gateway(version) THEN "Full"
    ELSE IF pubdata_type = "NoDA" THEN "Hashed" ELSE "Full"

l1_messenger_operator_input(builder, input, version) ==
    IF builder = "Full" THEN FullOperatorInput(input, version) ELSE HashedOperatorInput(input, version)

settlement_layer_pubdata(builder, input) ==
    IF builder = "Full" THEN FullSettlementPubdata(input) ELSE HashedSettlementPubdata(input)

-----------------------------------------------------------------------------
(***************************************************************************)
(* What is required of them.                                                *)
(***************************************************************************)
\* A reader of the pubdata: n items are taken off `fields` one after the other, each with
\* Take, which returns the item and the rest.
TakeItems(fields, Take(_)) ==
    LET n == fields[1][2][2]
        step[i \in 0..n] ==
            IF i = 0 THEN [items |-> <<>>, rest |-> Tail(fields)]
            ELSE LET item == Take(step[i - 1].rest)
                 IN  [items |-> Append(step[i - 1].items, item[1]), rest |-> item[2]]
    IN  step[n]

TakeLog(fields) == <<from_slice(SubSeq(fields, 1, 6)), SubSeq(fields, 7, Len(fields))>>

TakeBytes(fields) == <<fields[2][2][2], SubSeq(fields, 3, Len(fields))>>

ReadPubdata(fields) ==
    LET logs == TakeItems(fields, TakeLog)
        messages == TakeItems(logs.rest, TakeBytes)
        bytecodes == TakeItems(messages.rest, TakeBytes)
    IN  [user_logs |-> logs.items, l2_to_l1_messages |-> messages.items,
         published_bytecodes |-> bytecodes.items, diffs |-> bytecodes.rest[1][2][2]]

\* The messages the events of a batch ask for, in their order, and nothing of another contract.
Asked(events, signature) ==
    LET own == {i \in DOMAIN events : events[i].address = "L1_MESSENGER" /\ events[i].topics[1] = signature}
    IN  [i \in 1..Cardinality(own) |->
            events[CHOOSE k \in own : Cardinality({j \in own : j <= k}) = i].value]

\* Whoever knows the storage before a batch reads from its pubdata every log, message and
\* bytecode that its events ask for and the storage after it; it is the pubdata the
\* commitment is made from (construct_pubdata(), the logs root and the hash of the state
\* diffs), byte for byte (extend_from_pubdata_input(), events.rs).
PubdataIsComplete(events, known, diffs, old, new, index, version) ==
    LET input == build_pubdata_input(events, known, diffs)[2]
        pubdata == settlement_layer_pubdata(pubdata_params_to_builder("Rollup", version), input)
        got == ReadPubdata(pubdata)
    IN  /\ got.user_logs = Asked(events, "L2ToL1LogSent")
        /\ got.l2_to_l1_messages = Asked(events, "L1MessageSent")
        /\ [i \in DOMAIN got.published_bytecodes |-> for_bytecode(got.published_bytecodes[i])]
                = Asked(events, "BytecodeL1PublicationRequested")
        /\ DecodeDiffs(got.diffs, old, index) = new
        /\ pubdata = construct_pubdata(input.user_logs, input.l2_to_l1_messages, input.published_bytecodes,
                                       compress_state_diffs(diffs))
        /\ ~is_pre_gateway(version) =>
            LET header == l1_messenger_operator_input(pubdata_params_to_builder("NoDA", version), input, version).header
            IN  header[2] = LogsRoot(input.user_logs, version)

\* The hashes the messenger is given fix what is published: two inputs with the same header
\* have the same logs, messages and bytecodes (build_chained_*_hash()).
HeaderFixesPubdata(a, b, version) ==
    FullOperatorInput(a, version).header = FullOperatorInput(b, version).header =>
        /\ a.user_logs = b.user_logs
        /\ a.l2_to_l1_messages = b.l2_to_l1_messages
        /\ a.published_bytecodes = b.published_bytecodes

\* Whatever is on the wire, in either format and from an older sender too, parameters that
\* are accepted name a validator of this kind of chain, survive a round trip in both
\* formats, and split into the two optional fields a database has; the two built-in ones
\* are accepted as well (Deserialize for PubdataParams, PubdataParams::new()).
ParamsAreGated(wire) ==
    LET params == deserialize_params(wire)
    IN  params # CodeError =>
        \A p \in {params[2], genesis_params, pre_gateway_params} :
            LET v == p.pubdata_validator
            IN  /\ v[1] = "Address" \/ v[2] \in {"EmptyNoDA", "PubdataKeccak256", "BlobsAndPubdataKeccak256"}
                /\ \A human_readable \in BOOLEAN :
                        deserialize_params(serialize_params(p, human_readable)) = <<"ok", p>>
                /\ validator_try_from(l2_da_validator(v), l2_da_commitment_scheme(v)) = <<"ok", v>>
                /\ v[1] # "Address" =>
                    /\ scheme_from_str(v[2]) = <<"ok", v[2]>>
                    /\ \E tag \in 1..255 : scheme_try_from(tag) = <<"ok", v[2]>>
-----------------------------------------------------------------------------
(***************************************************************************)
(* multivm/src/utils/bytecode.rs: the compressed form in which a            *)
(* transaction publishes a bytecode: a dictionary of its instructions,      *)
(* sorted by frequency, and the index of every instruction.                 *)
(***************************************************************************)
Occurrences(chunks, c) == {i \in DOMAIN chunks : chunks[i] = c}

FirstOf(S) == CHOOSE i \in S : \A j \in S : i <= j

\* Fewer occurrences, then an earlier first one.
Rarer(chunks, a, b) ==
    LET na == Cardinality(Occurrences(chunks, a))
        nb == Cardinality(Occurrences(chunks, b))
    IN  \/ na < nb
        \/ na = nb /\ FirstOf(Occurrences(chunks, a)) < FirstOf(Occurrences(chunks, b))

IndexOf(dictionary, chunk) == (CHOOSE i \in DOMAIN dictionary : dictionary[i] = chunk) - 1

\* The most frequent chunk has index 0.
DictionaryOf(chunks) ==
    SortSeq(SetToSeq(ToSet(chunks)), LAMBDA a, b : Rarer(chunks, b, a))

\* The size of the dictionary, the dictionary, and the index of every chunk.
compress_to_bytes(code) ==
    LET chunks == CodeChunks(code, ChunkLen)
        dictionary == DictionaryOf(chunks)
    IN  IF ~validate_bytecode(code) \/ Len(dictionary) > LenModulus - 1 THEN CodeError
        ELSE <<"ok", [size |-> Len(dictionary), dictionary |-> dictionary,
                      encoded |-> [i \in DOMAIN chunks |-> IndexOf(dictionary, chunks[i])]]>>

\* What the bootloader does with it.
DecompressCode(compressed) ==
    FlattenSeq([i \in DOMAIN compressed.encoded |->
                    compressed.dictionary[compressed.encoded[i] + 1]])

\* The compressed form, with its dictionary sorted by frequency, decodes to the bytecode.
CompressionDecodes(code) ==
    LET compressed == compress_to_bytes(code)
    IN  compressed # CodeError => DecompressCode(compressed[2]) = code

=============================================================================
