----------------------------- MODULE Bytecodes ------------------------------
(***************************************************************************)
(* Bytecodes: their hashes, which hold a marker and a length                *)
(* (basic_types/src/bytecode.rs), and the conversions between words and     *)
(* bytes (multivm/src/utils/bytecode.rs).                                   *)
(*                                                                         *)
(* A bytecode is a sequence of bytes.  SHA-256 is ideal.  Error and Invalid *)
(* are what a function returns instead of a result; a call that panics      *)
(* returns CodePanic.                                                       *)
(***************************************************************************)
EXTENDS Integers, Sequences

CONSTANTS
    CodeByte,           \* values of a byte: 0..255 in the code
    CodeWordLen,        \* bytes of a word: 32 in the code
    ChunkLen,           \* bytes of an instruction: 8 in the code
    LenModulus          \* 2^16: lengths in hashes and dictionary indices are u16

ASSUME BytecodesAssumption ==
    /\ CodeByte \in Nat \ {0}
    /\ CodeWordLen \in Nat \ {0}
    /\ ChunkLen \in 1..CodeWordLen /\ CodeWordLen % ChunkLen = 0
    /\ LenModulus \in Nat \ {0}

CodePanic == <<"panic">>

CodeError == <<"error">>

-----------------------------------------------------------------------------
MAX_BYTECODE_LENGTH_IN_WORDS == LenModulus - 1

MAX_BYTECODE_LENGTH_BYTES == MAX_BYTECODE_LENGTH_IN_WORDS * CodeWordLen

validate_bytecode(code) ==
    /\ Len(code) <= MAX_BYTECODE_LENGTH_BYTES
    /\ Len(code) % CodeWordLen = 0
    /\ (Len(code) \div CodeWordLen) % 2 = 1

\* A hash: the first byte, the length in two bytes, and what is left of the digest.
CodeHash(marker, len, code) == <<"code", marker, len, <<"sha256", code>>>>

for_generic_bytecode(marker, bytecode, bytecode_len_in_bytes) ==
    IF ~validate_bytecode(bytecode) THEN CodePanic
    ELSE CodeHash(marker,
                  (IF marker = "EraVm" THEN bytecode_len_in_bytes \div CodeWordLen
                   ELSE bytecode_len_in_bytes) % LenModulus,
                  bytecode)

for_bytecode(bytecode) == for_generic_bytecode("EraVm", bytecode, Len(bytecode))

for_evm_bytecode(raw_len, bytecode) == for_generic_bytecode("Evm", bytecode, raw_len)

\* BytecodeHash::try_from(): only the marker is looked at.
CodeHashIsValid(hash) == hash[2] \in {"EraVm", "Evm"}

len_in_bytes(hash) == IF hash[2] = "EraVm" THEN hash[3] * CodeWordLen ELSE hash[3]

Zeros(n) == [i \in 1..n |-> 0]

\* To a whole and odd number of words.
pad_evm_bytecode(deployed) ==
    LET words == deployed \o Zeros((CodeWordLen - (Len(deployed) % CodeWordLen)) % CodeWordLen)
    IN  IF (Len(words) \div CodeWordLen) % 2 = 0 THEN words \o Zeros(CodeWordLen) ELSE words

for_raw_evm_bytecode(bytecode) == for_evm_bytecode(Len(bytecode), pad_evm_bytecode(bytecode))

\* What is left behind the length of the hash must be zeros.
trim_padded_evm_bytecode(hash, raw) ==
    LET len == len_in_bytes(hash)
    IN  IF /\ hash[2] = "Evm"
           /\ validate_bytecode(raw)
           /\ len <= Len(raw)
           /\ \A i \in (len + 1)..Len(raw) : raw[i] = 0
        THEN <<"ok", SubSeq(raw, 1, len)>> ELSE CodeError

trim_bytecode(hash, raw) ==
    IF hash[2] = "EraVm" THEN <<"ok", raw>> ELSE trim_padded_evm_bytecode(hash, raw)

\* Of the verifier (airbender_verifier/src/lib.rs): "ok", "error" or "panic".
verify_bytecode_hash(claimed, code) ==
    IF ~CodeHashIsValid(claimed) THEN "error"
    ELSE LET computed == IF claimed[2] = "EraVm" THEN for_bytecode(code)
                         ELSE for_evm_bytecode(len_in_bytes(claimed), code)
         IN  IF computed = CodePanic THEN "panic"
             ELSE IF computed = claimed THEN "ok" ELSE "error"

-----------------------------------------------------------------------------
(***************************************************************************)
(* Words and bytes.                                                         *)
(***************************************************************************)
CodeChunks(bytes, size) ==
    [i \in 1..(Len(bytes) \div size) |-> SubSeq(bytes, (i - 1) * size + 1, i * size)]

\* A word is the sequence of its bytes, most significant first.
bytes_to_be_words(bytes) ==
    IF Len(bytes) % CodeWordLen # 0 THEN CodePanic ELSE CodeChunks(bytes, CodeWordLen)

be_words_to_bytes(words) ==
    [i \in 1..(Len(words) * CodeWordLen) |->
        words[((i - 1) \div CodeWordLen) + 1][((i - 1) % CodeWordLen) + 1]]

-----------------------------------------------------------------------------
(***************************************************************************)
(* What is required of them, for a bytecode.                                *)
(***************************************************************************)
\* A hash is accepted for exactly the bytecode it is the hash of, and a raw EVM bytecode
\* of a length that fits the hash comes back from its padded form.
HashIsTight(code) ==
    /\ validate_bytecode(code) => verify_bytecode_hash(for_bytecode(code), code) = "ok"
    /\ validate_bytecode(pad_evm_bytecode(code))
    /\ Len(code) < LenModulus =>
        /\ verify_bytecode_hash(for_raw_evm_bytecode(code), pad_evm_bytecode(code)) = "ok"
        /\ trim_bytecode(for_raw_evm_bytecode(code), pad_evm_bytecode(code)) = <<"ok", code>>
=============================================================================
