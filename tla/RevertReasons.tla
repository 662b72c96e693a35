---------------------------- MODULE RevertReasons ----------------------------
(***************************************************************************)
(* What the data of a revert is taken for (vm_interface/src/types/errors): *)
(* the reason a contract gave, and the halt or revert that the bootloader  *)
(* meant by its error code.                                                *)
(*                                                                         *)
(* Bytes are the numbers below ReasonByte, a word has ReasonWord of them   *)
(* and a selector ReasonSelector (256, 32 and 4 in the code).  usize_max   *)
(* is the largest usize: the proving guest and the host differ in it.      *)
(* Parsed results are tagged tuples.                                       *)
(***************************************************************************)
EXTENDS Integers, Sequences

CONSTANTS ReasonByte, ReasonWord, ReasonSelector

ASSUME ReasonAssumption ==
    /\ ReasonByte \in Nat \ {0, 1} /\ ReasonWord \in Nat \ {0} /\ ReasonSelector \in Nat \ {0}

\* Error(string)
GENERAL_ERROR_SELECTOR == [i \in 1..ReasonSelector |-> ReasonByte - 1]

BigEndian[word \in Seq(0..(ReasonByte - 1))] ==
    IF word = <<>> THEN 0 ELSE (BigEndian[SubSeq(word, 1, Len(word) - 1)] * ReasonByte) + word[Len(word)]

NoUsize == -1

\* The word is cut to the width of usize.
word_to_usize_Cut(word, usize_max) == BigEndian[word] % (usize_max + 1)

word_to_usize(word, usize_max) ==
    IF BigEndian[word] > usize_max THEN NoUsize ELSE BigEndian[word]

From(bytes, first) == SubSeq(bytes, first + 1, Len(bytes))
UpTo(bytes, n) == SubSeq(bytes, 1, IF n <= Len(bytes) THEN n ELSE Len(bytes))

\* checked_add(32): the end of the string, or none.
StringEnd(length, usize_max) ==
    IF length = NoUsize \/ length + ReasonWord > usize_max THEN NoUsize ELSE length + ReasonWord

ParsingError == <<"error">>

\* The data from the offset on: a length, and a string.
parse_string(data, raw, usize_max) ==
    IF Len(data) < ReasonWord THEN ParsingError
    ELSE LET end == StringEnd(word_to_usize(UpTo(data, ReasonWord), usize_max), usize_max)
         IN  IF end = NoUsize \/ end > Len(data) THEN ParsingError
             ELSE <<"General", SubSeq(data, ReasonWord + 1, end), raw>>

parse_general_error(raw, usize_max) ==
    LET bytes == From(raw, ReasonSelector)
    IN  IF Len(bytes) < ReasonWord THEN ParsingError
        ELSE LET offset == word_to_usize(UpTo(bytes, ReasonWord), usize_max)
             IN  IF offset = NoUsize \/ offset > Len(bytes) \/ offset < ReasonWord THEN ParsingError
                 ELSE parse_string(From(bytes, offset), raw, usize_max)

try_from_bytes(bytes, usize_max) ==
    CASE bytes = <<>> -> <<"Unknown", <<>>, <<>>>>
      [] Len(bytes) \in 1..(ReasonSelector - 1) -> ParsingError
      [] Len(bytes) >= ReasonSelector ->
            IF UpTo(bytes, ReasonSelector) = GENERAL_ERROR_SELECTOR THEN parse_general_error(bytes, usize_max)
            ELSE <<"Unknown", UpTo(bytes, ReasonSelector), bytes>>

\* From<&[u8]>: what cannot be parsed is unknown, and loses its selector from the data.
VmRevertReason(bytes, usize_max) ==
    LET parsed == try_from_bytes(bytes, usize_max)
    IN  IF parsed # ParsingError THEN parsed
        ELSE <<"Unknown", UpTo(bytes, ReasonSelector), From(bytes, ReasonSelector)>>

encoded_data(reason) == reason[3]

-----------------------------------------------------------------------------
(***************************************************************************)
(* Error codes of the bootloader, in the order of their numbers.           *)
(***************************************************************************)
BootloaderErrorCodes ==
    <<"EthCall", "AccountTxValidationFailed", "FailedToChargeFee", "FromIsNotAnAccount",
      "FailedToCheckAccount", "UnacceptableGasPrice", "FailedToSetPrevBlockHash", "PayForTxFailed",
      "PrePaymasterPreparationFailed", "PaymasterValidationFailed", "FailedToSendFeesToTheOperator",
      "UnacceptablePubdataPrice", "TxValidationError", "MaxPriorityFeeGreaterThanMaxFee",
      "BaseFeeGreaterThanMaxFeePerGas", "PaymasterReturnedInvalidContext", "PaymasterContextIsTooLong",
      "AssertionError", "FailedToMarkFactoryDeps", "TxValidationOutOfGas", "NotEnoughGasProvided",
      "AccountReturnedInvalidMagic", "PaymasterReturnedInvalidMagic", "MintEtherFailed",
      "FailedToAppendTransactionToL2Block", "FailedToSetL2Block", "FailedToPublishTimestampDataToL1",
      "L1MessengerPublishingFailed", "L1MessengerLogSendingFailed", "FailedToCallSystemContext">>

BootloaderErrorCode(code) ==
    IF code < Len(BootloaderErrorCodes) THEN BootloaderErrorCodes[code + 1] ELSE "Unknown"

ValidationErrors ==
    {"AccountTxValidationFailed", "FailedToCheckAccount", "TxValidationError", "TxValidationOutOfGas",
     "AccountReturnedInvalidMagic", "PaymasterReturnedInvalidMagic"}

\* The variant of Halt of an error code.
HaltOf(error) ==
    CASE error \in ValidationErrors -> "ValidationFailed"
      [] error \in {"PaymasterValidationFailed", "PaymasterReturnedInvalidContext", "PaymasterContextIsTooLong"} ->
            "PaymasterValidationFailed"
      [] error = "FailedToMarkFactoryDeps" -> "FailedToMarkFactoryDependencies"
      [] error \in {"FailedToChargeFee", "FromIsNotAnAccount", "PrePaymasterPreparationFailed", "PayForTxFailed",
                    "NotEnoughGasProvided", "FailedToAppendTransactionToL2Block", "FailedToSetL2Block"} -> error
      [] OTHER -> "UnexpectedVMBehavior"

\* TxRevertReason::parse_error(), which panics for one code.
parse_error(bytes) ==
    IF bytes = <<>> THEN <<"Halt", "UnexpectedVMBehavior">>
    ELSE LET error == BootloaderErrorCode(bytes[1])
         IN  CASE error = "EthCall" -> <<"TxReverted">>
               [] error = "FailedToSetPrevBlockHash" -> <<"panic">>
               [] OTHER -> <<"Halt", HaltOf(error)>>

-----------------------------------------------------------------------------
(***************************************************************************)
(* Properties.                                                             *)
(***************************************************************************)
\* "a word the 64-bit sequencer accepts ... would otherwise abort the guest" (vm_revert_reason.rs):
\* the guest and the host take every data for the same reason, whatever offsets and lengths it has.
ReasonIsWidthIndependent(bytes, guest, host) ==
    VmRevertReason(bytes, guest) = VmRevertReason(bytes, host)

\* The reference decoding: the data holds a string if some offset and length within it say so.
HoldsString(bytes, msg) ==
    \E body \in {From(bytes, ReasonSelector)} :
    \E offset \in ReasonWord..Len(body) :
        /\ UpTo(bytes, ReasonSelector) = GENERAL_ERROR_SELECTOR
        /\ BigEndian[UpTo(body, ReasonWord)] = offset
        /\ Len(body) >= offset + ReasonWord + Len(msg)
        /\ BigEndian[SubSeq(body, offset + 1, offset + ReasonWord)] = Len(msg)
        /\ SubSeq(body, offset + ReasonWord + 1, offset + ReasonWord + Len(msg)) = msg

\* A reason with a message is parsed exactly from the data that encodes this message, and it keeps
\* the whole data; data of another kind is kept whole or without its selector.
ReasonIsFaithful(bytes, usize_max) ==
    \E reason \in {VmRevertReason(bytes, usize_max)} :
        /\ reason[1] = "General" => HoldsString(bytes, reason[2]) /\ encoded_data(reason) = bytes
        /\ reason[1] = "Unknown" =>
               /\ encoded_data(reason) \in {bytes, From(bytes, ReasonSelector)}
               /\ reason[2] = UpTo(bytes, ReasonSelector)
               /\ \A i \in 0..Len(bytes) : \A j \in i..Len(bytes) : ~ HoldsString(bytes, SubSeq(bytes, i + 1, j))
=============================================================================
