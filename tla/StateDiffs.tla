----------------------------- MODULE StateDiffs -----------------------------
(***************************************************************************)
(* The pubdata encoding of storage changes: the value compression of       *)
(* types/src/storage/writes/compression.rs and the records, the batch      *)
(* encoding and the header of types/src/storage/writes/mod.rs.  A byte is  *)
(* a digit in base ByteBase (256 in the code) and a word has WordBytes of  *)
(* them (32 in the code); what the encoding does depends on the two only   *)
(* through the number of bytes of a difference.                            *)
(***************************************************************************)
EXTENDS SequenceHelpers, TLC

CONSTANTS
  ByteBase,
  WordBytes,
  MaxInitialWrites,     \* u16::MAX: the count field of the encoding
  MaxCompressedLen,     \* 0x00FF_FFFF: the length field of the header
  MaxEnumIndex          \* u32::MAX: the index field of a repeated write

ASSUME StateDiffsAssumption ==
  /\ ByteBase \in Nat /\ ByteBase > 1
  /\ WordBytes \in Nat /\ WordBytes > 1
  /\ MaxInitialWrites \in Nat /\ MaxCompressedLen \in Nat /\ MaxEnumIndex \in Nat

Modulus == ByteBase ^ WordBytes

\* The values of a storage slot (U256 in the code).
Word == 0 .. Modulus - 1

COMPRESSION_VERSION_NUMBER == 1

BYTES_PER_ENUMERATION_INDEX == 4

BYTES_PER_DERIVED_KEY == 32

\* The result of a conversion that panics.
Panic == <<"panic">>

overflowing_sub(a, b) == (a - b + Modulus) % Modulus

\* Variant: a power of the base is taken to fit one byte less.
ByteLen_Floor(n) == Min({s \in 0 .. WordBytes : n <= ByteBase ^ s})

\* diff.bits().div_ceil(8): the number of bytes that hold n.
ByteLen(n) == Min({s \in 0 .. WordBytes : n < ByteBase ^ s})

\* The `size` low bytes of n, most significant first.
to_be_bytes(n, size) == [i \in 1 .. size |-> (n \div ByteBase ^ (size - i)) % ByteBase]

from_be_bytes(bytes) == FoldOver(LAMBDA acc, d : acc * ByteBase + d, 0, bytes)

metadata_byte(output_size, operation_id) == output_size * 8 + operation_id

\* A pass that applies: its operation id, difference and size.
Pass(op, diff) == [op |-> op, diff |-> diff, size |-> ByteLen(diff)]

CompressionByteAdd(prev, new) == Pass(1, overflowing_sub(new, prev))

CompressionByteSub(prev, new) == Pass(2, overflowing_sub(prev, new))

CompressionByteTransform(new) == Pass(3, new)

\* The passes in the order of the code, without those that return None.
default_passes(prev, new) ==
  SelectSeq(<<CompressionByteAdd(prev, new), CompressionByteSub(prev, new),
              CompressionByteTransform(new)>>,
            LAMBDA p : p.size < WordBytes - 1)

CompressionByteNone(new) == <<0>> \o to_be_bytes(new, WordBytes)

\* min_by_key returns the first of several minima.
compress_with_best_strategy(prev, new) ==
  LET passes == default_passes(prev, new)
      best == CHOOSE i \in DOMAIN passes :
                \A j \in DOMAIN passes :
                  \/ passes[i].size < passes[j].size
                  \/ passes[i].size = passes[j].size /\ i <= j
      p == passes[best]
  IN IF passes = <<>> THEN CompressionByteNone(new)
     ELSE <<metadata_byte(p.size, p.op)>> \o to_be_bytes(p.diff, p.size)

-----------------------------------------------------------------------------
(* A record has a slot (address and key), its leaf index in the tree (0    *)
(* for a slot the tree does not have) and the two values.  Fixed-width     *)
(* fields of records are one item each: the derived key of a slot, a leaf  *)
(* index, a count.                                                         *)

is_write_initial(diff) == diff.enumeration_index = 0

\* StateDiffRecord::compress, which panics on an index above MaxEnumIndex.
compress(diff) ==
  (IF is_write_initial(diff) THEN <<[derived_key |-> diff.slot]>>
   ELSE <<[index |-> diff.enumeration_index]>>)
  \o compress_with_best_strategy(diff.initial_value, diff.final_value)

\* The number of bytes of an encoded record.
CompressedRecordLen(diff) ==
  (IF is_write_initial(diff) THEN BYTES_PER_DERIVED_KEY ELSE BYTES_PER_ENUMERATION_INDEX)
  + Len(compress_with_best_strategy(diff.initial_value, diff.final_value))

\* Version, compressed length (3 bytes), bytes per index.
prepend_header(len, compressed) ==
  IF len > MaxCompressedLen THEN Panic
  ELSE <<COMPRESSION_VERSION_NUMBER, len, BYTES_PER_ENUMERATION_INDEX>> \o compressed

\* Diffs are sorted by (address, key).
compress_state_diffs(diffs) ==
  LET sorted == SortSeq(diffs, LAMBDA a, b : a.slot < b.slot)
      initial_writes == SelectSeq(sorted, is_write_initial)
      repeated_writes == SelectSeq(sorted, LAMBDA d : ~is_write_initial(d))
      writes == initial_writes \o repeated_writes
      len == 2 + FoldOver(LAMBDA n, d : n + CompressedRecordLen(d), 0, writes)
  IN IF Len(initial_writes) > MaxInitialWrites 
        \/ \E i \in DOMAIN writes : writes[i].enumeration_index > MaxEnumIndex
     THEN Panic
     ELSE prepend_header(len, <<Len(initial_writes)>> \o Joined([i \in DOMAIN writes |-> compress(writes[i])]))

-----------------------------------------------------------------------------
(* What a reader of the pubdata does with it.                              *)

\* Splits one compressed value off `bytes`: the new value and the rest.
Decompress(prev, bytes) ==
  LET meta == Head(bytes)
      size == IF meta = 0 THEN WordBytes ELSE meta \div 8
      diff == from_be_bytes(SubSeq(bytes, 2, 1 + size))
      new == CASE meta % 8 = 1 -> (prev + diff) % Modulus
               [] meta % 8 = 2 -> overflowing_sub(prev, diff)
               [] OTHER -> diff
  IN [value |-> new, rest |-> SubSeq(bytes, size + 2, Len(bytes))]

\* The new values of the slots of an encoding, for a reader who knows the old
\* values and the leaf indices of the slots (old and index are functions).
DecodeDiffs(encoded, old, index) ==
  LET body == SubSeq(encoded, 5, Len(encoded))
      SlotOf(item, initial) ==
        IF initial THEN item.derived_key
        ELSE CHOOSE s \in DOMAIN index : index[s] = item.index
      Step(st, i) ==
        IF st.rest = <<>> THEN st
        ELSE LET slot == SlotOf(Head(st.rest), i <= encoded[4])
                 d == Decompress(old[slot], Tail(st.rest))
             IN [rest |-> d.rest, new |-> [st.new EXCEPT ![slot] = d.value]]
  IN FoldOver(Step, [rest |-> body, new |-> old], [i \in DOMAIN body |-> i]).new

\* Whatever strategy is best, a reader who knows the old value gets the new one, needs no
\* more bytes than the metadata says, and never reads more than the plain value would take
\* (compress_with_best_strategy(), which mixes differences that wrap and plain values).
ValueIsDecoded(prev, new) ==
  \E bytes \in {compress_with_best_strategy(prev, new)} :
    /\ \A rest \in {<<>>, <<1, 0>>} : Decompress(prev, bytes \o rest) = [value |-> new, rest |-> rest]
    /\ Len(bytes) <= WordBytes + 1
=============================================================================
