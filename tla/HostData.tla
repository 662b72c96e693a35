------------------------------ MODULE HostData ------------------------------
(***************************************************************************)
(* The data the prover host takes in and gives out beside proofs: the files *)
(* that batches are read from, and the statistics over proved batches.      *)
(***************************************************************************)
EXTENDS Integers, Sequences, SequencesExt, FiniteSetsExt

CONSTANT
    DigitBase           \* digits of a byte of a batch file: 16 in the code

-----------------------------------------------------------------------------
(***************************************************************************)
(* The files batches are read from (crates/cli_utils): the length of the    *)
(* payload in four bytes, the payload, and zeros up to a whole word, as     *)
(* text of two digits a byte.  A character is a digit, Space or X.          *)
(***************************************************************************)
Space == -1
X == -2
FileError == [ok |-> FALSE, bytes |-> <<>>]

FileByte == 0..(DigitBase * DigitBase - 1)

Padded(n) == ((n + 3) \div 4) * 4

LengthBytes(n) == [i \in 1..4 |-> (n \div (DigitBase * DigitBase)^(4 - i)) % (DigitBase * DigitBase)]

LengthOf(bytes) ==
    LET base == DigitBase * DigitBase
    IN  bytes[1] * base^3 + bytes[2] * base^2 + bytes[3] * base + bytes[4]

frame_payload(payload) ==
    LET framed == LengthBytes(Len(payload)) \o payload
    IN  framed \o [i \in 1..(Padded(Len(framed)) - Len(framed)) |-> 0]

to_hex(bytes) ==
    [i \in 1..(2 * Len(bytes)) |->
        IF i % 2 = 1 THEN bytes[(i + 1) \div 2] \div DigitBase ELSE bytes[i \div 2] % DigitBase]

encode_batch(payload) == to_hex(frame_payload(payload))

FileOk(bytes) == [ok |-> TRUE, bytes |-> bytes]

\* Whitespace and one 0x are dropped; the rest must be whole words of digits.
parse_hex_bytes(raw) ==
    LET compact == SelectSeq(raw, LAMBDA ch : ch # Space)
        digits == IF Len(compact) >= 2 /\ compact[1] = 0 /\ compact[2] = X THEN SubSeq(compact, 3, Len(compact)) ELSE compact
    IN  IF digits = <<>> \/ Len(digits) % 8 # 0 \/ \E i \in DOMAIN digits : digits[i] = X THEN FileError
        ELSE FileOk([i \in 1..(Len(digits) \div 2) |-> digits[2 * i - 1] * DigitBase + digits[2 * i]])

\* The payload that is decoded; the decoder must use all of it.
load_batch(raw) ==
    LET parsed == parse_hex_bytes(raw)
        bytes == SubSeq(parsed.bytes, 5, Len(parsed.bytes))
    IN  IF ~parsed.ok \/ Len(parsed.bytes) < 4 THEN FileError
        ELSE IF Len(bytes) < LengthOf(parsed.bytes) THEN FileError
        ELSE FileOk(SubSeq(bytes, 1, LengthOf(parsed.bytes)))

\* What save_batch() writes is read back, with whitespace anywhere and a prefix too, and no
\* part of a file that was cut short is taken for a batch (load_batch(), parse_hex_bytes():
\* "so we catch truncated files early").
BatchIsReadBack(payload) ==
    \E text \in {encode_batch(payload)} :
        /\ load_batch(text) = FileOk(payload)
        /\ load_batch(<<0, X>> \o text) = FileOk(payload)
        /\ \A i \in 1..(Len(text) + 1) : load_batch(InsertAt(text, i, Space)) = FileOk(payload)
        /\ \A cut \in 0..(Len(text) - 1) : load_batch(SubSeq(text, 1, cut)) = FileError

-----------------------------------------------------------------------------
(***************************************************************************)
(* Statistics over proved batches, with exact medians kept in two heaps     *)
(* (host/src/statistics.rs).  A heap is the sorted sequence of what it      *)
(* holds.  A speed is time over cycles, compared as a fraction: its         *)
(* rounding, and the saturation of sums of 128 bits, are left out.          *)
(***************************************************************************)
NewMedianTracker == [lower_half |-> <<>>, upper_half |-> <<>>]

\* a <= b for samples <<time, cycles>> with cycles above zero.
Slower(a, b) == a[1] * b[2] <= b[1] * a[2]

AtMost(a, b) == a <= b

\* A heap gets one more value.
HeapPush(heap, value, Leq(_, _)) ==
    LET before == SelectSeq(heap, LAMBDA x : Leq(x, value))
    IN  before \o <<value>> \o SubSeq(heap, Len(before) + 1, Len(heap))

\* The greatest of the lower half goes up, or the least of the upper half goes down.
Rebalance(t) ==
    IF Len(t.lower_half) > Len(t.upper_half) + 1
    THEN [lower_half |-> Front(t.lower_half), upper_half |-> <<Last(t.lower_half)>> \o t.upper_half]
    ELSE IF Len(t.upper_half) > Len(t.lower_half)
    THEN [lower_half |-> Append(t.lower_half, Head(t.upper_half)), upper_half |-> Tail(t.upper_half)]
    ELSE t

MedianAdd(t, value, Leq(_, _)) ==
    Rebalance(IF t.lower_half # <<>> /\ ~Leq(value, Last(t.lower_half))
              THEN [t EXCEPT !.upper_half = HeapPush(@, value, Leq)]
              ELSE [t EXCEPT !.lower_half = HeapPush(@, value, Leq)])

\* The values whose mean is the median.
median_with(t) ==
    IF t.lower_half = <<>> THEN <<>>
    ELSE IF Len(t.lower_half) # Len(t.upper_half) THEN <<Last(t.lower_half)>>
    ELSE <<Last(t.lower_half), Head(t.upper_half)>>

NewCollector ==
    [sample_count |-> 0, total_time |-> 0, time_range |-> <<>>, time_median |-> NewMedianTracker,
     total_cycles |-> 0, cycles_range |-> <<>>, cycles_median |-> NewMedianTracker,
     speed_sample_count |-> 0, speed_median |-> NewMedianTracker, zero_cycle_samples |-> 0]

\* The least and the greatest so far.
Widen(range, x) == IF range = <<>> THEN <<x, x>> ELSE <<Min({range[1], x}), Max({range[2], x})>>

add_sample(c, time, cycles) ==
    LET counted ==
            [c EXCEPT !.sample_count = @ + 1, !.total_time = @ + time, !.time_range = Widen(@, time),
                      !.time_median = MedianAdd(@, time, AtMost), !.total_cycles = @ + cycles,
                      !.cycles_range = Widen(@, cycles), !.cycles_median = MedianAdd(@, cycles, AtMost)]
    IN  IF cycles = 0 THEN [counted EXCEPT !.zero_cycle_samples = @ + 1]
        ELSE [counted EXCEPT !.speed_sample_count = @ + 1,
                             !.speed_median = MedianAdd(@, <<time, cycles>>, Slower)]

Collected(samples) ==
    LET c[i \in 0..Len(samples)] ==
            IF i = 0 THEN NewCollector ELSE add_sample(c[i - 1], samples[i][1], samples[i][2])
    IN  c[Len(samples)]

\* The middle of a sequence that is sorted at once.
MiddleOf(values) ==
    LET sorted == SortSeq(values, LAMBDA a, b : a < b)
        n == Len(values)
    IN  IF n = 0 THEN <<>> ELSE IF n % 2 = 1 THEN <<sorted[(n + 1) \div 2]>>
        ELSE <<sorted[n \div 2], sorted[n \div 2 + 1]>>

\* x is a middle of the values: as many are not above it as are not below it, give or take.
IsMiddle(x, values, Leq(_, _)) ==
    /\ 2 * Len(SelectSeq(values, LAMBDA y : Leq(y, x))) >= Len(values)
    /\ 2 * Len(SelectSeq(values, LAMBDA y : Leq(x, y))) >= Len(values)

\* Medians and ranges are those of all samples, however they were ordered, and a batch without
\* cycles counts for all but the speed (add_sample(), MedianTracker: "exact medians online").
MediansAreExact(samples) ==
    LET times == [i \in DOMAIN samples |-> samples[i][1]]
        cycles == [i \in DOMAIN samples |-> samples[i][2]]
        timed == SelectSeq(samples, LAMBDA s : s[2] # 0)
    IN  \E c \in {Collected(samples)} :
            /\ median_with(c.time_median) = MiddleOf(times)
            /\ median_with(c.cycles_median) = MiddleOf(cycles)
            /\ (median_with(c.speed_median) = <<>>) = (timed = <<>>)
            /\ Len(median_with(c.speed_median)) = Len(MiddleOf([i \in DOMAIN timed |-> timed[i][1]]))
            /\ \A i \in DOMAIN median_with(c.speed_median) : IsMiddle(median_with(c.speed_median)[i], timed, Slower)
            /\ samples # <<>> => c.time_range = <<Min(ToSet(times)), Max(ToSet(times))>>
            /\ c.speed_sample_count + c.zero_cycle_samples = c.sample_count
=============================================================================
