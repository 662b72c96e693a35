---------------------------- MODULE VmComparison ----------------------------
(***************************************************************************)
(* The tool that runs both VMs over a batch and reports where they diverge  *)
(* (crates/vm_compare).  What the VMs do is given: for every transaction    *)
(* the instructions of each attempt and its result, and the finished batch. *)
(* An instruction is a step that is observed, with the machine after it, or *)
(* <<"other">>.  Addresses, bounds and flags of a frame are one `place`.    *)
(***************************************************************************)
EXTENDS Integers, Sequences, SequencesExt

-----------------------------------------------------------------------------
(***************************************************************************)
(* The memory a pointer leads to: its first and last bytes.                 *)
(***************************************************************************)
Unreadable(total_length) == [readable |-> FALSE, total_length |-> total_length, head |-> <<>>, tail |-> <<>>]

ReadBytes(memory, start, len) == [i \in 1..len |-> memory[start + i]]

TheLesser(a, b) == IF a <= b THEN a ELSE b

\* Machine words are below `width`; nothing is read twice.
summarize_pointer(pointer, max_capture, memory, width) ==
    LET total == pointer.length - pointer.offset
        start == pointer.start + pointer.offset
        head_len == TheLesser(total, max_capture)
        tail_len == TheLesser(max_capture, total - head_len)
    IN  IF total < 0 THEN Unreadable(0)
        ELSE IF start >= width THEN Unreadable(total)
        ELSE [readable |-> TRUE, total_length |-> total,
              head |-> ReadBytes(memory, start, head_len),
              tail |-> ReadBytes(memory, start + total - tail_len, tail_len)]

-----------------------------------------------------------------------------
(***************************************************************************)
(* Equality of observed steps.                                              *)
(***************************************************************************)

\* A panicking frame has no counter in the fast VM and a stale one in the other.
program_counters_match(this, other) ==
    \/ this.program_counter = other.program_counter
    \/ /\ (this.program_counter = <<>>) # (other.program_counter = <<>>)
       /\ this.gas = 0 /\ other.gas = 0

\* Heaps are numbered differently by the two VMs.
FramesEqual(this, other) ==
    /\ this.place = other.place /\ this.gas = other.gas
    /\ program_counters_match(this, other)

\* An empty pointer of a panicking frame may be kept or cleared.
pointer_snapshots_match(this, other, this_frame, other_frame) ==
    \/ this = other
    \/ /\ this.register = other.register /\ this.memory = other.memory
       /\ this.offset = 0 /\ other.offset = 0 /\ this.length = 0 /\ other.length = 0
       /\ this_frame.gas = 0 /\ other_frame.gas = 0

pointers_match(this, other) ==
    /\ Len(this.pointers) = Len(other.pointers)
    /\ \A i \in DOMAIN this.pointers :
          pointer_snapshots_match(this.pointers[i], other.pointers[i], this.frame, other.frame)

StepsEqual(this, other) ==
    /\ this.step = other.step /\ this.opcode = other.opcode
    /\ FramesEqual(this.frame, other.frame)
    /\ pointers_match(this, other)

-----------------------------------------------------------------------------
(***************************************************************************)
(* The trace of a transaction, recorded afresh for each attempt.            *)
(***************************************************************************)
IsObserved(instruction) == instruction # <<"other">>

after_instruction(trace, instruction) ==
    [trace EXCEPT !.total_steps = @ + 1,
                  !.observations =
                      IF IsObserved(instruction)
                      THEN Append(@, [step |-> trace.total_steps + 1, opcode |-> instruction[2],
                                      frame |-> instruction[3], pointers |-> instruction[4]])
                      ELSE @]

Traced(attempt) ==
    LET trace[i \in 0..Len(attempt.instructions)] ==
            IF i = 0 THEN [total_steps |-> 0, observations |-> <<>>, execution_result |-> attempt.result]
            ELSE after_instruction(trace[i - 1], attempt.instructions[i])
    IN  trace[Len(attempt.instructions)]

\* A transaction is run without compression after an attempt with it was rolled back.
execute_tx(run) ==
    IF run.compression_ok THEN [used_compression |-> TRUE, trace |-> Traced(run.compressed)]
    ELSE [used_compression |-> FALSE, trace |-> Traced(run.uncompressed)]

-----------------------------------------------------------------------------
(***************************************************************************)
(* The comparison.  `state.returned` is set by an early return.             *)
(***************************************************************************)
\* A divergence is noted if there is one, and the comparison left if it stops at the first.
Note(state, diverges, where, reason, fail_fast) ==
    IF state.returned \/ ~diverges THEN state
    ELSE [state EXCEPT !.divergences = Append(@, <<where, reason>>), !.returned = fail_fast]

HasStepMismatch(legacy, fast) ==
    \E i \in 1..TheLesser(Len(legacy.observations), Len(fast.observations)) :
        ~StepsEqual(legacy.observations[i], fast.observations[i])

NoteTrace(state, legacy, fast, where, fail_fast) ==
    LET result == Note(state, legacy.execution_result # fast.execution_result, where, "result", fail_fast)
        steps == Note(result, legacy.total_steps # fast.total_steps, where, "steps", fail_fast)
        mismatch == Note(steps, HasStepMismatch(legacy, fast), where, "observation", fail_fast)
    IN  Note(mismatch, Len(legacy.observations) # Len(fast.observations), where, "count", fail_fast)

CompareTx_Late(state, legacy, fast, where, fail_fast) ==
    LET compression == Note(state, legacy.used_compression # fast.used_compression, where, "compression", fail_fast)
        traced == NoteTrace(compression, legacy.trace, fast.trace, where, fail_fast)
    IN  [traced EXCEPT !.compared_transactions = @ + 1]

CompareTx(state, legacy, fast, where, fail_fast) ==
    IF state.returned THEN state
    ELSE LET counted == [state EXCEPT !.compared_transactions = @ + 1]
             compression == Note(counted, legacy.used_compression # fast.used_compression, where,
                                 "compression", fail_fast)
         IN  NoteTrace(compression, legacy.trace, fast.trace, where, fail_fast)

\* Blocks of transactions, each a pair of runs; the last block starts no transaction.
TransactionsOf(blocks) == FlattenSeq([i \in 1..(Len(blocks) - 1) |-> blocks[i]])

\* The parts of a finished batch, in the order in which they are compared.
BatchParts ==
    <<"tip", "events", "storage_logs", "user_logs", "system_logs", "contracts", "refunds", "costs", "memory",
      "pubdata_input", "state_diffs">>

compare_batch_outputs(legacy, fast) == SelectSeq(BatchParts, LAMBDA part : legacy[part] # fast[part])

compare(blocks, legacy_batch, fast_batch, fail_fast) ==
    LET txs == TransactionsOf(blocks)
        start == [compared_transactions |-> 0, divergences |-> <<>>, returned |-> FALSE]
        after[i \in 0..Len(txs)] ==
            IF i = 0 THEN start
            ELSE CompareTx(after[i - 1], execute_tx(txs[i].legacy), execute_tx(txs[i].fast), i, fail_fast)
        reasons == compare_batch_outputs(legacy_batch, fast_batch)
        final[i \in 0..Len(reasons)] ==
            IF i = 0 THEN after[Len(txs)] ELSE Note(final[i - 1], TRUE, Len(txs), reasons[i], fail_fast)
        end == final[Len(reasons)]
    IN  [compared_transactions |-> end.compared_transactions,
         compared_l2_blocks |-> IF blocks = <<>> THEN 0 ELSE Len(blocks) - 1,
         divergences |-> end.divergences]

is_match(report) == report.divergences = <<>>

-----------------------------------------------------------------------------
(***************************************************************************)
(* What is expected.                                                        *)
(***************************************************************************)
\* Two memories with the same summary are the same wherever the pointer leads, if that is not
\* longer than what is captured; nothing outside is looked at (summarize_pointer()).
SummarySeparates(pointer, max_capture, memory, other, width) ==
    \E this \in {summarize_pointer(pointer, max_capture, memory, width)},
       that \in {summarize_pointer(pointer, max_capture, other, width)} :
        \E slice \in {(pointer.start + pointer.offset + 1)..(pointer.start + pointer.length)} :
            /\ (\A i \in slice : memory[i] = other[i]) => this = that
            /\ this = that /\ this.readable /\ pointer.length - pointer.offset <= 2 * max_capture =>
                   \A i \in slice : memory[i] = other[i]

\* What a program can tell: in a frame that has no gas left, neither the counter nor an empty
\* pointer; never the number of a heap.
Visible(s) ==
    [s EXCEPT !.frame = [place |-> @.place, gas |-> @.gas,
                         program_counter |-> IF @.gas = 0 THEN <<>> ELSE @.program_counter],
              !.pointers = [i \in DOMAIN @ |->
                                IF s.frame.gas = 0 /\ @[i].offset = 0 /\ @[i].length = 0
                                THEN [@[i] EXCEPT !.raw = 0] ELSE @[i]]]

\* Equality of steps is reflexive and symmetric, and two steps it accepts show a program the
\* same; a frame that can go on must agree in all but its heaps (the PartialEq of ObservedStep).
EqualityIsSound(this, other) ==
    /\ StepsEqual(this, this)
    /\ StepsEqual(this, other) = StepsEqual(other, this)
    /\ StepsEqual(this, other) => Visible(this) = Visible(other)
    /\ this.frame.gas # 0 /\ Visible(this) = Visible(other) => StepsEqual(this, other)

ObservedAt(i, instruction) ==
    [step |-> i, opcode |-> instruction[2], frame |-> instruction[3], pointers |-> instruction[4]]

SameAttempt(a, b) ==
    /\ a.result = b.result /\ Len(a.instructions) = Len(b.instructions)
    /\ \A i \in DOMAIN a.instructions :
          /\ IsObserved(a.instructions[i]) = IsObserved(b.instructions[i])
          /\ IsObserved(a.instructions[i]) =>
                StepsEqual(ObservedAt(i, a.instructions[i]), ObservedAt(i, b.instructions[i]))

Taken(run) == IF run.compression_ok THEN run.compressed ELSE run.uncompressed

SameRuns(tx) ==
    /\ tx.legacy.compression_ok = tx.fast.compression_ok
    /\ SameAttempt(Taken(tx.legacy), Taken(tx.fast))

\* A report is a match just when both VMs did the same in every transaction, instruction by
\* instruction, and finished the same batch (compare()).
MatchIsSound(blocks, legacy_batch, fast_batch, fail_fast) ==
    is_match(compare(blocks, legacy_batch, fast_batch, fail_fast))
        = /\ \A i \in DOMAIN TransactionsOf(blocks) : SameRuns(TransactionsOf(blocks)[i])
          /\ legacy_batch = fast_batch

\* Stopping at the first divergence reports the one that comes first in a full comparison,
\* and counts the transactions up to it (compare(): fail_fast).
FailFastIsFirst(blocks, legacy_batch, fast_batch) ==
    \E full \in {compare(blocks, legacy_batch, fast_batch, FALSE)},
       first \in {compare(blocks, legacy_batch, fast_batch, TRUE)} :
        /\ full.compared_transactions = Len(TransactionsOf(blocks))
        /\ IF is_match(full) THEN first = full
           ELSE /\ first.divergences = <<full.divergences[1]>>
                /\ first.compared_transactions = full.divergences[1][1]
=============================================================================
