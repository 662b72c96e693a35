-------------------------------- MODULE VmRuns --------------------------------
(***************************************************************************)
(* One run of a VM, from inspect_inner() to its result, in both VMs at     *)
(* once: the loop of the fast VM, which is suspended at the bootloader's   *)
(* hooks (vm_fast/vm.rs: run), and the reference VM, whose tracers watch   *)
(* every cycle (vm_latest/tracers).  Both run the same program.            *)
(*                                                                         *)
(* External: the bootloader and the accounts it calls, that is the order   *)
(* of hooks, the instructions between them, their price and the frames     *)
(* they run in.  A call leaves one CallShare-th of the gas to its caller   *)
(* (a 64th in the machine); what a frame has left when it panics is lost.  *)
(* The computational price that the reference VM counts may be less than   *)
(* the gas an instruction takes.                                           *)
(*                                                                         *)
(* While the machines see the same they take the same steps.  Once an      *)
(* account has panicked with gas hidden from it they need not, and one of  *)
(* them is followed alone (apart).  The mode that only runs the            *)
(* bootloader's tip, which this repository never asks for, is left out.    *)
(***************************************************************************)
EXTENDS RevertReasons, FiniteSets

CONSTANTS
    Modes,            \* execution modes of the runs
    Gas,              \* gas the bootloader may start with
    ValidationLimits, \* default_validation_computational_gas_limit
    Costs,            \* <<computational price, gas>> of instructions
    HookCost,         \* <<computational price, gas>> of the write that calls a hook
    CallShare,        \* the part of its gas that a caller keeps
    Proposals,        \* refunds computed for the operator
    BootloaderErrors, \* codes the bootloader may revert with
    MaxInstructions   \* instructions between the hooks, and validations

\* EthCall, 0, is an error of an execution mode that the verifier refuses.
ASSUME RunAssumption ==
    /\ \A cost \in Costs \union {HookCost} : cost \in Nat \X Nat /\ cost[1] <= cost[2]
    /\ CallShare \in Nat \ {0} /\ Modes \subseteq {"OneTx", "Batch"}
    /\ Gas \subseteq Nat /\ ValidationLimits \subseteq Nat /\ Proposals \subseteq Nat
    /\ BootloaderErrors \subseteq Nat \ {0}
    /\ MaxInstructions \in Nat

VARIABLES
    mode, limit,
    fast,       \* the fast VM: its machine and the locals of run()
    latest,     \* the reference VM: its machine and its tracers
    apart,      \* "no", or the VM that is followed alone
    steps       \* instructions and validations so far

vars == <<mode, limit, fast, latest, apart, steps>>

-----------------------------------------------------------------------------
(***************************************************************************)
(* The machine and the program in it.  gas has an entry per frame, the     *)
(* bootloader's first.  heap is what the operator and the bootloader have  *)
(* written: the refund, whether the transaction succeeded, the last block  *)
(* and the pubdata.  counter is the pubdata published so far, which may    *)
(* fall but not below zero.                                                *)
(***************************************************************************)
CounterAtStart == 1

NoHeap == [refund |-> <<>>, success |-> 0, fictive |-> 0, pubdata |-> 0]

Machine(gas) == [gas |-> <<gas>>, phase |-> "begin", heap |-> NoHeap, counter |-> CounterAtStart, ended |-> "no"]

Depth(m) == Len(m.gas)
InBootloader(m) == Depth(m) = 1
Remaining(m) == m.gas[Depth(m)]
SetGas(m, gas) == [m EXCEPT !.gas[Depth(m)] = gas]
Callers(gas) == SubSeq(gas, 1, Len(gas) - 1)

\* A frame panics: the bootloader's ends the program.
Panicked(m) ==
    IF InBootloader(m) THEN [m EXCEPT !.ended = "Panic"] ELSE [m EXCEPT !.gas = Callers(@)]

Pays(m, cost) == Remaining(m) >= cost[2]

\* An instruction that cannot be paid takes all the gas of its frame and is a panic.
Charged(m, cost) == SetGas(m, IF Pays(m, cost) THEN Remaining(m) - cost[2] ELSE 0)

Kept(gas) == gas \div CallShare

Called(m) ==
    [SetGas(m, Kept(Remaining(m))) EXCEPT !.gas = Append(@, Remaining(m) - Kept(Remaining(m)))]

Returned(m) ==
    [m EXCEPT !.gas = [Callers(m.gas) EXCEPT ![Depth(m) - 1] = @ + Remaining(m)]]

(***************************************************************************)
(* Events of the program: an instruction, a call and its return, a panic,  *)
(* a hook with its parameter, and the end of the bootloader.  next is      *)
(* where the bootloader goes on.                                           *)
(***************************************************************************)
Op(cost) == [what |-> "op", cost |-> cost, hook |-> "none", param |-> 0, next |-> "same"]
Simply(what) == [Op(<<0, 0>>) EXCEPT !.what = what]
Hook(name, param, next) == [Op(HookCost) EXCEPT !.what = "hook", !.hook = name, !.param = param, !.next = next]
Ends(how, param) == [Simply("end") EXCEPT !.hook = how, !.param = param]

\* The machine after the event, but for the hook's effect.
Executed(m, e) ==
    IF ~ Pays(m, e.cost) THEN Panicked(Charged(m, e.cost))
    ELSE LET paid == Charged(m, e.cost)
         IN  CASE e.what = "op" -> [paid EXCEPT !.counter = @ + e.param]
               [] e.what = "call" -> Called(paid)
               [] e.what = "return" -> Returned(paid)
               [] e.what = "panic" -> Panicked(paid)
               [] e.what = "hook" ->
                     [paid EXCEPT !.phase = e.next,
                                  !.heap.success = IF e.hook = "PostResult" THEN e.param ELSE @]
               [] e.what = "store" -> [paid EXCEPT !.phase = "executed", !.heap.success = e.param]
               [] e.what = "end" -> [paid EXCEPT !.ended = e.hook]

\* The hooks and the ends of the bootloader, by what it runs.
OneTxEvents(m) ==
    CASE m.phase \in {"begin", "validated"} ->
            (IF steps < MaxInstructions THEN {Hook("AccountValidationEntered", 0, "validation")} ELSE {})
                \union [what : {"store"}, cost : {<<0, 0>>}, hook : {"none"}, param : {0, 1}, next : {"executed"}]
                \union {Hook("PostResult", ok, "executed") : ok \in {0, 1}}
      [] m.phase = "validation" -> {Hook("ValidationExited", 0, "validated")}
      [] m.phase = "executed" -> {Hook("AskOperatorForRefund", p, "asked") : p \in Proposals}
      [] m.phase = "asked" -> {Hook("NotifyAboutRefund", p, "refunded") : p \in {1}}
      [] m.phase = "refunded" -> {Hook("TxHasEnded", 0, "ended")}
      [] OTHER -> {}

BatchEvents(m) ==
    CASE m.phase = "begin" -> {Hook("FinalBatchInfo", 0, "tip")}
      [] m.phase = "tip" -> {Hook("PubdataRequested", 0, "pubdata")}
      [] m.phase = "pubdata" -> {Ends("Ok", 0)}
      [] OTHER -> {}

Instructions(m) ==
    {[Op(c) EXCEPT !.param = p] : c \in Costs, p \in {1} \union (IF m.counter > 0 THEN {-1} ELSE {})}
        \union {Simply(IF InBootloader(m) THEN "call" ELSE "return")}

BootloaderEvents(m) ==
    (IF mode = "OneTx" THEN OneTxEvents(m) ELSE BatchEvents(m))
        \union {Ends("Revert", code) : code \in BootloaderErrors}

\* The events the program of a machine may do next.
Events(m) ==
    (IF InBootloader(m) THEN BootloaderEvents(m) ELSE {})
        \union (IF steps < MaxInstructions THEN Instructions(m) ELSE {})
        \union {Simply("panic")}

-----------------------------------------------------------------------------
(***************************************************************************)
(* Results.  Those with "Empty" carry no data of the transaction.          *)
(***************************************************************************)
Halts == {"Halt", "ValidationOutOfGas", "BootloaderOutOfGas", "VMPanic"}
Results == Halts \union {"Success", "Revert", "SuccessEmpty", "RevertEmpty"}

PostedResult(param) == IF param = 0 THEN "Revert" ELSE "Success"

\* A transaction that ends without a posted result.
UnpostedResult(m) == IF m.heap.success = 0 THEN "RevertEmpty" ELSE "SuccessEmpty"

RevertResult(code) == IF parse_error(<<code>>)[1] = "TxReverted" THEN "Revert" ELSE "Halt"

\* What BootloaderState notes of a run.
NoNotes == [refund |-> <<>>, fictive |-> 0, pubdata |-> 0]

saturating_sub(a, b) == IF a >= b THEN a - b ELSE 0

\* compute_refund() depends on the pubdata published.
RefundFor(proposal, published) == proposal + published

\* The operator's refund, in the heap and in the bootloader state.
Refunded(vm, refund) == [vm EXCEPT !.m.heap.refund = <<refund>>, !.bs.refund = <<refund>>]

\* The block that ends the batch, and the pubdata.
WithFictiveBlock(vm) == [vm EXCEPT !.m.heap.fictive = @ + 1, !.bs.fictive = @ + 1]
WithPubdata(vm) == [vm EXCEPT !.m.heap.pubdata = @ + 1, !.bs.pubdata = @ + 1]

-----------------------------------------------------------------------------
(***************************************************************************)
(* The fast VM.  split is the gas given to a validation and the gas hidden *)
(* from it; track and out belong to FastValidationTracer.                  *)
(***************************************************************************)
NewFast(gas) ==
    [m |-> Machine(gas), bs |-> NoNotes, left |-> limit, split |-> <<>>, track |-> FALSE, out |-> FALSE,
     last |-> "none", before |-> CounterAtStart, published |-> 0, suggested |-> <<>>, refunded |-> 0, result |-> "none"]

Hidden(f) == IF f.split = <<>> THEN 0 ELSE f.split[2]

AccountValidationEntered(f) ==
    LET gas == Remaining(f.m)
        given == IF gas <= f.left THEN gas ELSE f.left
    IN  [f EXCEPT !.split = <<given, gas - given>>, !.track = gas > given, !.m = SetGas(@, given)]

\* The hidden gas is not given back.
GasAfterValidation_Hidden(f) ==
    [f EXCEPT !.left = @ - (f.split[1] - Remaining(f.m)), !.split = <<>>]

GasAfterValidation(f) ==
    [f EXCEPT !.left = @ - (f.split[1] - Remaining(f.m)),
              !.m = SetGas(@, Remaining(f.m) + f.split[2]), !.split = <<>>]

ValidationExited(f) ==
    [GasAfterValidation(f) EXCEPT !.track = FALSE, !.result = IF f.out THEN "ValidationOutOfGas" ELSE @]

AskOperatorForRefund(f, proposal) ==
    LET published == saturating_sub(f.m.counter, f.before)
        refund == RefundFor(proposal, published)
    IN  [Refunded(f, refund) EXCEPT !.published = published, !.before = f.m.counter, !.suggested = <<refund>>]

TxHasEnded(f) == [f EXCEPT !.result = IF f.last # "none" THEN f.last ELSE UnpostedResult(f.m)]

FastHook(f, e) ==
    CASE e.hook = "AccountValidationEntered" -> AccountValidationEntered(f)
      [] e.hook = "ValidationExited" -> ValidationExited(f)
      [] e.hook = "PostResult" -> [f EXCEPT !.last = PostedResult(e.param)]
      [] e.hook = "AskOperatorForRefund" -> AskOperatorForRefund(f, e.param)
      [] e.hook = "NotifyAboutRefund" -> [f EXCEPT !.refunded = e.param]
      [] e.hook = "TxHasEnded" -> TxHasEnded(f)
      [] e.hook = "FinalBatchInfo" -> WithFictiveBlock(f)
      [] e.hook = "PubdataRequested" -> WithPubdata(f)

\* ExecutionEnd: the program has come to its end.
FastEnd(f, e) ==
    CASE f.m.ended = "Ok" -> "Success"
      [] f.m.ended = "Revert" -> RevertResult(e.param)
      [] f.m.ended = "Panic" -> IF Remaining(f.m) = 0 THEN "BootloaderOutOfGas" ELSE "VMPanic"

\* before_instruction() of the validation tracer: the frame panics and has no gas.
PanicsWithoutGas(m, e) == ~ Pays(m, e.cost) \/ (e.what = "panic" /\ Remaining(m) = 0)

\* inner.run() to the next hook or the end, and what run() does there.
FastStep(f, e) ==
    LET after == [f EXCEPT !.m = Executed(f.m, e), !.out = @ \/ (f.track /\ PanicsWithoutGas(f.m, e))]
    IN  CASE after.m.ended # "no" -> [after EXCEPT !.result = FastEnd(after, e)]
          [] after.m.ended = "no" /\ e.what = "hook" /\ Pays(f.m, e.cost) -> FastHook(after, e)
          [] OTHER -> after

-----------------------------------------------------------------------------
(***************************************************************************)
(* The reference VM: DefaultExecutionTracer with its tracers for results,  *)
(* refunds and pubdata.  A cycle is decoded, announced to the tracers      *)
(* (before_execution), executed and followed by finish_cycle().            *)
(***************************************************************************)
NewLatest(gas) ==
    [m |-> Machine(gas), bs |-> NoNotes,
     used |-> 0, validating |-> FALSE, processed |-> FALSE, final_info |-> FALSE,
     posted |-> "none", out_of_gas |-> FALSE,
     pending |-> <<>>, suggested |-> <<>>, refunded |-> 0, published |-> 0, before |-> CounterAtStart,
     pubdata_requested |-> FALSE, result |-> "none"]

\* ResultTracer: the bootloader's own frame cannot pay.
after_decoding(l, e) == [l EXCEPT !.out_of_gas = @ \/ (InBootloader(l.m) /\ ~ Pays(l.m, e.cost))]

\* The price is counted outside of validations.
Counted_Always(l, e) == [l EXCEPT !.used = @ + e.cost[1]]

\* The price counts for the validation that the instruction begins in.
Counted(l, e) == [l EXCEPT !.used = IF l.validating THEN @ + e.cost[1] ELSE @]

before_execution(l, e) ==
    CASE e.hook = "TxHasEnded" -> [l EXCEPT !.processed = TRUE]
      [] e.hook = "AccountValidationEntered" -> [l EXCEPT !.validating = TRUE]
      [] e.hook = "ValidationExited" -> [l EXCEPT !.validating = FALSE]
      [] e.hook = "FinalBatchInfo" -> [l EXCEPT !.final_info = TRUE]
      [] e.hook = "PostResult" -> [l EXCEPT !.posted = PostedResult(e.param)]
      [] e.hook = "NotifyAboutRefund" -> [l EXCEPT !.refunded = e.param]
      [] e.hook = "AskOperatorForRefund" -> [l EXCEPT !.pending = <<e.param>>]
      [] e.hook = "PubdataRequested" -> [l EXCEPT !.pubdata_requested = TRUE]
      [] OTHER -> l

set_fictive_l2_block(l) ==
    IF l.final_info THEN [WithFictiveBlock(l) EXCEPT !.final_info = FALSE] ELSE l

\* finish_cycle() of RefundsTracer; that it was not asked before is asserted (see RefundIsStored).
RefundsFinishCycle(l) ==
    IF l.pending = <<>> THEN l
    ELSE LET published == saturating_sub(l.m.counter, l.before)
             refund == RefundFor(l.pending[1], published)
         IN  [Refunded(l, refund) EXCEPT !.published = published, !.suggested = <<refund>>, !.pending = <<>>]

PubdataFinishCycle(l) ==
    IF l.pubdata_requested THEN [WithPubdata(l) EXCEPT !.pubdata_requested = FALSE] ELSE l

validation_run_out_of_gas(l) == l.used > limit

should_stop_execution(l) ==
    CASE mode = "OneTx" /\ l.processed -> "Finish"
      [] ~ (mode = "OneTx" /\ l.processed) -> IF validation_run_out_of_gas(l) THEN "Abort" ELSE "Continue"

\* The program has come to its end, or was stopped outside of a transaction.
vm_finished_execution(l, e) ==
    CASE l.m.ended = "no" -> "SuccessEmpty"
      [] l.m.ended = "Ok" -> "Success"
      [] l.m.ended = "Revert" -> RevertResult(e.param)
      [] l.m.ended = "Panic" -> IF l.out_of_gas THEN "BootloaderOutOfGas" ELSE "VMPanic"

vm_stopped_execution(l, reason) ==
    CASE reason = "Abort" -> "ValidationOutOfGas"
      [] reason = "Finish" ->
            CASE l.out_of_gas -> "BootloaderOutOfGas"
              [] ~ l.out_of_gas -> IF l.posted # "none" THEN l.posted ELSE UnpostedResult(l.m)

after_vm_execution(l, reason, e) ==
    [l EXCEPT !.result = IF reason # "VmFinished" /\ mode = "OneTx" THEN vm_stopped_execution(l, reason)
                         ELSE vm_finished_execution(l, e)]

\* execute_with_default_tracer(): the end of a cycle.
CycleEnded(l, e) ==
    LET status == should_stop_execution(l)
    IN  CASE status # "Continue" -> after_vm_execution(l, status, e)
          [] status = "Continue" -> IF l.m.ended # "no" THEN after_vm_execution(l, "VmFinished", e) ELSE l

LatestStep(l, e) ==
    LET decoded == after_decoding(l, e)
        announced == IF Pays(l.m, e.cost) THEN before_execution(Counted(decoded, e), e) ELSE decoded
        executed == [announced EXCEPT !.m = Executed(l.m, e)]
    IN  CycleEnded(PubdataFinishCycle(RefundsFinishCycle(set_fictive_l2_block(executed))), e)

-----------------------------------------------------------------------------
(***************************************************************************)
(* Runs.                                                                   *)
(***************************************************************************)
Init ==
    /\ mode \in Modes
    /\ limit \in ValidationLimits
    /\ \E gas \in Gas : fast = NewFast(gas) /\ latest = NewLatest(gas)
    /\ apart = "no"
    /\ steps = 0

Running(vm) == vm.result = "none"

Counts(e) == e.what \in {"op", "call", "return"} \/ e.hook = "AccountValidationEntered"

\* An account panics, or cannot pay, and gas is hidden from it.
ParcelsOut(e) == Hidden(fast) > 0 /\ (e.what = "panic" \/ ~ Pays(fast.m, e.cost))

Together ==
    /\ apart = "no" /\ Running(fast) /\ Running(latest)
    /\ \E e \in Events(fast.m) :
          /\ fast' = FastStep(fast, e)
          /\ latest' = LatestStep(latest, e)
          /\ apart' \in IF ParcelsOut(e) THEN {"fast", "latest"} ELSE {"no"}
          /\ steps' = steps + (IF Counts(e) THEN 1 ELSE 0)
    /\ UNCHANGED <<mode, limit>>

FastAlone ==
    /\ apart = "fast" /\ Running(fast)
    /\ \E e \in Events(fast.m) :
          /\ fast' = FastStep(fast, e)
          /\ steps' = steps + (IF Counts(e) THEN 1 ELSE 0)
    /\ UNCHANGED <<mode, limit, latest, apart>>

LatestAlone ==
    /\ apart = "latest" /\ Running(latest)
    /\ \E e \in Events(latest.m) :
          /\ latest' = LatestStep(latest, e)
          /\ steps' = steps + (IF Counts(e) THEN 1 ELSE 0)
    /\ UNCHANGED <<mode, limit, fast, apart>>

Next == Together \/ FastAlone \/ LatestAlone

Spec == Init /\ [][Next]_vars

-----------------------------------------------------------------------------
(***************************************************************************)
(* Properties.                                                             *)
(***************************************************************************)

\* The gas of the bootloader and of what it calls.
Total(gas) == gas[1] + (IF Len(gas) = 2 THEN gas[2] ELSE 0)

\* "fast" and "latest" differ at most in the reason they give for a panic of the bootloader.
SameResult(a, b) == a = b \/ {a, b} = {"BootloaderOutOfGas", "VMPanic"}

\* Until an account panics with gas hidden from it, the loop of the fast VM and the tracers of the
\* reference VM tell the same of the same program: they stop at the same instruction with the same
\* result, refunds and pubdata, have written the same to the bootloader's heap and state, and have
\* the same gas, counting the gas hidden from a validation.
ResultsAgree ==
    apart = "no" =>
        /\ SameResult(fast.result, latest.result)
        /\ fast.bs = latest.bs /\ fast.m.heap = latest.m.heap
        /\ fast.suggested = latest.suggested /\ fast.refunded = latest.refunded
        /\ fast.published = latest.published
        /\ Total(fast.m.gas) + Hidden(fast) = Total(latest.m.gas)

\* "Maximum number of gas that we're allowed to use during account validation" (default_tracers.rs):
\* the limit holds for all the validations of a transaction together, in both VMs.  A transaction
\* that has passed it is halted.
ValidationIsBounded ==
    /\ latest.result \notin Halts \union {"none"} => latest.used <= limit
    /\ fast.left \in 0..limit
    /\ fast.split # <<>> => fast.split[1] <= fast.left
    /\ fast.out => fast.result \in Halts \union {"none"}

\* The reference VM counts less than the fast VM takes, and later: whenever it aborts a transaction
\* for its validation, the fast VM has noticed so at this instruction or before.
LimitIsNoticed ==
    [][apart = "no" /\ latest'.result = "ValidationOutOfGas" => fast'.out]_vars

\* The refund the operator is reported to have suggested is the one the bootloader finds in its heap
\* and the one its state restores; the operator is asked once.
RefundIsStored ==
    \A vm \in {[bs |-> fast.bs, heap |-> fast.m.heap, suggested |-> fast.suggested],
               [bs |-> latest.bs, heap |-> latest.m.heap, suggested |-> latest.suggested]} :
        vm.heap.refund = vm.suggested /\ vm.bs.refund = vm.suggested

\* A batch that ends well was given its last block and its pubdata once, in the heap and in the
\* bootloader state, though the tracers only note the requests and act when the cycle is over.
TipIsProvidedOnce ==
    \A vm \in {[bs |-> fast.bs, heap |-> fast.m.heap, result |-> fast.result],
               [bs |-> latest.bs, heap |-> latest.m.heap, result |-> latest.result]} :
        /\ \E once \in {0, 1}, twice \in {0, 1} :
              /\ vm.heap.fictive = once /\ vm.bs.fictive = once
              /\ vm.heap.pubdata = twice /\ vm.bs.pubdata = twice
        /\ mode = "Batch" /\ vm.result = "Success" => vm.heap.fictive = 1 /\ vm.heap.pubdata = 1

\* The two VMs run a transaction alike: they tell the same result, bound its validation, store the
\* operator's refund and provide the end of the batch once (FastVm::run(), the tracers of
\* vm_latest).
RunsAgree ==
    /\ ResultsAgree
    /\ ValidationIsBounded
    /\ RefundIsStored
    /\ TipIsProvidedOnce
=============================================================================
