------------------------------ MODULE CallTracers ------------------------------
(***************************************************************************)
(* What the VMs' tracers make of the call stack: the two call tracers,     *)
(* which collect the tree of far calls (multivm/tracers/call_tracer and    *)
(* vm_fast/tracers/calls.rs), and the part of the reference VM's           *)
(* ResultTracer that remembers the data returned to the bootloader.        *)
(*                                                                         *)
(* External: the machine and its programs, that is which frames are        *)
(* entered and left and with how much gas.  The tracers are attached when  *)
(* a transaction begins, possibly inside near calls of the bootloader that *)
(* they have not seen.  The bootloader delegates no call; the empty        *)
(* contract at its address makes none.  A frame that has no code is        *)
(* entered without gas.                                                    *)
(***************************************************************************)
EXTENDS Integers, Sequences, SequencesExt, FiniteSets

CONSTANTS
    Boot, Deployer,  \* addresses of the bootloader and the ContractDeployer
    Targets,         \* calls that contracts make: <<kind, address>>
    Returns,         \* ways to return: <<kind, whether with data>>
    StartGas,        \* gas of the bootloader
    UnseenNear,      \* near calls the bootloader may be in at the start
    MaxCalls,        \* far calls
    MaxFrames,       \* frames at once
    Usize            \* 2^w: current_stack_depth is a usize

VARIABLES
    frames,  \* call stack: [far, address, caller, gas, call], the bootloader's frame first
    start,   \* frames when the tracers were attached
    made,    \* far calls made, with what the machine knows of them
    fast_calls,    \* CallTracer of the fast VM
    latest_calls,  \* CallTracer of the reference VM
    tracker  \* FarCallTracker of ResultTracer

call_vars == <<frames, start, made, fast_calls, latest_calls, tracker>>

-----------------------------------------------------------------------------
(***************************************************************************)
(* Calls.  A call's number stands for its data, 0 for none.  outcome is    *)
(* how it ended, with the data if there was any.                           *)
(***************************************************************************)
Unfinished == <<"none", 0>>

\* The type of a call: a mimic call of the deployer is the creation of a contract.
CallType(kind, caller_frame) ==
    IF kind = "Mimic" /\ caller_frame.address = Deployer THEN "Create" ELSE kind

\* The call whose frame has just been entered.
NewCall(fr, kind) ==
    LET current == Last(fr)
        parent == fr[Len(fr) - 1]
    IN  [type |-> CallType(kind, parent), from |-> current.caller, to |-> current.address,
         input |-> IF current.gas = 0 THEN 0 ELSE current.call,
         gas |-> current.gas, parent_gas |-> current.gas + parent.gas,
         gas_used |-> 0, outcome |-> Unfinished, calls |-> <<>>]

GasUsed(before, after) == IF before >= after THEN before - after ELSE 0

\* Output, revert reason or error.  A trivial pointer has no data, a panic none that is kept.
Outcome(how, data) == <<how, IF how = "Panic" THEN 0 ELSE data>>

\* The call has returned to a frame that now has gas.
Ended(call, gas, how, data) ==
    [call EXCEPT !.gas_used = GasUsed(call.parent_gas, gas), !.outcome = Outcome(how, data)]

\* An ended call belongs to the call below it on the stack, or to the finished ones.
Delivered(t, rest, call) ==
    IF rest = <<>> THEN [t EXCEPT !.stack = rest, !.finished = Append(@, call)]
    ELSE [t EXCEPT !.stack = [rest EXCEPT ![Len(rest)].call.calls = Append(@, call)]]

-----------------------------------------------------------------------------
(***************************************************************************)
(* The fast VM's tracer.                                                   *)
(***************************************************************************)
NoCalls == [stack |-> <<>>, finished |-> <<>>]

NewFastTracer == NoCalls @@ [depth |-> 0]

FastFarCall(t, call) ==
    [t EXCEPT !.depth = (@ + 1) % Usize, !.stack = Append(@, [call |-> call, near |-> 0])]

FastNearCall(t) ==
    [t EXCEPT !.depth = (@ + 1) % Usize,
              !.stack = IF @ = <<>> THEN @ ELSE [@ EXCEPT ![Len(t.stack)].near = @ + 1]]

\* Every return ends the call on top.
FastRet_EveryReturn(t, gas, how, data) ==
    LET u == [t EXCEPT !.depth = (@ - 1) % Usize]
    IN  IF t.stack = <<>> THEN u
        ELSE Delivered(u, Front(t.stack), Ended(Last(t.stack).call, gas, how, data))

FastRet(t, gas, how, data) ==
    LET u == [t EXCEPT !.depth = (@ - 1) % Usize]
    IN  CASE t.stack = <<>> -> u
          [] t.stack # <<>> /\ Last(t.stack).near > 0 -> [u EXCEPT !.stack[Len(t.stack)].near = @ - 1]
          [] OTHER -> Delivered(u, Front(t.stack), Ended(Last(t.stack).call, gas, how, data))

-----------------------------------------------------------------------------
(***************************************************************************)
(* The reference VM's tracer: prefix is stack_depth_on_prefix.  The        *)
(* largest depths seen, which nothing reports, are left out.               *)
(***************************************************************************)

push_call_and_update_stats(t, rest, call, near) ==
    LET depth == 1 + near + (IF rest = <<>> THEN 0 ELSE Last(rest).prefix)
    IN  [t EXCEPT !.stack = Append(rest, [call |-> call, near |-> near, prefix |-> depth])]

increase_near_call_count(t) ==
    IF t.stack = <<>> THEN t
    ELSE LET last == [Last(t.stack) EXCEPT !.near = @ + 1, !.prefix = @ + 1]
         IN  [t EXCEPT !.stack[Len(t.stack)] = last]

handle_ret_op_code_latest(t, gas, how, data) ==
    CASE t.stack = <<>> -> t
      [] t.stack # <<>> /\ Last(t.stack).near > 0 ->
            push_call_and_update_stats(t, Front(t.stack), Last(t.stack).call, Last(t.stack).near - 1)
      [] OTHER -> Delivered(t, Front(t.stack), Ended(Last(t.stack).call, gas, how, data))

-----------------------------------------------------------------------------
(***************************************************************************)
(* FarCallTracker: the depth is that of the frames below the current one.  *)
(***************************************************************************)
NoFarCallObserved == <<"NoFarCallObserved", 0>>

\* Before a far call of a frame at the bootloader's address; two in a row panic.
far_call_observed(x, fr) ==
    IF x[1] = "FarCallObserved" THEN <<"Panicked", 0>> ELSE <<"FarCallObserved", Len(fr) - 1>>

\* After a return to a frame at the bootloader's address; data is what register 1 points to.
return_observed(x, fr, data) ==
    IF x = <<"FarCallObserved", Len(fr) - 1>> THEN <<"ReturndataObserved", data>> ELSE x

-----------------------------------------------------------------------------
(***************************************************************************)
(* The machine.                                                            *)
(***************************************************************************)
Current == Last(frames)
AtBootloader == Current.call = 0

CallInit ==
    /\ \E unseen \in UnseenNear :
          /\ frames = [i \in 1..(1 + unseen) |->
                          [far |-> i = 1, address |-> Boot, caller |-> Boot, gas |-> IF i = 1 + unseen THEN StartGas ELSE 0,
                           call |-> 0]]
          /\ start = 1 + unseen
    /\ made = <<>>
    /\ fast_calls = NewFastTracer /\ latest_calls = NoCalls
    /\ tracker = NoFarCallObserved

\* The frame of a call: a delegate call keeps address and caller, a mimic call poses as someone.
Entered(kind, to, gas) ==
    [far |-> TRUE, gas |-> gas, call |-> Len(made) + 1,
     address |-> IF kind = "Delegate" THEN Current.address ELSE to,
     caller |-> CASE kind = "Normal" -> Current.address
                  [] kind = "Delegate" -> Current.caller
                  [] kind = "Mimic" -> Deployer]

\* A caller keeps a part of its gas.
KeptByCaller(gas) == gas \div 2

FarCall ==
    /\ Len(made) < MaxCalls /\ Len(frames) < MaxFrames
    /\ Current.address = Boot => AtBootloader
    /\ \E target \in Targets, gas \in {Current.gas - KeptByCaller(Current.gas)} :
          /\ target[1] = "Delegate" => ~ AtBootloader
          /\ frames' = Append([frames EXCEPT ![Len(frames)].gas = @ - gas], Entered(target[1], target[2], gas))
          /\ \E call \in {NewCall(frames', target[1])} :
                /\ fast_calls' = FastFarCall(fast_calls, call)
                /\ latest_calls' = push_call_and_update_stats(latest_calls, latest_calls.stack, call, 0)
                /\ made' = Append(made, [parent |-> Current.call, first |-> call, last |-> call])
    /\ tracker' = IF Current.address = Boot THEN far_call_observed(tracker, frames) ELSE tracker
    /\ UNCHANGED start

NearCall ==
    /\ Len(frames) < MaxFrames
    /\ frames' = Append([frames EXCEPT ![Len(frames)].gas = 0], [Current EXCEPT !.far = FALSE])
    /\ fast_calls' = FastNearCall(fast_calls)
    /\ latest_calls' = increase_near_call_count(latest_calls)
    /\ UNCHANGED <<start, made, tracker>>

\* What is left goes to the caller, but for a panic.
Ret ==
    /\ Len(frames) > 1
    /\ \E return \in Returns : \E how \in {return[1]}, data \in {IF Current.far /\ return[2] THEN Current.call ELSE 0} :
          /\ frames' = [Front(frames) EXCEPT ![Len(frames) - 1].gas = IF how = "Panic" THEN @ ELSE @ + Current.gas]
          /\ fast_calls' = FastRet(fast_calls, Last(frames').gas, how, data)
          /\ latest_calls' = handle_ret_op_code_latest(latest_calls, Last(frames').gas, how, data)
          /\ made' = IF ~ Current.far THEN made
                     ELSE [made EXCEPT ![Current.call].last.outcome = Outcome(how, data),
                                       ![Current.call].last.gas_used = made[Current.call].first.parent_gas - Last(frames').gas]
          /\ tracker' = IF Last(frames').address = Boot THEN return_observed(tracker, frames', data) ELSE tracker
    /\ UNCHANGED start

\* Any other instruction.
Spend ==
    /\ Current.gas > 0
    /\ frames' = [frames EXCEPT ![Len(frames)].gas = @ - 1]
    /\ UNCHANGED <<start, made, fast_calls, latest_calls, tracker>>

CallNext == FarCall \/ NearCall \/ Ret \/ Spend

CallSpec == CallInit /\ [][CallNext]_call_vars

-----------------------------------------------------------------------------
(***************************************************************************)
(* Properties.                                                             *)
(***************************************************************************)
\* The finished calls made inside of each call, in order, with theirs.
Tree ==
    LET t[p \in 0..Len(made)] ==
            LET Finished(i) == made[i].parent = p /\ made[i].last.outcome # Unfinished
                ids == SelectSeq([i \in 1..Len(made) |-> i], Finished)
            IN  [k \in 1..Len(ids) |-> [made[ids[k]].last EXCEPT !.calls = t[ids[k]]]]
    IN  t

\* Calls being made, outermost first, and the near frames on top of each.
FarFrames == {i \in DOMAIN frames : frames[i].far /\ frames[i].call > 0}
NearAbove(i) == Cardinality({j \in DOMAIN frames : j > i /\ ~ frames[j].far /\ \A k \in (i + 1)..j : ~ frames[k].far})

\* Both tracers collect the tree of calls as they were made: every call that has returned is found
\* once, under the call that made it and in order, with its own data, type and outcome, however the
\* frames between were left; and what is being called is on the tracers' stacks.
CallsAreCollected ==
    LET tree == Tree
    IN  \A t \in {<<fast_calls>>, <<latest_calls>>} :
          /\ t[1].finished = tree[0]
          /\ Len(t[1].stack) = Cardinality(FarFrames)
          /\ \A i \in FarFrames :
                LET entry == t[1].stack[Cardinality({j \in FarFrames : j <= i})]
                IN  /\ entry.call = [made[frames[i].call].first EXCEPT !.calls = tree[frames[i].call]]
                    /\ entry.near = NearAbove(i)

\* The depths the tracers keep are those of the call stack: since the tracer was attached in the fast
\* VM, where it wraps below zero in near calls begun before, and from the first far call on in the
\* reference VM, which takes the top entry off and puts it back at every near return.
DepthsAreFrames ==
    /\ fast_calls.depth = (Len(frames) - start) % Usize
    /\ FarFrames # {} =>
          Last(latest_calls.stack).prefix = Len(frames) + 1 - (CHOOSE i \in FarFrames : \A j \in FarFrames : i <= j)

\* A call is charged at least for the calls it made: "we use parent gas for properly calculating gas
\* used in the trace" (call_tracer/vm_latest), also when frames panic and lose their gas.
GasUsedNests ==
    \A t \in {<<fast_calls>>, <<latest_calls>>} :
        \A list \in {t[1].finished} \union {t[1].stack[i].call.calls : i \in DOMAIN t[1].stack} :
            \A i \in DOMAIN list :
                FoldSeq(LAMBDA c, sum : c.gas_used + sum, 0, list[i].calls) <= list[i].gas_used

\* "Two far calls from bootloader in a row is not possible": the tracker never panics, and between its
\* calls it points to what the bootloader's latest call returned, although contracts call the
\* bootloader's address as well.
ReturndataIsLatest ==
    LET own == {i \in DOMAIN made : made[i].parent = 0}
    IN  /\ tracker[1] # "Panicked"
        /\ AtBootloader /\ own # {} =>
              tracker = <<"ReturndataObserved", made[CHOOSE i \in own : \A j \in own : j <= i].last.outcome[2]>>
=============================================================================
