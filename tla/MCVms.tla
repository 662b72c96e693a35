--------------------------------- MODULE MCVms ---------------------------------
(***************************************************************************)
(* The two VMs part by part: a run of the bootloader, the bytecodes a       *)
(* program reaches, its calls as traced, its validation as traced.  Runs    *)
(* have little gas, validation limits below, at and above it, and           *)
(* instructions whose gas is or is not counted in full.                     *)
(***************************************************************************)
EXTENDS VmRuns, FastVmWorld, CallTracers, AccountValidation

CONSTANT c

VARIABLE part

MCCosts == {<<1, 1>>, <<1, 2>>}
MCHookCost == <<1, 1>>

\* Words of two bytes; bytecodes of one and of three words; an EVM bytecode of one byte is padded.
MCEraCodes == {<<1, 0>>}
MCEvmCodes == {<<1>>, <<1, 1, 1>>}
MCSnapshotCodes == {<<1, 1>>}
MCDefaultAccount == <<0, 1>>

MCTargets == {<<"Normal", Boot>>, <<"Normal", Deployer>>, <<"Mimic", c>>, <<"Delegate", c>>}
MCReturns == {<<"Normal", TRUE>>, <<"Revert", FALSE>>, <<"Panic", FALSE>>}

MCKeccak ==
    [d \in {<<1, 0>>, <<2, 10>>, <<2, 0>>} |->
        CASE d = <<1, 0>> -> 10 [] d = <<2, 10>> -> 20 [] d = <<2, 0>> -> 30]

MCReads ==
    [address : {"user", "contract", "old", "token"}, caller : {"user"}, slot : {0, 1, 11, 12, 20, 30}]
        \union [address : {"token"}, caller : {"simulator"}, slot : {12}]
        \union [address : {"context"}, caller : {"user"}, slot : {0, 2}]
        \union [address : {"codes"}, caller : {"user"}, slot : {3, 4}]
        \union [address : {"contract"}, caller : {"asserter"}, slot : {30}]
        \union [address : {"new"}, caller : {"user"}, slot : {12}]
        \union [address : {"beacon"}, caller : {"user"}, slot : {7}]

MCCalls == {"user", "contract", "empty"}
MCRanges == {<<0, 4>>, <<2, 9>>, <<1, 2>>}
MCTrustedSlots == {<<"contract", 0>>}
MCTrustedAddressSlots == {<<"beacon", 7>>}
MCWithCode == {"contract", "asserter", "keccak"}
MCCodeKeys == [k \in {3, 4} |-> IF k = 3 THEN "contract" ELSE "empty"]

\* One of the initial states of a part that is not looked at.
MCNoRun == mode = "OneTx" /\ limit = 3 /\ fast = NewFast(8)
MCNoValidation == hidden

MCInit ==
    /\ Init /\ WorldInit /\ CallInit /\ ValidationInit
    /\ \/ part = "run" /\ MCNoValidation
       \/ part = "validation" /\ MCNoRun
       \/ part \in {"calls", "world"} /\ MCNoRun /\ MCNoValidation

Executing(Step) == part = "run" /\ Step /\ UNCHANGED <<part, world_vars, call_vars, validation_vars>>
Loading(Step) == part = "world" /\ Step /\ UNCHANGED <<part, vars, call_vars, validation_vars>>
Calling(Step) == part = "calls" /\ Step /\ UNCHANGED <<part, vars, world_vars, validation_vars>>
Checking(Step) == part = "validation" /\ Step /\ UNCHANGED <<part, vars, world_vars, call_vars>>

MCNext ==
    \/ Executing(Together) \/ Executing(FastAlone) \/ Executing(LatestAlone)
    \/ Loading(WorldNext)
    \/ Calling(FarCall) \/ Calling(NearCall) \/ Calling(Ret) \/ Calling(Spend)
    \/ Checking(BootloaderHook) \/ Checking(Read) \/ Checking(Call) \/ Checking(AssertTimestamp)
    \/ Checking(Hash) \/ Checking(HashReturns) \/ Checking(Other) \/ Checking(Change)

MCSpec == MCInit /\ [][MCNext]_<<part, vars, world_vars, call_vars, validation_vars>>

\* What the tracers report is what happened: the calls as a tree with their gas and depth, the data
\* returned last, and the range of timestamps a validation has asserted (CallTracer,
\* FarCallTracker, apply_timestamp_asserter_range()).
TracersReportRightly ==
    /\ CallsAreCollected
    /\ DepthsAreFrames
    /\ GasUsedNests
    /\ ReturndataIsLatest
    /\ RangeIsIntersection
================================================================================
