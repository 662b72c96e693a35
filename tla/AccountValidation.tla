--------------------------- MODULE AccountValidation ---------------------------
(***************************************************************************)
(* The rules for what an account may do while it validates a transaction,  *)
(* as the two VMs' tracers enforce them: ValidationTracer for the          *)
(* reference VM (multivm/tracers/validator) and FullValidationTracer for   *)
(* the fast VM (vm_fast/tracers/validation.rs).  Both watch the same       *)
(* program until one of them stops it.                                     *)
(*                                                                         *)
(* External: the bootloader with its hooks, and the contracts it runs,     *)
(* which read slots, call, return and panic.  The contract at the address  *)
(* of keccak256 does nothing but answer or fail.  An instruction takes one *)
(* unit of gas, which is also its computational price.  The gas given to   *)
(* the validations is all there is, or is the limit and the rest hidden    *)
(* from them (VmRuns).  Both tracers look up the storage as the batch has  *)
(* made it: the one of the reference VM is given the very view that the VM *)
(* writes through.                                                         *)
(***************************************************************************)
EXTENDS Integers, FiniteSets, FiniteSetsExt

CONSTANTS
    UserKey,         \* the user's address as a slot
    Keccak,          \* the slot that hashing <<key, position>> gives
    Offset,          \* MAX_ALLOWED_SLOT_OFFSET
    Reads,           \* reads of contracts: [address, caller, slot]
    Calls,           \* contracts that are called
    Ranges,          \* ranges given to the timestamp asserter: <<start, end>>
    U64Max,          \* the largest timestamp
    Deadline,        \* earliest end of a range: timestamp of the batch + min_time_till_end
    TrustedSlots, TrustedAddressSlots,  \* <<address, slot>>
    WithCode,        \* addresses that have code before the batch
    CodeKeys,        \* slots of ACCOUNT_CODE_STORAGE: the address of each
    Limit            \* computational_gas_limit

\* The contracts that both tracers know of are deployed.
ASSUME ValidationAssumption ==
    /\ UserKey \in Int /\ Offset \in Nat /\ U64Max \in Int /\ Deadline \in Int /\ Limit \in Nat \ {0}
    /\ Keccak \in [DOMAIN Keccak -> Int] /\ DOMAIN Keccak \subseteq Int \X Int
    /\ (\A r \in Reads : r.slot \in Int) /\ Ranges \subseteq Int \X Int
    /\ {"keccak", "asserter"} \subseteq WithCode

VARIABLES
    phase,           \* of the bootloader: "idle", "user", "paymaster" or "over"
    hashing,         \* <<>> or the <<key, position>> being hashed
    left, hidden,    \* gas of the validations; whether there is more
    deployed, target,\* the storage they look up: new contracts; the address in the trusted slots
    full, validator, \* FullValidationTracer of the fast VM, ValidationTracer of the reference VM
    asserted,        \* ranges that were accepted
    unanswered       \* whether a hash was computed and not returned

validation_vars == <<phase, hashing, left, hidden, deployed, target, full, validator, asserted, unanswered>>

-----------------------------------------------------------------------------
(***************************************************************************)
(* Addresses, events and violated rules.                                   *)
(***************************************************************************)
USER == "user"
KECCAK256_PRECOMPILE_ADDRESS == "keccak"
L2_BASE_TOKEN_ADDRESS == "token"
SYSTEM_CONTEXT_ADDRESS == "context"
ACCOUNT_CODE_STORAGE_ADDRESS == "codes"
TIMESTAMP_ASSERTER == "asserter"
TransferCallers == {"simulator", "deployer", "bootloader"}
TrustedTargets == {"old", "new"}

NoError == [rule |-> "none", address |-> "none", slot |-> 0]
Violated(rule, address, slot) == [rule |-> rule, address |-> address, slot |-> slot]
OutOfGas == Violated("TookTooManyComputationalGas", "none", 0)

Event(what) == [what |-> what, address |-> "none", caller |-> "none", slot |-> 0, data |-> <<>>]
Panic == Event("panic")
HookEvent(name) == [Event("hook") EXCEPT !.address = name]

-----------------------------------------------------------------------------
(***************************************************************************)
(* What both tracers compute.                                              *)
(***************************************************************************)
valid_eth_token_call(address, caller) == address = L2_BASE_TOKEN_ADDRESS /\ caller \in TransferCallers

touches_allowed_context(address, slot) == address = SYSTEM_CONTEXT_ADDRESS /\ slot = 0

\* What the storage says now.
has_code(address) == address \in WithCode \union deployed

is_constant_code_hash(address, slot) ==
    address = ACCOUNT_CODE_STORAGE_ADDRESS /\ slot \in DOMAIN CodeKeys /\ has_code(CodeKeys[slot])

\* Data of a mapping may take several slots after the one that was computed.
NearAllowed(slots, slot) == \E s \in slots : s <= slot /\ slot - s <= Offset

\* A hash of 64 bytes is a slot for the user if it is of the user, or of a slot allowed before.
HashIsAllowed(slots, data) == data[1] = UserKey \/ data[2] \in slots

Capped(x) == IF x > U64Max THEN U64Max ELSE x

apply_timestamp_asserter_range(range, new) ==
    IF range = <<>> THEN new ELSE <<Max({range[1], new[1]}), Min({range[2], new[2]})>>

\* A call of the timestamp asserter.
Asserted(t, e) ==
    LET range == <<Capped(e.data[1]), Capped(e.data[2])>>
    IN  IF range[2] < Deadline THEN [t EXCEPT !.error = Violated("TimestampAssertionCloseToRangeEnd", "none", 0)]
        ELSE [t EXCEPT !.range = apply_timestamp_asserter_range(@, range)]

IsAssertion(e) == e.address = TIMESTAMP_ASSERTER /\ e.data # <<>>

-----------------------------------------------------------------------------
(***************************************************************************)
(* The reference VM's tracer: every instruction is checked before it is    *)
(* executed, and the run is stopped at the end of the cycle.               *)
(***************************************************************************)
NewTracer == [slots |-> {}, trusted |-> {}, error |-> NoError, range |-> <<>>, stopped |-> FALSE]

NewValidator == [mode |-> "NoValidation", used |-> 0, tracer |-> NewTracer]

is_allowed_storage_read(t, e) ==
    \/ valid_eth_token_call(e.address, e.caller)
    \/ <<e.address, e.slot>> \in TrustedSlots \union TrustedAddressSlots
    \/ e.address \in t.trusted
    \/ touches_allowed_context(e.address, e.slot)
    \/ e.address = USER \/ e.slot = UserKey
    \/ NearAllowed(t.slots, e.slot)
    \/ is_constant_code_hash(e.address, e.slot)
    \/ e.caller = TIMESTAMP_ASSERTER

LatestCalled(t, e) ==
    CASE e.address = KECCAK256_PRECOMPILE_ADDRESS /\ e.data # <<>> ->
            IF HashIsAllowed(t.slots, e.data) THEN [t EXCEPT !.slots = @ \union {Keccak[e.data]}] ELSE t
      [] e.address # USER /\ ~ has_code(e.address) -> [t EXCEPT !.error = Violated("CalledContractWithNoCode", e.address, 0)]
      [] e.address # USER /\ has_code(e.address) /\ IsAssertion(e) -> Asserted(t, e)
      [] OTHER -> t

check_user_restrictions_vm_latest(t, used, e) ==
    CASE used > Limit -> [t EXCEPT !.error = OutOfGas]
      [] used <= Limit /\ e.what = "call" -> LatestCalled(t, e)
      [] used <= Limit /\ e.what = "meta" -> [t EXCEPT !.error = Violated("TouchedDisallowedContext", "none", 0)]
      [] used <= Limit /\ e.what = "read" ->
            CASE ~ is_allowed_storage_read(t, e) -> [t EXCEPT !.error = Violated("TouchedDisallowedStorageSlots", e.address, e.slot)]
              [] is_allowed_storage_read(t, e) /\ <<e.address, e.slot>> \in TrustedAddressSlots ->
                    [t EXCEPT !.trusted = @ \union {target}]
              [] OTHER -> t
      [] used <= Limit /\ e.what = "panic" -> [t EXCEPT !.error = OutOfGas]
      [] OTHER -> t

ModeAfter(mode, hook) ==
    CASE hook = "AccountValidationEntered" -> "UserTxValidation"
      [] hook = "PaymasterValidationEntered" -> "PaymasterTxValidation"
      [] hook = "ValidationExited" -> "NoValidation"
      [] OTHER -> mode

\* before_execution() and finish_cycle(); the first error stays.
ValidatorStep(l, e) ==
    LET user == l.mode = "UserTxValidation"
        used == IF user THEN l.used + 1 ELSE l.used
        checked == IF user THEN check_user_restrictions_vm_latest(l.tracer, used, e) ELSE l.tracer
        ended == e.what = "hook" /\ e.address = "ValidationStepEnded"
    IN  [mode |-> IF e.what = "hook" THEN ModeAfter(l.mode, e.address) ELSE l.mode, used |-> used,
         tracer |-> [checked EXCEPT !.stopped = checked.error # NoError \/ ended]]

-----------------------------------------------------------------------------
(***************************************************************************)
(* The fast VM's tracer: what an instruction reads is checked before it is *)
(* executed, what it calls after.  add is                                  *)
(* add_return_value_to_allowed_slots.                                      *)
(***************************************************************************)
NewFullTracer == [in_validation |-> FALSE, add |-> FALSE, tracer |-> NewTracer]

is_valid_storage_read(t, e) ==
    \/ e.address = USER \/ e.slot = UserKey
    \/ e.address \in t.trusted
    \/ <<e.address, e.slot>> \in TrustedSlots
    \/ valid_eth_token_call(e.address, e.caller)
    \/ touches_allowed_context(e.address, e.slot)
    \/ is_constant_code_hash(e.address, e.slot)
    \/ NearAllowed(t.slots, e.slot)
    \/ e.caller = TIMESTAMP_ASSERTER

before_instruction(t, e) ==
    CASE e.what = "panic" -> [t EXCEPT !.error = OutOfGas]
      [] e.what = "meta" -> [t EXCEPT !.error = Violated("TouchedDisallowedContext", "none", 0)]
      [] e.what = "read" ->
            CASE <<e.address, e.slot>> \in TrustedAddressSlots -> [t EXCEPT !.trusted = @ \union {target}]
              [] <<e.address, e.slot>> \notin TrustedAddressSlots /\ ~ is_valid_storage_read(t, e) ->
                    [t EXCEPT !.error = Violated("TouchedDisallowedStorageSlots", e.address, e.slot)]
              [] OTHER -> t
      [] OTHER -> t

FastCalled(t, e) ==
    CASE e.address \notin {KECCAK256_PRECOMPILE_ADDRESS, USER} /\ ~ has_code(e.address) ->
            [t EXCEPT !.error = Violated("CalledContractWithNoCode", e.address, 0)]
      [] has_code(e.address) /\ IsAssertion(e) -> Asserted(t, e)
      [] OTHER -> t

\* Any hash that is returned is allowed.
AddsReturnValue_Any(f, e) ==
    e.address = KECCAK256_PRECOMPILE_ADDRESS /\ e.data # <<>>

\* A call of keccak256 whose answer will be an allowed slot.
AddsReturnValue(f, e) ==
    /\ e.address = KECCAK256_PRECOMPILE_ADDRESS /\ e.data # <<>>
    /\ HashIsAllowed(f.tracer.slots, e.data)

ReturnSeen(f, e) ==
    [f EXCEPT !.tracer.slots = IF f.add /\ e.what = "return" THEN @ \union {e.slot} ELSE @, !.add = FALSE]

after_instruction(f, e) ==
    CASE f.tracer.error # NoError -> [f EXCEPT !.tracer.stopped = TRUE]
      [] f.tracer.error = NoError /\ e.what = "call" ->
            LET called == FastCalled(f.tracer, e)
            IN  [f EXCEPT !.add = @ \/ AddsReturnValue(f, e),
                          !.tracer = [called EXCEPT !.stopped = called.error # NoError]]
      [] f.tracer.error = NoError /\ e.what \in {"return", "revert"} -> ReturnSeen(f, e)
      [] OTHER -> f

\* The hooks are handled by run(), after the instruction.
HookSeen(f, e) ==
    IF e.what # "hook" THEN f
    ELSE [f EXCEPT !.in_validation = CASE e.address = "AccountValidationEntered" -> TRUE
                                       [] e.address = "ValidationExited" -> FALSE
                                       [] OTHER -> @,
                   !.tracer.stopped = @ \/ e.address = "ValidationStepEnded"]

FullTracerStep(f, e) ==
    IF f.in_validation
    THEN HookSeen(after_instruction([f EXCEPT !.tracer = before_instruction(f.tracer, e)], e), e)
    ELSE HookSeen(f, e)

-----------------------------------------------------------------------------
(***************************************************************************)
(* The program.                                                            *)
(***************************************************************************)
ValidationInit ==
    /\ phase = "idle" /\ hashing = <<>>
    /\ \E gas \in {Limit - 1, Limit} : left = gas /\ hidden = (gas = Limit)
    /\ deployed = {} /\ target = "old"
    /\ full = NewFullTracer /\ validator = NewValidator
    /\ asserted = {} /\ unanswered = FALSE

Validating == ~ full.tracer.stopped /\ ~ validator.tracer.stopped

\* An instruction for which there is no gas is a panic; the reference VM still has the hidden gas.
Watched(e) ==
    /\ full' = FullTracerStep(full, IF phase = "user" /\ left = 0 THEN Panic ELSE e)
    /\ validator' = ValidatorStep(validator, IF phase = "user" /\ left = 0 /\ ~ hidden THEN Panic ELSE e)
    /\ left' = IF phase = "user" /\ left > 0 THEN left - 1 ELSE left

BootloaderHook ==
    /\ Validating /\ hashing = <<>>
    /\ \E h \in [name : {"AccountValidationEntered", "PaymasterValidationEntered", "ValidationExited", "ValidationStepEnded"},
                 to : {"user", "paymaster", "idle", "over"}] :
          /\ CASE phase = "idle" -> <<h.name, h.to>> \in {<<"AccountValidationEntered", "user">>,
                                        <<"PaymasterValidationEntered", "paymaster">>, <<"ValidationStepEnded", "over">>}
               [] phase \in {"user", "paymaster"} -> <<h.name, h.to>> = <<"ValidationExited", "idle">>
               [] phase = "over" -> FALSE
          /\ Watched(HookEvent(h.name))
          /\ phase' = h.to
    /\ UNCHANGED <<hashing, hidden, deployed, target, asserted, unanswered>>

Read ==
    /\ Validating /\ hashing = <<>> /\ phase # "over"
    /\ \E r \in Reads : Watched([Event("read") EXCEPT !.address = r.address, !.caller = r.caller, !.slot = r.slot])
    /\ UNCHANGED <<phase, hashing, hidden, deployed, target, asserted, unanswered>>

Call ==
    /\ Validating /\ hashing = <<>> /\ phase # "over"
    /\ \E a \in Calls : Watched([Event("call") EXCEPT !.address = a])
    /\ UNCHANGED <<phase, hashing, hidden, deployed, target, asserted, unanswered>>

AssertTimestamp ==
    /\ Validating /\ hashing = <<>> /\ phase # "over"
    /\ \E r \in Ranges :
          /\ Watched([Event("call") EXCEPT !.address = TIMESTAMP_ASSERTER, !.data = r])
          /\ asserted' = IF phase = "user" /\ left > 0 /\ Capped(r[2]) >= Deadline THEN asserted \union {r} ELSE asserted
    /\ UNCHANGED <<phase, hashing, hidden, deployed, target, unanswered>>

Hash ==
    /\ Validating /\ hashing = <<>> /\ phase = "user"
    /\ \E data \in DOMAIN Keccak :
          /\ Watched([Event("call") EXCEPT !.address = KECCAK256_PRECOMPILE_ADDRESS, !.data = data])
          /\ hashing' = data
    /\ UNCHANGED <<phase, hidden, deployed, target, asserted, unanswered>>

\* keccak256 returns, or fails for a gas limit of the caller's.
HashReturns ==
    /\ Validating /\ hashing # <<>>
    /\ \E how \in {"return", "revert"} :
          /\ Watched([Event(how) EXCEPT !.slot = Keccak[hashing]])
          /\ unanswered' = (unanswered \/ how = "revert")
    /\ hashing' = <<>>
    /\ UNCHANGED <<phase, hidden, deployed, target, asserted>>

\* Other instructions: a return, a look at the context, a panic of a frame that ran out of its gas.
Other ==
    /\ Validating /\ hashing = <<>> /\ phase # "over"
    /\ \E what \in {"return", "meta", "panic"} : Watched(Event(what))
    /\ UNCHANGED <<phase, hashing, hidden, deployed, target, asserted, unanswered>>

\* The batch changes what the tracers look up: a contract is deployed or its deployment is rolled
\* back, a trusted slot is written.
Change ==
    /\ Validating /\ hashing = <<>> /\ phase # "over"
    /\ Watched(Event("write"))
    /\ \/ deployed' \in SUBSET (Calls \ WithCode) /\ UNCHANGED target
       \/ target' \in TrustedTargets /\ UNCHANGED deployed
    /\ UNCHANGED <<phase, hashing, hidden, asserted, unanswered>>

ValidationNext == BootloaderHook \/ Read \/ Call \/ AssertTimestamp \/ Hash \/ HashReturns \/ Other \/ Change

ValidationSpec == ValidationInit /\ [][ValidationNext]_validation_vars

-----------------------------------------------------------------------------
(***************************************************************************)
(* Properties.                                                             *)
(***************************************************************************)
\* The two tracers are one set of rules: as long as every hash was returned they stop the program at
\* the same instruction for the same violated rule, have allowed the same slots and addresses and
\* noted the same range of timestamps, whatever the batch makes of the storage they look up, whichever
\* order they check in and though one allows a slot when it is hashed and the other when it is returned.
RulesAgree ==
    ~ unanswered =>
        /\ [full.tracer EXCEPT !.slots = {}] = [validator.tracer EXCEPT !.slots = {}]
        /\ Validating /\ hashing = <<>> => full.tracer.slots = validator.tracer.slots

\* A hash that is not returned makes the fast VM's tracer stricter, never laxer.
FastIsStricter ==
    /\ full.tracer.slots \subseteq validator.tracer.slots
    /\ validator.tracer.error # NoError => full.tracer.error # NoError

\* A slot is allowed for the user only by a chain of hashes that starts at the user's address.
SlotsAreDerived ==
    \A slots \in {full.tracer.slots, validator.tracer.slots} : \A s \in slots :
        \E d \in DOMAIN Keccak : Keccak[d] = s /\ (d[1] = UserKey \/ d[2] \in slots)

\* The range of timestamps reported is the intersection of the ranges that were asserted, and ends
\* late enough ("the narrowest possible time window").
RangeIsIntersection ==
    \A t \in {full.tracer, validator.tracer} :
        IF asserted = {} THEN t.range = <<>>
        ELSE t.range = <<Max({Capped(r[1]) : r \in asserted}), Min({Capped(r[2]) : r \in asserted})>>

\* The rules of account validation hold in both VMs: the tracers agree, where they may not the fast
\* one is stricter, and neither allows a slot that is not the user's (FullValidationTracer,
\* ValidationTracer).
ValidationIsRight ==
    /\ RulesAgree
    /\ FastIsStricter
    /\ SlotsAreDerived
=============================================================================
