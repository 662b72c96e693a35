------------------------ MODULE AccountValidationProofs ------------------------
(***************************************************************************)
(* The validation tracers of the two VMs, for every program, limit of gas,  *)
(* table of hashes and set of trusted slots.                                *)
(***************************************************************************)
EXTENDS AccountValidation, TLAPS

Rules ==
    {"none", "TookTooManyComputationalGas", "CalledContractWithNoCode", "TouchedDisallowedContext",
     "TouchedDisallowedStorageSlots", "TimestampAssertionCloseToRangeEnd"}

Whats == {"panic", "hook", "read", "call", "return", "revert", "meta", "write"}

Hooks == {"AccountValidationEntered", "PaymasterValidationEntered", "ValidationExited", "ValidationStepEnded"}

Addresses ==
    {"none", "old", "new", USER, KECCAK256_PRECOMPILE_ADDRESS, TIMESTAMP_ASSERTER} \union Hooks \union Calls
        \union {r.address : r \in Reads} \union {r.caller : r \in Reads}

Errors == [rule : Rules, address : Addresses, slot : Int]

\* Two numbers, or none.
Data == {<<>>} \union (Int \X Int)

Tracers ==
    [slots : SUBSET Int, trusted : SUBSET Addresses, error : Errors, range : Data,
     stopped : BOOLEAN]

Validators == [mode : {"NoValidation", "UserTxValidation", "PaymasterTxValidation"}, used : Int, tracer : Tracers]

FullTracers == [in_validation : BOOLEAN, add : BOOLEAN, tracer : Tracers]

Events == [what : Whats, address : Addresses, caller : Addresses, slot : Int, data : Data]

LEMMA AddressesAreThere ==
    /\ {"none", "old", "new", USER, KECCAK256_PRECOMPILE_ADDRESS, TIMESTAMP_ASSERTER} \subseteq Addresses
    /\ Hooks \subseteq Addresses /\ Calls \subseteq Addresses
    /\ \A r \in Reads : r.address \in Addresses /\ r.caller \in Addresses
  BY DEF Addresses

\* The events of the program are these.
LEMMA EventsAreTyped ==
    /\ Panic \in Events
    /\ \A what \in Whats : Event(what) \in Events
    /\ \A name \in Hooks : HookEvent(name) \in Events
    /\ \A r \in Reads : [Event("read") EXCEPT !.address = r.address, !.caller = r.caller, !.slot = r.slot] \in Events
    /\ \A a \in Addresses, d \in Data : [Event("call") EXCEPT !.address = a, !.data = d] \in Events
    /\ \A a \in Addresses : [Event("call") EXCEPT !.address = a] \in Events
    /\ \A what \in Whats, s \in Int : [Event(what) EXCEPT !.slot = s] \in Events
<1>0. <<>> \in Data /\ "none" \in Addresses
  BY AddressesAreThere DEF Data
<1>1. \A what \in Whats : Event(what) \in Events
  BY <1>0 DEF Events, Event
<1>2. Panic \in Events
  BY <1>1 DEF Panic, Whats
<1>3. ASSUME NEW name \in Addresses PROVE HookEvent(name) \in Events
  BY <1>0 DEF Events, Event, HookEvent, Whats
<1>4. ASSUME NEW a \in Addresses, NEW c \in Addresses, NEW s \in Int
      PROVE  [Event("read") EXCEPT !.address = a, !.caller = c, !.slot = s] \in Events
  BY <1>0, Zenon DEF Events, Event, Whats
<1>5. ASSUME NEW a \in Addresses, NEW d \in Data
      PROVE  [Event("call") EXCEPT !.address = a, !.data = d] \in Events
  <2>1. Event("call") \in Events
    BY <1>1 DEF Whats
  <2> QED
    BY <2>1, Zenon DEF Events
<1>6. \A a \in Addresses : [Event("call") EXCEPT !.address = a] \in Events
  BY <1>0 DEF Events, Event, Whats
<1>7. \A what \in Whats, s \in Int : [Event(what) EXCEPT !.slot = s] \in Events
  BY <1>0 DEF Events, Event
<1> QED
  BY <1>1, <1>2, <1>3, <1>4, <1>5, <1>6, <1>7, AddressesAreThere, ValidationAssumption, Zenon

\* Notes of a tracer that is about to check an instruction.
Active(t) == t \in Tracers /\ t.error = NoError /\ ~ t.stopped

LEMMA ErrorsAreTyped ==
    /\ NoError \in Errors /\ OutOfGas \in Errors /\ OutOfGas # NoError
    /\ \A rule \in Rules \ {"none"}, address \in Addresses, slot \in Int :
          Violated(rule, address, slot) \in Errors /\ Violated(rule, address, slot) # NoError
<1> USE AddressesAreThere
<1>1. NoError \in Errors
  BY DEF NoError, Errors, Rules
<1>2. ASSUME NEW rule \in Rules \ {"none"}, NEW address \in Addresses, NEW slot \in Int
      PROVE  Violated(rule, address, slot) \in Errors /\ Violated(rule, address, slot) # NoError
  <2>1. Violated(rule, address, slot).rule = rule /\ NoError.rule = "none"
    BY DEF Violated, NoError
  <2>2. Violated(rule, address, slot) \in Errors
    BY DEF Violated, Errors
  <2> QED
    BY <2>1, <2>2
<1> QED
  BY <1>1, <1>2 DEF OutOfGas, Rules

\* A larger of two numbers and a smaller.
LEMMA MaxMin2 ==
    ASSUME NEW a \in Int, NEW b \in Int
    PROVE  /\ Max({a, b}) \in {a, b} /\ Max({a, b}) >= a /\ Max({a, b}) >= b
           /\ Min({a, b}) \in {a, b} /\ Min({a, b}) <= a /\ Min({a, b}) <= b
<1>1. \E x \in {a, b} : \A y \in {a, b} : x >= y
  OBVIOUS
<1>2. \E x \in {a, b} : \A y \in {a, b} : x <= y
  OBVIOUS
<1> QED
  BY <1>1, <1>2 DEF Max, Min

\* What a call of the timestamp asserter notes.
LEMMA AssertedIsTyped ==
    ASSUME NEW t \in Tracers, NEW e \in Events, e.data # <<>>
    PROVE  Asserted(t, e) \in Tracers
<1> DEFINE r == <<Capped(e.data[1]), Capped(e.data[2])>>
<1>1. e.data \in Int \X Int
  BY DEF Events, Data
<1>2. r \in Int \X Int
  BY <1>1, ValidationAssumption DEF Capped
<1>3. apply_timestamp_asserter_range(t.range, r) \in Int \X Int
  <2>1. CASE t.range = <<>>
    BY <1>2, <2>1 DEF apply_timestamp_asserter_range
  <2>2. CASE t.range \in Int \X Int
    <3>1. apply_timestamp_asserter_range(t.range, r) = <<Max({t.range[1], r[1]}), Min({t.range[2], r[2]})>>
      BY <2>2 DEF apply_timestamp_asserter_range
    <3>2. Max({t.range[1], r[1]}) \in Int /\ Min({t.range[2], r[2]}) \in Int
      BY <1>2, <2>2, MaxMin2, Zenon
    <3> QED
      BY <3>1, <3>2
  <2> QED
    BY <2>1, <2>2 DEF Tracers, Data
<1>4. [t EXCEPT !.error = Violated("TimestampAssertionCloseToRangeEnd", "none", 0)] \in Tracers
  BY ErrorsAreTyped, AddressesAreThere DEF Tracers, Rules
<1>5. [t EXCEPT !.range = apply_timestamp_asserter_range(t.range, r)] \in Tracers
  BY <1>3 DEF Tracers, Data
<1> QED
  BY <1>4, <1>5 DEF Asserted
-----------------------------------------------------------------------------
(***************************************************************************)
(* What one instruction does to each tracer, by its kind.                   *)
(***************************************************************************)
IsHash(e) == e.what = "call" /\ e.address = KECCAK256_PRECOMPILE_ADDRESS /\ e.data # <<>>

\* A tracer that has found an error, and one that goes on.
Failed(t, error) == [t EXCEPT !.error = error, !.stopped = TRUE]

\* The checks of a call that are not about hashes.
Judged(t, e) ==
    CASE e.address \notin {KECCAK256_PRECOMPILE_ADDRESS, USER} /\ ~ has_code(e.address) ->
            Failed(t, Violated("CalledContractWithNoCode", e.address, 0))
      [] has_code(e.address) /\ IsAssertion(e) ->
            [Asserted(t, e) EXCEPT !.stopped = Asserted(t, e).error # NoError]
      [] OTHER -> t

\* Outside of the validation of an account, only the hooks count.
LEMMA ValidatorIdle ==
    ASSUME NEW l \in Validators, Active(l.tracer), NEW e \in Events, l.mode # "UserTxValidation"
    PROVE  ValidatorStep(l, e) =
             [mode |-> IF e.what = "hook" THEN ModeAfter(l.mode, e.address) ELSE l.mode, used |-> l.used,
              tracer |-> [l.tracer EXCEPT !.stopped = e.what = "hook" /\ e.address = "ValidationStepEnded"]]
  BY DEF ValidatorStep, Active

\* Without gas for it, an instruction fails; so does a panic.
LEMMA ValidatorPanics ==
    ASSUME NEW l \in Validators, Active(l.tracer), NEW e \in Events, l.mode = "UserTxValidation",
           l.used + 1 > Limit \/ e.what = "panic"
    PROVE  ValidatorStep(l, e).tracer = Failed(l.tracer, OutOfGas)
<1>1. check_user_restrictions_vm_latest(l.tracer, l.used + 1, e) = [l.tracer EXCEPT !.error = OutOfGas]
  BY ValidationAssumption DEF check_user_restrictions_vm_latest, Validators
<1> QED
  BY <1>1, ErrorsAreTyped, Zenon DEF ValidatorStep, Active, Failed, Tracers

LEMMA ValidatorReads ==
    ASSUME NEW l \in Validators, Active(l.tracer), NEW e \in Events, l.mode = "UserTxValidation",
           l.used + 1 <= Limit, e.what = "read"
    PROVE  ValidatorStep(l, e) =
             [mode |-> l.mode, used |-> l.used + 1,
              tracer |->
                IF ~ is_allowed_storage_read(l.tracer, e)
                THEN Failed(l.tracer, Violated("TouchedDisallowedStorageSlots", e.address, e.slot))
                ELSE IF <<e.address, e.slot>> \in TrustedAddressSlots
                     THEN [l.tracer EXCEPT !.trusted = @ \union {target}]
                     ELSE l.tracer]
<1> DEFINE t == l.tracer
           v == Violated("TouchedDisallowedStorageSlots", e.address, e.slot)
           c == check_user_restrictions_vm_latest(t, l.used + 1, e)
<1>0. t \in Tracers /\ t.error = NoError /\ t.stopped = FALSE /\ v # NoError
  BY ErrorsAreTyped DEF Active, Tracers, Events, Rules
<1>1. ValidatorStep(l, e) = [mode |-> l.mode, used |-> l.used + 1, tracer |-> [c EXCEPT !.stopped = c.error # NoError]]
  BY DEF ValidatorStep
<1>2. ~ (l.used + 1 > Limit)
  BY ValidationAssumption DEF Validators
<1>3. c = IF ~ is_allowed_storage_read(t, e) THEN [t EXCEPT !.error = v]
          ELSE IF <<e.address, e.slot>> \in TrustedAddressSlots
               THEN [t EXCEPT !.trusted = @ \union {target}] ELSE t
  BY <1>2 DEF check_user_restrictions_vm_latest
<1> HIDE DEF c, t, v
<1>4. [c EXCEPT !.stopped = c.error # NoError]
        = IF ~ is_allowed_storage_read(t, e) THEN Failed(t, v)
          ELSE IF <<e.address, e.slot>> \in TrustedAddressSlots
               THEN [t EXCEPT !.trusted = @ \union {target}] ELSE t
  BY <1>0, <1>3, Zenon DEF Failed, Tracers
<1> QED
  BY <1>1, <1>4 DEF t, v

LEMMA ValidatorMeta ==
    ASSUME NEW l \in Validators, Active(l.tracer), NEW e \in Events, l.mode = "UserTxValidation",
           l.used + 1 <= Limit, e.what = "meta"
    PROVE  ValidatorStep(l, e) =
             [mode |-> l.mode, used |-> l.used + 1,
              tracer |-> Failed(l.tracer, Violated("TouchedDisallowedContext", "none", 0))]
<1>1. ~ (l.used + 1 > Limit)
  BY ValidationAssumption DEF Validators
<1>2. check_user_restrictions_vm_latest(l.tracer, l.used + 1, e)
        = [l.tracer EXCEPT !.error = Violated("TouchedDisallowedContext", "none", 0)]
  BY <1>1 DEF check_user_restrictions_vm_latest
<1>3. Violated("TouchedDisallowedContext", "none", 0) # NoError
  BY ErrorsAreTyped, AddressesAreThere DEF Rules
<1> QED
  BY <1>2, <1>3, Zenon DEF ValidatorStep, Active, Failed, Tracers

\* Other instructions are counted, and a hook may end the validation.
LEMMA ValidatorQuiet ==
    ASSUME NEW l \in Validators, Active(l.tracer), NEW e \in Events, l.mode = "UserTxValidation",
           l.used + 1 <= Limit, e.what \in {"return", "revert", "write", "hook"}
    PROVE  ValidatorStep(l, e) =
             [mode |-> IF e.what = "hook" THEN ModeAfter(l.mode, e.address) ELSE l.mode, used |-> l.used + 1,
              tracer |-> [l.tracer EXCEPT !.stopped = e.what = "hook" /\ e.address = "ValidationStepEnded"]]
<1>1. ~ (l.used + 1 > Limit)
  BY ValidationAssumption DEF Validators
<1>2. check_user_restrictions_vm_latest(l.tracer, l.used + 1, e) = l.tracer
  BY <1>1 DEF check_user_restrictions_vm_latest
<1> QED
  BY <1>2 DEF ValidatorStep, Active, Tracers

LEMMA ValidatorCalls ==
    ASSUME NEW l \in Validators, Active(l.tracer), NEW e \in Events, l.mode = "UserTxValidation",
           l.used + 1 <= Limit, e.what = "call"
    PROVE  ValidatorStep(l, e) =
             [mode |-> l.mode, used |-> l.used + 1,
              tracer |-> IF IsHash(e) /\ HashIsAllowed(l.tracer.slots, e.data)
                         THEN [l.tracer EXCEPT !.slots = @ \union {Keccak[e.data]}]
                         ELSE Judged(l.tracer, e)]
<1> DEFINE t == l.tracer
           c == LatestCalled(t, e)
           v == Violated("CalledContractWithNoCode", e.address, 0)
<1>0. t \in Tracers /\ t.error = NoError /\ t.stopped = FALSE /\ v # NoError
  BY ErrorsAreTyped DEF Active, Tracers, Events, Rules
<1>1. ~ (l.used + 1 > Limit)
  BY ValidationAssumption DEF Validators
<1>2. check_user_restrictions_vm_latest(t, l.used + 1, e) = c
  BY <1>1 DEF check_user_restrictions_vm_latest
<1>3. ValidatorStep(l, e) = [mode |-> l.mode, used |-> l.used + 1, tracer |-> [c EXCEPT !.stopped = c.error # NoError]]
  BY <1>2 DEF ValidatorStep
<1>4. [c EXCEPT !.stopped = c.error # NoError]
        = IF IsHash(e) /\ HashIsAllowed(t.slots, e.data) THEN [t EXCEPT !.slots = @ \union {Keccak[e.data]}]
          ELSE Judged(t, e)
  <2>1. CASE IsHash(e)
    <3>1. c = IF HashIsAllowed(t.slots, e.data) THEN [t EXCEPT !.slots = @ \union {Keccak[e.data]}] ELSE t
      BY <2>1, ValidationAssumption
      DEF LatestCalled, has_code, IsHash, IsAssertion, KECCAK256_PRECOMPILE_ADDRESS, TIMESTAMP_ASSERTER
    <3>2. Judged(t, e) = t
      BY <2>1, ValidationAssumption
      DEF Judged, IsHash, IsAssertion, KECCAK256_PRECOMPILE_ADDRESS, TIMESTAMP_ASSERTER
    <3> HIDE DEF c, t
    <3>3. CASE HashIsAllowed(t.slots, e.data)
      <4> DEFINE more == [t EXCEPT !.slots = @ \union {Keccak[e.data]}]
      <4>1. c = more
        BY <3>1, <3>3
      <4>2. [more EXCEPT !.stopped = more.error # NoError] = more
        BY <1>0, Zenon DEF Tracers
      <4> QED
        BY <2>1, <3>3, <4>1, <4>2
    <3>4. CASE ~ HashIsAllowed(t.slots, e.data)
      <4>1. [t EXCEPT !.stopped = t.error # NoError] = t
        BY <1>0 DEF Tracers
      <4> QED
        BY <3>1, <3>2, <3>4, <4>1
    <3> QED
      BY <3>3, <3>4
  <2>2. CASE ~ IsHash(e) /\ e.address \notin {KECCAK256_PRECOMPILE_ADDRESS, USER} /\ ~ has_code(e.address)
    <3>1. c = [t EXCEPT !.error = v]
      BY <2>2 DEF LatestCalled, IsHash
    <3>2. Judged(t, e) = Failed(t, v)
      BY <2>2 DEF Judged
    <3> HIDE DEF c, t, v
    <3>3. [[t EXCEPT !.error = v] EXCEPT !.stopped = [t EXCEPT !.error = v].error # NoError] = Failed(t, v)
      BY <1>0, Zenon DEF Failed, Tracers
    <3> QED
      BY <2>2, <3>1, <3>2, <3>3
  <2>3. CASE ~ IsHash(e) /\ has_code(e.address) /\ IsAssertion(e)
    <3>1. c = Asserted(t, e)
      BY <2>3 DEF LatestCalled, IsHash, IsAssertion, TIMESTAMP_ASSERTER, USER, KECCAK256_PRECOMPILE_ADDRESS
    <3>2. Judged(t, e) = [Asserted(t, e) EXCEPT !.stopped = Asserted(t, e).error # NoError]
      BY <2>3 DEF Judged
    <3> QED
      BY <2>3, <3>1, <3>2
  <2>4. CASE /\ ~ IsHash(e) /\ (e.address \in {KECCAK256_PRECOMPILE_ADDRESS, USER} \/ has_code(e.address))
             /\ ~ (has_code(e.address) /\ IsAssertion(e))
    <3>1. c = t
      BY <2>4, ValidationAssumption DEF LatestCalled, has_code, IsHash, KECCAK256_PRECOMPILE_ADDRESS
    <3>2. Judged(t, e) = t
      BY <2>4 DEF Judged
    <3> HIDE DEF c, t
    <3>3. [t EXCEPT !.stopped = t.error # NoError] = t
      BY <1>0 DEF Tracers
    <3> QED
      BY <2>4, <3>1, <3>2, <3>3
  <2> QED
    BY <2>1, <2>2, <2>3, <2>4
<1> QED
  BY <1>3, <1>4

LEMMA FullIdle ==
    ASSUME NEW f \in FullTracers, NEW e \in Events, ~ f.in_validation
    PROVE  FullTracerStep(f, e) = HookSeen(f, e)
  BY DEF FullTracerStep

LEMMA FullPanics ==
    ASSUME NEW f \in FullTracers, Active(f.tracer), NEW e \in Events, f.in_validation, e.what = "panic"
    PROVE  FullTracerStep(f, e) = [f EXCEPT !.tracer = Failed(f.tracer, OutOfGas)]
<1>1. before_instruction(f.tracer, e) = [f.tracer EXCEPT !.error = OutOfGas]
  BY DEF before_instruction
<1> QED
  BY <1>1, ErrorsAreTyped, Zenon DEF FullTracerStep, after_instruction, HookSeen, Failed, Active, Tracers, FullTracers

LEMMA FullMeta ==
    ASSUME NEW f \in FullTracers, Active(f.tracer), NEW e \in Events, f.in_validation, e.what = "meta"
    PROVE  FullTracerStep(f, e) =
             [f EXCEPT !.tracer = Failed(f.tracer, Violated("TouchedDisallowedContext", "none", 0))]
<1>1. before_instruction(f.tracer, e) = [f.tracer EXCEPT !.error = Violated("TouchedDisallowedContext", "none", 0)]
  BY DEF before_instruction
<1>2. Violated("TouchedDisallowedContext", "none", 0) # NoError
  BY ErrorsAreTyped, AddressesAreThere DEF Rules
<1> QED
  BY <1>1, <1>2, Zenon DEF FullTracerStep, after_instruction, HookSeen, Failed, Active, Tracers, FullTracers

LEMMA FullReads ==
    ASSUME NEW f \in FullTracers, Active(f.tracer), NEW e \in Events, f.in_validation, e.what = "read"
    PROVE  FullTracerStep(f, e) =
             [f EXCEPT !.tracer =
                IF <<e.address, e.slot>> \in TrustedAddressSlots THEN [f.tracer EXCEPT !.trusted = @ \union {target}]
                ELSE IF is_valid_storage_read(f.tracer, e) THEN f.tracer
                ELSE Failed(f.tracer, Violated("TouchedDisallowedStorageSlots", e.address, e.slot))]
<1> DEFINE t == f.tracer
           v == Violated("TouchedDisallowedStorageSlots", e.address, e.slot)
<1>0. t \in Tracers /\ t.error = NoError /\ t.stopped = FALSE /\ v # NoError
  BY ErrorsAreTyped DEF Active, Tracers, Events, Rules
<1>1. CASE <<e.address, e.slot>> \in TrustedAddressSlots
  <2>1. before_instruction(t, e) = [t EXCEPT !.trusted = @ \union {target}]
    BY <1>1 DEF before_instruction
  <2> QED
    BY <1>0, <1>1, <2>1 DEF FullTracerStep, after_instruction, HookSeen, Tracers, FullTracers
<1>2. CASE <<e.address, e.slot>> \notin TrustedAddressSlots /\ is_valid_storage_read(t, e)
  <2>1. before_instruction(t, e) = t
    BY <1>2 DEF before_instruction
  <2> QED
    BY <1>0, <1>2, <2>1 DEF FullTracerStep, after_instruction, HookSeen, Tracers, FullTracers
<1>3. CASE <<e.address, e.slot>> \notin TrustedAddressSlots /\ ~ is_valid_storage_read(t, e)
  <2>1. before_instruction(t, e) = [t EXCEPT !.error = v]
    BY <1>3 DEF before_instruction
  <2> HIDE DEF v
  <2>2. FullTracerStep(f, e) = [f EXCEPT !.tracer = Failed(t, v)]
    BY <1>0, <2>1, Zenon DEF FullTracerStep, after_instruction, HookSeen, Failed, Tracers, FullTracers
  <2> QED
    BY <1>3, <2>2 DEF v
<1> QED
  BY <1>1, <1>2, <1>3

LEMMA FullReturns ==
    ASSUME NEW f \in FullTracers, Active(f.tracer), NEW e \in Events, f.in_validation, e.what \in {"return", "revert"}
    PROVE  FullTracerStep(f, e) =
             [in_validation |-> TRUE, add |-> FALSE,
              tracer |-> IF f.add /\ e.what = "return"
                         THEN [f.tracer EXCEPT !.slots = @ \union {e.slot}] ELSE f.tracer]
<1>1. before_instruction(f.tracer, e) = f.tracer
  BY DEF before_instruction
<1>2. [f EXCEPT !.tracer = f.tracer] = f
  BY DEF FullTracers
<1>3. after_instruction(f, e) = ReturnSeen(f, e)
  BY DEF after_instruction, Active
<1>4. FullTracerStep(f, e) = ReturnSeen(f, e)
  BY <1>1, <1>2, <1>3 DEF FullTracerStep, HookSeen
<1>5. f.tracer \in Tracers /\ f.in_validation = TRUE
  BY DEF FullTracers
<1>6. CASE f.add /\ e.what = "return"
  BY <1>4, <1>5, <1>6, Zenon DEF ReturnSeen, FullTracers, Tracers
<1>7. CASE ~ (f.add /\ e.what = "return")
  <2>1. [f.tracer EXCEPT !.slots = f.tracer.slots] = f.tracer
    BY <1>5 DEF Tracers
  <2>2. ReturnSeen(f, e) = [f EXCEPT !.tracer = [f.tracer EXCEPT !.slots = f.tracer.slots], !.add = FALSE]
    BY <1>7, Zenon DEF ReturnSeen, FullTracers
  <2> QED
    BY <1>4, <1>5, <1>7, <2>1, <2>2, Zenon DEF FullTracers
<1> QED
  BY <1>6, <1>7

LEMMA FullQuiet ==
    ASSUME NEW f \in FullTracers, Active(f.tracer), NEW e \in Events, f.in_validation, e.what \in {"write", "hook"}
    PROVE  FullTracerStep(f, e) = HookSeen(f, e)
<1>1. before_instruction(f.tracer, e) = f.tracer
  BY DEF before_instruction
<1>2. [f EXCEPT !.tracer = f.tracer] = f
  BY DEF FullTracers
<1>3. after_instruction(f, e) = f
  BY DEF after_instruction, Active
<1> QED
  BY <1>1, <1>2, <1>3 DEF FullTracerStep

LEMMA FullCalls ==
    ASSUME NEW f \in FullTracers, Active(f.tracer), NEW e \in Events, f.in_validation, e.what = "call"
    PROVE  FullTracerStep(f, e) =
             [f EXCEPT !.add = @ \/ (IsHash(e) /\ HashIsAllowed(f.tracer.slots, e.data)),
                       !.tracer = Judged(f.tracer, e)]
<1> DEFINE t == f.tracer
           c == FastCalled(t, e)
           v == Violated("CalledContractWithNoCode", e.address, 0)
<1>0. t \in Tracers /\ t.error = NoError /\ t.stopped = FALSE /\ v # NoError
  BY ErrorsAreTyped DEF Active, Tracers, Events, Rules
<1>1. before_instruction(t, e) = t
  BY DEF before_instruction
<1>2. [f EXCEPT !.tracer = t] = f
  BY DEF FullTracers
<1>3. AddsReturnValue(f, e) = (IsHash(e) /\ HashIsAllowed(t.slots, e.data))
  BY Zenon DEF AddsReturnValue, IsHash
<1>4. after_instruction(f, e)
        = [f EXCEPT !.add = @ \/ AddsReturnValue(f, e), !.tracer = [c EXCEPT !.stopped = c.error # NoError]]
  BY <1>0 DEF after_instruction
<1>5. FullTracerStep(f, e)
        = [f EXCEPT !.add = @ \/ AddsReturnValue(f, e), !.tracer = [c EXCEPT !.stopped = c.error # NoError]]
  BY <1>1, <1>2, <1>4 DEF FullTracerStep, HookSeen
<1>6. [c EXCEPT !.stopped = c.error # NoError] = Judged(t, e)
  <2>1. CASE e.address \notin {KECCAK256_PRECOMPILE_ADDRESS, USER} /\ ~ has_code(e.address)
    <3>1. c = [t EXCEPT !.error = v]
      BY <2>1 DEF FastCalled
    <3>2. Judged(t, e) = Failed(t, v)
      BY <2>1 DEF Judged
    <3> HIDE DEF c, t, v
    <3>3. [[t EXCEPT !.error = v] EXCEPT !.stopped = [t EXCEPT !.error = v].error # NoError] = Failed(t, v)
      BY <1>0, Zenon DEF Failed, Tracers
    <3> QED
      BY <3>1, <3>2, <3>3
  <2>2. CASE has_code(e.address) /\ IsAssertion(e)
    <3>1. c = Asserted(t, e)
      BY <2>2 DEF FastCalled
    <3>2. Judged(t, e) = [Asserted(t, e) EXCEPT !.stopped = Asserted(t, e).error # NoError]
      BY <2>2 DEF Judged
    <3> QED
      BY <3>1, <3>2
  <2>3. CASE /\ (e.address \in {KECCAK256_PRECOMPILE_ADDRESS, USER} \/ has_code(e.address))
             /\ ~ (has_code(e.address) /\ IsAssertion(e))
    <3>1. c = t
      BY <2>3 DEF FastCalled
    <3>2. Judged(t, e) = t
      BY <2>3 DEF Judged
    <3> HIDE DEF c, t
    <3>3. [t EXCEPT !.stopped = t.error # NoError] = t
      BY <1>0 DEF Tracers
    <3> QED
      BY <3>1, <3>2, <3>3
  <2> QED
    BY <2>1, <2>2, <2>3
<1> QED
  BY <1>3, <1>5, <1>6, Zenon

\* What the checks of a call may change: the error, with the end of the tracer's work, or the range.
LEMMA JudgedIsTyped ==
    ASSUME NEW t, Active(t), NEW e \in Events
    PROVE  /\ Judged(t, e) \in Tracers
           /\ Judged(t, e).slots = t.slots /\ Judged(t, e).trusted = t.trusted
           /\ Judged(t, e).stopped <=> Judged(t, e).error # NoError
<1> DEFINE v == Violated("CalledContractWithNoCode", e.address, 0)
           a == Asserted(t, e)
<1>0. t \in Tracers /\ t.error = NoError /\ t.stopped = FALSE /\ v # NoError /\ v \in Errors
  BY ErrorsAreTyped DEF Active, Tracers, Events, Rules
<1>1. CASE e.address \notin {KECCAK256_PRECOMPILE_ADDRESS, USER} /\ ~ has_code(e.address)
  <2>1. Judged(t, e) = Failed(t, v)
    BY <1>1 DEF Judged
  <2> HIDE DEF v
  <2> QED
    BY <1>0, <2>1, Zenon DEF Failed, Tracers
<1>2. CASE has_code(e.address) /\ IsAssertion(e)
  <2>1. Judged(t, e) = [a EXCEPT !.stopped = a.error # NoError]
    BY <1>2 DEF Judged
  <2>2. a \in Tracers
    BY <1>0, <1>2, AssertedIsTyped DEF IsAssertion
  <2>3. a.slots = t.slots /\ a.trusted = t.trusted
    BY <1>0 DEF Asserted, Tracers
  <2> HIDE DEF a
  <2> QED
    BY <2>1, <2>2, <2>3, Zenon DEF Tracers
<1>3. CASE /\ (e.address \in {KECCAK256_PRECOMPILE_ADDRESS, USER} \/ has_code(e.address))
           /\ ~ (has_code(e.address) /\ IsAssertion(e))
  <2>1. Judged(t, e) = t
    BY <1>3 DEF Judged
  <2> QED
    BY <1>0, <2>1
<1> QED
  BY <1>1, <1>2, <1>3

\* Two tracers that have noted the same range judge a call alike.
LEMMA JudgedAlike ==
    ASSUME NEW t, NEW u, Active(t), Active(u), t.range = u.range, NEW e \in Events
    PROVE  /\ Judged(t, e).error = Judged(u, e).error
           /\ Judged(t, e).range = Judged(u, e).range
           /\ Judged(t, e).stopped = Judged(u, e).stopped
<1> DEFINE v == Violated("CalledContractWithNoCode", e.address, 0)
<1>0. t \in Tracers /\ t.error = NoError /\ u \in Tracers /\ u.error = NoError /\ t.stopped = u.stopped
  BY DEF Active, Tracers
<1>1. CASE e.address \notin {KECCAK256_PRECOMPILE_ADDRESS, USER} /\ ~ has_code(e.address)
  <2>1. Judged(t, e) = Failed(t, v) /\ Judged(u, e) = Failed(u, v)
    BY <1>1 DEF Judged
  <2> QED
    BY <1>0, <2>1 DEF Failed, Tracers
<1>2. CASE has_code(e.address) /\ IsAssertion(e)
  <2> DEFINE a == Asserted(t, e)
             b == Asserted(u, e)
  <2>1. /\ Judged(t, e) = [a EXCEPT !.stopped = a.error # NoError]
        /\ Judged(u, e) = [b EXCEPT !.stopped = b.error # NoError]
    BY <1>2 DEF Judged
  <2>2. a \in Tracers /\ b \in Tracers
    BY <1>0, <1>2, AssertedIsTyped DEF IsAssertion
  <2>3. a.error = b.error /\ a.range = b.range
    BY <1>0 DEF Asserted, Tracers
  <2> HIDE DEF a, b
  <2> QED
    BY <2>1, <2>2, <2>3 DEF Tracers
<1>3. CASE /\ (e.address \in {KECCAK256_PRECOMPILE_ADDRESS, USER} \/ has_code(e.address))
           /\ ~ (has_code(e.address) /\ IsAssertion(e))
  <2>1. Judged(t, e) = t /\ Judged(u, e) = u
    BY <1>3 DEF Judged
  <2> QED
    BY <1>0, <2>1
<1> QED
  BY <1>1, <1>2, <1>3

-----------------------------------------------------------------------------
(***************************************************************************)
(* The inductive invariant.  While the program runs neither tracer has     *)
(* found an error, both know whether the account is validating, and what   *)
(* one has counted the other has left; a hash whose answer the fast VM's   *)
(* tracer waits for is one that the reference VM's has allowed already.    *)
(***************************************************************************)
TypesOK ==
    /\ phase \in {"idle", "user", "paymaster", "over"} /\ hashing \in {<<>>} \union DOMAIN Keccak
    /\ left \in Nat /\ hidden \in BOOLEAN /\ unanswered \in BOOLEAN /\ target \in Addresses
    /\ full \in FullTracers /\ validator \in Validators

InStep ==
    Validating =>
        /\ full.tracer.error = NoError /\ validator.tracer.error = NoError
        /\ full.in_validation <=> phase = "user"
        /\ validator.mode = "UserTxValidation" <=> phase = "user"
        /\ validator.used + left = IF hidden THEN Limit ELSE Limit - 1
        /\ hashing # <<>> => phase = "user"
        /\ full.add => /\ hashing # <<>> /\ HashIsAllowed(full.tracer.slots, hashing)
                       /\ Keccak[hashing] \in validator.tracer.slots

Derived(slots) == \A s \in slots : \E d \in DOMAIN Keccak : Keccak[d] = s /\ HashIsAllowed(slots, d)

SlotsOK ==
    /\ Derived(full.tracer.slots) /\ Derived(validator.tracer.slots)
    /\ full.tracer.slots \subseteq validator.tracer.slots

Agreement ==
    /\ full.tracer.trusted = validator.tracer.trusted /\ full.tracer.range = validator.tracer.range
    /\ validator.tracer.error # NoError => full.tracer.error # NoError
    /\ ~ unanswered =>
          /\ full.tracer.error = validator.tracer.error /\ full.tracer.stopped = validator.tracer.stopped
          /\ Validating => validator.tracer.slots
                             = full.tracer.slots \union (IF full.add THEN {Keccak[hashing]} ELSE {})

TracersInv == TypesOK /\ InStep /\ SlotsOK /\ Agreement

LEMMA Initially ==
    ValidationInit => TracersInv
<1> SUFFICES ASSUME ValidationInit PROVE TracersInv
  OBVIOUS
<1>1. NewTracer \in Tracers
  BY ErrorsAreTyped DEF NewTracer, Tracers, Data
<1>2. full \in FullTracers /\ validator \in Validators /\ target \in Addresses
  <2>1. NewFullTracer \in FullTracers
    BY <1>1 DEF NewFullTracer, FullTracers
  <2>2. NewValidator \in Validators
    BY <1>1 DEF NewValidator, Validators
  <2> QED
    BY <2>1, <2>2, AddressesAreThere DEF ValidationInit
<1>3. full.tracer = NewTracer /\ validator.tracer = NewTracer /\ full.add = FALSE /\ full.in_validation = FALSE
      /\ validator.mode = "NoValidation" /\ validator.used = 0
  BY DEF ValidationInit, NewFullTracer, NewValidator
<1>0. (left = Limit /\ hidden = TRUE) \/ (left = Limit - 1 /\ hidden = FALSE)
  <2>1. PICK gas \in {Limit - 1, Limit} : left = gas /\ hidden = (gas = Limit)
    BY Zenon DEF ValidationInit
  <2>2. Limit - 1 # Limit
    BY ValidationAssumption
  <2>3. CASE gas = Limit
    BY <2>1, <2>3, Zenon
  <2>4. CASE gas = Limit - 1
    BY <2>1, <2>2, <2>4, Zenon
  <2> QED
    BY <2>3, <2>4, Zenon
<1>4. TypesOK
  <2>1. phase = "idle" /\ hashing = <<>> /\ unanswered = FALSE
    BY DEF ValidationInit
  <2>2. left \in Nat /\ hidden \in BOOLEAN
    <3>1. left \in Nat
      BY <1>0, ValidationAssumption
    <3>2. hidden \in BOOLEAN
      BY <1>0, Zenon
    <3> QED
      BY <3>1, <3>2
  <2>3. /\ phase \in {"idle", "user", "paymaster", "over"} /\ hashing \in {<<>>} \union DOMAIN Keccak
        /\ unanswered \in BOOLEAN
    BY <2>1, Zenon
  <2> QED
    BY <1>2, <2>2, <2>3, Zenon DEF TypesOK
<1>5. InStep
  <2>1. validator.used + left = IF hidden THEN Limit ELSE Limit - 1
    BY <1>0, <1>3, ValidationAssumption
  <2> QED
    BY <1>3, <2>1 DEF InStep, ValidationInit, NewTracer
<1>6. SlotsOK /\ Agreement
  BY <1>3 DEF SlotsOK, Derived, Agreement, NewTracer
<1> QED
  BY <1>4, <1>5, <1>6 DEF TracersInv

\* What is known before an instruction.
LEMMA Before ==
    ASSUME TracersInv, Validating
    PROVE  /\ full \in FullTracers /\ validator \in Validators
           /\ Active(full.tracer) /\ Active(validator.tracer)
           /\ full.in_validation = (phase = "user") /\ (validator.mode = "UserTxValidation" <=> phase = "user")
           /\ left \in Nat /\ (left > 0 => validator.used + 1 <= Limit)
           /\ hashing = <<>> => full.add = FALSE
<1>1. full \in FullTracers /\ validator \in Validators /\ left \in Nat /\ hidden \in BOOLEAN
  BY DEF TracersInv, TypesOK
<1>2. Active(full.tracer) /\ Active(validator.tracer)
  BY <1>1 DEF TracersInv, InStep, Active, Validating, FullTracers, Validators
<1>3. full.in_validation = (phase = "user") /\ (validator.mode = "UserTxValidation" <=> phase = "user")
  BY <1>1 DEF TracersInv, InStep, FullTracers
<1>4. left > 0 => validator.used + 1 <= Limit
  BY <1>1, ValidationAssumption DEF TracersInv, InStep, Validators
<1>5. hashing = <<>> => full.add = FALSE
  BY <1>1 DEF TracersInv, InStep, FullTracers
<1> QED
  BY <1>1, <1>2, <1>3, <1>4, <1>5

\* Neither tracer finds anything.
Same ==
    /\ full' = full /\ validator'.tracer = validator.tracer /\ validator'.mode = validator.mode
    /\ validator'.used + left' = validator.used + left
    /\ validator' \in Validators /\ left' \in Nat

\* Both find the same error.
BothFail ==
    \E error \in Errors \ {NoError} :
        /\ full' = [full EXCEPT !.tracer = Failed(full.tracer, error)]
        /\ validator'.tracer = Failed(validator.tracer, error)
        /\ validator' \in Validators /\ left' \in Nat

\* Without gas, both fail.
LEMMA Starved ==
    ASSUME TracersInv, Validating, phase = "user", left = 0, NEW e \in Events, Watched(e)
    PROVE  BothFail
<1> DEFINE w == IF hidden THEN e ELSE Panic
<1>0. /\ full \in FullTracers /\ validator \in Validators /\ Active(full.tracer) /\ Active(validator.tracer)
      /\ full.in_validation /\ validator.mode = "UserTxValidation" /\ hidden \in BOOLEAN
  BY Before, Zenon DEF TracersInv, TypesOK
<1>1. full' = FullTracerStep(full, Panic) /\ validator' = ValidatorStep(validator, w) /\ left' = left
  BY DEF Watched
<1>2. Panic \in Events /\ Panic.what = "panic" /\ w \in Events
  BY EventsAreTyped, Zenon DEF Panic, Event
<1>3. full' = [full EXCEPT !.tracer = Failed(full.tracer, OutOfGas)]
  BY <1>0, <1>1, <1>2, FullPanics
<1>4. validator.used + 1 > Limit \/ w.what = "panic"
  BY <1>0, <1>2, ValidationAssumption DEF TracersInv, InStep, Validators
<1> HIDE DEF w
<1>5. validator'.tracer = Failed(validator.tracer, OutOfGas)
  BY <1>0, <1>1, <1>2, <1>4, ValidatorPanics
<1>6. validator' \in Validators
  <2>1. Failed(validator.tracer, OutOfGas) \in Tracers
    BY <1>0, ErrorsAreTyped, Zenon DEF Failed, Active, Tracers
  <2>2. validator'.mode \in {"NoValidation", "UserTxValidation", "PaymasterTxValidation"}
        /\ validator'.used \in Int
    BY <1>0, <1>1 DEF ValidatorStep, ModeAfter, Validators
  <2>3. validator' = [mode |-> validator'.mode, used |-> validator'.used, tracer |-> validator'.tracer]
    BY <1>1 DEF ValidatorStep
  <2> QED
    BY <1>5, <2>1, <2>2, <2>3 DEF Validators
<1> QED
  BY <1>1, <1>3, <1>5, <1>6, ErrorsAreTyped DEF BothFail, TracersInv, TypesOK

\* Two fields of a tracer that has failed; the rest is as it was.
LEMMA FailedFields ==
    ASSUME NEW t \in Tracers, NEW error \in Errors
    PROVE  /\ Failed(t, error) \in Tracers /\ Failed(t, error).error = error /\ Failed(t, error).stopped = TRUE
           /\ Failed(t, error).slots = t.slots /\ Failed(t, error).trusted = t.trusted
           /\ Failed(t, error).range = t.range
  BY Zenon DEF Failed, Tracers

LEMMA BothFailKeeps ==
    ASSUME TracersInv, Validating, BothFail, phase' \in {"idle", "user", "paymaster", "over"},
           hashing' \in {<<>>} \union DOMAIN Keccak, UNCHANGED hidden, unanswered' \in BOOLEAN, target' \in Addresses,
           ~ unanswered' => ~ unanswered
    PROVE  TracersInv'
<1>0. full \in FullTracers /\ full.tracer \in Tracers /\ validator.tracer \in Tracers
  BY DEF TracersInv, TypesOK, FullTracers, Validators
<1>1. PICK error \in Errors \ {NoError} :
        /\ full' = [full EXCEPT !.tracer = Failed(full.tracer, error)]
        /\ validator'.tracer = Failed(validator.tracer, error)
        /\ validator' \in Validators /\ left' \in Nat
  BY DEF BothFail
<1>2. full' \in FullTracers /\ full'.tracer = Failed(full.tracer, error)
  BY <1>0, <1>1, FailedFields, Zenon DEF FullTracers
<1>3. /\ full'.tracer.error = error /\ validator'.tracer.error = error
      /\ full'.tracer.stopped = TRUE /\ validator'.tracer.stopped = TRUE
      /\ full'.tracer.slots = full.tracer.slots /\ validator'.tracer.slots = validator.tracer.slots
      /\ full'.tracer.trusted = full.tracer.trusted /\ validator'.tracer.trusted = validator.tracer.trusted
      /\ full'.tracer.range = full.tracer.range /\ validator'.tracer.range = validator.tracer.range
  <2>1. error \in Errors /\ validator'.tracer = Failed(validator.tracer, error)
    BY <1>1
  <2>2. /\ full'.tracer.error = error /\ full'.tracer.stopped = TRUE /\ full'.tracer.slots = full.tracer.slots
        /\ full'.tracer.trusted = full.tracer.trusted /\ full'.tracer.range = full.tracer.range
    BY <1>0, <1>2, <2>1 DEF Failed, Tracers
  <2>3. /\ validator'.tracer.error = error /\ validator'.tracer.stopped = TRUE
        /\ validator'.tracer.slots = validator.tracer.slots
        /\ validator'.tracer.trusted = validator.tracer.trusted /\ validator'.tracer.range = validator.tracer.range
    BY <1>0, <2>1 DEF Failed, Tracers
  <2> QED
    BY <2>2, <2>3
<1>4. ~ Validating'
  BY <1>3 DEF Validating
<1>5. TypesOK'
  BY <1>1, <1>2 DEF TracersInv, TypesOK
<1>6. InStep'
  BY <1>4 DEF InStep
<1>7. SlotsOK'
  BY <1>3 DEF TracersInv, SlotsOK
<1>8. Agreement'
  BY <1>1, <1>3, <1>4, Zenon DEF TracersInv, Agreement
<1> QED
  BY <1>5, <1>6, <1>7, <1>8 DEF TracersInv

LEMMA SameKeeps ==
    ASSUME TracersInv, Validating, Same, UNCHANGED <<phase, hashing, hidden, unanswered>>, target' \in Addresses
    PROVE  TracersInv'
<1>1. TypesOK'
  BY DEF TracersInv, TypesOK, Same
<1>2. Validating'
  BY DEF Validating, Same
<1>3. InStep'
  BY DEF TracersInv, InStep, Same
<1>4. SlotsOK'
  BY DEF TracersInv, SlotsOK, Same
<1>5. Agreement'
  BY <1>2 DEF TracersInv, Agreement, Same
<1> QED
  BY <1>1, <1>3, <1>4, <1>5 DEF TracersInv

\* Outside of the validation of an account nothing but a hook is noticed.
LEMMA IdleIsSame ==
    ASSUME TracersInv, Validating, phase # "user", NEW e \in Events, e.what # "hook", Watched(e)
    PROVE  Same
<1>0. /\ full \in FullTracers /\ validator \in Validators /\ Active(full.tracer) /\ Active(validator.tracer)
      /\ ~ full.in_validation /\ validator.mode # "UserTxValidation" /\ left \in Nat
  BY Before, Zenon
<1>1. full' = FullTracerStep(full, e) /\ validator' = ValidatorStep(validator, e) /\ left' = left
  BY DEF Watched
<1>2. full' = full
  BY <1>0, <1>1, FullIdle, Zenon DEF HookSeen
<1>3. ValidatorStep(validator, e) =
        [mode |-> validator.mode, used |-> validator.used, tracer |-> [validator.tracer EXCEPT !.stopped = FALSE]]
  BY <1>0, ValidatorIdle, Zenon
<1>4. [validator.tracer EXCEPT !.stopped = FALSE] = validator.tracer
  BY <1>0, Zenon DEF Active, Tracers
<1>5. validator' = validator
  BY <1>0, <1>1, <1>3, <1>4 DEF Validators
<1> QED
  BY <1>0, <1>1, <1>2, <1>5 DEF Same

\* With gas left, both tracers see the instruction.
LEMMA Seen ==
    ASSUME TracersInv, Validating, phase = "user", left # 0, NEW e \in Events, Watched(e)
    PROVE  /\ full' = FullTracerStep(full, e) /\ validator' = ValidatorStep(validator, e) /\ left' = left - 1
           /\ left' \in Nat /\ validator.used + 1 <= Limit /\ full.in_validation /\ validator.mode = "UserTxValidation"
           /\ (validator.used + 1) + left' = validator.used + left
<1>0. left \in Nat /\ validator.used \in Int
  BY DEF TracersInv, TypesOK, Validators
<1>1. left > 0
  BY <1>0
<1>2. full' = FullTracerStep(full, e) /\ validator' = ValidatorStep(validator, e) /\ left' = left - 1
  BY <1>1 DEF Watched
<1>3. validator.used + 1 <= Limit /\ full.in_validation /\ validator.mode = "UserTxValidation"
  BY <1>1, Before, Zenon
<1> QED
  BY <1>0, <1>1, <1>2, <1>3

\* Instructions that neither tracer minds.
LEMMA QuietIsSame ==
    ASSUME TracersInv, Validating, phase = "user", left # 0, hashing = <<>>,
           NEW e \in Events, e.what \in {"return", "write"}, Watched(e)
    PROVE  Same
<1>0. /\ full \in FullTracers /\ validator \in Validators /\ Active(full.tracer) /\ Active(validator.tracer)
      /\ full.add = FALSE
  BY Before, Zenon
<1>1. /\ full' = FullTracerStep(full, e) /\ validator' = ValidatorStep(validator, e)
      /\ left' \in Nat /\ validator.used + 1 <= Limit /\ full.in_validation /\ validator.mode = "UserTxValidation"
      /\ (validator.used + 1) + left' = validator.used + left
  BY Seen
<1>2. full' = full
  <2>1. CASE e.what = "write"
    BY <1>0, <1>1, <2>1, FullQuiet, Zenon DEF HookSeen
  <2>2. CASE e.what = "return"
    <3>1. full' = [in_validation |-> TRUE, add |-> FALSE, tracer |-> full.tracer]
      BY <1>0, <1>1, <2>2, FullReturns
    <3> QED
      BY <1>0, <1>1, <3>1 DEF FullTracers
  <2> QED
    BY <2>1, <2>2
<1>3. validator' = [mode |-> validator.mode, used |-> validator.used + 1,
                    tracer |-> [validator.tracer EXCEPT !.stopped = FALSE]]
  BY <1>0, <1>1, ValidatorQuiet, Zenon
<1>4. [validator.tracer EXCEPT !.stopped = FALSE] = validator.tracer
  BY <1>0, Zenon DEF Active, Tracers
<1>5. validator'.tracer = validator.tracer /\ validator'.mode = validator.mode /\ validator'.used = validator.used + 1
  BY <1>3, <1>4
<1>6. validator' \in Validators
  <2>1. validator' = [mode |-> validator.mode, used |-> validator.used + 1, tracer |-> validator.tracer]
    BY <1>3, <1>4, Zenon
  <2> QED
    BY <1>0, <2>1 DEF Validators
<1>7. validator'.used + left' = validator.used + left /\ left' \in Nat
  <2>1. (validator.used + 1) + left' = validator.used + left /\ left' \in Nat
    BY <1>1
  <2>2. validator'.used = validator.used + 1
    BY <1>5
  <2> QED
    BY <2>1, <2>2
<1> QED
  BY <1>2, <1>5, <1>6, <1>7 DEF Same

\* A look at the context and a panic.
LEMMA MetaOrPanicFails ==
    ASSUME TracersInv, Validating, phase = "user", left # 0, NEW e \in Events, e.what \in {"meta", "panic"}, Watched(e)
    PROVE  BothFail
<1>0. full \in FullTracers /\ validator \in Validators /\ Active(full.tracer) /\ Active(validator.tracer)
  BY Before
<1>1. /\ full' = FullTracerStep(full, e) /\ validator' = ValidatorStep(validator, e)
      /\ left' \in Nat /\ validator.used + 1 <= Limit /\ full.in_validation /\ validator.mode = "UserTxValidation"
  BY Seen
<1>2. PICK error \in Errors \ {NoError} :
        /\ full' = [full EXCEPT !.tracer = Failed(full.tracer, error)]
        /\ validator'.tracer = Failed(validator.tracer, error)
  <2>1. CASE e.what = "meta"
    <3> DEFINE v == Violated("TouchedDisallowedContext", "none", 0)
    <3>1. v \in Errors \ {NoError}
      BY ErrorsAreTyped, AddressesAreThere DEF Rules
    <3>2. full' = [full EXCEPT !.tracer = Failed(full.tracer, v)] /\ validator'.tracer = Failed(validator.tracer, v)
      BY <1>0, <1>1, <2>1, FullMeta, ValidatorMeta
    <3> QED
      BY <3>1, <3>2
  <2>2. CASE e.what = "panic"
    <3>1. full' = [full EXCEPT !.tracer = Failed(full.tracer, OutOfGas)]
      BY <1>0, <1>1, <2>2, FullPanics
    <3>2. validator'.tracer = Failed(validator.tracer, OutOfGas)
      BY <1>0, <1>1, <2>2, ValidatorPanics
    <3> QED
      BY <3>1, <3>2, ErrorsAreTyped
  <2> QED
    BY <2>1, <2>2
<1>3. validator' \in Validators
  <2>1. validator'.tracer \in Tracers
    BY <1>0, <1>2, FailedFields, Zenon DEF Active
  <2>2. validator' = [mode |-> validator.mode, used |-> validator.used + 1, tracer |-> validator'.tracer]
    BY <1>1 DEF ValidatorStep
  <2> QED
    BY <1>0, <2>1, <2>2 DEF Validators
<1> QED
  BY <1>1, <1>2, <1>3 DEF BothFail

\* A read: the reference VM's tracer allows whatever the fast one does, and they allow the same when
\* they have allowed the same slots.
LEMMA ReadsAgree ==
    ASSUME TracersInv, Validating, NEW e \in Events, <<e.address, e.slot>> \notin TrustedAddressSlots
    PROVE  /\ is_valid_storage_read(full.tracer, e) => is_allowed_storage_read(validator.tracer, e)
           /\ full.tracer.slots = validator.tracer.slots =>
                (is_valid_storage_read(full.tracer, e) <=> is_allowed_storage_read(validator.tracer, e))
<1>1. /\ full.tracer.trusted = validator.tracer.trusted /\ full.tracer.slots \subseteq validator.tracer.slots
  BY DEF TracersInv, Agreement, SlotsOK
<1>2. NearAllowed(full.tracer.slots, e.slot) => NearAllowed(validator.tracer.slots, e.slot)
  BY <1>1 DEF NearAllowed
<1>3. full.tracer.slots = validator.tracer.slots =>
        (NearAllowed(full.tracer.slots, e.slot) <=> NearAllowed(validator.tracer.slots, e.slot))
  OBVIOUS
<1> QED
  BY <1>1, <1>2, <1>3 DEF is_valid_storage_read, is_allowed_storage_read

\* What an instruction may do to a tracer without touching its slots.
Marked(t, u) ==
    /\ u \in Tracers /\ u.slots = t.slots
    /\ u.stopped <=> u.error # NoError

\* The slots and the phase stay, each tracer may have found an error.
LEMMA MarkedKeeps ==
    ASSUME TracersInv, Validating, hashing = <<>>, phase = "user",
           Marked(full.tracer, full'.tracer), full'.in_validation = full.in_validation, full'.add = FALSE,
           full' \in FullTracers,
           Marked(validator.tracer, validator'.tracer), validator'.mode = validator.mode, validator' \in Validators,
           validator'.used + left' = validator.used + left, left' \in Nat,
           UNCHANGED <<phase, hashing, hidden, unanswered, deployed, target>>,
           full'.tracer.trusted = validator'.tracer.trusted, full'.tracer.range = validator'.tracer.range,
           validator'.tracer.error # NoError => full'.tracer.error # NoError,
           ~ unanswered => full'.tracer.error = validator'.tracer.error
    PROVE  TracersInv'
<1>1. TypesOK'
  BY DEF TracersInv, TypesOK
<1>2. Validating' => full'.tracer.error = NoError /\ validator'.tracer.error = NoError
  BY DEF Validating, Marked
<1>3. InStep'
  BY <1>2 DEF TracersInv, InStep
<1>4. SlotsOK'
  BY DEF TracersInv, SlotsOK, Marked
<1>5. full'.tracer.stopped \in BOOLEAN /\ validator'.tracer.stopped \in BOOLEAN
  BY DEF Marked, Tracers
<1>7. full'.tracer.error = validator'.tracer.error => full'.tracer.stopped = validator'.tracer.stopped
  BY <1>5 DEF Marked
<1>8. ~ unanswered => validator'.tracer.slots = full'.tracer.slots
  BY Before, Zenon DEF TracersInv, Agreement, Marked
<1>9. Agreement'
  BY <1>7, <1>8 DEF Agreement
<1> QED
  BY <1>1, <1>3, <1>4, <1>9 DEF TracersInv

LEMMA ReadKeeps ==
    ASSUME TracersInv, Validating, hashing = <<>>, phase = "user", left # 0,
           NEW e \in Events, e.what = "read", Watched(e),
           UNCHANGED <<phase, hashing, hidden, unanswered, deployed, target>>
    PROVE  TracersInv'
<1> DEFINE v == Violated("TouchedDisallowedStorageSlots", e.address, e.slot)
           f == full.tracer
           l == validator.tracer
           known == <<e.address, e.slot>> \in TrustedAddressSlots
           ff == IF known THEN [f EXCEPT !.trusted = @ \union {target}]
                 ELSE IF is_valid_storage_read(f, e) THEN f ELSE Failed(f, v)
           ll == IF ~ is_allowed_storage_read(l, e) THEN Failed(l, v)
                 ELSE IF known THEN [l EXCEPT !.trusted = @ \union {target}] ELSE l
<1>0. /\ full \in FullTracers /\ validator \in Validators /\ Active(f) /\ Active(l)
      /\ full.add = FALSE
  BY Before, Zenon
<1>1. /\ full' = FullTracerStep(full, e) /\ validator' = ValidatorStep(validator, e)
      /\ left' \in Nat /\ validator.used + 1 <= Limit /\ full.in_validation /\ validator.mode = "UserTxValidation"
      /\ (validator.used + 1) + left' = validator.used + left
  BY Seen
<1>2. full' = [full EXCEPT !.tracer = ff]
  BY <1>0, <1>1, FullReads
<1>3. validator' = [mode |-> validator.mode, used |-> validator.used + 1, tracer |-> ll]
  BY <1>0, <1>1, ValidatorReads
<1>4. v \in Errors /\ v # NoError /\ target \in Addresses
  BY ErrorsAreTyped, AddressesAreThere DEF Events, Rules, TracersInv, TypesOK
<1>5. f \in Tracers /\ l \in Tracers /\ f.error = NoError /\ l.error = NoError /\ f.stopped = FALSE /\ l.stopped = FALSE
  BY <1>0 DEF Active, Tracers
<1>6. known => is_allowed_storage_read(l, e)
  BY DEF is_allowed_storage_read
<1>7. f.trusted = l.trusted /\ f.range = l.range
  BY DEF TracersInv, Agreement
<1>8. ~ known =>
        /\ is_valid_storage_read(f, e) => is_allowed_storage_read(l, e)
        /\ ~ unanswered => (is_valid_storage_read(f, e) <=> is_allowed_storage_read(l, e))
  <2>1. ~ unanswered => f.slots = l.slots
    BY <1>0, Zenon DEF TracersInv, Agreement
  <2> QED
    BY <2>1, ReadsAgree
<1> HIDE DEF v, known, f, l
<1>9. Marked(f, ff) /\ Marked(l, ll)
  <2>1. Marked(f, ff)
    BY <1>4, <1>5, Zenon DEF Marked, Failed, Tracers
  <2>2. Marked(l, ll)
    BY <1>4, <1>5, Zenon DEF Marked, Failed, Tracers
  <2> QED
    BY <2>1, <2>2
<1>10. /\ ff.trusted = ll.trusted /\ ff.range = ll.range
       /\ ll.error # NoError => ff.error # NoError
       /\ ~ unanswered => ff.error = ll.error
  <2>1. CASE known
    <3>1. /\ ff = [f EXCEPT !.trusted = f.trusted \union {target}]
          /\ ll = [l EXCEPT !.trusted = l.trusted \union {target}]
      BY <1>6, <2>1
    <3> HIDE DEF ff, ll
    <3>2. ff.trusted = f.trusted \union {target} /\ ff.range = f.range /\ ff.error = f.error
      BY <1>5, <3>1 DEF Tracers
    <3>3. ll.trusted = l.trusted \union {target} /\ ll.range = l.range /\ ll.error = l.error
      BY <1>5, <3>1 DEF Tracers
    <3> QED
      BY <1>5, <1>7, <3>2, <3>3
  <2>2. CASE ~ known /\ is_valid_storage_read(f, e)
    BY <1>5, <1>7, <1>8, <2>2 DEF Failed, Tracers
  <2>3. CASE ~ known /\ ~ is_valid_storage_read(f, e)
    BY <1>4, <1>5, <1>7, <1>8, <2>3 DEF Failed, Tracers
  <2> QED
    BY <2>1, <2>2, <2>3
<1> HIDE DEF ff, ll
<1>11. /\ full' \in FullTracers /\ full'.tracer = ff /\ full'.add = FALSE
       /\ full'.in_validation = full.in_validation
  BY <1>0, <1>2, <1>9 DEF FullTracers, Marked
<1>12. /\ validator' \in Validators /\ validator'.tracer = ll /\ validator'.mode = validator.mode
       /\ validator'.used = validator.used + 1
  BY <1>0, <1>3, <1>9 DEF Validators, Marked
<1>13. validator'.used + left' = validator.used + left /\ left' \in Nat
  <2>1. (validator.used + 1) + left' = validator.used + left /\ left' \in Nat
    BY <1>1
  <2> QED
    BY <1>12, <2>1
<1> QED
  BY <1>9, <1>10, <1>11, <1>12, <1>13, MarkedKeeps, Zenon DEF f, l

\* A call that is not of keccak256.
LEMMA CallKeeps ==
    ASSUME TracersInv, Validating, hashing = <<>>, phase = "user", left # 0,
           NEW e \in Events, e.what = "call", ~ IsHash(e), Watched(e),
           UNCHANGED <<phase, hashing, hidden, unanswered, deployed, target>>
    PROVE  TracersInv'
<1> DEFINE f == full.tracer
           l == validator.tracer
           ff == Judged(f, e)
           ll == Judged(l, e)
<1>0. /\ full \in FullTracers /\ validator \in Validators /\ Active(f) /\ Active(l)
      /\ full.add = FALSE
  BY Before, Zenon
<1>1. /\ full' = FullTracerStep(full, e) /\ validator' = ValidatorStep(validator, e)
      /\ left' \in Nat /\ validator.used + 1 <= Limit /\ full.in_validation /\ validator.mode = "UserTxValidation"
      /\ (validator.used + 1) + left' = validator.used + left
  BY Seen
<1>2. full' = [full EXCEPT !.add = FALSE, !.tracer = ff]
  <2>1. full' = [full EXCEPT !.add = full.add \/ (IsHash(e) /\ HashIsAllowed(f.slots, e.data)), !.tracer = ff]
    BY <1>0, <1>1, FullCalls, Zenon
  <2>2. (full.add \/ (IsHash(e) /\ HashIsAllowed(f.slots, e.data))) = FALSE
    BY <1>0
  <2> QED
    BY <2>1, <2>2, Zenon
<1>3. validator' = [mode |-> validator.mode, used |-> validator.used + 1, tracer |-> ll]
  BY <1>0, <1>1, ValidatorCalls
<1>4. f.trusted = l.trusted /\ f.range = l.range
  BY DEF TracersInv, Agreement
<1>5. Marked(f, ff) /\ Marked(l, ll) /\ ff.trusted = f.trusted /\ ll.trusted = l.trusted
  BY <1>0, JudgedIsTyped DEF Marked
<1>6. ff.error = ll.error /\ ff.range = ll.range
  <2> HIDE DEF f, l
  <2> QED
    BY <1>0, <1>4, JudgedAlike
<1> HIDE DEF ff, ll
<1>7. /\ full' \in FullTracers /\ full'.tracer = ff /\ full'.add = FALSE
      /\ full'.in_validation = full.in_validation
  BY <1>0, <1>2, <1>5, Zenon DEF FullTracers, Marked
<1>8. /\ validator' \in Validators /\ validator'.tracer = ll /\ validator'.mode = validator.mode
      /\ validator'.used = validator.used + 1
  BY <1>0, <1>3, <1>5 DEF Validators, Marked
<1>9. validator'.used + left' = validator.used + left /\ left' \in Nat
  <2>1. (validator.used + 1) + left' = validator.used + left /\ left' \in Nat
    BY <1>1
  <2> QED
    BY <1>8, <2>1
<1> QED
  BY <1>4, <1>5, <1>6, <1>7, <1>8, <1>9, MarkedKeeps, Zenon

\* A slot more, of an allowed hash, is derived as well.
LEMMA DerivedGrows ==
    ASSUME NEW slots, Derived(slots), NEW data \in DOMAIN Keccak, HashIsAllowed(slots, data)
    PROVE  Derived(slots \union {Keccak[data]})
  BY DEF Derived, HashIsAllowed

LEMMA HashKeeps ==
    ASSUME TracersInv, Validating, hashing = <<>>, phase = "user", left # 0,
           NEW e \in Events, IsHash(e), e.data \in DOMAIN Keccak, Watched(e), hashing' = e.data,
           UNCHANGED <<phase, hidden, unanswered, deployed, target>>
    PROVE  TracersInv'
<1> DEFINE f == full.tracer
           l == validator.tracer
           ll == IF HashIsAllowed(l.slots, e.data) THEN [l EXCEPT !.slots = @ \union {Keccak[e.data]}] ELSE l
<1>0. /\ full \in FullTracers /\ validator \in Validators /\ Active(f) /\ Active(l)
      /\ full.add = FALSE
  BY Before, Zenon
<1>1. /\ full' = FullTracerStep(full, e) /\ validator' = ValidatorStep(validator, e)
      /\ left' \in Nat /\ validator.used + 1 <= Limit /\ full.in_validation /\ validator.mode = "UserTxValidation"
      /\ (validator.used + 1) + left' = validator.used + left
  BY Seen
<1>2. \A t : Judged(t, e) = t
  BY DEF Judged, IsHash, IsAssertion, KECCAK256_PRECOMPILE_ADDRESS, TIMESTAMP_ASSERTER
<1>3. full' = [full EXCEPT !.add = HashIsAllowed(f.slots, e.data), !.tracer = f]
  <2>1. full' = [full EXCEPT !.add = full.add \/ (IsHash(e) /\ HashIsAllowed(f.slots, e.data)),
                             !.tracer = Judged(f, e)]
    BY <1>0, <1>1, FullCalls, Zenon DEF IsHash
  <2>2. (full.add \/ (IsHash(e) /\ HashIsAllowed(f.slots, e.data))) = HashIsAllowed(f.slots, e.data)
    BY <1>0 DEF HashIsAllowed
  <2> QED
    BY <1>2, <2>1, <2>2, Zenon
<1>4. validator' = [mode |-> validator.mode, used |-> validator.used + 1, tracer |-> ll]
  <2>1. validator' = [mode |-> validator.mode, used |-> validator.used + 1,
                      tracer |-> IF IsHash(e) /\ HashIsAllowed(l.slots, e.data)
                                 THEN [l EXCEPT !.slots = @ \union {Keccak[e.data]}] ELSE Judged(l, e)]
    BY <1>0, <1>1, ValidatorCalls DEF IsHash
  <2> QED
    BY <1>2, <2>1, Zenon
<1>5. full' \in FullTracers /\ full'.tracer = f /\ full'.in_validation = full.in_validation
      /\ (full'.add <=> HashIsAllowed(f.slots, e.data))
  <2>1. HashIsAllowed(f.slots, e.data) \in BOOLEAN
    BY DEF HashIsAllowed
  <2> HIDE DEF f
  <2>2. f \in Tracers
    BY <1>0 DEF Active
  <2> QED
    BY <1>0, <1>3, <2>1, <2>2, Zenon DEF FullTracers
<1>6. Keccak[e.data] \in Int
  BY ValidationAssumption
<1>7. l \in Tracers /\ l.error = NoError /\ f.error = NoError /\ f.stopped = FALSE /\ l.stopped = FALSE
  BY <1>0 DEF Active, Tracers
<1> DEFINE more == IF HashIsAllowed(l.slots, e.data) THEN l.slots \union {Keccak[e.data]} ELSE l.slots
<1> HIDE DEF l
<1>8. /\ ll \in Tracers /\ ll.error = l.error /\ ll.stopped = l.stopped /\ ll.trusted = l.trusted /\ ll.range = l.range
      /\ ll.slots = more
  <2>1. CASE HashIsAllowed(l.slots, e.data)
    BY <1>6, <1>7, <2>1 DEF Tracers
  <2>2. CASE ~ HashIsAllowed(l.slots, e.data)
    BY <1>7, <2>2
  <2> QED
    BY <2>1, <2>2
<1> HIDE DEF ll
<1>9. /\ validator' \in Validators /\ validator'.tracer = ll /\ validator'.mode = validator.mode
      /\ validator'.used = validator.used + 1
  BY <1>0, <1>4, <1>8 DEF Validators
<1>10. validator'.used + left' = validator.used + left /\ left' \in Nat
  <2>1. (validator.used + 1) + left' = validator.used + left /\ left' \in Nat
    BY <1>1
  <2> QED
    BY <1>9, <2>1
<1>11. f.slots \subseteq l.slots /\ Derived(f.slots) /\ Derived(l.slots)
  BY DEF TracersInv, SlotsOK, l
<1>12. f.slots \subseteq more /\ Derived(more)
  BY <1>11, DerivedGrows
<1>13. HashIsAllowed(f.slots, e.data) => HashIsAllowed(l.slots, e.data)
  BY <1>11 DEF HashIsAllowed
<1>14. e.data # <<>>
  BY DEF IsHash
<1>15. TypesOK'
  BY <1>5, <1>9, <1>10, SMTT(30) DEF TracersInv, TypesOK
<1>16. InStep'
  <2>1. full'.add => HashIsAllowed(full'.tracer.slots, e.data) /\ Keccak[e.data] \in validator'.tracer.slots
    BY <1>5, <1>8, <1>9, <1>13
  <2>2. full'.tracer.error = NoError /\ validator'.tracer.error = NoError
    BY <1>5, <1>7, <1>8, <1>9
  <2> QED
    BY <1>1, <1>5, <1>9, <1>10, <1>14, <2>1, <2>2, SMTT(30) DEF TracersInv, InStep
<1>17. SlotsOK'
  BY <1>5, <1>8, <1>9, <1>11, <1>12 DEF SlotsOK
<1>18. Agreement'
  <2>1. ~ unanswered => f.slots = l.slots
    BY <1>0, Zenon DEF TracersInv, Agreement, l
  <2>2. ~ unanswered =>
          validator'.tracer.slots = full'.tracer.slots \union (IF full'.add THEN {Keccak[hashing']} ELSE {})
    BY <1>5, <1>8, <1>9, <2>1
  <2>3. f.trusted = l.trusted /\ f.range = l.range
    BY DEF TracersInv, Agreement, l
  <2>4. /\ full'.tracer.error = validator'.tracer.error /\ full'.tracer.stopped = validator'.tracer.stopped
        /\ validator'.tracer.error = NoError
    BY <1>5, <1>7, <1>8, <1>9, Zenon
  <2> QED
    BY <1>5, <1>8, <1>9, <2>2, <2>3, <2>4, SMTT(30) DEF Agreement
<1> QED
  BY <1>15, <1>16, <1>17, <1>18 DEF TracersInv

LEMMA HashReturnsKeeps ==
    ASSUME TracersInv, Validating, hashing # <<>>, phase = "user", left # 0,
           NEW e \in Events, e.what \in {"return", "revert"}, e.slot = Keccak[hashing], Watched(e),
           hashing' = <<>>, unanswered' \in BOOLEAN, unanswered' <=> (unanswered \/ e.what = "revert"),
           UNCHANGED <<phase, hidden, deployed, target>>
    PROVE  TracersInv'
<1> DEFINE f == full.tracer
           l == validator.tracer
           added == full.add /\ e.what = "return"
           ff == IF added THEN [f EXCEPT !.slots = @ \union {e.slot}] ELSE f
<1>0. full \in FullTracers /\ validator \in Validators /\ Active(f) /\ Active(l)
  BY Before
<1>1. /\ full' = FullTracerStep(full, e) /\ validator' = ValidatorStep(validator, e)
      /\ left' \in Nat /\ validator.used + 1 <= Limit /\ full.in_validation /\ validator.mode = "UserTxValidation"
      /\ (validator.used + 1) + left' = validator.used + left
  BY Seen
<1>2. full' = [in_validation |-> TRUE, add |-> FALSE, tracer |-> ff]
  BY <1>0, <1>1, FullReturns
<1>3. validator' = [mode |-> validator.mode, used |-> validator.used + 1, tracer |-> l]
  <2>1. validator' = [mode |-> validator.mode, used |-> validator.used + 1, tracer |-> [l EXCEPT !.stopped = FALSE]]
    BY <1>0, <1>1, ValidatorQuiet, Zenon
  <2>2. [l EXCEPT !.stopped = FALSE] = l
    BY <1>0, Zenon DEF Active, Tracers
  <2> QED
    BY <2>1, <2>2, Zenon
<1>4. hashing \in DOMAIN Keccak /\ e.slot \in Int
  BY ValidationAssumption DEF TracersInv, TypesOK
<1>5. /\ f \in Tracers /\ l \in Tracers /\ f.error = NoError /\ l.error = NoError
      /\ f.stopped = FALSE /\ l.stopped = FALSE
  BY <1>0 DEF Active, Tracers
<1>6. /\ f.slots \subseteq l.slots /\ Derived(f.slots) /\ Derived(l.slots)
      /\ full.add => HashIsAllowed(f.slots, hashing) /\ e.slot \in l.slots
  BY DEF TracersInv, SlotsOK, InStep
<1>7. /\ f.trusted = l.trusted /\ f.range = l.range
      /\ ~ unanswered => l.slots = f.slots \union (IF full.add THEN {e.slot} ELSE {})
  BY DEF TracersInv, Agreement
<1> DEFINE more == IF added THEN f.slots \union {e.slot} ELSE f.slots
<1> HIDE DEF f, l
<1>8. /\ ff \in Tracers /\ ff.error = NoError /\ ff.stopped = FALSE /\ ff.trusted = f.trusted /\ ff.range = f.range
      /\ ff.slots = more
  <2>1. CASE added
    BY <1>4, <1>5, <2>1 DEF Tracers
  <2>2. CASE ~ added
    BY <1>5, <2>2
  <2> QED
    BY <2>1, <2>2, Zenon
<1> HIDE DEF ff
<1>9. full' \in FullTracers /\ full'.tracer = ff /\ full'.in_validation = TRUE /\ full'.add = FALSE
  BY <1>2, <1>8 DEF FullTracers
<1>10. /\ validator' \in Validators /\ validator'.tracer = l /\ validator'.mode = validator.mode
       /\ validator'.used = validator.used + 1
  BY <1>0, <1>3, <1>5 DEF Validators
<1>11. validator'.used + left' = validator.used + left /\ left' \in Nat
  <2>1. (validator.used + 1) + left' = validator.used + left /\ left' \in Nat
    BY <1>1
  <2> QED
    BY <1>10, <2>1
<1>12. more \subseteq l.slots /\ Derived(more)
  BY <1>4, <1>6, DerivedGrows
<1>13. TypesOK'
  BY <1>9, <1>10, <1>11, SMTT(30) DEF TracersInv, TypesOK
<1>14. InStep'
  BY <1>1, <1>5, <1>8, <1>9, <1>10, <1>11, SMTT(30) DEF TracersInv, InStep
<1>15. SlotsOK'
  BY <1>6, <1>8, <1>9, <1>10, <1>12 DEF SlotsOK
<1>16. Agreement'
  <2>2. ~ unanswered' => validator'.tracer.slots = full'.tracer.slots
    BY <1>7, <1>8, <1>9, <1>10, Zenon
  <2>3. /\ full'.tracer.error = validator'.tracer.error /\ full'.tracer.stopped = validator'.tracer.stopped
        /\ validator'.tracer.error = NoError
    BY <1>5, <1>8, <1>9, <1>10, Zenon
  <2> QED
    BY <1>7, <1>8, <1>9, <1>10, <2>2, <2>3, Zenon DEF Agreement
<1> QED
  BY <1>13, <1>14, <1>15, <1>16 DEF TracersInv

\* A hook: the tracers go in and out of the validation together, and stop together.
LEMMA HookKeeps ==
    ASSUME TracersInv, Validating, hashing = <<>>, phase = "user" => left # 0, NEW name \in Hooks, Watched(HookEvent(name)),
           phase' \in {"idle", "user", "paymaster", "over"},
           phase' = "user" <=> name = "AccountValidationEntered",
           phase = "user" => name = "ValidationExited",
           UNCHANGED <<hashing, hidden, unanswered, deployed, target>>
    PROVE  TracersInv'
<1> DEFINE f == full.tracer
           l == validator.tracer
           e == HookEvent(name)
           ended == name = "ValidationStepEnded"
           spent == IF phase = "user" THEN 1 ELSE 0
<1>0. /\ full \in FullTracers /\ validator \in Validators /\ Active(f) /\ Active(l)
      /\ full.add = FALSE /\ full.in_validation = (phase = "user")
      /\ (validator.mode = "UserTxValidation" <=> phase = "user")
  BY Before, Zenon
<1>1. e \in Events /\ e.what = "hook" /\ e.address = name
  BY EventsAreTyped, Zenon DEF HookEvent, Event
<1>2. /\ full' = FullTracerStep(full, e) /\ validator' = ValidatorStep(validator, e)
      /\ left' \in Nat /\ (phase = "user" => validator.used + 1 <= Limit)
      /\ (validator.used + spent) + left' = validator.used + left
  <2>1. CASE phase = "user"
    BY <1>1, <2>1, Seen
  <2>2. CASE phase # "user"
    <3>1. full' = FullTracerStep(full, e) /\ validator' = ValidatorStep(validator, e) /\ left' = left
      BY <2>2 DEF Watched
    <3>2. left \in Nat /\ (validator.used + spent) + left = validator.used + left
      BY <1>0, <2>2 DEF Validators, TracersInv, TypesOK
    <3> QED
      BY <2>2, <3>1, <3>2
  <2> QED
    BY <2>1, <2>2
<1>3. full' = HookSeen(full, e)
  <2>1. CASE phase = "user"
    BY <1>0, <1>1, <1>2, <2>1, FullQuiet, Zenon
  <2>2. CASE phase # "user"
    BY <1>0, <1>1, <1>2, <2>2, FullIdle, Zenon
  <2> QED
    BY <2>1, <2>2
<1>4. validator' = [mode |-> ModeAfter(validator.mode, name), used |-> validator.used + spent,
                    tracer |-> [l EXCEPT !.stopped = ended]]
  <2>1. CASE phase = "user"
    BY <1>0, <1>1, <1>2, <2>1, ValidatorQuiet
  <2>2. CASE phase # "user"
    <3>1. validator' = [mode |-> ModeAfter(validator.mode, name), used |-> validator.used,
                        tracer |-> [l EXCEPT !.stopped = ended]]
      BY <1>0, <1>1, <1>2, <2>2, ValidatorIdle
    <3>2. validator.used + spent = validator.used
      BY <1>0, <2>2 DEF Validators
    <3> QED
      BY <3>1, <3>2
  <2> QED
    BY <2>1, <2>2

<1>5. f \in Tracers /\ l \in Tracers /\ f.error = NoError /\ l.error = NoError /\ f.stopped = FALSE /\ l.stopped = FALSE
  BY <1>0 DEF Active, Tracers
<1>6. full' = [in_validation |-> phase' = "user", add |-> FALSE, tracer |-> [f EXCEPT !.stopped = ended]]
  <2> DEFINE inside == CASE name = "AccountValidationEntered" -> TRUE
                         [] name = "ValidationExited" -> FALSE
                         [] OTHER -> full.in_validation
  <2>1. inside = (phase' = "user")
    <3>1. CASE name = "AccountValidationEntered"
      BY <3>1, Zenon
    <3>2. CASE name = "ValidationExited"
      BY <3>2, Zenon
    <3>3. CASE name \notin {"AccountValidationEntered", "ValidationExited"}
      <4>1. inside = full.in_validation
        BY <3>3, Zenon
      <4>2. full.in_validation = FALSE /\ (phase' = "user") = FALSE
        BY <1>0, <3>3, Zenon
      <4> QED
        BY <4>1, <4>2, Zenon
    <3> QED
      BY <3>1, <3>2, <3>3, Zenon
  <2>2. (f.stopped \/ ended) = ended
    BY <1>5
  <2>3. full' = [full EXCEPT !.in_validation = inside, !.tracer = [f EXCEPT !.stopped = f.stopped \/ ended]]
    BY <1>0, <1>1, <1>3 DEF HookSeen, FullTracers
  <2> HIDE DEF inside, ended, f
  <2> QED
    BY <1>0, <2>1, <2>2, <2>3, Zenon DEF FullTracers
<1>7. ended \in BOOLEAN /\ (phase' = "user") \in BOOLEAN
  OBVIOUS
<1> HIDE DEF f, l, ended
<1>8. /\ full' \in FullTracers /\ full'.in_validation = (phase' = "user") /\ full'.add = FALSE
      /\ full'.tracer.slots = f.slots /\ full'.tracer.trusted = f.trusted /\ full'.tracer.error = NoError
      /\ full'.tracer.range = f.range /\ full'.tracer.stopped = ended
  <2> DEFINE ff == [f EXCEPT !.stopped = ended]
  <2>1. /\ ff \in Tracers /\ ff.slots = f.slots /\ ff.trusted = f.trusted /\ ff.error = NoError /\ ff.range = f.range
        /\ ff.stopped = ended
    BY <1>5, <1>7 DEF Tracers
  <2> HIDE DEF ff
  <2> QED
    BY <1>6, <1>7, <2>1, Zenon DEF FullTracers, ff
<1>9. /\ validator' \in Validators /\ validator'.used = validator.used + spent
      /\ validator'.mode = ModeAfter(validator.mode, name)
      /\ validator'.tracer.slots = l.slots /\ validator'.tracer.trusted = l.trusted /\ validator'.tracer.error = NoError
      /\ validator'.tracer.range = l.range /\ validator'.tracer.stopped = ended
  <2> DEFINE ll == [l EXCEPT !.stopped = ended]
  <2>1. /\ ll \in Tracers /\ ll.slots = l.slots /\ ll.trusted = l.trusted /\ ll.error = NoError /\ ll.range = l.range
        /\ ll.stopped = ended
    BY <1>5, <1>7 DEF Tracers
  <2>2. ModeAfter(validator.mode, name) \in {"NoValidation", "UserTxValidation", "PaymasterTxValidation"}
        /\ validator.used + spent \in Int
    BY <1>0 DEF ModeAfter, Validators
  <2> HIDE DEF ll
  <2> QED
    BY <1>4, <2>1, <2>2, Zenon DEF Validators, ll
<1>10. ModeAfter(validator.mode, name) = "UserTxValidation" <=> phase' = "user"
  BY <1>0 DEF ModeAfter
<1>11. validator'.used + left' = validator.used + left
  <2>1. (validator.used + spent) + left' = validator.used + left
    BY <1>2
  <2>2. validator'.used = validator.used + spent
    BY <1>9
  <2> HIDE DEF spent
  <2> QED
    BY <2>1, <2>2
<1>12. TypesOK'
  BY <1>2, <1>8, <1>9 DEF TracersInv, TypesOK
<1>13. InStep'
  BY <1>8, <1>9, <1>10, <1>11, Zenon DEF TracersInv, InStep
<1>14. SlotsOK'
  BY <1>8, <1>9 DEF TracersInv, SlotsOK, f, l
<1>15. Agreement'
  <2>2. f.trusted = l.trusted /\ f.range = l.range
    BY DEF TracersInv, Agreement, f, l
  <2>3. ~ unanswered => l.slots = f.slots
    BY <1>0, Zenon DEF TracersInv, Agreement, f, l
  <2> QED
    BY <1>8, <1>9, <2>2, <2>3 DEF Agreement
<1> QED
  BY <1>12, <1>13, <1>14, <1>15 DEF TracersInv

-----------------------------------------------------------------------------
(***************************************************************************)
(* Every step keeps the invariant.                                         *)
(***************************************************************************)
\* The instructions that do not change the phase or what is being hashed; e is no hash.
LEMMA InstructionKeeps ==
    ASSUME TracersInv, Validating, hashing = <<>>, NEW e \in Events, Watched(e),
           e.what \in {"read", "call", "return", "meta", "panic", "write"}, ~ IsHash(e),
           UNCHANGED <<phase, hashing, hidden, unanswered>>, target' \in Addresses,
           e.what # "write" => UNCHANGED <<deployed, target>>
    PROVE  TracersInv'
<1>1. CASE phase # "user"
  BY <1>1, IdleIsSame, SameKeeps
<1>2. CASE phase = "user" /\ left = 0
  <2>1. BothFail
    BY <1>2, Starved
  <2> QED
    BY <2>1, BothFailKeeps DEF TracersInv, TypesOK
<1>3. CASE phase = "user" /\ left # 0
  <2>1. CASE e.what = "read"
    BY <1>3, <2>1, ReadKeeps
  <2>2. CASE e.what = "call"
    BY <1>3, <2>2, CallKeeps
  <2>3. CASE e.what \in {"return", "write"}
    BY <1>3, <2>3, QuietIsSame, SameKeeps
  <2>4. CASE e.what \in {"meta", "panic"}
    <3>1. BothFail
      BY <1>3, <2>4, MetaOrPanicFails
    <3> QED
      BY <3>1, BothFailKeeps DEF TracersInv, TypesOK
  <2> QED
    BY <2>1, <2>2, <2>3, <2>4
<1> QED
  BY <1>1, <1>2, <1>3

LEMMA Stepwise ==
    TracersInv /\ [ValidationNext]_validation_vars => TracersInv'
<1> SUFFICES ASSUME TracersInv, [ValidationNext]_validation_vars PROVE TracersInv'
  OBVIOUS
<1>0. target \in Addresses /\ "none" \in Addresses /\ <<>> \in Data
  BY AddressesAreThere DEF TracersInv, TypesOK, Data
<1>1. CASE BootloaderHook
  <2>1. Validating /\ hashing = <<>> /\ UNCHANGED <<hashing, hidden, deployed, target, asserted, unanswered>>
    BY <1>1 DEF BootloaderHook
  <2>2. PICK h \in [name : Hooks, to : {"user", "paymaster", "idle", "over"}] :
          /\ CASE phase = "idle" -> <<h.name, h.to>> \in {<<"AccountValidationEntered", "user">>,
                                        <<"PaymasterValidationEntered", "paymaster">>, <<"ValidationStepEnded", "over">>}
               [] phase \in {"user", "paymaster"} -> <<h.name, h.to>> = <<"ValidationExited", "idle">>
               [] phase = "over" -> FALSE
          /\ Watched(HookEvent(h.name))
          /\ phase' = h.to
    BY <1>1, Zenon DEF BootloaderHook, Hooks
  <2>3. /\ h.name \in Hooks /\ phase' \in {"idle", "user", "paymaster", "over"}
        /\ phase' = "user" <=> h.name = "AccountValidationEntered"
        /\ phase = "user" => h.name = "ValidationExited"
    BY <2>2, Zenon DEF TracersInv, TypesOK
  <2>4. CASE phase = "user" => left # 0
    BY <2>1, <2>2, <2>3, <2>4, HookKeeps
  <2>5. CASE phase = "user" /\ left = 0
    <3>1. BothFail
      BY <2>1, <2>2, <2>3, <2>5, Starved, EventsAreTyped, Zenon
    <3> QED
      BY <2>1, <2>3, <3>1, BothFailKeeps DEF TracersInv, TypesOK
  <2> QED
    BY <2>4, <2>5
<1>2. CASE Read
  <2>1. PICK r \in Reads : Watched([Event("read") EXCEPT !.address = r.address, !.caller = r.caller, !.slot = r.slot])
    BY <1>2, Zenon DEF Read
  <2> DEFINE e == [Event("read") EXCEPT !.address = r.address, !.caller = r.caller, !.slot = r.slot]
  <2>2. e \in Events /\ e.what = "read"
    BY EventsAreTyped, Zenon DEF Event
  <2> HIDE DEF e
  <2> QED
    BY <1>0, <1>2, <2>1, <2>2, InstructionKeeps, Zenon DEF Read, e, IsHash
<1>3. CASE Call
  <2>1. PICK a \in Calls : Watched([Event("call") EXCEPT !.address = a])
    BY <1>3 DEF Call
  <2> DEFINE e == [Event("call") EXCEPT !.address = a]
  <2>2. e \in Events /\ e.what = "call" /\ e.data = <<>>
    BY EventsAreTyped, AddressesAreThere, Zenon DEF Event
  <2> HIDE DEF e
  <2> QED
    BY <1>0, <1>3, <2>1, <2>2, InstructionKeeps, Zenon DEF Call, e, IsHash
<1>4. CASE AssertTimestamp
  <2>1. PICK r \in Ranges : Watched([Event("call") EXCEPT !.address = TIMESTAMP_ASSERTER, !.data = r])
    BY <1>4, Zenon DEF AssertTimestamp
  <2> DEFINE e == [Event("call") EXCEPT !.address = TIMESTAMP_ASSERTER, !.data = r]
  <2>2. e \in Events
    BY EventsAreTyped, AddressesAreThere, ValidationAssumption, Zenon DEF Data
  <2>3. e.what = "call" /\ e.address = TIMESTAMP_ASSERTER /\ TIMESTAMP_ASSERTER # KECCAK256_PRECOMPILE_ADDRESS
    BY DEF Event, TIMESTAMP_ASSERTER, KECCAK256_PRECOMPILE_ADDRESS
  <2> HIDE DEF e
  <2> QED
    BY <1>0, <1>4, <2>1, <2>2, <2>3, InstructionKeeps, Zenon DEF AssertTimestamp, e, IsHash
<1>5. CASE Hash
  <2>1. /\ Validating /\ hashing = <<>> /\ phase = "user"
        /\ UNCHANGED <<phase, hidden, deployed, target, asserted, unanswered>>
    BY <1>5 DEF Hash
  <2>2. PICK data \in DOMAIN Keccak :
          /\ Watched([Event("call") EXCEPT !.address = KECCAK256_PRECOMPILE_ADDRESS, !.data = data])
          /\ hashing' = data
    BY <1>5, Zenon DEF Hash
  <2> DEFINE e == [Event("call") EXCEPT !.address = KECCAK256_PRECOMPILE_ADDRESS, !.data = data]
  <2>3. data \in Int \X Int
    BY ValidationAssumption
  <2>4. data \in Data /\ data # <<>>
    <3>1. \A x \in Int, y \in Int : <<x, y>> # <<>>
      OBVIOUS
    <3>2. PICK x \in Int, y \in Int : data = <<x, y>>
      BY <2>3
    <3>3. data # <<>>
      BY <3>1, <3>2
    <3> QED
      BY <2>3, <3>3 DEF Data
  <2>5. e \in Events
    BY <2>4, EventsAreTyped, AddressesAreThere, Zenon
  <2>6. e.what = "call" /\ e.address = KECCAK256_PRECOMPILE_ADDRESS /\ e.data = data
    BY DEF Event
  <2> HIDE DEF e
  <2>7. IsHash(e) /\ Watched(e) /\ e.data \in DOMAIN Keccak /\ hashing' = e.data
    BY <2>2, <2>4, <2>6 DEF IsHash, e
  <2>8. CASE left # 0
    BY <2>1, <2>5, <2>7, <2>8, HashKeeps
  <2>9. CASE left = 0
    <3>1. BothFail
      BY <2>1, <2>5, <2>7, <2>9, Starved
    <3> QED
      BY <2>1, <2>7, <3>1, BothFailKeeps DEF TracersInv, TypesOK
  <2> QED
    BY <2>8, <2>9
<1>6. CASE HashReturns
  <2>1. /\ Validating /\ hashing # <<>> /\ phase = "user" /\ hashing' = <<>>
        /\ UNCHANGED <<phase, hidden, deployed, target, asserted>>
    BY <1>6 DEF HashReturns, TracersInv, InStep
  <2>2. PICK how \in {"return", "revert"} :
          /\ Watched([Event(how) EXCEPT !.slot = Keccak[hashing]])
          /\ unanswered' = (unanswered \/ how = "revert")
    BY <1>6, Zenon DEF HashReturns
  <2> DEFINE e == [Event(how) EXCEPT !.slot = Keccak[hashing]]
  <2>3. Keccak[hashing] \in Int
    BY <2>1, ValidationAssumption DEF TracersInv, TypesOK
  <2>4. e \in Events
    BY <2>3, EventsAreTyped, Zenon DEF Whats
  <2>5. e.what = how /\ e.slot = Keccak[hashing]
    BY DEF Event
  <2>6. unanswered' \in BOOLEAN /\ (unanswered' <=> (unanswered \/ how = "revert"))
    BY <2>2, Zenon
  <2> HIDE DEF e
  <2>7. Watched(e)
    BY <2>2 DEF e
  <2>8. CASE left # 0
    BY <2>1, <2>4, <2>5, <2>6, <2>7, <2>8, HashReturnsKeeps
  <2>9. CASE left = 0
    <3>1. BothFail
      BY <2>1, <2>4, <2>7, <2>9, Starved
    <3> QED
      BY <2>1, <2>6, <3>1, BothFailKeeps DEF TracersInv, TypesOK
  <2> QED
    BY <2>8, <2>9
<1>7. CASE Other
  <2>1. PICK what \in {"return", "meta", "panic"} : Watched(Event(what))
    BY <1>7 DEF Other
  <2>2. Event(what) \in Events /\ Event(what).what = what /\ Event(what).data = <<>>
    BY EventsAreTyped, Zenon DEF Event, Whats
  <2> QED
    BY <1>0, <1>7, <2>1, <2>2, InstructionKeeps DEF Other, IsHash
<1>8. CASE Change
  <2>1. Event("write") \in Events /\ Event("write").what = "write"
    BY EventsAreTyped, Zenon DEF Event, Whats
  <2>2. target' \in Addresses
    BY <1>0, <1>8, AddressesAreThere DEF Change, TrustedTargets
  <2> QED
    BY <1>8, <2>1, <2>2, InstructionKeeps DEF Change, IsHash
<1>9. CASE UNCHANGED validation_vars
  BY <1>9, Zenon
  DEF validation_vars, TracersInv, TypesOK, InStep, SlotsOK, Agreement, Validating
<1> QED
  BY <1>1, <1>2, <1>3, <1>4, <1>5, <1>6, <1>7, <1>8, <1>9 DEF ValidationNext

LEMMA Always ==
    ValidationSpec => []TracersInv
  BY Initially, Stepwise, PTL DEF ValidationSpec

\* For every program, table of hashes and limit of gas, a slot is allowed for the user by either
\* tracer only through a chain of hashes that starts at the user's address.
THEOREM SlotsComeFromTheUser ==
    ValidationSpec => []SlotsAreDerived
<1>1. TracersInv => SlotsAreDerived
  BY DEF TracersInv, SlotsOK, Derived, HashIsAllowed, SlotsAreDerived
<1> QED
  BY <1>1, Always, PTL

\* Whatever hashes are not returned, the fast VM's tracer allows no slot that the reference VM's does
\* not, and finds an error whenever the other does.
THEOREM FastTracerIsStricter ==
    ValidationSpec => []FastIsStricter
<1>1. TracersInv => FastIsStricter
  BY DEF TracersInv, SlotsOK, Agreement, FastIsStricter
<1> QED
  BY <1>1, Always, PTL

\* The two tracers enforce one set of rules: until a hash is not returned, they stop at the same
\* instruction for the same violated rule, whatever the limits and whatever the batch writes.
THEOREM TracersAgree ==
    ValidationSpec => []RulesAgree
<1>1. TracersInv => RulesAgree
  <2> SUFFICES ASSUME TracersInv, ~ unanswered
               PROVE  /\ [full.tracer EXCEPT !.slots = {}] = [validator.tracer EXCEPT !.slots = {}]
                      /\ Validating /\ hashing = <<>> => full.tracer.slots = validator.tracer.slots
    BY DEF RulesAgree
  <2> DEFINE f == full.tracer
             l == validator.tracer
  <2>1. f \in Tracers /\ l \in Tracers
    BY DEF TracersInv, TypesOK, FullTracers, Validators
  <2>2. f.trusted = l.trusted /\ f.range = l.range /\ f.error = l.error /\ f.stopped = l.stopped
    BY DEF TracersInv, Agreement
  <2>3. Validating /\ hashing = <<>> => f.slots = l.slots
    BY Before, Zenon DEF TracersInv, Agreement
  <2> HIDE DEF f, l
  <2>4. [f EXCEPT !.slots = {}] = [l EXCEPT !.slots = {}]
    BY <2>1, <2>2 DEF Tracers
  <2> QED
    BY <2>3, <2>4 DEF f, l
<1> QED
  BY <1>1, Always, PTL

\* The rules of account validation hold in both VMs, for every program, table of hashes and limit.
THEOREM ValidationStaysRight ==
    ValidationSpec => []ValidationIsRight
<1>1. RulesAgree /\ FastIsStricter /\ SlotsAreDerived => ValidationIsRight
  BY DEF ValidationIsRight
<1> QED
  BY <1>1, TracersAgree, FastTracerIsStricter, SlotsComeFromTheUser, PTL
=============================================================================
