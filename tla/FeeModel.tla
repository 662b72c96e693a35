------------------------------ MODULE FeeModel ------------------------------
(***************************************************************************)
(* The prices of a batch: the fee input (types/src/fee_model.rs), the base  *)
(* fee and the gas for a byte of pubdata that follow from it                *)
(* (vm_latest/utils/fee.rs), the adjustment of the input to the limits of a *)
(* transaction (multivm/src/utils/mod.rs) and the refund the operator       *)
(* suggests (vm_latest/utils/refund.rs).                                    *)
(*                                                                         *)
(* Prices are u64: PriceLimit is the first number that does not fit.  A     *)
(* product of prices that does not fit is computed in U256, and panics when *)
(* it is converted back; one that is computed in u64 wraps.                 *)
(***************************************************************************)
EXTENDS VmVersions

CONSTANTS
    PriceLimit,                 \* 2^64 in the code
    MAX_GAS_PER_PUBDATA_BYTE,   \* 50000 in the code
    L1_GAS_PER_PUBDATA_BYTE     \* 17 in the code

ASSUME FeeAssumption ==
    /\ PriceLimit \in Nat \ {0} /\ MAX_GAS_PER_PUBDATA_BYTE \in Nat \ {0}
    /\ L1_GAS_PER_PUBDATA_BYTE \in Nat \ {0}

FeePanic == <<"panic">>

TheLarger(a, b) == IF a >= b THEN a ELSE b

TheSmaller(a, b) == IF a <= b THEN a ELSE b

div_ceil(a, b) == (a + b - 1) \div b

saturating_sub(a, b) == TheLarger(a - b, 0)

as_u64(n) == IF n < PriceLimit THEN <<"ok", n>> ELSE FeePanic

-----------------------------------------------------------------------------
L1Pegged(l1_gas_price, fair_l2_gas_price) ==
    [kind |-> "L1Pegged", l1_gas_price |-> l1_gas_price, fair_l2_gas_price |-> fair_l2_gas_price]

PubdataIndependent(l1_gas_price, fair_l2_gas_price, fair_pubdata_price) ==
    [kind |-> "PubdataIndependent", l1_gas_price |-> l1_gas_price,
     fair_l2_gas_price |-> fair_l2_gas_price, fair_pubdata_price |-> fair_pubdata_price]

fair_pubdata_price(input) ==
    IF input.kind = "L1Pegged" THEN (input.l1_gas_price * L1_GAS_PER_PUBDATA_BYTE) % PriceLimit
    ELSE input.fair_pubdata_price

into_pubdata_independent(input) ==
    PubdataIndependent(input.l1_gas_price, input.fair_l2_gas_price, fair_pubdata_price(input))

stricter(a, b) ==
    LET l1 == TheLarger(a.l1_gas_price, b.l1_gas_price)
        l2 == TheLarger(a.fair_l2_gas_price, b.fair_l2_gas_price)
    IN  IF a.kind = "L1Pegged" /\ b.kind = "L1Pegged" THEN L1Pegged(l1, l2)
        ELSE PubdataIndependent(l1, l2, TheLarger(fair_pubdata_price(a), fair_pubdata_price(b)))

\* Of an input that is pubdata independent.
DeriveFees(input) ==
    LET base_fee == TheLarger(input.fair_l2_gas_price,
                              div_ceil(input.fair_pubdata_price, MAX_GAS_PER_PUBDATA_BYTE))
    IN  [base_fee |-> base_fee,
         gas_per_pubdata |-> IF input.fair_pubdata_price = 0 THEN 0
                             ELSE div_ceil(input.fair_pubdata_price, base_fee)]

derive_base_fee_and_gas_per_pubdata(input) == DeriveFees(into_pubdata_independent(input))

\* An enforced base fee is a sequence of at most one.
get_batch_base_fee(input, enforced_base_fee) ==
    IF enforced_base_fee # <<>> THEN enforced_base_fee[1]
    ELSE derive_base_fee_and_gas_per_pubdata(input).base_fee

\* A pubdata price for which the gas is one below what is asked for.
ScaledPrice(l2_price, gas_per_pubdata) == l2_price * saturating_sub(gas_per_pubdata, 1)

\* No limit on the base fee is one that nothing exceeds.
adjust_pubdata_price_for_tx(input, tx_gas_per_pubdata_limit, max_base_fee) ==
    LET bounded == TheSmaller(tx_gas_per_pubdata_limit, MAX_GAS_PER_PUBDATA_BYTE)
        current == derive_base_fee_and_gas_per_pubdata(input)
        l2_price == TheSmaller(max_base_fee, input.fair_l2_gas_price)
        l1_price == as_u64(ScaledPrice(l2_price, bounded) \div L1_GAS_PER_PUBDATA_BYTE)
        price == as_u64(ScaledPrice(l2_price, TheSmaller(bounded, current.gas_per_pubdata)))
    IN  IF current.gas_per_pubdata <= bounded /\ current.base_fee <= max_base_fee THEN <<"ok", input>>
        ELSE IF input.kind = "L1Pegged"
        THEN IF l1_price = FeePanic THEN FeePanic ELSE <<"ok", L1Pegged(l1_price[2], l2_price)>>
        ELSE IF price = FeePanic THEN FeePanic
        ELSE <<"ok", PubdataIndependent(input.l1_gas_price, l2_price, price[2])>>

\* Variant: the price is that of the batch, whatever was charged.
RefundPubdataPrice_Fair(input, base_fee, gas_per_pubdata) == fair_pubdata_price(input)

\* The price of pubdata in a refund: the one the transaction was charged, which a
\* transaction from L1 may have set below the fair one.
RefundPubdataPrice(input, base_fee, gas_per_pubdata) ==
    TheSmaller(base_fee * gas_per_pubdata, fair_pubdata_price(input))

compute_refund(input, base_fee, bootloader_refund, spent_on_pubdata, limit, gas_per_pubdata, published) ==
    LET total == (limit - bootloader_refund + PriceLimit) % PriceLimit
        fair_fee == saturating_sub(total, spent_on_pubdata) * input.fair_l2_gas_price
                        + published * RefundPubdataPrice(input, base_fee, gas_per_pubdata)
    IN  IF base_fee = 0 THEN FeePanic
        ELSE as_u64(div_ceil(saturating_sub(limit * base_fee, fair_fee), base_fee))

-----------------------------------------------------------------------------
\* The input after the adjustment stays within both limits of the transaction, "so that
\* the expected gas per pubdata is smaller than or the limit".  One that is independent of
\* L1 is always found, and neither of its prices is raised
\* (adjust_pubdata_price_for_tx()).
AdjustmentFits(input, limit, max_base_fee) ==
    LET adjusted == adjust_pubdata_price_for_tx(input, limit, max_base_fee)
        fees == derive_base_fee_and_gas_per_pubdata(adjusted[2])
    IN  /\ adjusted # FeePanic => fees.gas_per_pubdata <= limit /\ fees.base_fee <= max_base_fee
        /\ input.kind = "PubdataIndependent" =>
            /\ adjusted # FeePanic
            /\ adjusted[2].fair_pubdata_price <= input.fair_pubdata_price
            /\ adjusted[2].fair_l2_gas_price <= input.fair_l2_gas_price

\* A transaction that pays the base fee pays for the pubdata it is charged gas for, and
\* never needs more than MAX_GAS_PER_PUBDATA_BYTE of gas for a byte; the stricter of two
\* inputs is enough for both as long as no price wraps (derive_base_fee_and_gas_per_pubdata(),
\* stricter()).
BaseFeeCovers(a, b) ==
    LET fees == [i \in {a, b} |-> derive_base_fee_and_gas_per_pubdata(i)]
        both == stricter(a, b)
        strict == derive_base_fee_and_gas_per_pubdata(both)
    IN  /\ \A i \in {a, b} :
            /\ fees[i].gas_per_pubdata <= MAX_GAS_PER_PUBDATA_BYTE
            /\ fees[i].base_fee * fees[i].gas_per_pubdata >= fair_pubdata_price(i)
            /\ get_batch_base_fee(i, <<>>) >= i.fair_l2_gas_price
        /\ (\A i \in {a, b, both} : i.l1_gas_price * L1_GAS_PER_PUBDATA_BYTE < PriceLimit) =>
            \A i \in {a, b} :
                /\ strict.base_fee >= fees[i].base_fee
                /\ strict.base_fee * strict.gas_per_pubdata >= fair_pubdata_price(i)

\* A transaction that paid for every byte it published gets back at least what the
\* bootloader found unspent and at most what it paid, and what is kept of it covers the
\* fair fee up to the price of one gas, never more (compute_refund()).
RefundIsFair(input, left, limit, gas_per_pubdata, published) ==
    LET base_fee == get_batch_base_fee(input, <<>>)
        spent == gas_per_pubdata * published
        refund == compute_refund(input, base_fee, left, spent, limit, gas_per_pubdata, published)
        fair == (limit - left - spent) * input.fair_l2_gas_price
                    + published * RefundPubdataPrice(input, base_fee, gas_per_pubdata)
        kept == (limit - refund[2]) * base_fee
    IN  base_fee > 0 /\ left + spent <= limit =>
            /\ refund # FeePanic
            /\ left <= refund[2] /\ refund[2] <= limit
            /\ kept <= fair /\ fair < kept + base_fee
=============================================================================
