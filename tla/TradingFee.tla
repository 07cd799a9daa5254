----------------------------- MODULE TradingFee -----------------------------
(***************************************************************************)
(* The fee numerator of a pool's swaps over its life: the base fee of      *)
(* BaseFee, the dynamic fee that follows the price (state/fee.rs), the     *)
(* reduced fee of the first swap, and the rule that a buy under the rate   *)
(* limiter is the only swap of its transaction (swap/process_swap.rs).     *)
(*                                                                         *)
(* The curve is VirtualPool's matter: here a buy moves the price to any    *)
(* price that is not lower.  The clock is the timestamp, in which both     *)
(* the activation point and the periods of the dynamic fee are measured.   *)
(***************************************************************************)
EXTENDS MigratedPoolFees

CONSTANTS
    FeeConfigs,           \* fee parameters offered to create_config
    Amounts,              \* amounts of swaps
    Prices,               \* square-root prices of the curve
    Start,                \* the time of the pool's creation
    MaxTime,              \* bound: the last point in time
    MaxSwaps,             \* bound: instructions of a transaction, swaps of an instruction
    BIN_STEP_U128         \* one basis point as a fixed-point number

\* The clock is a Unix time, larger than every decay_period (a u16).
ASSUME TradingFeeAssumption ==
    /\ Prices \subseteq Nat \ {0}
    /\ Amounts \subseteq 1 .. U64_MAX
    /\ BIN_STEP_U128 \in Nat \ {0}
    /\ Start \in Nat /\ MaxTime \in Nat
    /\ \A c \in FeeConfigs :
           c.base_fee \in BaseFeeConfig /\ c.migrated_pool_fee \in MigratedPoolFee
    /\ \A c \in FeeConfigs : c.dynamic_fee.initialized =>
           /\ c.dynamic_fee.filter_period \in Nat
           /\ c.dynamic_fee.decay_period \in 1 .. Start
           /\ c.dynamic_fee.reduction_factor \in Nat
           /\ c.dynamic_fee.max_volatility_accumulator \in Nat
           /\ c.dynamic_fee.variable_fee_control \in Nat

VARIABLES
    fees,       \* the pool's fee configuration
    now,        \* the clock
    sqrt_price,
    tracker,    \* the pool's volatility_tracker
    has_swap,
    tx,         \* the current transaction: was the pool created in it, and its swaps
    charged,    \* history: how the transaction's last swap was charged
    calm        \* history: the price at which all volatility was last forgotten

vars == <<fees, now, sqrt_price, tracker, has_swap, tx, charged, calm>>

(***************************************************************************)
(* Fee parameters: base_fee, dynamic_fee, collect_fee_mode, whether the    *)
(* first swap may pay the minimum fee, and migrated_pool_fee, the fees of  *)
(* the pool after its migration.  The bounds that only keep the program's  *)
(* 128-bit products from overflowing are left out.                         *)
(***************************************************************************)
ValidDynamicFee(d) ==
    d.initialized => d.filter_period < d.decay_period /\ d.reduction_factor <= BASIS_POINT_MAX

ValidFees(c) ==
    /\ ValidBaseFee(c.base_fee, c.collect_fee_mode)
    /\ ValidDynamicFee(c.dynamic_fee)
    /\ ValidMigratedPoolFee(c.migrated_pool_fee)

NoCharge == [side |-> "none", amount |-> 0, base |-> 0, numerator |-> 0, limited |-> FALSE]

Init ==
    /\ fees \in {c \in FeeConfigs : ValidFees(c)}
    /\ get_min_base_fee_numerator(fees.base_fee) >= MIN_FEE_NUMERATOR
    /\ now = Start
    /\ sqrt_price \in {p \in Prices : \A q \in Prices : p <= q}
    /\ tracker = [last_update_timestamp |-> 0, sqrt_price_reference |-> 0,
                  volatility_accumulator |-> 0, volatility_reference |-> 0]
    /\ has_swap = FALSE
    /\ tx = [created |-> TRUE, instructions |-> <<>>]
    /\ charged = NoCharge
    /\ calm = sqrt_price

(***************************************************************************)
(* The volatility tracker.                                                 *)
(***************************************************************************)
get_delta_bin_id(p, q) ==
    LET upper == IF p > q THEN p ELSE q
        lower == IF p > q THEN q ELSE p
    IN  2 * ((MulDivDown(upper, Scale, lower) - Scale) \div BIN_STEP_U128)

Elapsed == now - MinOf(tracker.last_update_timestamp, now)

update_references_KeepPrice(t) ==   \* mutant
    LET d == fees.dynamic_fee
    IN  IF Elapsed < d.filter_period THEN t
        ELSE [t EXCEPT
                !.sqrt_price_reference = IF @ = 0 THEN sqrt_price ELSE @,
                !.volatility_reference =
                    IF Elapsed < d.decay_period
                    THEN MulDivDown(t.volatility_accumulator, d.reduction_factor, BASIS_POINT_MAX)
                    ELSE 0]

update_references(t) ==
    LET d == fees.dynamic_fee
    IN  IF Elapsed < d.filter_period THEN t
        ELSE [t EXCEPT
                !.sqrt_price_reference = sqrt_price,
                !.volatility_reference =
                    IF Elapsed < d.decay_period
                    THEN MulDivDown(t.volatility_accumulator, d.reduction_factor, BASIS_POINT_MAX)
                    ELSE 0]

update_volatility_accumulator(t, price) ==
    LET moved == get_delta_bin_id(price, t.sqrt_price_reference) * BASIS_POINT_MAX
    IN  [t EXCEPT !.volatility_accumulator =
            MinOf(t.volatility_reference + moved, fees.dynamic_fee.max_volatility_accumulator)]

update_pre_swap == IF fees.dynamic_fee.initialized THEN update_references(tracker) ELSE tracker

update_post_swap(t, price) ==
    LET u == update_volatility_accumulator(t, price)
    IN  IF ~ fees.dynamic_fee.initialized THEN t
        ELSE IF get_delta_bin_id(sqrt_price, price) = 0 THEN u
        ELSE [u EXCEPT !.last_update_timestamp = now]

get_variable_fee_numerator(t) ==
    IF fees.dynamic_fee.initialized
    THEN MulDivUp(t.volatility_accumulator * t.volatility_accumulator,
                  fees.dynamic_fee.variable_fee_control, VARIABLE_FEE_SCALE)
    ELSE 0

(***************************************************************************)
(* The fee of a swap: the base fee for its amount and the dynamic fee the  *)
(* swaps before it have left, capped.                                      *)
(***************************************************************************)
BaseNumerator(side, amount) ==
    get_base_fee_numerator_for(fees.base_fee, side, now, Start, amount)

get_total_fee_numerator(side, amount, t) ==
    LET base == BaseNumerator(side, amount)
    IN  IF base = Failed THEN Failed
        ELSE MinOf(base + get_variable_fee_numerator(t), MAX_FEE_NUMERATOR)

(***************************************************************************)
(* Instructions of a transaction.  A swap is a top-level instruction, or   *)
(* is called by a router, another program: by a new one, again by the      *)
(* router that is running, or from deeper down (nested).  A router names   *)
(* the pool among its accounts, or it could not call the swap.             *)
(***************************************************************************)
Routes == {"own", "router", "again", "nested"}

PossibleRoute(route) ==
    LET n == Len(tx.instructions)
    IN  route = "again" => n > 0 /\ ~ tx.instructions[n].own

AddInstruction(route) ==
    LET done == tx.instructions
        n    == Len(done)
    IN  [created      |-> tx.created,
         instructions |-> IF route = "again"
                          THEN [done EXCEPT ![n] = [own |-> FALSE, swaps |-> done[n].swaps + 1]]
                          ELSE Append(done, [own |-> route = "own", swaps |-> 1])]

\* What a swap sees of its transaction: the instructions before the running one that name the
\* pool, and the swaps its own router has called.
EarlierInstructions(route) == Len(tx.instructions) - (IF route = "again" THEN 1 ELSE 0)

SiblingSwaps_Unseen(route) == 0   \* mutant

SiblingSwaps(route) ==
    IF route = "again" THEN tx.instructions[Len(tx.instructions)].swaps ELSE 0

validate_single_swap_instruction(route, has_sysvar) ==
    /\ has_sysvar
    /\ route # "nested"
    /\ SiblingSwaps(route) = 0
    /\ EarlierInstructions(route) = 0

\* The pool was created by an earlier top-level instruction.
validate_contain_initialize_pool_ix_and_no_cpi(route, has_referral, has_sysvar) ==
    ~ has_referral /\ has_sysvar /\ route = "own" /\ tx.created

RateLimited == is_rate_limiter_applied(fees.base_fee, now, Start)

(***************************************************************************)
(* A buy.  The fee is taken from an amount that includes it (exact in), or *)
(* added to one that does not (exact out, and a partial fill that stops).  *)
(***************************************************************************)
Swap(side, amount, price, route, has_referral, has_sysvar) ==
    LET min_fee == /\ fees.first_swap_with_min_fee
                   /\ ~ has_swap
                   /\ validate_contain_initialize_pool_ix_and_no_cpi(route, has_referral, has_sysvar)
        t == update_pre_swap
        n == IF min_fee THEN get_min_base_fee_numerator(fees.base_fee)
             ELSE get_total_fee_numerator(side, amount, t)
    IN  /\ PossibleRoute(route)
        /\ price >= sqrt_price
        /\ RateLimited => validate_single_swap_instruction(route, has_sysvar)
        /\ n # Failed
        /\ side = "excluded" => amount + FeeOfExcluded(n, amount) <= U64_MAX
        /\ sqrt_price' = price
        /\ tracker' = update_post_swap(t, price)
        /\ has_swap' = TRUE
        /\ tx' = AddInstruction(route)
        /\ charged' = [side |-> side, amount |-> amount, numerator |-> n,
                       base |-> IF min_fee THEN n ELSE BaseNumerator(side, amount),
                       limited |-> RateLimited /\ ~ min_fee]
        /\ calm' = IF Elapsed >= fees.dynamic_fee.decay_period THEN sqrt_price ELSE calm
        /\ UNCHANGED <<fees, now>>

Trade ==
    /\ \A k \in DOMAIN tx.instructions : k < MaxSwaps /\ tx.instructions[k].swaps < MaxSwaps
    /\ \E side \in {"included", "excluded"}, amount \in Amounts, price \in Prices,
          route \in Routes, has_referral, has_sysvar \in BOOLEAN :
          Swap(side, amount, price, route, has_referral, has_sysvar)

\* The next transaction on the pool; the clock stands still or moves on.
NextTransaction ==
    /\ now' \in now .. MaxTime
    /\ tx' = [created |-> FALSE, instructions |-> <<>>]
    /\ charged' = NoCharge
    /\ UNCHANGED <<fees, sqrt_price, tracker, has_swap, calm>>

Next == Trade \/ NextTransaction

Spec == Init /\ [][Next]_vars

-----------------------------------------------------------------------------
(***************************************************************************)
(* Properties.                                                             *)
(***************************************************************************)

\* The rates of the rate limiter as its documentation states them: slice k pays k increments
\* more than the first, as far as the maximum allows, and the maximum beyond.
SliceRate(f, k) ==
    LET rate == f.cliff_fee_numerator + k * to_numerator(f.first_factor)
    IN  IF rate <= MAX_FEE_NUMERATOR THEN rate ELSE MAX_FEE_NUMERATOR

FeeBySlices(f, amount) ==
    LET rates == [u \in 1 .. amount |-> SliceRate(f, (u - 1) \div f.third_factor)]
    IN  MulDivUp(Total(rates, amount), 1, FEE_DENOMINATOR)

\* The closed form of the rate limiter (fee_rate_limiter.rs, two cases around get_max_index)
\* takes the fee its slices add up to, unit by unit: never less, and no more than the rounding
\* of the numerator above it.
LimiterChargesSlices ==
    (charged.limited /\ charged.side = "included") =>
        LET fee  == FeeOfIncluded(charged.base, charged.amount)
            owed == FeeBySlices(fees.base_fee, charged.amount)
        IN  fee \in owed .. owed + MulDivUp(charged.amount, 1, FEE_DENOMINATOR)

\* An exact-out buy, whose fee comes from the inverted quadratic, is no way around the rate
\* limiter: it never pays less than the slices of its whole payment add up to, and more only by
\* what the fee numerator is rounded up by, once for the inverse and once for the swap.  (That is
\* a unit for every FEE_DENOMINATOR of the payment, so the two modes differ by more than one on a
\* large buy: fee_rate_limiter.rs says that they do not agree.)
ExactOutPaysSchedule ==
    (charged.limited /\ charged.side = "excluded") =>
        LET n        == MinOf(charged.base, MAX_FEE_NUMERATOR)
            included == charged.amount + FeeOfExcluded(n, charged.amount)
            owed     == FeeBySlices(fees.base_fee, included)
        IN  included - charged.amount
                \in owed .. owed + 2 * (MulDivUp(included, 1, FEE_DENOMINATOR) + 1)

\* Fee parameters that create_config accepts never make a swap fail later: in every transaction
\* and for every amount the fee is defined, whatever time has passed (validation only looks at
\* the two ends of a schedule).  Exact-out buys under the rate limiter are the next property.
FeesAlwaysDefined ==
    tx.instructions = <<>> =>
        \A side \in {"included", "excluded"}, amount \in Amounts :
            (side = "excluded" => ~ RateLimited) =>
                get_total_fee_numerator(side, amount, tracker) \in 0 .. MAX_FEE_NUMERATOR

\* The inverse of the rate limiter is defined up to the amount where its fee reaches the maximum:
\* the discriminant is not negative, the rest above its root is not either, and the fee found is
\* not below the first rate.
LimitedExactOutDefined ==
    tx.instructions = <<>> /\ RateLimited =>
        \A amount \in Amounts :
            amount <= get_checked_amounts(fees.base_fee).excluded =>
                get_total_fee_numerator("excluded", amount, tracker) \in 0 .. MAX_FEE_NUMERATOR

\* The base fee of a buy never rises while time passes: not from period to period, with the
\* truncated powers of the exponential schedule, and not when the rate limiter ends.
BaseFeeNeverRises ==
    [][\A amount \in Amounts :
          get_base_fee_numerator_for(fees'.base_fee, "included", now', Start, amount)
              <= BaseNumerator("included", amount)]_now

\* A price movement is charged once: the volatility on which the dynamic fee is taken is never
\* more than the movement since all volatility was last forgotten, whatever sequence of swaps
\* around the filter and decay periods led there.
MovementChargedOnce ==
    fees.dynamic_fee.initialized =>
        tracker.volatility_accumulator <= BASIS_POINT_MAX * get_delta_bin_id(sqrt_price, calm)

\* While the rate limiter applies a transaction swaps once, so that a buy cannot be cut into
\* smaller ones: not in several instructions, not by a router, not by both.
OneLimitedSwap ==
    RateLimited =>
        /\ Len(tx.instructions) <= 1
        /\ \A k \in DOMAIN tx.instructions : tx.instructions[k].swaps <= 1

\* The pool that a customizable migration builds, from a config that create_config accepted long
\* before, is never refused by DAMM v2: its fees lie within the bounds at both ends of the
\* schedule, and a dynamic fee that was asked for is not dropped by the migration's fallback.
MigratedFeesAccepted ==
    fees.migrated_pool_fee.migration_fee_option = "Customizable" =>
        LET p == build_damm_v2_pool_fee_params(fees.migrated_pool_fee)
        IN  /\ p.ok
            /\ DammAccepts(p)
            /\ (p.variable_fee_control # NoDynamicFeeParams) = fees.migrated_pool_fee.dynamic_fee

\* The dynamic fee of the migrated pool is what calculate_dynamic_fee_params is named for: however
\* volatile the price and however far the market cap has lowered the base fee, it adds no more
\* than a fifth of the base fee, and it falls short of that by one step of the control at most.
MigratedDynamicFeeIsAFifth ==
    (fees.migrated_pool_fee.migration_fee_option = "Customizable" /\ fees.migrated_pool_fee.dynamic_fee) =>
        LET p == build_damm_v2_pool_fee_params(fees.migrated_pool_fee)
            s == p.base_fee
            lowest == CHOOSE n \in {get_base_fee_numerator_at(s, k) : k \in 0 .. s.number_of_period} :
                         \A k \in 0 .. s.number_of_period : n <= get_base_fee_numerator_at(s, k)
        IN  /\ 100 * LargestVariableFee(p) <= MAX_DYNAMIC_FEE_PERCENT * lowest
            /\ LargestVariableFee(p) + MulDivUp(SQUARE_VFA_BIN, 1, VARIABLE_FEE_SCALE)
                  >= (MAX_DYNAMIC_FEE_PERCENT * lowest) \div 100

=============================================================================
