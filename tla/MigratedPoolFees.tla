-------------------------- MODULE MigratedPoolFees --------------------------
(***************************************************************************)
(* The fees of the DAMM v2 pool that a pool with a customizable migration  *)
(* becomes: validated when the config is created, perhaps long before they *)
(* are used, and built from the stored config by the migration.            *)
(*                                                                         *)
(* The parameters are a record: migration_fee_option ("Customizable" or    *)
(* "Fixed", the six fixed fees), collect_fee_mode, dynamic_fee,            *)
(* pool_fee_bps, compounding_fee_bps, base_fee_mode ("Time" for the two    *)
(* time schedulers, "MarketCapLinear", "MarketCapExponential" or           *)
(* "RateLimiter"), and the four fields of the market-cap scheduler.        *)
(***************************************************************************)
EXTENDS BaseFee

CONSTANTS
    MIN_MIGRATED_POOL_FEE_BPS, MAX_MIGRATED_POOL_FEE_BPS,
    DAMM_MIN_FEE_NUMERATOR, DAMM_MAX_FEE_NUMERATOR,   \* of DAMM v2
    SQUARE_VFA_BIN,         \* the square of the largest volatility
    VARIABLE_FEE_SCALE      \* 10^11 in the program

MAX_DYNAMIC_FEE_PERCENT == 20

\* In the program the bounds of DAMM v2 are wider than the migrated pool's own, and a fifth of
\* its smallest fee is enough for a control of at least 1.
ASSUME MigratedPoolFeesAssumption ==
    /\ {MIN_MIGRATED_POOL_FEE_BPS, MAX_MIGRATED_POOL_FEE_BPS,
        DAMM_MIN_FEE_NUMERATOR, DAMM_MAX_FEE_NUMERATOR} \subseteq Nat
    /\ SQUARE_VFA_BIN \in Nat \ {0}
    /\ VARIABLE_FEE_SCALE \in Nat \ {0}
    /\ DAMM_MIN_FEE_NUMERATOR <= to_numerator(MIN_MIGRATED_POOL_FEE_BPS)
    /\ to_numerator(MAX_MIGRATED_POOL_FEE_BPS) <= DAMM_MAX_FEE_NUMERATOR
    /\ SQUARE_VFA_BIN <
           ((DAMM_MIN_FEE_NUMERATOR * MAX_DYNAMIC_FEE_PERCENT) \div 100 - 1) * VARIABLE_FEE_SCALE

MarketCapModes == {"MarketCapLinear", "MarketCapExponential"}

MigratedPoolFee ==
    [migration_fee_option : {"Customizable", "Fixed"}, dynamic_fee : BOOLEAN,
     collect_fee_mode : {"QuoteToken", "OutputToken", "Compounding"},
     pool_fee_bps : Nat, compounding_fee_bps : Nat,
     base_fee_mode : MarketCapModes \cup {"Time", "RateLimiter"}, number_of_period : 0 .. U16_MAX,
     sqrt_price_step_bps : Nat, scheduler_expiration_duration : Nat, reduction_factor : Nat]

NoScheduler(m) ==
    /\ m.number_of_period = 0 /\ m.sqrt_price_step_bps = 0
    /\ m.scheduler_expiration_duration = 0 /\ m.reduction_factor = 0

is_none(m) ==
    /\ m.collect_fee_mode = "QuoteToken" /\ ~ m.dynamic_fee /\ m.pool_fee_bps = 0
    /\ m.compounding_fee_bps = 0 /\ m.base_fee_mode = "Time" /\ NoScheduler(m)

(***************************************************************************)
(* The market-cap scheduler of DAMM v2, as damm_v2_utils.rs mirrors it.    *)
(***************************************************************************)
get_base_fee_numerator_at(s, period) ==
    LET passed == MinOf(period, s.number_of_period)
    IN  IF s.base_fee_mode = "MarketCapExponential"
        THEN get_fee_in_period(s.cliff_fee_numerator, s.reduction_factor, passed)
        ELSE IF s.reduction_factor * passed > s.cliff_fee_numerator THEN Failed
        ELSE s.cliff_fee_numerator - s.reduction_factor * passed

get_min_scheduler_fee_numerator(s) == get_base_fee_numerator_at(s, s.number_of_period)

validate_market_cap_scheduler_NoMinimum(s) ==   \* mutant
    /\ s.reduction_factor > 0 /\ s.sqrt_price_step_bps > 0
    /\ s.scheduler_expiration_duration > 0 /\ s.number_of_period > 0
    /\ s.cliff_fee_numerator <= DAMM_MAX_FEE_NUMERATOR

validate_market_cap_scheduler(s) ==
    /\ s.reduction_factor > 0 /\ s.sqrt_price_step_bps > 0
    /\ s.scheduler_expiration_duration > 0 /\ s.number_of_period > 0
    /\ get_min_scheduler_fee_numerator(s) # Failed
    /\ get_min_scheduler_fee_numerator(s) \in DAMM_MIN_FEE_NUMERATOR .. FEE_DENOMINATOR - 1
    /\ s.cliff_fee_numerator < FEE_DENOMINATOR
    /\ s.cliff_fee_numerator <= DAMM_MAX_FEE_NUMERATOR

\* The scheduler that parameters stand for; a time scheduler is a fixed fee.
Scheduler(m) ==
    [base_fee_mode |-> m.base_fee_mode, cliff_fee_numerator |-> to_numerator(m.pool_fee_bps),
     number_of_period |-> m.number_of_period, sqrt_price_step_bps |-> m.sqrt_price_step_bps,
     scheduler_expiration_duration |-> m.scheduler_expiration_duration,
     reduction_factor |-> m.reduction_factor]

(***************************************************************************)
(* create_config.                                                          *)
(***************************************************************************)
validate_migrated_pool_fee(m) ==
    /\ m.pool_fee_bps \in MIN_MIGRATED_POOL_FEE_BPS .. MAX_MIGRATED_POOL_FEE_BPS
    /\ IF m.collect_fee_mode = "Compounding"
       THEN m.compounding_fee_bps \in 1 .. BASIS_POINT_MAX
       ELSE m.compounding_fee_bps = 0
    /\ \/ m.base_fee_mode = "Time" /\ NoScheduler(m)
       \/ m.base_fee_mode \in MarketCapModes /\ validate_market_cap_scheduler(Scheduler(m))

ValidMigratedPoolFee(m) ==
    IF m.migration_fee_option = "Customizable" THEN validate_migrated_pool_fee(m) ELSE is_none(m)

(***************************************************************************)
(* The migration.                                                          *)
(***************************************************************************)
get_damm_v2_migrated_pool_min_base_fee_numerator_Cliff(m) ==   \* mutant
    Scheduler(m).cliff_fee_numerator

get_damm_v2_migrated_pool_min_base_fee_numerator(m) ==
    CASE m.base_fee_mode = "Time"         -> Scheduler(m).cliff_fee_numerator
      [] m.base_fee_mode \in MarketCapModes -> get_min_scheduler_fee_numerator(Scheduler(m))
      [] OTHER                            -> Failed

\* The control that gives the largest volatility a fifth of the base fee,
\* rounded down; Failed where the subtraction is below zero.  (The control of
\* the largest fee allowed is below 10^4, so its cast to u32 never fails.)
calculate_dynamic_fee_params(base_fee_numerator) ==
    LET largest == (base_fee_numerator * MAX_DYNAMIC_FEE_PERCENT) \div 100
        v_fee   == largest * VARIABLE_FEE_SCALE - (VARIABLE_FEE_SCALE - 1)
    IN  IF v_fee < 0 THEN Failed ELSE v_fee \div SQUARE_VFA_BIN

NoDynamicFeeParams == -2

\* A dynamic fee that cannot be computed is left out of the pool.
build_damm_v2_dynamic_fee_params(m) ==
    LET lowest == get_damm_v2_migrated_pool_min_base_fee_numerator(m)
    IN  IF lowest = Failed THEN Failed
        ELSE IF ~ m.dynamic_fee \/ calculate_dynamic_fee_params(lowest) = Failed THEN NoDynamicFeeParams
        ELSE calculate_dynamic_fee_params(lowest)

build_damm_v2_pool_fee_params(m) ==
    [ok                   |-> /\ m.base_fee_mode \in MarketCapModes \cup {"Time"}
                              /\ build_damm_v2_dynamic_fee_params(m) # Failed,
     base_fee             |-> Scheduler(m),
     variable_fee_control |-> build_damm_v2_dynamic_fee_params(m),
     compounding_fee_bps  |-> m.compounding_fee_bps]

\* DAMM v2: what it asks of the fees of a new pool.
DammAccepts(p) ==
    /\ IF p.base_fee.base_fee_mode = "Time"
       THEN p.base_fee.cliff_fee_numerator \in DAMM_MIN_FEE_NUMERATOR .. DAMM_MAX_FEE_NUMERATOR
       ELSE /\ get_min_scheduler_fee_numerator(p.base_fee) >= DAMM_MIN_FEE_NUMERATOR
            /\ p.base_fee.cliff_fee_numerator <= DAMM_MAX_FEE_NUMERATOR
            /\ p.base_fee.reduction_factor > 0 /\ p.base_fee.number_of_period > 0
    /\ p.variable_fee_control # 0

\* DAMM v2: the fee it adds at the largest volatility, rounded up.
LargestVariableFee(p) ==
    IF p.variable_fee_control = NoDynamicFeeParams THEN 0
    ELSE MulDivUp(p.variable_fee_control, SQUARE_VFA_BIN, VARIABLE_FEE_SCALE)

=============================================================================
