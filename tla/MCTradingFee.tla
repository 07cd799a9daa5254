---------------------------- MODULE MCTradingFee ----------------------------
(***************************************************************************)
(* Fee configurations for TLC: schedules and rate limiters, among them     *)
(* ones that the validation must refuse.                                   *)
(***************************************************************************)
EXTENDS TradingFee

Base(mode, cliff, first, second, third) ==
    [base_fee_mode |-> mode, cliff_fee_numerator |-> cliff,
     first_factor |-> first, second_factor |-> second, third_factor |-> third]

NoDynamicFee ==
    [initialized |-> FALSE, filter_period |-> 0, decay_period |-> 0, reduction_factor |-> 0,
     max_volatility_accumulator |-> 0, variable_fee_control |-> 0]

DynamicFee(filter, decay, reduction) ==
    [initialized |-> TRUE, filter_period |-> filter, decay_period |-> decay,
     reduction_factor |-> reduction, max_volatility_accumulator |-> 1500,
     variable_fee_control |-> 20]

NoMigratedFee ==
    [migration_fee_option |-> "Fixed", collect_fee_mode |-> "QuoteToken", dynamic_fee |-> FALSE,
     pool_fee_bps |-> 0, compounding_fee_bps |-> 0, base_fee_mode |-> "Time", number_of_period |-> 0,
     sqrt_price_step_bps |-> 0, scheduler_expiration_duration |-> 0, reduction_factor |-> 0]

Config(base, dynamic, mode, first) ==
    [base_fee |-> base, dynamic_fee |-> dynamic, collect_fee_mode |-> mode,
     first_swap_with_min_fee |-> first, migrated_pool_fee |-> NoMigratedFee]

\* Fees of migrated pools: fixed ones and market-cap schedules, among them schedules that end at
\* the smallest fee, just below it, and below zero, and the settings that must be refused.
MigratedFee(mode, bps, periods, reduction, dynamic, compounding) ==
    [NoMigratedFee EXCEPT !.migration_fee_option = "Customizable", !.base_fee_mode = mode,
        !.pool_fee_bps = bps, !.number_of_period = periods, !.reduction_factor = reduction,
        !.sqrt_price_step_bps = IF periods > 0 THEN 5 ELSE 0,
        !.scheduler_expiration_duration = IF periods > 0 THEN 3 ELSE 0,
        !.dynamic_fee = dynamic, !.compounding_fee_bps = compounding,
        !.collect_fee_mode = IF compounding > 0 THEN "Compounding" ELSE "OutputToken"]

MigratedFees ==
    {MigratedFee("Time", bps, 0, 0, d, c) : bps \in {9, 10, 17, 50, 51}, d \in BOOLEAN, c \in {0, 30, 101}}
    \cup {MigratedFee("MarketCapLinear", 50, k, r, TRUE, c) :
            k \in 1 .. 5, r \in {0, 7, 8, 10, 13}, c \in {0, 100}}
    \cup {MigratedFee("MarketCapExponential", b, k, r, TRUE, 0) :
            b \in {10, 33, 50}, k \in {1, 3, 8}, r \in {1, 20, 45, 100, 101}}
    \cup {MigratedFee("RateLimiter", 30, 1, 1, TRUE, 0),
          [MigratedFee("MarketCapLinear", 40, 2, 3, TRUE, 0) EXCEPT !.sqrt_price_step_bps = 0],
          [NoMigratedFee EXCEPT !.pool_fee_bps = 30]}

\* The last reduction of a schedule would be below 0, or a factor is missing.
Schedulers ==
    {Base("Linear", 50, 2, 1, 20), Base("Linear", 20, 3, 2, 10), Base("Linear", 20, 0, 2, 10),
     Base("Exponential", 99, 7, 1, 10), Base("Exponential", 60, 2, 2, 45),
     Base("Exponential", 60, 3, 2, 100)}

\* Limiters that reach the maximum, one whose maximum is beyond the largest amount, one
\* whose second slice begins past FEE_DENOMINATOR units, one with an increment of the whole
\* denominator, one without a window, and one that limits nothing.
Limiters ==
    {Base("RateLimiter", 5, 10, 4, 4), Base("RateLimiter", 0, 40, 4, 20),
     Base("RateLimiter", 10, 60, 4, 20), Base("RateLimiter", 30, 7, 4, 20),
     Base("RateLimiter", 0, 17, 4, 120), Base("RateLimiter", 1, 100, 4, 4),
     Base("RateLimiter", 1, 10, 0, 4), Base("RateLimiter", 25, 0, 0, 0)}

MCFeeConfigs ==
    {Config(b, NoDynamicFee, "QuoteToken", b.cliff_fee_numerator > 20) : b \in Schedulers \cup Limiters}
    \cup {Config(b, DynamicFee(2, 4, r), "OutputToken", FALSE) :
            b \in {Base("Linear", 50, 2, 1, 20), Base("RateLimiter", 5, 10, 4, 4)}, r \in {50, 101}}
    \cup {Config(Base("RateLimiter", 5, 10, 4, 4), DynamicFee(f, 4, 100), "QuoteToken", FALSE) :
            f \in {1, 4}}
    \cup {[Config(Base("Linear", 20, 0, 0, 0), NoDynamicFee, "QuoteToken", FALSE)
              EXCEPT !.migrated_pool_fee = m] : m \in MigratedFees}

=============================================================================
