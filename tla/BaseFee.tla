------------------------------ MODULE BaseFee ------------------------------
(***************************************************************************)
(* The base fee of a swap (base_fee/, math/fee_math.rs): a fee scheduler   *)
(* that lowers the fee from period to period, linearly or exponentially,   *)
(* or a rate limiter that raises it with the size of a buy.                *)
(*                                                                         *)
(* A base fee is the record the program stores, BaseFeeConfig:             *)
(*   cliff_fee_numerator   the first, or smallest, fee                     *)
(*   first_factor          number_of_period   | fee_increment_bps          *)
(*   second_factor         period_frequency   | max_limiter_duration       *)
(*   third_factor          reduction_factor   | reference_amount           *)
(*   base_fee_mode         "Linear", "Exponential" or "RateLimiter"        *)
(*                                                                         *)
(* Scale stands for 2^64 (ONE_Q64), as in CurveMath.  Where the program    *)
(* returns an error the result is Failed.                                  *)
(***************************************************************************)
EXTENDS PoolFees

CONSTANTS
    BASIS_POINT_MAX,            \* 10^4 in the program
    U64_MAX,                    \* the largest amount
    MAX_RATE_LIMITER_DURATION   \* in the unit of the activation type

ASSUME BaseFeeAssumption ==
    /\ BASIS_POINT_MAX \in Nat \ {0}
    /\ U64_MAX \in Nat \ {0}
    /\ MAX_RATE_LIMITER_DURATION \in Nat
    /\ BASIS_POINT_MAX <= Scale /\ BASIS_POINT_MAX <= FEE_DENOMINATOR

MIN_FEE_NUMERATOR == 0

EXPONENT_BITS == 19     \* MAX_EXPONENTIAL is 2^19

Failed == -1

U16_MAX == 65535

BaseFeeConfig ==
    [cliff_fee_numerator : Nat, first_factor : 0 .. U16_MAX, second_factor : Nat,
     third_factor : Nat, base_fee_mode : {"Linear", "Exponential", "RateLimiter"}]

to_numerator(bps) == MulDivDown(bps, FEE_DENOMINATOR, BASIS_POINT_MAX)

(***************************************************************************)
(* base^exp for fixed-point numbers, by squaring, a bit of the exponent in *)
(* each step; every product is truncated.  A base of at least 1 is         *)
(* inverted and the result inverted back, u128::MAX standing for 1 / x.    *)
(***************************************************************************)
PowStep(st) ==
    [squared |-> MulDivDown(st.squared, st.squared, Scale),
     result  |-> IF st.exp % 2 = 1 THEN MulDivDown(st.result, st.squared, Scale) ELSE st.result,
     exp     |-> st.exp \div 2]

pow(base, exp) ==
    LET inverse(x) == (Scale * Scale - 1) \div x
        start == [squared |-> IF base >= Scale THEN inverse(base) ELSE base,
                  result |-> Scale, exp |-> exp]
        walk[k \in 0 .. EXPONENT_BITS] == IF k = 0 THEN start ELSE PowStep(walk[k - 1])
        result == walk[EXPONENT_BITS].result
    IN  IF exp = 0 THEN Scale
        ELSE IF result = 0 THEN Failed
        ELSE IF base >= Scale THEN inverse(result) ELSE result

\* cliff * (1 - reduction / BASIS_POINT_MAX) ^ period
get_fee_in_period(cliff, reduction, period) ==
    LET factor == pow(Scale - MulDivDown(reduction, Scale, BASIS_POINT_MAX), period)
    IN  IF reduction > BASIS_POINT_MAX \/ factor = Failed THEN Failed
        ELSE MulDivDown(factor, cliff, Scale)

(***************************************************************************)
(* The fee scheduler.                                                      *)
(***************************************************************************)
get_base_fee_numerator_by_period_NoEnd(f, passed) ==   \* mutant
    IF f.base_fee_mode = "Exponential"
    THEN get_fee_in_period(f.cliff_fee_numerator, f.third_factor, passed)
    ELSE IF f.third_factor * passed > f.cliff_fee_numerator THEN Failed
    ELSE f.cliff_fee_numerator - f.third_factor * passed

get_base_fee_numerator_by_period(f, passed) ==
    LET period  == MinOf(passed, f.first_factor)
        reduced == f.third_factor * period
    IN  CASE f.base_fee_mode = "Linear" ->
                IF reduced <= f.cliff_fee_numerator
                THEN f.cliff_fee_numerator - reduced ELSE Failed
          [] f.base_fee_mode = "Exponential" ->
                get_fee_in_period(f.cliff_fee_numerator, f.third_factor, period)

get_base_fee_numerator(f, current_point, activation_point) ==
    IF f.second_factor = 0 THEN f.cliff_fee_numerator
    ELSE IF current_point < activation_point THEN Failed
    ELSE get_base_fee_numerator_by_period(f,
            (current_point - activation_point) \div f.second_factor)

(***************************************************************************)
(* The rate limiter.  Each further reference amount (a slice) of a buy     *)
(* pays one increment more, and MAX_FEE_NUMERATOR beyond get_max_index.    *)
(***************************************************************************)
is_zero_rate_limiter(f) ==
    f.first_factor = 0 /\ f.second_factor = 0 /\ f.third_factor = 0

is_rate_limiter_applied_AfterWindow(f, current_point, activation_point) ==   \* mutant
    /\ f.base_fee_mode = "RateLimiter"
    /\ ~ is_zero_rate_limiter(f)
    /\ current_point > activation_point + f.second_factor

is_rate_limiter_applied(f, current_point, activation_point) ==
    /\ f.base_fee_mode = "RateLimiter"
    /\ ~ is_zero_rate_limiter(f)
    /\ current_point <= activation_point + f.second_factor

get_max_index_RoundedUp(f) ==   \* mutant
    MulDivUp(MAX_FEE_NUMERATOR - f.cliff_fee_numerator, 1, to_numerator(f.first_factor))

get_max_index(f) ==
    (MAX_FEE_NUMERATOR - f.cliff_fee_numerator) \div to_numerator(f.first_factor)

\* The fee numerator that takes a given fee from an amount, rounded up.
NumeratorOfFee(fee, included) == MulDivUp(fee, FEE_DENOMINATOR, included)

get_fee_numerator_from_included_fee_amount(f, amount) ==
    LET x0  == f.third_factor
        c   == f.cliff_fee_numerator
        i   == to_numerator(f.first_factor)
        mi  == get_max_index(f)
        a   == (amount - x0) \div x0
        b   == (amount - x0) % x0
        full(n) == x0 * (c + c * n + (i * n * (n + 1)) \div 2)
        fee == IF a < mi THEN full(a) + b * (c + i * (a + 1))
               ELSE full(mi) + ((a - mi) * x0 + b) * MAX_FEE_NUMERATOR
    IN  IF amount <= x0 THEN c
        ELSE NumeratorOfFee(MulDivUp(fee, 1, FEE_DENOMINATOR), amount)

get_excluded_fee_amount(f, included) ==
    included - FeeOfIncluded(get_fee_numerator_from_included_fee_amount(f, included), included)

\* The largest amount below the cap of the fee, or the largest u64.
get_checked_amounts(f) ==
    LET included == MinOf((get_max_index(f) + 1) * f.third_factor, U64_MAX)
    IN  [excluded    |-> get_excluded_fee_amount(f, included),
         included    |-> included,
         is_overflow |-> (get_max_index(f) + 1) * f.third_factor > U64_MAX]

\* The integer square root, a digit for every two bits.
sqrt_u256(n) ==
    LET root[m \in Nat] ==
            IF m = 0 THEN 0
            ELSE CHOOSE r \in {2 * q + digit : q \in {root[m \div 4]}, digit \in {0, 1}} :
                    r * r <= m /\ m < (r + 1) * (r + 1)
    IN  root[n]

(***************************************************************************)
(* The inverse: a quadratic equation finds the amount up to the slice it   *)
(* ends in, and the rest is charged at the rate of that slice.  A negative *)
(* discriminant, which the program's unsigned numbers would wrap around,   *)
(* counts as an error.                                                     *)
(***************************************************************************)
RateOfRest_SliceBefore(f, included) ==   \* mutant
    f.cliff_fee_numerator + to_numerator(f.first_factor) * ((included \div f.third_factor) - 1)

RateOfRest(f, included) ==
    f.cliff_fee_numerator + to_numerator(f.first_factor) * (included \div f.third_factor)

IncludedWithinSlices_NoIncrement(f, excluded) ==   \* mutant
    LET x0 == f.third_factor
        i  == to_numerator(f.first_factor)
        y  == 2 * FEE_DENOMINATOR * x0 - 2 * f.cliff_fee_numerator * x0
        z  == 2 * excluded * FEE_DENOMINATOR * x0
        root  == (y - sqrt_u256(y * y - 4 * i * z)) \div (2 * i)
        left  == excluded - get_excluded_fee_amount(f, root)
    IN  IF y * y < 4 * i * z \/ left < 0 THEN Failed
        ELSE root + left + FeeOfExcluded(RateOfRest(f, root), left)

IncludedWithinSlices(f, excluded) ==
    LET x0 == f.third_factor
        i  == to_numerator(f.first_factor)
        y  == 2 * FEE_DENOMINATOR * x0 + i * x0 - 2 * f.cliff_fee_numerator * x0
        z  == 2 * excluded * FEE_DENOMINATOR * x0
        root  == (y - sqrt_u256(y * y - 4 * i * z)) \div (2 * i)
        left  == excluded - get_excluded_fee_amount(f, root)
    IN  IF y * y < 4 * i * z \/ left < 0 THEN Failed
        ELSE root + left + FeeOfExcluded(RateOfRest(f, root), left)

IncludedAboveSlices(checked, excluded) ==
    LET left == excluded - checked.excluded
    IN  IF checked.is_overflow THEN Failed
        ELSE checked.included + left + FeeOfExcluded(MAX_FEE_NUMERATOR, left)

get_fee_numerator_from_excluded_fee_amount(f, excluded) ==
    LET checked   == get_checked_amounts(f)
        included  == IF excluded < checked.excluded THEN IncludedWithinSlices(f, excluded)
                     ELSE IncludedAboveSlices(checked, excluded)
        numerator == NumeratorOfFee(included - excluded, included)
    IN  IF excluded <= get_excluded_fee_amount(f, f.third_factor) THEN f.cliff_fee_numerator
        ELSE IF excluded = checked.excluded
             THEN get_fee_numerator_from_included_fee_amount(f, checked.included)
        ELSE IF included = Failed \/ included > U64_MAX \/ included < excluded THEN Failed
        ELSE IF numerator < f.cliff_fee_numerator THEN Failed ELSE numerator

(***************************************************************************)
(* The handler of a base fee, for a buy; side tells whether the amount     *)
(* includes the fee.                                                       *)
(***************************************************************************)
get_base_fee_numerator_for(f, side, current_point, activation_point, amount) ==
    IF f.base_fee_mode # "RateLimiter"
    THEN get_base_fee_numerator(f, current_point, activation_point)
    ELSE IF ~ is_rate_limiter_applied(f, current_point, activation_point)
    THEN f.cliff_fee_numerator
    ELSE IF side = "included" THEN get_fee_numerator_from_included_fee_amount(f, amount)
    ELSE get_fee_numerator_from_excluded_fee_amount(f, amount)

get_min_base_fee_numerator(f) ==
    IF f.base_fee_mode = "RateLimiter" THEN f.cliff_fee_numerator
    ELSE get_base_fee_numerator_by_period(f, f.first_factor)

ValidFeeScheduler(f) ==
    LET zero == {f.first_factor = 0, f.second_factor = 0, f.third_factor = 0}
    IN  /\ zero # BOOLEAN
        /\ get_min_base_fee_numerator(f) # Failed
        /\ get_min_base_fee_numerator(f) \in MIN_FEE_NUMERATOR .. FEE_DENOMINATOR - 1
        /\ f.cliff_fee_numerator <= MAX_FEE_NUMERATOR

ValidFeeRateLimiter(f, collect_fee_mode) ==
    /\ collect_fee_mode = "QuoteToken"
    /\ f.cliff_fee_numerator \in MIN_FEE_NUMERATOR .. MAX_FEE_NUMERATOR
    /\ \/ is_zero_rate_limiter(f)
       \/ /\ f.first_factor # 0 /\ f.second_factor # 0 /\ f.third_factor # 0
          /\ f.second_factor <= MAX_RATE_LIMITER_DURATION
          /\ to_numerator(f.first_factor) < FEE_DENOMINATOR
          /\ get_fee_numerator_from_included_fee_amount(f, 0) >= MIN_FEE_NUMERATOR
          /\ get_fee_numerator_from_included_fee_amount(f, U64_MAX) <= MAX_FEE_NUMERATOR

ValidBaseFee(f, collect_fee_mode) ==
    IF f.base_fee_mode = "RateLimiter" THEN ValidFeeRateLimiter(f, collect_fee_mode)
    ELSE ValidFeeScheduler(f)

=============================================================================
