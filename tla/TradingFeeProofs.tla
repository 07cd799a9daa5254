-------------------------- MODULE TradingFeeProofs --------------------------
(***************************************************************************)
(* The trading fees of a pool, for every fee configuration, clock and      *)
(* sequence of instructions:                                               *)
(*                                                                         *)
(*   SingleSwap                   Spec => []OneLimitedSwap                 *)
(*   NoDoubleCharge               Spec => []MovementChargedOnce            *)
(*   BaseFeeFalls                 Spec => BaseFeeNeverRises                *)
(*   FeesDefined                  Spec => []FeesAlwaysDefined              *)
(*   SlicesCharged                Spec => []LimiterChargesSlices           *)
(*   MigratedFeesAlwaysAccepted   Spec => []MigratedFeesAccepted           *)
(*   MigratedDynamicFeeBounded    Spec => []MigratedDynamicFeeIsAFifth     *)
(*                                                                         *)
(* MovementChargedOnce is not inductive: the accumulator is the reference  *)
(* volatility plus the movement since the reference price, so the first    *)
(* must be bounded by the movement from the calm price to the reference.   *)
(* That two movements in a row are worth no more bins than the whole of    *)
(* them (BinsAddUp) is where the roundings enter.  The base fee needs that *)
(* truncated powers fall with the exponent (PowFalls), the rate limiter    *)
(* that its closed form is a sum over units (LimiterNumerator).            *)
(***************************************************************************)
EXTENDS TradingFee, ArithmeticProofs

Instruction == [own : BOOLEAN, swaps : Nat]

TxTypeOK == tx \in [created : BOOLEAN, instructions : Seq(Instruction)]

TxInv == TxTypeOK /\ OneLimitedSwap

\* The transaction of a pool's creation has no swap yet.
LEMMA TxInit == Init => TxInv
BY DEF Init, TxInv, TxTypeOK, OneLimitedSwap

\* A further instruction, or a further swap of the running router, keeps the transaction's shape.
LEMMA AddInstructionType ==
    ASSUME TxTypeOK, NEW route \in Routes, PossibleRoute(route)
    PROVE  AddInstruction(route) \in [created : BOOLEAN, instructions : Seq(Instruction)]
<1> DEFINE done == tx.instructions
           n    == Len(done)
           more == [own |-> FALSE, swaps |-> done[n].swaps + 1]
           one  == [own |-> route = "own", swaps |-> 1]
<1>1. tx.created \in BOOLEAN /\ done \in Seq(Instruction)
  BY DEF TxTypeOK
<1>2. CASE route = "again"
  <2>1. n \in 1 .. n /\ done[n] \in Instruction
    BY <1>1, <1>2 DEF PossibleRoute
  <2>2. more \in Instruction
    BY <2>1 DEF Instruction
  <2> HIDE DEF more
  <2>3. [done EXCEPT ![n] = more] \in Seq(Instruction)
    BY <1>1, <2>1, <2>2
  <2> QED BY <1>1, <1>2, <2>3 DEF AddInstruction, more
<1>3. CASE route # "again"
  <2>1. one \in Instruction
    BY DEF Instruction
  <2>2. Append(done, one) \in Seq(Instruction)
    BY <1>1, <2>1
  <2> QED BY <1>1, <1>3, <2>2 DEF AddInstruction
<1> QED BY <1>2, <1>3

\* A swap that validate_single_swap_instruction lets through is the transaction's first.
LEMMA FirstSwap ==
    ASSUME TxTypeOK, NEW route \in Routes, PossibleRoute(route),
           SiblingSwaps(route) = 0, EarlierInstructions(route) = 0
    PROVE  LET i == AddInstruction(route).instructions
           IN  Len(i) <= 1 /\ \A k \in DOMAIN i : i[k].swaps <= 1
<1> DEFINE done == tx.instructions
           n    == Len(done)
           more == [own |-> FALSE, swaps |-> done[n].swaps + 1]
           one  == [own |-> route = "own", swaps |-> 1]
<1>1. done \in Seq(Instruction)
  BY DEF TxTypeOK
<1>2. CASE route = "again"
  <2>1. n = 1 /\ done[n].swaps = 0
    BY <1>1, <1>2 DEF EarlierInstructions, SiblingSwaps
  <2>2. more.swaps = 1
    BY <2>1
  <2>3. AddInstruction(route).instructions = [done EXCEPT ![n] = more]
    BY <1>2 DEF AddInstruction
  <2> HIDE DEF more
  <2>4. DOMAIN done = {1}
    BY <1>1, <2>1
  <2>5. [done EXCEPT ![n] = more] = [k \in {1} |-> more]
    BY <2>1, <2>4
  <2>6. Len([k \in {1} |-> more]) = 1
    <3>1. {1} = 1 .. 1
      OBVIOUS
    <3> QED BY <3>1
  <2> QED BY <2>2, <2>3, <2>5, <2>6
<1>3. CASE route # "again"
  <2>1. n = 0
    BY <1>1, <1>3 DEF EarlierInstructions
  <2>2. AddInstruction(route).instructions = Append(done, one)
    BY <1>3 DEF AddInstruction
  <2> QED BY <1>1, <2>1, <2>2
<1> QED BY <1>2, <1>3

\* Every step keeps it: a swap under the rate limiter is checked, and the next transaction is empty.
LEMMA TxNext == TxInv /\ [Next]_vars => TxInv'
<1> SUFFICES ASSUME TxInv, [Next]_vars PROVE TxInv'
    OBVIOUS
<1>1. CASE Trade
  <2> PICK side \in {"included", "excluded"}, amount \in Amounts, price \in Prices,
           route \in Routes, has_referral \in BOOLEAN, has_sysvar \in BOOLEAN :
           Swap(side, amount, price, route, has_referral, has_sysvar)
    BY <1>1 DEF Trade
  <2>1. tx' = AddInstruction(route) /\ PossibleRoute(route) /\ now' = now /\ fees' = fees
    BY DEF Swap
  <2>2. TxTypeOK'
    BY <2>1, AddInstructionType DEF TxInv, TxTypeOK
  <2>3. RateLimited' = RateLimited
    BY <2>1 DEF RateLimited
  <2>4. RateLimited => SiblingSwaps(route) = 0 /\ EarlierInstructions(route) = 0
    BY DEF Swap, validate_single_swap_instruction
  <2>5. OneLimitedSwap'
    BY <2>1, <2>3, <2>4, FirstSwap DEF OneLimitedSwap, TxInv
  <2> QED BY <2>2, <2>5 DEF TxInv
<1>2. CASE NextTransaction
  BY <1>2 DEF NextTransaction, TxInv, TxTypeOK, OneLimitedSwap
<1>3. CASE UNCHANGED vars
  BY <1>3 DEF vars, TxInv, TxTypeOK, OneLimitedSwap, RateLimited
<1> QED BY <1>1, <1>2, <1>3 DEF Next

\* While the rate limiter applies no transaction swaps twice, through whatever instructions and
\* routers it calls (validate_single_swap_instruction, called by every swap).
THEOREM SingleSwap == Spec => []OneLimitedSwap
<1>1. TxInv => OneLimitedSwap
  BY DEF TxInv
<1> QED BY TxInit, TxNext, <1>1, PTL DEF Spec

-----------------------------------------------------------------------------
(***************************************************************************)
(* Bins.                                                                   *)
(***************************************************************************)

\* What two truncated quotients add up to fits into that of a larger sum.
LEMMA QuotientsAddUp ==
    ASSUME NEW a \in Int, NEW b \in Int, NEW c \in Int, NEW d \in Int, d > 0, a + b <= c
    PROVE  (a \div d) + (b \div d) <= c \div d
<1> DEFINE p == a \div d
           q == b \div d
<1>1. p \in Int /\ q \in Int /\ d * p <= a /\ d * q <= b
  BY Floor
<1> HIDE DEF p, q
<1>2. d * (p + q) <= c
  BY <1>1
<1>3. p + q \in Int
  BY <1>1
<1> QED BY <1>2, <1>3, FloorLargest DEF p, q

\* The relative price of two prices in units of Scale, above 1.
Excess(upper, lower) == MulDivDown(upper, Scale, lower) - Scale

\* It is a natural number.
LEMMA ExcessNat ==
    ASSUME NEW u \in Nat, NEW l \in Nat \ {0}, l <= u
    PROVE  Excess(u, l) \in Nat
<1> DEFINE x == u * Scale
<1>1. Scale \in Nat /\ x \in Int /\ l * Scale <= x
  BY ScaleAssumption DEF ScaleAssumption
<1>2. x \div l \in Int /\ Scale <= x \div l
  <2> HIDE DEF x
  <2> QED BY <1>1, Floor, FloorLargest
<1> QED BY <1>1, <1>2 DEF Excess, MulDivDown

\* A rise in two steps is worth no more than the rise at once.
LEMMA ExcessesAddUp ==
    ASSUME NEW u \in Nat, NEW r \in Nat, NEW l \in Nat \ {0}, l <= r, r <= u
    PROVE  Excess(u, r) + Excess(r, l) <= Excess(u, l)
<1> DEFINE A == (u * Scale) \div r
           B == (r * Scale) \div l
<1>1. Scale \in Nat /\ u * Scale \in Int /\ r * Scale \in Int /\ r \in Nat \ {0}
  BY ScaleAssumption DEF ScaleAssumption
<1>2. A \in Int /\ r * A <= u * Scale /\ B \in Int /\ l * B <= r * Scale
  BY <1>1, Floor
<1>3. Excess(u, r) = A - Scale /\ Excess(r, l) = B - Scale
      /\ Excess(u, l) = ((u * Scale) \div l) - Scale
  BY DEF Excess, MulDivDown
<1>4. 0 <= A - Scale
  BY <1>1, <1>3, ExcessNat
<1> HIDE DEF A, B
<1>5. l * (A - Scale) <= u * Scale - r * Scale
  <2>1. A - Scale \in Nat
    BY <1>1, <1>2, <1>4
  <2>2. l * (A - Scale) <= r * (A - Scale)
    <3>1. \A x, y, z \in Nat : x <= y => x * z <= y * z
      OBVIOUS
    <3> QED BY <1>1, <2>1, <3>1
  <2>3. r * (A - Scale) = r * A - r * Scale
    BY <1>1, <1>2
  <2> QED BY <1>1, <1>2, <2>1, <2>2, <2>3
<1>6. l * ((A - Scale) + B) <= u * Scale
  <2>1. l * ((A - Scale) + B) = l * (A - Scale) + l * B
    BY <1>1, <1>2
  <2> QED BY <1>1, <1>2, <1>5, <2>1
<1>7. (A - Scale) + B <= (u * Scale) \div l
  <2>1. (A - Scale) + B \in Int
    BY <1>1, <1>2
  <2> QED BY <1>1, <1>6, <2>1, FloorLargest
<1>8. (u * Scale) \div l \in Int
  BY <1>1, Floor
<1> QED BY <1>1, <1>2, <1>3, <1>7, <1>8

\* Bins are counted upwards from the lower price.
LEMMA BinsOfRise ==
    ASSUME NEW u \in Nat, NEW l \in Nat \ {0}, l <= u
    PROVE  /\ get_delta_bin_id(u, l) = 2 * (Excess(u, l) \div BIN_STEP_U128)
           /\ get_delta_bin_id(u, l) \in Nat
<1>1. get_delta_bin_id(u, l) = 2 * (Excess(u, l) \div BIN_STEP_U128)
  <2>1. CASE u > l
    BY <2>1 DEF get_delta_bin_id, Excess
  <2>2. CASE ~(u > l)
    <3>1. u = l
      BY <2>2
    <3> QED BY <3>1 DEF get_delta_bin_id, Excess
  <2> QED BY <2>1, <2>2
<1>2. Excess(u, l) \in Nat /\ BIN_STEP_U128 \in Nat \ {0}
  BY ExcessNat, TradingFeeAssumption DEF TradingFeeAssumption
<1>3. Excess(u, l) \div BIN_STEP_U128 \in Nat
  BY <1>2
<1> QED BY <1>1, <1>3

\* A rise in two steps covers no more bins than the rise at once.
LEMMA BinsAddUp ==
    ASSUME NEW u \in Nat, NEW r \in Nat, NEW l \in Nat \ {0}, l <= r, r <= u
    PROVE  get_delta_bin_id(u, r) + get_delta_bin_id(r, l) <= get_delta_bin_id(u, l)
<1> DEFINE a == Excess(u, r)
           b == Excess(r, l)
           c == Excess(u, l)
           d == BIN_STEP_U128
<1>1. r \in Nat \ {0} /\ l <= u
  OBVIOUS
<1>2. a \in Int /\ b \in Int /\ c \in Int /\ a + b <= c
  BY <1>1, ExcessNat, ExcessesAddUp
<1>3. d \in Int /\ d > 0
  BY TradingFeeAssumption DEF TradingFeeAssumption
<1>4. /\ get_delta_bin_id(u, r) = 2 * (a \div d) /\ get_delta_bin_id(r, l) = 2 * (b \div d)
      /\ get_delta_bin_id(u, l) = 2 * (c \div d)
  BY <1>1, BinsOfRise
<1> HIDE DEF a, b, c, d
<1>5. (a \div d) + (b \div d) <= c \div d
  BY <1>2, <1>3, QuotientsAddUp
<1>6. a \div d \in Int /\ b \div d \in Int /\ c \div d \in Int
  BY <1>2, <1>3, Floor
<1> QED BY <1>4, <1>5, <1>6

-----------------------------------------------------------------------------
(***************************************************************************)
(* The volatility tracker.                                                 *)
(***************************************************************************)
VolatilityTracker ==
    [last_update_timestamp : Nat, sqrt_price_reference : Nat,
     volatility_accumulator : Nat, volatility_reference : Nat]

\* The fee configuration is one that create_config accepted, and time passes.
FeesFixed ==
    /\ fees \in FeeConfigs /\ ValidFees(fees)
    /\ now \in Nat /\ Start <= now

\* A price movement up to the reference price is in volatility_reference, the
\* rest of it in the accumulator; a tracker without a reference is fresh.
TrackerInv ==
    fees.dynamic_fee.initialized =>
        /\ tracker \in VolatilityTracker
        /\ sqrt_price \in Nat /\ calm \in Nat \ {0} /\ calm <= sqrt_price
        /\ IF tracker.sqrt_price_reference = 0 THEN tracker.last_update_timestamp = 0
           ELSE /\ calm <= tracker.sqrt_price_reference
                /\ tracker.sqrt_price_reference <= sqrt_price
                /\ tracker.volatility_reference <=
                       BASIS_POINT_MAX * get_delta_bin_id(tracker.sqrt_price_reference, calm)
        /\ tracker.volatility_accumulator <=
               BASIS_POINT_MAX * get_delta_bin_id(sqrt_price, calm)

\* The part of the volatility that is kept is no more than all of it.
LEMMA ReducedVolatility ==
    ASSUME NEW v \in Nat, NEW f \in Nat, f <= BASIS_POINT_MAX
    PROVE  MulDivDown(v, f, BASIS_POINT_MAX) \in Nat /\ MulDivDown(v, f, BASIS_POINT_MAX) <= v
<1> DEFINE B == BASIS_POINT_MAX
           x == v * f
           q == x \div B
<1>1. B \in Nat \ {0}
  BY BaseFeeAssumption DEF BaseFeeAssumption
<1>2. x \in Nat /\ x <= v * B
  <2>1. \A a, b, c \in Nat : b <= c => a * b \in Nat /\ a * b <= a * c
    OBVIOUS
  <2> QED BY <1>1, <2>1
<1> HIDE DEF x
<1>3. q \in Nat /\ B * q <= x
  BY <1>1, <1>2, Floor
<1> HIDE DEF q
<1>4. q <= v
  <2>1. B * q <= B * v
    BY <1>1, <1>2, <1>3
  <2>2. \A a, b \in Nat, c \in Nat \ {0} : c * a <= c * b => a <= b
    OBVIOUS
  <2> QED BY <1>1, <1>3, <2>1, <2>2
<1> QED BY <1>3, <1>4 DEF MulDivDown, q, x

\* A swap from tracker t whose reference r lies between the calm price and the current one.
LEMMA AccumulatorBound ==
    ASSUME NEW d, NEW t \in VolatilityTracker, NEW c \in Nat \ {0}, NEW price \in Nat,
           c <= t.sqrt_price_reference, t.sqrt_price_reference <= price,
           t.volatility_reference <=
               BASIS_POINT_MAX * get_delta_bin_id(t.sqrt_price_reference, c),
           fees.dynamic_fee.max_volatility_accumulator \in Nat
    PROVE  LET u == update_volatility_accumulator(t, price)
           IN  /\ u \in VolatilityTracker
               /\ u.sqrt_price_reference = t.sqrt_price_reference
               /\ u.volatility_reference = t.volatility_reference
               /\ u.last_update_timestamp = t.last_update_timestamp
               /\ u.volatility_accumulator <= BASIS_POINT_MAX * get_delta_bin_id(price, c)
<1> DEFINE r == t.sqrt_price_reference
           u == update_volatility_accumulator(t, price)
           B == BASIS_POINT_MAX
           x == get_delta_bin_id(price, r)
           y == get_delta_bin_id(r, c)
           z == get_delta_bin_id(price, c)
           m == fees.dynamic_fee.max_volatility_accumulator
           a == MinOf(t.volatility_reference + x * B, m)
<1>1. r \in Nat \ {0} /\ t.volatility_reference \in Nat
  BY DEF VolatilityTracker
<1>2. x \in Nat /\ y \in Nat /\ z \in Nat /\ x + y <= z
  BY <1>1, BinsOfRise, BinsAddUp
<1>3. B \in Nat
  BY BaseFeeAssumption DEF BaseFeeAssumption
<1>4. u = [t EXCEPT !.volatility_accumulator = a]
  BY DEF update_volatility_accumulator
<1>u. t.volatility_reference <= B * y
  OBVIOUS
<1> HIDE DEF x, y, z, B, u, m, r
<1>5. a \in Nat /\ a <= B * z
  <2>1. x * B \in Nat /\ B * x + B * y <= B * z /\ x * B = B * x
    <3>1. \A k, i, j, l \in Nat : i + j <= l => k * i + k * j <= k * l /\ i * k \in Nat
      OBVIOUS
    <3> QED BY <1>2, <1>3, <3>1
  <2>2. B * z \in Nat /\ B * y \in Nat
    BY <1>2, <1>3
  <2>3. m \in Nat
    BY DEF m
  <2> QED BY <1>1, <1>u, <1>2, <1>3, <2>1, <2>2, <2>3 DEF MinOf
<1> HIDE DEF a
<1> QED BY <1>4, <1>5 DEF VolatilityTracker, u, B, z

\* What update_references leaves before a swap, and the calm price after it.
LEMMA ReferencesBound ==
    ASSUME FeesFixed, TrackerInv, fees.dynamic_fee.initialized
    PROVE  LET t == update_references(tracker)
               c == IF Elapsed >= fees.dynamic_fee.decay_period THEN sqrt_price ELSE calm
           IN  /\ t \in VolatilityTracker
               /\ c \in Nat \ {0} /\ c <= t.sqrt_price_reference
               /\ t.sqrt_price_reference <= sqrt_price
               /\ t.volatility_reference <=
                      BASIS_POINT_MAX * get_delta_bin_id(t.sqrt_price_reference, c)
<1> DEFINE d == fees.dynamic_fee
           t == update_references(tracker)
           c == IF Elapsed >= d.decay_period THEN sqrt_price ELSE calm
           kept == MulDivDown(tracker.volatility_accumulator, d.reduction_factor, BASIS_POINT_MAX)
<1>1. /\ d.filter_period \in Nat /\ d.decay_period \in Nat /\ d.decay_period <= Start
      /\ d.reduction_factor \in Nat /\ Start \in Nat
      /\ d.filter_period < d.decay_period /\ d.reduction_factor <= BASIS_POINT_MAX
      /\ now \in Nat /\ Start <= now
  BY TradingFeeAssumption DEF FeesFixed, ValidFees, ValidDynamicFee, TradingFeeAssumption
<1>2. /\ tracker \in VolatilityTracker /\ tracker.last_update_timestamp \in Nat
      /\ tracker.volatility_accumulator \in Nat /\ tracker.sqrt_price_reference \in Nat
      /\ sqrt_price \in Nat /\ calm \in Nat \ {0} /\ calm <= sqrt_price
      /\ tracker.volatility_accumulator <= BASIS_POINT_MAX * get_delta_bin_id(sqrt_price, calm)
  BY DEF TrackerInv, VolatilityTracker
<1>3. Elapsed \in Int /\ (tracker.last_update_timestamp = 0 => Elapsed = now)
  BY <1>1, <1>2 DEF Elapsed, MinOf
<1>4. kept \in Nat /\ kept <= tracker.volatility_accumulator
  BY <1>1, <1>2, ReducedVolatility
<1>b. BASIS_POINT_MAX \in Nat
  BY BaseFeeAssumption DEF BaseFeeAssumption
<1> HIDE DEF kept
<1>5. CASE Elapsed < d.filter_period
  <2>1. t = tracker /\ c = calm
    BY <1>1, <1>3, <1>5 DEF update_references
  <2>2. tracker.sqrt_price_reference # 0
    BY <1>1, <1>3, <1>5 DEF TrackerInv
  <2> QED BY <1>2, <2>1, <2>2 DEF TrackerInv
<1>6. CASE ~(Elapsed < d.filter_period) /\ Elapsed < d.decay_period
  <2>1. /\ t = [tracker EXCEPT !.sqrt_price_reference = sqrt_price,
                               !.volatility_reference = kept]
        /\ c = calm
    BY <1>1, <1>3, <1>6 DEF update_references, kept
  <2>2. get_delta_bin_id(sqrt_price, calm) \in Nat
    BY <1>2, BinsOfRise
  <2>3. BASIS_POINT_MAX * get_delta_bin_id(sqrt_price, calm) \in Nat
    BY <1>b, <2>2
  <2>4. kept <= BASIS_POINT_MAX * get_delta_bin_id(sqrt_price, calm)
    BY <1>2, <1>4, <2>3
  <2>5. /\ t.sqrt_price_reference = sqrt_price /\ t.volatility_reference = kept
        /\ t \in VolatilityTracker
    BY <1>2, <1>4, <2>1 DEF VolatilityTracker
  <2> QED BY <1>2, <2>1, <2>4, <2>5
<1>7. CASE ~(Elapsed < d.decay_period)
  <2>1. /\ t = [tracker EXCEPT !.sqrt_price_reference = sqrt_price,
                               !.volatility_reference = 0]
        /\ c = sqrt_price
    BY <1>1, <1>3, <1>7 DEF update_references
  <2>2. get_delta_bin_id(sqrt_price, sqrt_price) \in Nat /\ sqrt_price \in Nat \ {0}
    BY <1>2, BinsOfRise
  <2>3. 0 <= BASIS_POINT_MAX * get_delta_bin_id(sqrt_price, sqrt_price)
    BY <1>b, <2>2
  <2>4. /\ t.sqrt_price_reference = sqrt_price /\ t.volatility_reference = 0
        /\ t \in VolatilityTracker
    <3> HIDE DEF t
    <3>1. \A z \in Nat : [tracker EXCEPT !.sqrt_price_reference = sqrt_price,
                                         !.volatility_reference = z] \in VolatilityTracker
      BY <1>2 DEF VolatilityTracker
    <3> QED BY <1>2, <2>1, <3>1 DEF VolatilityTracker
  <2> QED BY <1>2, <2>1, <2>2, <2>3, <2>4
<1> QED BY <1>5, <1>6, <1>7

\* A swap keeps the tracker in order.
LEMMA SwapTracker ==
    ASSUME FeesFixed, TrackerInv, NEW side, NEW amount, NEW price \in Prices, NEW route,
           NEW has_referral, NEW has_sysvar,
           Swap(side, amount, price, route, has_referral, has_sysvar)
    PROVE  TrackerInv'
<1> SUFFICES ASSUME fees.dynamic_fee.initialized PROVE TrackerInv'
  BY DEF Swap, TrackerInv
<1> DEFINE t == update_references(tracker)
           c == IF Elapsed >= fees.dynamic_fee.decay_period THEN sqrt_price ELSE calm
           u == update_volatility_accumulator(t, price)
<1>1. /\ t \in VolatilityTracker /\ c \in Nat \ {0} /\ c <= t.sqrt_price_reference
      /\ t.sqrt_price_reference <= sqrt_price
      /\ t.volatility_reference <= BASIS_POINT_MAX * get_delta_bin_id(t.sqrt_price_reference, c)
  BY ReferencesBound
<1>2. /\ sqrt_price' = price /\ calm' = c /\ fees' = fees /\ price >= sqrt_price
      /\ tracker' = IF get_delta_bin_id(sqrt_price, price) = 0 THEN u
                    ELSE [u EXCEPT !.last_update_timestamp = now]
  BY DEF Swap, update_pre_swap, update_post_swap
<1>3. price \in Nat /\ sqrt_price \in Nat /\ t.sqrt_price_reference \in Nat
  BY <1>1, TradingFeeAssumption DEF TrackerInv, TradingFeeAssumption, VolatilityTracker
<1>4. fees.dynamic_fee.max_volatility_accumulator \in Nat
  BY TradingFeeAssumption DEF FeesFixed, TradingFeeAssumption
<1> HIDE DEF c, t
<1>5. /\ u \in VolatilityTracker
      /\ u.sqrt_price_reference = t.sqrt_price_reference
      /\ u.volatility_reference = t.volatility_reference
      /\ u.volatility_accumulator <= BASIS_POINT_MAX * get_delta_bin_id(price, c)
  <2>1. t.sqrt_price_reference <= price
    BY <1>1, <1>2, <1>3
  <2> QED BY <1>1, <1>3, <1>4, <2>1, AccumulatorBound
<1> HIDE DEF u
<1>6. /\ tracker' \in VolatilityTracker
      /\ tracker'.sqrt_price_reference = t.sqrt_price_reference
      /\ tracker'.volatility_reference = t.volatility_reference
      /\ tracker'.volatility_accumulator = u.volatility_accumulator
  <2>1. now \in Nat
    BY DEF FeesFixed
  <2> QED BY <1>2, <1>5, <2>1 DEF VolatilityTracker
<1>7. t.sqrt_price_reference # 0 /\ c <= price /\ t.sqrt_price_reference <= price
  BY <1>1, <1>2, <1>3
<1> QED BY <1>1, <1>2, <1>3, <1>5, <1>6, <1>7 DEF TrackerInv, get_delta_bin_id

\* Every step keeps it.
LEMMA TrackerNext == FeesFixed /\ TrackerInv /\ [Next]_vars => FeesFixed' /\ TrackerInv'
<1> SUFFICES ASSUME FeesFixed, TrackerInv, [Next]_vars PROVE FeesFixed' /\ TrackerInv'
  OBVIOUS
<1>1. CASE Trade
  <2> PICK side \in {"included", "excluded"}, amount \in Amounts, price \in Prices,
           route \in Routes, has_referral \in BOOLEAN, has_sysvar \in BOOLEAN :
           Swap(side, amount, price, route, has_referral, has_sysvar)
    BY <1>1 DEF Trade
  <2>1. FeesFixed'
    <3>1. fees' = fees /\ now' = now
      BY DEF Swap
    <3> QED BY <3>1 DEF FeesFixed
  <2> QED BY <2>1, SwapTracker
<1>2. CASE NextTransaction
  <2>1. /\ fees' = fees /\ sqrt_price' = sqrt_price /\ tracker' = tracker /\ calm' = calm
        /\ now' \in now .. MaxTime
    BY <1>2 DEF NextTransaction
  <2>2. FeesFixed'
    BY <2>1, TradingFeeAssumption DEF FeesFixed, TradingFeeAssumption
  <2>3. TrackerInv'
    BY <2>1 DEF TrackerInv, get_delta_bin_id
  <2> QED BY <2>2, <2>3
<1>3. CASE UNCHANGED vars
  BY <1>3 DEF vars, FeesFixed, TrackerInv, get_delta_bin_id
<1> QED BY <1>1, <1>2, <1>3 DEF Next

\* The tracker of a new pool.
LEMMA TrackerInit == Init => FeesFixed /\ TrackerInv
<1> SUFFICES ASSUME Init PROVE FeesFixed /\ TrackerInv
  OBVIOUS
<1>1. FeesFixed
  BY TradingFeeAssumption DEF Init, FeesFixed, TradingFeeAssumption
<1>2. sqrt_price \in Nat \ {0} /\ calm = sqrt_price
  BY TradingFeeAssumption DEF Init, TradingFeeAssumption
<1>3. 0 <= BASIS_POINT_MAX * get_delta_bin_id(sqrt_price, calm)
  <2>1. get_delta_bin_id(sqrt_price, calm) \in Nat /\ BASIS_POINT_MAX \in Nat
    BY <1>2, BinsOfRise, BaseFeeAssumption DEF BaseFeeAssumption
  <2> QED BY <2>1
<1>4. tracker = [last_update_timestamp |-> 0, sqrt_price_reference |-> 0,
                 volatility_accumulator |-> 0, volatility_reference |-> 0]
  BY DEF Init
<1>5. TrackerInv
  BY <1>2, <1>3, <1>4 DEF TrackerInv, VolatilityTracker
<1> QED BY <1>1, <1>5

\* No price movement is charged twice: whatever swaps, filter and decay periods led to a state,
\* the volatility on which the dynamic fee is taken is at most the movement since all of it was
\* last forgotten (update_references, update_volatility_accumulator).
THEOREM NoDoubleCharge == Spec => []MovementChargedOnce
<1>1. TrackerInv => MovementChargedOnce
  BY DEF TrackerInv, MovementChargedOnce
<1> QED BY TrackerInit, TrackerNext, <1>1, PTL DEF Spec

-----------------------------------------------------------------------------
(***************************************************************************)
(* Truncated powers.                                                       *)
(***************************************************************************)

\* The states of pow's loop, for a base of at most 1.
PowState == [squared : 0 .. Scale, result : 0 .. Scale, exp : Nat]

\* A truncated product of two numbers up to 1 is at most each of them.
LEMMA ProductShrinks ==
    ASSUME NEW x \in 0 .. Scale, NEW y \in 0 .. Scale
    PROVE  /\ MulDivDown(x, y, Scale) \in 0 .. Scale
           /\ MulDivDown(x, y, Scale) <= x /\ MulDivDown(x, y, Scale) <= y
<1> DEFINE m == MulDivDown(x, y, Scale)
<1>1. Scale \in Int /\ Scale > 0 /\ x \in Int /\ y \in Int /\ x * y >= 0
  BY ScaleAssumption DEF ScaleAssumption
<1>2. m \in Int /\ Scale * m <= x * y /\ \A k \in Int : Scale * k <= x * y => k <= m
  BY <1>1, DownProps
<1> HIDE DEF m
<1>3. 0 <= m
  <2>1. Scale * 0 <= x * y
    BY <1>1
  <2> QED BY <1>2, <2>1
<1>4. Scale * m <= Scale * x /\ Scale * m <= Scale * y
  <2>1. x * y <= x * Scale /\ x * y <= Scale * y
    <3>1. \A a, b, c \in Nat : b <= c => a * b <= a * c /\ b * a <= c * a
      OBVIOUS
    <3> QED BY <1>1, <3>1
  <2> QED BY <1>1, <1>2, <2>1
<1>5. m <= x /\ m <= y
  BY <1>1, <1>2, <1>4, Cancel
<1> QED BY <1>1, <1>2, <1>3, <1>5 DEF m

\* A truncated product grows with its factors.
LEMMA ProductGrows ==
    ASSUME NEW x \in Nat, NEW y \in Nat, NEW u \in Nat, NEW v \in Nat, NEW d \in Nat \ {0},
           x <= u, y <= v
    PROVE  MulDivDown(x, y, d) <= MulDivDown(u, v, d)
<1> DEFINE m == MulDivDown(x, y, d)
<1>1. m \in Int /\ d * m <= x * y
  BY DownProps
<1>2. x * y <= u * v
  <2>1. \A a, b, c \in Nat : b <= c => a * b <= a * c /\ b * a <= c * a
    OBVIOUS
  <2>2. x * y <= u * y /\ u * y <= u * v
    BY <2>1
  <2> QED BY <2>2
<1>3. d * m <= u * v
  BY <1>1, <1>2
<1> HIDE DEF m
<1>4. m <= MulDivDown(u, v, d)
  BY <1>1, <1>3, DownProps
<1> QED BY <1>4 DEF m

\* Every step of the loop stays in its states.
LEMMA PowStepState == \A st \in PowState : PowStep(st) \in PowState
<1> TAKE st \in PowState
<1>1. st.squared \in 0 .. Scale /\ st.result \in 0 .. Scale /\ st.exp \in Nat
  BY DEF PowState
<1>2. MulDivDown(st.squared, st.squared, Scale) \in 0 .. Scale
      /\ MulDivDown(st.result, st.squared, Scale) \in 0 .. Scale
  BY <1>1, ProductShrinks
<1>3. st.exp \div 2 \in Nat
  BY <1>1
<1> QED BY <1>1, <1>2, <1>3 DEF PowStep, PowState

\* The loop of pow, as a function of its steps.
PowWalk(base, exp) ==
    LET start == [squared |-> base, result |-> Scale, exp |-> exp]
        walk[k \in 0 .. EXPONENT_BITS] == IF k = 0 THEN start ELSE PowStep(walk[k - 1])
    IN  walk

\* pow is the result of the loop's last step.
LEMMA PowIsWalk ==
    ASSUME NEW base \in 0 .. Scale - 1, NEW exp \in Nat
    PROVE  LET w == PowWalk(base, exp)
           IN  /\ w[0] = [squared |-> base, result |-> Scale, exp |-> exp]
               /\ \A k \in 0 .. EXPONENT_BITS : w[k] \in PowState
               /\ \A k \in 1 .. EXPONENT_BITS : w[k] = PowStep(w[k - 1])
               /\ exp # 0 => pow(base, exp) = IF w[EXPONENT_BITS].result = 0 THEN Failed
                                              ELSE w[EXPONENT_BITS].result
<1> DEFINE n == EXPONENT_BITS
           init == [squared |-> base, result |-> Scale, exp |-> exp]
           step(st) == PowStep(st)
           Upto(f, k) == f = [i \in 0 .. k |-> IF i = 0 THEN init ELSE step(f[i - 1])]
           S == {k \in Nat : \E f : Upto(f, k)}
           w == PowWalk(base, exp)
<1>0. n \in Nat /\ Scale \in Nat /\ ~(base >= Scale)
  BY ScaleAssumption DEF EXPONENT_BITS, ScaleAssumption
<1>1. w = CHOOSE f : Upto(f, n)
  BY DEF PowWalk
<1>w. exp # 0 => pow(base, exp) = IF w[n].result = 0 THEN Failed ELSE w[n].result
  BY <1>0 DEF pow, PowWalk
<1> HIDE DEF init, step, n
<1>2. \A f : Upto(f, n) => f[0] = init /\ \A i \in 1 .. n : f[i] = step(f[i - 1])
  BY <1>0
<1>3. 0 \in S
  <2>1. Upto([i \in 0 .. 0 |-> init], 0)
    OBVIOUS
  <2> QED BY <2>1
<1>4. ASSUME NEW k \in S PROVE k + 1 \in S
  <2>1. PICK f : Upto(f, k)
    OBVIOUS
  <2> DEFINE g == [i \in 0 .. (k + 1) |-> IF i <= k THEN f[i] ELSE step(f[k])]
  <2>2. \A i \in 0 .. k : f[i] = IF i = 0 THEN init ELSE step(f[i - 1])
    BY <2>1
  <2>3. \A i \in 0 .. (k + 1) : g[i] = IF i = 0 THEN init ELSE step(g[i - 1])
    <3> TAKE i \in 0 .. (k + 1)
    <3>1. CASE i <= k
      <4>1. g[i] = f[i] /\ (i # 0 => g[i - 1] = f[i - 1])
        BY <3>1
      <4> QED BY <2>2, <3>1, <4>1
    <3>2. CASE i = k + 1
      <4>1. g[i] = step(f[k]) /\ g[i - 1] = f[k] /\ i # 0
        BY <3>2
      <4> QED BY <4>1
    <3> QED BY <3>1, <3>2
  <2>4. Upto(g, k + 1)
    BY <2>3
  <2>5. k + 1 \in Nat
    OBVIOUS
  <2> QED BY <2>4, <2>5
<1>5. S = Nat
  <2>1. S \in SUBSET Nat
    OBVIOUS
  <2> HIDE DEF S
  <2> QED BY <1>3, <1>4, <2>1, SetInduction
<1>6. PICK f : Upto(f, n)
  BY <1>0, <1>5
<1>7. Upto(w, n)
  <2> HIDE DEF Upto, w
  <2> QED BY <1>1, <1>6
<1> HIDE DEF w, Upto
<1>8. w[0] = init /\ \A i \in 1 .. n : w[i] = step(w[i - 1])
  BY <1>2, <1>7
<1>9. \A k \in 0 .. n : w[k] \in PowState
  <2> DEFINE T == {k \in Nat : k <= n => w[k] \in PowState}
  <2>1. 0 \in T
    BY <1>0, <1>8, ScaleAssumption DEF init, PowState, ScaleAssumption
  <2>2. ASSUME NEW k \in T PROVE k + 1 \in T
    <3>1. SUFFICES ASSUME k + 1 <= n PROVE w[k + 1] \in PowState
      OBVIOUS
    <3>2. k + 1 \in 1 .. n /\ (k + 1) - 1 = k /\ w[k] \in PowState
      BY <1>0, <3>1
    <3>3. w[k + 1] = step(w[k])
      BY <1>8, <3>2
    <3> QED BY <3>2, <3>3, PowStepState DEF step
  <2>3. T = Nat
    <3>1. T \in SUBSET Nat
      OBVIOUS
    <3> HIDE DEF T
    <3> QED BY <2>1, <2>2, <3>1, SetInduction
  <2> QED BY <1>0, <2>3
<1> QED BY <1>8, <1>9, <1>w DEF init, step, n, w


\* Halving a u16 for every bit of MAX_EXPONENTIAL leaves nothing.
LEMMA ExponentRunsOut ==
    ASSUME NEW base \in 0 .. Scale - 1, NEW exp \in 0 .. U16_MAX
    PROVE  PowWalk(base, exp)[EXPONENT_BITS].exp = 0
<1> DEFINE w == PowWalk(base, exp)
<1>0. exp \in Nat /\ exp <= 65535
  BY DEF U16_MAX
<1>1. /\ w[0] = [squared |-> base, result |-> Scale, exp |-> exp]
      /\ \A k \in 0 .. 19 : w[k] \in PowState
      /\ \A k \in 1 .. 19 : w[k] = PowStep(w[k - 1])
  <2>1. /\ w[0] = [squared |-> base, result |-> Scale, exp |-> exp]
        /\ \A k \in 0 .. EXPONENT_BITS : w[k] \in PowState
        /\ \A k \in 1 .. EXPONENT_BITS : w[k] = PowStep(w[k - 1])
    <3>1. exp \in Nat
      BY <1>0
    <3> QED BY <3>1, PowIsWalk
  <2> HIDE DEF w
  <2> QED BY <2>1 DEF EXPONENT_BITS
<1> HIDE DEF w
<1> DEFINE x(k) == w[k].exp
<1>2. x(0) <= 65535 /\ \A k \in 0 .. 19 : x(k) \in Nat
  BY <1>0, <1>1 DEF PowState
<1>3. \A k \in 1 .. 19 : x(k) = x(k - 1) \div 2
  <2> TAKE k \in 1 .. 19
  <2>1. w[k] = PowStep(w[k - 1])
    BY <1>1
  <2> QED BY <2>1 DEF PowStep
<1>4. \A n \in Nat, k \in 1 .. 19 : x(k - 1) <= 2 * n + 1 => x(k) <= n
  <2> TAKE n \in Nat, k \in 1 .. 19
  <2>1. x(k) = x(k - 1) \div 2 /\ x(k - 1) \in Nat
    BY <1>2, <1>3
  <2> QED BY <2>1
<1> HIDE DEF x
<1>5. x(1) <= 32767
  BY <1>2, <1>4
<1>6. x(2) <= 16383
  BY <1>5, <1>4
<1>7. x(3) <= 8191
  BY <1>6, <1>4
<1>8. x(4) <= 4095
  BY <1>7, <1>4
<1>9. x(5) <= 2047
  BY <1>8, <1>4
<1>10. x(6) <= 1023
  BY <1>9, <1>4
<1>11. x(7) <= 511
  BY <1>10, <1>4
<1>12. x(8) <= 255
  BY <1>11, <1>4
<1>13. x(9) <= 127
  BY <1>12, <1>4
<1>14. x(10) <= 63
  BY <1>13, <1>4
<1>15. x(11) <= 31
  BY <1>14, <1>4
<1>16. x(12) <= 15
  BY <1>15, <1>4
<1>17. x(13) <= 7
  BY <1>16, <1>4
<1>18. x(14) <= 3
  BY <1>17, <1>4
<1>19. x(15) <= 1
  BY <1>18, <1>4
<1>20. x(16) <= 0
  BY <1>19, <1>4
<1>21. x(17) <= 0 /\ x(18) <= 0 /\ x(19) <= 0
  <2>1. \A k \in 1 .. 19 : x(k - 1) <= 0 => x(k) <= 0
    BY <1>2, <1>3 DEF x
  <2>2. x(17) <= 0
    BY <1>20, <2>1
  <2>3. x(18) <= 0
    BY <2>2, <2>1
  <2> QED BY <2>2, <2>3, <2>1
<1>22. x(19) = 0
  BY <1>2, <1>21
<1> QED BY <1>22 DEF x, w, EXPONENT_BITS

\* Two loops for exponents one apart.  As long as the larger exponent has no
\* bit set its result is 1, and the smaller one's has lost at most one factor;
\* from the first bit on the exponents, and all factors, are the same.
Behind(s, t) ==
    /\ s.squared = t.squared
    /\ \/ s.exp = t.exp /\ t.result <= s.result
       \/ t.exp = s.exp + 1 /\ t.result = Scale /\ s.squared <= s.result

\* A step of both keeps it.
LEMMA BehindSteps ==
    ASSUME NEW s \in PowState, NEW t \in PowState, Behind(s, t)
    PROVE  Behind(PowStep(s), PowStep(t))
<1> DEFINE q == s.squared
           S == PowStep(s)
           T == PowStep(t)
           M(x, y) == MulDivDown(x, y, Scale)
<1>1. /\ q \in 0 .. Scale /\ s.result \in 0 .. Scale /\ t.result \in 0 .. Scale
      /\ s.exp \in Nat /\ t.exp \in Nat /\ t.squared = q /\ Scale \in Nat \ {0}
  BY ScaleAssumption DEF PowState, Behind, ScaleAssumption
<1>2. /\ S.squared = M(q, q) /\ T.squared = M(q, q)
      /\ S.exp = s.exp \div 2 /\ T.exp = t.exp \div 2
      /\ S.result = (IF s.exp % 2 = 1 THEN M(s.result, q) ELSE s.result)
      /\ T.result = (IF t.exp % 2 = 1 THEN M(t.result, q) ELSE t.result)
  BY <1>1 DEF PowStep
<1> HIDE DEF q, S, T, M
<1>3. CASE s.exp = t.exp /\ t.result <= s.result
  <2>1. M(t.result, q) <= M(s.result, q)
    BY <1>1, <1>3, ProductGrows DEF M
  <2>2. T.result <= S.result
    BY <1>2, <1>3, <2>1
  <2> QED BY <1>2, <1>3, <2>2 DEF Behind, S, T
<1>4. CASE t.exp = s.exp + 1 /\ t.result = Scale /\ q <= s.result
  <2>1. CASE s.exp % 2 = 1
    <3>1. t.exp % 2 # 1 /\ t.exp \div 2 = (s.exp \div 2) + 1
      BY <1>1, <1>4, <2>1
    <3>2. M(q, q) <= M(s.result, q)
      BY <1>1, <1>4, ProductGrows DEF M
    <3>3. T.exp = S.exp + 1 /\ T.result = Scale /\ S.squared <= S.result
      BY <1>2, <1>4, <2>1, <3>1, <3>2
    <3> QED BY <1>2, <3>3 DEF Behind, S, T
  <2>2. CASE s.exp % 2 # 1
    <3>1. t.exp % 2 = 1 /\ t.exp \div 2 = s.exp \div 2
      BY <1>1, <1>4, <2>2
    <3>2. M(Scale, q) <= q
      BY <1>1, ProductShrinks DEF M
    <3>3. M(Scale, q) \in Int
      BY <1>1, ProductShrinks DEF M
    <3>4. T.exp = S.exp /\ T.result <= S.result
      BY <1>1, <1>2, <1>4, <2>2, <3>1, <3>2, <3>3
    <3> QED BY <1>2, <3>4 DEF Behind, S, T
  <2> QED BY <2>1, <2>2
<1> QED BY <1>3, <1>4 DEF Behind, q

\* One period more never raises the truncated power, and where the later one is defined so is
\* the earlier one.
LEMMA PowStepsDown ==
    ASSUME NEW base \in 0 .. Scale - 1, NEW e \in Nat, e + 1 <= U16_MAX,
           pow(base, e + 1) # Failed
    PROVE  /\ pow(base, e + 1) \in 1 .. Scale /\ pow(base, e) \in 1 .. Scale
           /\ pow(base, e + 1) <= pow(base, e)
<1> DEFINE n == EXPONENT_BITS
           s == PowWalk(base, e)
           t == PowWalk(base, e + 1)
<1>0. n \in Nat /\ Scale \in Nat \ {0} /\ e + 1 \in 0 .. U16_MAX /\ e + 1 \in Nat /\ e + 1 # 0
  <2>1. n \in Nat /\ Scale \in Nat \ {0}
    BY ScaleAssumption DEF EXPONENT_BITS, ScaleAssumption
  <2>2. U16_MAX \in Nat
    BY DEF U16_MAX
  <2>3. e + 1 \in 0 .. U16_MAX /\ e + 1 \in Nat /\ e + 1 # 0
    BY <2>2
  <2> QED BY <2>1, <2>3
<1>1. /\ s[0] = [squared |-> base, result |-> Scale, exp |-> e]
      /\ \A k \in 0 .. n : s[k] \in PowState
      /\ \A k \in 1 .. n : s[k] = PowStep(s[k - 1])
      /\ e # 0 => pow(base, e) = IF s[n].result = 0 THEN Failed ELSE s[n].result
  BY PowIsWalk
<1>2. /\ t[0] = [squared |-> base, result |-> Scale, exp |-> e + 1]
      /\ \A k \in 0 .. n : t[k] \in PowState
      /\ \A k \in 1 .. n : t[k] = PowStep(t[k - 1])
      /\ pow(base, e + 1) = IF t[n].result = 0 THEN Failed ELSE t[n].result
  BY <1>0, PowIsWalk
<1>3. t[n].exp = 0
  BY <1>0, ExponentRunsOut
<1> HIDE DEF s, t, n
<1>4. Behind(s[n], t[n])
  <2> DEFINE S == {k \in Nat : k <= n => Behind(s[k], t[k])}
  <2>1. 0 \in S
    BY <1>0, <1>1, <1>2 DEF Behind
  <2>2. ASSUME NEW k \in S PROVE k + 1 \in S
    <3>1. SUFFICES ASSUME k + 1 <= n PROVE Behind(s[k + 1], t[k + 1])
      OBVIOUS
    <3>2. /\ k \in 0 .. n /\ k + 1 \in 1 .. n /\ (k + 1) - 1 = k /\ Behind(s[k], t[k])
      BY <1>0, <3>1
    <3>3. s[k + 1] = PowStep(s[k]) /\ t[k + 1] = PowStep(t[k])
          /\ s[k] \in PowState /\ t[k] \in PowState
      BY <1>1, <1>2, <3>2
    <3> QED BY <3>2, <3>3, BehindSteps
  <2>3. S = Nat
    <3>1. S \in SUBSET Nat
      OBVIOUS
    <3> HIDE DEF S
    <3> QED BY <2>1, <2>2, <3>1, SetInduction
  <2> QED BY <1>0, <2>3
<1>5. /\ s[n].exp \in Nat /\ t[n].result \in 0 .. Scale /\ s[n].result \in 0 .. Scale
  <2>1. n \in 0 .. n
    BY <1>0
  <2> QED BY <1>1, <1>2, <2>1 DEF PowState
<1>6. t[n].result <= s[n].result
  BY <1>3, <1>4, <1>5 DEF Behind
<1>7. pow(base, e + 1) = t[n].result /\ t[n].result \in 1 .. Scale
  BY <1>2, <1>5
<1>8. CASE e = 0
  <2>1. pow(base, e) = Scale
    BY <1>8 DEF pow
  <2> QED BY <1>0, <1>7, <2>1
<1>9. CASE e # 0
  BY <1>0, <1>1, <1>5, <1>6, <1>7, <1>9
<1> QED BY <1>8, <1>9

\* The truncated powers of a number below 1 fall with the exponent; where the last of them is
\* defined they all are.
LEMMA PowFalls ==
    ASSUME NEW base \in 0 .. Scale - 1, NEW d \in Nat, NEW e \in Nat, d <= e, e <= U16_MAX,
           pow(base, e) # Failed
    PROVE  /\ pow(base, e) \in 1 .. Scale /\ pow(base, d) \in 1 .. Scale
           /\ pow(base, e) <= pow(base, d)
<1> DEFINE p(k) == pow(base, k)
           S == {k \in Nat : k <= e => p(e) \in 1 .. Scale /\ p(e - k) \in 1 .. Scale
                                       /\ p(e) <= p(e - k)}
<1>0. Scale \in Nat \ {0} /\ Failed \notin 1 .. Scale /\ U16_MAX \in Nat
  BY ScaleAssumption DEF ScaleAssumption, Failed, U16_MAX
<1>1. p(e) \in 1 .. Scale
  <2>1. CASE e = 0
    BY <1>0, <2>1 DEF pow
  <2>2. CASE e # 0
    <3>1. e - 1 \in Nat /\ (e - 1) + 1 = e
      BY <2>2
    <3>2. pow(base, (e - 1) + 1) \in 1 .. Scale
      BY <3>1, PowStepsDown
    <3> QED BY <3>1, <3>2
  <2> QED BY <2>1, <2>2
<1>2. 0 \in S
  <2>1. e - 0 = e
    OBVIOUS
  <2> QED BY <1>0, <1>1, <2>1
<1>3. ASSUME NEW k \in S PROVE k + 1 \in S
  <2>1. SUFFICES ASSUME k + 1 <= e
                 PROVE  p(e - (k + 1)) \in 1 .. Scale /\ p(e) <= p(e - (k + 1))
    BY <1>1
  <2> DEFINE f == e - (k + 1)
  <2>2. f \in Nat /\ f + 1 = e - k /\ f + 1 <= U16_MAX
    BY <1>0, <2>1
  <2>3. p(e - k) \in 1 .. Scale /\ p(e) <= p(e - k)
    BY <2>1
  <2>4. p(f + 1) \in 1 .. Scale /\ p(e) <= p(f + 1) /\ p(f + 1) # Failed
    BY <1>0, <2>2, <2>3
  <2> HIDE DEF f
  <2>5. p(f) \in 1 .. Scale /\ p(f + 1) <= p(f)
    BY <2>2, <2>4, PowStepsDown
  <2>6. p(e) <= p(f)
    <3> HIDE DEF p
    <3> QED BY <1>0, <1>1, <2>4, <2>5
  <2> QED BY <2>5, <2>6 DEF f
<1>4. S = Nat
  <2>1. S \in SUBSET Nat
    OBVIOUS
  <2> HIDE DEF S
  <2> QED BY <1>2, <1>3, <2>1, SetInduction
<1>5. e - d \in S /\ e - (e - d) = d /\ e - d <= e
  <2> HIDE DEF S
  <2> QED BY <1>4
<1>6. p(e - (e - d)) \in 1 .. Scale /\ p(e) <= p(e - (e - d))
  BY <1>5
<1> QED BY <1>1, <1>5, <1>6


-----------------------------------------------------------------------------
(***************************************************************************)
(* The schedules.                                                          *)
(***************************************************************************)

\* The fields of a base fee.
LEMMA BaseFeeFields ==
    ASSUME NEW f \in BaseFeeConfig
    PROVE  /\ f.cliff_fee_numerator \in Nat /\ f.second_factor \in Nat /\ f.third_factor \in Nat
           /\ f.first_factor \in Nat /\ f.first_factor <= U16_MAX
           /\ f.base_fee_mode \in {"Linear", "Exponential", "RateLimiter"}
<1>1. U16_MAX \in Nat
  BY DEF U16_MAX
<1> QED BY <1>1 DEF BaseFeeConfig

\* The share of the fee that a reduction leaves is a number below 1.
LEMMA ReducedBase ==
    ASSUME NEW r \in 1 .. BASIS_POINT_MAX
    PROVE  Scale - MulDivDown(r, Scale, BASIS_POINT_MAX) \in 0 .. Scale - 1
<1> DEFINE B == BASIS_POINT_MAX
           m == MulDivDown(r, Scale, B)
<1>1. B \in Nat /\ B > 0 /\ Scale \in Nat /\ Scale > 0 /\ B <= Scale /\ r \in Nat /\ 1 <= r /\ r <= B
  BY ScaleAssumption, BaseFeeAssumption DEF ScaleAssumption, BaseFeeAssumption
<1>2. m \in Int /\ B * m <= r * Scale /\ \A k \in Int : B * k <= r * Scale => k <= m
  BY <1>1, DownProps
<1>3. B * 1 <= r * Scale /\ r * Scale <= B * Scale
  <2>1. \A a, b, c \in Nat : b <= c => a * b <= a * c /\ b * a <= c * a
    OBVIOUS
  <2>2. 1 * Scale <= r * Scale /\ r * Scale <= B * Scale
    BY <1>1, <2>1
  <2> QED BY <1>1, <2>2
<1> HIDE DEF m
<1>4. 1 <= m
  BY <1>2, <1>3
<1>5. m <= Scale
  <2>1. B * m <= B * Scale
    BY <1>1, <1>2, <1>3
  <2> QED BY <1>1, <1>2, <2>1, Cancel
<1> QED BY <1>1, <1>2, <1>4, <1>5 DEF m

\* The exponential schedule falls from period to period, truncated as it is.
LEMMA FeeInPeriodFalls ==
    ASSUME NEW cliff \in Nat, NEW r \in Nat \ {0}, NEW d \in Nat, NEW e \in Nat,
           d <= e, e <= U16_MAX, get_fee_in_period(cliff, r, e) # Failed
    PROVE  /\ get_fee_in_period(cliff, r, d) \in Nat /\ get_fee_in_period(cliff, r, e) \in Nat
           /\ get_fee_in_period(cliff, r, e) <= get_fee_in_period(cliff, r, d)
           /\ get_fee_in_period(cliff, r, d) <= cliff
<1> DEFINE base == Scale - MulDivDown(r, Scale, BASIS_POINT_MAX)
           p == pow(base, d)
           q == pow(base, e)
<1>0. Scale \in Nat \ {0} /\ BASIS_POINT_MAX \in Nat
  BY ScaleAssumption, BaseFeeAssumption DEF ScaleAssumption, BaseFeeAssumption
<1>1. /\ ~(r > BASIS_POINT_MAX) /\ q # Failed
      /\ get_fee_in_period(cliff, r, e) = MulDivDown(q, cliff, Scale)
  BY DEF get_fee_in_period
<1>2. base \in 0 .. Scale - 1
  BY <1>0, <1>1, ReducedBase
<1> HIDE DEF base
<1>3. q \in 1 .. Scale /\ p \in 1 .. Scale /\ q <= p
  BY <1>1, <1>2, PowFalls
<1>4. p # Failed
  BY <1>0, <1>3 DEF Failed
<1>5. get_fee_in_period(cliff, r, d) = MulDivDown(p, cliff, Scale)
  BY <1>1, <1>4 DEF get_fee_in_period, base
<1> HIDE DEF p, q
<1>6. MulDivDown(q, cliff, Scale) <= MulDivDown(p, cliff, Scale)
  BY <1>0, <1>3, ProductGrows
<1>7. \A x \in 1 .. Scale : MulDivDown(x, cliff, Scale) \in Nat
                            /\ MulDivDown(x, cliff, Scale) <= cliff
  <2> TAKE x \in 1 .. Scale
  <2> DEFINE m == MulDivDown(x, cliff, Scale)
  <2>0. x \in Int /\ cliff \in Int /\ Scale \in Int /\ Scale > 0 /\ x \in Nat
    BY <1>0
  <2>1. m \in Int /\ Scale * m <= x * cliff /\ \A k \in Int : Scale * k <= x * cliff => k <= m
    BY <2>0, DownProps
  <2> HIDE DEF m
  <2>2. Scale * 0 <= x * cliff /\ x * cliff <= Scale * cliff
    <3>1. \A a, b, c \in Nat : b <= c => a * b \in Nat /\ b * a <= c * a
      OBVIOUS
    <3> QED BY <1>0, <3>1
  <2>3. 0 <= m
    BY <2>1, <2>2
  <2>4. Scale * m <= Scale * cliff
    BY <1>0, <2>1, <2>2
  <2>5. m <= cliff
    BY <1>0, <2>1, <2>4, Cancel
  <2> QED BY <2>1, <2>3, <2>5 DEF m
<1> QED BY <1>1, <1>3, <1>5, <1>6, <1>7

\* A schedule that create_config accepted falls from period to period and is defined in each.
LEMMA ScheduleFalls ==
    ASSUME NEW f \in BaseFeeConfig, f.base_fee_mode # "RateLimiter", ValidFeeScheduler(f),
           f.second_factor # 0, NEW d \in Nat, NEW e \in Nat, d <= e
    PROVE  /\ get_base_fee_numerator_by_period(f, d) \in Nat
           /\ get_base_fee_numerator_by_period(f, e) \in Nat
           /\ get_base_fee_numerator_by_period(f, e) <= get_base_fee_numerator_by_period(f, d)
           /\ get_base_fee_numerator_by_period(f, d) <= f.cliff_fee_numerator
<1> DEFINE n == f.first_factor
           r == f.third_factor
           c == f.cliff_fee_numerator
           P == MinOf(d, n)
           Q == MinOf(e, n)
           fee(k) == get_base_fee_numerator_by_period(f, k)
<1>1. /\ n \in Nat /\ n <= U16_MAX /\ r \in Nat /\ c \in Nat
      /\ f.base_fee_mode \in {"Linear", "Exponential"}
  BY BaseFeeFields
<1>2. r # 0
  BY DEF ValidFeeScheduler
<1>3. fee(n) # Failed
  BY DEF ValidFeeScheduler, get_min_base_fee_numerator
<1>4. P \in Nat /\ Q \in Nat /\ P <= Q /\ Q <= n /\ MinOf(n, n) = n
  BY <1>1 DEF MinOf
<1>5. CASE f.base_fee_mode = "Linear"
  <2>1. \A k \in Nat : fee(k) = IF r * MinOf(k, n) <= c THEN c - r * MinOf(k, n) ELSE Failed
    BY <1>5 DEF get_base_fee_numerator_by_period
  <2>2. r * n <= c
    BY <1>1, <1>3, <1>4, <2>1
  <2>3. 0 <= r * P /\ r * P <= r * Q /\ r * Q <= r * n /\ {r * P, r * Q, r * n} \subseteq Int
    <3>1. \A x, y, z \in Nat : y <= z => 0 <= x * y /\ x * y <= x * z
      OBVIOUS
    <3> QED BY <1>1, <1>4, <3>1
  <2>4. r * P <= c /\ r * Q <= c
    BY <1>1, <2>2, <2>3
  <2>5. fee(d) = c - r * P /\ fee(e) = c - r * Q
    BY <2>1, <2>4
  <2> HIDE DEF P, Q, fee, c, r, n
  <2>6. fee(d) \in Nat /\ fee(e) \in Nat /\ fee(e) <= fee(d) /\ fee(d) <= c
    BY <1>1, <2>3, <2>4, <2>5
  <2> QED BY <2>6 DEF fee, c
<1>6. CASE f.base_fee_mode = "Exponential"
  <2>1. \A k \in Nat : fee(k) = get_fee_in_period(c, r, MinOf(k, n))
    BY <1>6 DEF get_base_fee_numerator_by_period
  <2>2. fee(n) = get_fee_in_period(c, r, n) /\ fee(d) = get_fee_in_period(c, r, P)
        /\ fee(e) = get_fee_in_period(c, r, Q)
    BY <1>1, <1>4, <2>1
  <2> HIDE DEF P, Q, fee, c, r, n
  <2>3. get_fee_in_period(c, r, n) # Failed
    BY <1>3, <2>2
  <2>4. get_fee_in_period(c, r, Q) \in Nat
    BY <1>1, <1>2, <1>4, <2>3, FeeInPeriodFalls
  <2>5. get_fee_in_period(c, r, Q) # Failed /\ Q <= U16_MAX
    <3>1. U16_MAX \in Nat
      BY DEF U16_MAX
    <3> QED BY <1>1, <1>4, <2>4, <3>1 DEF Failed
  <2>6. /\ get_fee_in_period(c, r, P) \in Nat /\ get_fee_in_period(c, r, P) <= c
        /\ get_fee_in_period(c, r, Q) <= get_fee_in_period(c, r, P)
    BY <1>1, <1>2, <1>4, <2>5, FeeInPeriodFalls
  <2> QED BY <2>2, <2>4, <2>6 DEF fee, c
<1> QED BY <1>1, <1>5, <1>6

-----------------------------------------------------------------------------
(***************************************************************************)
(* The rate limiter.                                                       *)
(***************************************************************************)

\* A rate limiter that create_config accepted and that limits something.
RealLimiter(f) ==
    /\ f \in BaseFeeConfig
    /\ f.cliff_fee_numerator <= MAX_FEE_NUMERATOR
    /\ f.first_factor # 0 /\ f.third_factor # 0

\* Its increment is positive, and so is the number of slices below the maximum.
LEMMA LimiterIncrement ==
    ASSUME NEW f, RealLimiter(f)
    PROVE  /\ to_numerator(f.first_factor) \in Nat \ {0}
           /\ get_max_index(f) \in Nat
           /\ f.cliff_fee_numerator + to_numerator(f.first_factor) * get_max_index(f)
                  <= MAX_FEE_NUMERATOR
           /\ MAX_FEE_NUMERATOR < f.cliff_fee_numerator
                  + to_numerator(f.first_factor) * get_max_index(f) + to_numerator(f.first_factor)
<1> DEFINE i == to_numerator(f.first_factor)
           x == MAX_FEE_NUMERATOR - f.cliff_fee_numerator
           mi == get_max_index(f)
           B == BASIS_POINT_MAX
           D == FEE_DENOMINATOR
<1>1. /\ B \in Nat /\ B > 0 /\ D \in Nat /\ B <= D /\ f.first_factor \in Nat /\ 1 <= f.first_factor
      /\ x \in Nat /\ MAX_FEE_NUMERATOR \in Nat /\ f.cliff_fee_numerator \in Nat
  <2>1. f.first_factor \in Nat /\ f.first_factor # 0 /\ f.cliff_fee_numerator \in Nat
        /\ f.cliff_fee_numerator <= MAX_FEE_NUMERATOR
    BY BaseFeeFields DEF RealLimiter
  <2> QED BY <2>1, FeeAssumption, BaseFeeAssumption DEF FeeAssumption, BaseFeeAssumption
<1>2. i \in Int /\ \A k \in Int : B * k <= f.first_factor * D => k <= i
  <2>1. f.first_factor \in Int /\ D \in Int /\ B \in Int /\ B > 0
    BY <1>1
  <2>2. i = MulDivDown(f.first_factor, D, B)
    BY DEF to_numerator
  <2> HIDE DEF i, D, B
  <2> QED BY <2>1, <2>2, DownProps
<1> HIDE DEF i
<1>3. 1 <= i
  <2>1. 1 * D <= f.first_factor * D
    <3>1. \A a, b, c \in Nat : b <= c => b * a <= c * a
      OBVIOUS
    <3> QED BY <1>1, <3>1
  <2>2. B * 1 <= f.first_factor * D
    BY <1>1, <2>1
  <2> QED BY <1>2, <2>2
<1>4. mi = x \div i
  BY DEF get_max_index, i
<1> HIDE DEF x, mi
<1>5. mi \in Int /\ i * mi <= x /\ x < i * mi + i
  BY <1>1, <1>2, <1>3, <1>4, Floor
<1>6. 0 <= mi
  <2>1. i * 0 <= x
    BY <1>1, <1>2
  <2> QED BY <1>1, <1>2, <1>3, <1>4, <2>1, FloorLargest
<1> QED BY <1>1, <1>2, <1>3, <1>5, <1>6 DEF i, x, mi

\* The product of two neighbours is even.
LEMMA NeighboursEven ==
    ASSUME NEW n \in Nat
    PROVE  \E t \in Nat : n * (n + 1) = 2 * t
<1>1. PICK m \in Nat : n = 2 * m \/ n = 2 * m + 1
  <2>1. n \div 2 \in Nat /\ (n = 2 * (n \div 2) \/ n = 2 * (n \div 2) + 1)
    OBVIOUS
  <2> QED BY <2>1
<1>2. CASE n = 2 * m
  <2>1. m * (2 * m + 1) \in Nat /\ n * (n + 1) = 2 * (m * (2 * m + 1))
    BY <1>2
  <2> QED BY <2>1
<1>3. CASE n = 2 * m + 1
  <2>1. (2 * m + 1) * (m + 1) \in Nat /\ n * (n + 1) = 2 * ((2 * m + 1) * (m + 1))
    BY <1>3
  <2> QED BY <2>1
<1> QED BY <1>1, <1>2, <1>3

\* The sum of the increments of n + 1 slices, as the program computes it.
Increments(i, n) == (i * n * (n + 1)) \div 2

\* The next slice has n + 1 increments more.
LEMMA IncrementsAdd ==
    ASSUME NEW i \in Nat, NEW n \in Nat
    PROVE  /\ Increments(i, n) \in Nat /\ Increments(i, 0) = 0
           /\ Increments(i, n + 1) = Increments(i, n) + i * (n + 1)
<1>1. PICK t \in Nat : n * (n + 1) = 2 * t
  BY NeighboursEven
<1>2. i * n * (n + 1) = 2 * (i * t)
  <2>1. i * n * (n + 1) = i * (n * (n + 1))
    OBVIOUS
  <2>2. i * (2 * t) = 2 * (i * t)
    OBVIOUS
  <2> QED BY <1>1, <2>1, <2>2
<1>3. i * (n + 1) * ((n + 1) + 1) = 2 * (i * t + i * (n + 1))
  <2>1. (n + 1) * ((n + 1) + 1) = 2 * t + 2 * (n + 1)
    BY <1>1
  <2>2. i * (n + 1) * ((n + 1) + 1) = i * ((n + 1) * ((n + 1) + 1))
    OBVIOUS
  <2>3. i * (2 * t + 2 * (n + 1)) = 2 * (i * t + i * (n + 1))
    OBVIOUS
  <2> QED BY <2>1, <2>2, <2>3
<1>4. i * t \in Nat /\ i * t + i * (n + 1) \in Nat
  OBVIOUS
<1>5. \A x \in Nat : (2 * x) \div 2 = x
  OBVIOUS
<1>6. Increments(i, n) = i * t /\ Increments(i, n + 1) = i * t + i * (n + 1)
  BY <1>2, <1>3, <1>4, <1>5 DEF Increments
<1>7. Increments(i, 0) = 0
  BY DEF Increments
<1> QED BY <1>4, <1>6, <1>7

\* What k slices of one unit each would pay in all.
SliceSum(f, k) ==
    LET c  == f.cliff_fee_numerator
        i  == to_numerator(f.first_factor)
        mi == get_max_index(f)
    IN  IF k = 0 THEN 0
        ELSE IF k <= mi + 1 THEN c + c * (k - 1) + Increments(i, k - 1)
        ELSE c + c * mi + Increments(i, mi) + (k - (mi + 1)) * MAX_FEE_NUMERATOR

\* The rate of a slice, before and after the maximum.
LEMMA RateOfSlice ==
    ASSUME NEW f, RealLimiter(f), NEW k \in Nat
    PROVE  /\ k <= get_max_index(f) =>
                  SliceRate(f, k) = f.cliff_fee_numerator + to_numerator(f.first_factor) * k
           /\ k > get_max_index(f) => SliceRate(f, k) = MAX_FEE_NUMERATOR
           /\ SliceRate(f, k) \in Nat /\ f.cliff_fee_numerator <= SliceRate(f, k)
           /\ SliceRate(f, 0) = f.cliff_fee_numerator
<1> DEFINE c == f.cliff_fee_numerator
           i == to_numerator(f.first_factor)
           mi == get_max_index(f)
           M == MAX_FEE_NUMERATOR
           R(j) == SliceRate(f, j)
<1>1. c \in Nat /\ c <= M /\ M \in Nat
  BY FeeAssumption, BaseFeeFields DEF FeeAssumption, RealLimiter
<1>2. i \in Nat \ {0} /\ mi \in Nat /\ c + i * mi <= M /\ M < c + i * mi + i
  BY LimiterIncrement
<1>3. \A j \in Nat : R(j) = IF c + j * i <= M THEN c + j * i ELSE M
  BY DEF SliceRate
<1> HIDE DEF c, i, mi, M, R
<1>4. \A j \in Nat : j * i = i * j /\ i * j \in Nat
  BY <1>2
<1>5. k <= mi => R(k) = c + i * k
  <2>1. SUFFICES ASSUME k <= mi PROVE R(k) = c + i * k
    OBVIOUS
  <2>2. i * k <= i * mi
    BY <1>2, <2>1, Scaled
  <2> QED BY <1>1, <1>2, <1>3, <1>4, <2>2
<1>6. k > mi => R(k) = M
  <2>1. SUFFICES ASSUME k > mi PROVE R(k) = M
    OBVIOUS
  <2>2. i * (mi + 1) <= i * k
    BY <1>2, <2>1, Scaled
  <2>3. i * (mi + 1) = i * mi + i
    BY <1>2
  <2>4. M < c + k * i
    BY <1>1, <1>2, <1>4, <2>2, <2>3
  <2> QED BY <1>1, <1>3, <1>4, <2>4
<1>7. R(k) \in Nat /\ c <= R(k)
  BY <1>1, <1>3, <1>4
<1>8. R(0) = c
  <2>1. 0 * i = 0
    BY <1>2
  <2> QED BY <1>1, <1>3, <2>1
<1> QED BY <1>5, <1>6, <1>7, <1>8 DEF c, i, mi, M, R

\* One slice more pays its rate more.
LEMMA SliceSumAdds ==
    ASSUME NEW f, RealLimiter(f), NEW k \in Nat
    PROVE  /\ SliceSum(f, k) \in Nat
           /\ SliceSum(f, k + 1) = SliceSum(f, k) + SliceRate(f, k)
<1> DEFINE c == f.cliff_fee_numerator
           i == to_numerator(f.first_factor)
           mi == get_max_index(f)
           M == MAX_FEE_NUMERATOR
           R(j) == SliceRate(f, j)
           I(n) == Increments(i, n)
           W(j) == SliceSum(f, j)
<1>1. c \in Nat /\ c <= M /\ M \in Nat
  BY FeeAssumption, BaseFeeFields DEF FeeAssumption, RealLimiter
<1>2. i \in Nat \ {0} /\ mi \in Nat
  BY LimiterIncrement
<1>3. /\ k <= mi => R(k) = c + i * k
      /\ k > mi => R(k) = M
      /\ R(0) = c
  BY RateOfSlice
<1>4. \A j \in Nat : W(j) = IF j = 0 THEN 0
                            ELSE IF j <= mi + 1 THEN c + c * (j - 1) + I(j - 1)
                            ELSE c + c * mi + I(mi) + (j - (mi + 1)) * M
  BY DEF SliceSum
<1>5. \A n \in Nat : I(n) \in Nat /\ I(0) = 0 /\ I(n + 1) = I(n) + i * (n + 1)
  BY <1>2, IncrementsAdd
<1> HIDE DEF c, i, mi, M, R, I, W
<1>6. W(k) \in Nat
  <2>1. CASE k = 0
    BY <1>4, <2>1
  <2>2. CASE k # 0 /\ k <= mi + 1
    <3>1. k - 1 \in Nat /\ c * (k - 1) \in Nat /\ I(k - 1) \in Nat
      BY <1>1, <1>5, <2>2
    <3> QED BY <1>1, <1>2, <1>4, <2>2, <3>1
  <2>3. CASE k > mi + 1
    <3>1. (k - (mi + 1)) \in Nat /\ (k - (mi + 1)) * M \in Nat /\ c * mi \in Nat /\ I(mi) \in Nat
      BY <1>1, <1>2, <1>5, <2>3
    <3>2. W(k) = c + c * mi + I(mi) + (k - (mi + 1)) * M
      BY <1>2, <1>4, <2>3
    <3> HIDE DEF W
    <3> QED BY <1>1, <3>1, <3>2
  <2> QED BY <1>2, <2>1, <2>2, <2>3
<1>7. W(k + 1) = W(k) + R(k)
  <2>1. CASE k = 0
    <3>1. W(1) = c + c * (1 - 1) + I(1 - 1)
      BY <1>2, <1>4
    <3>2. 1 - 1 = 0 /\ c * 0 = 0 /\ I(0) = 0
      BY <1>1, <1>5
    <3> QED BY <1>1, <1>3, <1>4, <2>1, <3>1, <3>2
  <2>2. CASE k # 0 /\ k <= mi
    <3>1. W(k + 1) = c + c * k + I(k)
      <4>1. (k + 1) - 1 = k /\ k + 1 \in Nat /\ k + 1 # 0 /\ k + 1 <= mi + 1
        BY <1>2, <2>2
      <4> QED BY <1>4, <4>1
    <3>2. W(k) = c + c * (k - 1) + I(k - 1)
      BY <1>2, <1>4, <2>2
    <3>3. k - 1 \in Nat /\ (k - 1) + 1 = k
      BY <2>2
    <3>4. I(k) = I(k - 1) + i * k /\ I(k - 1) \in Nat
      BY <1>5, <3>3
    <3>5. c * (k - 1) = c * k - c /\ c * k \in Nat /\ i * k \in Nat
      BY <1>1, <1>2
    <3> QED BY <1>1, <1>3, <2>2, <3>1, <3>2, <3>4, <3>5
  <2>3. CASE k = mi + 1
    <3>1. W(k + 1) = c + c * mi + I(mi) + ((k + 1) - (mi + 1)) * M
      BY <1>2, <1>4, <2>3
    <3>2. W(k) = c + c * mi + I(mi)
      <4>1. W(k) = c + c * (k - 1) + I(k - 1) /\ k - 1 = mi
        BY <1>2, <1>4, <2>3
      <4> QED BY <4>1
    <3>3. (k + 1) - (mi + 1) = 1 /\ 1 * M = M
      BY <1>1, <1>2, <2>3
    <3>4. R(k) = M
      BY <1>2, <1>3, <2>3
    <3> QED BY <3>1, <3>2, <3>3, <3>4
  <2>4. CASE k > mi + 1
    <3>1. W(k + 1) = c + c * mi + I(mi) + ((k + 1) - (mi + 1)) * M
      BY <1>2, <1>4, <2>4
    <3>2. W(k) = c + c * mi + I(mi) + (k - (mi + 1)) * M
      BY <1>2, <1>4, <2>4
    <3>3. ((k + 1) - (mi + 1)) * M = (k - (mi + 1)) * M + M
      BY <1>1, <1>2
    <3>4. c * mi \in Nat /\ I(mi) \in Nat /\ (k - (mi + 1)) * M \in Int
      BY <1>1, <1>2, <1>5
    <3> QED BY <1>1, <1>2, <1>3, <2>4, <3>1, <3>2, <3>3, <3>4
  <2> QED BY <1>2, <2>1, <2>2, <2>3, <2>4
<1> QED BY <1>6, <1>7 DEF W, R


\* The rates of the units of an amount.
UnitRates(f, amount) == [u \in 1 .. amount |-> SliceRate(f, (u - 1) \div f.third_factor)]

\* Unit by unit, an amount pays its full slices and its rest at the rate of the last one.
LEMMA UnitsAddUp ==
    ASSUME NEW f, RealLimiter(f), NEW amount \in Nat
    PROVE  Total(UnitRates(f, amount), amount) =
               f.third_factor * SliceSum(f, amount \div f.third_factor)
               + (amount % f.third_factor) * SliceRate(f, amount \div f.third_factor)
<1> DEFINE x == f.third_factor
           R(k) == SliceRate(f, k)
           W(k) == SliceSum(f, k)
           a == UnitRates(f, amount)
           G(u) == x * W(u \div x) + (u % x) * R(u \div x)
<1>1. x \in Nat \ {0}
  BY BaseFeeFields DEF RealLimiter
<1>2. \A k \in Nat : R(k) \in Nat /\ W(k) \in Nat /\ W(k + 1) = W(k) + R(k)
  BY RateOfSlice, SliceSumAdds
<1>3. W(0) = 0
  BY DEF SliceSum
<1>4. a = [u \in 1 .. amount |-> R((u - 1) \div x)]
  BY DEF UnitRates
<1> HIDE DEF x, R, W, a
<1>5. \A u \in Nat : u \div x \in Nat /\ u % x \in Nat /\ u % x < x /\ u = x * (u \div x) + (u % x)
  <2> TAKE u \in Nat
  <2>1. x \in Nat /\ x > 0
    BY <1>1
  <2> QED BY <2>1, DivMod
<1>6. a \in [1 .. amount -> Int]
  <2>1. \A u \in 1 .. amount : R((u - 1) \div x) \in Int
    <3> TAKE u \in 1 .. amount
    <3>1. u - 1 \in Nat
      OBVIOUS
    <3> QED BY <1>2, <1>5, <3>1
  <2> QED BY <1>4, <2>1
<1>7. PICK s \in [0 .. amount -> Int] : /\ s[0] = 0
                                        /\ \A u \in 1 .. amount : s[u] = s[u - 1] + a[u]
                                        /\ Total(a, amount) = s[amount]
  BY <1>6, TotalDefined
<1>8. ASSUME NEW u \in Nat PROVE G(u + 1) = G(u) + R(u \div x)
  <2> DEFINE k == u \div x
             b == u % x
  <2>1. k \in Nat /\ b \in Nat /\ b < x /\ u = x * k + b
    BY <1>5
  <2>2. G(u) = x * W(k) + b * R(k)
    OBVIOUS
  <2>3. \A q, r \in Nat : r < x /\ u + 1 = x * q + r => (u + 1) \div x = q /\ (u + 1) % x = r
    <3> TAKE q, r \in Nat
    <3>1. x \in Nat /\ x > 0 /\ u + 1 \in Nat
      BY <1>1
    <3> QED BY <3>1, DivModUnique
  <2> HIDE DEF k, b
  <2>4. CASE b + 1 < x
    <3>1. b + 1 \in Nat /\ u + 1 = x * k + (b + 1)
      BY <1>1, <2>1
    <3>2. (u + 1) \div x = k /\ (u + 1) % x = b + 1
      BY <2>1, <2>3, <2>4, <3>1
    <3>3. G(u + 1) = x * W(k) + (b + 1) * R(k)
      BY <3>2
    <3>4. (b + 1) * R(k) = b * R(k) + R(k)
      <4>1. R(k) \in Int /\ b \in Int
        BY <1>2, <2>1
      <4>2. \A p, q \in Int : (p + 1) * q = p * q + q
        OBVIOUS
      <4> QED BY <4>1, <4>2
    <3>5. x * W(k) \in Int /\ b * R(k) \in Int /\ R(k) \in Int
      <4>1. R(k) \in Int /\ b \in Int /\ x \in Int
        BY <1>1, <1>2, <2>1
      <4>2. W(k) \in Int
        BY <1>2, <2>1
      <4> QED BY <4>1, <4>2
    <3> HIDE DEF G
    <3>6. G(u + 1) = G(u) + R(k)
      BY <2>2, <3>3, <3>4, <3>5
    <3> QED BY <3>6 DEF k
  <2>5. CASE b + 1 = x
    <3>1. k + 1 \in Nat /\ 0 < x /\ u + 1 = x * (k + 1) + 0
      BY <1>1, <2>1, <2>5
    <3>2. (u + 1) \div x = k + 1 /\ (u + 1) % x = 0
      BY <2>3, <3>1
    <3>3. G(u + 1) = x * W(k + 1) + 0 * R(k + 1)
      BY <3>2
    <3>4. x * W(k + 1) = x * W(k) + x * R(k) /\ 0 * R(k + 1) = 0
      <4>1. W(k) \in Int /\ R(k) \in Int /\ R(k + 1) \in Int /\ W(k + 1) = W(k) + R(k)
        BY <1>2, <2>1, <3>1
      <4>2. \A p, q, r \in Int : p * (q + r) = p * q + p * r /\ 0 * p = 0
        OBVIOUS
      <4> QED BY <1>1, <4>1, <4>2
    <3>5. x * R(k) = b * R(k) + R(k)
      <4>1. R(k) \in Int
        BY <1>2, <2>1
      <4>2. \A p, q \in Int : (p + 1) * q = p * q + q
        OBVIOUS
      <4> QED BY <2>1, <2>5, <4>1, <4>2
    <3>6. x * W(k) \in Int /\ b * R(k) \in Int /\ R(k) \in Int /\ x * R(k) \in Int
      <4>1. R(k) \in Int /\ b \in Int /\ x \in Int
        BY <1>1, <1>2, <2>1
      <4>2. W(k) \in Int
        BY <1>2, <2>1
      <4> QED BY <4>1, <4>2
    <3> HIDE DEF G
    <3>7. G(u + 1) = G(u) + R(k)
      BY <2>2, <3>3, <3>4, <3>5, <3>6
    <3> QED BY <3>7 DEF k
  <2> QED BY <1>1, <2>1, <2>4, <2>5
<1>9. G(0) = 0
  <2>1. 0 \div x = 0 /\ 0 % x = 0
    BY <1>1
  <2>2. R(0) \in Int
    BY <1>2
  <2>3. G(0) = x * 0 + 0 * R(0)
    BY <1>3, <2>1
  <2> HIDE DEF G
  <2> QED BY <1>1, <2>2, <2>3
<1> HIDE DEF G
<1>10. s[amount] = G(amount)
  <2> DEFINE S == {u \in Nat : u <= amount => s[u] = G(u)}
  <2>1. 0 \in S
    BY <1>7, <1>9
  <2>2. ASSUME NEW u \in S PROVE u + 1 \in S
    <3>1. SUFFICES ASSUME u + 1 <= amount PROVE s[u + 1] = G(u + 1)
      OBVIOUS
    <3>2. u + 1 \in 1 .. amount /\ (u + 1) - 1 = u /\ s[u] = G(u) /\ u \in Nat
      BY <3>1
    <3>3. s[u + 1] = s[u] + a[u + 1] /\ a[u + 1] = R(u \div x)
      BY <1>4, <1>7, <3>2
    <3> QED BY <1>8, <3>2, <3>3
  <2>3. S = Nat
    <3>1. S \in SUBSET Nat
      OBVIOUS
    <3> HIDE DEF S
    <3> QED BY <2>1, <2>2, <3>1, SetInduction
  <2> QED BY <2>3
<1> QED BY <1>7, <1>10 DEF G, x, R, W, a


\* k slices pay at least the first rate each.
LEMMA SliceSumBound ==
    ASSUME NEW f, RealLimiter(f), NEW k \in Nat
    PROVE  f.cliff_fee_numerator * k <= SliceSum(f, k)
<1> DEFINE c == f.cliff_fee_numerator
           S == {j \in Nat : c * j <= SliceSum(f, j)}
<1>1. c \in Nat
  BY BaseFeeFields DEF RealLimiter
<1>2. 0 \in S
  <2>1. SliceSum(f, 0) = 0 /\ c * 0 = 0
    BY <1>1 DEF SliceSum
  <2> QED BY <2>1
<1>3. ASSUME NEW j \in S PROVE j + 1 \in S
  <2> DEFINE w == SliceSum(f, j)
             r == SliceRate(f, j)
  <2>1. w \in Nat /\ SliceSum(f, j + 1) = w + r
    BY SliceSumAdds
  <2>2. r \in Nat /\ c <= r
    BY RateOfSlice
  <2>3. c * j <= w /\ c * j \in Nat /\ c * (j + 1) = c * j + c
    BY <1>1
  <2> HIDE DEF w, r, c
  <2>4. c * (j + 1) <= SliceSum(f, j + 1)
    BY <1>1, <2>1, <2>2, <2>3
  <2> QED BY <2>4
<1>4. S = Nat
  <2>1. S \in SUBSET Nat
    OBVIOUS
  <2> HIDE DEF S
  <2> QED BY <1>2, <1>3, <2>1, SetInduction
<1> QED BY <1>4

\* What the units of an amount pay in all is at least the first rate for each, and exactly that
\* within the first slice.
LEMMA UnitsPayCliff ==
    ASSUME NEW f, RealLimiter(f), NEW amount \in Nat
    PROVE  LET owed == Total(UnitRates(f, amount), amount)
           IN  /\ owed \in Nat /\ f.cliff_fee_numerator * amount <= owed
               /\ amount <= f.third_factor => owed = f.cliff_fee_numerator * amount
<1> DEFINE c == f.cliff_fee_numerator
           x == f.third_factor
           k == amount \div x
           b == amount % x
           w == SliceSum(f, k)
           r == SliceRate(f, k)
           owed == Total(UnitRates(f, amount), amount)
<1>1. c \in Nat /\ x \in Nat /\ x > 0
  BY BaseFeeFields DEF RealLimiter
<1>2. k \in Nat /\ b \in Nat /\ b < x /\ amount = x * k + b
  BY <1>1, DivMod
<1>3. owed = x * w + b * r
  BY UnitsAddUp
<1>4. w \in Nat /\ c * k <= w
  BY <1>2, SliceSumAdds, SliceSumBound
<1>5. r \in Nat /\ c <= r
  BY <1>2, RateOfSlice
<1>6. (k = 0 => w = 0 /\ r = c) /\ (k = 1 => w = c)
  <2>1. SliceSum(f, 0) = 0
    BY DEF SliceSum
  <2>2. SliceRate(f, 0) = c
    BY <1>2, RateOfSlice
  <2>3. SliceSum(f, 0 + 1) = SliceSum(f, 0) + SliceRate(f, 0)
    BY SliceSumAdds
  <2> HIDE DEF c, k
  <2>4. SliceSum(f, 1) = c
    BY <1>1, <2>1, <2>2, <2>3
  <2> QED BY <2>1, <2>2, <2>4
<1> HIDE DEF c, x, k, b, w, r, owed
<1>7. \A p, q, m \in Nat : p <= q => m * p \in Nat /\ m * p <= m * q
  OBVIOUS
<1>8. c * amount <= owed /\ owed \in Nat
  <2>1. x * (c * k) <= x * w /\ b * c <= b * r /\ x * w \in Nat /\ b * r \in Nat
    <3>1. c * k \in Nat
      BY <1>1, <1>2
    <3> QED BY <1>1, <1>2, <1>4, <1>5, <1>7, <3>1
  <2>2. c * amount = x * (c * k) + b * c
    BY <1>1, <1>2
  <2>3. x * (c * k) \in Nat /\ b * c \in Nat
    BY <1>1, <1>2
  <2> QED BY <1>3, <2>1, <2>2, <2>3
<1>9. ASSUME amount <= x PROVE owed = c * amount
  <2>1. k = 0 \/ (k = 1 /\ b = 0)
    <3>1. k < 2
      <4>1. SUFFICES ASSUME 2 <= k PROVE FALSE
        BY <1>2
      <4>2. x * 2 <= x * k
        BY <1>1, <1>2, <4>1, <1>7
      <4> QED BY <1>1, <1>2, <1>9, <4>2
    <3>2. k = 1 => b = 0
      BY <1>1, <1>2, <1>9
    <3> QED BY <1>2, <3>1, <3>2
  <2>2. CASE k = 0
    <3>1. x * 0 = 0 /\ amount = b /\ owed = x * 0 + b * c
      BY <1>1, <1>2, <1>3, <1>6, <2>2
    <3> QED BY <1>1, <1>2, <3>1
  <2>3. CASE k = 1 /\ b = 0
    <3>1. amount = x
      BY <1>1, <1>2, <2>3
    <3>2. owed = x * c + 0 * r
      BY <1>3, <1>6, <2>3
    <3>3. 0 * r = 0
      BY <1>5
    <3> QED BY <1>1, <3>1, <3>2, <3>3
  <2> QED BY <2>1, <2>2, <2>3
<1> QED BY <1>8, <1>9 DEF c, x, owed

\* The closed form of the program, in its two cases around get_max_index, is that sum.
LEMMA LimiterNumerator ==
    ASSUME NEW f, RealLimiter(f), NEW amount \in Nat
    PROVE  get_fee_numerator_from_included_fee_amount(f, amount) =
               IF amount <= f.third_factor THEN f.cliff_fee_numerator
               ELSE NumeratorOfFee(MulDivUp(Total(UnitRates(f, amount), amount), 1, FEE_DENOMINATOR),
                                   amount)
<1> DEFINE x  == f.third_factor
           c  == f.cliff_fee_numerator
           i  == to_numerator(f.first_factor)
           mi == get_max_index(f)
           M  == MAX_FEE_NUMERATOR
           a  == (amount - x) \div x
           b  == (amount - x) % x
           full(n) == x * (c + c * n + (i * n * (n + 1)) \div 2)
           fee == IF a < mi THEN full(a) + b * (c + i * (a + 1))
                  ELSE full(mi) + ((a - mi) * x + b) * M
           owed == Total(UnitRates(f, amount), amount)
           W(k) == SliceSum(f, k)
           R(k) == SliceRate(f, k)
<1>1. get_fee_numerator_from_included_fee_amount(f, amount) =
          IF amount <= x THEN c ELSE NumeratorOfFee(MulDivUp(fee, 1, FEE_DENOMINATOR), amount)
  BY DEF get_fee_numerator_from_included_fee_amount
<1>2. SUFFICES ASSUME amount > x PROVE fee = owed
  <2>1. x \in Nat
    BY BaseFeeFields DEF RealLimiter
  <2> HIDE DEF fee, owed, x, c
  <2> QED BY <1>1, <2>1 DEF owed, x, c
<1>3. c \in Nat /\ x \in Nat /\ x > 0 /\ M \in Nat
  BY FeeAssumption, BaseFeeFields DEF FeeAssumption, RealLimiter
<1>4. i \in Nat /\ mi \in Nat
  BY LimiterIncrement
<1>5. a \in Nat /\ b \in Nat /\ b < x /\ amount = x * (a + 1) + b
  <2>1. amount - x \in Nat
    BY <1>2, <1>3
  <2>2. a \in Nat /\ b \in Nat /\ b < x /\ amount - x = x * a + b
    <3> DEFINE y == amount - x
    <3>1. y \in Nat
      BY <2>1
    <3> HIDE DEF y
    <3>2. y \div x \in Nat /\ y % x \in Nat /\ y % x < x /\ y = x * (y \div x) + (y % x)
      BY <1>3, <3>1, DivMod
    <3> QED BY <3>2 DEF y
  <2> HIDE DEF a, b
  <2>3. x * (a + 1) = x * a + x /\ x * a \in Int
    BY <1>3, <2>2
  <2>4. amount = x * (a + 1) + b
    BY <1>3, <2>2, <2>3
  <2> QED BY <2>2, <2>4
<1>6. owed = x * W(a + 1) + b * R(a + 1)
  <2>1. a + 1 \in Nat
    BY <1>5
  <2> HIDE DEF a, b
  <2>2. amount \div x = a + 1 /\ amount % x = b
    BY <1>3, <1>5, <2>1, DivModUnique
  <2> QED BY <2>2, UnitsAddUp
<1>7. /\ a + 1 <= mi => R(a + 1) = c + i * (a + 1)
      /\ a + 1 > mi => R(a + 1) = M
  <2>1. a + 1 \in Nat
    BY <1>5
  <2> HIDE DEF a
  <2> QED BY <2>1, RateOfSlice
<1>8. \A k \in Nat : W(k) = IF k = 0 THEN 0
                            ELSE IF k <= mi + 1 THEN c + c * (k - 1) + Increments(i, k - 1)
                            ELSE c + c * mi + Increments(i, mi) + (k - (mi + 1)) * M
  BY DEF SliceSum
<1>9. \A n \in Nat : full(n) = x * (c + c * n + Increments(i, n)) /\ Increments(i, n) \in Nat
  BY <1>4, IncrementsAdd DEF Increments
<1>w. fee = IF a < mi THEN full(a) + b * (c + i * (a + 1)) ELSE full(mi) + ((a - mi) * x + b) * M
  OBVIOUS
<1> HIDE DEF fee, owed, full, a, b, c, x, i, mi, M, W, R
<1>10. CASE a < mi
  <2>1. W(a + 1) = c + c * ((a + 1) - 1) + Increments(i, (a + 1) - 1)
    BY <1>4, <1>5, <1>8, <1>10
  <2>2. (a + 1) - 1 = a
    BY <1>5
  <2>3. full(a) = x * W(a + 1)
    BY <1>5, <1>9, <2>1, <2>2
  <2>4. R(a + 1) = c + i * (a + 1)
    BY <1>4, <1>5, <1>7, <1>10
  <2> QED BY <1>6, <1>w, <1>10, <2>3, <2>4
<1>11. CASE ~(a < mi)
  <2> DEFINE W0 == c + c * mi + Increments(i, mi)
             d  == a - mi
  <2>1. W0 \in Nat /\ d \in Nat /\ a + 1 = d + (mi + 1)
    <3>1. c * mi \in Nat /\ Increments(i, mi) \in Nat
      BY <1>3, <1>4, <1>9
    <3> QED BY <1>3, <1>4, <1>5, <1>11, <3>1
  <2>2. W(a + 1) = W0 + d * M
    <3>1. CASE a = mi
      <4>1. W(a + 1) = c + c * ((a + 1) - 1) + Increments(i, (a + 1) - 1)
        BY <1>4, <1>5, <1>8, <3>1
      <4>2. (a + 1) - 1 = mi /\ d = 0 /\ 0 * M = 0
        BY <1>3, <1>4, <1>5, <3>1
      <4>3. W(a + 1) = W0
        BY <4>1, <4>2
      <4> HIDE DEF W0, d
      <4> QED BY <2>1, <4>2, <4>3
    <3>2. CASE a # mi
      <4>1. a + 1 \in Nat /\ a + 1 # 0 /\ ~(a + 1 <= mi + 1) /\ (a + 1) - (mi + 1) = d
        BY <1>4, <1>5, <1>11, <3>2
      <4>2. W(a + 1) = c + c * mi + Increments(i, mi) + ((a + 1) - (mi + 1)) * M
        BY <1>8, <4>1
      <4> QED BY <4>1, <4>2
    <3> QED BY <3>1, <3>2
  <2>3. full(mi) = x * W0
    BY <1>4, <1>9
  <2>4. R(a + 1) = M
    BY <1>4, <1>5, <1>7, <1>11
  <2>5. fee = x * W0 + (d * x + b) * M
    BY <1>w, <1>11, <2>3
  <2> HIDE DEF W0, d
  <2>6. owed = x * (W0 + d * M) + b * M
    BY <1>6, <2>2, <2>4
  <2>7. x * (W0 + d * M) + b * M = x * W0 + (d * x + b) * M
    <3>1. \A p, q, r, s, t \in Int : p * (q + r * s) + t * s = p * q + (r * p + t) * s
      OBVIOUS
    <3> QED BY <1>3, <1>5, <2>1, <3>1
  <2> QED BY <2>5, <2>6, <2>7
<1> QED BY <1>10, <1>11


\* A fee taken at the rate of a larger amount is at least the first rate.
LEMMA LimiterAboveCliff ==
    ASSUME NEW f, RealLimiter(f), NEW amount \in Nat
    PROVE  /\ get_fee_numerator_from_included_fee_amount(f, amount) \in Nat
           /\ f.cliff_fee_numerator <= get_fee_numerator_from_included_fee_amount(f, amount)
<1> DEFINE c == f.cliff_fee_numerator
           D == FEE_DENOMINATOR
           owed == Total(UnitRates(f, amount), amount)
           F == MulDivUp(owed, 1, D)
           n == MulDivUp(F, D, amount)
<1>1. c \in Nat /\ f.third_factor \in Nat /\ D \in Nat /\ D > 0
  BY BaseFeeFields, FeeAssumption DEF RealLimiter, FeeAssumption
<1>2. CASE amount <= f.third_factor
  BY <1>1, <1>2, LimiterNumerator
<1>3. CASE ~(amount <= f.third_factor)
  <2>1. get_fee_numerator_from_included_fee_amount(f, amount) = n
    BY <1>3, LimiterNumerator DEF NumeratorOfFee
  <2>2. amount > 0
    BY <1>1, <1>3
  <2>3. owed \in Nat /\ c * amount <= owed
    BY UnitsPayCliff
  <2> HIDE DEF c, D, owed
  <2>4. F \in Int /\ owed * 1 <= D * F
    BY <1>1, <2>3, UpProps
  <2> HIDE DEF F
  <2>5. n \in Int /\ F * D <= amount * n
    <3>1. F \in Int /\ D \in Int /\ amount \in Int /\ amount > 0
      BY <1>1, <2>2, <2>4
    <3> QED BY <3>1, UpProps
  <2> HIDE DEF n
  <2>6. amount * c <= amount * n
    <3>1. owed * 1 = owed /\ D * F = F * D /\ F * D \in Int /\ c * amount = amount * c
      BY <1>1, <2>3, <2>4
    <3>2. amount * c \in Int /\ amount * n \in Int
      BY <1>1, <2>5
    <3> QED BY <2>3, <2>4, <2>5, <3>1, <3>2
  <2>7. c <= n
    BY <1>1, <2>2, <2>5, <2>6, Cancel
  <2> QED BY <1>1, <2>1, <2>5, <2>7 DEF c
<1> QED BY <1>2, <1>3

\* The fee it takes is what the slices add up to, and the rounding of the numerator at most.
LEMMA LimiterFee ==
    ASSUME NEW f, RealLimiter(f), NEW amount \in Nat \ {0}
    PROVE  LET fee  == FeeOfIncluded(get_fee_numerator_from_included_fee_amount(f, amount), amount)
               owed == FeeBySlices(f, amount)
           IN  fee \in owed .. owed + MulDivUp(amount, 1, FEE_DENOMINATOR)
<1> DEFINE c == f.cliff_fee_numerator
           D == FEE_DENOMINATOR
           sum == Total(UnitRates(f, amount), amount)
           n == get_fee_numerator_from_included_fee_amount(f, amount)
           fee == MulDivUp(amount, n, D)
           owed == MulDivUp(sum, 1, D)
           more == MulDivUp(amount, 1, D)
<1>1. c \in Nat /\ D \in Nat /\ D > 0 /\ amount \in Nat /\ amount > 0
  BY BaseFeeFields, FeeAssumption DEF RealLimiter, FeeAssumption
<1>2. FeeOfIncluded(n, amount) = fee /\ FeeBySlices(f, amount) = owed
  BY DEF FeeOfIncluded, FeeBySlices, UnitRates
<1>3. sum \in Nat /\ (amount <= f.third_factor => sum = c * amount)
  BY UnitsPayCliff
<1>4. n \in Nat
  BY LimiterAboveCliff
<1>5. n = IF amount <= f.third_factor THEN c ELSE MulDivUp(owed, D, amount)
  BY LimiterNumerator DEF NumeratorOfFee
<1> HIDE DEF n, sum, c, D
<1>6. /\ owed \in Int /\ sum * 1 <= D * owed /\ \A k \in Int : sum * 1 <= D * k => owed <= k
  <2>1. sum \in Int /\ 1 \in Int /\ D \in Int /\ D > 0
    BY <1>1, <1>3
  <2> QED BY <2>1, UpProps
<1>7. /\ fee \in Int /\ amount * n <= D * fee /\ D * fee < amount * n + D
      /\ \A k \in Int : amount * n <= D * k => fee <= k
  BY <1>1, <1>4, UpProps
<1>8. more \in Int /\ amount * 1 <= D * more
  BY <1>1, UpProps
<1>9. 0 <= more
  <2>1. D * 0 < D * more
    BY <1>1, <1>8
  <2> HIDE DEF more
  <2>2. 0 < more
    BY <1>1, <1>8, <2>1, Cancel
  <2> QED BY <1>8, <2>2
<1>10. CASE amount <= f.third_factor
  <2>1. amount * n = sum * 1
    BY <1>1, <1>3, <1>5, <1>10
  <2> HIDE DEF fee, owed, more
  <2>2. fee <= owed /\ owed <= fee
    BY <1>6, <1>7, <2>1
  <2>3. fee \in owed .. owed + more
    BY <1>6, <1>7, <1>8, <1>9, <2>2
  <2> QED BY <1>2, <2>3 DEF n, more, D
<1>11. CASE ~(amount <= f.third_factor)
  <2>1. n = MulDivUp(owed, D, amount)
    BY <1>5, <1>11
  <2> HIDE DEF fee, owed, more
  <2>2. owed * D <= amount * n /\ amount * n < owed * D + amount
    <3>1. owed \in Int /\ D \in Int /\ amount \in Int /\ amount > 0
      BY <1>1, <1>6
    <3> HIDE DEF n
    <3> QED BY <2>1, <3>1, UpProps
  <2>3. D * owed <= D * fee
    <3>1. owed * D = D * owed /\ {D * owed, amount * n, D * fee} \subseteq Int
      BY <1>1, <1>4, <1>6, <1>7
    <3> QED BY <1>7, <2>2, <3>1
  <2>4. owed <= fee
    BY <1>1, <1>6, <1>7, <2>3, Cancel
  <2>5. fee <= owed + more
    <3>1. D * (owed + more) = D * owed + D * more /\ owed * D = D * owed
      BY <1>1, <1>6, <1>8
    <3>2. {D * owed, amount * n, D * more} \subseteq Int /\ amount * 1 = amount
      BY <1>1, <1>4, <1>6, <1>8
    <3>3. amount * n <= D * (owed + more)
      BY <1>1, <1>8, <2>2, <3>1, <3>2
    <3> QED BY <1>6, <1>7, <1>8, <3>3
  <2>6. fee \in owed .. owed + more
    BY <1>6, <1>7, <1>8, <2>4, <2>5
  <2> QED BY <1>2, <2>6 DEF n, more, D
<1> QED BY <1>10, <1>11

-----------------------------------------------------------------------------
(***************************************************************************)
(* The base fee of a swap.                                                 *)
(***************************************************************************)

\* A rate limiter of an accepted configuration that is applied really limits.
LEMMA AppliedLimiter ==
    ASSUME FeesFixed, NEW t, is_rate_limiter_applied(fees.base_fee, t, Start)
    PROVE  RealLimiter(fees.base_fee)
<1> DEFINE f == fees.base_fee
<1>1. f.base_fee_mode = "RateLimiter" /\ ~ is_zero_rate_limiter(f)
  BY DEF is_rate_limiter_applied
<1>2. f \in BaseFeeConfig /\ ValidFeeRateLimiter(f, fees.collect_fee_mode)
  BY <1>1, TradingFeeAssumption DEF FeesFixed, ValidFees, ValidBaseFee, TradingFeeAssumption
<1>3. f.cliff_fee_numerator \in Nat /\ MAX_FEE_NUMERATOR \in Nat
  BY <1>2, BaseFeeFields, FeeAssumption DEF FeeAssumption
<1> QED BY <1>1, <1>2, <1>3 DEF ValidFeeRateLimiter, RealLimiter, MIN_FEE_NUMERATOR

\* The base fee of a later time is at most that of an earlier one.
LEMMA BaseFeeLater ==
    ASSUME FeesFixed, NEW t \in Nat, now <= t, NEW amount \in Nat
    PROVE  get_base_fee_numerator_for(fees.base_fee, "included", t, Start, amount)
               <= BaseNumerator("included", amount)
<1> DEFINE f == fees.base_fee
           old == BaseNumerator("included", amount)
           new == get_base_fee_numerator_for(f, "included", t, Start, amount)
<1>1. f \in BaseFeeConfig /\ ValidBaseFee(f, fees.collect_fee_mode) /\ Start \in Nat
      /\ now \in Nat /\ Start <= now
  BY TradingFeeAssumption DEF FeesFixed, ValidFees, TradingFeeAssumption
<1>2. f.second_factor \in Nat /\ f.cliff_fee_numerator \in Nat
  BY <1>1, BaseFeeFields
<1>3. CASE f.base_fee_mode # "RateLimiter"
  <2>1. old = get_base_fee_numerator(f, now, Start) /\ new = get_base_fee_numerator(f, t, Start)
    BY <1>3 DEF BaseNumerator, get_base_fee_numerator_for
  <2>2. ValidFeeScheduler(f)
    BY <1>1, <1>3 DEF ValidBaseFee
  <2>3. CASE f.second_factor = 0
    BY <1>2, <2>1, <2>3 DEF get_base_fee_numerator
  <2>4. CASE f.second_factor # 0
    <3> DEFINE d == (now - Start) \div f.second_factor
               e == (t - Start) \div f.second_factor
               p == f.second_factor
               x == now - Start
               y == t - Start
    <3>1. x \in Nat /\ y \in Nat /\ x <= y /\ p \in Nat /\ p > 0
      BY <1>1, <1>2, <2>4
    <3>2. d \in Nat /\ e \in Nat /\ d <= e
      <4> HIDE DEF x, y, p
      <4>1. x \div p \in Nat /\ y \div p \in Nat
        BY <3>1, DivMod
      <4>2. p * (x \div p) <= x /\ (x \div p) \in Int /\ p \in Int /\ x \in Int /\ y \in Int
        BY <3>1, Floor
      <4>3. p * (x \div p) <= y
        <5> DEFINE q == x \div p
        <5>1. p * q \in Int /\ p * q <= x
          BY <4>2
        <5> HIDE DEF q
        <5>2. p * q <= y
          BY <3>1, <5>1
        <5> QED BY <5>2 DEF q
      <4>4. x \div p <= y \div p
        BY <3>1, <4>2, <4>3, FloorLargest
      <4> QED BY <4>1, <4>4 DEF x, y, p
    <3>3. old = get_base_fee_numerator_by_period(f, d)
          /\ new = get_base_fee_numerator_by_period(f, e)
      <4>1. ~(now < Start) /\ ~(t < Start)
        BY <1>1
      <4> QED BY <2>1, <2>4, <4>1 DEF get_base_fee_numerator
    <3> HIDE DEF d, e
    <3>4. get_base_fee_numerator_by_period(f, e) <= get_base_fee_numerator_by_period(f, d)
      BY <1>1, <1>3, <2>2, <2>4, <3>2, ScheduleFalls
    <3> QED BY <3>3, <3>4
  <2> QED BY <2>3, <2>4
<1>4. CASE f.base_fee_mode = "RateLimiter"
  <2> DEFINE limited(u) == is_rate_limiter_applied(f, u, Start)
             rate == get_fee_numerator_from_included_fee_amount(f, amount)
             cliff == f.cliff_fee_numerator
  <2>1. old = (IF limited(now) THEN rate ELSE cliff) /\ new = (IF limited(t) THEN rate ELSE cliff)
    BY <1>4 DEF BaseNumerator, get_base_fee_numerator_for
  <2>2. limited(t) => limited(now)
    BY <1>1, <1>2 DEF is_rate_limiter_applied
  <2>3. limited(now) => rate \in Nat /\ cliff <= rate
    BY AppliedLimiter, LimiterAboveCliff
  <2> HIDE DEF limited, rate, cliff
  <2>4. cliff \in Nat
    BY <1>2 DEF cliff
  <2> QED BY <2>1, <2>2, <2>3, <2>4
<1> QED BY <1>3, <1>4

\* Waiting never makes a buy dearer: whatever period, schedule or rate limiter it falls into, the
\* base fee of an amount is at most what it was before (FeeScheduler and FeeRateLimiter,
\* get_base_fee_numerator_from_included_fee_amount).
THEOREM BaseFeeFalls == Spec => BaseFeeNeverRises
<1> DEFINE Falls == \A amount \in Amounts :
               get_base_fee_numerator_for(fees'.base_fee, "included", now', Start, amount)
                   <= BaseNumerator("included", amount)
<1>1. FeesFixed /\ [Next]_vars => [Falls]_now
  <2> SUFFICES ASSUME FeesFixed, [Next]_vars, now' # now, NEW amount \in Amounts
               PROVE  get_base_fee_numerator_for(fees'.base_fee, "included", now', Start, amount)
                          <= BaseNumerator("included", amount)
    OBVIOUS
  <2>1. NextTransaction
    BY DEF Next, Trade, Swap, vars
  <2>2. fees' = fees /\ now' \in now .. MaxTime /\ now \in Nat /\ MaxTime \in Nat
    BY <2>1, TradingFeeAssumption DEF NextTransaction, FeesFixed, TradingFeeAssumption
  <2>3. now' \in Nat /\ now <= now' /\ amount \in Nat
    BY <2>2, TradingFeeAssumption, BaseFeeAssumption DEF TradingFeeAssumption, BaseFeeAssumption
  <2> QED BY <2>2, <2>3, BaseFeeLater
<1> QED BY TrackerInit, TrackerNext, <1>1, PTL DEF Spec, BaseFeeNeverRises

\* The base fee of every swap is defined, but for an exact-out buy under the rate limiter.
LEMMA BaseFeeDefined ==
    ASSUME FeesFixed, NEW side, side = "included" \/ ~ RateLimited, NEW amount \in Nat
    PROVE  BaseNumerator(side, amount) \in Nat
<1> DEFINE f == fees.base_fee
           b == BaseNumerator(side, amount)
<1>1. f \in BaseFeeConfig /\ ValidBaseFee(f, fees.collect_fee_mode) /\ Start \in Nat
      /\ now \in Nat /\ Start <= now
  BY TradingFeeAssumption DEF FeesFixed, ValidFees, TradingFeeAssumption
<1>2. f.second_factor \in Nat /\ f.cliff_fee_numerator \in Nat
  BY <1>1, BaseFeeFields
<1>3. CASE f.base_fee_mode # "RateLimiter"
  <2>1. b = get_base_fee_numerator(f, now, Start)
    BY <1>3 DEF BaseNumerator, get_base_fee_numerator_for
  <2>2. ValidFeeScheduler(f)
    BY <1>1, <1>3 DEF ValidBaseFee
  <2>3. CASE f.second_factor = 0
    BY <1>2, <2>1, <2>3 DEF get_base_fee_numerator
  <2>4. CASE f.second_factor # 0
    <3> DEFINE p == f.second_factor
               x == now - Start
               d == x \div p
    <3>1. x \in Nat /\ p \in Nat /\ p > 0
      BY <1>1, <1>2, <2>4
    <3>2. d \in Nat
      <4> HIDE DEF x, p
      <4> QED BY <3>1, DivMod
    <3>3. b = get_base_fee_numerator_by_period(f, d)
      <4>1. ~(now < Start)
        BY <1>1
      <4> QED BY <2>1, <2>4, <4>1 DEF get_base_fee_numerator
    <3> HIDE DEF d, x, p
    <3>4. d <= d
      BY <3>2
    <3>5. get_base_fee_numerator_by_period(f, d) \in Nat
      BY <1>1, <1>3, <2>2, <2>4, <3>2, <3>4, ScheduleFalls
    <3> QED BY <3>3, <3>5
  <2> QED BY <2>3, <2>4
<1>4. CASE f.base_fee_mode = "RateLimiter"
  <2>1. CASE RateLimited
    <3>1. b = get_fee_numerator_from_included_fee_amount(f, amount)
      BY <1>4, <2>1 DEF BaseNumerator, get_base_fee_numerator_for, RateLimited
    <3>2. RealLimiter(f)
      BY <2>1, AppliedLimiter DEF RateLimited
    <3> QED BY <3>1, <3>2, LimiterAboveCliff
  <2>2. CASE ~ RateLimited
    BY <1>2, <1>4, <2>2 DEF BaseNumerator, get_base_fee_numerator_for, RateLimited
  <2> QED BY <2>1, <2>2
<1> QED BY <1>3, <1>4

\* The dynamic fee is one as well.
LEMMA VariableFeeDefined ==
    ASSUME FeesFixed, TrackerInv
    PROVE  get_variable_fee_numerator(tracker) \in Nat
<1> DEFINE v == tracker.volatility_accumulator
           k == fees.dynamic_fee.variable_fee_control
           s == VARIABLE_FEE_SCALE
           n == MulDivUp(v * v, k, s)
<1>1. CASE ~ fees.dynamic_fee.initialized
  BY <1>1 DEF get_variable_fee_numerator
<1>2. CASE fees.dynamic_fee.initialized
  <2>1. v \in Nat /\ k \in Nat
    BY <1>2, TradingFeeAssumption DEF TrackerInv, VolatilityTracker, FeesFixed, TradingFeeAssumption
  <2>2. s \in Nat /\ s > 0
    BY MigratedPoolFeesAssumption DEF MigratedPoolFeesAssumption
  <2>3. get_variable_fee_numerator(tracker) = n
    BY <1>2 DEF get_variable_fee_numerator
  <2> HIDE DEF v, k, s
  <2>4. v * v \in Nat
    BY <2>1
  <2>5. (v * v) * k \in Nat
    BY <2>1, <2>4
  <2>6. n \in Int /\ (v * v) * k <= s * n
    BY <2>1, <2>2, <2>4, UpProps
  <2> HIDE DEF n
  <2>7. 0 <= n
    <3>1. s * n \in Int /\ s * 0 = 0 /\ 0 \in Int
      BY <2>2, <2>6
    <3>2. s * 0 <= s * n
      BY <2>5, <2>6, <3>1
    <3> QED BY <2>2, <2>6, <3>1, <3>2, Cancel
  <2> QED BY <2>3, <2>6, <2>7
<1> QED BY <1>1, <1>2

\* No accepted fee configuration makes a swap fail later, in whatever period of a schedule, however
\* truncated its powers are, and however large a buy under the rate limiter is
\* (get_total_fee_numerator_from_included_fee_amount and ..._excluded_...).
THEOREM FeesDefined == Spec => []FeesAlwaysDefined
<1>1. ASSUME FeesFixed, TrackerInv PROVE FeesAlwaysDefined
  <2> SUFFICES ASSUME NEW side \in {"included", "excluded"}, NEW amount \in Amounts,
                      side = "excluded" => ~ RateLimited
               PROVE  get_total_fee_numerator(side, amount, tracker) \in 0 .. MAX_FEE_NUMERATOR
    BY DEF FeesAlwaysDefined
  <2>1. amount \in Nat /\ MAX_FEE_NUMERATOR \in Nat
    BY TradingFeeAssumption, BaseFeeAssumption, FeeAssumption
       DEF TradingFeeAssumption, BaseFeeAssumption, FeeAssumption
  <2> DEFINE b == BaseNumerator(side, amount)
             v == get_variable_fee_numerator(tracker)
  <2>2. b \in Nat /\ v \in Nat
    BY <1>1, <2>1, BaseFeeDefined, VariableFeeDefined
  <2>3. get_total_fee_numerator(side, amount, tracker) =
            IF b = Failed THEN Failed ELSE MinOf(b + v, MAX_FEE_NUMERATOR)
    BY DEF get_total_fee_numerator
  <2> HIDE DEF b, v
  <2> QED BY <2>1, <2>2, <2>3 DEF Failed, MinOf
<1> QED BY TrackerInit, TrackerNext, <1>1, PTL DEF Spec

\* A buy that was charged under the rate limiter was charged by the closed form.
ChargeInv ==
    (charged.limited /\ charged.side = "included") =>
        /\ charged.amount \in Amounts
        /\ RealLimiter(fees.base_fee)
        /\ charged.base = get_fee_numerator_from_included_fee_amount(fees.base_fee, charged.amount)

\* Every step keeps it.
LEMMA ChargeNext == FeesFixed /\ ChargeInv /\ [Next]_vars => ChargeInv'
<1> SUFFICES ASSUME FeesFixed, ChargeInv, [Next]_vars PROVE ChargeInv'
  OBVIOUS
<1>1. CASE Trade
  <2> PICK side \in {"included", "excluded"}, amount \in Amounts, price \in Prices,
           route \in Routes, has_referral \in BOOLEAN, has_sysvar \in BOOLEAN :
           Swap(side, amount, price, route, has_referral, has_sysvar)
    BY <1>1 DEF Trade
  <2> DEFINE min_fee == /\ fees.first_swap_with_min_fee
                        /\ ~ has_swap
                        /\ validate_contain_initialize_pool_ix_and_no_cpi(route, has_referral, has_sysvar)
             n == IF min_fee THEN get_min_base_fee_numerator(fees.base_fee)
                  ELSE get_total_fee_numerator(side, amount, update_pre_swap)
  <2>1. /\ fees' = fees
        /\ charged' = [side |-> side, amount |-> amount, numerator |-> n,
                       base |-> IF min_fee THEN n ELSE BaseNumerator(side, amount),
                       limited |-> RateLimited /\ ~ min_fee]
    BY DEF Swap
  <2> HIDE DEF min_fee, n
  <2>2. SUFFICES ASSUME charged'.limited, charged'.side = "included" PROVE ChargeInv'
    BY DEF ChargeInv
  <2>3. /\ RateLimited /\ ~ min_fee /\ side = "included" /\ charged'.amount = amount
        /\ charged'.base = BaseNumerator("included", amount)
    BY <2>1, <2>2
  <2>4. RealLimiter(fees.base_fee)
    BY <2>3, AppliedLimiter DEF RateLimited
  <2>5. BaseNumerator("included", amount) =
            get_fee_numerator_from_included_fee_amount(fees.base_fee, amount)
    BY <2>3 DEF BaseNumerator, get_base_fee_numerator_for, RateLimited, is_rate_limiter_applied
  <2> QED BY <2>1, <2>3, <2>4, <2>5 DEF ChargeInv
<1>2. CASE NextTransaction
  BY <1>2 DEF NextTransaction, NoCharge, ChargeInv
<1>3. CASE UNCHANGED vars
  BY <1>3 DEF vars, ChargeInv
<1> QED BY <1>1, <1>2, <1>3 DEF Next

\* The closed form of the rate limiter takes the fee that the slices of a buy add up to unit by
\* unit, for every amount, reference amount and increment (fee_rate_limiter.rs,
\* get_fee_numerator_from_included_fee_amount).
THEOREM SlicesCharged == Spec => []LimiterChargesSlices
<1>1. Init => ChargeInv
  BY DEF Init, NoCharge, ChargeInv
<1>2. ChargeInv => LimiterChargesSlices
  <2> SUFFICES ASSUME ChargeInv, charged.limited, charged.side = "included"
               PROVE  LET fee  == FeeOfIncluded(charged.base, charged.amount)
                          owed == FeeBySlices(fees.base_fee, charged.amount)
                      IN  fee \in owed .. owed + MulDivUp(charged.amount, 1, FEE_DENOMINATOR)
    BY DEF LimiterChargesSlices
  <2>1. charged.amount \in Nat \ {0}
    <3>1. charged.amount \in 1 .. U64_MAX /\ U64_MAX \in Nat
      BY TradingFeeAssumption, BaseFeeAssumption
         DEF ChargeInv, TradingFeeAssumption, BaseFeeAssumption
    <3> QED BY <3>1
  <2>2. RealLimiter(fees.base_fee)
        /\ charged.base = get_fee_numerator_from_included_fee_amount(fees.base_fee, charged.amount)
    BY DEF ChargeInv
  <2> QED BY <2>1, <2>2, LimiterFee
<1> QED BY TrackerInit, TrackerNext, ChargeNext, <1>1, <1>2, PTL DEF Spec

-----------------------------------------------------------------------------
(***************************************************************************)
(* The fees of the migrated pool.                                          *)
(***************************************************************************)

\* The constants of the migrated pool's fees are natural numbers.
LEMMA MigratedConstants ==
    /\ MIN_MIGRATED_POOL_FEE_BPS \in Nat /\ MAX_MIGRATED_POOL_FEE_BPS \in Nat
    /\ DAMM_MIN_FEE_NUMERATOR \in Nat /\ DAMM_MAX_FEE_NUMERATOR \in Nat
    /\ SQUARE_VFA_BIN \in Nat \ {0} /\ VARIABLE_FEE_SCALE \in Nat \ {0}
    /\ BASIS_POINT_MAX \in Nat \ {0} /\ FEE_DENOMINATOR \in Nat \ {0}
BY MigratedPoolFeesAssumption, BaseFeeAssumption, FeeAssumption
   DEF MigratedPoolFeesAssumption, BaseFeeAssumption, FeeAssumption

\* A fee in basis points is a natural number, and larger for more of them.
LEMMA NumeratorGrows ==
    ASSUME NEW x \in Nat, NEW y \in Nat, x <= y
    PROVE  to_numerator(x) \in Nat /\ to_numerator(x) <= to_numerator(y)
<1> DEFINE B == BASIS_POINT_MAX
           D == FEE_DENOMINATOR
<1>1. B \in Nat \ {0} /\ D \in Nat
  BY MigratedConstants
<1>2. to_numerator(x) = MulDivDown(x, D, B) /\ to_numerator(y) = MulDivDown(y, D, B)
  BY DEF to_numerator
<1> HIDE DEF B, D
<1>3. MulDivDown(x, D, B) <= MulDivDown(y, D, B)
  BY <1>1, ProductGrows
<1>4. MulDivDown(x, D, B) \in Nat
  <2>1. x * D \in Nat
    BY <1>1
  <2>2. (x * D) \div B \in Nat
    BY <1>1, <2>1, DivMod
  <2> QED BY <2>2 DEF MulDivDown
<1> QED BY <1>2, <1>3, <1>4

\* The lowest base fee of an accepted schedule is its last, and DAMM v2 allows it.
LEMMA LowestIsLast ==
    ASSUME NEW m \in MigratedPoolFee, validate_migrated_pool_fee(m)
    PROVE  LET s   == Scheduler(m)
               low == get_damm_v2_migrated_pool_min_base_fee_numerator(m)
           IN  /\ low \in Nat /\ DAMM_MIN_FEE_NUMERATOR <= low
               /\ s.number_of_period \in Nat /\ low = get_base_fee_numerator_at(s, s.number_of_period)
               /\ \A k \in 0 .. s.number_of_period : /\ get_base_fee_numerator_at(s, k) \in Nat
                                                     /\ low <= get_base_fee_numerator_at(s, k)
<1> DEFINE s == Scheduler(m)
           low == get_damm_v2_migrated_pool_min_base_fee_numerator(m)
           n == m.number_of_period
           r == m.reduction_factor
           c == to_numerator(m.pool_fee_bps)
           fee(k) == get_base_fee_numerator_at(s, k)
<1>1. n \in Nat /\ n <= U16_MAX /\ r \in Nat /\ m.pool_fee_bps \in Nat
  <2>1. U16_MAX \in Nat
    BY DEF U16_MAX
  <2> QED BY <2>1 DEF MigratedPoolFee
<1>2. /\ s.base_fee_mode = m.base_fee_mode /\ s.number_of_period = n /\ s.reduction_factor = r
      /\ s.cliff_fee_numerator = c
  BY DEF Scheduler
<1>3. c \in Nat
  BY <1>1, NumeratorGrows
<1>4. \A k \in 0 .. n : MinOf(k, n) = k
  BY <1>1 DEF MinOf
<1>5. CASE m.base_fee_mode = "Time" /\ NoScheduler(m)
  <2>1. n = 0 /\ r = 0 /\ low = c
    BY <1>2, <1>5 DEF NoScheduler, MarketCapModes,
                      get_damm_v2_migrated_pool_min_base_fee_numerator
  <2>2. fee(0) = IF 0 * 0 > c THEN Failed ELSE c - 0 * 0
    BY <1>2, <1>4, <1>5, <2>1 DEF get_base_fee_numerator_at
  <2>3. fee(0) = c
    BY <1>3, <2>2
  <2>4. DAMM_MIN_FEE_NUMERATOR <= c
    <3>1. m.pool_fee_bps \in MIN_MIGRATED_POOL_FEE_BPS .. MAX_MIGRATED_POOL_FEE_BPS
      BY DEF validate_migrated_pool_fee
    <3>2. DAMM_MIN_FEE_NUMERATOR <= to_numerator(MIN_MIGRATED_POOL_FEE_BPS)
      BY MigratedPoolFeesAssumption DEF MigratedPoolFeesAssumption
    <3>3. /\ to_numerator(MIN_MIGRATED_POOL_FEE_BPS) \in Nat
          /\ to_numerator(MIN_MIGRATED_POOL_FEE_BPS) <= c
      BY <1>1, <3>1, MigratedConstants, NumeratorGrows
    <3> QED BY <1>3, <3>2, <3>3, MigratedConstants
  <2> HIDE DEF fee, low, c, n, r, s
  <2>5. \A k \in 0 .. n : k = 0
    BY <2>1
  <2>6. low \in Nat /\ DAMM_MIN_FEE_NUMERATOR <= low /\ low = fee(n)
        /\ \A k \in 0 .. n : fee(k) \in Nat /\ low <= fee(k)
    BY <1>3, <2>1, <2>3, <2>4, <2>5
  <2> QED BY <1>1, <1>2, <2>6 DEF fee, low, s
<1>6. CASE m.base_fee_mode \in MarketCapModes /\ validate_market_cap_scheduler(s)
  <2>1. low = fee(n)
    BY <1>2, <1>6 DEF get_damm_v2_migrated_pool_min_base_fee_numerator,
                      get_min_scheduler_fee_numerator, MarketCapModes
  <2>2. fee(n) # Failed /\ fee(n) \in DAMM_MIN_FEE_NUMERATOR .. FEE_DENOMINATOR - 1 /\ r > 0
    BY <1>2, <1>6 DEF validate_market_cap_scheduler, get_min_scheduler_fee_numerator
  <2>3. ASSUME NEW k \in 0 .. n PROVE fee(k) \in Nat /\ fee(n) <= fee(k)
    <3>1. n \in 0 .. n /\ MinOf(k, n) = k /\ MinOf(n, n) = n
      BY <1>1, <1>4
    <3>2. CASE m.base_fee_mode = "MarketCapExponential"
      <4>1. fee(k) = get_fee_in_period(c, r, k) /\ fee(n) = get_fee_in_period(c, r, n)
        BY <1>2, <3>1, <3>2 DEF get_base_fee_numerator_at
      <4> HIDE DEF fee, c, n, r, s
      <4>2. r \in Nat \ {0} /\ k \in Nat /\ k <= n
        BY <1>1, <2>2
      <4>3. get_fee_in_period(c, r, k) \in Nat
            /\ get_fee_in_period(c, r, n) <= get_fee_in_period(c, r, k)
        BY <1>1, <1>3, <2>2, <4>1, <4>2, FeeInPeriodFalls
      <4> QED BY <4>1, <4>3
    <3>3. CASE m.base_fee_mode # "MarketCapExponential"
      <4>1. /\ fee(k) = IF r * k > c THEN Failed ELSE c - r * k
            /\ fee(n) = IF r * n > c THEN Failed ELSE c - r * n
        BY <1>2, <3>1, <3>3 DEF get_base_fee_numerator_at
      <4> HIDE DEF fee, c, n, r, s
      <4>2. r * k <= r * n /\ r * k \in Nat /\ r * n \in Nat
        <5>1. \A x, y, z \in Nat : y <= z => x * y \in Nat /\ x * z \in Nat /\ x * y <= x * z
          OBVIOUS
        <5>2. k \in Nat /\ k <= n
          BY <1>1
        <5> QED BY <1>1, <5>1, <5>2
      <4>3. ~(r * n > c)
        BY <2>2, <4>1
      <4> QED BY <1>3, <4>1, <4>2, <4>3
    <3> QED BY <3>2, <3>3
  <2>4. fee(n) \in Nat /\ DAMM_MIN_FEE_NUMERATOR <= fee(n)
    BY <2>2, MigratedConstants
  <2> HIDE DEF fee, low, n, s
  <2> QED BY <1>1, <1>2, <2>1, <2>3, <2>4 DEF fee, low, s
<1> QED BY <1>5, <1>6 DEF validate_migrated_pool_fee

\* The control of a fee that DAMM v2 allows is positive, and its square of the largest volatility
\* is a fifth of the fee, rounded down.
LEMMA ControlOfFee ==
    ASSUME NEW n \in Nat, DAMM_MIN_FEE_NUMERATOR <= n
    PROVE  LET control == calculate_dynamic_fee_params(n)
               largest == (n * MAX_DYNAMIC_FEE_PERCENT) \div 100
               v_fee   == largest * VARIABLE_FEE_SCALE - (VARIABLE_FEE_SCALE - 1)
           IN  /\ control \in Nat \ {0} /\ largest \in Nat /\ v_fee \in Nat
               /\ SQUARE_VFA_BIN * control <= v_fee
               /\ v_fee < SQUARE_VFA_BIN * control + SQUARE_VFA_BIN
<1> DEFINE P == MAX_DYNAMIC_FEE_PERCENT
           V == VARIABLE_FEE_SCALE
           Q == SQUARE_VFA_BIN
           d == DAMM_MIN_FEE_NUMERATOR
           large(x) == (x * P) \div 100
           v == large(n) * V - (V - 1)
<1>1. V \in Nat /\ V > 0 /\ Q \in Nat /\ Q > 0 /\ d \in Nat
  BY MigratedConstants
<1>2. Q < (large(d) - 1) * V
  BY MigratedPoolFeesAssumption DEF MigratedPoolFeesAssumption
<1>3. large(d) \in Nat /\ large(n) \in Nat /\ large(d) <= large(n)
  BY <1>1 DEF MAX_DYNAMIC_FEE_PERCENT
<1>4. calculate_dynamic_fee_params(n) = IF v < 0 THEN Failed ELSE v \div Q
  BY DEF calculate_dynamic_fee_params
<1> HIDE DEF large, V, Q, d
<1>5. v = (large(n) - 1) * V + 1 /\ v \in Int
  BY <1>1, <1>3
<1>6. (large(d) - 1) * V <= (large(n) - 1) * V
  <2>1. V * (large(d) - 1) <= V * (large(n) - 1)
    BY <1>1, <1>3, Scaled
  <2> QED BY <1>1, <1>3, <2>1
<1>7. Q <= v
  BY <1>1, <1>2, <1>3, <1>5, <1>6
<1> HIDE DEF v
<1>8. ~(v < 0) /\ v \in Nat
  BY <1>1, <1>5, <1>7
<1>9. /\ v \div Q \in Int /\ Q * (v \div Q) <= v /\ v < Q * (v \div Q) + Q
      /\ 1 <= v \div Q
  <2>1. Q * 1 <= v
    BY <1>1, <1>7
  <2> QED BY <1>1, <1>5, <2>1, Floor
<1> QED BY <1>3, <1>4, <1>8, <1>9 DEF v, large, V, Q

\* A migration's dynamic fee, if one was asked for, is the control of the lowest base fee.
LEMMA DynamicFeeBuilt ==
    ASSUME NEW m \in MigratedPoolFee, validate_migrated_pool_fee(m)
    PROVE  LET low == get_damm_v2_migrated_pool_min_base_fee_numerator(m)
           IN  build_damm_v2_dynamic_fee_params(m) =
                   IF m.dynamic_fee THEN calculate_dynamic_fee_params(low) ELSE NoDynamicFeeParams
<1> DEFINE low == get_damm_v2_migrated_pool_min_base_fee_numerator(m)
<1>1. low \in Nat /\ DAMM_MIN_FEE_NUMERATOR <= low
  BY LowestIsLast
<1> HIDE DEF low
<1>2. calculate_dynamic_fee_params(low) \in Nat
  BY <1>1, ControlOfFee
<1>3. low # Failed /\ calculate_dynamic_fee_params(low) # Failed
  BY <1>1, <1>2 DEF Failed
<1>4. build_damm_v2_dynamic_fee_params(m) =
          IF low = Failed THEN Failed
          ELSE IF ~ m.dynamic_fee \/ calculate_dynamic_fee_params(low) = Failed THEN NoDynamicFeeParams
          ELSE calculate_dynamic_fee_params(low)
  BY DEF build_damm_v2_dynamic_fee_params, low
<1>5. m.dynamic_fee \in BOOLEAN
  BY DEF MigratedPoolFee
<1> QED BY <1>3, <1>4, <1>5 DEF low

\* The fee parameters of a pool's configuration after its migration.
LEMMA MigratedFeeValid ==
    ASSUME FeesFixed, fees.migrated_pool_fee.migration_fee_option = "Customizable"
    PROVE  /\ fees.migrated_pool_fee \in MigratedPoolFee
           /\ validate_migrated_pool_fee(fees.migrated_pool_fee)
BY TradingFeeAssumption DEF FeesFixed, ValidFees, ValidMigratedPoolFee, TradingFeeAssumption

\* Fees that create_config accepted make a pool that DAMM v2 accepts.
LEMMA FeesAccepted == FeesFixed => MigratedFeesAccepted
<1> DEFINE m == fees.migrated_pool_fee
           p == build_damm_v2_pool_fee_params(m)
           s == Scheduler(m)
           low == get_damm_v2_migrated_pool_min_base_fee_numerator(m)
           control == calculate_dynamic_fee_params(low)
           built == build_damm_v2_dynamic_fee_params(m)
<1> SUFFICES ASSUME FeesFixed, m.migration_fee_option = "Customizable"
             PROVE  p.ok /\ DammAccepts(p) /\ (p.variable_fee_control # NoDynamicFeeParams) = m.dynamic_fee
  BY DEF MigratedFeesAccepted
<1>1. m \in MigratedPoolFee /\ validate_migrated_pool_fee(m)
  BY MigratedFeeValid
<1>2. low \in Nat /\ DAMM_MIN_FEE_NUMERATOR <= low
      /\ low = get_base_fee_numerator_at(s, s.number_of_period)
  BY <1>1, LowestIsLast
<1>3. control \in Nat \ {0}
  <2> HIDE DEF low
  <2> QED BY <1>2, ControlOfFee
<1>4. built = IF m.dynamic_fee THEN control ELSE NoDynamicFeeParams
  BY <1>1, DynamicFeeBuilt
<1>5. /\ p.ok = (m.base_fee_mode \in MarketCapModes \cup {"Time"} /\ built # Failed)
      /\ p.base_fee = s /\ p.variable_fee_control = built
  BY DEF build_damm_v2_pool_fee_params
<1>6. /\ s.base_fee_mode = m.base_fee_mode /\ s.reduction_factor = m.reduction_factor
      /\ s.number_of_period = m.number_of_period
      /\ s.cliff_fee_numerator = to_numerator(m.pool_fee_bps)
  BY DEF Scheduler
<1>m. m.pool_fee_bps \in Nat /\ m.number_of_period \in Nat /\ m.dynamic_fee \in BOOLEAN
  <2>1. U16_MAX \in Nat
    BY DEF U16_MAX
  <2> QED BY <1>1, <2>1 DEF MigratedPoolFee
<1>v. /\ m.pool_fee_bps \in MIN_MIGRATED_POOL_FEE_BPS .. MAX_MIGRATED_POOL_FEE_BPS
      /\ \/ m.base_fee_mode = "Time"
         \/ m.base_fee_mode \in MarketCapModes /\ validate_market_cap_scheduler(s)
  BY <1>1 DEF validate_migrated_pool_fee
<1> HIDE DEF p, s, built, control, low, m
<1>7. built # Failed /\ built # 0 /\ (built # NoDynamicFeeParams) = m.dynamic_fee
  BY <1>3, <1>4, <1>m DEF Failed, NoDynamicFeeParams
<1>8. p.ok
  BY <1>5, <1>7, <1>v
<1>9. DammAccepts(p)
  <2>1. CASE m.base_fee_mode = "Time"
    <3> DEFINE c == to_numerator(m.pool_fee_bps)
    <3>1. /\ to_numerator(MIN_MIGRATED_POOL_FEE_BPS) <= c
          /\ c <= to_numerator(MAX_MIGRATED_POOL_FEE_BPS) /\ c \in Nat
          /\ to_numerator(MIN_MIGRATED_POOL_FEE_BPS) \in Nat
          /\ to_numerator(MAX_MIGRATED_POOL_FEE_BPS) \in Nat
      BY <1>m, <1>v, MigratedConstants, NumeratorGrows
    <3>2. c \in DAMM_MIN_FEE_NUMERATOR .. DAMM_MAX_FEE_NUMERATOR
      <4>1. /\ DAMM_MIN_FEE_NUMERATOR <= to_numerator(MIN_MIGRATED_POOL_FEE_BPS)
            /\ to_numerator(MAX_MIGRATED_POOL_FEE_BPS) <= DAMM_MAX_FEE_NUMERATOR
        BY MigratedPoolFeesAssumption DEF MigratedPoolFeesAssumption
      <4> QED BY <3>1, <4>1, MigratedConstants
    <3> QED BY <1>5, <1>6, <1>7, <2>1, <3>2 DEF DammAccepts
  <2>2. CASE m.base_fee_mode # "Time"
    <3>1. validate_market_cap_scheduler(s)
      BY <1>v, <2>2
    <3>2. /\ get_min_scheduler_fee_numerator(s) \in DAMM_MIN_FEE_NUMERATOR .. FEE_DENOMINATOR - 1
          /\ s.cliff_fee_numerator <= DAMM_MAX_FEE_NUMERATOR
          /\ s.reduction_factor > 0 /\ s.number_of_period > 0
      BY <3>1 DEF validate_market_cap_scheduler
    <3>3. get_min_scheduler_fee_numerator(s) >= DAMM_MIN_FEE_NUMERATOR
      BY <3>2, MigratedConstants
    <3> QED BY <1>5, <1>6, <1>7, <2>2, <3>2, <3>3 DEF DammAccepts
  <2> QED BY <2>1, <2>2
<1> QED BY <1>5, <1>7, <1>8, <1>9

\* A pool whose fees create_config accepted can always migrate: the fees that the migration builds
\* from them are never refused by DAMM v2, and the dynamic fee is there exactly when it was asked
\* for (process_create_config.rs, migrate_damm_v2_initialize_pool.rs).
THEOREM MigratedFeesAlwaysAccepted == Spec => []MigratedFeesAccepted
BY TrackerInit, TrackerNext, FeesAccepted, PTL DEF Spec

\* What the control adds at the largest volatility, against a fifth of the fee.
LEMMA LargestIsAFifth ==
    ASSUME NEW n \in Nat, DAMM_MIN_FEE_NUMERATOR <= n
    PROVE  LET variable == MulDivUp(calculate_dynamic_fee_params(n), SQUARE_VFA_BIN, VARIABLE_FEE_SCALE)
           IN  /\ 100 * variable <= MAX_DYNAMIC_FEE_PERCENT * n
               /\ variable + MulDivUp(SQUARE_VFA_BIN, 1, VARIABLE_FEE_SCALE)
                      >= (MAX_DYNAMIC_FEE_PERCENT * n) \div 100
<1> DEFINE V == VARIABLE_FEE_SCALE
           Q == SQUARE_VFA_BIN
           large == (n * MAX_DYNAMIC_FEE_PERCENT) \div 100
           v == large * V - (V - 1)
           control == calculate_dynamic_fee_params(n)
           variable == MulDivUp(control, Q, V)
           more == MulDivUp(Q, 1, V)
<1>1. V \in Int /\ V > 0 /\ Q \in Int /\ Q > 0
  BY MigratedConstants
<1>2. control \in Nat /\ large \in Nat /\ Q * control <= v /\ v < Q * control + Q
  BY ControlOfFee
<1>3. 100 * large <= MAX_DYNAMIC_FEE_PERCENT * n /\ large = (MAX_DYNAMIC_FEE_PERCENT * n) \div 100
  BY DEF MAX_DYNAMIC_FEE_PERCENT
<1> HIDE DEF V, Q, large, control
<1>4. /\ variable \in Int /\ control * Q <= V * variable
      /\ \A k \in Int : control * Q <= V * k => variable <= k
  <2>1. control \in Int
    BY <1>2
  <2> QED BY <1>1, <2>1, UpProps
<1>5. more \in Int /\ Q * 1 <= V * more
  <2>1. 1 \in Int
    OBVIOUS
  <2> QED BY <1>1, <2>1, UpProps
<1> HIDE DEF variable, more
<1>6. control * Q = Q * control /\ control * Q \in Int /\ large * V = V * large /\ V * large \in Int
  BY <1>1, <1>2
<1>7. variable <= large
  <2>1. control * Q <= V * large
    BY <1>1, <1>2, <1>6
  <2> QED BY <1>2, <1>4, <2>1
<1>8. large <= variable + more
  <2>1. V * (variable + more) = V * variable + V * more
        /\ V * variable \in Int /\ V * more \in Int
    BY <1>1, <1>4, <1>5
  <2>2. V * (large - 1) = V * large - V
    BY <1>1, <1>2
  <2>3. V * (large - 1) < V * (variable + more)
    BY <1>1, <1>2, <1>4, <1>5, <1>6, <2>1, <2>2
  <2>4. large - 1 < variable + more
    BY <1>1, <1>2, <1>4, <1>5, <2>3, Cancel
  <2> QED BY <1>2, <1>4, <1>5, <2>4
<1>9. 100 * variable <= MAX_DYNAMIC_FEE_PERCENT * n
  BY <1>2, <1>3, <1>4, <1>7 DEF MAX_DYNAMIC_FEE_PERCENT
<1>10. variable + more >= (MAX_DYNAMIC_FEE_PERCENT * n) \div 100
  BY <1>2, <1>3, <1>4, <1>5, <1>8
<1> QED BY <1>9, <1>10 DEF variable, more, control, Q, V

\* Fees that create_config accepted make a dynamic fee of a fifth.
LEMMA DynamicFeeIsAFifth == FeesFixed => MigratedDynamicFeeIsAFifth
<1> DEFINE m == fees.migrated_pool_fee
           p == build_damm_v2_pool_fee_params(m)
           s == Scheduler(m)
           low == get_damm_v2_migrated_pool_min_base_fee_numerator(m)
           control == calculate_dynamic_fee_params(low)
           N == s.number_of_period
           fee(k) == get_base_fee_numerator_at(s, k)
           fees_at == {fee(k) : k \in 0 .. N}
           lowest == CHOOSE x \in fees_at : \A k \in 0 .. N : x <= fee(k)
<1> SUFFICES ASSUME FeesFixed, m.migration_fee_option = "Customizable", m.dynamic_fee
             PROVE  /\ 100 * LargestVariableFee(p) <= MAX_DYNAMIC_FEE_PERCENT * lowest
                    /\ LargestVariableFee(p) + MulDivUp(SQUARE_VFA_BIN, 1, VARIABLE_FEE_SCALE)
                           >= (MAX_DYNAMIC_FEE_PERCENT * lowest) \div 100
  <2>1. p.base_fee = s
    BY DEF build_damm_v2_pool_fee_params
  <2> QED BY <2>1 DEF MigratedDynamicFeeIsAFifth
<1>1. m \in MigratedPoolFee /\ validate_migrated_pool_fee(m)
  BY MigratedFeeValid
<1>2. /\ low \in Nat /\ DAMM_MIN_FEE_NUMERATOR <= low /\ N \in Nat /\ low = fee(N)
      /\ \A k \in 0 .. N : fee(k) \in Nat /\ low <= fee(k)
  BY <1>1, LowestIsLast
<1>3. p.variable_fee_control = control
  BY <1>1, DynamicFeeBuilt DEF build_damm_v2_pool_fee_params
<1> HIDE DEF m, p, s, N, fee, low
<1>4. lowest = low
  <2>1. N \in 0 .. N
    BY <1>2
  <2>2. low \in fees_at
    BY <1>2, <2>1
  <2>3. lowest \in fees_at /\ \A k \in 0 .. N : lowest <= fee(k)
    <3> HIDE DEF fees_at
    <3> QED BY <1>2, <2>2
  <2> HIDE DEF lowest
  <2>4. lowest <= low
    BY <1>2, <2>1, <2>3
  <2>5. lowest \in Nat /\ low <= lowest
    BY <1>2, <2>3
  <2> QED BY <1>2, <2>4, <2>5
<1> HIDE DEF lowest
<1>5. control \in Nat
  BY <1>2, ControlOfFee
<1>6. LargestVariableFee(p) = MulDivUp(control, SQUARE_VFA_BIN, VARIABLE_FEE_SCALE)
  <2>1. control # NoDynamicFeeParams
    <3> HIDE DEF control
    <3> QED BY <1>5 DEF NoDynamicFeeParams
  <2> QED BY <1>3, <2>1 DEF LargestVariableFee
<1> QED BY <1>2, <1>4, <1>6, LargestIsAFifth

\* The dynamic fee of the migrated pool never adds more than a fifth of the lowest base fee that its
\* schedule ever reaches, and misses it by one step of the control at most
\* (calculate_dynamic_fee_params, damm_v2_utils.rs).
THEOREM MigratedDynamicFeeBounded == Spec => []MigratedDynamicFeeIsAFifth
BY TrackerInit, TrackerNext, DynamicFeeIsAFifth, PTL DEF Spec

=============================================================================
