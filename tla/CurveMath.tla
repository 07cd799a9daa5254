----------------------------- MODULE CurveMath -----------------------------
(***************************************************************************)
(* The arithmetic of the bonding curve (curve.rs) and the walk of a buy    *)
(* along the price ranges of a curve (virtual_pool.rs).                    *)
(*                                                                         *)
(* A square-root price is a fixed-point number: the program keeps          *)
(* Q64.64 values, that is, integers in units of 1/2^RESOLUTION with        *)
(* RESOLUTION = 64.  TLC's integers have 32 bits, so the unit is a         *)
(* constant here, Scale, which stands for 2^RESOLUTION; every rounding is  *)
(* the program's.  Liquidity is a u128, so it is below Scale^2, which is   *)
(* what makes one unit of price worth less than one unit of quote token.   *)
(*                                                                         *)
(* A curve is a sequence of records [sqrt_price, liquidity]: range i runs  *)
(* from the price of point i-1 (the start price for i = 1) to the price of *)
(* point i.                                                                *)
(***************************************************************************)
EXTENDS Integers, Sequences

CONSTANT Scale      \* 2^RESOLUTION: the square-root price that means 1

ASSUME ScaleAssumption == Scale \in Nat \ {0}

(***************************************************************************)
(* Rounded division.  Rounding.Up is div_ceil, Rounding.Down truncates.    *)
(***************************************************************************)
MinOf(a, b) == IF a <= b THEN a ELSE b

MulDivDown(x, y, d) == (x * y) \div d

MulDivUp(x, y, d) == (x * y + d - 1) \div d

MulDiv(x, y, d, round) ==
    IF round = "Up" THEN MulDivUp(x, y, d) ELSE MulDivDown(x, y, d)

(***************************************************************************)
(* Base tokens between two prices: L * (upper - lower) / (lower * upper).  *)
(***************************************************************************)
get_delta_amount_base(lower, upper, liquidity, round) ==
    MulDiv(liquidity, upper - lower, lower * upper, round)

(***************************************************************************)
(* Quote tokens between two prices: L * (upper - lower).                   *)
(***************************************************************************)
get_delta_amount_quote_RoundedDown(lower, upper, liquidity, round) ==   \* mutant
    MulDivDown(liquidity, upper - lower, Scale * Scale)

get_delta_amount_quote(lower, upper, liquidity, round) ==
    MulDiv(liquidity, upper - lower, Scale * Scale, round)

\* The price after paying amount quote tokens in, rounded down.
get_next_sqrt_price_from_input(sqrt_price, liquidity, amount) ==
    sqrt_price + MulDivDown(amount, Scale * Scale, liquidity)

\* The price after taking amount base tokens out, rounded up.
get_next_sqrt_price_from_output(sqrt_price, liquidity, amount) ==
    IF amount = 0 THEN sqrt_price
    ELSE MulDivUp(liquidity, sqrt_price, liquidity - amount * sqrt_price)

-----------------------------------------------------------------------------
(***************************************************************************)
(* The ranges of a curve, and a sum over them.                             *)
(***************************************************************************)
RangeStart(sqrt_start_price, curve, i) ==
    IF i = 1 THEN sqrt_start_price ELSE curve[i - 1].sqrt_price

\* amount[1] + ... + amount[n]
Total(amount, n) ==
    LET sum[i \in 0..n] == IF i = 0 THEN 0 ELSE sum[i - 1] + amount[i]
    IN  sum[n]

-----------------------------------------------------------------------------
(***************************************************************************)
(* A buy that pays amount_in quote tokens, walking the ranges upwards from *)
(* sqrt_price and never past stop_sqrt_price.  What is not spent is left   *)
(* in amount_left.  The loop's break after a partly consumed range leaves  *)
(* amount_left at 0 and the break at the stop price leaves no range above  *)
(* the current price, so the remaining iterations change nothing.          *)
(***************************************************************************)
MaxAmountIn_RoundedDown(from, to, liquidity) ==   \* mutant
    get_delta_amount_quote(from, to, liquidity, "Down")

MaxAmountIn(from, to, liquidity) == get_delta_amount_quote(from, to, liquidity, "Up")

BuyInRange(st, point, stop_sqrt_price) ==
    LET reference == MinOf(stop_sqrt_price, point.sqrt_price)
        max_amount_in == MaxAmountIn(st.next_sqrt_price, reference, point.liquidity)
        next == IF st.amount_left < max_amount_in
                THEN get_next_sqrt_price_from_input(st.next_sqrt_price,
                                                    point.liquidity, st.amount_left)
                ELSE reference
    IN  IF reference <= st.next_sqrt_price THEN st
        ELSE [amount_left     |-> IF st.amount_left < max_amount_in THEN 0
                                  ELSE st.amount_left - max_amount_in,
              output_amount   |-> st.output_amount +
                    get_delta_amount_base(st.next_sqrt_price, next, point.liquidity, "Down"),
              next_sqrt_price |-> next]

calculate_quote_to_base_from_amount_in(curve, sqrt_price, amount_in, stop_sqrt_price) ==
    LET walk[i \in 0..Len(curve)] ==
            IF i = 0 THEN [amount_left     |-> amount_in,
                           output_amount   |-> 0,
                           next_sqrt_price |-> sqrt_price]
            ELSE BuyInRange(walk[i - 1], curve[i], stop_sqrt_price)
    IN  walk[Len(curve)]

(***************************************************************************)
(* A buy that asks for amount_out base tokens.  It may walk to the end of  *)
(* the curve; a remainder there is an error (amount_left # 0).  The break  *)
(* after a partly consumed range is the flag done: a later range that      *)
(* holds no whole base token would otherwise still be walked and paid for. *)
(***************************************************************************)
BuyOutOfRange(st, point) ==
    LET max_amount_out ==
            get_delta_amount_base(st.next_sqrt_price, point.sqrt_price,
                                  point.liquidity, "Down")
        last == st.amount_left < max_amount_out
        next == IF last
                THEN get_next_sqrt_price_from_output(st.next_sqrt_price,
                                                     point.liquidity, st.amount_left)
                ELSE point.sqrt_price
    IN  IF st.done \/ point.sqrt_price <= st.next_sqrt_price THEN st
        ELSE [amount_left     |-> IF last THEN 0 ELSE st.amount_left - max_amount_out,
              amount_in       |-> st.amount_in +
                    get_delta_amount_quote(st.next_sqrt_price, next, point.liquidity, "Up"),
              next_sqrt_price |-> next,
              done            |-> last]

calculate_quote_to_base_from_amount_out(curve, sqrt_price, amount_out) ==
    LET walk[i \in 0..Len(curve)] ==
            IF i = 0 THEN [amount_left     |-> amount_out,
                           amount_in       |-> 0,
                           next_sqrt_price |-> sqrt_price,
                           done            |-> FALSE]
            ELSE BuyOutOfRange(walk[i - 1], curve[i])
    IN  walk[Len(curve)]

=============================================================================
