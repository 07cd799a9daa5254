------------------------------ MODULE PoolFees ------------------------------
(***************************************************************************)
(* How a trading fee is taken from an amount and who it is split between   *)
(* (state/config.rs), and the result of a buy in each of the three swap    *)
(* modes (state/virtual_pool.rs).                                          *)
(*                                                                         *)
(* The program's fee denominator is 10^9 and its cap 99 % of it; both are  *)
(* constants because TLC's integers have 32 bits.  The fee numerator of a  *)
(* swap depends on the time since activation, the amount and the recent    *)
(* volatility; here it is a parameter.  A buy whose fee is computed twice  *)
(* (a partial fill that stopped early) has a numerator for the amount with *)
(* the fee, n, and one for the amount without it, m.                       *)
(***************************************************************************)
EXTENDS CurveMath

CONSTANTS FEE_DENOMINATOR, MAX_FEE_NUMERATOR

ASSUME FeeAssumption ==
    /\ FEE_DENOMINATOR \in Nat \ {0}
    /\ MAX_FEE_NUMERATOR \in Nat
    /\ MAX_FEE_NUMERATOR < FEE_DENOMINATOR

PROTOCOL_FEE_PERCENT == 20

HOST_FEE_PERCENT == 20

\* The fee of an amount that includes it, rounded up.
FeeOfIncluded(n, included) == MulDivUp(included, n, FEE_DENOMINATOR)

\* The fee that has to be added to an amount, rounded up.
FeeOfExcluded(n, excluded) ==
    MulDivUp(excluded, FEE_DENOMINATOR, FEE_DENOMINATOR - n) - excluded

(***************************************************************************)
(* A fee is split between the protocol and the trading parties; a referral *)
(* is paid out of the protocol's part.                                     *)
(***************************************************************************)
split_fees(fee, has_referral) ==
    LET gross    == MulDivDown(fee, PROTOCOL_FEE_PERCENT, 100)
        referral == IF has_referral THEN MulDivDown(gross, HOST_FEE_PERCENT, 100) ELSE 0
    IN  [trading  |-> fee - gross,
         protocol |-> gross - referral,
         referral |-> referral]

\* The trading fee's shares, and any other amount shared the same way.
creator_share(amount, percentage) == MulDivDown(amount, percentage, 100)

(***************************************************************************)
(* The three swap modes.  Fees are taken on the quote token paid in, or,   *)
(* when fees_on_base holds, on the base token paid out (FeeMode for a buy).*)
(* ok is FALSE where the program returns an error.                         *)
(***************************************************************************)
get_swap_result_from_exact_input(curve, sqrt_price, stop, amount_in, fees_on_base, has_referral, n) ==
    LET paid == IF fees_on_base THEN amount_in
                ELSE amount_in - FeeOfIncluded(n, amount_in)
        buy  == calculate_quote_to_base_from_amount_in(curve, sqrt_price, paid, stop)
        fee  == FeeOfIncluded(n, IF fees_on_base THEN buy.output_amount ELSE amount_in)
    IN  [ok              |-> buy.amount_left = 0,
         included_input  |-> amount_in,
         excluded_input  |-> paid,
         output_amount   |-> IF fees_on_base THEN buy.output_amount - fee
                             ELSE buy.output_amount,
         next_sqrt_price |-> buy.next_sqrt_price,
         fee             |-> split_fees(fee, has_referral)]

(***************************************************************************)
(* A partial fill that stops at the migration price refunds what it did    *)
(* not spend and computes the fee again from what it spent.                *)
(***************************************************************************)
get_swap_result_from_partial_input(curve, sqrt_price, stop, amount_in, fees_on_base, has_referral, n, m) ==
    LET offered == IF fees_on_base THEN amount_in
                   ELSE amount_in - FeeOfIncluded(n, amount_in)
        buy     == calculate_quote_to_base_from_amount_in(curve, sqrt_price, offered, stop)
        spent   == offered - buy.amount_left
        fee     == IF fees_on_base THEN FeeOfIncluded(n, buy.output_amount)
                   ELSE IF buy.amount_left # 0 THEN FeeOfExcluded(m, spent)
                   ELSE FeeOfIncluded(n, amount_in)
    IN  [ok              |-> TRUE,
         included_input  |-> IF fees_on_base THEN spent ELSE spent + fee,
         excluded_input  |-> spent,
         output_amount   |-> IF fees_on_base THEN buy.output_amount - fee
                             ELSE buy.output_amount,
         next_sqrt_price |-> buy.next_sqrt_price,
         fee             |-> split_fees(fee, has_referral)]

get_swap_result_from_exact_output(curve, sqrt_price, stop, amount_out, fees_on_base, has_referral, m) ==
    LET taken == IF fees_on_base THEN amount_out + FeeOfExcluded(m, amount_out)
                 ELSE amount_out
        buy   == calculate_quote_to_base_from_amount_out(curve, sqrt_price, taken)
        fee   == IF fees_on_base THEN taken - amount_out
                 ELSE FeeOfExcluded(m, buy.amount_in)
    IN  [ok              |-> buy.amount_left = 0 /\ buy.next_sqrt_price <= stop,
         included_input  |-> IF fees_on_base THEN buy.amount_in ELSE buy.amount_in + fee,
         excluded_input  |-> buy.amount_in,
         output_amount   |-> amount_out,
         next_sqrt_price |-> buy.next_sqrt_price,
         fee             |-> split_fees(fee, has_referral)]

=============================================================================
