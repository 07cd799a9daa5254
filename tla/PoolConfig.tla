----------------------------- MODULE PoolConfig -----------------------------
(***************************************************************************)
(* A pool configuration: what create_config derives from the parameters a  *)
(* partner chooses, and the amounts the pool computes from a configuration *)
(* (state/config.rs, params/liquidity_distribution.rs, migration_handler/, *)
(* process_create_config.rs).                                              *)
(*                                                                         *)
(* A configuration is a record.  Its chosen fields:                        *)
(*   curve, sqrt_start_price              the bonding curve                *)
(*   migration_quote_threshold            quote to raise                   *)
(*   migration_quote_amount_cap           0, or the quote that migrates    *)
(*   migration_option                     "MeteoraDamm" (v1) or "DammV2"   *)
(*   compounding                          migrated pool compounds its fees *)
(*   collect_fee_mode                     "QuoteToken" or "OutputToken"    *)
(*   vesting_amount                       total of locked_vesting, 0: none *)
(*   fixed_token_supply, pre_migration_token_supply,                       *)
(*   post_migration_token_supply          the optional fixed supply        *)
(*   creator_trading_fee_percentage, migration_fee_percentage,             *)
(*   creator_migration_fee_percentage     0 in configurations created now, *)
(*                                        positive in older ones           *)
(*   is_transfer_hook                     ConfigWithTransferHook           *)
(* and its derived ones: migration_sqrt_price, swap_base_amount,           *)
(* migration_base_threshold.                                               *)
(***************************************************************************)
EXTENDS PoolFees

CONSTANTS
    MIN_SQRT_PRICE, MAX_SQRT_PRICE,   \* the price range of a DAMM v2 pool
    U64Max                            \* the largest u64

ASSUME ConfigAssumption ==
    /\ MIN_SQRT_PRICE \in Nat \ {0}
    /\ MAX_SQRT_PRICE \in Nat
    /\ MIN_SQRT_PRICE < MAX_SQRT_PRICE
    /\ U64Max \in Nat \ {0}

U64 == 0..U64Max

BASIS_POINT_MAX == 10000

SWAP_BUFFER_PERCENTAGE == 25

PARTNER_AND_CREATOR_SURPLUS_SHARE == 100

-----------------------------------------------------------------------------
(***************************************************************************)
(* Derived from the curve.                                                 *)
(***************************************************************************)

ThresholdPriceInRange_RangeEnd(price, point, left) == point.sqrt_price   \* mutant

ThresholdPriceInRange(price, point, left) ==
    get_next_sqrt_price_from_input(price, point.liquidity, left)

RaiseInRange(st, point) ==
    LET max_amount == get_delta_amount_quote(st.price, point.sqrt_price, point.liquidity, "Up")
    IN  IF st.done THEN st
        ELSE IF max_amount > st.left
        THEN [price |-> ThresholdPriceInRange(st.price, point, st.left),
              left  |-> 0, done |-> TRUE]
        ELSE [price |-> point.sqrt_price, left |-> st.left - max_amount, done |-> FALSE]

\* The price at which the curve has raised threshold quote tokens.
get_migration_threshold_price(threshold, sqrt_start_price, curve) ==
    LET walk[i \in 0..Len(curve)] ==
            IF i = 0 THEN [price |-> sqrt_start_price, left |-> threshold, done |-> FALSE]
            ELSE RaiseInRange(walk[i - 1], curve[i])
    IN  walk[Len(curve)]

\* The base tokens sold between the start price and sqrt_price, per range
\* rounded up.
get_base_token_for_swap(sqrt_start_price, sqrt_price, curve) ==
    LET SoldInRange(i) ==
            LET lower == RangeStart(sqrt_start_price, curve, i)
            IN  IF lower >= sqrt_price THEN 0
                ELSE get_delta_amount_base(lower, MinOf(curve[i].sqrt_price, sqrt_price),
                                           curve[i].liquidity, "Up")
    IN  Total([i \in 1..Len(curve) |-> SoldInRange(i)], Len(curve))

(***************************************************************************)
(* The migration handlers: the base tokens that go with quote_amount quote *)
(* tokens at sqrt_price, and the protocol's fee on the migrated liquidity. *)
(* DAMM v1 and compounding DAMM v2 pools are constant-product pools; other *)
(* DAMM v2 pools spread the liquidity from MIN_SQRT_PRICE to MAX_SQRT_PRICE*)
(***************************************************************************)
IsConstantProduct(c) == c.migration_option = "MeteoraDamm" \/ c.compounding

get_initial_liquidity_from_delta_quote(quote_amount, sqrt_price) ==
    MulDivDown(quote_amount, Scale * Scale, sqrt_price - MIN_SQRT_PRICE)

MigrationBaseAmount(c, quote_amount, sqrt_price) ==
    IF IsConstantProduct(c)
    THEN MulDivUp(quote_amount, Scale * Scale, sqrt_price * sqrt_price)
    ELSE get_delta_amount_base(sqrt_price, MAX_SQRT_PRICE,
             get_initial_liquidity_from_delta_quote(quote_amount, sqrt_price), "Up")

\* What is left of the threshold after the migration fee, rounded up.
calculate_post_fee_migration_quote_amount(c, threshold) ==
    MulDivUp(threshold, 100 - c.migration_fee_percentage, 100)

MigrationFee(c, threshold) ==
    threshold - calculate_post_fee_migration_quote_amount(c, threshold)

\* The migration fee's shares (get_migration_fee_distribution_for_threshold).
MigrationFeeShare(c, party, threshold) ==
    LET fee     == MigrationFee(c, threshold)
        creator == creator_share(fee, c.creator_migration_fee_percentage)
    IN  IF party = "creator" THEN creator ELSE fee - creator

\* Quote and base part of the protocol's liquidity migration fee.
ProtocolMigrationQuoteFee(quote_amount, bps) ==
    MulDivDown(quote_amount, bps, BASIS_POINT_MAX)

ProtocolMigrationBaseFee(c, base_amount, quote_amount, sqrt_price, bps) ==
    IF IsConstantProduct(c)
    THEN MulDivDown(base_amount, bps, BASIS_POINT_MAX)
    ELSE get_delta_amount_base(sqrt_price, MAX_SQRT_PRICE,
             get_initial_liquidity_from_delta_quote(
                 ProtocolMigrationQuoteFee(quote_amount, bps), sqrt_price), "Down")

-----------------------------------------------------------------------------
(***************************************************************************)
(* The cap on the quote that migrates, and the supply.                     *)
(***************************************************************************)
is_fixed_migration_quote_amount_enabled(c) == c.migration_quote_amount_cap > 0

get_migration_quote_amount_cap(c) ==
    IF c.migration_quote_amount_cap > 0 THEN c.migration_quote_amount_cap
    ELSE c.migration_quote_threshold

has_vesting(c) == c.vesting_amount > 0

get_swap_amount_with_buffer(swap_base_amount, sqrt_start_price, curve) ==
    MinOf(swap_base_amount + MulDivDown(swap_base_amount, SWAP_BUFFER_PERCENTAGE, 100),
          get_base_token_for_swap(sqrt_start_price, MAX_SQRT_PRICE, curve))

get_total_token_supply(swap_base_amount, migration_base_threshold, vesting_amount) ==
    swap_base_amount + migration_base_threshold + vesting_amount

get_initial_base_supply(c) ==
    IF c.fixed_token_supply THEN c.pre_migration_token_supply
    ELSE get_total_token_supply(
             get_swap_amount_with_buffer(c.swap_base_amount, c.sqrt_start_price, c.curve),
             c.migration_base_threshold, c.vesting_amount)

get_burnable_amount_post_migration_BurnAll(c, leftover) == leftover   \* mutant

get_burnable_amount_post_migration_FixedOnly(c, leftover) ==   \* mutant
    IF c.fixed_token_supply
    THEN MinOf(c.pre_migration_token_supply - c.post_migration_token_supply, leftover)
    ELSE 0

get_burnable_amount_post_migration(c, leftover) ==
    IF c.fixed_token_supply
    THEN MinOf(c.pre_migration_token_supply - c.post_migration_token_supply, leftover)
    ELSE leftover

\* The surplus above the cap, and what each party gets of it.  A pool with a
\* fixed cap gives all of it to the partner.
SurplusShare(c, party, surplus) ==
    LET parties == MulDivDown(surplus, PARTNER_AND_CREATOR_SURPLUS_SHARE, 100)
        creator == creator_share(parties, c.creator_trading_fee_percentage)
    IN  IF is_fixed_migration_quote_amount_enabled(c)
        THEN IF party = "partner" THEN surplus ELSE 0
        ELSE CASE party = "partner"  -> parties - creator
               [] party = "creator"  -> creator
               [] party = "protocol" -> surplus - parties

-----------------------------------------------------------------------------
(***************************************************************************)
(* create_config: the parameters p completed by the derived amounts, and   *)
(* the conditions under which the program accepts them.                    *)
(***************************************************************************)
process_create_config(p) ==
    LET price == get_migration_threshold_price(p.migration_quote_threshold,
                                               p.sqrt_start_price, p.curve).price
    IN  [curve                            |-> p.curve,
         sqrt_start_price                 |-> p.sqrt_start_price,
         migration_quote_threshold        |-> p.migration_quote_threshold,
         migration_quote_amount_cap       |-> p.migration_quote_amount_cap,
         migration_option                 |-> p.migration_option,
         compounding                      |-> p.compounding,
         collect_fee_mode                 |-> p.collect_fee_mode,
         vesting_amount                   |-> p.vesting_amount,
         fixed_token_supply               |-> p.fixed_token_supply,
         pre_migration_token_supply       |-> p.pre_migration_token_supply,
         post_migration_token_supply      |-> p.post_migration_token_supply,
         creator_trading_fee_percentage   |-> p.creator_trading_fee_percentage,
         migration_fee_percentage         |-> p.migration_fee_percentage,
         creator_migration_fee_percentage |-> p.creator_migration_fee_percentage,
         is_transfer_hook                 |-> p.is_transfer_hook,
         migration_sqrt_price             |-> price,
         swap_base_amount                 |->
             get_base_token_for_swap(p.sqrt_start_price, price, p.curve),
         migration_base_threshold         |->
             MigrationBaseAmount(p,
                 calculate_post_fee_migration_quote_amount(p, get_migration_quote_amount_cap(p)),
                 price)]

ValidConfig(c) ==
    LET buffered == get_swap_amount_with_buffer(c.swap_base_amount, c.sqrt_start_price, c.curve)
    IN  /\ c.migration_quote_threshold > 0
        /\ c.migration_quote_amount_cap <= c.migration_quote_threshold
        /\ c.migration_quote_amount_cap > 0 =>
               c.migration_fee_percentage = 0 /\ c.creator_migration_fee_percentage = 0
        /\ MIN_SQRT_PRICE <= c.sqrt_start_price /\ c.sqrt_start_price < MAX_SQRT_PRICE
        /\ Len(c.curve) > 0
        /\ \A i \in 1..Len(c.curve) :
               /\ c.curve[i].liquidity > 0
               /\ c.curve[i].sqrt_price <= MAX_SQRT_PRICE
               /\ c.curve[i].sqrt_price > RangeStart(c.sqrt_start_price, c.curve, i)
        /\ get_migration_threshold_price(c.migration_quote_threshold,
                                         c.sqrt_start_price, c.curve).left = 0
        /\ c.migration_sqrt_price < MAX_SQRT_PRICE
        /\ c.migration_base_threshold > 0 /\ c.swap_base_amount > 0
        /\ c.migration_option = "MeteoraDamm" => ~c.is_transfer_hook
        /\ c.fixed_token_supply =>
               /\ get_total_token_supply(c.swap_base_amount, c.migration_base_threshold,
                                         c.vesting_amount) <= c.post_migration_token_supply
               /\ c.post_migration_token_supply <= c.pre_migration_token_supply
               /\ get_total_token_supply(buffered, c.migration_base_threshold,
                                         c.vesting_amount) <= c.pre_migration_token_supply

=============================================================================
