--------------------------- MODULE MCVirtualPool ---------------------------
(***************************************************************************)
(* Small instances of VirtualPool.  A price of 1 is 1024; the curve has    *)
(* two ranges and the migration price lies inside the second one, so swaps *)
(* cross a range and stop short of the end of the curve.                   *)
(***************************************************************************)
EXTENDS PoolLaunch

Curve == <<[sqrt_price |-> 1536, liquidity |-> 150000],
           [sqrt_price |-> 2048, liquidity |-> 200000]>>

\* A configuration as created now: fees on the quote token, no creator share.
Plain ==
    [curve |-> Curve, sqrt_start_price |-> 1024,
     migration_quote_threshold |-> 120, migration_quote_amount_cap |-> 0,
     migration_option |-> "DammV2", compounding |-> FALSE,
     collect_fee_mode |-> "QuoteToken", vesting_amount |-> 0,
     fixed_token_supply |-> FALSE, pre_migration_token_supply |-> 0,
     post_migration_token_supply |-> 0, creator_trading_fee_percentage |-> 0,
     migration_fee_percentage |-> 0, creator_migration_fee_percentage |-> 0,
     is_transfer_hook |-> FALSE]

\* An older configuration with every share in use, a vesting and DAMM v1.
LegacyVesting ==
    [Plain EXCEPT !.vesting_amount = 10, !.migration_option = "MeteoraDamm",
                  !.creator_trading_fee_percentage = 30,
                  !.migration_fee_percentage = 15,
                  !.creator_migration_fee_percentage = 40]

\* Fees on the base token and a fixed supply.
FixedSupply ==
    [Plain EXCEPT !.collect_fee_mode = "OutputToken", !.fixed_token_supply = TRUE,
                  !.pre_migration_token_supply = 200,
                  !.post_migration_token_supply = 130,
                  !.creator_trading_fee_percentage = 30]

\* A cap on the quote that migrates.
Capped ==
    [Plain EXCEPT !.migration_quote_amount_cap = 70, !.compounding = TRUE]

\* A transfer-hook pool with vesting, fees on the base token.
Hooked ==
    [Plain EXCEPT !.collect_fee_mode = "OutputToken", !.is_transfer_hook = TRUE,
                  !.vesting_amount = 10, !.creator_trading_fee_percentage = 30]

\* Almost all of the liquidity at the start of the curve: the price rises
\* steeply at its end.
FrontLoaded ==
    [Plain EXCEPT !.curve = <<[sqrt_price |-> 2048, liquidity |-> 102400],
                              [sqrt_price |-> 4000, liquidity |-> 500]>>,
                  !.migration_quote_threshold = 101, !.compounding = TRUE]

\* The same shape, with a last range that costs more than a few units.
Tapered ==
    [FrontLoaded EXCEPT !.curve = <<[sqrt_price |-> 2048, liquidity |-> 102400],
                                    [sqrt_price |-> 4000, liquidity |-> 20000]>>,
                        !.migration_quote_threshold = 120]

\* The same with the least fixed supply that create_config accepts after the
\* migration.
TaperedFixedSupply ==
    LET c == process_create_config(Tapered)
    IN  [Tapered EXCEPT !.fixed_token_supply = TRUE, !.pre_migration_token_supply = 100,
                        !.post_migration_token_supply =
                            c.swap_base_amount + c.migration_base_threshold]

\* One range: a curve of constant liquidity.
OneRange ==
    [Plain EXCEPT !.curve = <<[sqrt_price |-> 2048, liquidity |-> 180000]>>,
                  !.compounding = TRUE]

\* Three short ranges, the last one with a liquidity close to the largest.
ThreeRanges ==
    [Plain EXCEPT !.curve = <<[sqrt_price |-> 1200, liquidity |-> 300000],
                              [sqrt_price |-> 1280, liquidity |-> 90000],
                              [sqrt_price |-> 1400, liquidity |-> 900000]>>,
                  !.collect_fee_mode = "OutputToken"]

SaleConfigs  == {process_create_config(p) : p \in {LegacyVesting, FixedSupply, Tapered, ThreeRanges}}
QuoteConfigs == {process_create_config(p) : p \in {LegacyVesting, Capped}}
BaseConfigs  == {process_create_config(p) : p \in {FixedSupply, Hooked}}
HookedConfigs == {process_create_config(Hooked)}
FrontLoadedConfigs == {process_create_config(FrontLoaded)}
TaperedFixedSupplyConfigs == {process_create_config(TaperedFixedSupply)}
CappedConfigs == {process_create_config(Capped)}

=============================================================================
