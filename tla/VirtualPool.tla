---------------------------- MODULE VirtualPool ----------------------------
(***************************************************************************)
(* One launch pool from its initialization to its last withdrawal: the     *)
(* swaps that sell the base token, the completion of the sale (by the      *)
(* quote threshold or by the deadline), the vesting locker, the migration  *)
(* to a DAMM pool, and every instruction that pays something out of the    *)
(* pool's two token vaults.                                                *)
(*                                                                         *)
(* Each instruction is one atomic step: a Solana transaction either runs   *)
(* to its end or leaves no trace, and the pool account is write-locked     *)
(* while it runs.  What interleaves is the order in which the parties send *)
(* their instructions, and time.  A guard "x \in U64" stands for the       *)
(* checked arithmetic (safe_add, safe_sub, casts) and for a token transfer *)
(* that fails when the vault is short: the instruction then has no effect. *)
(*                                                                         *)
(* The state is PoolState, the balances of the two vaults, the supply of   *)
(* the base mint, and whether the mint's transfer hook is still set.  The  *)
(* supply is what the pool's own instructions make of it: what the holder  *)
(* of a mint authority adds, where a transfer-hook configuration leaves it *)
(* to the creator or the partner, is not counted.                          *)
(***************************************************************************)
EXTENDS PoolConfig

CONSTANTS
    Configs,              \* the configurations a pool may use
    Deadlines,            \* the deadlines it may be given; 0 is none
    MigrationFeeBps,      \* the protocol's migration fee stored in it
    FeeNumerators,        \* trading-fee numerators a swap may meet
    BuyAmounts,           \* amount_0 of an exact-in or partial-fill swap
    OutAmounts,           \* amount_0 of an exact-out swap
    ClaimCaps,            \* max_amount arguments of the claim instructions
    MaxDust,              \* bound: what DAMM v2 leaves of an offered amount
    MaxTime               \* bound: the clock stops there

Party == {"protocol", "partner", "creator"}

MigrationProgress == {"PreBondingCurve", "PostBondingCurve", "LockedVesting", "CreatedPool"}

ConfigType ==
    [curve                            : Seq([sqrt_price : Nat,
                                             liquidity  : 0..(Scale * Scale - 1)]),
     sqrt_start_price                 : Nat,
     migration_quote_threshold        : U64,
     migration_quote_amount_cap       : U64,
     migration_option                 : {"MeteoraDamm", "DammV2"},
     compounding                      : BOOLEAN,
     collect_fee_mode                 : {"QuoteToken", "OutputToken"},
     vesting_amount                   : U64,
     fixed_token_supply               : BOOLEAN,
     pre_migration_token_supply       : U64,
     post_migration_token_supply      : U64,
     creator_trading_fee_percentage   : 0..100,
     migration_fee_percentage         : 0..100,
     creator_migration_fee_percentage : 0..100,
     is_transfer_hook                 : BOOLEAN,
     migration_sqrt_price             : Nat,
     swap_base_amount                 : U64,
     migration_base_threshold         : U64]

ASSUME PoolAssumption ==
    /\ \A c \in Configs : /\ c \in ConfigType
                          /\ c = process_create_config(c)
                          /\ ValidConfig(c)
                          /\ get_initial_base_supply(c) \in U64
    /\ Deadlines \subseteq Nat
    /\ MigrationFeeBps \subseteq 0..BASIS_POINT_MAX
    /\ FeeNumerators \subseteq 0..MAX_FEE_NUMERATOR
    /\ BuyAmounts \subseteq U64 \ {0}
    /\ OutAmounts \subseteq U64 \ {0}
    /\ ClaimCaps \subseteq U64
    /\ MaxDust \in Nat
    /\ MaxTime \in Nat

VARIABLES
    \* chosen when the pool is initialized
    config, deadline_timestamp, protocol_liquidity_migration_fee_bps,
    \* the sale
    base_reserve, quote_reserve, virtual_quote_reserve, sqrt_price,
    \* fees not claimed yet, per party, and the protocol's migration fees
    base_fee, quote_fee,
    protocol_migration_base_fee_amount, protocol_migration_quote_fee_amount,
    \* the one-time withdrawals made: is_*_withdraw_surplus,
    \* migration_fee_withdraw_status and is_withdraw_leftover
    surplus_withdrawn, migration_fee_withdrawn, is_withdraw_leftover,
    \* where the pool is on its way to a DAMM pool
    migration_progress, finish_curve_timestamp,
    \* outside the pool account
    base_vault, quote_vault, base_mint_supply, hook_active, clock

configVars   == <<config, deadline_timestamp, protocol_liquidity_migration_fee_bps>>
saleVars     == <<base_reserve, quote_reserve, virtual_quote_reserve, sqrt_price>>
migFeeVars   == <<protocol_migration_base_fee_amount, protocol_migration_quote_fee_amount>>
withdrawVars == <<surplus_withdrawn, migration_fee_withdrawn, is_withdraw_leftover>>
statusVars   == <<migration_progress, finish_curve_timestamp>>
mintVars     == <<base_mint_supply, hook_active>>
vars == <<configVars, saleVars, base_fee, quote_fee, migFeeVars, withdrawVars,
          statusVars, base_vault, quote_vault, mintVars, clock>>

-----------------------------------------------------------------------------
(***************************************************************************)
(* Reading the pool.                                                       *)
(***************************************************************************)
TotalFee(fee) == fee["protocol"] + fee["partner"] + fee["creator"]

get_protocol_and_trading_base_fee == TotalFee(base_fee)

total_quote_reserve == quote_reserve + virtual_quote_reserve

has_real_quote_surplus == quote_reserve >= get_migration_quote_amount_cap(config)

effective_migration_quote_threshold ==
    MinOf(quote_reserve, get_migration_quote_amount_cap(config))

is_curve_complete == total_quote_reserve >= config.migration_quote_threshold

is_deadline_reached_AtExactly ==   \* mutant
    deadline_timestamp # 0 /\ clock = deadline_timestamp

is_deadline_reached == deadline_timestamp # 0 /\ clock >= deadline_timestamp

is_sale_complete_CurveOnly == is_curve_complete   \* mutant

is_sale_complete == is_curve_complete \/ is_deadline_reached

get_total_surplus == quote_reserve - get_migration_quote_amount_cap(config)

-----------------------------------------------------------------------------
(***************************************************************************)
(* initialize_virtual_pool_with_...: the whole supply is minted into the   *)
(* base vault, and a deadline is 0 or in the future.                       *)
(***************************************************************************)
Init ==
    /\ config \in Configs
    /\ deadline_timestamp \in Deadlines
    /\ clock = 1
    /\ deadline_timestamp = 0 \/ deadline_timestamp > clock
    /\ protocol_liquidity_migration_fee_bps \in MigrationFeeBps
    /\ base_reserve = get_initial_base_supply(config)
    /\ base_vault = base_reserve
    /\ base_mint_supply = base_reserve
    /\ sqrt_price = config.sqrt_start_price
    /\ quote_reserve = 0 /\ virtual_quote_reserve = 0 /\ quote_vault = 0
    /\ base_fee = [p \in Party |-> 0] /\ quote_fee = [p \in Party |-> 0]
    /\ protocol_migration_base_fee_amount = 0
    /\ protocol_migration_quote_fee_amount = 0
    /\ surplus_withdrawn = {} /\ migration_fee_withdrawn = {}
    /\ is_withdraw_leftover = FALSE
    /\ migration_progress = "PreBondingCurve"
    /\ finish_curve_timestamp = 0
    /\ hook_active = config.is_transfer_hook

-----------------------------------------------------------------------------
(***************************************************************************)
(* process_swap.  Only buys exist.  A virtual swap, allowed to a fixed     *)
(* authority on pools without a transfer hook, moves the curve without     *)
(* paying quote tokens in; its quote is counted apart and its quote fees   *)
(* are not recorded, for nobody paid them.                                 *)
(***************************************************************************)
fees_on_base_token == config.collect_fee_mode = "OutputToken"

SwapResult(mode, amount, has_referral, n, m) ==
    LET c == config
    IN  CASE mode = "ExactIn" ->
               get_swap_result_from_exact_input(c.curve, sqrt_price, c.migration_sqrt_price,
                   amount, fees_on_base_token, has_referral, n)
          [] mode = "PartialFill" ->
               get_swap_result_from_partial_input(c.curve, sqrt_price, c.migration_sqrt_price,
                   amount, fees_on_base_token, has_referral, n, m)
          [] mode = "ExactOut" ->
               get_swap_result_from_exact_output(c.curve, sqrt_price, c.migration_sqrt_price,
                   amount, fees_on_base_token, has_referral, m)

AddFee_NoCreator(unclaimed, fee) ==   \* mutant
    LET creator == creator_share(fee.trading, config.creator_trading_fee_percentage)
    IN  [unclaimed EXCEPT !["protocol"] = @ + fee.protocol,
                          !["partner"] = @ + fee.trading - creator]

\* A fee added to the parties' unclaimed fees (split_partner_and_creator_fee).
AddFee(unclaimed, fee) ==
    LET creator == creator_share(fee.trading, config.creator_trading_fee_percentage)
    IN  [p \in Party |-> unclaimed[p] +
            CASE p = "protocol" -> fee.protocol
              [] p = "partner"  -> fee.trading - creator
              [] p = "creator"  -> creator]

apply_swap_result(r, is_virtual) ==
    LET actual_output_amount ==
            IF fees_on_base_token
            THEN r.output_amount + r.fee.trading + r.fee.protocol + r.fee.referral
            ELSE r.output_amount
    IN  /\ sqrt_price' = r.next_sqrt_price
        /\ base_fee' = IF fees_on_base_token THEN AddFee(base_fee, r.fee) ELSE base_fee
        /\ quote_fee' = IF fees_on_base_token \/ is_virtual THEN quote_fee
                        ELSE AddFee(quote_fee, r.fee)
        /\ base_reserve' = base_reserve - actual_output_amount
        /\ quote_reserve' = IF is_virtual THEN quote_reserve
                            ELSE quote_reserve + r.excluded_input
        /\ virtual_quote_reserve' = IF is_virtual
                                    THEN virtual_quote_reserve + r.excluded_input
                                    ELSE virtual_quote_reserve

\* The transfers: in from the buyer, out to the buyer and to the referral.
SwapTransfers(r, is_virtual) ==
    /\ quote_vault' = IF is_virtual THEN quote_vault
                      ELSE quote_vault + r.included_input -
                           (IF fees_on_base_token THEN 0 ELSE r.fee.referral)
    /\ base_vault' = base_vault - r.output_amount -
                     (IF fees_on_base_token THEN r.fee.referral ELSE 0)

\* The end of process_swap: the swap that completes the curve fails unless
\* the vault holds what the migration, the fees and the vesting will need.
CompleteCurve ==
    IF is_curve_complete'
    THEN /\ base_vault' >= config.migration_base_threshold
                           + get_protocol_and_trading_base_fee' + config.vesting_amount
         /\ finish_curve_timestamp' = clock
         /\ migration_progress' = IF has_vesting(config) THEN "PostBondingCurve"
                                  ELSE "LockedVesting"
         /\ hook_active' = FALSE
    ELSE UNCHANGED <<statusVars, hook_active>>

process_swap(r, is_virtual) ==
    /\ ~is_sale_complete
    /\ r.ok
    /\ {r.included_input, r.excluded_input, r.output_amount,
        r.fee.trading, r.fee.protocol, r.fee.referral} \subseteq U64
    /\ UNCHANGED <<configVars, migFeeVars, withdrawVars, base_mint_supply, clock>>
    /\ apply_swap_result(r, is_virtual)
    /\ sqrt_price' \in Nat
    /\ {base_reserve', quote_reserve', virtual_quote_reserve'} \subseteq U64
    /\ base_fee' \in [Party -> U64] /\ quote_fee' \in [Party -> U64]
    /\ SwapTransfers(r, is_virtual)
    /\ {base_vault', quote_vault'} \subseteq U64
    /\ CompleteCurve

Swap(mode, amount, has_referral, n, m) ==
    process_swap(SwapResult(mode, amount, has_referral, n, m), FALSE)

VirtualSwap(mode, amount, n, m) ==
    /\ ~config.is_transfer_hook
    /\ process_swap(SwapResult(mode, amount, FALSE, n, m), TRUE)

-----------------------------------------------------------------------------
(***************************************************************************)
(* The protocol's claims.  Trading fees are claimed first, then the        *)
(* migration fee, up to max_amount; the protocol's share of the surplus is *)
(* paid with the first quote claim that finds one, whatever max_amount is. *)
(***************************************************************************)
TradingPart_Uncapped(fee, max_amount) == max_amount   \* mutant

TradingPart(fee, max_amount) == MinOf(fee["protocol"], max_amount)

MigrationPart(fee, migration_fee, max_amount) ==
    MinOf(migration_fee, max_amount - TradingPart(fee, max_amount))

claim_protocol_base_fee(max_amount) ==
    LET trading   == TradingPart(base_fee, max_amount)
        migration == MigrationPart(base_fee, protocol_migration_base_fee_amount, max_amount)
    IN  /\ base_fee' = [base_fee EXCEPT !["protocol"] = @ - trading]
        /\ protocol_migration_base_fee_amount' = protocol_migration_base_fee_amount - migration
        /\ base_vault' = base_vault - (trading + migration)
        /\ base_vault' \in U64

claim_protocol_quote_fee_and_surplus(max_amount) ==
    LET trading   == TradingPart(quote_fee, max_amount)
        migration == MigrationPart(quote_fee, protocol_migration_quote_fee_amount, max_amount)
        pays_surplus == /\ "protocol" \notin surplus_withdrawn
                        /\ ~is_fixed_migration_quote_amount_enabled(config)
                        /\ has_real_quote_surplus
        surplus   == IF pays_surplus THEN SurplusShare(config, "protocol", get_total_surplus)
                     ELSE 0
    IN  /\ quote_fee' = [quote_fee EXCEPT !["protocol"] = @ - trading]
        /\ protocol_migration_quote_fee_amount' =
               protocol_migration_quote_fee_amount - migration
        /\ surplus_withdrawn' = IF pays_surplus THEN surplus_withdrawn \cup {"protocol"}
                                ELSE surplus_withdrawn
        /\ quote_vault' = quote_vault - (trading + migration + surplus)
        /\ quote_vault' \in U64

\* claim_protocol_fee: both tokens, only for pools without a transfer hook.
ClaimProtocolFee(max_base_amount, max_quote_amount) ==
    /\ ~config.is_transfer_hook
    /\ claim_protocol_base_fee(max_base_amount)
    /\ claim_protocol_quote_fee_and_surplus(max_quote_amount)
    /\ UNCHANGED <<configVars, saleVars, migration_fee_withdrawn, is_withdraw_leftover,
                   statusVars, mintVars, clock>>

\* claim_protocol_fee2: one token.  The base fees of a transfer-hook pool
\* wait for the curve's completion; the transfer itself passes no hook
\* accounts, so it fails while the hook is set.
ClaimProtocolFee2(is_claiming_base, max_amount) ==
    /\ IF is_claiming_base
       THEN /\ config.is_transfer_hook => is_curve_complete
            /\ claim_protocol_base_fee(max_amount)
            /\ base_vault' # base_vault => ~hook_active
            /\ UNCHANGED <<quote_fee, protocol_migration_quote_fee_amount,
                           surplus_withdrawn, quote_vault>>
       ELSE /\ claim_protocol_quote_fee_and_surplus(max_amount)
            /\ UNCHANGED <<base_fee, protocol_migration_base_fee_amount, base_vault>>
    /\ UNCHANGED <<configVars, saleVars, migration_fee_withdrawn, is_withdraw_leftover,
                   statusVars, mintVars, clock>>

\* zap_protocol_fee: one token, something to claim, no transfer hook.
ZapProtocolFee(is_withdrawing_base, max_amount) ==
    /\ ~config.is_transfer_hook
    /\ IF is_withdrawing_base
       THEN /\ claim_protocol_base_fee(max_amount)
            /\ base_vault' # base_vault
            /\ UNCHANGED <<quote_fee, protocol_migration_quote_fee_amount,
                           surplus_withdrawn, quote_vault>>
       ELSE /\ claim_protocol_quote_fee_and_surplus(max_amount)
            /\ quote_vault' # quote_vault
            /\ UNCHANGED <<base_fee, protocol_migration_base_fee_amount, base_vault>>
    /\ UNCHANGED <<configVars, saleVars, migration_fee_withdrawn, is_withdraw_leftover,
                   statusVars, mintVars, clock>>

(***************************************************************************)
(* claim_trading_fee (partner) and claim_creator_trading_fee.              *)
(***************************************************************************)
ClaimTradingFee(party, max_base_amount, max_quote_amount) ==
    LET base_amount  == MinOf(base_fee[party], max_base_amount)
        quote_amount == MinOf(quote_fee[party], max_quote_amount)
    IN  /\ base_fee' = [base_fee EXCEPT ![party] = @ - base_amount]
        /\ quote_fee' = [quote_fee EXCEPT ![party] = @ - quote_amount]
        /\ base_vault' = base_vault - base_amount
        /\ quote_vault' = quote_vault - quote_amount
        /\ {base_vault', quote_vault'} \subseteq U64
        /\ UNCHANGED <<configVars, saleVars, migFeeVars, withdrawVars, statusVars,
                       mintVars, clock>>

(***************************************************************************)
(* The surplus above the quote that migrates.  Nothing asks whether the    *)
(* sale is over: the real reserve has to reach the cap.                    *)
(***************************************************************************)
SurplusEligible_EveryTime(party) == has_real_quote_surplus   \* mutant

SurplusEligible(party) == has_real_quote_surplus /\ party \notin surplus_withdrawn

WithdrawSurplus(party) ==
    /\ SurplusEligible(party)
    /\ surplus_withdrawn' = surplus_withdrawn \cup {party}
    /\ quote_vault' = quote_vault - SurplusShare(config, party, get_total_surplus)
    /\ quote_vault' \in U64
    /\ UNCHANGED <<configVars, saleVars, base_fee, quote_fee, migFeeVars,
                   migration_fee_withdrawn, is_withdraw_leftover, statusVars, base_vault,
                   mintVars, clock>>

PartnerWithdrawSurplus == WithdrawSurplus("partner")

CreatorWithdrawSurplus ==
    /\ ~is_fixed_migration_quote_amount_enabled(config)
    /\ WithdrawSurplus("creator")

WithdrawMigrationFee_BeforeEnd(party) ==   \* mutant
    /\ quote_reserve > 0
    /\ party \notin migration_fee_withdrawn
    /\ migration_fee_withdrawn' = migration_fee_withdrawn \cup {party}
    /\ quote_vault' = quote_vault -
           MigrationFeeShare(config, party, effective_migration_quote_threshold)
    /\ quote_vault' \in U64
    /\ UNCHANGED <<configVars, saleVars, base_fee, quote_fee, migFeeVars,
                   surplus_withdrawn, is_withdraw_leftover, statusVars, base_vault,
                   mintVars, clock>>

\* withdraw_migration_fee: once for each of the partner and the creator.
WithdrawMigrationFee(party) ==
    /\ is_curve_complete \/ migration_progress = "CreatedPool"
    /\ party \notin migration_fee_withdrawn
    /\ migration_fee_withdrawn' = migration_fee_withdrawn \cup {party}
    /\ quote_vault' = quote_vault -
           MigrationFeeShare(config, party, effective_migration_quote_threshold)
    /\ quote_vault' \in U64
    /\ UNCHANGED <<configVars, saleVars, base_fee, quote_fee, migFeeVars,
                   surplus_withdrawn, is_withdraw_leftover, statusVars, base_vault,
                   mintVars, clock>>

-----------------------------------------------------------------------------
(***************************************************************************)
(* Migration.  The amounts are computed at the pool's current price from   *)
(* the real quote raised, up to the cap.                                   *)
(***************************************************************************)
MigrationQuote ==
    calculate_post_fee_migration_quote_amount(config, effective_migration_quote_threshold)

MigrationBase == MigrationBaseAmount(config, MigrationQuote, sqrt_price)

\* The require! that the vault covers the amounts and that neither is zero.
\* A range-bound DAMM v2 pool needs a price above its lower bound.
SufficientForMigration ==
    /\ quote_reserve > 0
    /\ IsConstantProduct(config) \/ MIN_SQRT_PRICE < sqrt_price
    /\ MigrationBase \in U64 \ {0}
    /\ MigrationQuote \in U64 \ {0}
    /\ base_vault - get_protocol_and_trading_base_fee >= MigrationBase

CreateLockerAfterDeadline ==
    /\ migration_progress = "PreBondingCurve"
    /\ has_vesting(config)
    /\ is_deadline_reached

\* create_locker moves the vested amount into an escrow of the locker
\* program (external; it passes no transfer-hook accounts).
CreateLocker ==
    /\ migration_progress = "PostBondingCurve" \/ CreateLockerAfterDeadline
    /\ CreateLockerAfterDeadline => SufficientForMigration
    /\ ~hook_active
    /\ finish_curve_timestamp' = IF finish_curve_timestamp = 0 /\ CreateLockerAfterDeadline
                                 THEN deadline_timestamp ELSE finish_curve_timestamp
    /\ base_vault' = base_vault - config.vesting_amount
    /\ base_vault' \in U64
    /\ migration_progress' = "LockedVesting"
    /\ UNCHANGED <<configVars, saleVars, base_fee, quote_fee, migFeeVars, withdrawVars,
                   quote_vault, mintVars, clock>>

MigrateAfterDeadline ==
    /\ migration_progress = "PreBondingCurve"
    /\ is_deadline_reached
    /\ ~has_vesting(config)

(***************************************************************************)
(* The part the two migration instructions share.  The DAMM pool takes the *)
(* amounts offered without the protocol's fee, less the dust its rounding  *)
(* leaves; base tokens that nobody has a claim on are burnt.               *)
(***************************************************************************)
Migrate(base_dust, quote_dust) ==
    LET base_fee_amount  == ProtocolMigrationBaseFee(config, MigrationBase, MigrationQuote,
                                sqrt_price, protocol_liquidity_migration_fee_bps)
        quote_fee_amount == ProtocolMigrationQuoteFee(MigrationQuote,
                                protocol_liquidity_migration_fee_bps)
        base_offered     == MigrationBase - base_fee_amount
        quote_offered    == MigrationQuote - quote_fee_amount
        base_after       == base_vault - (base_offered - base_dust)
        left_base_token  == base_after - (get_protocol_and_trading_base_fee + base_fee_amount)
        burnable_amount  == get_burnable_amount_post_migration(config, left_base_token)
    IN  /\ migration_progress = "LockedVesting" \/ MigrateAfterDeadline
        /\ is_sale_complete
        /\ ~hook_active
        /\ SufficientForMigration
        /\ {base_fee_amount, quote_fee_amount, base_offered, quote_offered} \subseteq U64
        /\ base_dust <= base_offered /\ quote_dust <= quote_offered
        /\ left_base_token \in U64 /\ burnable_amount \in U64
        /\ finish_curve_timestamp' = IF finish_curve_timestamp = 0 /\ MigrateAfterDeadline
                                     THEN deadline_timestamp ELSE finish_curve_timestamp
        /\ protocol_migration_base_fee_amount' = base_fee_amount
        /\ protocol_migration_quote_fee_amount' = quote_fee_amount
        /\ quote_vault' = quote_vault - (quote_offered - quote_dust)
        /\ base_vault' = base_after - burnable_amount
        /\ {base_vault', quote_vault'} \subseteq U64
        /\ base_mint_supply' = base_mint_supply - burnable_amount
        /\ migration_progress' = "CreatedPool"
        /\ UNCHANGED <<configVars, saleVars, base_fee, quote_fee, withdrawVars,
                       hook_active, clock>>

\* migrate_meteora_damm: a constant-product pool takes exactly what it is offered.
MigrateMeteoraDamm ==
    /\ config.migration_option = "MeteoraDamm"
    /\ Migrate(0, 0)

MigrateDammV2(base_dust, quote_dust) ==
    /\ config.migration_option = "DammV2"
    /\ Migrate(base_dust, quote_dust)

LeftoverAmount_WithMigrationFee ==   \* mutant
    base_vault - get_protocol_and_trading_base_fee

LeftoverAmount ==
    base_vault - get_protocol_and_trading_base_fee - protocol_migration_base_fee_amount

\* withdraw_leftover: what is left of a fixed supply, once.
WithdrawLeftover ==
    /\ migration_progress = "CreatedPool"
    /\ config.fixed_token_supply
    /\ ~is_withdraw_leftover
    /\ ~hook_active
    /\ LeftoverAmount \in U64
    /\ base_vault' = base_vault - LeftoverAmount
    /\ is_withdraw_leftover' = TRUE
    /\ UNCHANGED <<configVars, saleVars, base_fee, quote_fee, migFeeVars,
                   surplus_withdrawn, migration_fee_withdrawn, statusVars,
                   quote_vault, mintVars, clock>>

\* Time passes.
Tick ==
    /\ clock < MaxTime
    /\ clock' = clock + 1
    /\ UNCHANGED <<configVars, saleVars, base_fee, quote_fee, migFeeVars, withdrawVars,
                   statusVars, base_vault, quote_vault, mintVars>>

-----------------------------------------------------------------------------
Trade ==
    \E n, m \in FeeNumerators :
        \/ \E mode \in {"ExactIn", "PartialFill"}, a \in BuyAmounts :
               \/ \E has_referral \in BOOLEAN : Swap(mode, a, has_referral, n, m)
               \/ VirtualSwap(mode, a, n, m)
        \/ \E a \in OutAmounts :
               \/ \E has_referral \in BOOLEAN : Swap("ExactOut", a, has_referral, n, m)
               \/ VirtualSwap("ExactOut", a, n, m)

Claim ==
    \/ \E a, b \in ClaimCaps : ClaimProtocolFee(a, b)
    \/ \E is_base \in BOOLEAN, a \in ClaimCaps : ClaimProtocolFee2(is_base, a)
    \/ \E is_base \in BOOLEAN, a \in ClaimCaps : ZapProtocolFee(is_base, a)
    \/ \E party \in {"partner", "creator"}, a, b \in ClaimCaps : ClaimTradingFee(party, a, b)
    \/ PartnerWithdrawSurplus
    \/ CreatorWithdrawSurplus
    \/ \E party \in {"partner", "creator"} : WithdrawMigrationFee(party)
    \/ WithdrawLeftover

CreatePool ==
    \/ MigrateMeteoraDamm
    \/ \E bd, qd \in 0..MaxDust : MigrateDammV2(bd, qd)

Next == Trade \/ Claim \/ CreateLocker \/ CreatePool \/ Tick

Spec == Init /\ [][Next]_vars

-----------------------------------------------------------------------------
(***************************************************************************)
(* What the pool promises.                                                 *)
(***************************************************************************)

\* Every field has the width the program stores it in, and the flags name
\* parties that exist.
TypeOK ==
    /\ config \in Configs
    /\ deadline_timestamp \in Deadlines
    /\ protocol_liquidity_migration_fee_bps \in MigrationFeeBps
    /\ {base_reserve, quote_reserve, virtual_quote_reserve} \subseteq U64
    /\ sqrt_price \in Nat
    /\ base_fee \in [Party -> U64]
    /\ quote_fee \in [Party -> U64]
    /\ protocol_migration_base_fee_amount \in U64
    /\ protocol_migration_quote_fee_amount \in U64
    /\ surplus_withdrawn \subseteq Party
    /\ migration_fee_withdrawn \subseteq {"partner", "creator"}
    /\ is_withdraw_leftover \in BOOLEAN
    /\ migration_progress \in MigrationProgress
    /\ finish_curve_timestamp \in Nat
    /\ {base_vault, quote_vault} \subseteq U64
    /\ base_mint_supply \in Int
    /\ hook_active \in BOOLEAN
    /\ clock \in Nat

\* What a party may still withdraw of the surplus and of the migration fee.
SurplusOwed(party) ==
    IF has_real_quote_surplus /\ party \notin surplus_withdrawn
    THEN SurplusShare(config, party, get_total_surplus) ELSE 0

MigrationFeeOwed(party) ==
    IF party \in migration_fee_withdrawn THEN 0
    ELSE MigrationFeeShare(config, party, effective_migration_quote_threshold)

QuoteObligations ==
    TotalFee(quote_fee) + protocol_migration_quote_fee_amount
    + SurplusOwed("protocol") + SurplusOwed("partner") + SurplusOwed("creator")
    + MigrationFeeOwed("partner") + MigrationFeeOwed("creator")
    + (IF migration_progress = "CreatedPool" THEN 0 ELSE MigrationQuote)

\* The quote vault covers, at every moment and in whatever order the parties
\* withdraw, every unclaimed fee, every unpaid share of the surplus and of
\* the migration fee, and the quote the migration will deposit.
QuoteSolvent == quote_vault >= QuoteObligations

\* No quote token is stranded: while no fixed cap is set, the vault holds no
\* more than the parties may withdraw, up to the dust of a DAMM v2 deposit.
NoStrandedQuote ==
    ~is_fixed_migration_quote_amount_enabled(config) =>
        quote_vault <= QuoteObligations + MaxDust

\* The base vault holds the tokens still for sale and the fees; after the
\* locker, the same less the vesting; after the migration, at least the fees.
BaseSolvent ==
    LET fees == TotalFee(base_fee) + protocol_migration_base_fee_amount
    IN  CASE migration_progress \in {"PreBondingCurve", "PostBondingCurve"} ->
               base_vault = base_reserve + fees
          [] migration_progress = "LockedVesting" ->
               base_vault = base_reserve - config.vesting_amount + fees
          [] migration_progress = "CreatedPool" -> base_vault >= fees

\* What curve c asks for, in quote tokens, and sells, in base tokens, from its
\* start price to sqrt_price: each range rounded against the buyer.
CurveCost(c, price) ==
    LET CostOfRange(i) ==
            LET lower == RangeStart(c.sqrt_start_price, c.curve, i)
            IN  IF lower >= price THEN 0
                ELSE get_delta_amount_quote(lower, MinOf(c.curve[i].sqrt_price, price),
                                            c.curve[i].liquidity, "Up")
    IN  Total([i \in 1..Len(c.curve) |-> CostOfRange(i)], Len(c.curve))

CurveSold(c, price) ==
    LET SoldInRange(i) ==
            LET lower == RangeStart(c.sqrt_start_price, c.curve, i)
            IN  IF lower >= price THEN 0
                ELSE get_delta_amount_base(lower, MinOf(c.curve[i].sqrt_price, price),
                                           c.curve[i].liquidity, "Down")
    IN  Total([i \in 1..Len(c.curve) |-> SoldInRange(i)], Len(c.curve))

\* However a sale is cut into swaps of the three modes, the pool took in at
\* least what one buy of everything up to its price would have cost, and gave
\* out at most what that buy would have got: the roundings never favour a
\* buyer.
CurveBacked ==
    /\ total_quote_reserve >= CurveCost(config, sqrt_price)
    /\ get_initial_base_supply(config) - base_reserve <= CurveSold(config, sqrt_price)

\* No sale runs into a dead end: from every state before completion, one
\* partial fill that offers enough reaches the migration price, completes the
\* curve there, and leaves the base tokens process_swap then requires.
SaleCanFinish ==
    LET offer == config.migration_quote_threshold + 1
        buy   == calculate_quote_to_base_from_amount_in(config.curve, sqrt_price, offer,
                                                        config.migration_sqrt_price)
    IN  ~is_curve_complete =>
            /\ total_quote_reserve + (offer - buy.amount_left) >=
                   config.migration_quote_threshold
            /\ base_reserve - buy.output_amount >=
                   config.migration_base_threshold + config.vesting_amount

\* A pool whose curve completed passes the migration's liquidity check, at the
\* price and with the reserve it really has, not at the ones create_config
\* computed migration_base_threshold from.  (A curve completed by virtual
\* swaps alone has nothing to migrate.)
CompletedSaleMigratable ==
    is_curve_complete /\ quote_reserve > 0 /\ migration_progress # "CreatedPool" =>
        /\ MigrationQuote > 0 /\ MigrationBase > 0
        /\ MigrationBase <= base_vault - TotalFee(base_fee) -
               (IF migration_progress = "PostBondingCurve" THEN config.vesting_amount ELSE 0)

\* The vesting starts at finish_curve_timestamp: it is set exactly when the
\* pool leaves PreBondingCurve, is not in the future and not after the
\* deadline, whichever of a last swap, create_locker and the migration set it.
FinishTimestampSound ==
    IF migration_progress = "PreBondingCurve" THEN finish_curve_timestamp = 0
    ELSE /\ finish_curve_timestamp \in 1..clock
         /\ deadline_timestamp # 0 => finish_curve_timestamp <= deadline_timestamp

\* However many tokens were sold and at whatever price the pool migrates, the
\* burn takes a fixed supply no lower than the configuration says.  (A mint
\* authority left to somebody could only add to it.)
FixedSupplyFloor ==
    config.fixed_token_supply =>
        IF migration_progress = "CreatedPool"
        THEN base_mint_supply >= config.post_migration_token_supply
        ELSE base_mint_supply = config.pre_migration_token_supply

\* No base token is stranded: what a migrated pool's vault holds beyond the
\* fees is what is left of a fixed supply already burnt down to its final
\* size, and withdraw_leftover can still pay it out.
NoStrandedBase ==
    migration_progress = "CreatedPool" /\ LeftoverAmount # 0 =>
        /\ config.fixed_token_supply /\ ~is_withdraw_leftover
        /\ base_mint_supply = config.post_migration_token_supply

\* Once the sale is complete nothing moves the reserves or the price the
\* migration is computed from, and the pool never goes back a stage.
SaleFinal ==
    [][/\ is_sale_complete => UNCHANGED saleVars
       /\ is_sale_complete => is_sale_complete'
       /\ migration_progress = "CreatedPool" => UNCHANGED statusVars]_vars

\* What is paid once is computed from an amount that no later step changes, so
\* that no share is computed from another total than its neighbour: the quote
\* that migrates, once a migration fee is paid or the pool has migrated, and
\* the surplus, once a share of it is paid.  The partner's surplus over a fixed
\* cap is no such amount: it may be paid while swaps add to it, which then
\* never lose it anything (CapSurplusReachesPartner is about what they add).
PayoutsFinal ==
    [][/\ migration_fee_withdrawn # {} \/ migration_progress = "CreatedPool" =>
              UNCHANGED effective_migration_quote_threshold
       /\ surplus_withdrawn # {} =>
              IF is_fixed_migration_quote_amount_enabled(config)
              THEN get_total_surplus' >= get_total_surplus
              ELSE UNCHANGED get_total_surplus]_vars

-----------------------------------------------------------------------------
(***************************************************************************)
(* Liveness.  create_locker and the two migrations are permissionless, and *)
(* everybody who is owed something gains by them: an enabled one is sent   *)
(* eventually.  The repository's keeper, which sends the migration, is     *)
(* modelled step by step in MigrationKeeper.                               *)
(***************************************************************************)
FairSpec == Spec /\ WF_vars(CreateLocker) /\ WF_vars(CreatePool) /\ WF_vars(Tick)

\* A pool that raised real quote and completed its curve becomes a DAMM pool.
CompletedSaleMigrates ==
    is_curve_complete /\ quote_reserve > 0 ~> migration_progress = "CreatedPool"

\* A sale that its deadline ended with real quote in the pool becomes a DAMM
\* pool ("migrates below threshold after the deadline at the current curve
\* price", tests/migration_deadline.tests.ts).
DeadlineSaleMigrates ==
    is_deadline_reached /\ quote_reserve > 0 ~> migration_progress = "CreatedPool"

-----------------------------------------------------------------------------
(***************************************************************************)
(* What comments and the README say and the program does not do.           *)
(***************************************************************************)

\* "when the fields are specified, token will have fixed supply in pre and post
\* migration" (README).
FixedSupplyKept ==
    config.fixed_token_supply =>
        base_mint_supply = IF migration_progress = "CreatedPool"
                           THEN config.post_migration_token_supply
                           ELSE config.pre_migration_token_supply

\* "quote above the cap is partner-only surplus" (README): what is above the
\* cap has been paid to the partner or is still owed to it.
CapSurplusReachesPartner ==
    is_fixed_migration_quote_amount_enabled(config) =>
        quote_vault <= QuoteObligations + MaxDust

=============================================================================
