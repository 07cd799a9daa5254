-------------------------- MODULE DammV2Positions --------------------------
(***************************************************************************)
(* The migration to a DAMM v2 pool in full: the pool is created with the   *)
(* position of the party whose share is larger, the other party's position *)
(* gets the liquidity that the tokens left over still buy, and both are    *)
(* locked, for ever or by a vesting, before they are handed over.          *)
(*                                                                         *)
(* VirtualPool lets a DAMM v2 pool leave any dust up to MaxDust; here the  *)
(* dust is computed, and ImplementsLiquidity says that the choice covers   *)
(* it.  The DAMM v2 program is external: it takes the amounts a liquidity  *)
(* stands for, rounded up, and refuses a vesting it finds invalid.         *)
(***************************************************************************)
EXTENDS MigratedLiquidity

CONSTANTS
    VestingInfos,          \* the vestings a configuration may have, by role
    DEAD_LIQUIDITY,        \* what a compounding pool keeps for itself
    U128Max,               \* the liquidity create_config validates with
    SECONDS_PER_DAY,
    MAX_LOCK_DURATION_IN_SECONDS

MIN_LOCKED_LIQUIDITY_BPS == 1000

VestingInfo == [bps_per_period : 0..BASIS_POINT_MAX, number_of_periods : Nat,
                cliff_duration_from_migration_time : Nat, frequency : Nat]

\* The protocol's fee is not the whole of the liquidity.  A liquidity is a
\* u128 and the fields of a vesting are u16: the largest one is enough to see
\* a period's share of it, and whether the periods unlock more than all of it.
ASSUME PositionsAssumption ==
    /\ VestingInfos \subseteq [Role -> VestingInfo]
    /\ MAX_LOCK_DURATION_IN_SECONDS \in Nat
    /\ {SECONDS_PER_DAY, DEAD_LIQUIDITY, U128Max} \subseteq Nat \ {0}
    /\ BASIS_POINT_MAX \notin MigrationFeeBps
    /\ \A p \in Percentages, i \in VestingInfos, r \in Role :
           p["vest"][r] > 0 =>
               /\ MulDivDown(U128Max, p["vest"][r], 100) >= BASIS_POINT_MAX
               /\ i[r].bps_per_period * i[r].number_of_periods > BASIS_POINT_MAX =>
                      MulDivDown(U128Max, p["vest"][r], 100)
                          > BASIS_POINT_MAX * i[r].number_of_periods

VARIABLES
    liquidity_vesting_info,  \* of the configuration
    positions,               \* by role: the position's liquidity and vesting
    migrated_at              \* when they were created; 0 is not yet

positionVars == <<liquidity_vesting_info, positions, migrated_at>>

-----------------------------------------------------------------------------
(***************************************************************************)
(* Vesting of liquidity.                                                   *)
(***************************************************************************)
NoVestingInfo == [bps_per_period |-> 0, number_of_periods |-> 0,
                  cliff_duration_from_migration_time |-> 0, frequency |-> 0]

get_damm_v2_vesting_parameters_KeepCliff(info, vested, now) ==   \* mutant
    LET after_cliff == MulDivDown(vested, info.bps_per_period * info.number_of_periods, BASIS_POINT_MAX)
        per_period  == IF info.number_of_periods > 0 THEN after_cliff \div info.number_of_periods ELSE 0
        periods     == IF per_period = 0 THEN 0 ELSE info.number_of_periods
    IN  [cliff_point            |-> now + info.cliff_duration_from_migration_time,
         liquidity_per_period   |-> per_period,
         cliff_unlock_liquidity |-> vested - per_period * periods,
         period_frequency       |-> IF per_period = 0 THEN 0 ELSE info.frequency,
         number_of_period       |-> periods]

\* A vesting too small for its periods becomes a cliff in the future.
get_damm_v2_vesting_parameters(info, vested, now) ==
    LET after_cliff == MulDivDown(vested, info.bps_per_period * info.number_of_periods, BASIS_POINT_MAX)
        per_period  == IF info.number_of_periods > 0 THEN after_cliff \div info.number_of_periods ELSE 0
        cliff_only  == per_period = 0
        cliff       == info.cliff_duration_from_migration_time
        periods     == IF cliff_only THEN 0 ELSE info.number_of_periods
    IN  [cliff_point            |-> now + (IF cliff_only /\ cliff = 0 THEN 1 ELSE cliff),
         liquidity_per_period   |-> per_period,
         cliff_unlock_liquidity |-> vested - per_period * periods,
         period_frequency       |-> IF cliff_only THEN 0 ELSE info.frequency,
         number_of_period       |-> periods]

\* The conditions of DAMM v2 on a vesting, which create_config checks as well.
\* (An unlock at the cliff below zero is the failed subtraction before them.)
validate_vesting_parameters(v, now) ==
    /\ v.cliff_unlock_liquidity >= 0
    /\ v.cliff_point >= now
    /\ v.cliff_point = now => v.number_of_period > 0
    /\ v.number_of_period > 0 => v.period_frequency > 0 /\ v.liquidity_per_period > 0
    /\ v.cliff_point - now + v.period_frequency * v.number_of_period
           <= MAX_LOCK_DURATION_IN_SECONDS
    /\ v.cliff_unlock_liquidity + v.liquidity_per_period * v.number_of_period > 0

get_max_unlocked_liquidity_at_current_point(v, point) ==
    IF point < v.cliff_point THEN 0
    ELSE IF v.period_frequency = 0 THEN v.cliff_unlock_liquidity
    ELSE v.cliff_unlock_liquidity + v.liquidity_per_period *
             MinOf((point - v.cliff_point) \div v.period_frequency, v.number_of_period)

-----------------------------------------------------------------------------
(***************************************************************************)
(* The tokens offered to the pool, and the pool they make.                 *)
(***************************************************************************)
BaseOffered ==
    MigrationBase - ProtocolMigrationBaseFee(config, MigrationBase, MigrationQuote,
                        sqrt_price, protocol_liquidity_migration_fee_bps)

QuoteOffered ==
    MigrationQuote - ProtocolMigrationQuoteFee(MigrationQuote,
                         protocol_liquidity_migration_fee_bps)

get_initial_liquidity_from_delta_base(base_amount, price) ==
    MulDivDown(base_amount * price, MAX_SQRT_PRICE, MAX_SQRT_PRICE - price)

calculate_concentrated_initial_liquidity(base_amount, quote_amount) ==
    MinOf(get_initial_liquidity_from_delta_base(base_amount, sqrt_price),
          get_initial_liquidity_from_delta_quote(quote_amount, sqrt_price))

sqrt_u256(x) == CHOOSE s \in 0..MAX_SQRT_PRICE : s * s <= x /\ x < (s + 1) * (s + 1)

\* a = l / s and b = l * s: the price is rounded up, the liquidity down.
calculate_compounding_initial_sqrt_price_and_liquidity(base_amount, quote_amount) ==
    LET up   == MulDivUp(quote_amount, Scale * Scale, base_amount)
        down == MulDivDown(quote_amount, Scale * Scale, base_amount)
        ok   == MIN_SQRT_PRICE * MIN_SQRT_PRICE <= up
                /\ up < (MAX_SQRT_PRICE + 1) * (MAX_SQRT_PRICE + 1)
    IN  [ok         |-> ok,
         sqrt_price |-> IF ok THEN sqrt_u256(up) ELSE 0,
         liquidity  |-> IF ok THEN sqrt_u256(down) * base_amount ELSE 0]

get_initial_pool_information(base_amount, quote_amount) ==
    LET p == calculate_compounding_initial_sqrt_price_and_liquidity(base_amount, quote_amount)
    IN  IF config.compounding
        THEN [ok |-> p.ok /\ p.liquidity >= DEAD_LIQUIDITY, sqrt_price |-> p.sqrt_price,
              distributable |-> p.liquidity - DEAD_LIQUIDITY, dead |-> DEAD_LIQUIDITY]
        ELSE [ok |-> TRUE, sqrt_price |-> sqrt_price, dead |-> 0,
              distributable |-> calculate_concentrated_initial_liquidity(base_amount, quote_amount)]

\* DAMM v2: the tokens of a pool created with liquidity at price.
DammPool(price, l) ==
    IF config.compounding
    THEN [liquidity |-> l, base |-> MulDivUp(l, 1, price), quote |-> MulDivUp(l, price, Scale * Scale)]
    ELSE [liquidity |-> l,
          base  |-> get_delta_amount_base(price, MAX_SQRT_PRICE, l, "Up"),
          quote |-> get_delta_amount_quote(MIN_SQRT_PRICE, price, l, "Up")]

\* DAMM v2: the tokens that liquidity added to the pool takes.
DammDeposit(pool, l) ==
    IF config.compounding
    THEN [base  |-> MulDivUp(l, pool.base, pool.liquidity),
          quote |-> MulDivUp(l, pool.quote, pool.liquidity)]
    ELSE [base  |-> DammPool(sqrt_price, l).base, quote |-> DammPool(sqrt_price, l).quote]

calculate_liquidity_delta_RoundedUp(base_amount, quote_amount, pool) ==   \* mutant
    IF config.compounding
    THEN MinOf(MulDivUp(base_amount, pool.liquidity, pool.base),
               MulDivUp(quote_amount, pool.liquidity, pool.quote))
    ELSE calculate_concentrated_initial_liquidity(base_amount, quote_amount) + 1

calculate_liquidity_delta(base_amount, quote_amount, pool) ==
    IF config.compounding
    THEN MinOf(MulDivDown(base_amount, pool.liquidity, pool.base),
               MulDivDown(quote_amount, pool.liquidity, pool.quote))
    ELSE calculate_concentrated_initial_liquidity(base_amount, quote_amount)

-----------------------------------------------------------------------------
(***************************************************************************)
(* The two positions.                                                      *)
(***************************************************************************)
get_total_liquidity(item) == item["claim"] + item["lock"] + item["vest"]

adjust_liquidity_FreeOnly(role, item, total) ==   \* mutant
    [k \in Share |-> IF k = "claim" THEN total ELSE 0]

\* The second position gets total, not its share: its free part first, and
\* what is left for the locked part divided as the configuration says.
adjust_liquidity(role, item, total) ==
    LET locked_percentage == percentage["vest"][role] + percentage["lock"][role]
        free   == IF locked_percentage = 0 THEN total ELSE MinOf(total, item["claim"])
        vested == IF locked_percentage = 0 THEN 0
                  ELSE MulDivDown(total - free, percentage["vest"][role], locked_percentage)
    IN  [k \in Share |-> CASE k = "claim" -> free
                           [] k = "vest"  -> vested
                           [] k = "lock"  -> total - free - vested]

\* lock_liquidity_position: a position with the vesting it is locked with.
Position(role, item) ==
    [liquidity |-> item,
     vesting   |-> get_damm_v2_vesting_parameters(liquidity_vesting_info[role],
                                                  item["vest"], clock)]

LockAccepted(p) == p.liquidity["vest"] > 0 => validate_vesting_parameters(p.vesting, clock)

\* handle_migrate_damm_v2 from get_initial_pool_information to the second
\* position: whether every call succeeds, the positions, and the dust.
Migration ==
    LET initial == get_initial_pool_information(BaseOffered, QuoteOffered)
        shares  == get_liquidity_distribution(initial.distributable)
        item(r) == [k \in Share |-> shares[k][r]]
        first   == IF get_total_liquidity(item("partner")) > get_total_liquidity(item("creator"))
                   THEN "partner" ELSE "creator"
        second  == IF first = "partner" THEN "creator" ELSE "partner"
        pool    == DammPool(initial.sqrt_price, get_total_liquidity(item(first)) + initial.dead)
        left_base  == BaseOffered - pool.base
        left_quote == QuoteOffered - pool.quote
        total      == calculate_liquidity_delta(left_base, left_quote, pool)
        deposit    == DammDeposit(pool, total)
        created    == [r \in Role |-> Position(r, IF r = first THEN item(r)
                          ELSE IF total > 0 THEN adjust_liquidity(r, item(r), total)
                          ELSE [k \in Share |-> 0])]
    IN  IF ~initial.ok \/ left_base < 0 \/ left_quote < 0
        THEN [ok |-> FALSE, positions |-> positions, base_dust |-> 0, quote_dust |-> 0]
        ELSE [ok         |-> \A r \in Role : LockAccepted(created[r]),
              positions  |-> created,
              base_dust  |-> left_base - deposit.base,
              quote_dust |-> left_quote - deposit.quote]

\* migration_damm_v2.
MigrateToPositions ==
    /\ SufficientForMigration
    /\ \E m \in {Migration} :
           /\ m.ok
           /\ MigrateDammV2(m.base_dust, m.quote_dust)
           /\ positions' = m.positions
    /\ migrated_at' = clock
    /\ UNCHANGED <<percentage, creator, lpVars, liquidity_vesting_info>>

-----------------------------------------------------------------------------
(***************************************************************************)
(* What create_config asks of the liquidity's split and vesting, with the  *)
(* largest liquidity standing for all of it.                               *)
(***************************************************************************)
LargestVested(role) == MulDivDown(U128Max, percentage["vest"][role], 100)

LargestVesting(role) ==
    get_damm_v2_vesting_parameters(liquidity_vesting_info[role], LargestVested(role), 0)

ValidLiquidityVesting(role) ==
    IF percentage["vest"][role] = 0 /\ liquidity_vesting_info[role] = NoVestingInfo THEN TRUE
    ELSE /\ config.migration_option = "DammV2"
         /\ validate_vesting_parameters(LargestVesting(role), 0)

get_liquidity_locked_bps_at_n_seconds_Never(role, n) ==   \* mutant
    MulDivDown(LargestVested(role), BASIS_POINT_MAX, U128Max)

get_liquidity_locked_bps_at_n_seconds(role, n) ==
    MulDivDown(LargestVested(role) -
                   get_max_unlocked_liquidity_at_current_point(LargestVesting(role), n),
               BASIS_POINT_MAX, U128Max)

get_total_liquidity_locked_bps_at_n_seconds(n) ==
    get_liquidity_locked_bps_at_n_seconds("partner", n) + 100 * percentage["lock"]["partner"]
    + get_liquidity_locked_bps_at_n_seconds("creator", n) + 100 * percentage["lock"]["creator"]

\* A compounding pool with the amounts of a sale that ends at the threshold
\* has liquidity left, at a price within 1% of the curve's.
validate_initial_pool_information ==
    LET quote_amount == calculate_post_fee_migration_quote_amount(config,
                            get_migration_quote_amount_cap(config))
        base_cut  == MulDivDown(config.migration_base_threshold,
                                protocol_liquidity_migration_fee_bps, BASIS_POINT_MAX)
        quote_cut == ProtocolMigrationQuoteFee(quote_amount, protocol_liquidity_migration_fee_bps)
        p     == calculate_compounding_initial_sqrt_price_and_liquidity(
                     config.migration_base_threshold - base_cut, quote_amount - quote_cut)
        price == config.migration_sqrt_price
    IN  /\ p.ok
        /\ p.liquidity > DEAD_LIQUIDITY
        /\ IF price > p.sqrt_price THEN 100 * (price - p.sqrt_price) <= price
                                   ELSE 100 * (p.sqrt_price - price) <= p.sqrt_price

PositionsInit ==
    /\ LiquidityInit
    /\ liquidity_vesting_info \in VestingInfos
    /\ \A r \in Role : ValidLiquidityVesting(r)
    /\ get_total_liquidity_locked_bps_at_n_seconds(SECONDS_PER_DAY) >= MIN_LOCKED_LIQUIDITY_BPS
    /\ config.migration_option = "DammV2" /\ config.compounding =>
           validate_initial_pool_information
    /\ positions = [r \in Role |-> Position(r, [k \in Share |-> 0])]
    /\ migrated_at = 0

\* Every other instruction, of the pool and of its LP tokens.
OtherStep ==
    /\ \/ /\ Trade \/ Claim \/ CreateLocker \/ Tick
          /\ UNCHANGED <<percentage, creator, lpVars>>
       \/ CreateMetadata
       \/ \E lp \in LpMinted : MigrateAndMint(lp)
       \/ \E kind \in Kind, owner \in Accounts : DeliverLp(kind, owner)
       \/ \E new_creator \in Accounts : TransferPoolCreator(new_creator)
    /\ UNCHANGED positionVars

PositionsNext == OtherStep \/ MigrateToPositions

PositionsSpec == PositionsInit /\ [][PositionsNext]_<<allVars, positionVars>>

-----------------------------------------------------------------------------
\* The two deposits take no more than was offered, so nothing of the fees and
\* the surplus in the vaults, and leave no more than the dust that the
\* theorems about the vaults assume: the detailed migration is one that
\* MigratedLiquidity allows.  (The second deposit has no limit of its own:
\* add_liquidity is called with thresholds of u64::MAX.)
ImplementsLiquidity == LiquiditySpec

\* The liquidity that one unit of either token buys, at least.
UnitLiquidity ==
    LET initial == get_initial_pool_information(BaseOffered, QuoteOffered)
        pool    == DammPool(initial.sqrt_price, initial.distributable)
        unit(amount) == MulDivUp(1, pool.liquidity, IF amount > 1 THEN amount - 1 ELSE 1)
    IN  1 + (IF unit(pool.base) > unit(pool.quote) THEN unit(pool.base) ELSE unit(pool.quote))

\* The price of a compounding pool is rounded up and its liquidity down: the
\* liquidity that one unit of square-root price is worth.
PriceRounding == IF config.compounding THEN BaseOffered ELSE 0

\* Whichever party's position is created first, each gets no more free
\* liquidity than its share, up to PriceRounding, and its locked liquidity
\* falls short of its share by no more than two units of a token buy, one for
\* the rounding of each deposit.  (Of two, because the larger position is the
\* first one.)
PositionsKeepShares ==
    migrated_at > 0 =>
        LET shares == get_liquidity_distribution(
                          get_initial_pool_information(BaseOffered, QuoteOffered).distributable)
        IN  \A r \in Role :
                /\ positions[r].liquidity["claim"] <= shares["claim"][r] + PriceRounding
                /\ positions[r].liquidity["lock"] + positions[r].liquidity["vest"] + 2 * UnitLiquidity
                       >= shares["lock"][r] + shares["vest"][r]

LockedAt(role, point) ==
    positions[role].liquidity["lock"] + positions[role].liquidity["vest"]
    - get_max_unlocked_liquidity_at_current_point(positions[role].vesting, point)

\* One for each of a party's two locked shares and for each period of its
\* vesting, all of them rounded down.
SharesRounding(role) == 2 + liquidity_vesting_info[role].number_of_periods

\* What create_config checks with the largest liquidity holds of the real
\* positions: a day after the migration MIN_LOCKED_LIQUIDITY_BPS of their
\* liquidity are still locked, up to the roundings of the deposits, as in
\* PositionsKeepShares, and of the shares.
LockedForADay ==
    migrated_at > 0 =>
        LET total == get_total_liquidity(positions["partner"].liquidity)
                     + get_total_liquidity(positions["creator"].liquidity)
        IN  LockedAt("partner", migrated_at + SECONDS_PER_DAY)
            + LockedAt("creator", migrated_at + SECONDS_PER_DAY)
            + 2 * UnitLiquidity + PriceRounding
            + SharesRounding("partner") + SharesRounding("creator")
                >= MulDivDown(total, MIN_LOCKED_LIQUIDITY_BPS, BASIS_POINT_MAX)

\* A pool that passes the migration's liquidity check is not refused by the
\* DAMM v2 calls after it: a vesting that create_config accepted for the
\* largest liquidity is accepted for the one the pool really has, even when
\* nothing of it is left for a period.  (A compounding pool is validated for
\* the amounts of a completed sale; one that a deadline or virtual swaps left
\* with next to no quote may not cover its dead liquidity.)
PositionsAccepted ==
    /\ config.migration_option = "DammV2"
    /\ migration_progress = "LockedVesting" \/ MigrateAfterDeadline
    /\ SufficientForMigration
    /\ config.compounding => is_curve_complete /\ virtual_quote_reserve = 0
    => Migration.ok

=============================================================================
