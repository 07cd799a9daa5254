------------------------ MODULE MCMigratedLiquidity ------------------------
(***************************************************************************)
(* Small instances of DammV2Positions: three accounts, one of them the     *)
(* partner's, and liquidity percentages whose shares do not divide the     *)
(* minted LP tokens evenly, some of them zero.                             *)
(***************************************************************************)
EXTENDS DammV2Positions, MCVirtualPool

\* Percentages <<partner, creator>> that are locked, vested and free.
Shares(lock, vest, claim) ==
    LET of(pair) == [r \in Role |-> IF r = "partner" THEN pair[1] ELSE pair[2]]
    IN  [k \in Share |-> CASE k = "lock"  -> of(lock)
                           [] k = "vest"  -> of(vest)
                           [] k = "claim" -> of(claim)]

AllShares == {Shares(<<33, 33>>, <<0, 0>>, <<17, 17>>), Shares(<<0, 60>>, <<0, 0>>, <<40, 0>>),
              Shares(<<50, 0>>, <<0, 0>>, <<0, 50>>), Shares(<<100, 0>>, <<0, 0>>, <<0, 0>>),
              Shares(<<10, 0>>, <<5, 47>>, <<0, 38>>), Shares(<<0, 5>>, <<20, 30>>, <<44, 1>>)}

\* Vestings by periods after a cliff and without one.
Vesting(bps, periods, cliff, frequency) ==
    [bps_per_period |-> bps, number_of_periods |-> periods,
     cliff_duration_from_migration_time |-> cliff, frequency |-> frequency]

AllVestings == [Role -> {NoVestingInfo, Vesting(1000, 10, 0, 1), Vesting(1, 3, 0, 1), Vesting(700, 3, 2, 2)}]

LpConfigs == {process_create_config(p) : p \in
                 {[LegacyVesting EXCEPT !.migration_fee_percentage = 0], Plain, OneRange}}

=============================================================================
