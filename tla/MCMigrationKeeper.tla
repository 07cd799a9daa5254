------------------------- MODULE MCMigrationKeeper -------------------------
(***************************************************************************)
(* A keeper and two pools it may watch: one without vesting, with a cap    *)
(* and a fixed supply, so that it has a surplus and a leftover; and one    *)
(* with a vesting, which needs a locker first.                             *)
(***************************************************************************)
EXTENDS MigrationKeeper, MCVirtualPool

WatchedCapped ==
    [Capped EXCEPT !.fixed_token_supply = TRUE, !.pre_migration_token_supply = 200,
                   !.post_migration_token_supply = 130]

WatchedVesting == [OneRange EXCEPT !.vesting_amount = 10]

KeeperConfigs == {process_create_config(p) : p \in {WatchedCapped, WatchedVesting}}

Collector == [withdrawLeftover |-> TRUE, is_fee_claimer |-> TRUE]
MigratesOnly == [withdrawLeftover |-> FALSE, is_fee_claimer |-> FALSE]
BothOptions == {Collector, MigratesOnly}
AnyClock == {-1, 0, 1}

=============================================================================
