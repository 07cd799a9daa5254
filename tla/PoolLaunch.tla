----------------------------- MODULE PoolLaunch -----------------------------
(***************************************************************************)
(* VirtualPool implements TokenLaunch.  The stage of the launch is read    *)
(* off the reserves, the clock and migration_progress: no single field of  *)
(* the program holds it.  The leftover goes to its receiver, written       *)
(* "creator" here.                                                         *)
(***************************************************************************)
EXTENDS VirtualPool

LaunchStage ==
    IF migration_progress = "CreatedPool" THEN "migrated"
    ELSE IF is_sale_complete THEN "ended" ELSE "open"

LaunchPaid ==
    {<<"surplus", p>> : p \in surplus_withdrawn}
    \cup {<<"migration_fee", p>> : p \in migration_fee_withdrawn}
    \cup (IF is_withdraw_leftover THEN {<<"leftover", "creator">>} ELSE {})

Launch == INSTANCE TokenLaunch WITH
    Parties  <- Party,
    goal     <- config.migration_quote_threshold,
    cap      <- get_migration_quote_amount_cap(config),
    stage    <- LaunchStage,
    sold     <- get_initial_base_supply(config) - base_reserve,
    raised   <- total_quote_reserve,
    received <- quote_reserve,
    price    <- sqrt_price,
    supply   <- base_mint_supply,
    paid     <- LaunchPaid

\* The pool keeps the promises of a launch: every instruction is a step of
\* TokenLaunch or invisible to it, whatever order they come in.
ImplementsLaunch == Launch!LaunchSpec

=============================================================================
