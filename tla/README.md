# Dynamic bonding curve: a TLA+ verification project

The program (`programs/dynamic-bonding-curve`) launches tokens. A partner creates a
configuration with a bonding curve; a creator opens a pool under it, which mints the whole
supply into the pool's base vault; buyers move the price along the curve until the quote
raised reaches a threshold or a deadline passes; then anybody may lock the vested tokens and
migrate the pool's liquidity to a DAMM v1 or DAMM v2 pool. Along the way the protocol, the
partner and the creator withdraw fees, surplus, migration fees and leftovers from the two
vaults, each when it likes. There are no sells in this version.

What is hard is the money: one vault serves many claims whose amounts are computed at
different moments from state that still moves, with integer rounding at every step, and two
events (threshold, deadline) that can end a sale.

## 1. Inventory

| component | state | operations | correct when |
|---|---|---|---|
| configuration (`create_config`, `PoolConfig`) | immutable account | validate, derive migration price, thresholds and supply | derived amounts are enough for every sale under it |
| bonding curve (`curve.rs`, walks in `virtual_pool.rs`) | none | amounts and prices along ranges | rounding never favours a buyer |
| swaps (`swap/`) | reserves, price, fees | `swap`, `swap2`, `virtual_swap2`, three modes; the last one completes the curve | a sale can always be ended and is final then |
| trading fees | unclaimed fees per party | split, claim, zap | covered by the vault |
| base fee, dynamic fee (`base_fee/`, `fee.rs`) | volatility tracker | fee numerator of a swap | within bounds; the excluded side pays no less than the schedule |
| payouts (`operator/`, `partner/`, `creator/`, `withdraw_*`) | one-time flags | protocol fee, trading fee, surplus, migration fee, leftover | paid once, in any order, never out of another's share |
| locker and migration (`migration/`) | stage, finish time, migration fees | `create_locker`, `migrate_meteora_damm`, `migration_damm_v2` | possible whenever the sale ended; leaves what others may claim |
| DAMM v1 liquidity | metadata amounts and flags | create metadata, lock, claim, `transfer_pool_creator` | every LP token goes once to its party |
| DAMM v2 positions | none here: two positions in the DAMM pool | part of `migration_damm_v2` | each party's share, locked as configured; nothing taken from other money in the vaults |
| fees of the migrated pool (`damm_v2_utils.rs`) | immutable, in the configuration | validate, build | what was validated is accepted at the migration |
| pool creation fees | flag bits, lamports | two claims | claimed once, by its owner |
| operators, access control | permission bits | create, close, check | only permitted signers |
| migration keeper (`scripts/migration_keeper`) | one pool polled, retries of a check | poll, migrate, withdraw surplus and leftover | every finished sale is migrated in the end, errors that would pass do not end it, and it reports truly |
| SDK, tools, metadata accounts, utilities | none of interest | quotes, single transactions | - |

**Interaction.** All instructions of one pool share the pool account, its two vaults and the
base mint. A Solana transaction is atomic and write-locks the accounts it changes, so the
interleaving is that of whole instructions sent by independent parties, and of time. The
configuration is shared and read-only. DAMM pools, locker and token programs are called
synchronously; a failed call undoes the instruction. The keeper is a process of its own: it sees
the chain through RPC, one call at a time, polls one pool with `setInterval`, and sends
transactions whose answers may be lost. It sends the migration and two withdrawals, never the
locker.

**Hard behaviours.** Order of payouts and swaps; the deadline against the last swap; migration
computed at the price where a sale really stopped; virtual swaps, which move the curve without
paying; the transfer hook, which blocks the transfers of a migration until it is revoked; the
two roles of a self-partnered creator; a migration whose answer was lost; values validated when a
configuration is created and used at a migration much later. `PROJECT.json` lists them under `hazards`, with the lines.

## 2. Modules

| module | models | |
|---|---|---|
| `CurveMath` | `curve.rs`, `math/`, the buy walks of `virtual_pool.rs` | operators |
| `PoolFees` | fee on an amount, split of a fee, results of the three swap modes | operators |
| `PoolConfig` | `create_config`, supplies, thresholds, shares, migration amounts | operators |
| `VirtualPool` | one pool, from initialization to its last withdrawal | state machine |
| `MigratedLiquidity` | `VirtualPool` composed with the LP tokens of a DAMM v1 migration and `transfer_pool_creator` | state machine |
| `DammV2Positions` | `MigratedLiquidity` with the DAMM v2 migration in full: price, liquidity, two positions, locks and vestings | state machine |
| `TokenLaunch` | what a launch promises: an abstract specification | state machine |
| `PoolLaunch` | `VirtualPool` as an implementation of `TokenLaunch` | refinement |
| `MigrationKeeper` | the keeper of `scripts/migration_keeper`, composed with `VirtualPool`, and the faults of RPC | state machine |
| `CreationFees` | the lamports of pool accounts, their two claims, and operator accounts | state machine |
| `BaseFee` | `base_fee/`: fee scheduler, rate limiter forward and inverse, validation | operators |
| `MigratedPoolFees` | validation and construction of the fees of the migrated DAMM v2 pool | operators |
| `TradingFee` | the fee numerator of a pool's swaps: base fee, dynamic fee, first-swap fee, the single-swap rule of `process_swap.rs` | state machine |
| `MCVirtualPool`, `MCMigratedLiquidity`, `MCMigrationKeeper`, `MCTradingFee`, `MCCreationFees` | the configurations of the runs | |
| `ArithmeticProofs` | induction and recursion over numbers, sums, rounded division: the lemmas that the other proofs share | proofs |
| `VirtualPoolProofs`, `SolvencyProofs`, `CurveProofs` | theorems about `VirtualPool`: types, stages, finality and the refinement of `TokenLaunch`; the vaults; the curve | proofs |
| `LiquidityProofs`, `KeeperProofs`, `TradingFeeProofs`, `CreationFeeProofs` | theorems about the other state machines | proofs |

A definition has the name of the function it models where it models one. `PROJECT.json`
(`map`) names the lines. Definitions marked `\* mutant` are wrong variants of the definition
below them; each stands for a plausible bug and breaks the property it is listed with.

**State and actions of `VirtualPool`.** The variables are the fields of `PoolState` (the fees of
the three parties as functions, the one-time flags as sets of parties), the vault balances, the
mint's supply and hook, and the clock. One action per instruction: `Swap` and `VirtualSwap` (both
`process_swap`, with the completion and `revoke_transfer_hook` inside), `ClaimProtocolFee`,
`ClaimProtocolFee2`, `ZapProtocolFee`, `ClaimTradingFee` (partner and creator),
`PartnerWithdrawSurplus`, `CreatorWithdrawSurplus`, `WithdrawMigrationFee`, `WithdrawLeftover`,
`CreateLocker`, `MigrateMeteoraDamm`, `MigrateDammV2`, and `Tick`. A guard `x \in U64` is the
checked arithmetic or the transfer that fails.

**Abstractions.** Signers and destination accounts, slippage limits, events and account
validation are left out of `VirtualPool`: they only refuse an instruction. The trading-fee
numerator is any member of `FeeNumerators` at every swap; what scheduler, rate limiter and dynamic
fee really return is the matter of `TradingFee`. A partial fill uses two numerators, as in the code. Prices are
fixed-point numbers with unit `Scale` in place of 2^64. Tokens sent to a vault by a stranger are
not modelled. DAMM v1 takes exactly what it is offered; DAMM v2 leaves up to `MaxDust` of each
token, which `ImplementsLiquidity` of the run `LpDelivery` justifies. A vesting is its total
amount. `MigratedLiquidity` takes the number of LP tokens minted from a set: the DAMM v1 program
decides it.

**`TokenLaunch` and `PoolLaunch`.** The abstract launch has no curve, vault, fee or clock: a token
is sold until its goal is raised or its time is over, then the sale is final, then it becomes a
DAMM pool once, if quote really came in; the launch mints nothing, burns only in that step, and
makes a one-time payment once and not before it is due: a surplus not before the DAMM pool's
quote is there, a migration fee not before the end of the sale, the leftover not before the DAMM
pool. `PoolLaunch` reads the stage of the launch off the reserves, the clock and
`migration_progress`, since no single field of the program holds it. A transfer-hook
configuration may leave the mint authority to the creator or the partner
(`token_update_authority` 3 and 4, `state/config.rs:379`): what its holder mints is not an
instruction of this program, and neither `TokenLaunch` nor `VirtualPool` counts it in the supply,
so `ImplementsLaunch`, `FixedSupplyFloor` and `NoStrandedBase` are about what the program itself
mints and burns.

**`DammV2Positions`.** Adds the configuration's vestings, the two positions and the time of the
migration. `MigrateToPositions` is `MigrateDammV2` with the dust computed instead of chosen: the
protocol's part is taken off, the handler (concentrated or compounding) gives price and liquidity,
the pool is created with the larger position, and what that leaves buys the second one, which
`adjust_liquidity` divides. The DAMM v2 program is external: it takes what a liquidity stands for,
rounded up, and refuses the vestings that `validate_vesting_parameters` (its mirror in this
repository) refuses. The accounts of the second position are assumed to be supplied; its deposit
is sent with thresholds of `u64::MAX`, so only the rounding of `calculate_liquidity_delta` bounds
what it takes. A compounding pool is validated by `create_config` for the amounts of a completed
sale; one that a deadline or virtual swaps leave with next to no quote may be unable to cover its
dead liquidity and is then refused, which `PositionsAccepted` leaves out.
`PositionsKeepShares` and `LockedForADay` allow for what the proofs show the roundings to add up
to: two units of a token (`UnitLiquidity`, one for each deposit); in a compounding pool one unit
of square-root price (`PriceRounding`), because its price is rounded up and its liquidity down, so
the tokens that the first position leaves may buy slightly more than the second one's share; and
one unit of liquidity for each share and each period of a vesting (`SharesRounding`).

**`MigrationKeeper`.** `pc` is the RPC call that the check waits for, so anybody else may act on
the pool between any two of them. A poll that meets a running check returns at once (`inFlight`),
so there is one check at a time. The faults, at most `MaxFaults` of them, are: a read that fails
(in a check, or in a poll beside one); a transaction that is lost; one that lands and whose answer
is lost, as a timeout or, when it is sent again, as the rejection of its second copy by the
preflight. A transaction that lands after the keeper stopped waiting is a step of `VirtualPool`'s
`Next`, like the same step taken by somebody else.

A fault comes with an error, of one of four kinds that `shared.ts` tells apart by the message:
`unavailable` (a timeout or another pattern of `isRetryableRpcError`), `refused` (no pattern knows
it: a node that is behind, a forbidden request, no such account), `preflight` (a simulation that
failed because the node did not know the blockhash yet) and `program` (an instruction that
failed). Only the first is retried. `preflight` is not, although "blockhash not found" is on the
list of patterns (line 310): `isLikelyOnChainError` is asked first (line 306) and knows
"transaction simulation failed". A retryable error makes the check return null after its retries,
and the next poll starts anew; any other one, met by a check or by a poll's `getSlot`, settles
the process with an error, over a pool that it may still have to migrate. The same happens after a
migration that is sent too early and rejected, because the node has no block time for a slot
(null, which is no error) and the host's clock, used in its place, is ahead of the chain. The run
has clocks behind, exact and ahead. These stops are `StoppedByMistake`, and the two properties
that say when the keeper migrates and when it may stop allow for them and for nothing else: with
any one of its three reasons taken out, TLC finds `StopsForCause` violated. The history variable
`early` records an attempt that the block time did not call for; no action reads it. The keeper's
account is assumed to pay for its transactions. The window
between `inFlight = false` and `settled = true`, a few microtasks with no call in between, is
not modelled. `MIGRATION_TRANSPORT_ATTEMPTS` is 2 in the run (3 in the code) with `MaxFaults = 2`,
so that the attempts can be used up.

**`CreationFees`.** Pools and configurations are keys; an operator account is the permission mask
of the address it is derived from, 0 when it does not exist. Bytes of flags are sets of bits, xor
is symmetric difference. Callers pass any configuration and any operator account. History
variables, which no guard reads, record what each pool paid to whom, what strangers sent, what the
admin last granted, and who used which permission since. Pools of older versions start with their
fixed fee charged and perhaps claimed. That the receiver's account must end rent-exempt is not
modelled.

**State and actions of `TradingFee`.** The variables are the fee configuration, the clock, the
price, the pool's `volatility_tracker`, `has_swap`, and the transaction that is running: whether
the pool was created in it, and its instructions, each with the number of swaps it made. `Swap`
is the fee part of `process_swap`: the single-swap rule, `update_pre_swap`, the choice between
minimum and total fee, `update_post_swap`. A swap is a top-level instruction, or called by a router:
by a new one, again by the running one, or from deeper down. `NextTransaction` starts the next
transaction and may advance the clock. Two history variables, which no action reads, serve the
properties: how the last swap was charged, and the price at which all volatility was last
forgotten. The curve is left out: a swap moves the price to any price that is not lower, and
amount and price are independent, so the results hold for every curve. The clock is the timestamp,
for the activation point as well as for the periods of the dynamic fee. A partial fill that stops
is charged on the excluded side, as an exact-out swap is. An operator of `BaseFee` that can fail
returns `Failed`, and the swap is then refused. Constants are scaled: `BASIS_POINT_MAX` and
`FEE_DENOMINATOR` are 100 (the fee of the migrated pool is part of the fee configuration and is
checked in every state, `MigratedPoolFees`), `Scale` 2^14, `VARIABLE_FEE_SCALE` 10^6, and `U64_MAX` is 190, so that
the largest amount of a rate limiter can be met, and a payment can exceed `FEE_DENOMINATOR`, from
where on rounding a fee numerator up costs more than a unit. `ExactOutPaysSchedule` therefore
bounds the fee of an exact-out buy by the slices of its payment from below exactly, and from above
by two roundings of the numerator; the exact-in and the exact-out fee of one payment may differ by as
much, as a comment of `fee_rate_limiter.rs` (line 111) expects of the two modes.

## 3. Runs

Passing runs (`PROJECT.json` names the mutant that breaks each property):

| run | what varies | properties |
|---|---|---|
| `Sale` | four curves (two and three ranges, flat and tapered), three modes, real and virtual buys | `CurveBacked`, `SaleCanFinish`, `CompletedSaleMigratable` |
| `QuotePayouts` | every order of swaps, claims, withdrawals, locker, migration, deadline; a legacy configuration with all shares, and one with a cap | `QuoteSolvent`, `NoStrandedQuote`, `FinishTimestampSound`, `SaleFinal`, `PayoutsFinal` |
| `BasePayouts` | the same with fees on the base token, a fixed supply, and a transfer-hook pool with vesting | `TypeOK`, `BaseSolvent`, `FixedSupplyFloor`, `NoStrandedBase`, `ImplementsLaunch` (refinement) |
| `Keeper` | a keeper that collects and one that only migrates, a capped pool with a fixed supply and a pool with a vesting, completion and deadline, two faults with errors of every kind, a host clock behind or ahead, others acting in between; with fairness | `KeeperMigrates`, `KeeperSettles`, `ReportsHappened`, `StopsForCause`, `DoneMeansCollected` |
| `TradingFees` | schedules, rate limiters and dynamic fees, accepted and refused ones; amounts, prices, transactions and time | `LimiterChargesSlices`, `ExactOutPaysSchedule`, `FeesAlwaysDefined`, `LimitedExactOutDefined`, `BaseFeeNeverRises`, `MovementChargedOnce`, `OneLimitedSwap`, `MigratedFeesAccepted`, `MigratedDynamicFeeIsAFifth` |
| `LpDelivery` | six splits of the liquidity, four vestings per party, LP amounts that do not divide, three accounts, DAMM v1, concentrated and compounding v2 pools, threshold and deadline | `LiquidityTypeOK`, `LpBacked`, `NoStrandedShare`, `PositionsKeepShares`, `LockedForADay`, `PositionsAccepted`, `ImplementsLiquidity` (refinement) |
| `CreationFees` | two configurations of one partner or two, three accepted fees, an old or a new pool, two addresses that are operators, partners or both | `ChargedFeesPaidOnce`, `CreationFeesCovered`, `OperatorsActWithinGrants` |

**Bounds.** Amounts are small (thresholds about 100, `U64Max = 1000`), so one unit of rounding is
about one per cent and shows, and overflow can be met. Curves have one to three ranges with the
migration price inside the last one, so a buy can stay in a range, cross one, and stop at the
migration price. Two buy amounts and one or two output amounts, repeated until the curve
completes, give dozens of ways to cut a sale into swaps. `ClaimCaps` has a partial and a full
claim. The clock runs to just after the deadline; nothing depends on how long after. The fee
numerators are round but large, so that the fee of a small buy is not zero. `U64Max` is large
enough that in these runs no instruction fails by overflow only. `MaxDust = 1` is the case that
differs from 0 in the payout runs; `LpDelivery` computes the dust and shows that it stays within
its `MaxDust = 4`, the units that two deposits of two tokens can round away on its small prices. A
day is 3 ticks there, so that a vesting can end before or after it, and one of the vestings has
periods too small for the liquidity. In `TradingFees` the amounts lie in the first slice of a limiter, in later ones, and
beyond its maximum; the three prices are about one and several steps of the volatility apart; the
clock runs past the end of every schedule, of the limiter's window and of the decay period; and a
transaction has up to two instructions with up to two swaps each, the least that can break the
single-swap rule in both ways.

**Deadlock.** A pool always has an instruction that can be sent (a claim of nothing), so deadlock
is checked, except in `LpDelivery` and `Keeper`, where claims are switched off and a finished pool
rests, the keeper having ended.

**Fairness.** `KeeperSpec` (run `Keeper`): weak fairness of the keeper's steps, because its process
polls for ever and every call returns or times out; of `CreateLocker`, which is permissionless and
which the keeper waits for but never sends; and of the clock. No fairness is asked of any other
migration, so the pool is migrated by the keeper or by somebody who came first, unless the keeper
ended by mistake (`StoppedByMistake`); and the faults are bounded, which is to say that RPC works
again in the end. `FairSpec` (the runs of the findings)
has weak fairness of `CreateLocker`, of the migration and of the clock: an instruction that
anybody may send and that stays possible is sent in the end. Swaps and withdrawals have no
fairness: nobody has to buy or to collect.

**Findings.** The remaining runs show where the code does something else than a document, a
comment or a test of the repository says. Each quotes its line under `findings`.

| run | what TLC finds |
|---|---|
| `HookDeadline` | a transfer-hook pool whose sale the deadline ends keeps its hook, and never migrates |
| `FrontLoadedDeadline` | after an early deadline, at a low price, the quote raised asks for more base tokens than the vault holds: no migration, ever |
| `DustCompletion` | with a last range that costs about as much as the roundings of a few swaps, the threshold is reached below the migration price and the migration asks for too many base tokens |
| `CapSurplus` | the partner of a capped pool draws its surplus once, early; what later swaps add stays in the vault |
| `FixedSupplyDeadline` | after a deadline at a lower price the migration takes more base tokens than were set aside for it; too few are left to burn, and a fixed supply stays above the configured one |

Four divergences need no run. A curve that virtual swaps alone complete has no real quote, and the
migration requires some (`migrate_damm_v2_initialize_pool.rs:576`): it never migrates, while the repository's README says
that at the threshold "the token will graduate". The assertion of the local build in
`calculate_quote_to_base_from_amount_in` (`state/virtual_pool.rs:923`) reads the real reserve only,
so it does not hold of a pool that virtual swaps moved; a production build does not have it. `PARTNER_AND_CREATOR_SURPLUS_SHARE` is 100 per cent, so the
protocol's part of a surplus is always 0, while the repository's README says the surplus is
"shared between the partner and the protocol". And the flow of `MigrationProgress` in the comments
of `state/virtual_pool.rs` (line 66) does not have the steps that a deadline adds: a locker or a
migration that starts from the stage before the curve is complete.

`CompletedSaleMigratable` holds in `Sale`, and `KeeperMigrates` in `Keeper`, because there the last
range costs more than the roundings that a sale can collect (`DustCompletion` is the other case),
the liquidity of the curves is roughly even and the pools have no hook (`FrontLoadedDeadline`,
`HookDeadline`). `NoStrandedQuote` leaves out pools with a fixed cap (`CapSurplus`); the other pool
of `QuotePayouts` migrates to DAMM v1, which leaves no dust, so the part of the bound that allows
for it is shown by the theorem. `PayoutsFinal` says of the partner's surplus over a fixed cap only
that it does not shrink after it was paid, which is all that is true: what it grows by is the
finding of `CapSurplus`.

The keeper's list of retryable messages has "blockhash not found", and yet a preflight that fails
with it ends the keeper (above): a divergence within the code that needs no run of its own, since
`StopsForCause` without that allowance fails in `Keeper`.

## 4. Theorems

All are proved with TLAPS for every value of the constants that satisfies the named assumptions
of the modules. They need no bound on the length of a curve, on the amounts, on the number of
swaps or on time. What the assumptions say about the program:

- `PoolAssumption`: every configuration of `Configs` is well-typed, is accepted by `ValidConfig`
  and is what `process_create_config` stores, so that its migration price, thresholds and supplies
  are the derived ones. The liquidity of a range is a `u128`, below `Scale * Scale`, where `Scale`
  stands for 2^64.
- `TradingFeeAssumption`: the clock starts no earlier than any `decay_period`; it is a Unix time
  and a `decay_period` is a `u16` of seconds. The number of periods of a schedule is a `u16`
  (`first_factor`, `number_of_period`), an amount is a positive `u64`, and `variable_fee_control` is
  a `u32`.
- `BaseFeeAssumption`: one basis point is not below the precision of fees and prices: 10^4 is at
  most 2^64 and at most 10^9.
- `MigratedPoolFeesAssumption`: DAMM v2 allows fees from 10^5 to 5 * 10^8 (9.9 * 10^8 for the later
  version), the migrated pool's own bounds of 10 to 1000 basis points lie within them, and a fifth
  of the smallest fee is worth a control of at least 1: (2 * 10^4 - 1) * 10^11 is more than
  `SQUARE_VFA_BIN`, 2.1 * 10^14.
- `LiquidityAssumption`: percentages that add up to 100, as `create_config` requires.
- `PositionsAssumption`: a vesting has the fields of `LiquidityVestingInfo`; a day has seconds and
  the dead liquidity is positive (86400 and 100 * 2^64); the protocol's fee on the liquidity is not
  all of it (`PROTOCOL_LIQUIDITY_MIGRATION_FEE_BPS` is 0); and the largest liquidity, a `u128`, is
  large beside the `u16` fields of a vesting: one per cent of it has basis points, and the sum of
  the periods' parts of it shows whether they unlock more than all of it.
- `ScaleAssumption`, `FeeAssumption`, `ConfigAssumption`, `CreationFeesAssumption`: types and signs
  of the scaled constants.

**The pool** (`VirtualPoolProofs`).

- `TypeCorrect`: `TypeOK` is inductive as it stands, because the program checks its arithmetic.
- `PayoutsInOrder`: `PayoutsFollowSale` (a share of the surplus is drawn from a reserve that
  reached the cap, a migration fee and the migration follow the sale), inductive with `TypeOK`. It
  is the invariant behind the next two, the vaults and the keeper.
- `PayoutsAreFinal`: `PayoutsFinal`. A swap comes before the end of the sale, so before any
  migration fee, and without a fixed cap before any surplus, because a real reserve that reached the
  threshold has completed the curve; it only adds to the surplus over a fixed cap.
- `SaleFinality`: `SaleFinal`, from `PayoutsFollowSale` and `TypeOK`: a swap needs an incomplete sale, every other
  step leaves the reserves alone, and time only brings the deadline nearer.
- `FinishTimestampsAreSound`: `FinishTimestampSound`. It is inductive with `Staged` (which stages
  go with a complete curve, and that no migration fee is owed before the migration) and with a
  clock that has started.

**The vaults** (`SolvencyProofs`).

- `QuoteSolvency`, `NothingStranded`: `QuoteSolvent` and `NoStrandedQuote`, two sides of one
  invariant, `QuoteBalanced`. It is not inductive: a swap raises the reserve, and with it
  surplus and migration fee, of which a party might already have drawn its share. With
  `PayoutsFollowSale` that cannot be: before the sale is complete no migration fee was drawn, and
  a surplus only by the partner of a capped pool, who is owed nothing more. During a sale the
  obligations are therefore the fees plus the real reserve (or the cap), and a swap pays in
  what it adds. After the sale each withdrawal takes exactly its own term from the sum. The
  sum is written as a function `Owed` of the fields it depends on, so that a step of the proof
  compares two values of one function.
- `BaseSolvency`: `BaseSolvent`, inductive with `TypeOK` and `Staged`: before the migration no
  protocol fee of it is owed, so the partial claims, the locker and the two branches of a
  migration each move the vault and the fees by the same amount.
- `FixedSupplyNotUndercut`, `NoBaseStranded`: `FixedSupplyFloor` and `NoStrandedBase`, from
  `LeftoverInv`: what is left in a migrated pool is either nothing, or belongs to a fixed supply
  that is burnt down to its final size and whose leftover is still to be withdrawn. The attempt to
  prove that the supply is exactly the configured one failed for a reason: it is not so after a
  deadline (`FixedSupplyDeadline`).

**The curve** (`CurveProofs`).

- `CurveAlwaysBacked`: `CurveBacked`, for curves of any length and every sequence of the three
  kinds of swap. The inductive invariant `OnCurve` adds that the price stays between the start
  price and the migration price. Within a range the argument is about rounded quotients: two
  pieces of a range cost at least what the whole costs (`QuoteAdds`) and hold at most what the
  whole holds (`BaseAdds`), and the price a buy moves to is one it has paid for (`InputStep`,
  `OutputStep`). Along the ranges it is an induction with the invariants `InInv` and `OutInv` of
  the two walks.
- `SalesCanFinish`: `SaleCanFinish`. `RaiseInv`, the invariant of the walk of
  `get_migration_threshold_price`, shows that the curve costs at least the threshold up to the
  migration price; with `OnCurve` a partial fill that stops there completes the sale. The base
  tokens it leaves are enough because the initial supply was computed from ranges rounded up
  (`SupplyCovers`).
- The walks are recursive functions. `SetInduction` (`ArithmeticProofs`) is induction over a set of natural numbers,
  from the library's well-foundedness of `<`; a set, unlike an operator, is something the provers
  can instantiate. `RecursionExists` shows that the recursive functions are what their equations
  say.

**Refinement and composition.**

- `LaunchRefined` (`VirtualPoolProofs`): `VirtualPool` implements `TokenLaunch` (`ImplementsLaunch`). Initial states map
  to initial states; then one lemma per kind of instruction: a swap is a `Buy`, the clock an
  `Expire` or a stutter, a migration a `Graduate`, a withdrawal a `Pay`, the locker and the fee
  claims stutter. It uses `TypeOK`, and, for a burn that never raises the supply, nothing but the
  guard of the burn. `PayoutsFollowSale` supplies the rest: a migrated pool has a complete sale.
- `PoolUnchanged` (`LiquidityProofs`): `MigratedLiquidity` implements `VirtualPool`; its variables
  are the pool's and more, so the mapping is the identity, and the theorems above hold of the
  composition.
- `LpConserved`, `SharesDeliverable`: `LpBacked` and `NoStrandedShare`, from the invariant
  `LiquidityInv`: nothing is minted or flagged before the migration, the LP account holds the
  undelivered shares, and an account with both roles was served for both of them or has nothing
  outstanding. The last part is what the guard of `transfer_pool_creator` is needed for.
- `LiquidityTyped`: `LiquidityTypeOK`, a part of the same invariant.
- `SharesAreKept`, `LiquidityStaysLocked` (`LiquidityProofs`): `PositionsKeepShares` and
  `LockedForADay`, for every accepted split, vesting, price and reserve. The invariant
  `PositionsInv` is that of the pool with its curve, the checks that `create_config` made of split
  and vesting (`LiquidityChecked`), and both properties; it is inductive because nothing they read
  moves once the pool is migrated (`PromisesFixed`). The work is in the migration itself. The
  shares of the two parties add up to the liquidity (`Distribution`). The first position takes its
  tokens rounded up, so what is left of each token buys the rest of the liquidity except for what
  one unit of the token buys, and buys no more than the rest (`RangeDeposits` for a concentrated
  pool; `CompoundingDeposits`, where the excess is `PriceRounding`). `adjust_liquidity` then takes
  what is missing from the locked parts (`ItemsKeepShares`). What is locked after a day scales
  with the vested share up to the roundings of its periods, so the check with the largest
  liquidity carries over to the real one (`LockOfRole`, `LockOfBoth`).
- `PositionsAreAccepted`: `PositionsAccepted`. A vesting whose liquidity is too small for its
  periods is handed to DAMM v2 as one that unlocks at its cliff, so it is never refused
  (`VestingAccepted`). For a compounding pool the theorem has a hypothesis: the sale ended at the
  migration price, or the pool's dead liquidity is covered anyway (`Initial.ok`). At that price the
  amounts are the ones that `create_config` checked (`CompletedSaleCovers`). A sale that completes
  below it (`DustCompletion`) offers more base tokens, and the liquidity, a rounded root times the
  base, is not monotone in them: that case is left to the run.
- `PositionsImplementLiquidity`: `ImplementsLiquidity`. The two deposits never take more of a
  token than the migration offered, so no fee or surplus in the vaults is touched; that they leave
  at most `MaxDust`, a constant that stands for "little", is the hypothesis `DustWithinBound`,
  which the run's `ImplementsLiquidity` checks. `PositionsImplementLiquidityWithAnyDust` needs no
  such hypothesis, for a `MaxDust` that admits every amount. The theorems about the vaults hold for
  every `MaxDust`; only the allowance of `NoStrandedQuote` grows with it.
- `KeeperIsAUser` (`KeeperProofs`): a pool beside its keeper implements `VirtualPool`, so the
  keeper cannot bring a pool anywhere that its users cannot, whatever RPC loses or repeats.
- `ReportsAreTrue`, `NothingUnsaid`: `ReportsHappened` and `DoneMeansCollected`. Both rest on
  `Settled`, an action property of the pool: a migrated pool keeps its stage, its reserve and its
  one-time flags. So what the keeper concluded from an earlier read is still true after whatever
  others did, and `KeeperInv`, which ties each status the keeper records to the flag it read, is
  inductive.

**Fees.**

- `FeesPaidOnce`, `FeesCovered`, `OperatorsConfined` (`CreationFeeProofs`): the three properties of
  `CreationFees`, for
  any number of pools, configurations and addresses. The inductive invariant `CreationInv` adds to
  them that the lamports of a pool are its rent, its fee and its donations less what it paid, that
  a pool that does not exist has paid and received nothing, and that an operator's mask is exactly
  the mask of what was granted.
- `SingleSwap` (`TradingFeeProofs`): `OneLimitedSwap`. It is inductive with the type of the
  transaction (`TxInv`): a
  limited swap sees neither an earlier instruction nor an earlier swap of its router, and the
  clock, hence the window of the limiter, only moves between transactions. It holds for
  transactions of any length and for all fee parameters.
- `NoDoubleCharge`: `MovementChargedOnce`. It is not inductive: the accumulator is the reference
  volatility plus the movement since the reference price, so `TrackerInv` also bounds the
  reference volatility by the movement from the calm price to the reference price. The roundings
  enter in `BinsAddUp`: two movements in a row are never worth more bins than the whole of them.
- `BaseFeeFalls`: `BaseFeeNeverRises`. The hard case is the exponential schedule, whose powers are
  computed by squaring with a truncation after every product: a larger exponent takes other
  products, so that it gives no larger result is not evident. `Behind` relates the loops for
  exponents `e` and `e + 1` bit by bit: as long as the larger exponent has shown no bit its result
  is still 1 and the smaller one's is at least the current square; from its first bit on the two
  multiply by the same factors. A rate limiter ends with a fee of at least its first rate
  (`LimiterAboveCliff`).
- `FeesDefined`: `FeesAlwaysDefined`. A schedule that was validated at its two ends gives a fee
  between them in every period, because it falls (`BaseFeeDefined`, from the lemmas of
  `BaseFeeFalls`), the limiter's closed form is at least its first rate, and the dynamic fee is not
  negative (`VariableFeeDefined`).
- `SlicesCharged`: `LimiterChargesSlices`. The sum over the units of an amount is turned into full
  slices and a rest (`UnitsAddUp`), the slices into the closed form of the program, below and above
  `get_max_index` (`SliceSumAdds`, `LimiterNumerator`); then two divisions rounded up remain
  (`LimiterFee`). The invariant `ChargeInv` ties what was charged to the closed form.
- `MigratedFeesAlwaysAccepted`, `MigratedDynamicFeeBounded`: `MigratedFeesAccepted` and
  `MigratedDynamicFeeIsAFifth`. The configuration never changes, so both follow from what
  `create_config` accepted: the last fee of a schedule is its lowest (`LowestIsLast`, again by the
  truncated powers), and the control computed from it is positive and rounds to a fifth
  (`ControlOfFee`, `LargestIsAFifth`).

**Only model-checked.** Liveness (`KeeperMigrates`, `KeeperSettles`), which needs
fairness; and `StopsForCause`, whose step for a rejected transaction
is written with ENABLED. `CompletedSaleMigratable` is not true of every configuration
(`DustCompletion`): it depends on the ranges of the run. The inverse of the rate
limiter (`ExactOutPaysSchedule`, `LimitedExactOutDefined`), which solves a quadratic equation with
a rounded square root; that its discriminant is not negative, that it never pays less than the
slices of its payment and by how much it may pay more is shown by the run only. Of the DAMM v2 positions, how little dust the deposits leave,
and that a sale which completes below the migration price covers the dead liquidity of a
compounding pool.

## 5. Plan

Done: the pool with its arithmetic, its configuration and payouts, both migrations with the
liquidity they create, trading fees and the fees of the migrated pool, creation fees and
operators, the keeper, the abstract launch, and the theorems above. What is left is proof: the end of section 4.

**Not modelled.** Metadata accounts (write-once records that no instruction reads); events, error
codes and account loading; the token programs' calls that create a mint, its metadata and its
authorities; the bytes of the DAMM v2 fee parameters and the keys of its six fixed fee
configurations (`validate_config_key`), which compare constants of another program; the checks of
a signer against a fixed key; the command-line tools, which send single transactions; and the SDK,
which calls the program's own functions and keeps no state.

## 6. Running

    tlc -config Sale.cfg MCVirtualPool
    tlc -config LpDelivery.cfg MCMigratedLiquidity
    tlc -config TradingFees.cfg MCTradingFee
    tlc -config Keeper.cfg MCMigrationKeeper
    tlc -config CreationFees.cfg MCCreationFees
    tlapm SolvencyProofs.tla
    tlapm CurveProofs.tla
    tlapm LiquidityProofs.tla

Every other `.cfg` belongs to `MCVirtualPool`. The passing runs take seconds, except
`QuotePayouts`, `BasePayouts`, `TradingFees`, `LpDelivery` and `Keeper`, which take one to three
minutes. The proofs of a module take less than a minute, those of `CurveProofs`,
`LiquidityProofs` and `TradingFeeProofs` two to four.
