------------------------- MODULE VirtualPoolProofs -------------------------
(***************************************************************************)
(* Proofs about VirtualPool, for every set of configurations, deadlines,   *)
(* amounts and fee numerators.                                             *)
(*                                                                         *)
(*   TypeCorrect                Spec => []TypeOK                           *)
(*   PayoutsInOrder             Spec => []PayoutsFollowSale                *)
(*   SaleFinality               Spec => SaleFinal                          *)
(*   PayoutsAreFinal            Spec => PayoutsFinal                       *)
(*   FinishTimestampsAreSound   Spec => []FinishTimestampSound             *)
(*   LaunchRefined              Spec => ImplementsLaunch                   *)
(*                                                                         *)
(* FinishTimestampsAreSound needs Staged: which stages go with a complete  *)
(* sale, and that nothing is owed of a migration that has not happened.    *)
(* What the curve computes is not opened here: it enters only through the  *)
(* program's checked arithmetic (CurveProofs opens it).                    *)
(***************************************************************************)
EXTENDS PoolLaunch, ArithmeticProofs

-----------------------------------------------------------------------------
(***************************************************************************)
(* Arithmetic.                                                             *)
(***************************************************************************)

\* A share of an amount is an integer.
LEMMA CreatorShareInt == \A x, y \in Int : creator_share(x, y) \in Int
  BY MulDivInt DEF creator_share

\* U64 is an interval of natural numbers.
LEMMA U64Props ==
    ASSUME NEW a \in U64
    PROVE  a \in Int /\ 0 <= a /\ a <= U64Max
  BY ConfigAssumption DEF U64, ConfigAssumption

\* What a configuration's fields are.
LEMMA ConfigFields ==
    ASSUME NEW c \in Configs
    PROVE  /\ c.migration_quote_threshold \in U64
           /\ c.migration_quote_amount_cap \in U64
           /\ c.vesting_amount \in U64
           /\ c.fixed_token_supply \in BOOLEAN
           /\ c.is_transfer_hook \in BOOLEAN
           /\ c.sqrt_start_price \in Nat
           /\ c.creator_trading_fee_percentage \in 0..100
           /\ c.migration_fee_percentage \in 0..100
           /\ c.creator_migration_fee_percentage \in 0..100
           /\ c.migration_quote_amount_cap <= c.migration_quote_threshold
           /\ get_initial_base_supply(c) \in U64
  <1>1. c \in ConfigType /\ ValidConfig(c) /\ get_initial_base_supply(c) \in U64
    BY PoolAssumption DEF PoolAssumption
  <1>2. c.migration_quote_amount_cap <= c.migration_quote_threshold
    BY <1>1 DEF ValidConfig
  <1> QED
    BY <1>1, <1>2 DEF ConfigType

\* The cap is a u64 and at most the threshold.
LEMMA CapProps ==
    ASSUME NEW c \in Configs
    PROVE  /\ get_migration_quote_amount_cap(c) \in U64
           /\ get_migration_quote_amount_cap(c) <= c.migration_quote_threshold
           /\ ~is_fixed_migration_quote_amount_enabled(c) =>
                  get_migration_quote_amount_cap(c) = c.migration_quote_threshold
  <1>1. c.migration_quote_threshold \in U64 /\ c.migration_quote_amount_cap \in U64
        /\ c.migration_quote_amount_cap <= c.migration_quote_threshold
    BY ConfigFields
  <1>2. c.migration_quote_threshold \in Int
    BY <1>1, U64Props
  <1> QED
    BY <1>1, <1>2 DEF get_migration_quote_amount_cap, is_fixed_migration_quote_amount_enabled

-----------------------------------------------------------------------------
(***************************************************************************)
(* Type correctness.                                                       *)
(***************************************************************************)

\* A pool is initialized with well-typed fields.
LEMMA TypeInit == Init => TypeOK
  <1> SUFFICES ASSUME Init PROVE TypeOK
    OBVIOUS
  <1>1. config \in Configs /\ base_reserve \in U64 /\ sqrt_price \in Nat
        /\ config.is_transfer_hook \in BOOLEAN
    BY ConfigFields DEF Init
  <1>2. 0 \in U64
    BY ConfigAssumption DEF ConfigAssumption, U64
  <1>3. base_reserve \in Int
    BY <1>1, U64Props
  <1> QED
    BY <1>1, <1>2, <1>3 DEF Init, TypeOK, MigrationProgress

\* The swap's own checks keep every field it writes in its range.
LEMMA TypeSwap ==
    ASSUME TypeOK, NEW r, NEW is_virtual \in BOOLEAN, process_swap(r, is_virtual)
    PROVE  TypeOK'
  <1>1. /\ UNCHANGED <<configVars, migFeeVars, withdrawVars, base_mint_supply, clock>>
        /\ sqrt_price' \in Nat
        /\ {base_reserve', quote_reserve', virtual_quote_reserve'} \subseteq U64
        /\ base_fee' \in [Party -> U64] /\ quote_fee' \in [Party -> U64]
        /\ {base_vault', quote_vault'} \subseteq U64
    BY DEF process_swap
  <1>2. /\ finish_curve_timestamp' \in Nat
        /\ migration_progress' \in MigrationProgress
        /\ hook_active' \in BOOLEAN
    <2>1. CompleteCurve /\ finish_curve_timestamp \in Nat /\ clock \in Nat
          /\ migration_progress \in MigrationProgress /\ hook_active \in BOOLEAN
      BY DEF process_swap, TypeOK
    <2> QED
      BY <2>1 DEF CompleteCurve, statusVars, MigrationProgress
  <1> QED
    BY <1>1, <1>2 DEF TypeOK, configVars, migFeeVars, withdrawVars

\* What the protocol takes of a fee never exceeds it, nor the caller's cap.
LEMMA ClaimParts ==
    ASSUME NEW fee \in [Party -> U64], NEW migration_fee \in U64, NEW max_amount \in U64
    PROVE  /\ TradingPart(fee, max_amount) \in Int
           /\ fee["protocol"] - TradingPart(fee, max_amount) \in U64
           /\ MigrationPart(fee, migration_fee, max_amount) \in Int
           /\ migration_fee - MigrationPart(fee, migration_fee, max_amount) \in U64
  <1> DEFINE f == fee["protocol"]
  <1>1. f \in U64
    BY DEF Party
  <1>2. /\ f \in Int /\ 0 <= f /\ f <= U64Max
        /\ migration_fee \in Int /\ 0 <= migration_fee /\ migration_fee <= U64Max
        /\ max_amount \in Int /\ 0 <= max_amount
    BY <1>1, U64Props
  <1>3. TradingPart(fee, max_amount) = MinOf(f, max_amount)
    BY DEF TradingPart
  <1>4. /\ TradingPart(fee, max_amount) \in Int
        /\ TradingPart(fee, max_amount) <= f
        /\ TradingPart(fee, max_amount) <= max_amount
        /\ 0 <= TradingPart(fee, max_amount)
    BY <1>2, <1>3 DEF MinOf
  <1>5. /\ MigrationPart(fee, migration_fee, max_amount) \in Int
        /\ MigrationPart(fee, migration_fee, max_amount) <= migration_fee
        /\ 0 <= MigrationPart(fee, migration_fee, max_amount)
    BY <1>2, <1>4 DEF MigrationPart, MinOf
  <1> QED
    BY <1>2, <1>4, <1>5, ConfigAssumption DEF U64, ConfigAssumption

\* The two halves of the protocol's claims keep the fields they write typed.
LEMMA TypeClaimProtocolBase ==
    ASSUME TypeOK, NEW max_amount \in U64, claim_protocol_base_fee(max_amount)
    PROVE  /\ base_fee' \in [Party -> U64]
           /\ protocol_migration_base_fee_amount' \in U64
           /\ base_vault' \in U64
  <1>1. base_fee \in [Party -> U64] /\ protocol_migration_base_fee_amount \in U64
    BY DEF TypeOK
  <1> QED
    BY <1>1, ClaimParts DEF claim_protocol_base_fee

\* The same for the quote token and the protocol's share of the surplus.
LEMMA TypeClaimProtocolQuote ==
    ASSUME TypeOK, NEW max_amount \in U64, claim_protocol_quote_fee_and_surplus(max_amount)
    PROVE  /\ quote_fee' \in [Party -> U64]
           /\ protocol_migration_quote_fee_amount' \in U64
           /\ surplus_withdrawn' \subseteq Party
           /\ quote_vault' \in U64
  <1>1. quote_fee \in [Party -> U64] /\ protocol_migration_quote_fee_amount \in U64
        /\ surplus_withdrawn \subseteq Party
    BY DEF TypeOK
  <1> QED
    BY <1>1, ClaimParts DEF claim_protocol_quote_fee_and_surplus, Party

\* A party's claim of its trading fees takes at most what it has.
LEMMA TypeClaimTradingFee ==
    ASSUME TypeOK, NEW party \in {"partner", "creator"}, NEW a \in U64, NEW b \in U64,
           ClaimTradingFee(party, a, b)
    PROVE  TypeOK'
  <1>1. base_fee \in [Party -> U64] /\ quote_fee \in [Party -> U64] /\ party \in Party
    BY DEF TypeOK, Party
  <1>2. base_fee[party] \in U64 /\ quote_fee[party] \in U64
    BY <1>1
  <1>3. base_fee[party] - MinOf(base_fee[party], a) \in U64
        /\ quote_fee[party] - MinOf(quote_fee[party], b) \in U64
    BY <1>2, ConfigAssumption DEF U64, ConfigAssumption, MinOf
  <1>4. base_fee' \in [Party -> U64] /\ quote_fee' \in [Party -> U64]
    BY <1>1, <1>3 DEF ClaimTradingFee
  <1> QED
    BY <1>4 DEF ClaimTradingFee, TypeOK, configVars, saleVars, migFeeVars, withdrawVars,
                statusVars, mintVars

\* A migration stores two fees and burns an amount that are u64.
LEMMA TypeMigrate ==
    ASSUME TypeOK, NEW bd, NEW qd, Migrate(bd, qd)
    PROVE  TypeOK'
  <1>1. deadline_timestamp \in Nat
    BY PoolAssumption DEF TypeOK, PoolAssumption
  <1>2. finish_curve_timestamp' \in Nat
    BY <1>1 DEF TypeOK, Migrate
  <1>3. base_mint_supply' \in Int
    <2>1. PICK b \in U64 : base_mint_supply' = base_mint_supply - b
      BY DEF Migrate
    <2>2. b \in Int
      BY <2>1, U64Props
    <2> QED
      BY <2>1, <2>2 DEF TypeOK
  <1>4. /\ protocol_migration_base_fee_amount' \in U64
        /\ protocol_migration_quote_fee_amount' \in U64
    BY DEF Migrate
  <1>5. /\ UNCHANGED <<configVars, saleVars, base_fee, quote_fee, withdrawVars,
                       hook_active, clock>>
        /\ migration_progress' = "CreatedPool"
        /\ {base_vault', quote_vault'} \subseteq U64
    BY DEF Migrate
  <1> QED
    BY <1>2, <1>3, <1>4, <1>5 DEF TypeOK, configVars, saleVars, withdrawVars,
        MigrationProgress

\* Every step keeps every field typed.
LEMMA TypeStep == TypeOK /\ [Next]_vars => TypeOK'
  <1> SUFFICES ASSUME TypeOK, [Next]_vars PROVE TypeOK'
    OBVIOUS
  <1> USE DEF configVars, saleVars, migFeeVars, withdrawVars, statusVars, mintVars
  <1>caps. ClaimCaps \subseteq U64
    BY PoolAssumption DEF PoolAssumption
  <1>1. CASE Trade
    BY <1>1, TypeSwap DEF Trade, Swap, VirtualSwap
  <1>2. ASSUME NEW a \in ClaimCaps, NEW b \in ClaimCaps, ClaimProtocolFee(a, b)
        PROVE  TypeOK'
    BY <1>2, <1>caps, TypeClaimProtocolBase, TypeClaimProtocolQuote
    DEF ClaimProtocolFee, TypeOK
  <1>3. ASSUME NEW is_base \in BOOLEAN, NEW a \in ClaimCaps,
               ClaimProtocolFee2(is_base, a) \/ ZapProtocolFee(is_base, a)
        PROVE  TypeOK'
    <2>1. CASE is_base
      <3>1. claim_protocol_base_fee(a)
        BY <1>3, <2>1 DEF ClaimProtocolFee2, ZapProtocolFee
      <3> QED
        BY <1>3, <2>1, <3>1, <1>caps, TypeClaimProtocolBase
        DEF ClaimProtocolFee2, ZapProtocolFee, TypeOK
    <2>2. CASE ~is_base
      <3>1. claim_protocol_quote_fee_and_surplus(a)
        BY <1>3, <2>2 DEF ClaimProtocolFee2, ZapProtocolFee
      <3> QED
        BY <1>3, <2>2, <3>1, <1>caps, TypeClaimProtocolQuote
        DEF ClaimProtocolFee2, ZapProtocolFee, TypeOK
    <2> QED
      BY <2>1, <2>2
  <1>4. ASSUME NEW party \in {"partner", "creator"}, NEW a \in ClaimCaps,
               NEW b \in ClaimCaps, ClaimTradingFee(party, a, b)
        PROVE  TypeOK'
    BY <1>4, <1>caps, TypeClaimTradingFee
  <1>5. CASE PartnerWithdrawSurplus \/ CreatorWithdrawSurplus
    BY <1>5 DEF PartnerWithdrawSurplus, CreatorWithdrawSurplus, WithdrawSurplus, TypeOK, Party
  <1>6. ASSUME NEW party \in {"partner", "creator"}, WithdrawMigrationFee(party)
        PROVE  TypeOK'
    BY <1>6 DEF WithdrawMigrationFee, TypeOK
  <1>7. CASE WithdrawLeftover
    <2>1. LeftoverAmount \in U64 /\ base_vault' = base_vault - LeftoverAmount
          /\ base_vault \in U64
      BY <1>7 DEF WithdrawLeftover, TypeOK
    <2>2. base_vault' = get_protocol_and_trading_base_fee + protocol_migration_base_fee_amount
      <3>1. \A p \in Party : base_fee[p] \in Int
        BY U64Props DEF TypeOK
      <3>2. get_protocol_and_trading_base_fee \in Int
        BY <3>1 DEF get_protocol_and_trading_base_fee, TotalFee, Party
      <3>3. protocol_migration_base_fee_amount \in Int /\ base_vault \in Int
        BY U64Props DEF TypeOK
      <3> QED
        BY <2>1, <3>2, <3>3 DEF LeftoverAmount
    <2>3. \A p \in Party : base_fee[p] \in Int /\ 0 <= base_fee[p]
      BY U64Props DEF TypeOK
    <2>4. base_vault' \in U64
      <3>1. LeftoverAmount \in Int /\ 0 <= LeftoverAmount /\ base_vault \in Int
            /\ base_vault <= U64Max
        BY <2>1, U64Props
      <3>2. get_protocol_and_trading_base_fee \in Int /\ 0 <= get_protocol_and_trading_base_fee
        BY <2>3 DEF get_protocol_and_trading_base_fee, TotalFee, Party
      <3>3. protocol_migration_base_fee_amount \in Int /\ 0 <= protocol_migration_base_fee_amount
        BY U64Props DEF TypeOK
      <3> QED
        BY <2>1, <2>2, <3>1, <3>2, <3>3, ConfigAssumption DEF U64, ConfigAssumption
    <2> QED
      BY <1>7, <2>4 DEF WithdrawLeftover, TypeOK
  <1>8. CASE CreateLocker
    <2>1. deadline_timestamp \in Nat
      BY PoolAssumption DEF TypeOK, PoolAssumption
    <2> QED
      BY <1>8, <2>1 DEF CreateLocker, TypeOK, MigrationProgress
  <1>9. CASE CreatePool
    <2>1. PICK bd \in 0..MaxDust, qd \in 0..MaxDust : Migrate(bd, qd)
      <3>1. 0 \in 0..MaxDust
        BY PoolAssumption DEF PoolAssumption
      <3> QED
        BY <1>9, <3>1 DEF CreatePool, MigrateMeteoraDamm, MigrateDammV2
    <2> QED
      BY <2>1, TypeMigrate
  <1>10. CASE Tick
    BY <1>10 DEF Tick, TypeOK
  <1>11. CASE UNCHANGED vars
    BY <1>11 DEF vars, TypeOK
  <1> QED
    BY <1>1, <1>2, <1>3, <1>4, <1>5, <1>6, <1>7, <1>8, <1>9, <1>10, <1>11 DEF Next, Claim

\* Type correctness: no instruction, in whatever order they come, leaves a
\* field of the pool outside the range of its type.
THEOREM TypeCorrect == Spec => []TypeOK
  BY TypeInit, TypeStep, PTL DEF Spec

-----------------------------------------------------------------------------
(***************************************************************************)
(* The order of sale and payouts.                                          *)
(***************************************************************************)

\* A share of the surplus is drawn from a reserve that has reached the cap; a
\* share of the migration fee, like the migration itself, follows the sale.
PayoutsFollowSale ==
    /\ surplus_withdrawn # {} => has_real_quote_surplus
    /\ migration_fee_withdrawn # {} \/ migration_progress = "CreatedPool" => is_sale_complete

\* A swap happens before the sale is complete and only adds to the reserves.
LEMMA SwapBeforeCompletion ==
    ASSUME TypeOK, PayoutsFollowSale, NEW r, NEW is_virtual \in BOOLEAN,
           process_swap(r, is_virtual)
    PROVE  /\ ~is_sale_complete
           /\ migration_fee_withdrawn = {} /\ migration_progress # "CreatedPool"
           /\ migration_progress' # "CreatedPool"
           /\ UNCHANGED <<config, surplus_withdrawn, migration_fee_withdrawn>>
           /\ quote_reserve \in Int /\ quote_reserve' \in Int
           /\ quote_reserve <= quote_reserve'
  <1>1. ~is_sale_complete /\ CompleteCurve /\ apply_swap_result(r, is_virtual)
        /\ r.excluded_input \in U64 /\ quote_reserve' \in U64
        /\ UNCHANGED <<config, surplus_withdrawn, migration_fee_withdrawn>>
    BY DEF process_swap, configVars, withdrawVars
  <1>2. migration_fee_withdrawn = {} /\ migration_progress # "CreatedPool"
    BY <1>1 DEF PayoutsFollowSale
  <1>3. migration_progress' # "CreatedPool"
    BY <1>1, <1>2 DEF CompleteCurve, statusVars
  <1>4. r.excluded_input \in Int /\ 0 <= r.excluded_input
        /\ quote_reserve \in Int /\ quote_reserve' \in Int
    BY <1>1, U64Props DEF TypeOK
  <1>5. quote_reserve <= quote_reserve'
    BY <1>1, <1>4 DEF apply_swap_result
  <1> QED
    BY <1>1, <1>2, <1>3, <1>4, <1>5

\* Every step but a swap leaves the sale alone and lets time pass.
LEMMA OtherSteps ==
    ASSUME TypeOK, [Next]_vars, ~Trade
    PROVE  /\ UNCHANGED <<configVars, saleVars>>
           /\ clock \in Int /\ clock' \in Int /\ clock <= clock'
  <1> USE DEF configVars, saleVars
  <1>1. clock \in Int
    BY DEF TypeOK
  <1>2. CASE Claim
    BY <1>1, <1>2 DEF Claim, ClaimProtocolFee, ClaimProtocolFee2, ZapProtocolFee,
        ClaimTradingFee, PartnerWithdrawSurplus, CreatorWithdrawSurplus, WithdrawSurplus,
        WithdrawMigrationFee, WithdrawLeftover
  <1>3. CASE CreateLocker
    BY <1>1, <1>3 DEF CreateLocker
  <1>4. CASE CreatePool
    BY <1>1, <1>4 DEF CreatePool, MigrateMeteoraDamm, MigrateDammV2, Migrate
  <1>5. CASE Tick
    BY <1>1, <1>5 DEF Tick
  <1>6. CASE UNCHANGED vars
    BY <1>1, <1>6 DEF vars
  <1> QED
    BY <1>2, <1>3, <1>4, <1>5, <1>6 DEF Next

\* Such a step cannot reopen a sale.
LEMMA CompletionStays ==
    ASSUME TypeOK, [Next]_vars, ~Trade, is_sale_complete
    PROVE  is_sale_complete'
  <1>1. UNCHANGED <<configVars, saleVars>> /\ clock \in Int /\ clock' \in Int /\ clock <= clock'
    BY OtherSteps
  <1>2. CASE is_curve_complete
    BY <1>1, <1>2 DEF is_sale_complete, is_curve_complete, total_quote_reserve,
        configVars, saleVars
  <1>3. CASE is_deadline_reached
    <2>1. deadline_timestamp \in Int
      BY PoolAssumption DEF TypeOK, PoolAssumption
    <2> QED
      BY <1>1, <1>3, <2>1 DEF is_sale_complete, is_deadline_reached, configVars
  <1> QED
    BY <1>2, <1>3 DEF is_sale_complete

\* No step pays out too early.
LEMMA PayoutsStep == TypeOK /\ PayoutsFollowSale /\ [Next]_vars => PayoutsFollowSale'
  <1> SUFFICES ASSUME TypeOK, PayoutsFollowSale, [Next]_vars PROVE PayoutsFollowSale'
    OBVIOUS
  <1>1. CASE Trade
    <2>0. PICK r : \E v \in BOOLEAN : process_swap(r, v)
      BY <1>1 DEF Trade, Swap, VirtualSwap
    <2>1. PICK v \in BOOLEAN : process_swap(r, v)
      BY <2>0
    <2>2. /\ migration_fee_withdrawn' = {} /\ migration_progress' # "CreatedPool"
          /\ config' = config /\ surplus_withdrawn' = surplus_withdrawn
          /\ quote_reserve \in Int /\ quote_reserve' \in Int
          /\ quote_reserve <= quote_reserve'
      BY <2>1, SwapBeforeCompletion
    <2>3. get_migration_quote_amount_cap(config) \in Int
      BY CapProps, U64Props DEF TypeOK
    <2> QED
      BY <2>2, <2>3 DEF PayoutsFollowSale, has_real_quote_surplus
  <1>2. CASE ~Trade
    <2>1. UNCHANGED <<configVars, saleVars>> /\ (is_sale_complete => is_sale_complete')
      BY <1>2, OtherSteps, CompletionStays
    <2>2. surplus_withdrawn' # {} => has_real_quote_surplus
      <3>1. CASE Claim
        BY <3>1 DEF Claim, ClaimProtocolFee, ClaimProtocolFee2, ZapProtocolFee,
            claim_protocol_quote_fee_and_surplus, ClaimTradingFee, PartnerWithdrawSurplus,
            CreatorWithdrawSurplus, WithdrawSurplus, SurplusEligible, WithdrawMigrationFee,
            WithdrawLeftover, PayoutsFollowSale, withdrawVars
      <3>2. CASE ~Claim
        BY <1>2, <3>2 DEF Next, CreateLocker, CreatePool, MigrateMeteoraDamm, MigrateDammV2,
            Migrate, Tick, vars, withdrawVars, PayoutsFollowSale
      <3> QED
        BY <3>1, <3>2
    <2>3. migration_fee_withdrawn' # {} \/ migration_progress' = "CreatedPool"
              => is_sale_complete
      <3>1. CASE Claim
        BY <3>1 DEF Claim, ClaimProtocolFee, ClaimProtocolFee2, ZapProtocolFee,
            ClaimTradingFee, PartnerWithdrawSurplus, CreatorWithdrawSurplus, WithdrawSurplus,
            WithdrawMigrationFee, WithdrawLeftover, PayoutsFollowSale, withdrawVars,
            statusVars, is_sale_complete
      <3>2. CASE ~Claim
        BY <1>2, <3>2 DEF Next, CreateLocker, CreatePool, MigrateMeteoraDamm, MigrateDammV2,
            Migrate, Tick, vars, withdrawVars, statusVars, PayoutsFollowSale
      <3> QED
        BY <3>1, <3>2
    <2>4. has_real_quote_surplus => has_real_quote_surplus'
      BY <2>1 DEF has_real_quote_surplus, configVars, saleVars
    <2> QED
      BY <2>1, <2>2, <2>3, <2>4 DEF PayoutsFollowSale
  <1> QED
    BY <1>1, <1>2

\* The order of sale and payouts: a surplus share is drawn only from a reserve
\* that has reached the cap, and a migration fee or a migration only follows a
\* complete sale.
THEOREM PayoutsInOrder == Spec => []PayoutsFollowSale
  <1>1. Init => PayoutsFollowSale
    BY DEF Init, PayoutsFollowSale
  <1> QED
    BY <1>1, TypeInit, TypeStep, PayoutsStep, PTL DEF Spec

\* A complete sale is final: no instruction moves its reserves or its price
\* again or reopens it, and a migrated pool never changes its stage.
THEOREM SaleFinality == Spec => SaleFinal
  <1> DEFINE Final == /\ is_sale_complete => UNCHANGED saleVars
                      /\ is_sale_complete => is_sale_complete'
                      /\ migration_progress = "CreatedPool" => UNCHANGED statusVars
  <1>1. TypeOK /\ PayoutsFollowSale /\ [Next]_vars => [Final]_vars
    <2> SUFFICES ASSUME TypeOK, PayoutsFollowSale, [Next]_vars PROVE Final
      OBVIOUS
    <2>1. CASE Trade
      <3>0. PICK r : \E v \in BOOLEAN : process_swap(r, v)
        BY <2>1 DEF Trade, Swap, VirtualSwap
      <3>1. PICK v \in BOOLEAN : process_swap(r, v)
        BY <3>0
      <3> QED
        BY <3>1, SwapBeforeCompletion
    <2>2. CASE ~Trade
      <3>1. UNCHANGED saleVars /\ (is_sale_complete => is_sale_complete')
        BY <2>2, OtherSteps, CompletionStays
      <3>2. ASSUME migration_progress = "CreatedPool" PROVE UNCHANGED statusVars
        <4>1. CASE Claim
          BY <4>1 DEF Claim, ClaimProtocolFee, ClaimProtocolFee2, ZapProtocolFee,
              ClaimTradingFee, PartnerWithdrawSurplus, CreatorWithdrawSurplus,
              WithdrawSurplus, WithdrawMigrationFee, WithdrawLeftover
        <4>2. CASE ~Claim
          BY <2>2, <3>2, <4>2 DEF Next, CreateLocker, CreateLockerAfterDeadline, CreatePool,
              MigrateMeteoraDamm, MigrateDammV2, Migrate, MigrateAfterDeadline, Tick, vars
        <4> QED
          BY <4>1, <4>2
      <3> QED
        BY <3>1, <3>2
    <2> QED
      BY <2>1, <2>2
  <1> QED
    BY <1>1, TypeCorrect, PayoutsInOrder, PTL DEF Spec, SaleFinal

\* A payment made once is computed from an amount that stays: the quote that
\* migrates and the surplus are fixed from the first payment on, but for the
\* surplus over a fixed cap, which can only grow.  A swap comes before any
\* migration fee, and if no cap is fixed before any surplus, since a reserve
\* that reached the threshold has completed its curve.
THEOREM PayoutsAreFinal == Spec => PayoutsFinal
  <1> DEFINE Final ==
        /\ migration_fee_withdrawn # {} \/ migration_progress = "CreatedPool" =>
               UNCHANGED effective_migration_quote_threshold
        /\ surplus_withdrawn # {} =>
               IF is_fixed_migration_quote_amount_enabled(config)
               THEN get_total_surplus' >= get_total_surplus
               ELSE UNCHANGED get_total_surplus
  <1>1. TypeOK /\ PayoutsFollowSale /\ [Next]_vars => [Final]_vars
    <2> SUFFICES ASSUME TypeOK, PayoutsFollowSale, [Next]_vars PROVE Final
      OBVIOUS
    <2>0. /\ quote_reserve \in Int /\ 0 <= virtual_quote_reserve
          /\ virtual_quote_reserve \in Int
          /\ get_migration_quote_amount_cap(config) \in Int
      BY U64Props, CapProps DEF TypeOK
    <2>1. CASE Trade
      <3>0. PICK r : \E v \in BOOLEAN : process_swap(r, v)
        BY <2>1 DEF Trade, Swap, VirtualSwap
      <3>1. PICK v \in BOOLEAN : process_swap(r, v)
        BY <3>0
      <3>2. /\ ~is_sale_complete /\ config' = config
            /\ migration_fee_withdrawn = {} /\ migration_progress # "CreatedPool"
            /\ quote_reserve' \in Int /\ quote_reserve <= quote_reserve'
        BY <3>1, SwapBeforeCompletion
      <3>3. get_total_surplus' >= get_total_surplus
        BY <2>0, <3>2 DEF get_total_surplus
      <3>4. ASSUME surplus_withdrawn # {},
                   ~is_fixed_migration_quote_amount_enabled(config)
            PROVE  FALSE
        <4>1. get_migration_quote_amount_cap(config) = config.migration_quote_threshold
          BY <3>4 DEF get_migration_quote_amount_cap, is_fixed_migration_quote_amount_enabled
        <4>2. quote_reserve >= config.migration_quote_threshold
          BY <3>4, <4>1 DEF PayoutsFollowSale, has_real_quote_surplus
        <4>3. is_curve_complete
          BY <2>0, <4>1, <4>2 DEF is_curve_complete, total_quote_reserve
        <4> QED
          BY <3>2, <4>3 DEF is_sale_complete
      <3> QED
        BY <3>2, <3>3, <3>4
    <2>2. CASE ~Trade
      <3>1. config' = config /\ quote_reserve' = quote_reserve
        BY <2>2, OtherSteps DEF configVars, saleVars
      <3>2. /\ effective_migration_quote_threshold' = effective_migration_quote_threshold
            /\ get_total_surplus' = get_total_surplus
        BY <3>1 DEF effective_migration_quote_threshold, get_total_surplus
      <3>3. get_total_surplus \in Int
        BY <2>0 DEF get_total_surplus
      <3> QED
        BY <3>2, <3>3
    <2> QED
      BY <2>1, <2>2
  <1> QED
    BY <1>1, TypeCorrect, PayoutsInOrder, PTL DEF Spec, PayoutsFinal

-----------------------------------------------------------------------------
(***************************************************************************)
(* The stages of a pool.                                                   *)
(***************************************************************************)

\* A pool leaves PreBondingCurve only when its sale is complete, and owes the
\* protocol no migration fee before it is migrated.
Staged ==
    /\ migration_progress # "PreBondingCurve" => is_sale_complete
    /\ migration_progress # "CreatedPool" =>
           protocol_migration_base_fee_amount = 0 /\ protocol_migration_quote_fee_amount = 0

\* Nothing is claimed of a migration fee of zero.
LEMMA NoMigrationPart ==
    ASSUME NEW fee \in [Party -> U64], NEW max_amount \in U64
    PROVE  0 - MigrationPart(fee, 0, max_amount) = 0
  <1>1. fee["protocol"] \in Int /\ 0 <= fee["protocol"] /\ max_amount \in Int /\ 0 <= max_amount
    BY U64Props DEF Party
  <1>2. TradingPart(fee, max_amount) \in Int /\ TradingPart(fee, max_amount) <= max_amount
    BY <1>1, MinOfProps DEF TradingPart
  <1> QED
    BY <1>1, <1>2 DEF MigrationPart, MinOf

\* No claim changes the stage, and before the migration none finds a fee of it.
LEMMA ClaimsKeepStage ==
    ASSUME TypeOK, Claim
    PROVE  /\ UNCHANGED statusVars
           /\ UNCHANGED clock
           /\ protocol_migration_base_fee_amount = 0 => protocol_migration_base_fee_amount' = 0
           /\ protocol_migration_quote_fee_amount = 0 => protocol_migration_quote_fee_amount' = 0
  <1> USE DEF migFeeVars
  <1>1. UNCHANGED statusVars /\ UNCHANGED clock
    BY DEF Claim, ClaimProtocolFee, ClaimProtocolFee2, ZapProtocolFee, ClaimTradingFee,
        PartnerWithdrawSurplus, CreatorWithdrawSurplus, WithdrawSurplus,
        WithdrawMigrationFee, WithdrawLeftover
  <1>2. base_fee \in [Party -> U64] /\ quote_fee \in [Party -> U64] /\ ClaimCaps \subseteq U64
    BY PoolAssumption DEF TypeOK, PoolAssumption
  <1>3. ASSUME NEW a \in ClaimCaps, claim_protocol_base_fee(a),
               protocol_migration_base_fee_amount = 0
        PROVE  protocol_migration_base_fee_amount' = 0
    BY <1>2, <1>3, NoMigrationPart DEF claim_protocol_base_fee
  <1>4. ASSUME NEW a \in ClaimCaps, claim_protocol_quote_fee_and_surplus(a),
               protocol_migration_quote_fee_amount = 0
        PROVE  protocol_migration_quote_fee_amount' = 0
    BY <1>2, <1>4, NoMigrationPart DEF claim_protocol_quote_fee_and_surplus
  <1>5. CASE \E a, b \in ClaimCaps : ClaimProtocolFee(a, b)
    BY <1>1, <1>3, <1>4, <1>5 DEF ClaimProtocolFee
  <1>6. CASE \E is_base \in BOOLEAN, a \in ClaimCaps :
                 ClaimProtocolFee2(is_base, a) \/ ZapProtocolFee(is_base, a)
    BY <1>1, <1>3, <1>4, <1>6 DEF ClaimProtocolFee2, ZapProtocolFee
  <1>7. CASE UNCHANGED migFeeVars
    BY <1>1, <1>7
  <1> QED
    BY <1>5, <1>6, <1>7 DEF Claim, ClaimTradingFee, PartnerWithdrawSurplus,
        CreatorWithdrawSurplus, WithdrawSurplus, WithdrawMigrationFee, WithdrawLeftover

\* What a swap does to the stage: it happens in PreBondingCurve, and leaves it
\* there unless it completes the curve.
LEMMA SwapStage ==
    ASSUME Staged, NEW r, NEW is_virtual \in BOOLEAN, process_swap(r, is_virtual)
    PROVE  /\ ~is_sale_complete /\ migration_progress = "PreBondingCurve"
           /\ UNCHANGED <<configVars, migFeeVars, clock>>
           /\ \/ UNCHANGED statusVars
              \/ /\ is_curve_complete' /\ finish_curve_timestamp' = clock
                 /\ migration_progress' = IF has_vesting(config) THEN "PostBondingCurve"
                                          ELSE "LockedVesting"
  BY DEF process_swap, Staged, CompleteCurve

\* Every step respects the stages.
LEMMA StagedStep == TypeOK /\ Staged /\ [Next]_vars => Staged'
  <1> SUFFICES ASSUME TypeOK, Staged, [Next]_vars PROVE Staged'
    OBVIOUS
  <1> USE DEF statusVars, migFeeVars
  <1>1. CASE Trade
    <2>0. PICK r : \E v \in BOOLEAN : process_swap(r, v)
      BY <1>1 DEF Trade, Swap, VirtualSwap
    <2>1. PICK v \in BOOLEAN : process_swap(r, v)
      BY <2>0
    <2>2. /\ migration_progress = "PreBondingCurve" /\ UNCHANGED migFeeVars
          /\ \/ migration_progress' = migration_progress
             \/ is_curve_complete' /\ migration_progress' # "CreatedPool"
      BY <2>1, SwapStage
    <2> QED
      BY <2>2 DEF Staged, is_sale_complete
  <1>2. CASE ~Trade
    <2>1. is_sale_complete => is_sale_complete'
      BY <1>2, CompletionStays
    <2>2. CASE Claim
      BY <2>1, <2>2, ClaimsKeepStage DEF Staged
    <2>3. CASE CreateLocker
      BY <2>1, <2>3 DEF CreateLocker, CreateLockerAfterDeadline, is_sale_complete, Staged
    <2>4. CASE CreatePool
      BY <2>1, <2>4 DEF CreatePool, MigrateMeteoraDamm, MigrateDammV2, Migrate, Staged
    <2>5. CASE Tick \/ UNCHANGED vars
      BY <2>1, <2>5 DEF Tick, vars, Staged
    <2> QED
      BY <1>2, <2>2, <2>3, <2>4, <2>5 DEF Next
  <1> QED
    BY <1>1, <1>2

\* Hence the stages of every pool are in order.
LEMMA StagedAlways == Spec => []Staged
  <1>1. Init => Staged
    BY DEF Init, Staged
  <1> QED
    BY <1>1, TypeCorrect, StagedStep, PTL DEF Spec

-----------------------------------------------------------------------------
(***************************************************************************)
(* The finish timestamp.                                                   *)
(***************************************************************************)

ClockStarted == clock >= 1

\* No step sets the timestamp at a wrong moment or to a wrong value.
LEMMA FinishStep ==
    TypeOK /\ Staged /\ ClockStarted /\ FinishTimestampSound /\ [Next]_vars
        => ClockStarted' /\ FinishTimestampSound'
  <1> SUFFICES ASSUME TypeOK, Staged, ClockStarted, FinishTimestampSound, [Next]_vars
               PROVE  ClockStarted' /\ FinishTimestampSound'
    OBVIOUS
  <1> USE DEF statusVars, ClockStarted
  <1>0. clock \in Int /\ deadline_timestamp \in Nat /\ finish_curve_timestamp \in Nat
    BY PoolAssumption DEF TypeOK, PoolAssumption
  <1>1. CASE Trade
    <2>0. PICK r : \E v \in BOOLEAN : process_swap(r, v)
      BY <1>1 DEF Trade, Swap, VirtualSwap
    <2>1. PICK v \in BOOLEAN : process_swap(r, v)
      BY <2>0
    <2>2. /\ ~is_sale_complete /\ migration_progress = "PreBondingCurve"
          /\ clock' = clock /\ deadline_timestamp' = deadline_timestamp
          /\ \/ UNCHANGED statusVars
             \/ finish_curve_timestamp' = clock /\ migration_progress' # "PreBondingCurve"
      BY <2>1, SwapStage DEF configVars
    <2>3. deadline_timestamp # 0 => clock < deadline_timestamp
      BY <1>0, <2>2 DEF is_sale_complete, is_deadline_reached
    <2> QED
      BY <1>0, <2>2, <2>3 DEF FinishTimestampSound
  <1>2. CASE ~Trade
    <2>1. deadline_timestamp' = deadline_timestamp /\ clock' \in Int /\ clock <= clock'
      BY <1>2, OtherSteps DEF configVars
    <2>2. CASE UNCHANGED statusVars
      BY <1>0, <2>1, <2>2 DEF FinishTimestampSound
    <2>3. CASE CreateLocker \/ CreatePool
      <3>1. /\ migration_progress' # "PreBondingCurve"
            /\ \/ /\ migration_progress # "PreBondingCurve"
                  /\ finish_curve_timestamp' = finish_curve_timestamp
               \/ /\ migration_progress = "PreBondingCurve" /\ is_deadline_reached
                  /\ finish_curve_timestamp' =
                         IF finish_curve_timestamp = 0 THEN deadline_timestamp
                         ELSE finish_curve_timestamp
        BY <2>3 DEF CreateLocker, CreateLockerAfterDeadline, CreatePool, MigrateMeteoraDamm,
            MigrateDammV2, Migrate, MigrateAfterDeadline
      <3> QED
        BY <1>0, <2>1, <3>1 DEF FinishTimestampSound, is_deadline_reached
    <2>4. Claim => UNCHANGED statusVars
      BY ClaimsKeepStage
    <2> QED
      BY <1>2, <2>2, <2>3, <2>4 DEF Next, Tick, vars
  <1> QED
    BY <1>1, <1>2

\* The vesting's start: whichever of a last swap, create_locker and the
\* migration ends the sale, finish_curve_timestamp is set then and only then,
\* neither in the future nor after the deadline.
THEOREM FinishTimestampsAreSound == Spec => []FinishTimestampSound
  <1>1. Init => ClockStarted /\ FinishTimestampSound
    BY DEF Init, ClockStarted, FinishTimestampSound
  <1> QED
    BY <1>1, TypeCorrect, StagedAlways, FinishStep, PTL DEF Spec

-----------------------------------------------------------------------------
(***************************************************************************)
(* The pool implements TokenLaunch.  PayoutsFollowSale makes the mapping   *)
(* well behaved: only a complete sale is in CreatedPool, so a swap finds   *)
(* the stage "open".                                                       *)
(***************************************************************************)

\* A new pool is a new launch.
LEMMA LaunchInitRefined == Init => Launch!LaunchInit
  <1> SUFFICES ASSUME Init PROVE Launch!LaunchInit
    OBVIOUS
  <1>1. config \in Configs /\ deadline_timestamp \in Deadlines
        /\ (deadline_timestamp = 0 \/ deadline_timestamp > clock) /\ clock = 1
    BY DEF Init
  <1>2. deadline_timestamp \in Nat
    BY <1>1, PoolAssumption DEF PoolAssumption
  <1>3. ~is_deadline_reached
    BY <1>1, <1>2 DEF is_deadline_reached
  <1>4. base_reserve = get_initial_base_supply(config) /\ base_reserve \in Int
    BY <1>1, ConfigFields, U64Props DEF Init
  <1>5. quote_reserve = 0 /\ total_quote_reserve = 0
    BY DEF Init, total_quote_reserve
  <1>6. LaunchStage = IF total_quote_reserve >= config.migration_quote_threshold
                      THEN "ended" ELSE "open"
    BY <1>3 DEF LaunchStage, is_sale_complete, is_curve_complete, Init
  <1>7. LaunchPaid = {}
    BY DEF LaunchPaid, Init
  <1> QED
    BY <1>4, <1>5, <1>6, <1>7 DEF Launch!LaunchInit

\* A swap is a buy.
LEMMA SwapIsBuy ==
    ASSUME TypeOK, TypeOK', PayoutsFollowSale, NEW r, NEW is_virtual \in BOOLEAN,
           process_swap(r, is_virtual)
    PROVE  Launch!Buy
  <1>1. /\ ~is_sale_complete /\ migration_progress # "CreatedPool"
        /\ migration_progress' # "CreatedPool" /\ config' = config
    BY SwapBeforeCompletion
  <1>2. /\ apply_swap_result(r, is_virtual)
        /\ UNCHANGED <<configVars, withdrawVars, base_mint_supply, clock>>
        /\ {r.excluded_input, r.output_amount, r.fee.trading, r.fee.protocol, r.fee.referral}
               \subseteq U64
    BY DEF process_swap
  <1>3. /\ r.excluded_input \in Int /\ 0 <= r.excluded_input
        /\ r.output_amount \in Int /\ 0 <= r.output_amount
        /\ r.fee.trading \in Int /\ 0 <= r.fee.trading
        /\ r.fee.protocol \in Int /\ 0 <= r.fee.protocol
        /\ r.fee.referral \in Int /\ 0 <= r.fee.referral
    BY <1>2, U64Props
  <1>4. base_reserve \in Int /\ quote_reserve \in Int /\ virtual_quote_reserve \in Int
        /\ get_initial_base_supply(config) \in Int
    BY U64Props, ConfigFields DEF TypeOK
  <1>5. base_reserve' \in Int /\ base_reserve' <= base_reserve
    BY <1>2, <1>3, <1>4 DEF apply_swap_result
  <1>6. /\ quote_reserve' >= quote_reserve
        /\ total_quote_reserve' - total_quote_reserve >= quote_reserve' - quote_reserve
    BY <1>2, <1>3, <1>4 DEF apply_swap_result, total_quote_reserve
  <1>7. LaunchStage = "open"
    BY <1>1 DEF LaunchStage
  <1>8. ~is_deadline_reached'
    BY <1>1, <1>2 DEF is_sale_complete, is_deadline_reached, configVars
  <1>9. LaunchStage' = IF total_quote_reserve' >= config.migration_quote_threshold
                       THEN "ended" ELSE "open"
    BY <1>1, <1>8 DEF LaunchStage, is_sale_complete, is_curve_complete
  <1>10. LaunchPaid' = LaunchPaid
    BY <1>2 DEF LaunchPaid, withdrawVars
  <1>11. UNCHANGED <<get_initial_base_supply(config), get_migration_quote_amount_cap(config)>>
    BY <1>1
  <1> QED
    BY <1>1, <1>2, <1>4, <1>5, <1>6, <1>7, <1>9, <1>10, <1>11 DEF Launch!Buy

\* What the launch sees of a step that is not a swap.
LEMMA QuietStep ==
    ASSUME TypeOK, [Next]_vars, ~Trade
    PROVE  /\ UNCHANGED <<config.migration_quote_threshold, sqrt_price, total_quote_reserve,
                          get_migration_quote_amount_cap(config), quote_reserve,
                          get_initial_base_supply(config) - base_reserve>>
           /\ is_sale_complete => is_sale_complete'
  <1>1. UNCHANGED <<configVars, saleVars>>
    BY OtherSteps
  <1> QED
    BY <1>1, CompletionStays DEF configVars, saleVars, total_quote_reserve

\* The stage of the launch follows migration_progress and the sale.
LEMMA StageStays ==
    ASSUME TypeOK, [Next]_vars, ~Trade,
           clock' = clock,
           (migration_progress' = "CreatedPool") <=> (migration_progress = "CreatedPool")
    PROVE  LaunchStage' = LaunchStage
  <1>1. UNCHANGED <<configVars, saleVars>>
    BY OtherSteps
  <1>2. is_sale_complete' = is_sale_complete
    BY <1>1 DEF is_sale_complete, is_curve_complete, is_deadline_reached, total_quote_reserve,
        configVars, saleVars
  <1> QED
    BY <1>2 DEF LaunchStage

\* A claim makes at most one one-time payment, and makes it once.
LEMMA ClaimIsPay ==
    ASSUME TypeOK, PayoutsFollowSale, Claim, ~Trade
    PROVE  [Launch!LaunchNext]_(Launch!launchVars)
  <1>1. /\ UNCHANGED <<statusVars, base_mint_supply, clock>>
    BY DEF Claim, ClaimProtocolFee, ClaimProtocolFee2, ZapProtocolFee, ClaimTradingFee,
        PartnerWithdrawSurplus, CreatorWithdrawSurplus, WithdrawSurplus, WithdrawMigrationFee,
        WithdrawLeftover, mintVars
  <1>2. Next
    BY DEF Next
  <1>3. UNCHANGED <<config.migration_quote_threshold, sqrt_price, total_quote_reserve,
                    get_migration_quote_amount_cap(config), quote_reserve,
                    get_initial_base_supply(config) - base_reserve>>
    BY <1>2, QuietStep
  <1>4. LaunchStage' = LaunchStage
    BY <1>1, <1>2, StageStays DEF statusVars
  <1>5. CASE UNCHANGED withdrawVars
    <2>1. LaunchPaid' = LaunchPaid
      BY <1>5 DEF LaunchPaid, withdrawVars
    <2> QED
      BY <1>1, <1>3, <1>4, <2>1 DEF Launch!launchVars
  <1>6. ASSUME NEW party \in Party, has_real_quote_surplus, party \notin surplus_withdrawn,
               surplus_withdrawn' = surplus_withdrawn \cup {party},
               UNCHANGED <<migration_fee_withdrawn, is_withdraw_leftover>>
        PROVE  Launch!Pay("surplus", party)
    <2>1. LaunchPaid' = LaunchPaid \cup {<<"surplus", party>>}
      BY <1>6 DEF LaunchPaid
    <2>2. <<"surplus", party>> \notin LaunchPaid
      BY <1>6 DEF LaunchPaid
    <2>3. Launch!Due("surplus")
      BY <1>6 DEF Launch!Due, has_real_quote_surplus
    <2> QED
      BY <1>1, <1>3, <1>4, <2>1, <2>2, <2>3 DEF Launch!Pay
  <1>7. ASSUME NEW party \in Party, WithdrawMigrationFee(party)
        PROVE  Launch!Pay("migration_fee", party)
    <2>1. /\ party \notin migration_fee_withdrawn
          /\ migration_fee_withdrawn' = migration_fee_withdrawn \cup {party}
          /\ UNCHANGED <<surplus_withdrawn, is_withdraw_leftover>>
          /\ is_curve_complete \/ migration_progress = "CreatedPool"
      BY <1>7 DEF WithdrawMigrationFee
    <2>2. LaunchPaid' = LaunchPaid \cup {<<"migration_fee", party>>}
      BY <2>1 DEF LaunchPaid
    <2>3. <<"migration_fee", party>> \notin LaunchPaid
      BY <2>1 DEF LaunchPaid
    <2>4. LaunchStage # "open"
      BY <2>1 DEF LaunchStage, is_sale_complete
    <2>5. Launch!Due("migration_fee")
      BY <2>4 DEF Launch!Due
    <2> QED
      BY <1>1, <1>3, <1>4, <2>2, <2>3, <2>5 DEF Launch!Pay
  <1>8. ASSUME WithdrawLeftover PROVE Launch!Pay("leftover", "creator")
    <2>1. /\ ~is_withdraw_leftover /\ is_withdraw_leftover' = TRUE
          /\ UNCHANGED <<surplus_withdrawn, migration_fee_withdrawn>>
          /\ migration_progress = "CreatedPool"
      BY <1>8 DEF WithdrawLeftover
    <2>2. LaunchPaid' = LaunchPaid \cup {<<"leftover", "creator">>}
      BY <2>1 DEF LaunchPaid
    <2>3. <<"leftover", "creator">> \notin LaunchPaid
      BY <2>1 DEF LaunchPaid
    <2>4. LaunchStage = "migrated"
      BY <2>1 DEF LaunchStage
    <2>5. Launch!Due("leftover")
      BY <2>4 DEF Launch!Due
    <2> QED
      BY <1>1, <1>3, <1>4, <2>2, <2>3, <2>5 DEF Launch!Pay
  <1>9. \/ UNCHANGED withdrawVars
        \/ \E party \in Party : /\ has_real_quote_surplus /\ party \notin surplus_withdrawn
                                /\ surplus_withdrawn' = surplus_withdrawn \cup {party}
                                /\ UNCHANGED <<migration_fee_withdrawn, is_withdraw_leftover>>
        \/ \E party \in Party : WithdrawMigrationFee(party)
        \/ WithdrawLeftover
    <2>1. ASSUME NEW a, claim_protocol_quote_fee_and_surplus(a)
          PROVE  \/ surplus_withdrawn' = surplus_withdrawn
                 \/ /\ has_real_quote_surplus /\ "protocol" \notin surplus_withdrawn
                    /\ surplus_withdrawn' = surplus_withdrawn \cup {"protocol"}
      BY <2>1 DEF claim_protocol_quote_fee_and_surplus
    <2>2. CASE \E a, b \in ClaimCaps : ClaimProtocolFee(a, b)
      BY <2>1, <2>2 DEF ClaimProtocolFee, withdrawVars, Party
    <2>3. CASE \E b \in BOOLEAN, a \in ClaimCaps : ClaimProtocolFee2(b, a) \/ ZapProtocolFee(b, a)
      BY <2>1, <2>3 DEF ClaimProtocolFee2, ZapProtocolFee, withdrawVars, Party
    <2>4. CASE \E party \in {"partner", "creator"}, a, b \in ClaimCaps : ClaimTradingFee(party, a, b)
      BY <2>4 DEF ClaimTradingFee
    <2>5. CASE PartnerWithdrawSurplus \/ CreatorWithdrawSurplus
      BY <2>5 DEF PartnerWithdrawSurplus, CreatorWithdrawSurplus, WithdrawSurplus,
          SurplusEligible, Party
    <2>6. CASE \E party \in {"partner", "creator"} : WithdrawMigrationFee(party)
      BY <2>6 DEF Party
    <2> QED
      BY <2>2, <2>3, <2>4, <2>5, <2>6 DEF Claim
  <1>10. "creator" \in Party
    BY DEF Party
  <1> QED
    BY <1>5, <1>6, <1>7, <1>8, <1>9, <1>10 DEF Launch!LaunchNext

\* Every step of the pool is a step of the launch or does not show.
LEMMA LaunchStepRefined ==
    TypeOK /\ TypeOK' /\ PayoutsFollowSale /\ [Next]_vars
        => [Launch!LaunchNext]_(Launch!launchVars)
  <1> SUFFICES ASSUME TypeOK, TypeOK', PayoutsFollowSale, [Next]_vars
               PROVE  [Launch!LaunchNext]_(Launch!launchVars)
    OBVIOUS
  <1>1. CASE Trade
    <2>0. PICK r : \E v \in BOOLEAN : process_swap(r, v)
      BY <1>1 DEF Trade, Swap, VirtualSwap
    <2>1. PICK v \in BOOLEAN : process_swap(r, v)
      BY <2>0
    <2> QED
      BY <2>1, SwapIsBuy DEF Launch!LaunchNext
  <1>2. CASE Claim /\ ~Trade
    BY <1>2, ClaimIsPay
  <1>3. CASE CreateLocker /\ ~Trade
    <2>1. /\ UNCHANGED <<withdrawVars, base_mint_supply, clock>>
          /\ migration_progress' = "LockedVesting"
          /\ migration_progress # "CreatedPool"
      BY <1>3 DEF CreateLocker, CreateLockerAfterDeadline, mintVars
    <2>2. LaunchStage' = LaunchStage
      BY <1>3, <2>1, StageStays
    <2>3. LaunchPaid' = LaunchPaid
      BY <2>1 DEF LaunchPaid, withdrawVars
    <2> QED
      BY <1>3, <2>1, <2>2, <2>3, QuietStep DEF Launch!launchVars
  <1>4. CASE CreatePool /\ ~Trade
    <2>1. PICK bd \in 0..MaxDust, qd \in 0..MaxDust : Migrate(bd, qd)
      <3>1. 0 \in 0..MaxDust
        BY PoolAssumption DEF PoolAssumption
      <3> QED
        BY <1>4, <3>1 DEF CreatePool, MigrateMeteoraDamm, MigrateDammV2
    <2>2. /\ is_sale_complete /\ quote_reserve > 0 /\ UNCHANGED withdrawVars
          /\ migration_progress # "CreatedPool" /\ migration_progress' = "CreatedPool"
      BY <2>1 DEF Migrate, MigrateAfterDeadline, SufficientForMigration
    <2>3. base_mint_supply' <= base_mint_supply
      <3>1. PICK b \in U64 : base_mint_supply' = base_mint_supply - b
        BY <2>1 DEF Migrate
      <3>2. b \in Int /\ 0 <= b /\ base_mint_supply \in Int
        BY <3>1, U64Props DEF TypeOK
      <3> QED
        BY <3>1, <3>2
    <2>4. LaunchStage = "ended" /\ LaunchStage' = "migrated" /\ LaunchPaid' = LaunchPaid
      BY <2>2 DEF LaunchStage, LaunchPaid, withdrawVars
    <2> QED
      BY <1>4, <2>2, <2>3, <2>4, QuietStep DEF Launch!Graduate, Launch!LaunchNext
  <1>5. CASE (Tick \/ UNCHANGED vars) /\ ~Trade
    <2>1. UNCHANGED <<withdrawVars, base_mint_supply, migration_progress>>
      BY <1>5 DEF Tick, vars, statusVars, mintVars
    <2>2. LaunchPaid' = LaunchPaid
      BY <2>1 DEF LaunchPaid, withdrawVars
    <2>3. LaunchStage' = LaunchStage \/ (LaunchStage = "open" /\ LaunchStage' = "ended")
      BY <1>5, <2>1, QuietStep DEF LaunchStage
    <2> QED
      BY <1>5, <2>1, <2>2, <2>3, QuietStep
      DEF Launch!Expire, Launch!LaunchNext, Launch!launchVars
  <1> QED
    BY <1>1, <1>2, <1>3, <1>4, <1>5 DEF Next

\* The pool implements the launch: whatever the configuration, the swaps and
\* the order in which the parties act, sale, migration and one-time payments
\* follow TokenLaunch.
THEOREM LaunchRefined == Spec => ImplementsLaunch
  BY LaunchInitRefined, LaunchStepRefined, TypeCorrect, PayoutsInOrder, PTL
  DEF Spec, ImplementsLaunch, Launch!LaunchSpec

=============================================================================
