-------------------------- MODULE SolvencyProofs --------------------------
(***************************************************************************)
(* The vaults hold what they owe, for every set of configurations,         *)
(* deadlines, amounts and fee numerators:                                  *)
(*                                                                         *)
(*   QuoteSolvency            Spec => []QuoteSolvent                       *)
(*   NothingStranded          Spec => []NoStrandedQuote                    *)
(*   BaseSolvency             Spec => []BaseSolvent                        *)
(*   FixedSupplyNotUndercut   Spec => []FixedSupplyFloor                   *)
(*   NoBaseStranded           Spec => []NoStrandedBase                     *)
(*                                                                         *)
(* The first two are one invariant, QuoteBalanced: vault and obligations   *)
(* move together.  It is not inductive alone: a swap raises quote_reserve, *)
(* and with it the surplus and the migration fee, so it must not come      *)
(* after a party has drawn its share.  PayoutsFollowSale says that it does *)
(* not; the one exception is the partner of a pool with a fixed cap, which *)
(* may draw before the sale ends and is then owed nothing more.            *)
(***************************************************************************)
EXTENDS VirtualPoolProofs

-----------------------------------------------------------------------------
(***************************************************************************)
(* Sums.                                                                   *)
(***************************************************************************)

\* The shares of a surplus are integers that add up to it.
LEMMA SurplusShares ==
    ASSUME NEW c \in Configs, NEW s \in Int
    PROVE  /\ SurplusShare(c, "protocol", s) \in Int
           /\ SurplusShare(c, "partner", s) \in Int
           /\ SurplusShare(c, "creator", s) \in Int
           /\ SurplusShare(c, "protocol", s) + SurplusShare(c, "partner", s)
                  + SurplusShare(c, "creator", s) = s
           /\ is_fixed_migration_quote_amount_enabled(c) =>
                  /\ SurplusShare(c, "protocol", s) = 0
                  /\ SurplusShare(c, "creator", s) = 0
                  /\ SurplusShare(c, "partner", s) = s
  <1> DEFINE parties == MulDivDown(s, PARTNER_AND_CREATOR_SURPLUS_SHARE, 100)
             creator == creator_share(parties, c.creator_trading_fee_percentage)
  <1>1. parties \in Int
    BY MulDivInt DEF PARTNER_AND_CREATOR_SURPLUS_SHARE
  <1>2. c.creator_trading_fee_percentage \in Int
    BY ConfigFields
  <1>3. creator \in Int
    <2> HIDE DEF parties
    <2> QED
      BY <1>1, <1>2, CreatorShareInt
  <1> HIDE DEF parties, creator
  <1>4. CASE is_fixed_migration_quote_amount_enabled(c)
    BY <1>4 DEF SurplusShare
  <1>5. CASE ~is_fixed_migration_quote_amount_enabled(c)
    <2>1. /\ SurplusShare(c, "partner", s) = parties - creator
          /\ SurplusShare(c, "creator", s) = creator
          /\ SurplusShare(c, "protocol", s) = s - parties
      BY <1>5 DEF SurplusShare, parties, creator
    <2> QED
      BY <1>1, <1>3, <1>5, <2>1
  <1> QED
    BY <1>4, <1>5

\* The migrated quote and the two shares of the migration fee are integers
\* that add up to the threshold they are computed from.
LEMMA MigrationFeeShares ==
    ASSUME NEW c \in Configs, NEW t \in Int
    PROVE  /\ calculate_post_fee_migration_quote_amount(c, t) \in Int
           /\ MigrationFeeShare(c, "partner", t) \in Int
           /\ MigrationFeeShare(c, "creator", t) \in Int
           /\ MigrationFeeShare(c, "partner", t) + MigrationFeeShare(c, "creator", t)
                  + calculate_post_fee_migration_quote_amount(c, t) = t
  <1> DEFINE post == calculate_post_fee_migration_quote_amount(c, t)
             creator == creator_share(MigrationFee(c, t), c.creator_migration_fee_percentage)
  <1>1. c.migration_fee_percentage \in Int /\ c.creator_migration_fee_percentage \in Int
    BY ConfigFields
  <1>2. post \in Int
    <2>1. 100 - c.migration_fee_percentage \in Int
      BY <1>1
    <2>2. \A y \in Int : MulDivUp(t, y, 100) \in Int
      BY MulDivInt
    <2> QED
      BY <2>1, <2>2 DEF calculate_post_fee_migration_quote_amount
  <1>3. MigrationFee(c, t) = t - post
    BY DEF MigrationFee
  <1>4. MigrationFee(c, t) \in Int
    BY <1>2, <1>3
  <1>5. creator \in Int
    BY <1>1, <1>4, CreatorShareInt
  <1>6. /\ MigrationFeeShare(c, "creator", t) = creator
        /\ MigrationFeeShare(c, "partner", t) = MigrationFee(c, t) - creator
    BY DEF MigrationFeeShare
  <1> HIDE DEF post, creator
  <1> QED
    BY <1>2, <1>3, <1>4, <1>5, <1>6 DEF post

\* The split of a fee loses nothing.
LEMMA SplitFees ==
    ASSUME NEW fee \in Int, NEW has_referral \in BOOLEAN
    PROVE  /\ split_fees(fee, has_referral).trading \in Int
           /\ split_fees(fee, has_referral).protocol \in Int
           /\ split_fees(fee, has_referral).referral \in Int
           /\ split_fees(fee, has_referral).trading + split_fees(fee, has_referral).protocol
                  + split_fees(fee, has_referral).referral = fee
  <1> DEFINE gross == MulDivDown(fee, PROTOCOL_FEE_PERCENT, 100)
             referral == IF has_referral THEN MulDivDown(gross, HOST_FEE_PERCENT, 100) ELSE 0
  <1>1. gross \in Int
    BY MulDivInt DEF PROTOCOL_FEE_PERCENT
  <1>2. referral \in Int
    BY <1>1, MulDivInt DEF HOST_FEE_PERCENT
  <1>3. /\ split_fees(fee, has_referral).trading = fee - gross
        /\ split_fees(fee, has_referral).protocol = gross - referral
        /\ split_fees(fee, has_referral).referral = referral
    BY DEF split_fees
  <1> HIDE DEF gross, referral
  <1> QED
    BY <1>1, <1>2, <1>3

\* Whatever the mode, a buyer pays what the curve takes plus the fee; when
\* fees are taken on the base token it pays what the curve takes.
LEMMA SwapPays ==
    ASSUME TypeOK, NEW mode \in {"ExactIn", "PartialFill", "ExactOut"}, NEW amount \in U64,
           NEW has_referral \in BOOLEAN, NEW n \in FeeNumerators, NEW m \in FeeNumerators,
           NEW r, r = SwapResult(mode, amount, has_referral, n, m),
           r.included_input \in U64, r.excluded_input \in U64
    PROVE  IF fees_on_base_token THEN r.included_input = r.excluded_input
           ELSE r.included_input =
                    r.excluded_input + r.fee.trading + r.fee.protocol + r.fee.referral
  <1> DEFINE c == config
  <1>n. n \in Int /\ m \in Int /\ FEE_DENOMINATOR - m \in Int /\ FEE_DENOMINATOR - m > 0
        /\ FEE_DENOMINATOR \in Int /\ FEE_DENOMINATOR > 0
    BY PoolAssumption, FeeAssumption DEF PoolAssumption, FeeAssumption
  <1>a. amount \in Int /\ r.included_input \in Int /\ r.excluded_input \in Int
    BY U64Props
  <1>fee. FeeOfIncluded(n, amount) \in Int /\ FeeOfExcluded(m, r.excluded_input) \in Int
    <2>1. /\ MulDivUp(amount, n, FEE_DENOMINATOR) \in Int
          /\ MulDivUp(r.excluded_input, FEE_DENOMINATOR, FEE_DENOMINATOR - m) \in Int
      BY <1>n, <1>a, MulDivInt
    <2> QED
      BY <2>1, <1>a DEF FeeOfIncluded, FeeOfExcluded
  <1>1. CASE mode = "ExactIn"
    <2> DEFINE fee == FeeOfIncluded(n, amount)
    <2>1. r = get_swap_result_from_exact_input(c.curve, sqrt_price, c.migration_sqrt_price,
                  amount, fees_on_base_token, has_referral, n)
      BY <1>1 DEF SwapResult
    <2>2. fee \in Int
      BY <1>fee
    <2>3. CASE fees_on_base_token
      BY <2>1, <2>3 DEF get_swap_result_from_exact_input
    <2>4. CASE ~fees_on_base_token
      <3>1. /\ r.included_input = amount
            /\ r.excluded_input = amount - fee
            /\ r.fee = split_fees(fee, has_referral)
        BY <2>1, <2>4 DEF get_swap_result_from_exact_input
      <3> HIDE DEF fee
      <3> QED
        BY <1>a, <2>2, <2>4, <3>1, SplitFees
    <2> QED
      BY <2>3, <2>4
  <1>2. CASE mode = "PartialFill"
    <2>1. r = get_swap_result_from_partial_input(c.curve, sqrt_price, c.migration_sqrt_price,
                  amount, fees_on_base_token, has_referral, n, m)
      BY <1>2 DEF SwapResult
    <2>3. CASE fees_on_base_token
      BY <2>1, <2>3 DEF get_swap_result_from_partial_input
    <2>4. CASE ~fees_on_base_token
      <3>1. PICK fee : /\ fee = FeeOfExcluded(m, r.excluded_input)
                              \/ fee = FeeOfIncluded(n, amount)
                       /\ r.included_input = r.excluded_input + fee
                       /\ r.fee = split_fees(fee, has_referral)
        BY <2>1, <2>4 DEF get_swap_result_from_partial_input
      <3>2. fee \in Int
        BY <3>1, <1>fee
      <3> QED
        BY <1>a, <2>4, <3>1, <3>2, SplitFees
    <2> QED
      BY <2>3, <2>4
  <1>3. CASE mode = "ExactOut"
    <2>1. r = get_swap_result_from_exact_output(c.curve, sqrt_price, c.migration_sqrt_price,
                  amount, fees_on_base_token, has_referral, m)
      BY <1>3 DEF SwapResult
    <2>3. CASE fees_on_base_token
      BY <2>1, <2>3 DEF get_swap_result_from_exact_output
    <2>4. CASE ~fees_on_base_token
      <3> DEFINE fee == FeeOfExcluded(m, r.excluded_input)
      <3>1. /\ r.included_input = r.excluded_input + fee
            /\ r.fee = split_fees(fee, has_referral)
        BY <2>1, <2>4 DEF get_swap_result_from_exact_output
      <3>2. fee \in Int
        BY <1>fee
      <3> HIDE DEF fee
      <3> QED
        BY <1>a, <2>4, <3>1, <3>2, SplitFees
    <2> QED
      BY <2>3, <2>4
  <1> QED
    BY <1>1, <1>2, <1>3

-----------------------------------------------------------------------------
(***************************************************************************)
(* What the vault owes, as a function of the fields it depends on: c is    *)
(* the configuration, q the real reserve, W and Mf the surplus and         *)
(* migration-fee withdrawals made, fees the unclaimed fees of all kinds.   *)
(***************************************************************************)
OwedSurplus(c, q, W, party) ==
    IF q >= get_migration_quote_amount_cap(c) /\ party \notin W
    THEN SurplusShare(c, party, q - get_migration_quote_amount_cap(c)) ELSE 0

OwedMigrationFee(c, q, Mf, party) ==
    IF party \in Mf THEN 0
    ELSE MigrationFeeShare(c, party, MinOf(q, get_migration_quote_amount_cap(c)))

OwedMigration(c, q, progress) ==
    IF progress = "CreatedPool" THEN 0
    ELSE calculate_post_fee_migration_quote_amount(c, MinOf(q, get_migration_quote_amount_cap(c)))

Owed(c, q, W, Mf, progress, fees) ==
    fees + OwedSurplus(c, q, W, "protocol") + OwedSurplus(c, q, W, "partner")
    + OwedSurplus(c, q, W, "creator") + OwedMigrationFee(c, q, Mf, "partner")
    + OwedMigrationFee(c, q, Mf, "creator") + OwedMigration(c, q, progress)

UnclaimedQuote == TotalFee(quote_fee) + protocol_migration_quote_fee_amount

\* QuoteObligations, before and after a step, in these terms.
LEMMA ObligationsAre ==
    /\ QuoteObligations = Owed(config, quote_reserve, surplus_withdrawn,
           migration_fee_withdrawn, migration_progress, UnclaimedQuote)
    /\ QuoteObligations' = Owed(config', quote_reserve', surplus_withdrawn',
           migration_fee_withdrawn', migration_progress', UnclaimedQuote')
  BY DEF QuoteObligations, SurplusOwed, MigrationFeeOwed, has_real_quote_surplus,
      get_total_surplus, effective_migration_quote_threshold, MigrationQuote, Owed,
      OwedSurplus, OwedMigrationFee, OwedMigration, UnclaimedQuote

\* Every part of it is an integer.
LEMMA OwedInt ==
    ASSUME NEW c \in Configs, NEW q \in Int, NEW W, NEW Mf, NEW progress
    PROVE  /\ \A party \in Party : OwedSurplus(c, q, W, party) \in Int
           /\ \A party \in {"partner", "creator"} : OwedMigrationFee(c, q, Mf, party) \in Int
           /\ OwedMigration(c, q, progress) \in Int
  <1> DEFINE cap == get_migration_quote_amount_cap(c)
             t == MinOf(q, cap)
  <1>1. cap \in Int
    BY CapProps, U64Props
  <1> HIDE DEF cap
  <1>2. t \in Int /\ q - cap \in Int
    BY <1>1, MinOfProps
  <1> HIDE DEF t
  <1>3. \A party \in Party : OwedSurplus(c, q, W, party) \in Int
    BY <1>2, SurplusShares DEF OwedSurplus, Party, cap
  <1>4. \A party \in {"partner", "creator"} : OwedMigrationFee(c, q, Mf, party) \in Int
    BY <1>2, MigrationFeeShares DEF OwedMigrationFee, cap, t
  <1>5. OwedMigration(c, q, progress) \in Int
    BY <1>2, MigrationFeeShares DEF OwedMigration, cap, t
  <1> QED
    BY <1>3, <1>4, <1>5

\* While the sale runs the vault owes the fees and the whole reserve, or the
\* fees and the cap once the partner of a capped pool has drawn its surplus.
LEMMA OwedDuringSale ==
    ASSUME NEW c \in Configs, NEW q \in Int, NEW W, NEW fees \in Int,
           NEW progress, progress # "CreatedPool",
           W = {} \/ (/\ is_fixed_migration_quote_amount_enabled(c)
                      /\ q >= get_migration_quote_amount_cap(c))
    PROVE  Owed(c, q, W, {}, progress, fees) =
               fees + (IF "partner" \in W THEN get_migration_quote_amount_cap(c) ELSE q)
  <1> DEFINE cap == get_migration_quote_amount_cap(c)
             t == MinOf(q, cap)
             pp == MigrationFeeShare(c, "partner", t)
             pc == MigrationFeeShare(c, "creator", t)
             mq == calculate_post_fee_migration_quote_amount(c, t)
             s  == q - cap
             sp == SurplusShare(c, "protocol", s)
             sr == SurplusShare(c, "partner", s)
             sc == SurplusShare(c, "creator", s)
  <1>1. cap \in Int
    BY CapProps, U64Props
  <1>2. t \in Int /\ s \in Int /\ t = (IF q <= cap THEN q ELSE cap)
    <2> HIDE DEF cap
    <2> QED BY <1>1 DEF MinOf
  <1>3. pp \in Int /\ pc \in Int /\ mq \in Int /\ pp + pc + mq = t
    <2> HIDE DEF t
    <2> QED BY <1>2, MigrationFeeShares
  <1>4. /\ sp \in Int /\ sr \in Int /\ sc \in Int /\ sp + sr + sc = s
        /\ is_fixed_migration_quote_amount_enabled(c) => sp = 0 /\ sc = 0 /\ sr = s
    <2> HIDE DEF s
    <2> QED BY <1>2, SurplusShares
  <1>5. Owed(c, q, W, {}, progress, fees) =
            fees + (IF q >= cap /\ "protocol" \notin W THEN sp ELSE 0)
                 + (IF q >= cap /\ "partner" \notin W THEN sr ELSE 0)
                 + (IF q >= cap /\ "creator" \notin W THEN sc ELSE 0) + pp + pc + mq
    BY DEF Owed, OwedSurplus, OwedMigrationFee, OwedMigration
  <1>6. s = q - cap
    OBVIOUS
  <1> HIDE DEF cap, t, pp, pc, mq, s, sp, sr, sc
  <1>7. ASSUME q >= cap, "partner" \notin W, W = {} \/ is_fixed_migration_quote_amount_enabled(c)
        PROVE  Owed(c, q, W, {}, progress, fees) = fees + q
    <2>1. /\ Owed(c, q, W, {}, progress, fees) =
                 fees + (IF "protocol" \notin W THEN sp ELSE 0) + sr
                      + (IF "creator" \notin W THEN sc ELSE 0) + pp + pc + mq
          /\ t = cap
      BY <1>1, <1>2, <1>5, <1>7
    <2>2. CASE W = {}
      BY <1>1, <1>2, <1>3, <1>4, <1>6, <2>1, <2>2
    <2>3. CASE is_fixed_migration_quote_amount_enabled(c)
      BY <1>1, <1>2, <1>3, <1>4, <1>6, <2>1, <2>3
    <2> QED
      BY <1>7, <2>2, <2>3
  <1>8. ASSUME q >= cap, "partner" \in W, is_fixed_migration_quote_amount_enabled(c)
        PROVE  Owed(c, q, W, {}, progress, fees) = fees + cap
    <2>1. sp = 0 /\ sc = 0 /\ t = cap
      BY <1>1, <1>2, <1>4, <1>8
    <2> QED
      BY <1>1, <1>3, <1>5, <1>8, <2>1
  <1>9. ASSUME ~(q >= cap), W = {}
        PROVE  Owed(c, q, W, {}, progress, fees) = fees + q
    <2>1. t = q /\ Owed(c, q, W, {}, progress, fees) = fees + 0 + 0 + 0 + pp + pc + mq
      BY <1>1, <1>2, <1>5, <1>9
    <2> QED
      BY <1>3, <2>1
  <1> QED
    BY <1>7, <1>8, <1>9 DEF cap

\* A recorded fee goes to the parties in full.
LEMMA AddFeeTotal ==
    ASSUME TypeOK, NEW f \in [Party -> U64], NEW fee, fee.trading \in Int, fee.protocol \in Int
    PROVE  TotalFee(AddFee(f, fee)) = TotalFee(f) + fee.trading + fee.protocol
  <1> DEFINE creator == creator_share(fee.trading, config.creator_trading_fee_percentage)
  <1>1. config.creator_trading_fee_percentage \in Int
    BY ConfigFields DEF TypeOK
  <1>2. creator \in Int
    BY <1>1, CreatorShareInt
  <1>3. f["protocol"] \in Int /\ f["partner"] \in Int /\ f["creator"] \in Int
    BY U64Props DEF Party
  <1>4. /\ AddFee(f, fee)["protocol"] = f["protocol"] + fee.protocol
        /\ AddFee(f, fee)["partner"] = f["partner"] + (fee.trading - creator)
        /\ AddFee(f, fee)["creator"] = f["creator"] + creator
    BY DEF AddFee, Party
  <1> HIDE DEF creator
  <1> QED
    BY <1>2, <1>3, <1>4 DEF TotalFee

\* Integers the steps below compute with.
LEMMA StateInt ==
    ASSUME TypeOK
    PROVE  /\ config \in Configs
           /\ quote_reserve \in Int /\ quote_vault \in Int
           /\ TotalFee(quote_fee) \in Int /\ UnclaimedQuote \in Int
           /\ protocol_migration_quote_fee_amount \in Int
           /\ 0 <= protocol_migration_quote_fee_amount
           /\ get_migration_quote_amount_cap(config) \in Int
  <1>1. /\ quote_reserve \in U64 /\ quote_vault \in U64
        /\ protocol_migration_quote_fee_amount \in U64
        /\ quote_fee["protocol"] \in U64 /\ quote_fee["partner"] \in U64
        /\ quote_fee["creator"] \in U64
        /\ config \in Configs
    BY DEF TypeOK, Party
  <1>2. get_migration_quote_amount_cap(config) \in U64
    BY <1>1, CapProps
  <1> QED
    BY <1>1, <1>2, U64Props DEF TotalFee, UnclaimedQuote

\* What the quote vault holds is what it owes: no less, and, while no fixed cap
\* is set, no more, up to the dust of the one deposit.
DepositDust == IF migration_progress = "CreatedPool" THEN MaxDust ELSE 0

QuoteBalanced ==
    /\ quote_vault >= QuoteObligations
    /\ ~is_fixed_migration_quote_amount_enabled(config) =>
           quote_vault <= QuoteObligations + DepositDust

\* A swap adds as much to the vault as to what it owes, or more.
LEMMA SwapKeepsBalance ==
    ASSUME TypeOK, TypeOK', PayoutsFollowSale, QuoteBalanced,
           NEW mode \in {"ExactIn", "PartialFill", "ExactOut"}, NEW amount \in U64,
           NEW has_referral \in BOOLEAN, NEW n \in FeeNumerators, NEW m \in FeeNumerators,
           NEW is_virtual \in BOOLEAN,
           process_swap(SwapResult(mode, amount, has_referral, n, m), is_virtual)
    PROVE  QuoteBalanced'
  <1> DEFINE r == SwapResult(mode, amount, has_referral, n, m)
             cap == get_migration_quote_amount_cap(config)
             W == surplus_withdrawn
  <1>1. /\ ~is_sale_complete
        /\ migration_fee_withdrawn = {} /\ migration_progress # "CreatedPool"
        /\ migration_progress' # "CreatedPool"
        /\ config' = config /\ W' = W /\ migration_fee_withdrawn' = {}
        /\ quote_reserve <= quote_reserve'
    BY SwapBeforeCompletion
  <1>2. /\ config \in Configs /\ cap \in Int
        /\ quote_reserve \in Int /\ quote_vault \in Int /\ UnclaimedQuote \in Int
        /\ TotalFee(quote_fee) \in Int /\ protocol_migration_quote_fee_amount \in Int
    BY StateInt
  <1>3. /\ apply_swap_result(r, is_virtual) /\ SwapTransfers(r, is_virtual)
        /\ r.included_input \in U64 /\ r.excluded_input \in U64
        /\ r.fee.trading \in U64 /\ r.fee.protocol \in U64 /\ r.fee.referral \in U64
        /\ protocol_migration_quote_fee_amount' = protocol_migration_quote_fee_amount
    BY DEF process_swap, migFeeVars
  <1>4. IF fees_on_base_token THEN r.included_input = r.excluded_input
        ELSE r.included_input =
                 r.excluded_input + r.fee.trading + r.fee.protocol + r.fee.referral
    BY <1>3, SwapPays
  <1> HIDE DEF r, cap
  <1>5. /\ r.included_input \in Int /\ r.excluded_input \in Int /\ 0 <= r.excluded_input
        /\ r.fee.trading \in Int /\ r.fee.protocol \in Int /\ r.fee.referral \in Int
    BY <1>3, U64Props
  \* One number x for what the swap adds to the reserve, one y for its fees.
  <1>6. PICK x \in Int, y \in Int :
            /\ 0 <= x
            /\ quote_reserve' = quote_reserve + x
            /\ quote_vault' = quote_vault + x + y
            /\ UnclaimedQuote' = UnclaimedQuote + y
    <2>0. UnclaimedQuote' = TotalFee(quote_fee') + protocol_migration_quote_fee_amount
          /\ UnclaimedQuote = TotalFee(quote_fee) + protocol_migration_quote_fee_amount
      BY <1>3 DEF UnclaimedQuote, TotalFee
    <2>1. CASE is_virtual
      <3>1. quote_reserve' = quote_reserve /\ quote_vault' = quote_vault
            /\ quote_fee' = quote_fee
        BY <1>3, <2>1 DEF apply_swap_result, SwapTransfers
      <3>2. UnclaimedQuote' = UnclaimedQuote + 0 /\ quote_reserve' = quote_reserve + 0
            /\ quote_vault' = quote_vault + 0 + 0
        BY <1>2, <2>0, <3>1
      <3> QED
        BY <3>2
    <2>2. CASE ~is_virtual /\ fees_on_base_token
      <3>1. quote_reserve' = quote_reserve + r.excluded_input /\ quote_fee' = quote_fee
            /\ quote_vault' = quote_vault + r.included_input - 0
        BY <1>3, <2>2 DEF apply_swap_result, SwapTransfers
      <3>2. UnclaimedQuote' = UnclaimedQuote + 0
            /\ quote_vault' = quote_vault + r.excluded_input + 0
        BY <1>2, <1>4, <1>5, <2>0, <2>2, <3>1
      <3> QED
        BY <1>5, <3>1, <3>2
    <2>3. CASE ~is_virtual /\ ~fees_on_base_token
      <3>1. quote_reserve' = quote_reserve + r.excluded_input
            /\ quote_fee' = AddFee(quote_fee, r.fee)
            /\ quote_vault' = quote_vault + r.included_input - r.fee.referral
        BY <1>3, <2>3 DEF apply_swap_result, SwapTransfers
      <3>2. TotalFee(quote_fee') = TotalFee(quote_fee) + r.fee.trading + r.fee.protocol
        BY <1>5, <3>1, AddFeeTotal DEF TypeOK
      <3>3. UnclaimedQuote' = UnclaimedQuote + (r.fee.trading + r.fee.protocol)
            /\ quote_vault' = quote_vault + r.excluded_input + (r.fee.trading + r.fee.protocol)
        BY <1>2, <1>4, <1>5, <2>0, <2>3, <3>1, <3>2
      <3>4. r.fee.trading + r.fee.protocol \in Int
        BY <1>5
      <3> QED
        BY <1>5, <3>1, <3>3, <3>4
    <2> QED
      BY <2>1, <2>2, <2>3
  <1>7. W = {} \/ (is_fixed_migration_quote_amount_enabled(config) /\ quote_reserve >= cap)
    <2> SUFFICES ASSUME W # {}
                 PROVE  is_fixed_migration_quote_amount_enabled(config) /\ quote_reserve >= cap
      OBVIOUS
    <2>1. quote_reserve >= cap
      BY DEF PayoutsFollowSale, has_real_quote_surplus, cap
    <2>2. ~(quote_reserve + virtual_quote_reserve >= config.migration_quote_threshold)
      BY <1>1 DEF is_sale_complete, is_curve_complete, total_quote_reserve
    <2>3. virtual_quote_reserve \in Int /\ 0 <= virtual_quote_reserve
      BY U64Props DEF TypeOK
    <2>4. config.migration_quote_threshold \in Int
      BY <1>2, ConfigFields, U64Props
    <2>5. cap # config.migration_quote_threshold
      BY <1>2, <2>1, <2>2, <2>3, <2>4
    <2> QED
      BY <1>2, <2>1, <2>5, CapProps DEF cap
  <1>8. QuoteObligations =
            UnclaimedQuote + (IF "partner" \in W THEN cap ELSE quote_reserve)
    BY <1>1, <1>2, <1>7, ObligationsAre, OwedDuringSale DEF cap
  <1>9. QuoteObligations' =
            UnclaimedQuote' + (IF "partner" \in W THEN cap ELSE quote_reserve')
    <2>1. quote_reserve' \in Int /\ UnclaimedQuote' \in Int
      BY <1>2, <1>6
    <2>2. W = {} \/ (is_fixed_migration_quote_amount_enabled(config) /\ quote_reserve' >= cap)
      BY <1>1, <1>2, <1>7, <2>1
    <2>3. QuoteObligations' = Owed(config, quote_reserve', W, {}, migration_progress',
                                   UnclaimedQuote')
      BY <1>1, ObligationsAre
    <2> QED
      BY <1>1, <1>2, <2>1, <2>2, <2>3, OwedDuringSale DEF cap
  <1>10. /\ quote_vault >= QuoteObligations
         /\ ~is_fixed_migration_quote_amount_enabled(config) =>
                quote_vault <= QuoteObligations + 0 /\ "partner" \notin W
         /\ DepositDust' = 0
    BY <1>1, <1>7 DEF QuoteBalanced, DepositDust
  <1> HIDE DEF W
  <1>11. CASE "partner" \in W
    BY <1>1, <1>2, <1>6, <1>8, <1>9, <1>10, <1>11 DEF QuoteBalanced
  <1>12. CASE "partner" \notin W
    BY <1>1, <1>2, <1>6, <1>8, <1>9, <1>10, <1>12 DEF QuoteBalanced
  <1> QED
    BY <1>11, <1>12

-----------------------------------------------------------------------------
(***************************************************************************)
(* Payouts.                                                                *)
(***************************************************************************)
OwedShares(c, q, W, Mf) ==
    OwedSurplus(c, q, W, "protocol") + OwedSurplus(c, q, W, "partner")
    + OwedSurplus(c, q, W, "creator") + OwedMigrationFee(c, q, Mf, "partner")
    + OwedMigrationFee(c, q, Mf, "creator")

\* The amounts owed are the unclaimed fees, the shares and the migration.
LEMMA OwedSum ==
    ASSUME NEW c \in Configs, NEW q \in Int, NEW W, NEW Mf, NEW progress, NEW fees \in Int
    PROVE  /\ OwedShares(c, q, W, Mf) \in Int
           /\ OwedMigration(c, q, progress) \in Int
           /\ Owed(c, q, W, Mf, progress, fees) =
                  fees + OwedShares(c, q, W, Mf) + OwedMigration(c, q, progress)
  <1>1. /\ OwedSurplus(c, q, W, "protocol") \in Int /\ OwedSurplus(c, q, W, "partner") \in Int
        /\ OwedSurplus(c, q, W, "creator") \in Int
        /\ OwedMigrationFee(c, q, Mf, "partner") \in Int
        /\ OwedMigrationFee(c, q, Mf, "creator") \in Int
        /\ OwedMigration(c, q, progress) \in Int
    BY OwedInt DEF Party
  <1> QED
    BY <1>1 DEF Owed, OwedShares

\* A share of the surplus is owed until it is drawn, and nothing of it after.
LEMMA SurplusDrawn ==
    ASSUME NEW c \in Configs, NEW q \in Int, NEW W, NEW Mf, NEW party \in Party,
           party \notin W, q >= get_migration_quote_amount_cap(c)
    PROVE  OwedShares(c, q, W \cup {party}, Mf) = OwedShares(c, q, W, Mf)
               - SurplusShare(c, party, q - get_migration_quote_amount_cap(c))
  <1> DEFINE V == W \cup {party}
  <1>1. /\ OwedSurplus(c, q, W, "protocol") \in Int /\ OwedSurplus(c, q, W, "partner") \in Int
        /\ OwedSurplus(c, q, W, "creator") \in Int
        /\ OwedMigrationFee(c, q, Mf, "partner") \in Int
        /\ OwedMigrationFee(c, q, Mf, "creator") \in Int
    BY OwedInt DEF Party
  <1>2. /\ OwedSurplus(c, q, V, party) = 0
        /\ SurplusShare(c, party, q - get_migration_quote_amount_cap(c)) =
               OwedSurplus(c, q, W, party)
        /\ \A p \in Party : p # party => OwedSurplus(c, q, V, p) = OwedSurplus(c, q, W, p)
    BY DEF OwedSurplus
  <1> HIDE DEF V
  <1>3. CASE party = "protocol"
    BY <1>1, <1>2, <1>3 DEF OwedShares, Party, V
  <1>4. CASE party = "partner"
    BY <1>1, <1>2, <1>4 DEF OwedShares, Party, V
  <1>5. CASE party = "creator"
    BY <1>1, <1>2, <1>5 DEF OwedShares, Party, V
  <1> QED
    BY <1>3, <1>4, <1>5 DEF Party

\* The same for a share of the migration fee.
LEMMA MigrationFeeDrawn ==
    ASSUME NEW c \in Configs, NEW q \in Int, NEW W, NEW Mf, NEW party \in Party,
           party # "protocol", party \notin Mf
    PROVE  OwedShares(c, q, W, Mf \cup {party}) = OwedShares(c, q, W, Mf)
               - MigrationFeeShare(c, party, MinOf(q, get_migration_quote_amount_cap(c)))
  <1> DEFINE V == Mf \cup {party}
  <1>1. /\ OwedSurplus(c, q, W, "protocol") \in Int /\ OwedSurplus(c, q, W, "partner") \in Int
        /\ OwedSurplus(c, q, W, "creator") \in Int
        /\ OwedMigrationFee(c, q, Mf, "partner") \in Int
        /\ OwedMigrationFee(c, q, Mf, "creator") \in Int
    BY OwedInt DEF Party
  <1>2. /\ OwedMigrationFee(c, q, V, party) = 0
        /\ MigrationFeeShare(c, party, MinOf(q, get_migration_quote_amount_cap(c))) =
               OwedMigrationFee(c, q, Mf, party)
        /\ \A p \in {"partner", "creator"} : p # party =>
               OwedMigrationFee(c, q, V, p) = OwedMigrationFee(c, q, Mf, p)
    BY DEF OwedMigrationFee
  <1> HIDE DEF V
  <1>3. CASE party = "partner"
    BY <1>1, <1>2, <1>3 DEF OwedShares, V
  <1>4. CASE party = "creator"
    BY <1>1, <1>2, <1>4 DEF OwedShares, V
  <1> QED
    BY <1>3, <1>4 DEF Party

\* A step that lowers the vault by what it lowers the fees and shares owed.
LEMMA PayoutKeepsBalance ==
    ASSUME TypeOK, TypeOK', QuoteBalanced,
           config' = config, quote_reserve' = quote_reserve,
           migration_progress' = migration_progress \/
               ("CreatedPool" \notin {migration_progress, migration_progress'}),
           NEW shares \in Int,
           OwedShares(config, quote_reserve, surplus_withdrawn', migration_fee_withdrawn') =
               OwedShares(config, quote_reserve, surplus_withdrawn, migration_fee_withdrawn)
                   - shares,
           quote_vault' = quote_vault - (UnclaimedQuote - UnclaimedQuote') - shares
    PROVE  QuoteBalanced'
  <1> DEFINE c == config
             q == quote_reserve
             S == OwedShares(c, q, surplus_withdrawn, migration_fee_withdrawn)
             g == OwedMigration(c, q, migration_progress)
  <1>1. c \in Configs /\ q \in Int /\ quote_vault \in Int /\ UnclaimedQuote \in Int
    BY StateInt
  <1>2. UnclaimedQuote' \in Int
    <2>1. /\ protocol_migration_quote_fee_amount' \in U64 /\ quote_fee'["protocol"] \in U64
          /\ quote_fee'["partner"] \in U64 /\ quote_fee'["creator"] \in U64
      BY DEF TypeOK, Party
    <2> QED
      BY <2>1, U64Props DEF UnclaimedQuote, TotalFee
  <1>3. S \in Int /\ g \in Int /\ QuoteObligations = UnclaimedQuote + S + g
    BY <1>1, ObligationsAre, OwedSum
  <1>4. OwedMigration(c, q, migration_progress') = g
    BY DEF OwedMigration
  <1>5. QuoteObligations' = UnclaimedQuote'
            + OwedShares(c, q, surplus_withdrawn', migration_fee_withdrawn')
            + OwedMigration(c, q, migration_progress')
    <2>1. QuoteObligations' = Owed(c, q, surplus_withdrawn', migration_fee_withdrawn',
                                   migration_progress', UnclaimedQuote')
      BY ObligationsAre
    <2> QED
      BY <1>1, <1>2, <2>1, OwedSum
  <1>6. QuoteObligations' = UnclaimedQuote' + (S - shares) + g
    BY <1>4, <1>5
  <1> HIDE DEF S, g
  <1>7. DepositDust \in Int /\ DepositDust' = DepositDust
    BY PoolAssumption DEF DepositDust, PoolAssumption
  <1>8. quote_vault >= QuoteObligations => quote_vault' >= QuoteObligations'
    <2>1. \A v, u, u2, s, t, d \in Int :
              v >= u + s + t => v - (u - u2) - d >= u2 + (s - d) + t
      OBVIOUS
    <2>2. quote_vault >= UnclaimedQuote + S + g =>
              quote_vault - (UnclaimedQuote - UnclaimedQuote') - shares
                  >= UnclaimedQuote' + (S - shares) + g
      BY <1>1, <1>2, <1>3, <2>1
    <2> QED
      BY <1>3, <1>6, <2>2
  <1>9. quote_vault <= QuoteObligations + DepositDust =>
            quote_vault' <= QuoteObligations' + DepositDust'
    <2>1. \A v, u, u2, s, t, d, e \in Int :
              v <= u + s + t + e => v - (u - u2) - d <= u2 + (s - d) + t + e
      OBVIOUS
    <2>2. quote_vault <= UnclaimedQuote + S + g + DepositDust =>
              quote_vault - (UnclaimedQuote - UnclaimedQuote') - shares
                  <= UnclaimedQuote' + (S - shares) + g + DepositDust
      BY <1>1, <1>2, <1>3, <1>7, <2>1
    <2> QED
      BY <1>3, <1>6, <1>7, <2>2
  <1> QED
    BY <1>8, <1>9 DEF QuoteBalanced

\* The protocol's claim: fees of both kinds, and its share of the surplus.
LEMMA ProtocolClaimKeepsBalance ==
    ASSUME TypeOK, TypeOK', QuoteBalanced, NEW max_amount \in U64,
           claim_protocol_quote_fee_and_surplus(max_amount),
           config' = config, quote_reserve' = quote_reserve,
           migration_progress' = migration_progress,
           migration_fee_withdrawn' = migration_fee_withdrawn
    PROVE  QuoteBalanced'
  <1> DEFINE tr == TradingPart(quote_fee, max_amount)
             mi == MigrationPart(quote_fee, protocol_migration_quote_fee_amount, max_amount)
             pays == /\ "protocol" \notin surplus_withdrawn
                     /\ ~is_fixed_migration_quote_amount_enabled(config)
                     /\ has_real_quote_surplus
             share == SurplusShare(config, "protocol", get_total_surplus)
             S == OwedShares(config, quote_reserve, surplus_withdrawn, migration_fee_withdrawn)
  <1>1. tr \in Int /\ mi \in Int
    BY ClaimParts DEF TypeOK
  <1>2. /\ config \in Configs /\ quote_reserve \in Int /\ quote_vault \in Int
        /\ UnclaimedQuote \in Int /\ get_migration_quote_amount_cap(config) \in Int
    BY StateInt
  <1>3. share \in Int /\ S \in Int
    <2>1. get_total_surplus \in Int
      BY <1>2 DEF get_total_surplus
    <2> QED
      BY <1>2, <2>1, SurplusShares, OwedSum
  <1>4. UnclaimedQuote' = UnclaimedQuote - (tr + mi)
    <2>1. /\ quote_fee["protocol"] \in Int /\ quote_fee["partner"] \in Int
          /\ quote_fee["creator"] \in Int /\ protocol_migration_quote_fee_amount \in Int
      BY U64Props DEF TypeOK, Party
    <2>2. /\ quote_fee'["protocol"] = quote_fee["protocol"] - tr
          /\ quote_fee'["partner"] = quote_fee["partner"]
          /\ quote_fee'["creator"] = quote_fee["creator"]
          /\ protocol_migration_quote_fee_amount' = protocol_migration_quote_fee_amount - mi
      BY DEF claim_protocol_quote_fee_and_surplus, TypeOK, Party
    <2> HIDE DEF tr, mi
    <2> QED
      BY <1>1, <2>1, <2>2 DEF UnclaimedQuote, TotalFee
  <1>5. CASE pays
    <2>1. /\ quote_vault' = quote_vault - (tr + mi + share)
          /\ surplus_withdrawn' = surplus_withdrawn \cup {"protocol"}
      BY <1>5 DEF claim_protocol_quote_fee_and_surplus
    <2>2. OwedShares(config, quote_reserve, surplus_withdrawn', migration_fee_withdrawn')
              = S - share
      <3>1. "protocol" \in Party /\ "protocol" \notin surplus_withdrawn
            /\ quote_reserve >= get_migration_quote_amount_cap(config)
        BY <1>5 DEF Party, has_real_quote_surplus
      <3> QED
        BY <1>2, <2>1, <3>1, SurplusDrawn DEF get_total_surplus
    <2> HIDE DEF tr, mi, share, pays
    <2>3. quote_vault' = quote_vault - (UnclaimedQuote - UnclaimedQuote') - share
      BY <1>1, <1>2, <1>3, <1>4, <2>1
    <2> QED
      BY <1>3, <2>2, <2>3, PayoutKeepsBalance
  <1>6. CASE ~pays
    <2>1. /\ quote_vault' = quote_vault - (tr + mi + 0)
          /\ surplus_withdrawn' = surplus_withdrawn
      BY <1>6 DEF claim_protocol_quote_fee_and_surplus
    <2>2. OwedShares(config, quote_reserve, surplus_withdrawn', migration_fee_withdrawn')
              = S - 0
      BY <1>3, <2>1
    <2> HIDE DEF tr, mi, share, pays
    <2>3. quote_vault' = quote_vault - (UnclaimedQuote - UnclaimedQuote') - 0
      BY <1>1, <1>2, <1>4, <2>1
    <2> QED
      BY <2>2, <2>3, PayoutKeepsBalance
  <1> QED
    BY <1>5, <1>6

\* The partner's and the creator's withdrawal of the surplus.
LEMMA SurplusKeepsBalance ==
    ASSUME TypeOK, TypeOK', QuoteBalanced, NEW party \in {"partner", "creator"},
           WithdrawSurplus(party)
    PROVE  QuoteBalanced'
  <1> DEFINE share == SurplusShare(config, party, get_total_surplus)
  <1>1. /\ config \in Configs /\ quote_reserve \in Int /\ quote_vault \in Int
        /\ UnclaimedQuote \in Int /\ get_migration_quote_amount_cap(config) \in Int
    BY StateInt
  <1>2. share \in Int
    <2>1. get_total_surplus \in Int
      BY <1>1 DEF get_total_surplus
    <2> QED
      BY <1>1, <2>1, SurplusShares
  <1>3. /\ has_real_quote_surplus /\ party \notin surplus_withdrawn
        /\ surplus_withdrawn' = surplus_withdrawn \cup {party}
        /\ quote_vault' = quote_vault - share
        /\ config' = config /\ quote_reserve' = quote_reserve
        /\ migration_progress' = migration_progress
        /\ migration_fee_withdrawn' = migration_fee_withdrawn
        /\ UNCHANGED <<quote_fee, protocol_migration_quote_fee_amount>>
    BY DEF WithdrawSurplus, SurplusEligible, configVars, saleVars, statusVars, migFeeVars
  <1>4. OwedShares(config, quote_reserve, surplus_withdrawn', migration_fee_withdrawn') =
        OwedShares(config, quote_reserve, surplus_withdrawn, migration_fee_withdrawn) - share
    <2>1. party \in Party /\ quote_reserve >= get_migration_quote_amount_cap(config)
      BY <1>3 DEF Party, has_real_quote_surplus
    <2> QED
      BY <1>1, <1>3, <2>1, SurplusDrawn DEF get_total_surplus
  <1>5. quote_vault' = quote_vault - (UnclaimedQuote - UnclaimedQuote') - share
    <2>1. UnclaimedQuote' = UnclaimedQuote
      BY <1>3 DEF UnclaimedQuote, TotalFee
    <2> HIDE DEF share
    <2> QED
      BY <1>1, <1>2, <1>3, <2>1
  <1> HIDE DEF share
  <1> QED
    BY <1>2, <1>3, <1>4, <1>5, PayoutKeepsBalance

\* The withdrawal of a share of the migration fee.
LEMMA MigrationFeeKeepsBalance ==
    ASSUME TypeOK, TypeOK', QuoteBalanced, NEW party \in {"partner", "creator"},
           WithdrawMigrationFee(party)
    PROVE  QuoteBalanced'
  <1> DEFINE t == MinOf(quote_reserve, get_migration_quote_amount_cap(config))
             share == MigrationFeeShare(config, party, t)
  <1>1. /\ config \in Configs /\ quote_reserve \in Int /\ quote_vault \in Int
        /\ UnclaimedQuote \in Int /\ get_migration_quote_amount_cap(config) \in Int
    BY StateInt
  <1>2. share \in Int
    <2>1. t \in Int
      BY <1>1, MinOfProps
    <2> HIDE DEF t
    <2> QED
      BY <1>1, <2>1, MigrationFeeShares
  <1>3. /\ party \notin migration_fee_withdrawn
        /\ migration_fee_withdrawn' = migration_fee_withdrawn \cup {party}
        /\ quote_vault' = quote_vault - share
        /\ config' = config /\ quote_reserve' = quote_reserve
        /\ migration_progress' = migration_progress
        /\ surplus_withdrawn' = surplus_withdrawn
        /\ UNCHANGED <<quote_fee, protocol_migration_quote_fee_amount>>
    BY DEF WithdrawMigrationFee, configVars, saleVars, statusVars, migFeeVars,
        effective_migration_quote_threshold
  <1>4. OwedShares(config, quote_reserve, surplus_withdrawn', migration_fee_withdrawn') =
        OwedShares(config, quote_reserve, surplus_withdrawn, migration_fee_withdrawn) - share
    <2>1. party \in Party /\ party # "protocol"
      BY DEF Party
    <2> QED
      BY <1>1, <1>3, <2>1, MigrationFeeDrawn
  <1>5. quote_vault' = quote_vault - (UnclaimedQuote - UnclaimedQuote') - share
    <2>1. UnclaimedQuote' = UnclaimedQuote
      BY <1>3 DEF UnclaimedQuote, TotalFee
    <2> HIDE DEF share
    <2> QED
      BY <1>1, <1>2, <1>3, <2>1
  <1> HIDE DEF share
  <1> QED
    BY <1>2, <1>3, <1>4, <1>5, PayoutKeepsBalance

\* A party's claim of its trading fees.
LEMMA TradingClaimKeepsBalance ==
    ASSUME TypeOK, TypeOK', QuoteBalanced, NEW party \in {"partner", "creator"},
           NEW x \in U64, NEW y \in U64, ClaimTradingFee(party, x, y)
    PROVE  QuoteBalanced'
  <1> DEFINE a == MinOf(quote_fee[party], y)
             S == OwedShares(config, quote_reserve, surplus_withdrawn, migration_fee_withdrawn)
  <1>1. /\ config \in Configs /\ quote_reserve \in Int /\ quote_vault \in Int
        /\ UnclaimedQuote \in Int
    BY StateInt
  <1>2. /\ quote_fee' = [quote_fee EXCEPT ![party] = @ - a]
        /\ quote_vault' = quote_vault - a
        /\ config' = config /\ quote_reserve' = quote_reserve
        /\ migration_progress' = migration_progress
        /\ surplus_withdrawn' = surplus_withdrawn
        /\ migration_fee_withdrawn' = migration_fee_withdrawn
        /\ protocol_migration_quote_fee_amount' = protocol_migration_quote_fee_amount
    BY DEF ClaimTradingFee, configVars, saleVars, statusVars, migFeeVars, withdrawVars
  <1>3. /\ quote_fee["protocol"] \in Int /\ quote_fee["partner"] \in Int
        /\ quote_fee["creator"] \in Int /\ protocol_migration_quote_fee_amount \in Int
        /\ y \in Int
    BY U64Props DEF TypeOK, Party
  <1>4. a \in Int
    <2>1. quote_fee[party] \in Int
      BY <1>3
    <2> QED
      BY <1>3, <2>1, MinOfProps
  <1> HIDE DEF a
  <1>5. UnclaimedQuote' = UnclaimedQuote - a
    <2>1. CASE party = "partner"
      <3>1. /\ quote_fee'["protocol"] = quote_fee["protocol"]
            /\ quote_fee'["partner"] = quote_fee["partner"] - a
            /\ quote_fee'["creator"] = quote_fee["creator"]
        BY <1>2, <2>1 DEF TypeOK, Party
      <3> QED
        BY <1>2, <1>3, <1>4, <3>1 DEF UnclaimedQuote, TotalFee
    <2>2. CASE party = "creator"
      <3>1. /\ quote_fee'["protocol"] = quote_fee["protocol"]
            /\ quote_fee'["partner"] = quote_fee["partner"]
            /\ quote_fee'["creator"] = quote_fee["creator"] - a
        BY <1>2, <2>2 DEF TypeOK, Party
      <3> QED
        BY <1>2, <1>3, <1>4, <3>1 DEF UnclaimedQuote, TotalFee
    <2> QED
      BY <2>1, <2>2
  <1>6. OwedShares(config, quote_reserve, surplus_withdrawn', migration_fee_withdrawn') = S - 0
    <2>1. S \in Int
      BY <1>1, OwedSum
    <2> QED
      BY <1>2, <2>1
  <1>7. quote_vault' = quote_vault - (UnclaimedQuote - UnclaimedQuote') - 0
    BY <1>1, <1>2, <1>4, <1>5
  <1> QED
    BY <1>2, <1>6, <1>7, PayoutKeepsBalance

\* Steps that touch neither the quote vault nor what it owes.
LEMMA QuoteNeutral ==
    ASSUME TypeOK, TypeOK', QuoteBalanced,
           config' = config, quote_reserve' = quote_reserve, quote_vault' = quote_vault,
           quote_fee' = quote_fee, surplus_withdrawn' = surplus_withdrawn,
           migration_fee_withdrawn' = migration_fee_withdrawn,
           protocol_migration_quote_fee_amount' = protocol_migration_quote_fee_amount,
           migration_progress' = migration_progress \/
               ("CreatedPool" \notin {migration_progress, migration_progress'})
    PROVE  QuoteBalanced'
  <1> DEFINE S == OwedShares(config, quote_reserve, surplus_withdrawn, migration_fee_withdrawn)
  <1>1. /\ config \in Configs /\ quote_reserve \in Int /\ quote_vault \in Int
        /\ UnclaimedQuote \in Int
    BY StateInt
  <1>2. S \in Int
    BY <1>1, OwedSum
  <1>3. UnclaimedQuote' = UnclaimedQuote
    BY DEF UnclaimedQuote, TotalFee
  <1>4. quote_vault' = quote_vault - (UnclaimedQuote - UnclaimedQuote') - 0
    BY <1>1, <1>3
  <1>5. OwedShares(config, quote_reserve, surplus_withdrawn', migration_fee_withdrawn') = S - 0
    BY <1>2
  <1> QED
    BY <1>4, <1>5, PayoutKeepsBalance

\* A migration deposits what was owed to it, less the protocol's fee and dust.
LEMMA MigrateKeepsBalance ==
    ASSUME TypeOK, TypeOK', Staged, QuoteBalanced, NEW bd \in 0..MaxDust, NEW qd \in 0..MaxDust,
           Migrate(bd, qd)
    PROVE  QuoteBalanced'
  <1> DEFINE c == config
             q == quote_reserve
             F == TotalFee(quote_fee)
             S == OwedShares(c, q, surplus_withdrawn, migration_fee_withdrawn)
  <1>1. /\ c \in Configs /\ q \in Int /\ quote_vault \in Int /\ F \in Int
        /\ UnclaimedQuote \in Int /\ protocol_migration_quote_fee_amount \in Int
        /\ 0 <= protocol_migration_quote_fee_amount
    BY StateInt
  <1>2. /\ config' = config /\ quote_reserve' = quote_reserve /\ quote_fee' = quote_fee
        /\ protocol_migration_quote_fee_amount = 0
        /\ surplus_withdrawn' = surplus_withdrawn
        /\ migration_fee_withdrawn' = migration_fee_withdrawn
        /\ migration_progress' = "CreatedPool" /\ migration_progress # "CreatedPool"
        /\ quote_vault' =
               quote_vault - (MigrationQuote - protocol_migration_quote_fee_amount' - qd)
        /\ protocol_migration_quote_fee_amount' \in U64
    BY DEF Migrate, MigrateAfterDeadline, configVars, saleVars, withdrawVars, Staged
  <1>3. protocol_migration_quote_fee_amount' \in Int /\ qd \in Int /\ 0 <= qd
        /\ qd <= MaxDust /\ MaxDust \in Int
    BY <1>2, U64Props, PoolAssumption DEF PoolAssumption
  <1>4. /\ S \in Int /\ MigrationQuote \in Int
        /\ QuoteObligations = UnclaimedQuote + S + MigrationQuote
    <2>1. OwedMigration(c, q, migration_progress) = MigrationQuote
      BY <1>2 DEF OwedMigration, MigrationQuote, effective_migration_quote_threshold
    <2> QED
      BY <1>1, <2>1, ObligationsAre, OwedSum
  <1>5. UnclaimedQuote = F + protocol_migration_quote_fee_amount
        /\ UnclaimedQuote' = F + protocol_migration_quote_fee_amount'
    BY <1>2 DEF UnclaimedQuote, TotalFee
  <1>6. QuoteObligations' = UnclaimedQuote' + S + 0
    <2>1. OwedMigration(c, q, migration_progress') = 0
      BY <1>2 DEF OwedMigration
    <2>2. UnclaimedQuote' \in Int
      BY <1>1, <1>3, <1>5
    <2>3. QuoteObligations' = Owed(c, q, surplus_withdrawn, migration_fee_withdrawn,
                                   migration_progress', UnclaimedQuote')
      BY <1>2, ObligationsAre
    <2> QED
      BY <1>1, <2>1, <2>2, <2>3, OwedSum
  <1>7. /\ quote_vault >= QuoteObligations
        /\ ~is_fixed_migration_quote_amount_enabled(config) =>
               quote_vault <= QuoteObligations + 0
    BY <1>2 DEF QuoteBalanced, DepositDust
  <1> HIDE DEF S, F
  <1>8. QuoteObligations = (F + 0) + S + MigrationQuote
    BY <1>2, <1>4, <1>5
  <1>9. quote_vault' >= QuoteObligations'
    <2>1. \A v, f, p2, s, g, d \in Int :
              v >= (f + 0) + s + g /\ 0 <= d => v - (g - p2 - d) >= (f + p2) + s + 0
      OBVIOUS
    <2>2. quote_vault - (MigrationQuote - protocol_migration_quote_fee_amount' - qd)
              >= (F + protocol_migration_quote_fee_amount') + S + 0
      BY <1>1, <1>3, <1>4, <1>7, <1>8, <2>1
    <2> QED
      BY <1>2, <1>5, <1>6, <2>2
  <1>10. ASSUME ~is_fixed_migration_quote_amount_enabled(config)
         PROVE  quote_vault' <= QuoteObligations' + MaxDust
    <2>1. \A v, f, p2, s, g, d, e \in Int :
              v <= (f + 0) + s + g + 0 /\ d <= e => v - (g - p2 - d) <= (f + p2) + s + 0 + e
      OBVIOUS
    <2>2. quote_vault - (MigrationQuote - protocol_migration_quote_fee_amount' - qd)
              <= (F + protocol_migration_quote_fee_amount') + S + 0 + MaxDust
      BY <1>1, <1>3, <1>4, <1>7, <1>8, <1>10, <2>1
    <2> QED
      BY <1>2, <1>5, <1>6, <2>2
  <1> QED
    BY <1>2, <1>9, <1>10 DEF QuoteBalanced, DepositDust

-----------------------------------------------------------------------------
(***************************************************************************)
(* Solvency.                                                               *)
(***************************************************************************)

\* No step leaves the vault short or strands what it takes in.
LEMMA BalancedStep ==
    TypeOK /\ TypeOK' /\ PayoutsFollowSale /\ Staged /\ QuoteBalanced /\ [Next]_vars
        => QuoteBalanced'
  <1> SUFFICES ASSUME TypeOK, TypeOK', PayoutsFollowSale, Staged, QuoteBalanced, [Next]_vars
               PROVE  QuoteBalanced'
    OBVIOUS
  <1> USE DEF configVars, saleVars, migFeeVars, withdrawVars, statusVars
  <1>caps. ClaimCaps \subseteq U64 /\ BuyAmounts \subseteq U64 /\ OutAmounts \subseteq U64
    BY PoolAssumption DEF PoolAssumption
  <1>1. CASE Trade
    BY <1>1, <1>caps, SwapKeepsBalance DEF Trade, Swap, VirtualSwap
  <1>2. ASSUME NEW a \in ClaimCaps, NEW b \in ClaimCaps, ClaimProtocolFee(a, b)
        PROVE  QuoteBalanced'
    BY <1>2, <1>caps, ProtocolClaimKeepsBalance DEF ClaimProtocolFee
  <1>3. ASSUME NEW is_base \in BOOLEAN, NEW a \in ClaimCaps,
               ClaimProtocolFee2(is_base, a) \/ ZapProtocolFee(is_base, a)
        PROVE  QuoteBalanced'
    <2>1. CASE is_base
      BY <1>3, <2>1, QuoteNeutral DEF ClaimProtocolFee2, ZapProtocolFee
    <2>2. CASE ~is_base
      BY <1>3, <2>2, <1>caps, ProtocolClaimKeepsBalance DEF ClaimProtocolFee2, ZapProtocolFee
    <2> QED
      BY <2>1, <2>2
  <1>4. ASSUME NEW party \in {"partner", "creator"}, NEW a \in ClaimCaps,
               NEW b \in ClaimCaps, ClaimTradingFee(party, a, b)
        PROVE  QuoteBalanced'
    BY <1>4, <1>caps, TradingClaimKeepsBalance
  <1>5. CASE PartnerWithdrawSurplus \/ CreatorWithdrawSurplus
    BY <1>5, SurplusKeepsBalance DEF PartnerWithdrawSurplus, CreatorWithdrawSurplus
  <1>6. ASSUME NEW party \in {"partner", "creator"}, WithdrawMigrationFee(party)
        PROVE  QuoteBalanced'
    BY <1>6, MigrationFeeKeepsBalance
  <1>7. CASE WithdrawLeftover
    BY <1>7, QuoteNeutral DEF WithdrawLeftover
  <1>8. CASE CreateLocker
    BY <1>8, QuoteNeutral DEF CreateLocker, CreateLockerAfterDeadline
  <1>9. CASE CreatePool
    <2>1. PICK bd \in 0..MaxDust, qd \in 0..MaxDust : Migrate(bd, qd)
      <3>1. 0 \in 0..MaxDust
        BY PoolAssumption DEF PoolAssumption
      <3> QED
        BY <1>9, <3>1 DEF CreatePool, MigrateMeteoraDamm, MigrateDammV2
    <2> QED
      BY <2>1, MigrateKeepsBalance
  <1>10. CASE Tick
    BY <1>10, QuoteNeutral DEF Tick
  <1>11. CASE UNCHANGED vars
    BY <1>11, QuoteNeutral DEF vars
  <1> QED
    BY <1>1, <1>2, <1>3, <1>4, <1>5, <1>6, <1>7, <1>8, <1>9, <1>10, <1>11 DEF Next, Claim

\* A new pool owes nothing.
LEMMA BalancedInit == Init => QuoteBalanced
  <1> SUFFICES ASSUME Init PROVE QuoteBalanced
    OBVIOUS
  <1>1. config \in Configs /\ quote_reserve = 0 /\ quote_vault = 0 /\ surplus_withdrawn = {}
        /\ migration_fee_withdrawn = {} /\ migration_progress # "CreatedPool"
        /\ UnclaimedQuote = 0
    BY DEF Init, UnclaimedQuote, TotalFee, Party
  <1>2. Owed(config, 0, {}, {}, migration_progress, 0) =
            0 + (IF "partner" \in {} THEN get_migration_quote_amount_cap(config) ELSE 0)
    BY <1>1, OwedDuringSale
  <1>3. QuoteObligations = 0
    BY <1>1, <1>2, ObligationsAre
  <1> QED
    BY <1>1, <1>3 DEF QuoteBalanced, DepositDust

\* Hence the vault is always balanced.
LEMMA BalancedAlways == Spec => []QuoteBalanced
  BY BalancedInit, BalancedStep, TypeCorrect, PayoutsInOrder, StagedAlways, PTL DEF Spec

\* The solvency of the quote vault: whatever the configuration, the order of
\* swaps, claims, withdrawals and migration, and the amounts, it holds at
\* least what the parties and the migration may still take from it.
THEOREM QuoteSolvency == Spec => []QuoteSolvent
  <1>1. QuoteBalanced => QuoteSolvent
    BY DEF QuoteBalanced, QuoteSolvent
  <1> QED
    BY <1>1, BalancedAlways, PTL

\* And nothing of it is out of reach: while no fixed cap is set the vault holds
\* at most what the parties may withdraw and the dust of a DAMM v2 deposit.
THEOREM NothingStranded == Spec => []NoStrandedQuote
  <1>1. TypeOK /\ QuoteBalanced => NoStrandedQuote
    <2> SUFFICES ASSUME TypeOK, QuoteBalanced, ~is_fixed_migration_quote_amount_enabled(config)
                 PROVE  quote_vault <= QuoteObligations + MaxDust
      BY DEF NoStrandedQuote
    <2>1. quote_vault \in Int /\ QuoteObligations \in Int
      <3>1. config \in Configs /\ quote_reserve \in Int /\ UnclaimedQuote \in Int
            /\ quote_vault \in Int
        BY StateInt
      <3> QED
        BY <3>1, ObligationsAre, OwedSum
    <2>2. quote_vault <= QuoteObligations + DepositDust
      BY DEF QuoteBalanced
    <2>3. MaxDust \in Nat /\ DepositDust \in {0, MaxDust}
      BY PoolAssumption DEF PoolAssumption, DepositDust
    <2> QED
      BY <2>1, <2>2, <2>3
  <1> QED
    BY <1>1, TypeCorrect, BalancedAlways, PTL

-----------------------------------------------------------------------------
(***************************************************************************)
(* The base vault.                                                         *)
(***************************************************************************)

BaseFees == TotalFee(base_fee) + protocol_migration_base_fee_amount

\* Integers the steps below compute with.
LEMMA BaseInt ==
    ASSUME TypeOK
    PROVE  /\ base_vault \in Int /\ base_reserve \in Int /\ config.vesting_amount \in Int
           /\ 0 <= config.vesting_amount
           /\ TotalFee(base_fee) \in Int /\ protocol_migration_base_fee_amount \in Int
           /\ BaseFees \in Int
  <1>1. /\ base_vault \in U64 /\ base_reserve \in U64 /\ config.vesting_amount \in U64
        /\ base_fee["protocol"] \in U64 /\ base_fee["partner"] \in U64
        /\ base_fee["creator"] \in U64 /\ protocol_migration_base_fee_amount \in U64
    BY ConfigFields DEF TypeOK, Party
  <1> QED
    BY <1>1, U64Props DEF TotalFee, BaseFees

\* A claim pays exactly what it takes off the unclaimed fees.
LEMMA BaseClaim ==
    ASSUME TypeOK, BaseSolvent, UNCHANGED <<config, base_reserve, migration_progress>>,
           NEW paid \in Int, base_vault' = base_vault - paid, BaseFees' = BaseFees - paid
    PROVE  BaseSolvent'
  <1>1. /\ base_vault \in Int /\ base_reserve \in Int /\ config.vesting_amount \in Int
        /\ BaseFees \in Int
    BY BaseInt
  <1>2. migration_progress \in MigrationProgress
    BY DEF TypeOK
  <1>3. CASE migration_progress \in {"PreBondingCurve", "PostBondingCurve"}
    <2>1. base_vault = base_reserve + BaseFees
      BY <1>3 DEF BaseSolvent, BaseFees
    <2>2. base_vault' = base_reserve' + BaseFees'
      BY <1>1, <2>1
    <2> QED
      BY <1>3, <2>2 DEF BaseSolvent, BaseFees
  <1>4. CASE migration_progress = "LockedVesting"
    <2>1. base_vault = base_reserve - config.vesting_amount + BaseFees
      BY <1>4 DEF BaseSolvent, BaseFees
    <2>2. base_vault' = base_reserve' - config'.vesting_amount + BaseFees'
      BY <1>1, <2>1
    <2> QED
      BY <1>4, <2>2 DEF BaseSolvent, BaseFees
  <1>5. CASE migration_progress = "CreatedPool"
    BY <1>1, <1>5 DEF BaseSolvent, BaseFees
  <1> QED
    BY <1>2, <1>3, <1>4, <1>5 DEF MigrationProgress

\* The protocol's claim is such a claim.
LEMMA ProtocolClaimPays ==
    ASSUME TypeOK, NEW a \in U64, claim_protocol_base_fee(a)
    PROVE  \E paid \in Int : base_vault' = base_vault - paid /\ BaseFees' = BaseFees - paid
  <1> DEFINE tr == TradingPart(base_fee, a)
             mi == MigrationPart(base_fee, protocol_migration_base_fee_amount, a)
  <1>1. tr \in Int /\ mi \in Int
    BY ClaimParts DEF TypeOK
  <1>2. /\ base_fee'["protocol"] = base_fee["protocol"] - tr
        /\ base_fee'["partner"] = base_fee["partner"]
        /\ base_fee'["creator"] = base_fee["creator"]
        /\ protocol_migration_base_fee_amount' = protocol_migration_base_fee_amount - mi
        /\ base_vault' = base_vault - (tr + mi)
    BY DEF claim_protocol_base_fee, TypeOK, Party
  <1>3. /\ base_fee["protocol"] \in Int /\ base_fee["partner"] \in Int
        /\ base_fee["creator"] \in Int /\ protocol_migration_base_fee_amount \in Int
    BY U64Props DEF TypeOK, Party
  <1> HIDE DEF tr, mi
  <1>4. BaseFees' = BaseFees - (tr + mi) /\ tr + mi \in Int
    BY <1>1, <1>2, <1>3 DEF BaseFees, TotalFee
  <1> QED
    BY <1>2, <1>4

\* Hence it leaves the base vault solvent.
LEMMA BaseProtocolClaim ==
    ASSUME TypeOK, BaseSolvent, NEW a \in U64, claim_protocol_base_fee(a),
           UNCHANGED <<config, base_reserve, migration_progress>>
    PROVE  BaseSolvent'
  BY ProtocolClaimPays, BaseClaim

\* The claim of a trading party, too.
LEMMA TradingClaimPays ==
    ASSUME TypeOK, NEW party \in {"partner", "creator"},
           NEW x \in U64, NEW y \in U64, ClaimTradingFee(party, x, y)
    PROVE  \E paid \in Int : base_vault' = base_vault - paid /\ BaseFees' = BaseFees - paid
  <1> DEFINE a == MinOf(base_fee[party], x)
  <1>1. /\ base_fee["protocol"] \in Int /\ base_fee["partner"] \in Int
        /\ base_fee["creator"] \in Int /\ protocol_migration_base_fee_amount \in Int
        /\ x \in Int
    BY U64Props DEF TypeOK, Party
  <1>2. a \in Int
    <2>1. base_fee[party] \in Int
      BY <1>1
    <2> QED
      BY <1>1, <2>1, MinOfProps
  <1>3. /\ base_fee' = [base_fee EXCEPT ![party] = @ - a]
        /\ base_vault' = base_vault - a
        /\ UNCHANGED <<config, base_reserve, migration_progress>>
        /\ protocol_migration_base_fee_amount' = protocol_migration_base_fee_amount
    BY DEF ClaimTradingFee, configVars, saleVars, statusVars, migFeeVars
  <1> HIDE DEF a
  <1>4. BaseFees' = BaseFees - a
    <2>1. CASE party = "partner"
      <3>1. /\ base_fee'["protocol"] = base_fee["protocol"]
            /\ base_fee'["partner"] = base_fee["partner"] - a
            /\ base_fee'["creator"] = base_fee["creator"]
        BY <1>3, <2>1 DEF TypeOK, Party
      <3> QED
        BY <1>1, <1>2, <1>3, <3>1 DEF BaseFees, TotalFee
    <2>2. CASE party = "creator"
      <3>1. /\ base_fee'["protocol"] = base_fee["protocol"]
            /\ base_fee'["partner"] = base_fee["partner"]
            /\ base_fee'["creator"] = base_fee["creator"] - a
        BY <1>3, <2>2 DEF TypeOK, Party
      <3> QED
        BY <1>1, <1>2, <1>3, <3>1 DEF BaseFees, TotalFee
    <2> QED
      BY <2>1, <2>2
  <1> QED
    BY <1>2, <1>3, <1>4

\* Hence it leaves the base vault solvent.
LEMMA BaseTradingClaim ==
    ASSUME TypeOK, BaseSolvent, NEW party \in {"partner", "creator"},
           NEW x \in U64, NEW y \in U64, ClaimTradingFee(party, x, y)
    PROVE  BaseSolvent'
  BY TradingClaimPays, BaseClaim DEF ClaimTradingFee, configVars, saleVars, statusVars

\* A swap takes off the reserve what leaves the vault and what becomes fees.
LEMMA BaseSwap ==
    ASSUME TypeOK, Staged, BaseSolvent, NEW r, NEW is_virtual \in BOOLEAN,
           process_swap(r, is_virtual)
    PROVE  BaseSolvent'
  <1> DEFINE V == config.vesting_amount
  <1>1. /\ base_vault \in Int /\ base_reserve \in Int /\ V \in Int /\ 0 <= V
        /\ TotalFee(base_fee) \in Int /\ protocol_migration_base_fee_amount \in Int
    BY BaseInt
  <1>2. /\ migration_progress = "PreBondingCurve" /\ config' = config
        /\ protocol_migration_base_fee_amount' = protocol_migration_base_fee_amount
        /\ \/ migration_progress' = migration_progress
           \/ migration_progress' = IF V > 0 THEN "PostBondingCurve" ELSE "LockedVesting"
    BY SwapStage DEF configVars, statusVars, migFeeVars, has_vesting
  <1>3. base_vault = base_reserve + TotalFee(base_fee) + protocol_migration_base_fee_amount
    <2>1. base_vault = base_reserve + (TotalFee(base_fee) + protocol_migration_base_fee_amount)
      BY <1>2 DEF BaseSolvent
    <2> QED
      BY <1>1, <2>1
  <1>4. /\ apply_swap_result(r, is_virtual) /\ SwapTransfers(r, is_virtual)
        /\ r.output_amount \in Int /\ r.fee.trading \in Int /\ r.fee.protocol \in Int
        /\ r.fee.referral \in Int
    BY U64Props DEF process_swap
  <1>5. base_vault' = base_reserve' + (TotalFee(base_fee') + protocol_migration_base_fee_amount)
    <2>1. CASE fees_on_base_token
      <3>1. /\ base_reserve' = base_reserve -
                   (r.output_amount + r.fee.trading + r.fee.protocol + r.fee.referral)
            /\ base_fee' = AddFee(base_fee, r.fee)
            /\ base_vault' = base_vault - r.output_amount - r.fee.referral
        BY <1>4, <2>1 DEF apply_swap_result, SwapTransfers
      <3>2. TotalFee(base_fee') = TotalFee(base_fee) + r.fee.trading + r.fee.protocol
        BY <1>4, <3>1, AddFeeTotal DEF TypeOK
      <3> QED
        BY <1>1, <1>3, <1>4, <3>1, <3>2
    <2>2. CASE ~fees_on_base_token
      <3>1. /\ base_reserve' = base_reserve - r.output_amount /\ base_fee' = base_fee
            /\ base_vault' = base_vault - r.output_amount - 0
        BY <1>4, <2>2 DEF apply_swap_result, SwapTransfers
      <3> QED
        BY <1>1, <1>3, <1>4, <3>1
    <2> QED
      BY <2>1, <2>2
  <1>6. TotalFee(base_fee)' = TotalFee(base_fee')
    BY DEF TotalFee
  <1>7. CASE migration_progress' \in {"PreBondingCurve", "PostBondingCurve"}
    BY <1>2, <1>5, <1>6, <1>7 DEF BaseSolvent
  <1>8. CASE migration_progress' = "LockedVesting"
    <2>1. V = 0
      BY <1>1, <1>2, <1>8
    <2>2. base_reserve' - config.vesting_amount = base_reserve'
      <3>1. base_reserve' \in Int
        BY U64Props DEF process_swap
      <3>2. \A x, y \in Int : y = 0 => x - y = x
        OBVIOUS
      <3> QED
        BY <1>1, <2>1, <3>1, <3>2
    <2> QED
      BY <1>2, <1>5, <1>6, <1>8, <2>2 DEF BaseSolvent
  <1> QED
    BY <1>2, <1>7, <1>8

\* The locker takes the vested amount.
LEMMA BaseLocker ==
    ASSUME TypeOK, BaseSolvent, CreateLocker
    PROVE  BaseSolvent'
  <1>1. /\ base_vault \in Int /\ base_reserve \in Int /\ config.vesting_amount \in Int
        /\ TotalFee(base_fee) \in Int /\ protocol_migration_base_fee_amount \in Int
    BY BaseInt
  <1>2. /\ migration_progress \in {"PreBondingCurve", "PostBondingCurve"}
        /\ migration_progress' = "LockedVesting"
        /\ UNCHANGED <<config, base_reserve, base_fee, protocol_migration_base_fee_amount>>
        /\ base_vault' = base_vault - config.vesting_amount
    BY DEF CreateLocker, CreateLockerAfterDeadline, configVars, saleVars, migFeeVars
  <1>3. base_vault = base_reserve + (TotalFee(base_fee) + protocol_migration_base_fee_amount)
    BY <1>2 DEF BaseSolvent
  <1>4. TotalFee(base_fee)' = TotalFee(base_fee)
    BY <1>2 DEF TotalFee
  <1> HIDE DEF TotalFee
  <1> QED
    BY <1>1, <1>2, <1>3, <1>4 DEF BaseSolvent

\* The migration burns at most what is left above the fees.
LEMMA BaseMigrate ==
    ASSUME TypeOK, NEW bd \in 0..MaxDust, NEW qd \in 0..MaxDust, Migrate(bd, qd)
    PROVE  BaseSolvent'
  <1>1. TotalFee(base_fee) \in Int
    BY BaseInt
  <1>2. PICK after \in Int, left \in U64 :
            /\ left = after - (TotalFee(base_fee) + protocol_migration_base_fee_amount')
            /\ base_vault' = after - get_burnable_amount_post_migration(config, left)
    <2> DEFINE offered == MigrationBase - protocol_migration_base_fee_amount'
               after == base_vault - (offered - bd)
    <2>1. offered \in U64 /\ base_vault \in U64 /\ bd \in Int
      BY PoolAssumption DEF Migrate, TypeOK, PoolAssumption
    <2>2. after \in Int
      <3> HIDE DEF offered
      <3> QED
        BY <2>1, U64Props
    <2>3. /\ after - (TotalFee(base_fee) + protocol_migration_base_fee_amount') \in U64
          /\ base_vault' = after - get_burnable_amount_post_migration(config,
                 after - (TotalFee(base_fee) + protocol_migration_base_fee_amount'))
      BY DEF Migrate, get_protocol_and_trading_base_fee
    <2> HIDE DEF after
    <2> QED
      BY <2>2, <2>3
  <1>3. left \in Int /\ protocol_migration_base_fee_amount' \in Int
    BY <1>2, U64Props DEF Migrate
  <1>4. /\ get_burnable_amount_post_migration(config, left) \in Int
        /\ get_burnable_amount_post_migration(config, left) <= left
    <2>1. config.pre_migration_token_supply \in Int /\ config.post_migration_token_supply \in Int
      <3>1. config \in ConfigType
        BY PoolAssumption DEF TypeOK, PoolAssumption
      <3> QED
        BY <3>1, U64Props DEF ConfigType
    <2>2. config.pre_migration_token_supply - config.post_migration_token_supply \in Int
      BY <2>1
    <2> QED
      BY <1>3, <2>2, MinOfProps DEF get_burnable_amount_post_migration
  <1>5. migration_progress' = "CreatedPool" /\ TotalFee(base_fee)' = TotalFee(base_fee)
    BY DEF Migrate, TotalFee
  <1>6. base_vault' >= TotalFee(base_fee) + protocol_migration_base_fee_amount'
    <2> DEFINE burnt == get_burnable_amount_post_migration(config, left)
               fees == TotalFee(base_fee) + protocol_migration_base_fee_amount'
    <2>1. fees \in Int
      BY <1>1, <1>3
    <2>2. burnt \in Int /\ burnt <= left /\ left = after - fees /\ base_vault' = after - burnt
      BY <1>2, <1>4
    <2> HIDE DEF burnt, fees
    <2>3. base_vault' >= fees
      BY <1>2, <2>1, <2>2
    <2> QED
      BY <2>3 DEF fees
  <1> QED
    BY <1>5, <1>6 DEF BaseSolvent

\* Steps that touch neither the base vault nor what it holds.
LEMMA BaseNeutral ==
    ASSUME TypeOK, BaseSolvent,
           UNCHANGED <<config, base_reserve, migration_progress, base_vault, base_fee,
                       protocol_migration_base_fee_amount>>
    PROVE  BaseSolvent'
  <1>1. base_vault \in Int /\ BaseFees \in Int /\ BaseFees' = BaseFees
    BY BaseInt DEF BaseFees, TotalFee
  <1>2. base_vault' = base_vault - 0 /\ BaseFees' = BaseFees - 0
    BY <1>1
  <1> QED
    BY <1>2, BaseClaim

\* No step takes base tokens that are for sale or owed.
LEMMA BaseSolventStep ==
    TypeOK /\ Staged /\ BaseSolvent /\ [Next]_vars => BaseSolvent'
  <1> SUFFICES ASSUME TypeOK, Staged, BaseSolvent, [Next]_vars PROVE BaseSolvent'
    OBVIOUS
  <1> USE DEF configVars, saleVars, migFeeVars, withdrawVars, statusVars
  <1>caps. ClaimCaps \subseteq U64
    BY PoolAssumption DEF PoolAssumption
  <1>1. CASE Trade
    BY <1>1, BaseSwap DEF Trade, Swap, VirtualSwap
  <1>2. ASSUME NEW a \in ClaimCaps, NEW b \in ClaimCaps, ClaimProtocolFee(a, b)
        PROVE  BaseSolvent'
    BY <1>2, <1>caps, BaseProtocolClaim DEF ClaimProtocolFee
  <1>3. ASSUME NEW is_base \in BOOLEAN, NEW a \in ClaimCaps,
               ClaimProtocolFee2(is_base, a) \/ ZapProtocolFee(is_base, a)
        PROVE  BaseSolvent'
    <2>1. CASE is_base
      BY <1>3, <2>1, <1>caps, BaseProtocolClaim DEF ClaimProtocolFee2, ZapProtocolFee
    <2>2. CASE ~is_base
      BY <1>3, <2>2, BaseNeutral DEF ClaimProtocolFee2, ZapProtocolFee
    <2> QED
      BY <2>1, <2>2
  <1>4. ASSUME NEW party \in {"partner", "creator"}, NEW a \in ClaimCaps,
               NEW b \in ClaimCaps, ClaimTradingFee(party, a, b)
        PROVE  BaseSolvent'
    BY <1>4, <1>caps, BaseTradingClaim
  <1>5. CASE \/ PartnerWithdrawSurplus \/ CreatorWithdrawSurplus
             \/ \E party \in {"partner", "creator"} : WithdrawMigrationFee(party)
    BY <1>5, BaseNeutral DEF PartnerWithdrawSurplus, CreatorWithdrawSurplus, WithdrawSurplus,
        WithdrawMigrationFee
  <1>6. CASE WithdrawLeftover
    <2>1. /\ base_vault \in Int /\ TotalFee(base_fee) \in Int
          /\ protocol_migration_base_fee_amount \in Int
      BY BaseInt
    <2>2. /\ base_vault' = base_vault -
                 (base_vault - TotalFee(base_fee) - protocol_migration_base_fee_amount)
          /\ UNCHANGED <<base_fee, protocol_migration_base_fee_amount>>
          /\ migration_progress' = "CreatedPool"
      BY <1>6 DEF WithdrawLeftover, LeftoverAmount, get_protocol_and_trading_base_fee
    <2>3. TotalFee(base_fee)' = TotalFee(base_fee)
      BY <2>2 DEF TotalFee
    <2>4. base_vault' >= TotalFee(base_fee) + protocol_migration_base_fee_amount
      BY <2>1, <2>2
    <2> QED
      BY <2>2, <2>3, <2>4 DEF BaseSolvent
  <1>7. CASE CreateLocker
    BY <1>7, BaseLocker
  <1>8. CASE CreatePool
    <2>1. PICK bd \in 0..MaxDust, qd \in 0..MaxDust : Migrate(bd, qd)
      <3>1. 0 \in 0..MaxDust
        BY PoolAssumption DEF PoolAssumption
      <3> QED
        BY <1>8, <3>1 DEF CreatePool, MigrateMeteoraDamm, MigrateDammV2
    <2> QED
      BY <2>1, BaseMigrate
  <1>9. CASE Tick \/ UNCHANGED vars
    BY <1>9, BaseNeutral DEF Tick, vars
  <1> QED
    BY <1>1, <1>2, <1>3, <1>4, <1>5, <1>6, <1>7, <1>8, <1>9 DEF Next, Claim

\* The solvency of the base vault: until the migration it holds exactly what
\* is for sale and the unclaimed fees, less the vesting once that is in its
\* locker; after it, at least the fees.
THEOREM BaseSolvency == Spec => []BaseSolvent
  <1>1. Init => BaseSolvent
    <2> SUFFICES ASSUME Init PROVE BaseSolvent
      OBVIOUS
    <2>1. TypeOK /\ TotalFee(base_fee) = 0
      BY TypeInit DEF Init, TotalFee, Party
    <2>2. base_reserve \in Int
      BY <2>1, BaseInt
    <2> QED
      BY <2>1, <2>2 DEF Init, BaseSolvent
  <1> QED
    BY <1>1, TypeCorrect, StagedAlways, BaseSolventStep, PTL DEF Spec

-----------------------------------------------------------------------------
(***************************************************************************)
(* The supply of the base token and what is left of it.                    *)
(***************************************************************************)

\* The two properties of the supply, and that nothing is withdrawn as leftover
\* before the migration.
LeftoverInv ==
    /\ FixedSupplyFloor
    /\ NoStrandedBase
    /\ migration_progress # "CreatedPool" => ~is_withdraw_leftover

\* The fields of a fixed supply.
LEMMA SupplyFields ==
    ASSUME NEW c \in Configs
    PROVE  /\ c.fixed_token_supply \in BOOLEAN
           /\ c.pre_migration_token_supply \in Int /\ c.post_migration_token_supply \in Int
           /\ c.fixed_token_supply =>
                  c.post_migration_token_supply <= c.pre_migration_token_supply
  <1>1. c \in ConfigType /\ ValidConfig(c)
    BY PoolAssumption DEF PoolAssumption
  <1>2. c.pre_migration_token_supply \in U64 /\ c.post_migration_token_supply \in U64
        /\ c.fixed_token_supply \in BOOLEAN
    BY <1>1 DEF ConfigType
  <1>3. c.fixed_token_supply => c.post_migration_token_supply <= c.pre_migration_token_supply
    BY <1>1 DEF ValidConfig
  <1> QED
    BY <1>2, <1>3, U64Props

\* What is left over is what the vault holds beyond the fees.
LEMMA LeftoverIs ==
    ASSUME TypeOK
    PROVE  LeftoverAmount = base_vault - BaseFees /\ LeftoverAmount \in Int
  BY BaseInt DEF LeftoverAmount, BaseFees, get_protocol_and_trading_base_fee

\* A step that pays fees out of the vault, or leaves it alone, keeps it all.
LEMMA LeftoverKept ==
    ASSUME TypeOK, TypeOK', LeftoverInv,
           UNCHANGED <<config, migration_progress, is_withdraw_leftover, base_mint_supply>>,
           \E paid \in Int : base_vault' = base_vault - paid /\ BaseFees' = BaseFees - paid
    PROVE  LeftoverInv'
  <1>1. LeftoverAmount' = LeftoverAmount
    <2>1. PICK paid \in Int : base_vault' = base_vault - paid /\ BaseFees' = BaseFees - paid
      OBVIOUS
    <2>2. base_vault \in Int /\ BaseFees \in Int
      BY BaseInt
    <2>3. LeftoverAmount = base_vault - BaseFees
      BY LeftoverIs
    <2>4. LeftoverAmount' = base_vault' - BaseFees'
      <3>1. base_vault' \in U64 /\ base_fee' \in [Party -> U64]
            /\ protocol_migration_base_fee_amount' \in U64
        BY DEF TypeOK
      <3>2. /\ base_vault' \in Int /\ base_fee'["protocol"] \in Int
            /\ base_fee'["partner"] \in Int /\ base_fee'["creator"] \in Int
            /\ protocol_migration_base_fee_amount' \in Int
        BY <3>1, U64Props DEF Party
      <3>3. /\ TotalFee(base_fee)' \in Int
            /\ TotalFee(base_fee)' = base_fee'["protocol"] + base_fee'["partner"]
                                     + base_fee'["creator"]
        BY <3>2 DEF TotalFee
      <3>4. /\ LeftoverAmount' = base_vault' - TotalFee(base_fee)'
                                 - protocol_migration_base_fee_amount'
            /\ BaseFees' = TotalFee(base_fee)' + protocol_migration_base_fee_amount'
        BY DEF LeftoverAmount, BaseFees, get_protocol_and_trading_base_fee
      <3> QED
        BY <3>2, <3>3, <3>4
    <2>5. base_vault' - BaseFees' = base_vault - BaseFees
      BY <2>1, <2>2
    <2> QED
      BY <2>3, <2>4, <2>5
  <1> QED
    BY <1>1 DEF LeftoverInv, FixedSupplyFloor, NoStrandedBase

\* A migration burns what is left over, or what the fixed supply allows.
LEMMA LeftoverMigrate ==
    ASSUME TypeOK, LeftoverInv, NEW bd \in 0..MaxDust, NEW qd \in 0..MaxDust, Migrate(bd, qd)
    PROVE  LeftoverInv'
  <1> DEFINE offered == MigrationBase - protocol_migration_base_fee_amount'
             after == base_vault - (offered - bd)
             fees == TotalFee(base_fee) + protocol_migration_base_fee_amount'
             left == after - fees
             burnt == get_burnable_amount_post_migration(config, left)
             pre == config.pre_migration_token_supply
             post == config.post_migration_token_supply
  <1>1. /\ offered \in U64 /\ left \in U64 /\ burnt \in U64
        /\ protocol_migration_base_fee_amount' \in U64
        /\ base_vault' = after - burnt
        /\ base_mint_supply' = base_mint_supply - burnt
        /\ migration_progress' = "CreatedPool" /\ config' = config /\ base_fee' = base_fee
        /\ is_withdraw_leftover' = is_withdraw_leftover
        /\ migration_progress # "CreatedPool"
    BY DEF Migrate, get_protocol_and_trading_base_fee, configVars, withdrawVars,
        MigrateAfterDeadline
  <1>2. /\ pre \in Int /\ post \in Int /\ config.fixed_token_supply \in BOOLEAN
        /\ config.fixed_token_supply => post <= pre
    BY SupplyFields DEF TypeOK
  <1>3. /\ base_vault \in Int /\ TotalFee(base_fee) \in Int /\ base_mint_supply \in Int
        /\ bd \in Int
    BY BaseInt, PoolAssumption DEF TypeOK, PoolAssumption
  <1>4. /\ burnt = IF config.fixed_token_supply THEN MinOf(pre - post, left) ELSE left
        /\ config.fixed_token_supply => base_mint_supply = pre
        /\ ~is_withdraw_leftover
    BY <1>1 DEF get_burnable_amount_post_migration, LeftoverInv, FixedSupplyFloor
  <1>5. LeftoverAmount' = base_vault' - TotalFee(base_fee) - protocol_migration_base_fee_amount'
    BY <1>1 DEF LeftoverAmount, get_protocol_and_trading_base_fee
  <1>6. protocol_migration_base_fee_amount' \in Int /\ left \in Int /\ burnt \in Int
        /\ offered \in Int
    BY <1>1, U64Props
  <1>7. fees \in Int /\ after \in Int /\ left = after - fees
    <2> HIDE DEF offered
    <2> QED
      BY <1>3, <1>6
  <1>8. LeftoverAmount' = left - burnt
    <2>1. \A v, t, f, a, b \in Int : v = a - b => v - t - f = (a - (t + f)) - b
      OBVIOUS
    <2>2. base_vault' \in Int
      <3> HIDE DEF after, burnt
      <3> QED
        BY <1>1, <1>6, <1>7
    <2> HIDE DEF after, burnt
    <2> QED
      BY <1>1, <1>3, <1>5, <1>6, <1>7, <2>1, <2>2
  <1> HIDE DEF offered, after, fees, left, burnt, pre, post
  <1>9. config.fixed_token_supply =>
            base_mint_supply - burnt >= post
            /\ (left - burnt # 0 => base_mint_supply - burnt = post)
    BY <1>2, <1>3, <1>4, <1>6 DEF MinOf
  <1>10. ~config.fixed_token_supply => left - burnt = 0
    BY <1>4, <1>6
  <1>11. FixedSupplyFloor'
    BY <1>1, <1>9 DEF FixedSupplyFloor, post
  <1>12. NoStrandedBase'
    BY <1>1, <1>4, <1>8, <1>9, <1>10 DEF NoStrandedBase, post
  <1> QED
    BY <1>1, <1>11, <1>12 DEF LeftoverInv

\* Before the migration the mint is not touched, and nothing is left over yet.
LEMMA LeftoverBefore ==
    ASSUME LeftoverInv, migration_progress # "CreatedPool",
           UNCHANGED <<config, is_withdraw_leftover, base_mint_supply>>,
           migration_progress' # "CreatedPool"
    PROVE  LeftoverInv'
  BY DEF LeftoverInv, FixedSupplyFloor, NoStrandedBase

\* No step strands base tokens or burns too many.
LEMMA LeftoverStep ==
    TypeOK /\ TypeOK' /\ Staged /\ LeftoverInv /\ [Next]_vars => LeftoverInv'
  <1> SUFFICES ASSUME TypeOK, TypeOK', Staged, LeftoverInv, [Next]_vars PROVE LeftoverInv'
    OBVIOUS
  <1> USE DEF configVars, saleVars, migFeeVars, withdrawVars, statusVars, mintVars
  <1>caps. ClaimCaps \subseteq U64
    BY PoolAssumption DEF PoolAssumption
  <1>none. ASSUME UNCHANGED <<base_vault, base_fee, protocol_migration_base_fee_amount>>
           PROVE  \E paid \in Int : base_vault' = base_vault - paid /\ BaseFees' = BaseFees - paid
    <2>1. base_vault \in Int /\ BaseFees \in Int /\ BaseFees' = BaseFees
      BY <1>none, BaseInt DEF BaseFees, TotalFee
    <2>2. base_vault' = base_vault - 0 /\ BaseFees' = BaseFees - 0
      BY <1>none, <2>1
    <2> QED
      BY <2>2
  <1>1. CASE Trade
    <2>1. PICK r : \E v \in BOOLEAN : process_swap(r, v)
      BY <1>1 DEF Trade, Swap, VirtualSwap
    <2>2. PICK v \in BOOLEAN : process_swap(r, v)
      BY <2>1
    <2>3. migration_progress # "CreatedPool" /\ migration_progress' # "CreatedPool"
      BY <2>2, SwapStage
    <2> QED
      BY <2>2, <2>3, LeftoverBefore DEF process_swap
  <1>2. ASSUME NEW a \in ClaimCaps, NEW b \in ClaimCaps, ClaimProtocolFee(a, b)
        PROVE  LeftoverInv'
    BY <1>2, <1>caps, ProtocolClaimPays, LeftoverKept DEF ClaimProtocolFee
  <1>3. ASSUME NEW is_base \in BOOLEAN, NEW a \in ClaimCaps,
               ClaimProtocolFee2(is_base, a) \/ ZapProtocolFee(is_base, a)
        PROVE  LeftoverInv'
    <2>1. CASE is_base
      BY <1>3, <2>1, <1>caps, ProtocolClaimPays, LeftoverKept
         DEF ClaimProtocolFee2, ZapProtocolFee
    <2>2. CASE ~is_base
      BY <1>3, <2>2, <1>none, LeftoverKept DEF ClaimProtocolFee2, ZapProtocolFee
    <2> QED
      BY <2>1, <2>2
  <1>4. ASSUME NEW party \in {"partner", "creator"}, NEW a \in ClaimCaps,
               NEW b \in ClaimCaps, ClaimTradingFee(party, a, b)
        PROVE  LeftoverInv'
    <2>1. \E paid \in Int : base_vault' = base_vault - paid /\ BaseFees' = BaseFees - paid
      BY <1>4, <1>caps, TradingClaimPays
    <2> QED
      BY <1>4, <2>1, LeftoverKept DEF ClaimTradingFee
  <1>5. CASE \/ PartnerWithdrawSurplus \/ CreatorWithdrawSurplus
             \/ \E party \in {"partner", "creator"} : WithdrawMigrationFee(party)
    BY <1>5, <1>none, LeftoverKept DEF PartnerWithdrawSurplus, CreatorWithdrawSurplus,
        WithdrawSurplus, WithdrawMigrationFee
  <1>6. CASE WithdrawLeftover
    <2>1. /\ base_vault \in Int /\ TotalFee(base_fee) \in Int
          /\ protocol_migration_base_fee_amount \in Int
      BY BaseInt
    <2>2. /\ base_vault' = base_vault -
                 (base_vault - TotalFee(base_fee) - protocol_migration_base_fee_amount)
          /\ UNCHANGED <<base_fee, protocol_migration_base_fee_amount, config,
                         migration_progress, base_mint_supply>>
          /\ migration_progress = "CreatedPool"
      BY <1>6 DEF WithdrawLeftover, LeftoverAmount, get_protocol_and_trading_base_fee
    <2>3. LeftoverAmount' = base_vault' - TotalFee(base_fee) - protocol_migration_base_fee_amount
      BY <2>2 DEF LeftoverAmount, get_protocol_and_trading_base_fee, TotalFee
    <2>4. LeftoverAmount' = 0
      BY <2>1, <2>2, <2>3
    <2> QED
      BY <2>2, <2>4 DEF LeftoverInv, FixedSupplyFloor, NoStrandedBase
  <1>7. CASE CreateLocker
    <2>1. migration_progress # "CreatedPool" /\ migration_progress' # "CreatedPool"
      BY <1>7 DEF CreateLocker, CreateLockerAfterDeadline
    <2> QED
      BY <1>7, <2>1, LeftoverBefore DEF CreateLocker
  <1>8. CASE CreatePool
    <2>1. PICK bd \in 0..MaxDust, qd \in 0..MaxDust : Migrate(bd, qd)
      <3>1. 0 \in 0..MaxDust
        BY PoolAssumption DEF PoolAssumption
      <3> QED
        BY <1>8, <3>1 DEF CreatePool, MigrateMeteoraDamm, MigrateDammV2
    <2> QED
      BY <2>1, LeftoverMigrate
  <1>9. CASE Tick \/ UNCHANGED vars
    BY <1>9, <1>none, LeftoverKept DEF Tick, vars
  <1> QED
    BY <1>1, <1>2, <1>3, <1>4, <1>5, <1>6, <1>7, <1>8, <1>9 DEF Next, Claim

\* A new pool has its whole supply.
LEMMA LeftoverInit == Init => LeftoverInv
  BY DEF Init, LeftoverInv, FixedSupplyFloor, NoStrandedBase, get_initial_base_supply

\* Hence the leftover is always accounted for.
LEMMA LeftoverAlways == Spec => []LeftoverInv
  BY LeftoverInit, LeftoverStep, TypeCorrect, StagedAlways, PTL DEF Spec

\* get_burnable_amount_post_migration burns no fixed supply below its final
\* size, at whatever price and with whatever sales the pool migrates.
THEOREM FixedSupplyNotUndercut == Spec => []FixedSupplyFloor
  <1>1. LeftoverInv => FixedSupplyFloor
    BY DEF LeftoverInv
  <1> QED
    BY <1>1, LeftoverAlways, PTL

\* The burn of the migration and the one withdraw_leftover together empty the
\* base vault of everything but the fees.
THEOREM NoBaseStranded == Spec => []NoStrandedBase
  <1>1. LeftoverInv => NoStrandedBase
    BY DEF LeftoverInv
  <1> QED
    BY <1>1, LeftoverAlways, PTL

=============================================================================
