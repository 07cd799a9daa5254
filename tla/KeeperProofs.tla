--------------------------- MODULE KeeperProofs ---------------------------
(***************************************************************************)
(* The migration keeper beside its pool, for every configuration, every    *)
(* number of RPC faults and whatever anybody else does meanwhile:          *)
(*                                                                         *)
(*   KeeperIsAUser     KeeperSpec => Spec                                  *)
(*   ReportsAreTrue    KeeperSpec => []ReportsHappened                     *)
(*   NothingUnsaid     KeeperSpec => []DoneMeansCollected                  *)
(*                                                                         *)
(* The first carries every theorem about the pool over to a pool that a    *)
(* keeper watches.  The other two rest on what a migrated pool never does  *)
(* (Settled below): its stage, its reserve and its one-time flags stay, so *)
(* that what the keeper concluded from an earlier read is still so.        *)
(***************************************************************************)
EXTENDS MigrationKeeper, SolvencyProofs

\* What the keeper sends are instructions of the pool that anybody may send.
LEMMA KeeperSends ==
    /\ migrationDammV2 => Next
    /\ PartnerWithdrawSurplus => Next
    /\ WithdrawLeftover => Next
  BY DEF migrationDammV2, CreatePool, Claim, Next

\* A keeper's step is a step of the pool or leaves the pool alone.
LEMMA KeeperStepIsPoolStep == [KeeperNext]_allVars => [Next]_vars
  <1> SUFFICES ASSUME [KeeperNext]_allVars PROVE [Next]_vars
    OBVIOUS
  <1>1. CASE executeDammV2Migration
    BY <1>1, KeeperSends DEF executeDammV2Migration, Confirmed, LostAnswer, LostTransaction,
        Rejected
  <1>2. CASE partnerWithdrawSurplus
    BY <1>2, KeeperSends DEF partnerWithdrawSurplus, WithdrawStatus, Confirmed, LostAnswer,
        LostTransaction, Rejected
  <1>3. CASE withdrawLeftover
    BY <1>3, KeeperSends DEF withdrawLeftover, WithdrawStatus, Confirmed, LostAnswer,
        LostTransaction, Rejected
  <1>4. CASE \/ runCheckForCurrentSlot \/ fetchPoolState \/ checkSlot
             \/ fetchCreatedPoolResultAfterMigrationError
             \/ refetchVirtualPoolBeforeMigrationRetry
             \/ maybeWithdrawPartnerSurplus \/ maybeWithdrawLeftover
             \/ ReadFailure \/ PollFailure
    <2>1. UNCHANGED vars
      BY <1>4 DEF runCheckForCurrentSlot, fetchPoolState, checkSlot,
          fetchCreatedPoolResultAfterMigrationError, refetchVirtualPoolBeforeMigrationRetry,
          maybeWithdrawPartnerSurplus, maybeWithdrawLeftover, ReadFailure, PollFailure
    <2> QED
      BY <2>1
  <1>5. CASE Others(Next)
    BY <1>5 DEF Others
  <1>6. CASE UNCHANGED allVars
    BY <1>6 DEF allVars
  <1> QED
    BY <1>1, <1>2, <1>3, <1>4, <1>5, <1>6 DEF KeeperNext, KeeperStep

\* The keeper has no power of its own: a pool that it watches behaves as one
\* that it does not, so every theorem about the pool holds beside a keeper.
THEOREM KeeperIsAUser == KeeperSpec => Spec
  BY KeeperStepIsPoolStep, PTL DEF KeeperSpec, Spec

-----------------------------------------------------------------------------
(***************************************************************************)
(* What the keeper may rely on once the pool has migrated.                 *)
(***************************************************************************)

\* The one-time flags of a pool stay set, and after the migration its stage,
\* its configuration and its real reserve stay too.
Settled ==
    /\ "partner" \in surplus_withdrawn => "partner" \in surplus_withdrawn'
    /\ is_withdraw_leftover => is_withdraw_leftover'
    /\ migration_progress = "CreatedPool" =>
           /\ migration_progress' = "CreatedPool"
           /\ UNCHANGED <<config, quote_reserve>>

\* No step of anybody takes any of it back.
LEMMA SettledStep == TypeOK /\ PayoutsFollowSale /\ [Next]_vars => Settled
  <1> SUFFICES ASSUME TypeOK, PayoutsFollowSale, [Next]_vars PROVE Settled
    OBVIOUS
  <1>1. CASE Trade
    <2>0. PICK r : \E v \in BOOLEAN : process_swap(r, v)
      BY <1>1 DEF Trade, Swap, VirtualSwap
    <2>1. PICK v \in BOOLEAN : process_swap(r, v)
      BY <2>0
    <2>2. migration_progress # "CreatedPool" /\ surplus_withdrawn' = surplus_withdrawn
      BY <2>1, SwapBeforeCompletion
    <2>3. is_withdraw_leftover' = is_withdraw_leftover
      BY <2>1 DEF process_swap, withdrawVars
    <2> QED
      BY <2>2, <2>3 DEF Settled
  <1>2. CASE ~Trade
    <2>1. UNCHANGED <<config, quote_reserve>>
      BY <1>2, OtherSteps DEF configVars, saleVars
    <2>2. CASE Claim
      <3>1. migration_progress' = migration_progress
        BY <2>2, ClaimsKeepStage DEF statusVars
      <3>2. "partner" \in surplus_withdrawn => "partner" \in surplus_withdrawn'
        BY <2>2 DEF Claim, ClaimProtocolFee, ClaimProtocolFee2, ZapProtocolFee,
            claim_protocol_quote_fee_and_surplus, ClaimTradingFee, PartnerWithdrawSurplus,
            CreatorWithdrawSurplus, WithdrawSurplus, WithdrawMigrationFee, WithdrawLeftover,
            withdrawVars
      <3>3. is_withdraw_leftover => is_withdraw_leftover'
        BY <2>2 DEF Claim, ClaimProtocolFee, ClaimProtocolFee2, ZapProtocolFee,
            ClaimTradingFee, PartnerWithdrawSurplus, CreatorWithdrawSurplus, WithdrawSurplus,
            WithdrawMigrationFee, WithdrawLeftover, withdrawVars
      <3> QED
        BY <2>1, <3>1, <3>2, <3>3 DEF Settled
    <2>3. CASE CreateLocker
      BY <2>1, <2>3 DEF CreateLocker, CreateLockerAfterDeadline, withdrawVars, Settled
    <2>4. CASE CreatePool
      BY <2>1, <2>4 DEF CreatePool, MigrateMeteoraDamm, MigrateDammV2, Migrate, withdrawVars,
          Settled
    <2>5. CASE Tick \/ UNCHANGED vars
      BY <2>1, <2>5 DEF Tick, vars, statusVars, withdrawVars, Settled
    <2> QED
      BY <1>2, <2>2, <2>3, <2>4, <2>5 DEF Next
  <1> QED
    BY <1>1, <1>2

-----------------------------------------------------------------------------
(***************************************************************************)
(* The keeper's invariant: a pool that was read as migrated is so, and     *)
(* from "surplus" on it has migrated; past each of the two withdrawals, it *)
(* is made, not due, or reported as failed.                                *)
(***************************************************************************)
SurplusSettled ==
    options.is_fee_claimer /\ quote_reserve > get_migration_quote_amount_cap(config) =>
        "partner" \in surplus_withdrawn \/ surplus_status = "failed"

LeftoverSettled ==
    options.withdrawLeftover /\ config.fixed_token_supply =>
        is_withdraw_leftover \/ leftover_status = "failed"

KeeperInv ==
    /\ pool_state.migration_progress = "CreatedPool" => migration_progress = "CreatedPool"
    /\ pc \in {"surplus", "send_surplus", "leftover", "send_leftover", "done"}
           => migration_progress = "CreatedPool"
    /\ pc \in {"leftover", "send_leftover", "done"} => SurplusSettled
    /\ pc = "done" => LeftoverSettled
    /\ ReportsHappened

\* A step of somebody else does not undo what the keeper knows.
LEMMA OthersKeepInv ==
    ASSUME KeeperInv, Settled,
           UNCHANGED <<options, pc, pool_state, result, surplus_status, leftover_status>>
    PROVE  KeeperInv'
  <1>1. pc \in {"leftover", "send_leftover", "done"} /\ SurplusSettled => SurplusSettled'
    BY DEF SurplusSettled, KeeperInv, Settled
  <1>2. pc = "done" /\ LeftoverSettled => LeftoverSettled'
    BY DEF LeftoverSettled, KeeperInv, Settled
  <1>3. ReportsHappened'
    BY DEF KeeperInv, ReportsHappened, Settled
  <1> QED
    BY <1>1, <1>2, <1>3 DEF KeeperInv, Settled

\* A check that returns null reports nothing.
LEMMA NullKeepsInv ==
    ASSUME ReturnNull
    PROVE  KeeperInv'
  BY DEF ReturnNull, Forget, NotRead, KeeperInv, ReportsHappened

\* Nor does one that ends with an error.
LEMMA StopKeepsInv ==
    ASSUME NEW e, Stop(e)
    PROVE  KeeperInv'
  BY DEF Stop, Forget, NotRead, KeeperInv, ReportsHappened

\* The migration: its answer, its loss and its rejection.
LEMMA MigrationKeepsInv ==
    ASSUME KeeperInv, Settled, executeDammV2Migration
    PROVE  KeeperInv'
  <1>1. UNCHANGED <<pool_state, surplus_status, leftover_status>>
    BY DEF executeDammV2Migration
  <1>2. CASE Confirmed(migrationDammV2) /\ pc' = "surplus"
    <2>1. migration_progress' = "CreatedPool"
      BY <1>2 DEF Confirmed, migrationDammV2, MigrateDammV2, Migrate
    <2> QED
      BY <1>1, <1>2, <2>1 DEF KeeperInv, ReportsHappened, Settled
  <1>3. CASE pc' = "after_error" /\ result' = result
    BY <1>1, <1>3 DEF KeeperInv, ReportsHappened, Settled
  <1> QED
    BY <1>2, <1>3 DEF executeDammV2Migration

\* The surplus: skipped for a reason, already drawn, or sent.
LEMMA SurplusKeepsInv ==
    ASSUME TypeOK, KeeperInv, Settled, maybeWithdrawPartnerSurplus \/ partnerWithdrawSurplus,
           config \in Configs, options.is_fee_claimer \in BOOLEAN
    PROVE  KeeperInv'
  <1> USE DEF AfterSurplus
  <1>1. CASE maybeWithdrawPartnerSurplus
    <2>1. /\ pc = "surplus" /\ migration_progress = "CreatedPool"
          /\ UNCHANGED <<vars, options, pool_state, result, leftover_status>>
      BY <1>1 DEF maybeWithdrawPartnerSurplus, KeeperInv
    <2>2. UNCHANGED <<config, quote_reserve, surplus_withdrawn, migration_progress,
                      is_withdraw_leftover>>
      BY <2>1 DEF vars, configVars, saleVars, withdrawVars, statusVars
    <2>3. CASE surplusDecision = "send"
      BY <1>1, <2>1, <2>2, <2>3 DEF maybeWithdrawPartnerSurplus, KeeperInv, ReportsHappened
    <2>4. CASE surplusDecision # "send"
      <3>1. pc' \in {"leftover", "done"} /\ surplus_status' = surplusDecision
            /\ (pc' = "done" => ~options.withdrawLeftover)
        BY <1>1, <2>4 DEF maybeWithdrawPartnerSurplus
      <3>2. /\ surplusDecision # "withdrawn"
            /\ options.is_fee_claimer /\ quote_reserve > get_migration_quote_amount_cap(config)
                   => "partner" \in surplus_withdrawn
        <4>1. quote_reserve \in Int /\ get_migration_quote_amount_cap(config) \in Int
          BY StateInt
        <4>2. quote_reserve > get_migration_quote_amount_cap(config) =>
                  ~(quote_reserve <= get_migration_quote_amount_cap(config))
          BY <4>1
        <4> QED
          BY <2>4, <4>2 DEF surplusDecision
      <3>3. SurplusSettled' /\ (LeftoverSettled' \/ pc' # "done")
        BY <2>1, <2>2, <3>1, <3>2 DEF SurplusSettled, LeftoverSettled
      <3>4. ReportsHappened'
        BY <2>1, <2>2, <3>1, <3>2 DEF KeeperInv, ReportsHappened
      <3> QED
        BY <2>1, <2>2, <3>1, <3>3, <3>4 DEF KeeperInv
    <2> QED
      BY <2>3, <2>4
  <1>2. CASE partnerWithdrawSurplus
    <2>1. /\ pc = "send_surplus" /\ migration_progress = "CreatedPool"
          /\ UNCHANGED <<options, pool_state, result, leftover_status>>
          /\ pc' \in {"leftover", "done"} /\ (pc' = "done" => ~options.withdrawLeftover)
      BY <1>2 DEF partnerWithdrawSurplus, KeeperInv
    <2>2. \/ surplus_status' = "failed"
          \/ surplus_status' = "withdrawn" /\ "partner" \in surplus_withdrawn'
      BY <1>2 DEF partnerWithdrawSurplus, WithdrawStatus, Confirmed, PartnerWithdrawSurplus,
          WithdrawSurplus
    <2>3. SurplusSettled' /\ (pc' = "done" => LeftoverSettled')
      BY <2>1, <2>2 DEF SurplusSettled, LeftoverSettled
    <2>4. ReportsHappened'
      BY <2>1, <2>2 DEF KeeperInv, ReportsHappened, Settled
    <2> QED
      BY <2>1, <2>3, <2>4 DEF KeeperInv, Settled
  <1> QED
    BY <1>1, <1>2

\* The leftover: not due, already drawn, or sent.
LEMMA LeftoverKeepsInv ==
    ASSUME KeeperInv, Settled, maybeWithdrawLeftover \/ withdrawLeftover
    PROVE  KeeperInv'
  <1>1. /\ pc \in {"leftover", "send_leftover"} /\ migration_progress = "CreatedPool"
        /\ UNCHANGED <<options, pool_state, result, surplus_status>>
        /\ pc' \in {"send_leftover", "done"}
    BY DEF maybeWithdrawLeftover, withdrawLeftover, KeeperInv
  <1>2. SurplusSettled'
    BY <1>1 DEF KeeperInv, SurplusSettled, Settled
  <1>3. CASE maybeWithdrawLeftover
    <2>1. UNCHANGED <<config, is_withdraw_leftover>>
      BY <1>3 DEF maybeWithdrawLeftover, vars, configVars, withdrawVars
    <2>2. \/ pc' = "send_leftover" /\ leftover_status' = leftover_status
          \/ /\ leftover_status' # "withdrawn"
             /\ config.fixed_token_supply => is_withdraw_leftover
      BY <1>3 DEF maybeWithdrawLeftover, leftoverDecision
    <2>3. pc' = "done" => LeftoverSettled'
      BY <2>1, <2>2 DEF LeftoverSettled
    <2>4. ReportsHappened'
      BY <1>1, <2>2 DEF KeeperInv, ReportsHappened, Settled
    <2> QED
      BY <1>1, <1>2, <2>3, <2>4 DEF KeeperInv, Settled
  <1>4. CASE withdrawLeftover
    <2>1. \/ leftover_status' = "failed"
          \/ leftover_status' = "withdrawn" /\ is_withdraw_leftover'
      BY <1>4 DEF withdrawLeftover, WithdrawStatus, Confirmed, WithdrawLeftover
    <2>2. LeftoverSettled'
      BY <2>1 DEF LeftoverSettled
    <2>3. ReportsHappened'
      BY <1>1, <2>1 DEF KeeperInv, ReportsHappened, Settled
    <2> QED
      BY <1>1, <1>2, <2>2, <2>3 DEF KeeperInv, Settled
  <1> QED
    BY <1>3, <1>4

\* The keeper's options are read once.
KeeperTyped == options \in KeeperOptions

\* Every step keeps the invariant.
LEMMA KeeperInvStep ==
    TypeOK /\ PayoutsFollowSale /\ KeeperTyped /\ KeeperInv /\ [KeeperNext]_allVars
        => KeeperTyped' /\ KeeperInv'
  <1> SUFFICES ASSUME TypeOK, PayoutsFollowSale, KeeperTyped, KeeperInv, [KeeperNext]_allVars
               PROVE  KeeperTyped' /\ KeeperInv'
    OBVIOUS
  <1>1. Settled
    BY KeeperStepIsPoolStep, SettledStep
  <1>2. options' = options
    BY DEF KeeperNext, KeeperStep, runCheckForCurrentSlot, fetchPoolState, checkSlot,
        executeDammV2Migration, fetchCreatedPoolResultAfterMigrationError,
        refetchVirtualPoolBeforeMigrationRetry, maybeWithdrawPartnerSurplus,
        partnerWithdrawSurplus, maybeWithdrawLeftover, withdrawLeftover, ReadFailure,
        PollFailure, Others, allVars, keeperVars
  <1>3. KeeperTyped'
    BY <1>2 DEF KeeperTyped
  <1>4. config \in Configs /\ options.is_fee_claimer \in BOOLEAN
    BY KeeperAssumption DEF TypeOK, KeeperTyped, KeeperAssumption
  <1>5. KeeperInv'
    <2>1. CASE runCheckForCurrentSlot \/ fetchPoolState
      <3>1. /\ pc' \in {"fetch", "decide"}
            /\ UNCHANGED <<result, surplus_status, leftover_status>>
            /\ pool_state' = pool_state \/
                   pool_state'.migration_progress = migration_progress
        BY <2>1 DEF runCheckForCurrentSlot, fetchPoolState
      <3> QED
        BY <1>1, <3>1 DEF KeeperInv, ReportsHappened, Settled
    <2>2. CASE checkSlot
      <3>1. \/ ReturnNull
            \/ /\ pc' = "migrate" /\ pool_state' = NotRead
               /\ UNCHANGED <<result, surplus_status, leftover_status>>
            \/ /\ pc = "decide" /\ pool_state.migration_progress = "CreatedPool"
               /\ pc' = "surplus" /\ pool_state' = NotRead
               /\ UNCHANGED <<surplus_status, leftover_status>>
        BY <2>2 DEF checkSlot
      <3> QED
        BY <1>1, <3>1, NullKeepsInv DEF NotRead, KeeperInv, ReportsHappened, Settled
    <2>3. CASE executeDammV2Migration
      BY <1>1, <2>3, MigrationKeepsInv
    <2>4. CASE \/ fetchCreatedPoolResultAfterMigrationError
               \/ refetchVirtualPoolBeforeMigrationRetry
      <3>1. \/ ReturnNull
            \/ Stop(error)
            \/ /\ pc' \in {"refetch", "migrate"}
               /\ UNCHANGED <<pool_state, result, surplus_status, leftover_status>>
            \/ /\ migration_progress = "CreatedPool" /\ pc' = "surplus"
               /\ UNCHANGED <<pool_state, surplus_status, leftover_status>>
        BY <2>4 DEF fetchCreatedPoolResultAfterMigrationError,
            refetchVirtualPoolBeforeMigrationRetry, checkVars
      <3> QED
        BY <1>1, <3>1, NullKeepsInv, StopKeepsInv DEF NotRead, KeeperInv, ReportsHappened, Settled
    <2>5. CASE maybeWithdrawPartnerSurplus \/ partnerWithdrawSurplus
      BY <1>1, <1>4, <2>5, SurplusKeepsInv
    <2>6. CASE maybeWithdrawLeftover \/ withdrawLeftover
      BY <1>1, <2>6, LeftoverKeepsInv
    <2>7. CASE ReadFailure \/ PollFailure
      BY <2>7, NullKeepsInv, StopKeepsInv DEF ReadFailure, PollFailure
    <2>8. CASE Others(Next) \/ UNCHANGED allVars
      <3>1. UNCHANGED <<options, pc, pool_state, result, surplus_status, leftover_status>>
        BY <2>8 DEF Others, allVars, keeperVars, checkVars
      <3> QED
        BY <1>1, <3>1, OthersKeepInv
    <2> QED
      BY <2>1, <2>2, <2>3, <2>4, <2>5, <2>6, <2>7, <2>8 DEF KeeperNext, KeeperStep
  <1> QED
    BY <1>3, <1>5

\* Hence it always holds.
LEMMA KeeperInvAlways == KeeperSpec => []KeeperInv
  <1>1. Init /\ KeeperInit => KeeperTyped /\ KeeperInv
    BY DEF KeeperInit, KeeperTyped, KeeperInv, ReportsHappened, NotRead
  <1>2. KeeperSpec => [](TypeOK /\ PayoutsFollowSale)
    BY KeeperIsAUser, TypeCorrect, PayoutsInOrder, PTL
  <1> QED
    BY <1>1, <1>2, KeeperInvStep, PTL DEF KeeperSpec

\* What the keeper reports happened: whatever answers were lost, transactions
\* sent twice or instructions sent by somebody else, a result means that the
\* pool has migrated and "withdrawn" that the withdrawal was made.
THEOREM ReportsAreTrue == KeeperSpec => []ReportsHappened
  <1>1. KeeperInv => ReportsHappened
    BY DEF KeeperInv
  <1> QED
    BY <1>1, KeeperInvAlways, PTL

\* A keeper that is done has left no surplus and no leftover behind without
\* reporting that their withdrawal failed.
THEOREM NothingUnsaid == KeeperSpec => []DoneMeansCollected
  <1>1. KeeperInv => DoneMeansCollected
    BY DEF KeeperInv, DoneMeansCollected, SurplusSettled, LeftoverSettled
  <1> QED
    BY <1>1, KeeperInvAlways, PTL

=============================================================================
