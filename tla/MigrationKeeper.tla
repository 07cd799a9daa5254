-------------------------- MODULE MigrationKeeper --------------------------
(***************************************************************************)
(* The migration keeper (scripts/migration_keeper) beside the pool it      *)
(* watches: an off-chain process that polls one DAMM v2 pool, migrates it  *)
(* when the sale is over, and then withdraws the partner's surplus and the *)
(* leftover.  Everything it knows it reads over RPC, one call at a time;   *)
(* between two calls anybody may act on the pool.                          *)
(*                                                                         *)
(* Faults are those of RPC, and MaxFaults bounds how many happen: a read   *)
(* that fails; a transaction whose answer is lost, with or without its     *)
(* effect; a transaction that is sent again after its first copy landed,   *)
(* which the preflight then rejects like an on-chain error.  A fault comes *)
(* as an error of one of the kinds below, which the keeper takes for one   *)
(* to try again after or for one to stop at, by its message.               *)
(* A transaction that lands after the keeper stopped waiting for it is a   *)
(* step of VirtualPool's Next, like the same step taken by somebody else.  *)
(* The keeper never creates the locker: it waits for somebody who does.    *)
(*                                                                         *)
(* A check (checkSlot) runs from "fetch" until the keeper is "idle" again  *)
(* or settled: inFlight and settled make a poll in between return at once. *)
(***************************************************************************)
EXTENDS VirtualPool

CONSTANTS
    KeeperOptions,                  \* records: withdrawLeftover, is_fee_claimer
    ClockSkews,                     \* local clock minus block time, when used
    MIGRATION_TRANSPORT_ATTEMPTS,
    MaxFaults                       \* bound: RPC faults

ASSUME KeeperAssumption ==
    /\ KeeperOptions \subseteq [withdrawLeftover : BOOLEAN, is_fee_claimer : BOOLEAN]
    /\ ClockSkews \subseteq Int
    /\ MIGRATION_TRANSPORT_ATTEMPTS \in Nat \ {0}
    /\ MaxFaults \in Nat

VARIABLES
    options,           \* of this process; is_fee_claimer: payer = config.fee_claimer
    pc,                \* the call the check waits for
    slot_time,         \* block time of the slot the check was started for
    pool_state,        \* what checkSlot read of the pool
    attempt,           \* migration attempts made in this check
    error,             \* the kind of the error met last
    early,             \* history: an attempt the block time did not call for yet
    result,            \* KeeperResult.action
    surplus_status,    \* partnerSurplusWithdrawStatus
    leftover_status,   \* leftoverWithdrawStatus
    faults

checkVars  == <<slot_time, pool_state, attempt, error, early, result,
                surplus_status, leftover_status>>
keeperVars == <<options, pc, checkVars, faults>>
allVars    == <<vars, keeperVars>>

NotRead == [migration_progress |-> "unknown", threshold_reached |-> FALSE]

KeeperInit ==
    /\ options \in KeeperOptions
    /\ pc = "idle"
    /\ slot_time = 0 /\ pool_state = NotRead
    /\ attempt = 0 /\ error = "none" /\ early = FALSE
    /\ result = "none" /\ surplus_status = "none" /\ leftover_status = "none"
    /\ faults = 0

-----------------------------------------------------------------------------
(***************************************************************************)
(* Errors, by what their message says: "unavailable", a timeout or another *)
(* pattern of a failing transport; "refused", an answer that no pattern    *)
(* knows (a node that is behind or forbids the call, no such pool);        *)
(* "preflight", a simulation that failed because the node did not know the *)
(* blockhash yet; "program", an instruction that failed, or a second copy  *)
(* of one that succeeded.                                                  *)
(***************************************************************************)
Errors          == {"unavailable", "refused", "preflight", "program"}
ReadErrors      == {"unavailable", "refused"}
TransientErrors == Errors \ {"program"}

isLikelyOnChainError(e) == e \in {"preflight", "program"}

isRetryableRpcError(e) == ~isLikelyOnChainError(e) /\ e \in {"unavailable", "preflight"}

\* What a check learnt ends with it.
Forget ==
    /\ slot_time' = 0 /\ pool_state' = NotRead /\ attempt' = 0
    /\ result' = "none" /\ surplus_status' = "none" /\ leftover_status' = "none"

\* The process settles with an error: it ends, and reports nothing else.
Stop(e) ==
    /\ pc' = "failed"
    /\ error' = e
    /\ Forget
    /\ UNCHANGED early

ReturnNull_InFlight ==   \* mutant
    /\ pc' = "in_flight"
    /\ UNCHANGED checkVars

\* The check returns null: nothing of it is kept, the next poll starts anew.
ReturnNull ==
    /\ pc' = "idle"
    /\ error' = "none" /\ early' = FALSE
    /\ Forget

Fault == faults < MaxFaults /\ faults' = faults + 1

\* A read of the check throws: if the error is retryable its retries have
\* failed too, checkSlot logs rpc_unavailable and returns null; if not, checkSlot
\* throws it on and the process settles.
ReadFailure ==
    /\ pc \in {"fetch", "decide", "refetch", "surplus", "leftover"}
    /\ Fault
    /\ \E e \in ReadErrors :
        \/ isRetryableRpcError(e) /\ ReturnNull
        \/ ~isRetryableRpcError(e) /\ Stop(e)
    /\ UNCHANGED <<vars, options>>

\* getSlot of a poll throws, also of one that comes while a check is running.
\* (A retryable error is only logged.)
PollFailure ==
    /\ pc \notin {"done", "failed"}
    /\ Fault
    /\ \E e \in ReadErrors : ~isRetryableRpcError(e) /\ Stop(e)
    /\ UNCHANGED <<vars, options>>

runCheckForCurrentSlot ==
    /\ pc = "idle"
    /\ pc' = "fetch"
    /\ slot_time' = clock
    /\ UNCHANGED <<vars, options, pool_state, attempt, error, early, result,
                   surplus_status, leftover_status, faults>>

fetchPoolState ==
    /\ pc = "fetch"
    /\ pool_state' = [migration_progress |-> migration_progress,
                      threshold_reached |-> is_curve_complete]
    /\ pc' = "decide"
    /\ UNCHANGED <<vars, options, slot_time, attempt, error, early, result,
                   surplus_status, leftover_status, faults>>

completionMode(now) ==
    IF pool_state.threshold_reached THEN "threshold"
    ELSE IF deadline_timestamp # 0 /\ now >= deadline_timestamp THEN "deadline"
    ELSE "open"

shouldAttemptMigration_EvenOpen(now) ==   \* mutant
    \/ pool_state.migration_progress = "LockedVesting"
    \/ /\ pool_state.migration_progress = "PreBondingCurve"
       /\ ~has_vesting(config)

shouldAttemptMigration_LockedOnly(now) ==   \* mutant
    pool_state.migration_progress = "LockedVesting"

shouldAttemptMigration(now) ==
    \/ pool_state.migration_progress = "LockedVesting"
    \/ /\ pool_state.migration_progress = "PreBondingCurve"
       /\ completionMode(now) = "deadline"
       /\ ~has_vesting(config)

\* The rest of checkSlot, at the block time of its slot or, when the node
\* has none for it, at the local time.
checkSlot ==
    \E now \in {slot_time} \cup {clock + skew : skew \in ClockSkews} :
        /\ pc = "decide"
        /\ \/ /\ pool_state.migration_progress = "CreatedPool"
              /\ result' = "already_migrated"
              /\ pc' = "surplus"
              /\ slot_time' = 0 /\ pool_state' = NotRead
              /\ UNCHANGED <<attempt, error, early, surplus_status, leftover_status>>
           \/ /\ pool_state.migration_progress # "CreatedPool"
              /\ shouldAttemptMigration(now)
              /\ attempt' = 1
              /\ early' = ~shouldAttemptMigration(clock)
              /\ pc' = "migrate"
              /\ slot_time' = 0 /\ pool_state' = NotRead
              /\ UNCHANGED <<error, result, surplus_status, leftover_status>>
           \/ /\ pool_state.migration_progress # "CreatedPool"
              /\ ~shouldAttemptMigration(now)
              /\ ReturnNull
        /\ UNCHANGED <<vars, options, faults>>

-----------------------------------------------------------------------------
(***************************************************************************)
(* signSendAndConfirm of the transaction tx: it lands and is confirmed; it *)
(* lands but its answer is lost, or its resend is rejected; it gets lost,  *)
(* or a read it needs before fails; or the pool rejects it.                *)
(***************************************************************************)
Confirmed(tx)       == tx /\ UNCHANGED faults
LostAnswer(tx)      == tx /\ Fault
LostTransaction     == UNCHANGED vars /\ Fault
Rejected(tx)        == ~ENABLED tx /\ UNCHANGED <<vars, faults>>

\* The amounts the DAMM pool leaves are its own affair.
migrationDammV2 == \E bd, qd \in 0..MaxDust : MigrateDammV2(bd, qd)

executeDammV2Migration ==
    /\ pc = "migrate"
    /\ UNCHANGED <<options, slot_time, pool_state, attempt, early, surplus_status,
                   leftover_status>>
    /\ \/ /\ Confirmed(migrationDammV2)
          /\ result' = "migrated"
          /\ pc' = "surplus"
          /\ UNCHANGED error
       \/ /\ LostAnswer(migrationDammV2)
          /\ error' \in Errors
          /\ pc' = "after_error"
          /\ UNCHANGED result
       \/ /\ LostTransaction
          /\ error' \in TransientErrors
          /\ pc' = "after_error"
          /\ UNCHANGED result
       \/ /\ Rejected(migrationDammV2)
          /\ error' = "program"
          /\ pc' = "after_error"
          /\ UNCHANGED result

\* After an attempt failed: what the pool says, if it can be read, decides
\* between somebody's migration, a retry, giving up until the next poll, and
\* stopping with the error.
fetchCreatedPoolResultAfterMigrationError ==
    /\ pc = "after_error"
    /\ \E readable \in BOOLEAN :
        /\ IF readable THEN UNCHANGED faults ELSE Fault
        /\ IF readable /\ migration_progress = "CreatedPool"
           THEN /\ result' = "externally_migrated"
                /\ pc' = "surplus"
                /\ UNCHANGED <<slot_time, pool_state, attempt, error, early,
                               surplus_status, leftover_status>>
           ELSE \/ ~isRetryableRpcError(error) /\ Stop(error)
                \/ /\ isRetryableRpcError(error)
                   /\ attempt < MIGRATION_TRANSPORT_ATTEMPTS
                   /\ pc' = "refetch"
                   /\ UNCHANGED checkVars
                \/ /\ isRetryableRpcError(error)
                   /\ attempt = MIGRATION_TRANSPORT_ATTEMPTS
                   /\ ReturnNull
    /\ UNCHANGED <<vars, options>>

\* The retry, after its delay: only a pool in LockedVesting is tried again.
refetchVirtualPoolBeforeMigrationRetry ==
    /\ pc = "refetch"
    /\ \/ /\ migration_progress = "CreatedPool"
          /\ result' = "externally_migrated"
          /\ pc' = "surplus"
          /\ UNCHANGED <<slot_time, pool_state, attempt, error, early,
                         surplus_status, leftover_status>>
       \/ /\ migration_progress = "LockedVesting"
          /\ attempt' = attempt + 1
          /\ pc' = "migrate"
          /\ error' = "none" /\ early' = FALSE
          /\ UNCHANGED <<slot_time, pool_state, result, surplus_status, leftover_status>>
       \/ /\ migration_progress \notin {"CreatedPool", "LockedVesting"}
          /\ ReturnNull
    /\ UNCHANGED <<vars, options, faults>>

-----------------------------------------------------------------------------
(***************************************************************************)
(* withLeftoverWithdrawal.  A withdrawal that fails, for whatever reason,  *)
(* is reported as failed; it keeps neither the other one nor the result.   *)
(***************************************************************************)
surplusDecision_ThresholdOnly ==   \* mutant
    CASE ~options.is_fee_claimer -> "skipped_not_fee_claimer"
      [] options.is_fee_claimer /\ quote_reserve <= config.migration_quote_threshold ->
            "skipped_no_surplus"
      [] OTHER -> IF "partner" \in surplus_withdrawn THEN "already_withdrawn" ELSE "send"

surplusDecision ==
    CASE ~options.is_fee_claimer -> "skipped_not_fee_claimer"
      [] options.is_fee_claimer /\ quote_reserve <= get_migration_quote_amount_cap(config) ->
            "skipped_no_surplus"
      [] OTHER -> IF "partner" \in surplus_withdrawn THEN "already_withdrawn" ELSE "send"

AfterSurplus == IF options.withdrawLeftover THEN "leftover" ELSE "done"

maybeWithdrawPartnerSurplus ==
    /\ pc = "surplus"
    /\ IF surplusDecision = "send"
       THEN pc' = "send_surplus" /\ UNCHANGED surplus_status
       ELSE pc' = AfterSurplus /\ surplus_status' = surplusDecision
    /\ UNCHANGED <<vars, options, slot_time, pool_state, attempt, error, early, result,
                   leftover_status, faults>>

WithdrawStatus_Hopeful(tx, status) ==   \* mutant
    \/ Confirmed(tx) /\ status' = "withdrawn"
    \/ LostAnswer(tx) /\ status' = "withdrawn"
    \/ LostTransaction /\ status' = "withdrawn"
    \/ Rejected(tx) /\ status' = "failed"

\* The end of a withdrawal: status is "withdrawn" only when it was confirmed.
WithdrawStatus(tx, status) ==
    \/ Confirmed(tx) /\ status' = "withdrawn"
    \/ LostAnswer(tx) /\ status' = "failed"
    \/ LostTransaction /\ status' = "failed"
    \/ Rejected(tx) /\ status' = "failed"

partnerWithdrawSurplus ==
    /\ pc = "send_surplus"
    /\ WithdrawStatus(PartnerWithdrawSurplus, surplus_status)
    /\ pc' = AfterSurplus
    /\ UNCHANGED <<options, slot_time, pool_state, attempt, error, early, result,
                   leftover_status>>

leftoverDecision ==
    CASE ~config.fixed_token_supply -> "skipped_non_fixed_supply"
      [] config.fixed_token_supply /\ is_withdraw_leftover -> "already_withdrawn"
      [] OTHER -> "send"

maybeWithdrawLeftover ==
    /\ pc = "leftover"
    /\ IF leftoverDecision = "send"
       THEN pc' = "send_leftover" /\ UNCHANGED leftover_status
       ELSE pc' = "done" /\ leftover_status' = leftoverDecision
    /\ UNCHANGED <<vars, options, slot_time, pool_state, attempt, error, early, result,
                   surplus_status, faults>>

withdrawLeftover ==
    /\ pc = "send_leftover"
    /\ WithdrawStatus(WithdrawLeftover, leftover_status)
    /\ pc' = "done"
    /\ UNCHANGED <<options, slot_time, pool_state, attempt, error, early, result,
                   surplus_status>>

-----------------------------------------------------------------------------
KeeperStep ==
    \/ runCheckForCurrentSlot \/ fetchPoolState \/ checkSlot
    \/ executeDammV2Migration \/ fetchCreatedPoolResultAfterMigrationError
    \/ refetchVirtualPoolBeforeMigrationRetry
    \/ maybeWithdrawPartnerSurplus \/ partnerWithdrawSurplus
    \/ maybeWithdrawLeftover \/ withdrawLeftover
    \/ ReadFailure \/ PollFailure

\* Anybody else, and time.
Others(step) == step /\ UNCHANGED keeperVars

KeeperNext == KeeperStep \/ Others(Next)

(***************************************************************************)
(* The keeper's process keeps running, somebody creates the locker (it is  *)
(* permissionless and needs no more than its fee), and time passes.  No    *)
(* fairness is asked of any other migration than the keeper's own.         *)
(***************************************************************************)
KeeperSpec ==
    /\ Init /\ KeeperInit
    /\ [][KeeperNext]_allVars
    /\ WF_allVars(KeeperStep)
    /\ WF_allVars(Others(CreateLocker))
    /\ WF_allVars(Others(Tick))

-----------------------------------------------------------------------------
\* What the keeper reports is so, whatever was lost, sent twice or done by
\* somebody else meanwhile: a result means that the pool has migrated, and
\* "withdrawn" that the one-time withdrawal was made.
ReportsHappened ==
    /\ result # "none" => migration_progress = "CreatedPool"
    /\ surplus_status = "withdrawn" => "partner" \in surplus_withdrawn
    /\ leftover_status = "withdrawn" => is_withdraw_leftover

\* A stop that the pool gives no reason for: at an error that would pass but
\* whose message is not taken for retryable ("Blockhash not found" is on the
\* list of isRetryableRpcError, but a failed simulation that says so is taken
\* for an on-chain error first), or at the rejection of a migration sent too
\* early, by a host clock ahead of the chain.
StoppedByMistake ==
    pc = "failed" /\ (error \in {"refused", "preflight"} \/ early)

\* But for these, the keeper stops with an error only over a pool that it need
\* not or cannot migrate: no timeout, lost answer, resent transaction or race
\* with another sender ends it while a migration is still to be made.
StopsForCause ==
    pc = "failed" =>
        \/ migration_progress = "CreatedPool"
        \/ is_sale_complete /\ ~SufficientForMigration
        \/ StoppedByMistake

\* A keeper that finished has left nothing uncollected without saying so: a
\* fee claimer's surplus and a fixed supply's leftover are withdrawn, by it or
\* by somebody else, or their withdrawal is reported as failed.
DoneMeansCollected ==
    pc = "done" =>
        /\ options.is_fee_claimer /\ quote_reserve > get_migration_quote_amount_cap(config) =>
               "partner" \in surplus_withdrawn \/ surplus_status = "failed"
        /\ options.withdrawLeftover /\ config.fixed_token_supply =>
               is_withdraw_leftover \/ leftover_status = "failed"

\* A sale that its curve or its deadline ended, with real quote in the pool,
\* becomes a DAMM pool, whatever RPC loses, unless the keeper stopped by mistake.
KeeperMigrates ==
    is_sale_complete /\ quote_reserve > 0 ~>
        migration_progress = "CreatedPool" \/ StoppedByMistake

\* Once the pool has migrated, by whoever's hand, the keeper comes to an end.
KeeperSettles == migration_progress = "CreatedPool" ~> pc \in {"done", "failed"}

=============================================================================
