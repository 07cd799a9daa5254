------------------------- MODULE MigratedLiquidity -------------------------
(***************************************************************************)
(* A launch pool together with the LP tokens that its migration to a       *)
(* DAMM v1 pool mints: the migration metadata, the permissionless          *)
(* instructions that lock a part of the tokens for the partner and the     *)
(* creator and hand them the rest, and the transfer of the pool to another *)
(* creator, which decides who the tokens go to.                            *)
(*                                                                         *)
(* Migrated liquidity has a role it belongs to and a kind: "lock" is       *)
(* locked for ever, "claim" is free, and "vest", which only DAMM v2 knows, *)
(* unlocks over time.  Of the DAMM v1 LP tokens, delivered holds the       *)
(* locked_status and claim_status flags.                                   *)
(***************************************************************************)
EXTENDS VirtualPool

CONSTANTS
    Accounts,          \* the accounts that take part
    fee_claimer,       \* the partner's account, fixed by the configuration
    Percentages,       \* the liquidity percentages a configuration may have
    LpMinted           \* LP tokens the DAMM v1 program may mint

Kind  == {"lock", "claim"}
Share == Kind \cup {"vest"}
Role  == {"partner", "creator"}

ASSUME LiquidityAssumption ==
    /\ fee_claimer \in Accounts
    /\ Percentages \subseteq [Share -> [Role -> 0..100]]
    /\ \A p \in Percentages : p["lock"]["partner"] + p["lock"]["creator"]
                              + p["claim"]["partner"] + p["claim"]["creator"]
                              + p["vest"]["partner"] + p["vest"]["creator"] = 100
    /\ LpMinted \subseteq U64

VARIABLES
    percentage,        \* of the configuration
    creator,           \* of the pool
    metadata_created,  \* whether the migration metadata exists
    liquidity,         \* its amounts, by kind and role
    delivered,         \* its status flags, by kind the roles served
    lp_vault           \* LP tokens the pool authority holds

lpVars == <<metadata_created, liquidity, delivered, lp_vault>>
allVars == <<vars, percentage, creator, lpVars>>

VestsNothing == \A r \in Role : percentage["vest"][r] = 0

\* A DAMM v1 configuration may not vest liquidity.
LiquidityInit ==
    /\ Init
    /\ percentage \in Percentages
    /\ config.migration_option = "MeteoraDamm" => VestsNothing
    /\ creator \in Accounts
    /\ metadata_created = FALSE
    /\ liquidity = [k \in Kind |-> [r \in Role |-> 0]]
    /\ delivered = [k \in Kind |-> {}]
    /\ lp_vault = 0

-----------------------------------------------------------------------------
\* migration_meteora_damm_create_metadata: once, at any time.
CreateMetadata ==
    /\ config.migration_option = "MeteoraDamm"
    /\ ~metadata_created
    /\ metadata_created' = TRUE
    /\ UNCHANGED <<vars, percentage, creator, liquidity, delivered, lp_vault>>

get_liquidity_distribution_RoundedUp(l) ==   \* mutant
    LET part(k, r) == MulDivUp(l, percentage[k][r], 100)
    IN  [k \in Share |-> [r \in Role |->
            IF k = "claim" /\ r = "creator"
            THEN l - part("claim", "partner") - part("lock", "partner") - part("vest", "partner")
                   - part("lock", "creator") - part("vest", "creator")
            ELSE part(k, r)]]

\* The percentages are rounded down; what that leaves is the creator's.
get_liquidity_distribution(l) ==
    LET part(k, r) == MulDivDown(l, percentage[k][r], 100)
    IN  [k \in Share |-> [r \in Role |->
            IF k = "claim" /\ r = "creator"
            THEN l - part("claim", "partner") - part("lock", "partner") - part("vest", "partner")
                   - part("lock", "creator") - part("vest", "creator")
            ELSE part(k, r)]]

\* migrate_meteora_damm, with the LP tokens it mints.
MigrateAndMint(lp) ==
    /\ metadata_created
    /\ MigrateMeteoraDamm
    /\ liquidity' = [k \in Kind |-> get_liquidity_distribution(lp)[k]]
    /\ lp_vault' = lp
    /\ UNCHANGED <<percentage, creator, metadata_created, delivered>>

-----------------------------------------------------------------------------
\* The roles of the account an instruction names as the owner.
Roles(owner) ==
    {r \in Role : owner = IF r = "partner" THEN fee_claimer ELSE creator}

\* What lock_as_... or claim_as_... returns: a self-partnered creator is
\* served for both roles at once.
AmountFor(kind, roles) ==
    (IF "partner" \in roles THEN liquidity[kind]["partner"] ELSE 0)
    + (IF "creator" \in roles THEN liquidity[kind]["creator"] ELSE 0)

CanDeliver(kind, owner) ==
    /\ migration_progress = "CreatedPool"
    /\ metadata_created
    /\ Roles(owner) # {}
    /\ Roles(owner) \cap delivered[kind] = {}
    /\ AmountFor(kind, Roles(owner)) \in 1..lp_vault

Flagged_LastRoleOnly(kind, owner) ==   \* mutant
    delivered[kind] \cup (IF owner = creator THEN {"creator"} ELSE {"partner"})

\* The flags after a delivery.
Flagged(kind, owner) == delivered[kind] \cup Roles(owner)

\* migrate_meteora_damm_lock_lp_token and ..._claim_lp_token, for any sender.
DeliverLp(kind, owner) ==
    /\ CanDeliver(kind, owner)
    /\ delivered' = [delivered EXCEPT ![kind] = Flagged(kind, owner)]
    /\ lp_vault' = lp_vault - AmountFor(kind, Roles(owner))
    /\ UNCHANGED <<vars, percentage, creator, metadata_created, liquidity>>

AllDelivered_ForCreator ==   \* mutant
    \A k \in Kind : liquidity[k]["creator"] = 0 \/ "creator" \in delivered[k]

AllDelivered == \A k \in Kind, r \in Role : liquidity[k][r] = 0 \/ r \in delivered[k]

\* transfer_pool_creator, signed by the creator.
TransferPoolCreator(new_creator) ==
    /\ new_creator # creator
    /\ \/ migration_progress = "PreBondingCurve"
       \/ /\ migration_progress = "CreatedPool"
          /\ config.migration_option = "MeteoraDamm" => AllDelivered
    /\ creator' = new_creator
    /\ UNCHANGED <<vars, percentage, lpVars>>

\* Every other instruction of the pool leaves the LP tokens alone.
PoolStep ==
    /\ \/ Trade
       \/ Claim
       \/ CreateLocker
       \/ \E bd, qd \in 0..MaxDust : MigrateDammV2(bd, qd)
       \/ Tick
    /\ UNCHANGED <<percentage, creator, lpVars>>

LiquidityNext ==
    \/ PoolStep
    \/ CreateMetadata
    \/ \E lp \in LpMinted : MigrateAndMint(lp)
    \/ \E kind \in Kind, owner \in Accounts : DeliverLp(kind, owner)
    \/ \E new_creator \in Accounts : TransferPoolCreator(new_creator)

LiquiditySpec == LiquidityInit /\ [][LiquidityNext]_allVars

-----------------------------------------------------------------------------
Outstanding(kind, role) == IF role \in delivered[kind] THEN 0 ELSE liquidity[kind][role]

\* The flags, amounts and balance have their types, and no DAMM v1 pool vests.
LiquidityTypeOK ==
    /\ TypeOK
    /\ percentage \in Percentages
    /\ creator \in Accounts
    /\ metadata_created \in BOOLEAN
    /\ liquidity \in [Kind -> [Role -> Nat]]
    /\ delivered \in [Kind -> SUBSET Role]
    /\ lp_vault \in U64
    /\ config.migration_option = "MeteoraDamm" => VestsNothing

\* The authority's LP account holds exactly what is not delivered yet: no
\* amount is delivered twice, and the rounded shares leave nothing behind.
LpBacked ==
    lp_vault = Outstanding("lock", "partner") + Outstanding("lock", "creator")
               + Outstanding("claim", "partner") + Outstanding("claim", "creator")

\* No share is stranded: whichever shares were served first and whoever the
\* pool was handed to, the holder of a role can still get what is left for it.
\* (The self-partnered paths refuse an owner of whom one role was served.)
NoStrandedShare ==
    \A k \in Kind, r \in Role :
        Outstanding(k, r) > 0 =>
            CanDeliver(k, IF r = "partner" THEN fee_claimer ELSE creator)

=============================================================================
