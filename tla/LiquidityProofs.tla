--------------------------- MODULE LiquidityProofs ---------------------------
(***************************************************************************)
(* Theorems about the liquidity that a migration creates.                  *)
(*                                                                         *)
(*   PoolUnchanged                LiquiditySpec => Spec                    *)
(*   LpConserved                  LiquiditySpec => []LpBacked              *)
(*   SharesDeliverable            LiquiditySpec => []NoStrandedShare       *)
(*   LiquidityTyped               LiquiditySpec => []LiquidityTypeOK       *)
(*   SharesAreKept                PositionsSpec => []PositionsKeepShares   *)
(*   LiquidityStaysLocked         PositionsSpec => []LockedForADay         *)
(*   PositionsAreAccepted         PositionsSpec => [] of PositionsAccepted *)
(*   PositionsImplementLiquidity  PositionsSpec /\ []DustWithinBound       *)
(*                                    => ImplementsLiquidity               *)
(*   PositionsImplementLiquidityWithAnyDust                                *)
(*                                PositionsSpec => ImplementsLiquidity     *)
(*                                                                         *)
(* DAMM v1: PoolUnchanged shows that a pool with its LP tokens still       *)
(* behaves as a VirtualPool, so every theorem about VirtualPool holds of   *)
(* it too.  The three after it rest on LiquidityInv: the account holds     *)
(* what is not delivered yet, nothing is delivered before the migration,   *)
(* and an account that holds both roles was served for both of them or     *)
(* for neither.                                                            *)
(*                                                                         *)
(* DAMM v2: a migration is one large step, so the work is in what its      *)
(* operators compute.  Distribution is the split of the liquidity,         *)
(* RangeDeposits and CompoundingDeposits what the first position takes of  *)
(* each token and what is left buys, MigrationDeposits both of them,       *)
(* ItemsKeepShares what adjust_liquidity makes of the second position,     *)
(* LockOfBoth what is locked after a day, and VestingAccepted what DAMM v2 *)
(* makes of a vesting.  After it the fields that the properties read are   *)
(* frozen (PromisesFixed), which PositionsInv needs the stage for.         *)
(***************************************************************************)
EXTENDS DammV2Positions, CurveProofs

\* A step of the composition is a step of the pool, or leaves it alone.
LEMMA PoolSteps == ASSUME [LiquidityNext]_allVars PROVE [Next]_vars
  BY DEF LiquidityNext, PoolStep, CreateMetadata, MigrateAndMint, DeliverLp,
      TransferPoolCreator, Next, CreatePool, allVars

\* A pool with its LP tokens behaves as a VirtualPool: LP tokens and creator
\* transfers add to it and restrict it, and change nothing of it.
THEOREM PoolUnchanged == LiquiditySpec => Spec
  <1>1. LiquidityInit => Init
    BY DEF LiquidityInit
  <1>2. [LiquidityNext]_allVars => [Next]_vars
    BY PoolSteps
  <1> QED
    BY <1>1, <1>2, PTL DEF LiquiditySpec, Spec

-----------------------------------------------------------------------------
\* Before a DAMM v1 migration there is nothing to deliver and nothing was.
NothingMinted ==
    /\ \A k \in Kind, r \in Role : liquidity[k][r] = 0
    /\ \A k \in Kind : delivered[k] = {}
    /\ lp_vault = 0

\* An account with both roles: neither of its shares outlives the other.
RolesTogether ==
    fee_claimer = creator =>
        \A k \in Kind, r, s \in Role :
            r \in delivered[k] => Outstanding(k, s) = 0

MintedWhenCreated ==
    /\ config.migration_option # "MeteoraDamm" \/ migration_progress # "CreatedPool"
          => NothingMinted
    /\ config.migration_option = "MeteoraDamm" /\ migration_progress = "CreatedPool"
          => metadata_created

LiquidityInv == LiquidityTypeOK /\ MintedWhenCreated /\ LpBacked /\ RolesTogether

\* What a configuration's percentages are.
LEMMA PercentagesAdd ==
    ASSUME percentage \in Percentages
    PROVE  /\ \A k \in Share, r \in Role : percentage[k][r] \in Int /\ 0 <= percentage[k][r]
                                           /\ percentage[k][r] <= 100
           /\ percentage["lock"]["partner"] + percentage["lock"]["creator"]
              + percentage["claim"]["partner"] + percentage["claim"]["creator"]
              + percentage["vest"]["partner"] + percentage["vest"]["creator"] = 100
  BY LiquidityAssumption DEF LiquidityAssumption

\* Liquidity times the percentages that are rounded down, hidden from the
\* creator's rest: the six shares are natural numbers and add up to l.
LEMMA SharesAdd ==
    ASSUME percentage \in Percentages, NEW l \in Nat
    PROVE  LET d == get_liquidity_distribution(l)
           IN  /\ d \in [Share -> [Role -> Nat]]
               /\ d["lock"]["partner"] + d["lock"]["creator"] + d["claim"]["partner"]
                  + d["claim"]["creator"] + d["vest"]["partner"] + d["vest"]["creator"] = l
               /\ \A k \in {"lock", "vest"}, r \in Role :
                      /\ 100 * d[k][r] <= l * percentage[k][r]
                      /\ l * percentage[k][r] < 100 * d[k][r] + 100
  <1> DEFINE part(k, r) == MulDivDown(l, percentage[k][r], 100)
             rest == l - part("claim", "partner") - part("lock", "partner")
                       - part("vest", "partner") - part("lock", "creator")
                       - part("vest", "creator")
             d == get_liquidity_distribution(l)
  <1>1. \A k \in Share, r \in Role :
            /\ part(k, r) \in Nat /\ 100 * part(k, r) <= l * percentage[k][r]
            /\ l * percentage[k][r] < 100 * part(k, r) + 100
            /\ l * percentage[k][r] \in Int
    <2> TAKE k \in Share, r \in Role
    <2> DEFINE p == percentage[k][r]
    <2>1. p \in Int /\ 0 <= p
      BY PercentagesAdd
    <2> HIDE DEF p
    <2>2. l * p \in Nat
      BY <2>1
    <2>3. /\ MulDivDown(l, p, 100) \in Int /\ 100 * MulDivDown(l, p, 100) <= l * p
          /\ l * p < 100 * MulDivDown(l, p, 100) + 100
      BY <2>1, DownProps
    <2>4. 0 <= MulDivDown(l, p, 100)
      BY <2>2, <2>3
    <2> QED
      BY <2>2, <2>3, <2>4 DEF p
  <1>2. d = [k \in Share |-> [r \in Role |-> IF k = "claim" /\ r = "creator" THEN rest
                                                                          ELSE part(k, r)]]
    BY DEF get_liquidity_distribution
  <1>3. rest \in Nat
    <2> HIDE DEF part
    <2> DEFINE a == percentage["lock"]["partner"]
               b == percentage["lock"]["creator"]
               c == percentage["claim"]["partner"]
               e == percentage["claim"]["creator"]
               v == percentage["vest"]["partner"]
               w == percentage["vest"]["creator"]
    <2>1. /\ a \in Int /\ b \in Int /\ c \in Int /\ e \in Int /\ v \in Int /\ w \in Int
          /\ 0 <= e /\ a + b + c + e + v + w = 100
      <3>1. \A k \in Share, r \in Role : percentage[k][r] \in Int /\ 0 <= percentage[k][r]
        BY PercentagesAdd
      <3> QED
        BY <3>1, PercentagesAdd DEF Share, Kind, Role
    <2>2. /\ 100 * part("lock", "partner") <= l * a /\ 100 * part("lock", "creator") <= l * b
          /\ 100 * part("claim", "partner") <= l * c
          /\ 100 * part("vest", "partner") <= l * v /\ 100 * part("vest", "creator") <= l * w
          /\ part("lock", "partner") \in Nat /\ part("lock", "creator") \in Nat
          /\ part("claim", "partner") \in Nat
          /\ part("vest", "partner") \in Nat /\ part("vest", "creator") \in Nat
      BY <1>1 DEF Share, Kind, Role
    <2> HIDE DEF a, b, c, e, v, w
    <2>3. l * a + l * b + l * c + l * v + l * w <= 100 * l
      <3>1. a + b + c + v + w <= 100
        BY <2>1
      <3>2. l * (a + b + c + v + w) <= l * 100
        BY <2>1, <3>1, Scaled
      <3>3. l * (a + b + c + v + w) = l * a + l * b + l * c + l * v + l * w
        BY <2>1
      <3> QED
        BY <3>2, <3>3
    <2>4. l * a \in Int /\ l * b \in Int /\ l * c \in Int /\ l * v \in Int /\ l * w \in Int
      BY <2>1
    <2> QED
      BY <2>2, <2>3, <2>4
  <1> HIDE DEF d, part, rest
  <1>4. d \in [Share -> [Role -> Nat]]
    BY <1>1, <1>2, <1>3
  <1>5. /\ d["lock"]["partner"] = part("lock", "partner")
        /\ d["lock"]["creator"] = part("lock", "creator")
        /\ d["claim"]["partner"] = part("claim", "partner") /\ d["claim"]["creator"] = rest
        /\ d["vest"]["partner"] = part("vest", "partner")
        /\ d["vest"]["creator"] = part("vest", "creator")
    BY <1>2 DEF Share, Kind, Role
  <1>6. d["lock"]["partner"] + d["lock"]["creator"] + d["claim"]["partner"]
        + d["claim"]["creator"] + d["vest"]["partner"] + d["vest"]["creator"] = l
    <2>1. /\ part("lock", "partner") \in Nat /\ part("lock", "creator") \in Nat
          /\ part("claim", "partner") \in Nat
          /\ part("vest", "partner") \in Nat /\ part("vest", "creator") \in Nat
      BY <1>1 DEF Share, Kind, Role
    <2> QED
      BY <1>5, <2>1 DEF rest
  <1>7. \A k \in {"lock", "vest"}, r \in Role : d[k][r] = part(k, r)
    BY <1>5 DEF Role
  <1> QED
    BY <1>1, <1>4, <1>6, <1>7 DEF d, Share, Kind

\* The shares of the minted LP tokens add up to them, and none is negative.
LEMMA Distribution ==
    ASSUME LiquidityTypeOK, config.migration_option = "MeteoraDamm", NEW lp \in LpMinted
    PROVE  LET d == [k \in Kind |-> get_liquidity_distribution(lp)[k]]
           IN  /\ d \in [Kind -> [Role -> Nat]]
               /\ d["lock"]["partner"] + d["lock"]["creator"]
                  + d["claim"]["partner"] + d["claim"]["creator"] = lp
  <1> DEFINE g == get_liquidity_distribution(lp)
             d == [k \in Kind |-> g[k]]
  <1>1. lp \in Nat
    BY LiquidityAssumption, U64Props DEF LiquidityAssumption
  <1>2. /\ g \in [Share -> [Role -> Nat]]
        /\ g["lock"]["partner"] + g["lock"]["creator"] + g["claim"]["partner"]
           + g["claim"]["creator"] + g["vest"]["partner"] + g["vest"]["creator"] = lp
        /\ \A r \in Role : 100 * g["vest"][r] <= lp * percentage["vest"][r]
    BY <1>1, SharesAdd DEF LiquidityTypeOK
  <1>3. \A r \in Role : percentage["vest"][r] = 0
    BY DEF LiquidityTypeOK, VestsNothing
  <1> HIDE DEF g
  <1>4. \A r \in Role : g["vest"][r] = 0
    <2> TAKE r \in Role
    <2>1. g["vest"][r] \in Nat /\ 100 * g["vest"][r] <= lp * 0
      BY <1>2, <1>3 DEF Share
    <2> QED
      BY <1>1, <2>1
  <1>5. d \in [Kind -> [Role -> Nat]]
    BY <1>2 DEF Share
  <1>6. d["lock"]["partner"] + d["lock"]["creator"] + d["claim"]["partner"]
        + d["claim"]["creator"] = lp
    <2>1. d["lock"] = g["lock"] /\ d["claim"] = g["claim"]
      BY DEF Kind
    <2>2. \A k \in Kind, r \in Role : g[k][r] \in Nat
      BY <1>2 DEF Share
    <2> QED
      BY <1>1, <1>2, <1>4, <2>1, <2>2 DEF Kind, Role
  <1> QED
    BY <1>5, <1>6 DEF g

\* No step of the pool changes its configuration.
LEMMA ConfigFixed ==
    ASSUME TypeOK, [Next]_vars
    PROVE  UNCHANGED <<config, protocol_liquidity_migration_fee_bps>>
  <1>1. CASE Trade
    <2>1. PICK r : \E v \in BOOLEAN : process_swap(r, v)
      BY <1>1 DEF Trade, Swap, VirtualSwap
    <2> QED
      BY <2>1 DEF process_swap, configVars
  <1>2. CASE ~Trade
    BY <1>2, OtherSteps DEF configVars
  <1> QED
    BY <1>1, <1>2

\* The composition starts in the invariant.
LEMMA LiquidityInvInit == LiquidityInit => LiquidityInv
  <1> SUFFICES ASSUME LiquidityInit PROVE LiquidityInv
    OBVIOUS
  <1> USE DEF LiquidityInit, Kind, Role
  <1>1. TypeOK
    BY TypeInit
  <1>2. 0 \in U64
    BY ConfigAssumption DEF ConfigAssumption, U64
  <1>3. LiquidityTypeOK
    BY <1>1, <1>2 DEF LiquidityTypeOK
  <1>4. NothingMinted
    BY DEF NothingMinted
  <1>5. migration_progress # "CreatedPool"
    BY DEF Init
  <1>6. LpBacked
    BY DEF LpBacked, Outstanding
  <1> QED
    BY <1>3, <1>4, <1>5, <1>6 DEF LiquidityInv, MintedWhenCreated, RolesTogether

\* The pool's own steps: they deliver nothing and only DAMM v2 pools migrate.
LEMMA PoolStepKeeps ==
    ASSUME LiquidityInv, PayoutsFollowSale, PoolStep, LiquidityTypeOK'
    PROVE  LiquidityInv'
  <1>0. TypeOK /\ [Next]_vars
    BY DEF LiquidityInv, LiquidityTypeOK, PoolStep, Next, CreatePool
  <1>1. UNCHANGED <<config, creator, liquidity, delivered, lp_vault, metadata_created>>
    <2>1. UNCHANGED config
      BY <1>0, ConfigFixed
    <2> QED
      BY <2>1 DEF PoolStep, lpVars
  <1>2. \/ migration_progress' = "CreatedPool" <=> migration_progress = "CreatedPool"
        \/ config.migration_option = "DammV2"
    <2>1. CASE Trade
      <3>1. PICK r : \E v \in BOOLEAN : process_swap(r, v)
        BY <2>1 DEF Trade, Swap, VirtualSwap
      <3> QED
        BY <1>0, <3>1, SwapBeforeCompletion
    <2>2. CASE Claim
      BY <2>2 DEF Claim, ClaimProtocolFee, ClaimProtocolFee2, ZapProtocolFee,
          ClaimTradingFee, PartnerWithdrawSurplus, CreatorWithdrawSurplus,
          WithdrawSurplus, WithdrawMigrationFee, WithdrawLeftover, statusVars
    <2>3. CASE CreateLocker \/ Tick
      BY <2>3 DEF CreateLocker, CreateLockerAfterDeadline, Tick, statusVars
    <2>4. CASE \E bd, qd \in 0..MaxDust : MigrateDammV2(bd, qd)
      BY <2>4 DEF MigrateDammV2
    <2> QED
      BY <2>1, <2>2, <2>3, <2>4 DEF PoolStep
  <1>3. LpBacked' /\ RolesTogether'
    BY <1>1 DEF LiquidityInv, LpBacked, RolesTogether, Outstanding
  <1>4. MintedWhenCreated'
    BY <1>1, <1>2 DEF LiquidityInv, MintedWhenCreated, NothingMinted
  <1> QED
    BY <1>3, <1>4 DEF LiquidityInv

\* The migration mints what it then has to deliver.
LEMMA MintKeeps ==
    ASSUME LiquidityInv, NEW lp \in LpMinted, MigrateAndMint(lp), LiquidityTypeOK'
    PROVE  LiquidityInv'
  <1>1. /\ migration_progress # "CreatedPool" /\ migration_progress' = "CreatedPool"
        /\ config.migration_option = "MeteoraDamm" /\ UNCHANGED config
        /\ metadata_created /\ UNCHANGED <<metadata_created, delivered>>
    BY DEF MigrateAndMint, MigrateMeteoraDamm, Migrate, MigrateAfterDeadline, configVars
  <1>2. delivered' = delivered /\ \A k \in Kind : delivered[k] = {}
    BY <1>1 DEF LiquidityInv, MintedWhenCreated, NothingMinted
  <1>3. LpBacked'
    <2>1. /\ lp_vault' = lp
          /\ liquidity' \in [Kind -> [Role -> Nat]]
          /\ liquidity'["lock"]["partner"] + liquidity'["lock"]["creator"]
             + liquidity'["claim"]["partner"] + liquidity'["claim"]["creator"] = lp
      BY <1>1, Distribution DEF MigrateAndMint, LiquidityInv
    <2> QED
      BY <1>2, <2>1 DEF LpBacked, Outstanding, Kind, Role
  <1>4. RolesTogether'
    BY <1>2 DEF RolesTogether, Outstanding
  <1> QED
    BY <1>1, <1>3, <1>4 DEF LiquidityInv, MintedWhenCreated

\* A delivery takes from the account what stops being outstanding.
LEMMA DeliverKeeps ==
    ASSUME LiquidityInv, NEW kind \in Kind, NEW owner \in Accounts,
           DeliverLp(kind, owner), LiquidityTypeOK'
    PROVE  LiquidityInv'
  <1>1. /\ UNCHANGED <<config, migration_progress, creator, metadata_created, liquidity>>
        /\ migration_progress = "CreatedPool" /\ metadata_created
        /\ Roles(owner) \cap delivered[kind] = {} /\ Roles(owner) # {}
        /\ lp_vault' = lp_vault - AmountFor(kind, Roles(owner))
        /\ AmountFor(kind, Roles(owner)) \in 1..lp_vault
        /\ delivered' = [delivered EXCEPT ![kind] = delivered[kind] \cup Roles(owner)]
    BY DEF DeliverLp, CanDeliver, Flagged, vars, configVars, statusVars
  <1>2. /\ liquidity \in [Kind -> [Role -> Nat]] /\ delivered \in [Kind -> SUBSET Role]
        /\ lp_vault \in Int
    BY U64Props DEF LiquidityInv, LiquidityTypeOK
  <1>3. config.migration_option = "MeteoraDamm"
    <2>1. CASE config.migration_option # "MeteoraDamm"
      <3>1. lp_vault = 0
        BY <2>1 DEF LiquidityInv, MintedWhenCreated, NothingMinted
      <3> QED
        BY <1>1, <3>1
    <2> QED
      BY <2>1
  <1>4. MintedWhenCreated'
    BY <1>1, <1>3 DEF MintedWhenCreated
  <1>5. \A k \in Kind \ {kind} : delivered'[k] = delivered[k]
    BY <1>1, <1>2
  <1>6. delivered'[kind] = delivered[kind] \cup Roles(owner)
    BY <1>1, <1>2
  <1>7. LpBacked'
    <2> DEFINE Left(k, D) == (IF "partner" \in D THEN 0 ELSE liquidity[k]["partner"])
                             + (IF "creator" \in D THEN 0 ELSE liquidity[k]["creator"])
    <2>1. \A k \in Kind : liquidity[k]["partner"] \in Nat /\ liquidity[k]["creator"] \in Nat
      BY <1>2 DEF Kind, Role
    <2>2. lp_vault = Left("lock", delivered["lock"]) + Left("claim", delivered["claim"])
      BY <1>2, <2>1 DEF LiquidityInv, LpBacked, Outstanding, Kind
    <2>3. Left(kind, delivered'[kind]) = Left(kind, delivered[kind])
                                         - AmountFor(kind, Roles(owner))
      BY <1>1, <1>6, <2>1 DEF AmountFor
    <2>4. \A k \in Kind \ {kind} : Left(k, delivered'[k]) = Left(k, delivered[k])
      BY <1>5
    <2>5. \A k \in Kind : \A D : Left(k, D) \in Int
      BY <2>1
    <2>6. AmountFor(kind, Roles(owner)) \in Int
      BY <1>1, <1>2
    <2>7. LpBacked' <=> lp_vault' = Left("lock", delivered'["lock"])
                                    + Left("claim", delivered'["claim"])
      <3>1. liquidity' = liquidity
        BY <1>1
      <3> QED
        BY <2>1, <3>1 DEF LpBacked, Outstanding, Kind
    <2> HIDE DEF Left
    <2>8. CASE kind = "lock"
      <3>1. Left("claim", delivered'["claim"]) = Left("claim", delivered["claim"])
        BY <2>4, <2>8 DEF Kind
      <3> QED
        BY <1>1, <1>2, <2>2, <2>3, <2>5, <2>6, <2>7, <2>8, <3>1 DEF Kind
    <2>9. CASE kind = "claim"
      <3>1. Left("lock", delivered'["lock"]) = Left("lock", delivered["lock"])
        BY <2>4, <2>9 DEF Kind
      <3> QED
        BY <1>1, <1>2, <2>2, <2>3, <2>5, <2>6, <2>7, <2>9, <3>1 DEF Kind
    <2> QED
      BY <2>8, <2>9 DEF Kind
  <1>8. RolesTogether'
    <2> SUFFICES ASSUME fee_claimer = creator, NEW k \in Kind, NEW r \in Role, NEW s \in Role,
                        r \in delivered'[k]
                 PROVE  Outstanding(k, s)' = 0
      BY <1>1 DEF RolesTogether
    <2>1. CASE k = kind
      <3>1. s \in delivered'[k]
        BY <1>1, <1>6, <2>1 DEF Roles, Role
      <3> QED
        BY <3>1 DEF Outstanding
    <2>2. CASE k # kind
      BY <1>1, <1>5, <2>2 DEF LiquidityInv, RolesTogether, Outstanding
    <2> QED
      BY <2>1, <2>2
  <1> QED
    BY <1>4, <1>7, <1>8 DEF LiquidityInv

\* A pool changes hands only while nothing is outstanding.
LEMMA TransferKeeps ==
    ASSUME LiquidityInv, NEW new_creator \in Accounts,
           TransferPoolCreator(new_creator), LiquidityTypeOK'
    PROVE  LiquidityInv'
  <1>1. UNCHANGED <<config, migration_progress, metadata_created, liquidity, delivered, lp_vault>>
    BY DEF TransferPoolCreator, vars, configVars, statusVars, lpVars
  <1>2. MintedWhenCreated' /\ LpBacked'
    BY <1>1 DEF LiquidityInv, MintedWhenCreated, NothingMinted, LpBacked, Outstanding
  <1>3. \A k \in Kind, r \in Role : Outstanding(k, r) = 0
    <2>1. CASE NothingMinted
      BY <2>1 DEF NothingMinted, Outstanding
    <2>2. CASE ~NothingMinted
      BY <2>2 DEF LiquidityInv, MintedWhenCreated, TransferPoolCreator, AllDelivered, Outstanding
    <2> QED
      BY <2>1, <2>2
  <1>4. RolesTogether'
    BY <1>1, <1>3 DEF RolesTogether, Outstanding
  <1> QED
    BY <1>2, <1>4 DEF LiquidityInv

\* No step leaves the types.
LEMMA LiquidityTypeStep ==
    ASSUME LiquidityTypeOK, [LiquidityNext]_allVars
    PROVE  LiquidityTypeOK'
  <1>1. TypeOK'
    BY PoolSteps, TypeStep DEF LiquidityTypeOK
  <1>0. UNCHANGED config
    BY PoolSteps, ConfigFixed DEF LiquidityTypeOK
  <1> USE <1>0, <1>1 DEF LiquidityTypeOK, VestsNothing
  <1>2. CASE PoolStep
    BY <1>2 DEF PoolStep, lpVars
  <1>3. CASE CreateMetadata
    BY <1>3 DEF CreateMetadata
  <1>4. ASSUME NEW lp \in LpMinted, MigrateAndMint(lp) PROVE LiquidityTypeOK'
    <2>1. lp \in U64
      BY LiquidityAssumption DEF LiquidityAssumption
    <2>2. liquidity' \in [Kind -> [Role -> Nat]]
      BY <1>4, Distribution DEF MigrateAndMint, MigrateMeteoraDamm
    <2> QED
      BY <1>4, <2>1, <2>2 DEF MigrateAndMint
  <1>5. ASSUME NEW kind \in Kind, NEW owner \in Accounts, DeliverLp(kind, owner)
        PROVE  LiquidityTypeOK'
    <2>1. lp_vault' \in U64
      <3>1. lp_vault \in Int /\ lp_vault <= U64Max /\ U64Max \in Int
        BY U64Props, ConfigAssumption DEF ConfigAssumption
      <3>2. AmountFor(kind, Roles(owner)) \in 1..lp_vault
            /\ lp_vault' = lp_vault - AmountFor(kind, Roles(owner))
        BY <1>5 DEF DeliverLp, CanDeliver
      <3> HIDE DEF LiquidityTypeOK
      <3> QED
        BY <3>1, <3>2 DEF U64
    <2>2. delivered' \in [Kind -> SUBSET Role]
      BY <1>5 DEF DeliverLp, Flagged, Roles
    <2> QED
      BY <1>5, <2>1, <2>2 DEF DeliverLp
  <1>6. ASSUME NEW new_creator \in Accounts, TransferPoolCreator(new_creator)
        PROVE  LiquidityTypeOK'
    BY <1>6 DEF TransferPoolCreator, lpVars
  <1>7. CASE UNCHANGED allVars
    BY <1>7 DEF allVars, lpVars
  <1> QED
    BY <1>2, <1>3, <1>4, <1>5, <1>6, <1>7 DEF LiquidityNext

\* Every step keeps the invariant.
LEMMA LiquidityInvStep ==
    LiquidityInv /\ PayoutsFollowSale /\ [LiquidityNext]_allVars => LiquidityInv'
  <1> SUFFICES ASSUME LiquidityInv, PayoutsFollowSale, [LiquidityNext]_allVars
               PROVE  LiquidityInv'
    OBVIOUS
  <1>1. LiquidityTypeOK'
    BY LiquidityTypeStep DEF LiquidityInv
  <1>2. CASE CreateMetadata \/ UNCHANGED allVars
    <2>1. UNCHANGED <<config, migration_progress, creator, liquidity, delivered, lp_vault>>
          /\ (metadata_created => metadata_created')
      BY <1>2 DEF CreateMetadata, allVars, vars, configVars, statusVars, lpVars
    <2> QED
      BY <1>1, <2>1 DEF LiquidityInv, MintedWhenCreated, NothingMinted, LpBacked,
          RolesTogether, Outstanding
  <1> QED
    BY <1>1, <1>2, PoolStepKeeps, MintKeeps, DeliverKeeps, TransferKeeps DEF LiquidityNext

-----------------------------------------------------------------------------
\* The invariant holds of every behaviour.
LEMMA LiquidityInvariant == LiquiditySpec => []LiquidityInv
  <1>1. LiquiditySpec => []PayoutsFollowSale
    BY PoolUnchanged, PayoutsInOrder, PTL
  <1> QED
    BY <1>1, LiquidityInvInit, LiquidityInvStep, PTL DEF LiquiditySpec

\* The flags, amounts and balance keep their types.
THEOREM LiquidityTyped == LiquiditySpec => []LiquidityTypeOK
  <1>1. LiquidityInv => LiquidityTypeOK
    BY DEF LiquidityInv
  <1> QED
    BY <1>1, LiquidityInvariant, PTL

\* The LP account of the pool authority always holds exactly what the two
\* parties have not been served yet, whoever sends which delivery and when,
\* for every split of the liquidity and every amount minted.
THEOREM LpConserved == LiquiditySpec => []LpBacked
  <1>1. LiquidityInv => LpBacked
    BY DEF LiquidityInv
  <1> QED
    BY <1>1, LiquidityInvariant, PTL

\* No order of deliveries and creator transfers strands a share: the holder
\* of the role it belongs to can always be served.
THEOREM SharesDeliverable == LiquiditySpec => []NoStrandedShare
  <1>1. LiquidityInv => NoStrandedShare
    <2> SUFFICES ASSUME LiquidityInv, NEW k \in Kind, NEW r \in Role, Outstanding(k, r) > 0
                 PROVE  CanDeliver(k, IF r = "partner" THEN fee_claimer ELSE creator)
      BY DEF NoStrandedShare
    <2> DEFINE owner == IF r = "partner" THEN fee_claimer ELSE creator
    <2>1. migration_progress = "CreatedPool" /\ metadata_created
      <3>1. ~NothingMinted
        BY DEF NothingMinted, Outstanding
      <3> QED
        BY <3>1 DEF LiquidityInv, MintedWhenCreated
    <2>2. r \in Roles(owner) /\ Roles(owner) \subseteq Role
      BY DEF Roles, Role
    <2>3. Roles(owner) \cap delivered[k] = {}
      <3> SUFFICES ASSUME NEW s \in Roles(owner), s \in delivered[k] PROVE FALSE
        OBVIOUS
      <3>1. CASE s = r
        BY <3>1 DEF Outstanding
      <3>2. CASE s # r
        <4>1. fee_claimer = creator
          BY <3>2 DEF Roles, Role
        <4> QED
          BY <2>2, <4>1 DEF LiquidityInv, RolesTogether
      <3> QED
        BY <3>1, <3>2
    <2>4. AmountFor(k, Roles(owner)) \in 1..lp_vault
      <3>1. \A x \in Kind, s \in Role : liquidity[x][s] \in Nat /\ Outstanding(x, s) \in Nat
        BY DEF LiquidityInv, LiquidityTypeOK, Outstanding
      <3>2. \A s \in Roles(owner) : liquidity[k][s] = Outstanding(k, s)
        BY <2>3 DEF Outstanding
      <3>3. AmountFor(k, Roles(owner)) \in Nat /\ AmountFor(k, Roles(owner)) >= 1
        BY <2>2, <3>1, <3>2 DEF AmountFor, Role
      <3>4. AmountFor(k, Roles(owner)) <= Outstanding(k, "partner") + Outstanding(k, "creator")
        BY <2>2, <3>1, <3>2 DEF AmountFor, Role
      <3>5. Outstanding(k, "partner") + Outstanding(k, "creator") <= lp_vault
        BY <3>1 DEF LiquidityInv, LpBacked, Kind, Role
      <3>6. lp_vault \in Int
        BY U64Props DEF LiquidityInv, LiquidityTypeOK
      <3> QED
        BY <3>1, <3>3, <3>4, <3>5, <3>6 DEF Role
    <2> QED
      BY <2>1, <2>2, <2>3, <2>4 DEF CanDeliver
  <1> QED
    BY <1>1, LiquidityInvariant, PTL

-----------------------------------------------------------------------------
(***************************************************************************)
(* Vestings of DAMM v2 positions.                                          *)
(***************************************************************************)

\* The liquidity a period unlocks of w.
PerPeriod(info, w) ==
    IF info.number_of_periods > 0
    THEN MulDivDown(w, info.bps_per_period * info.number_of_periods, BASIS_POINT_MAX)
             \div info.number_of_periods
    ELSE 0

\* It is bps_per_period of w, rounded down once for both divisions.
LEMMA PeriodProps ==
    ASSUME NEW info \in VestingInfo, NEW w \in Nat
    PROVE  LET b == info.bps_per_period
               n == info.number_of_periods
               per == PerPeriod(info, w)
           IN  /\ b \in Nat /\ n \in Nat /\ b <= 10000 /\ per \in Nat
               /\ n = 0 => per = 0
               /\ n > 0 => 10000 * per <= w * b /\ w * b < 10000 * per + 10000
  <1> DEFINE b == info.bps_per_period
             n == info.number_of_periods
             per == PerPeriod(info, w)
  <1>0. b \in 0..BASIS_POINT_MAX /\ n \in Nat
    BY Zenon DEF VestingInfo
  <1> HIDE DEF b, n
  <1>1. b \in Nat /\ n \in Nat /\ b <= 10000
    BY <1>0 DEF BASIS_POINT_MAX
  <1> USE DEF b, n
  <1>2. CASE n = 0
    BY <1>1, <1>2 DEF PerPeriod
  <1>3. CASE n > 0
    <2> DEFINE m == b * n
               after == MulDivDown(w, m, 10000)
    <2>1. per = after \div n
      BY <1>1, <1>3 DEF PerPeriod, BASIS_POINT_MAX
    <2> HIDE DEF b, n, per
    <2>0. m \in Nat
      BY <1>1
    <2>6. w * m = n * (w * b) /\ w * b \in Int /\ n * (w * b) \in Int
      BY <1>1
    <2> HIDE DEF m
    <2>2. after \in Int /\ 10000 * after <= w * m /\ w * m < 10000 * after + 10000
      BY <2>0, DownProps
    <2>3. after >= 0
      <3>1. w * m \in Nat
        BY <2>0
      <3> QED
        BY <2>2, <3>1
    <2> HIDE DEF after
    <2>4. per \in Int /\ n * per <= after /\ after < n * per + n
      BY <1>1, <1>3, <2>1, <2>2, Floor
    <2>5. per >= 0
      <3>1. n * 0 < n * (per + 1)
        <4>1. n * 0 = 0 /\ n * (per + 1) = n * per + n /\ n * per \in Int
          BY <1>1, <2>4
        <4> QED
          BY <1>1, <2>2, <2>3, <2>4, <4>1
      <3>2. 0 < per + 1
        BY <1>1, <1>3, <2>4, <3>1, Cancel
      <3> QED
        BY <2>4, <3>2
    <2>7. 10000 * per <= w * b
      <3>1. n * (10000 * per) <= n * (w * b)
        <4>1. n * (10000 * per) = 10000 * (n * per) /\ n * per \in Int
          BY <1>1, <2>4
        <4> QED
          BY <2>2, <2>4, <2>6, <4>1
      <3> QED
        BY <1>1, <1>3, <2>4, <2>6, <3>1, Cancel
    <2>8. w * b < 10000 * per + 10000
      <3>1. n * (w * b) < n * (10000 * per + 10000)
        <4>1. n * (10000 * per + 10000) = 10000 * (n * per + n) /\ n * per \in Int
          BY <1>1, <2>4
        <4> QED
          BY <1>1, <2>2, <2>4, <2>6, <4>1
      <3>2. 10000 * per + 10000 \in Int
        BY <2>4
      <3> QED
        BY <1>1, <1>3, <2>6, <3>1, <3>2, Cancel
    <2> QED
      BY <1>1, <1>3, <2>4, <2>5, <2>7, <2>8 DEF b, n, per
  <1> QED
    BY <1>1, <1>2, <1>3

\* The fields of a position's vesting.
LEMMA VestingFields ==
    ASSUME NEW info \in VestingInfo, NEW w \in Nat, NEW now \in Nat
    PROVE  LET v == get_damm_v2_vesting_parameters(info, w, now)
               cliff == info.cliff_duration_from_migration_time
               per == PerPeriod(info, w)
           IN  /\ cliff \in Nat /\ info.frequency \in Nat
               /\ v.liquidity_per_period = per
               /\ per = 0 => /\ v.cliff_point = now + (IF cliff = 0 THEN 1 ELSE cliff)
                             /\ v.cliff_unlock_liquidity = w
                             /\ v.period_frequency = 0 /\ v.number_of_period = 0
               /\ per # 0 => /\ v.cliff_point = now + cliff
                             /\ v.cliff_unlock_liquidity = w - per * info.number_of_periods
                             /\ v.period_frequency = info.frequency
                             /\ v.number_of_period = info.number_of_periods
  <1> DEFINE v == get_damm_v2_vesting_parameters(info, w, now)
             per == PerPeriod(info, w)
             cliff == info.cliff_duration_from_migration_time
             n == info.number_of_periods
  <1>1. cliff \in Nat /\ info.frequency \in Nat /\ n \in Nat
    BY DEF VestingInfo
  <1>2. v = [cliff_point            |-> now + (IF per = 0 /\ cliff = 0 THEN 1 ELSE cliff),
             liquidity_per_period   |-> per,
             cliff_unlock_liquidity |-> w - per * (IF per = 0 THEN 0 ELSE n),
             period_frequency       |-> IF per = 0 THEN 0 ELSE info.frequency,
             number_of_period       |-> IF per = 0 THEN 0 ELSE n]
    BY DEF get_damm_v2_vesting_parameters, PerPeriod
  <1> HIDE DEF v, per, cliff, n
  <1>3. ASSUME per = 0
        PROVE  /\ v.cliff_point = now + (IF cliff = 0 THEN 1 ELSE cliff)
               /\ v.cliff_unlock_liquidity = w
               /\ v.period_frequency = 0 /\ v.number_of_period = 0
    <2>1. w - per * 0 = w
      BY <1>3
    <2> QED
      BY <1>2, <1>3, <2>1
  <1>4. ASSUME per # 0
        PROVE  /\ v.cliff_point = now + cliff
               /\ v.cliff_unlock_liquidity = w - per * n
               /\ v.period_frequency = info.frequency /\ v.number_of_period = n
    BY <1>2, <1>4
  <1>5. v.liquidity_per_period = per
    BY <1>2
  <1> QED
    BY <1>1, <1>3, <1>4, <1>5 DEF v, per, cliff, n

\* The largest liquidity shows whether the periods unlock more than all of it.
LEMMA PeriodsUnlockAtMostAll ==
    ASSUME NEW info \in VestingInfo, NEW w \in Nat, w >= BASIS_POINT_MAX,
           info.bps_per_period * info.number_of_periods > BASIS_POINT_MAX =>
               w > BASIS_POINT_MAX * info.number_of_periods,
           validate_vesting_parameters(get_damm_v2_vesting_parameters(info, w, 0), 0)
    PROVE  info.bps_per_period * info.number_of_periods <= 10000
  <1> DEFINE b == info.bps_per_period
             n == info.number_of_periods
             per == PerPeriod(info, w)
             m == b * n
  <1>1. /\ b \in Nat /\ n \in Nat /\ per \in Nat
        /\ n > 0 => 10000 * per <= w * b /\ w * b < 10000 * per + 10000
    BY PeriodProps
  <1>2. per # 0 => w - per * n >= 0
    BY VestingFields DEF validate_vesting_parameters
  <1>3. w >= 10000 /\ (m > 10000 => w > 10000 * n)
    BY DEF BASIS_POINT_MAX
  <1> HIDE DEF b, n, per
  <1>4. m \in Nat
    BY <1>1
  <1> SUFFICES ASSUME m > 10000 PROVE FALSE
    BY <1>4 DEF b, n
  <1>5. b > 0 /\ n > 0
    BY <1>1
  <1>6. w * 1 <= w * b
    BY <1>1, <1>5, Scaled
  <1>7. per # 0 /\ w * b \in Int
    BY <1>1, <1>3, <1>5, <1>6
  <1>8. n * (w * b) < n * (10000 * per + 10000)
    BY <1>1, <1>5, <1>7
  <1>9. n * (w * b) = w * m /\ n * (10000 * per + 10000) = 10000 * (per * n) + 10000 * n
        /\ per * n \in Int
    BY <1>1
  <1> HIDE DEF m
  <1>10. w * 10001 <= w * m /\ w * m \in Int
    BY <1>4, Scaled
  <1> QED
    BY <1>1, <1>2, <1>3, <1>7, <1>8, <1>9, <1>10

\* A vesting accepted for the largest liquidity is accepted for every other
\* one, whenever the migration happens.
LEMMA VestingAccepted ==
    ASSUME NEW info \in VestingInfo, NEW w \in Nat, w >= BASIS_POINT_MAX,
           info.bps_per_period * info.number_of_periods > BASIS_POINT_MAX =>
               w > BASIS_POINT_MAX * info.number_of_periods,
           validate_vesting_parameters(get_damm_v2_vesting_parameters(info, w, 0), 0),
           NEW y \in Nat, y > 0, NEW now \in Nat
    PROVE  validate_vesting_parameters(get_damm_v2_vesting_parameters(info, y, now), now)
  <1> DEFINE b == info.bps_per_period
             n == info.number_of_periods
             cliff == info.cliff_duration_from_migration_time
             freq == info.frequency
             per == PerPeriod(info, y)
             most == PerPeriod(info, w)
             v == get_damm_v2_vesting_parameters(info, y, now)
             V == get_damm_v2_vesting_parameters(info, w, 0)
             M == MAX_LOCK_DURATION_IN_SECONDS
  <1>1. /\ b \in Nat /\ n \in Nat /\ per \in Nat /\ most \in Nat
        /\ n = 0 => per = 0
        /\ n > 0 => 10000 * per <= y * b
        /\ n > 0 => w * b < 10000 * most + 10000
    BY PeriodProps
  <1>2. b * n <= 10000
    BY PeriodsUnlockAtMostAll
  <1>3. cliff \in Nat /\ freq \in Nat /\ M \in Nat /\ w >= 10000
    BY VestingFields, PositionsAssumption DEF PositionsAssumption, BASIS_POINT_MAX
  <1>4. /\ v.liquidity_per_period = per
        /\ per = 0 => /\ v.cliff_point = now + (IF cliff = 0 THEN 1 ELSE cliff)
                      /\ v.cliff_unlock_liquidity = y
                      /\ v.period_frequency = 0 /\ v.number_of_period = 0
        /\ per # 0 => /\ v.cliff_point = now + cliff
                      /\ v.cliff_unlock_liquidity = y - per * n
                      /\ v.period_frequency = freq /\ v.number_of_period = n
    BY VestingFields
  <1>5. /\ most = 0 => (IF cliff = 0 THEN 1 ELSE cliff) <= M
        /\ most # 0 => (n > 0 => freq > 0)
        /\ most # 0 => cliff + freq * n <= M
    <2>1. /\ most = 0 => /\ V.cliff_point = 0 + (IF cliff = 0 THEN 1 ELSE cliff)
                         /\ V.period_frequency = 0 /\ V.number_of_period = 0
          /\ most # 0 => /\ V.cliff_point = 0 + cliff
                         /\ V.period_frequency = freq /\ V.number_of_period = n
      BY VestingFields
    <2>2. /\ V.number_of_period > 0 => V.period_frequency > 0
          /\ V.cliff_point - 0 + V.period_frequency * V.number_of_period <= M
      BY DEF validate_vesting_parameters
    <2> HIDE DEF V, n, freq, cliff, most, M
    <2>3. freq * n \in Int
      BY <1>1, <1>3
    <2> QED
      BY <1>1, <1>3, <2>1, <2>2, <2>3
  <1> HIDE DEF b, n, cliff, freq, per, most, v, V, M
  <1>6. per # 0 => most # 0
    <2> SUFFICES ASSUME per # 0 PROVE most # 0
      OBVIOUS
    <2>1. n > 0
      BY <1>1
    <2>2. b > 0
      <3> SUFFICES ASSUME b = 0 PROVE FALSE
        BY <1>1
      <3>1. y * b = 0
        BY <1>1
      <3> QED
        BY <1>1, <2>1, <3>1
    <2>3. w * 1 <= w * b
      BY <1>1, <2>2, Scaled
    <2> QED
      BY <1>1, <1>3, <2>1, <2>3
  <1>7. CASE per = 0
    <2>1. (IF cliff = 0 THEN 1 ELSE cliff) <= M
      <3>1. CASE most = 0
        BY <1>5, <3>1
      <3>2. CASE most # 0
        <4>1. n > 0
          <5> SUFFICES ASSUME n = 0 PROVE FALSE
            BY <1>1
          <5>1. most = 0
            BY PeriodProps DEF n, most
          <5> QED
            BY <3>2, <5>1
        <4>2. freq * n >= 1 /\ freq * n \in Int
          BY <1>1, <1>3, <1>5, <3>2, <4>1
        <4> QED
          BY <1>3, <1>5, <3>2, <4>2
      <3> QED
        BY <3>1, <3>2
    <2> DEFINE e == IF cliff = 0 THEN 1 ELSE cliff
    <2>2. e \in Nat /\ e > 0 /\ e <= M
      BY <1>3, <2>1
    <2>3. /\ v.liquidity_per_period = 0 /\ v.cliff_point = now + e
          /\ v.cliff_unlock_liquidity = y /\ v.period_frequency = 0 /\ v.number_of_period = 0
      BY <1>4, <1>7
    <2> HIDE DEF e
    <2>4. validate_vesting_parameters(v, now)
      BY <1>3, <2>2, <2>3 DEF validate_vesting_parameters, M
    <2> QED
      BY <2>4 DEF v
  <1>8. CASE per # 0
    <2>1. n > 0 /\ freq > 0 /\ cliff + freq * n <= M
      BY <1>1, <1>5, <1>6, <1>8
    <2>2. per * n <= y /\ per * n \in Int
      <3>1. 10000 * (per * n) <= y * (b * n)
        <4>1. n * (10000 * per) <= n * (y * b)
          BY <1>1, <2>1, Scaled
        <4>2. n * (10000 * per) = 10000 * (per * n) /\ n * (y * b) = y * (b * n)
          BY <1>1
        <4> QED
          BY <4>1, <4>2
      <3>2. y * (b * n) <= y * 10000
        <4>1. b * n \in Int
          BY <1>1
        <4> QED
          BY <1>2, <4>1, Scaled
      <3>3. per * n \in Int /\ y * (b * n) \in Int
        BY <1>1
      <3> QED
        BY <3>1, <3>2, <3>3
    <2>3. freq * n \in Int
      BY <1>1, <1>3
    <2> DEFINE g == per * n
               h == freq * n
    <2>4. /\ v.liquidity_per_period = per /\ v.cliff_point = now + cliff
          /\ v.cliff_unlock_liquidity = y - g /\ v.period_frequency = freq
          /\ v.number_of_period = n
          /\ v.liquidity_per_period * v.number_of_period = g
          /\ v.period_frequency * v.number_of_period = h
      BY <1>4, <1>8
    <2>5. g \in Int /\ h \in Int /\ g <= y /\ cliff + h <= M
      BY <2>1, <2>2, <2>3
    <2> HIDE DEF g, h
    <2>6. validate_vesting_parameters(v, now)
      BY <1>1, <1>3, <1>8, <2>1, <2>4, <2>5 DEF validate_vesting_parameters, M
    <2> QED
      BY <2>6 DEF v
  <1> QED
    BY <1>7, <1>8

-----------------------------------------------------------------------------
(***************************************************************************)
(* The tokens offered to a DAMM v2 pool.                                   *)
(***************************************************************************)

\* The parts of Migration.
Initial == get_initial_pool_information(BaseOffered, QuoteOffered)

Item(r) == [k \in Share |-> get_liquidity_distribution(Initial.distributable)[k][r]]

FirstRole ==
    IF get_total_liquidity(Item("partner")) > get_total_liquidity(Item("creator"))
    THEN "partner" ELSE "creator"

FirstPool ==
    DammPool(Initial.sqrt_price, get_total_liquidity(Item(FirstRole)) + Initial.dead)

LeftBase == BaseOffered - FirstPool.base

LeftQuote == QuoteOffered - FirstPool.quote

SecondTotal == calculate_liquidity_delta(LeftBase, LeftQuote, FirstPool)

CreatedItem(r) ==
    IF r = FirstRole THEN Item(r)
    ELSE IF SecondTotal > 0 THEN adjust_liquidity(r, Item(r), SecondTotal)
    ELSE [k \in Share |-> 0]

\* A pool that the migration's liquidity check lets through.
Sufficient ==
    /\ TypeOK /\ OnCurve
    /\ percentage \in Percentages
    /\ config.migration_option = "DammV2"
    /\ SufficientForMigration

\* It also has a price that a compounding pool can be created with.
Ready == Sufficient /\ (config.compounding => Initial.ok)

\* The prices.
LEMMA SufficientPrices ==
    ASSUME Sufficient
    PROVE  /\ MIN_SQRT_PRICE \in Nat \ {0} /\ MAX_SQRT_PRICE \in Nat /\ sqrt_price \in Nat
           /\ 0 < sqrt_price /\ sqrt_price < MAX_SQRT_PRICE
           /\ ~config.compounding => MIN_SQRT_PRICE < sqrt_price
           /\ Scale * Scale \in Nat /\ Scale * Scale > 0
           /\ MigrationBase \in Nat \ {0} /\ MigrationQuote \in Nat \ {0}
           /\ config.compounding => IsConstantProduct(config)
           /\ ~config.compounding => ~IsConstantProduct(config)
  <1>1. config \in Configs /\ sqrt_price \in Nat
    BY DEF Sufficient, TypeOK
  <1>2. MIN_SQRT_PRICE \in Nat \ {0} /\ MAX_SQRT_PRICE \in Nat
    BY ConfigAssumption DEF ConfigAssumption
  <1>3. Bound(config, 0) \in Int /\ Bound(config, 0) > 0 /\ Scale * Scale \in Int
        /\ Scale * Scale > 0
    BY <1>1, CurveShape
  <1>4. config.migration_sqrt_price \in Int /\ config.migration_sqrt_price < MAX_SQRT_PRICE
    BY <1>1, MigrationPrice
  <1>5. Bound(config, 0) <= sqrt_price /\ sqrt_price <= config.migration_sqrt_price
    BY DEF Sufficient, OnCurve
  <1>6. /\ MigrationBase \in U64 \ {0} /\ MigrationQuote \in U64 \ {0}
        /\ IsConstantProduct(config) \/ MIN_SQRT_PRICE < sqrt_price
    BY DEF Sufficient, SufficientForMigration
  <1>7. IsConstantProduct(config) <=> config.compounding
    BY DEF Sufficient, IsConstantProduct
  <1> HIDE DEF MigrationBase, MigrationQuote
  <1>8. MigrationBase \in Nat \ {0} /\ MigrationQuote \in Nat \ {0}
    BY <1>6, U64Props
  <1> QED
    BY <1>1, <1>2, <1>3, <1>4, <1>5, <1>6, <1>7, <1>8

LEMMA ReadyPrices ==
    ASSUME Ready
    PROVE  /\ MIN_SQRT_PRICE \in Nat \ {0} /\ MAX_SQRT_PRICE \in Nat /\ sqrt_price \in Nat
           /\ 0 < sqrt_price /\ sqrt_price < MAX_SQRT_PRICE
           /\ ~config.compounding => MIN_SQRT_PRICE < sqrt_price
           /\ Scale * Scale \in Nat /\ Scale * Scale > 0
           /\ MigrationBase \in Nat \ {0} /\ MigrationQuote \in Nat \ {0}
           /\ config.compounding => IsConstantProduct(config)
           /\ ~config.compounding => ~IsConstantProduct(config)
  BY SufficientPrices DEF Ready

\* The protocol's fee is less than the amount it is taken of.
LEMMA FeeOfAmount ==
    ASSUME TypeOK, NEW x \in Nat
    PROVE  LET f == MulDivDown(x, protocol_liquidity_migration_fee_bps, BASIS_POINT_MAX)
           IN  f \in Nat /\ f <= x /\ (x > 0 => f < x)
  <1> DEFINE b == protocol_liquidity_migration_fee_bps
             f == MulDivDown(x, b, 10000)
  <1>1. b \in 0..10000 /\ b # 10000
    <2>1. MigrationFeeBps \subseteq 0..BASIS_POINT_MAX
      BY PoolAssumption DEF PoolAssumption
    <2>2. BASIS_POINT_MAX \notin MigrationFeeBps
      BY PositionsAssumption DEF PositionsAssumption
    <2>3. b \in MigrationFeeBps
      BY DEF TypeOK
    <2> QED
      BY <2>1, <2>2, <2>3 DEF BASIS_POINT_MAX
  <1> HIDE DEF b
  <1>2. b \in Int /\ 0 <= b /\ b <= 9999
    BY <1>1
  <1>3. f \in Int /\ 10000 * f <= x * b /\ x * b < 10000 * f + 10000
    BY <1>2, DownProps
  <1>4. x * b <= x * 9999 /\ x * b \in Int /\ x * b >= 0
    BY <1>2, Scaled
  <1> HIDE DEF f
  <1>5. f \in Nat /\ f <= x /\ (x > 0 => f < x)
    BY <1>3, <1>4
  <1> QED
    BY <1>5 DEF f, b, BASIS_POINT_MAX

\* More liquidity takes more tokens: the fee's base is less than all of it.
LEMMA FeeBaseBelow ==
    ASSUME NEW d \in Int, NEW N \in Int, NEW S \in Int, NEW g \in Int, NEW f \in Nat,
           NEW q \in Nat, d > 0, N > 0, S > 0, g > 0, f <= q
    PROVE  LET part  == MulDivDown(MulDivDown(f, S, g), d, N)
               whole == MulDivUp(MulDivDown(q, S, g), d, N)
           IN  part \in Nat /\ whole \in Int /\ part <= whole
  <1> DEFINE a == MulDivDown(f, S, g)
             b == MulDivDown(q, S, g)
             part == MulDivDown(a, d, N)
             whole == MulDivUp(b, d, N)
  <1>1. f * S \in Nat /\ f * S <= q * S /\ q * S \in Int
    <2>1. S * f <= S * q
      BY Scaled
    <2> QED
      BY <2>1
  <1>2. a \in Int /\ g * a <= f * S /\ f * S < g * a + g
    BY DownProps
  <1> HIDE DEF a
  <1>3. b \in Int /\ (g * a <= q * S => a <= b)
    BY <1>2, DownProps
  <1> HIDE DEF b
  <1>4. g * a \in Int
    BY <1>2
  <1>5. a <= b
    BY <1>1, <1>2, <1>3, <1>4
  <1>6. a >= 0
    <2>1. g * 0 < g * (a + 1)
      <3>1. g * 0 = 0 /\ g * (a + 1) = g * a + g
        BY <1>2
      <3> QED
        BY <1>1, <1>2, <1>4, <3>1
    <2>2. a + 1 \in Int
      BY <1>2
    <2>3. 0 < a + 1
      BY <2>1, <2>2, Cancel
    <2> QED
      BY <1>2, <2>3
  <1>7. d * a <= d * b /\ d * a >= 0 /\ d * a = a * d /\ d * b = b * d
        /\ d * a \in Int /\ d * b \in Int
    BY <1>2, <1>3, <1>5, <1>6, Scaled
  <1>8. part \in Int /\ N * part <= a * d /\ a * d < N * part + N
    BY <1>2, DownProps
  <1>9. whole \in Int /\ b * d <= N * whole
    BY <1>3, UpProps
  <1> HIDE DEF part, whole
  <1>10. part <= whole
    <2>1. N * part \in Int /\ N * whole \in Int
      BY <1>8, <1>9
    <2>2. N * part <= N * whole
      BY <1>7, <1>8, <1>9, <2>1
    <2> QED
      BY <1>8, <1>9, <2>2, Cancel
  <1>11. part >= 0
    <2>1. N * 0 < N * (part + 1)
      <3>1. N * 0 = 0 /\ N * (part + 1) = N * part + N /\ N * part \in Int
        BY <1>8
      <3> QED
        BY <1>7, <1>8, <3>1
    <2>2. part + 1 \in Int
      BY <1>8
    <2>3. 0 < part + 1
      BY <2>1, <2>2, Cancel
    <2> QED
      BY <1>8, <2>3
  <1> QED
    BY <1>8, <1>9, <1>10, <1>11 DEF a, b, part, whole

\* What is offered is not negative, and a compounding pool is offered
\* something.
LEMMA SufficientOffered ==
    ASSUME Sufficient
    PROVE  /\ BaseOffered \in Nat /\ QuoteOffered \in Nat
           /\ config.compounding => BaseOffered > 0
  <1> DEFINE b == protocol_liquidity_migration_fee_bps
  <1>1. TypeOK
    BY DEF Sufficient
  <1>2. MigrationBase \in Nat \ {0} /\ MigrationQuote \in Nat \ {0}
    BY SufficientPrices
  <1> HIDE DEF MigrationQuote
  <1>3. ProtocolMigrationQuoteFee(MigrationQuote, b) \in Nat
        /\ ProtocolMigrationQuoteFee(MigrationQuote, b) <= MigrationQuote
    BY <1>1, <1>2, FeeOfAmount DEF ProtocolMigrationQuoteFee
  <1>4. QuoteOffered \in Nat
    BY <1>2, <1>3 DEF QuoteOffered
  <1>5. CASE config.compounding
    <2> HIDE DEF MigrationBase
    <2> DEFINE f == MulDivDown(MigrationBase, b, BASIS_POINT_MAX)
    <2>1. BaseOffered = MigrationBase - f
      BY <1>5, SufficientPrices DEF BaseOffered, ProtocolMigrationBaseFee
    <2>2. f \in Nat /\ f < MigrationBase
      BY <1>1, <1>2, FeeOfAmount
    <2> HIDE DEF f
    <2> QED
      BY <1>2, <1>4, <2>1, <2>2
  <1>6. CASE ~config.compounding
    <2> DEFINE p == sqrt_price
               M == MAX_SQRT_PRICE
               f == ProtocolMigrationQuoteFee(MigrationQuote, b)
               part == MulDivDown(MulDivDown(f, Scale * Scale, p - MIN_SQRT_PRICE), M - p, p * M)
               whole == MulDivUp(MulDivDown(MigrationQuote, Scale * Scale, p - MIN_SQRT_PRICE),
                                 M - p, p * M)
    <2>1. MigrationBase = whole
      BY <1>6, SufficientPrices DEF MigrationBase, MigrationBaseAmount, get_delta_amount_base,
          get_initial_liquidity_from_delta_quote, MulDiv
    <2>2. ProtocolMigrationBaseFee(config, MigrationBase, MigrationQuote, sqrt_price, b) = part
      BY <1>6, SufficientPrices DEF ProtocolMigrationBaseFee, get_delta_amount_base,
          get_initial_liquidity_from_delta_quote, MulDiv
    <2> HIDE DEF f, MigrationBase
    <2>3. f \in Nat /\ f <= MigrationQuote
      BY <1>3 DEF f
    <2>4. /\ M - p \in Int /\ M - p > 0 /\ p - MIN_SQRT_PRICE \in Int
          /\ p - MIN_SQRT_PRICE > 0 /\ p * M \in Int /\ p * M > 0
          /\ Scale * Scale \in Int /\ Scale * Scale > 0
      BY <1>6, SufficientPrices
    <2>5. part \in Nat /\ whole \in Int /\ part <= whole
      BY <1>2, <2>3, <2>4, FeeBaseBelow
    <2> HIDE DEF part, whole
    <2>6. BaseOffered = whole - part
      BY <2>1, <2>2 DEF BaseOffered
    <2> QED
      BY <1>4, <1>6, <2>5, <2>6
  <1> QED
    BY <1>5, <1>6

LEMMA Offered ==
    ASSUME Ready
    PROVE  /\ BaseOffered \in Nat /\ QuoteOffered \in Nat
           /\ config.compounding => BaseOffered > 0
  BY SufficientOffered DEF Ready

\* The liquidity that tokens of base are worth in a range up to the highest
\* price, with one product for both prices.
LEMMA DeltaBase ==
    ASSUME NEW x \in Int, NEW p \in Int
    PROVE  get_initial_liquidity_from_delta_base(x, p) =
               MulDivDown(x, p * MAX_SQRT_PRICE, MAX_SQRT_PRICE - p)
  <1>1. MAX_SQRT_PRICE \in Int
    BY ConfigAssumption DEF ConfigAssumption
  <1>2. (x * p) * MAX_SQRT_PRICE = x * (p * MAX_SQRT_PRICE)
    BY <1>1, Products
  <1> QED
    BY <1>2 DEF get_initial_liquidity_from_delta_base, MulDivDown

\* What UnitLiquidity is.
LEMMA UnitIs ==
    LET D == Initial.distributable
        pool == DammPool(Initial.sqrt_price, D)
    IN  UnitLiquidity = 1 + (IF UnitOf(D, pool.base) > UnitOf(D, pool.quote)
                             THEN UnitOf(D, pool.base) ELSE UnitOf(D, pool.quote))
  <1>1. \A p, l : DammPool(p, l).liquidity = l
    BY DEF DammPool
  <1> QED
    BY <1>1 DEF UnitLiquidity, UnitOf, Initial

\* Liquidity l is deposited first: both tokens suffice for it, what is left
\* buys a second liquidity and suffices for that, and together they are what
\* the pool was to have, up to two units less and the rounded price more.
Deposits(l) ==
    LET D == Initial.distributable
        pool == DammPool(Initial.sqrt_price, l + Initial.dead)
        left_base == BaseOffered - pool.base
        left_quote == QuoteOffered - pool.quote
        t == calculate_liquidity_delta(left_base, left_quote, pool)
        deposit == DammDeposit(pool, t)
    IN  /\ UnitLiquidity \in Nat /\ PriceRounding \in Nat
        /\ left_base \in Nat /\ left_quote \in Nat /\ t \in Nat
        /\ deposit.base \in Int /\ deposit.base <= left_base
        /\ deposit.quote \in Int /\ deposit.quote <= left_quote
        /\ l + t <= D + PriceRounding
        /\ D <= l + t + 2 * UnitLiquidity

\* The larger of two units.
LEMMA UnitBound ==
    ASSUME NEW u \in Nat, NEW v \in Nat, UnitLiquidity = 1 + (IF u > v THEN u ELSE v)
    PROVE  UnitLiquidity \in Nat /\ u <= UnitLiquidity /\ v <= UnitLiquidity
  OBVIOUS

\* The liquidity of a range-bound pool.
LEMMA RangeLiquidity ==
    ASSUME Ready, ~config.compounding
    PROVE  LET D == Initial.distributable
               p == sqrt_price
               M == MAX_SQRT_PRICE
           IN  /\ Initial.sqrt_price = p /\ Initial.dead = 0 /\ D \in Nat
               /\ (M - p) * D <= BaseOffered * (p * M)
               /\ (p - MIN_SQRT_PRICE) * D <= QuoteOffered * (Scale * Scale)
               /\ \A k \in Int : /\ (M - p) * k <= BaseOffered * (p * M)
                                 /\ (p - MIN_SQRT_PRICE) * k <= QuoteOffered * (Scale * Scale)
                                 => k <= D
  <1> DEFINE D == Initial.distributable
             p == sqrt_price
             M == MAX_SQRT_PRICE
             N == p * M
             d == M - p
             S == Scale * Scale
             g == p - MIN_SQRT_PRICE
             x == BaseOffered
             y == QuoteOffered
             b == MulDivDown(x, N, d)
             q == MulDivDown(y, S, g)
  <1>1. x \in Nat /\ y \in Nat
    BY Offered
  <1>2. /\ N \in Int /\ N > 0 /\ d \in Int /\ d > 0 /\ S \in Int /\ S > 0
        /\ g \in Int /\ g > 0 /\ p \in Int
    BY ReadyPrices
  <1>3. Initial.sqrt_price = p /\ Initial.dead = 0 /\ D = MinOf(b, q)
    <2>1. get_initial_liquidity_from_delta_base(x, p) = b
      <3>1. x \in Int
        BY <1>1
      <3> QED
        BY <1>2, <3>1, DeltaBase
    <2>2. get_initial_liquidity_from_delta_quote(y, p) = q
      BY DEF get_initial_liquidity_from_delta_quote
    <2> QED
      BY <2>1, <2>2 DEF Initial, get_initial_pool_information,
          calculate_concentrated_initial_liquidity
  <1> HIDE DEF D, p, M, N, d, S, g, x, y
  <1>4. b \in Int /\ d * b <= x * N /\ \A k \in Int : d * k <= x * N => k <= b
    BY <1>1, <1>2, DownProps
  <1>5. q \in Int /\ g * q <= y * S /\ \A k \in Int : g * k <= y * S => k <= q
    BY <1>1, <1>2, DownProps
  <1> HIDE DEF b, q
  <1>6. D \in Int /\ D <= b /\ D <= q /\ (D = b \/ D = q)
    BY <1>3, <1>4, <1>5, MinOfProps
  <1>7. x * N >= 0 /\ y * S >= 0
    BY <1>1, <1>2
  <1>8. 0 <= b /\ 0 <= q
    <2>1. d * 0 <= x * N /\ g * 0 <= y * S
      BY <1>2, <1>7
    <2> QED
      BY <1>4, <1>5, <2>1
  <1>9. d * D <= x * N /\ g * D <= y * S
    <2>1. d * D <= d * b /\ d * D \in Int /\ d * b \in Int
      BY <1>2, <1>4, <1>6, Scaled
    <2>2. g * D <= g * q /\ g * D \in Int /\ g * q \in Int
      BY <1>2, <1>5, <1>6, Scaled
    <2>3. x * N \in Int /\ y * S \in Int
      BY <1>1, <1>2
    <2> QED
      BY <1>4, <1>5, <2>1, <2>2, <2>3
  <1>10. \A k \in Int : d * k <= x * N /\ g * k <= y * S => k <= D
    BY <1>4, <1>5, <1>6
  <1>11. D \in Nat
    BY <1>6, <1>8
  <1> QED
    BY <1>3, <1>9, <1>10, <1>11 DEF D, p, M, N, d, S, g, x, y

\* The deposits of a range-bound pool.
LEMMA RangeDeposits ==
    ASSUME Ready, ~config.compounding, NEW l \in Nat, l <= Initial.distributable
    PROVE  Deposits(l)
  <1> DEFINE D == Initial.distributable
             p == sqrt_price
             M == MAX_SQRT_PRICE
             N == p * M
             d == M - p
             S == Scale * Scale
             g == p - MIN_SQRT_PRICE
             x == BaseOffered
             y == QuoteOffered
             a == MulDivUp(l, d, N)
             c == MulDivUp(l, g, S)
             b == MulDivDown(x - a, N, d)
             q == MulDivDown(y - c, S, g)
             A == MulDivUp(D, d, N)
             C == MulDivUp(D, g, S)
             pool == DammPool(Initial.sqrt_price, l + Initial.dead)
             t == MinOf(b, q)
  <1>1. x \in Nat /\ y \in Nat
    BY Offered
  <1>2. /\ N \in Int /\ N > 0 /\ d \in Int /\ d > 0 /\ S \in Int /\ S > 0
        /\ g \in Int /\ g > 0 /\ p \in Int
    BY ReadyPrices
  <1>3. /\ Initial.sqrt_price = p /\ Initial.dead = 0 /\ D \in Nat
        /\ d * D <= x * N /\ g * D <= y * S
        /\ \A k \in Int : d * k <= x * N /\ g * k <= y * S => k <= D
    BY RangeLiquidity
  <1>4. \A k : DammPool(p, k) = [liquidity |-> k, base |-> MulDivUp(k, d, N),
                                quote |-> MulDivUp(k, g, S)]
    BY DEF DammPool, get_delta_amount_base, get_delta_amount_quote, MulDiv
  <1>5. pool.base = a /\ pool.quote = c
    <2>1. l + Initial.dead = l
      BY <1>3
    <2> QED
      BY <1>3, <1>4, <2>1
  <1>6. \A k : DammDeposit(pool, k).base = MulDivUp(k, d, N)
               /\ DammDeposit(pool, k).quote = MulDivUp(k, g, S)
    BY <1>4 DEF DammDeposit
  <1>7. \A u, v \in Int : calculate_liquidity_delta(u, v, pool) =
                              MinOf(MulDivDown(u, N, d), MulDivDown(v, S, g))
    BY <1>2, DeltaBase DEF calculate_liquidity_delta, calculate_concentrated_initial_liquidity,
        get_initial_liquidity_from_delta_quote
  <1>8. UnitLiquidity = 1 + (IF UnitOf(D, A) > UnitOf(D, C) THEN UnitOf(D, A) ELSE UnitOf(D, C))
    <2>1. DammPool(Initial.sqrt_price, D).base = A /\ DammPool(Initial.sqrt_price, D).quote = C
      BY <1>3, <1>4
    <2> QED
      BY <2>1, UnitIs
  <1>9. PriceRounding = 0
    BY DEF PriceRounding
  <1>10. l <= D
    OBVIOUS
  <1> HIDE DEF D, p, M, N, d, S, g, x, y, pool
  <1>11. /\ a \in Int /\ x - a \in Nat /\ b \in Nat /\ UnitOf(D, A) \in Nat
         /\ d * (b + l) <= x * N
         /\ D <= l + b + UnitOf(D, A)
         /\ \A k \in Int : k <= b => MulDivUp(k, d, N) \in Int /\ MulDivUp(k, d, N) <= x - a
    BY <1>1, <1>2, <1>3, <1>10, RangeToken
  <1>12. /\ c \in Int /\ y - c \in Nat /\ q \in Nat /\ UnitOf(D, C) \in Nat
         /\ g * (q + l) <= y * S
         /\ D <= l + q + UnitOf(D, C)
         /\ \A k \in Int : k <= q => MulDivUp(k, g, S) \in Int /\ MulDivUp(k, g, S) <= y - c
    BY <1>1, <1>2, <1>3, <1>10, RangeToken
  <1>13. calculate_liquidity_delta(x - a, y - c, pool) = t
    BY <1>11, <1>12, <1>7
  <1> HIDE DEF a, b, c, q
  <1>14. t \in Int /\ t <= b /\ t <= q /\ (t = b \/ t = q)
    <2>1. b \in Int /\ q \in Int
      BY <1>11, <1>12
    <2> QED
      BY <2>1, MinOfProps
  <1> HIDE DEF t
  <1>15. UnitLiquidity \in Nat /\ UnitOf(D, A) <= UnitLiquidity /\ UnitOf(D, C) <= UnitLiquidity
    <2> HIDE DEF A, C
    <2> QED
      BY <1>8, <1>11, <1>12, UnitBound
  <1>16. t \in Nat
    BY <1>11, <1>12, <1>14
  <1>17. l + t <= D
    <2>1. t + l \in Int /\ b + l \in Int /\ q + l \in Int /\ t + l <= b + l /\ t + l <= q + l
      BY <1>11, <1>12, <1>14
    <2>2. d * (t + l) <= d * (b + l) /\ g * (t + l) <= g * (q + l)
          /\ d * (t + l) \in Int /\ d * (b + l) \in Int
          /\ g * (t + l) \in Int /\ g * (q + l) \in Int
      BY <1>2, <2>1, Scaled
    <2>3. x * N \in Int /\ y * S \in Int
      BY <1>1, <1>2
    <2>4. d * (t + l) <= x * N /\ g * (t + l) <= y * S
      BY <1>11, <1>12, <2>2, <2>3
    <2>5. t + l <= D
      BY <1>3, <2>1, <2>4
    <2> QED
      BY <1>3, <1>14, <2>5
  <1>18. D <= l + t + 2 * UnitLiquidity
    <2> HIDE DEF A, C
    <2>1. CASE t = b
      BY <1>3, <1>11, <1>15, <2>1
    <2>2. CASE t = q
      BY <1>3, <1>12, <1>15, <2>2
    <2> QED
      BY <1>14, <2>1, <2>2
  <1>19. /\ MulDivUp(t, d, N) \in Int /\ MulDivUp(t, d, N) <= x - a
         /\ MulDivUp(t, g, S) \in Int /\ MulDivUp(t, g, S) <= y - c
    BY <1>11, <1>12, <1>14
  <1>20. /\ x - pool.base \in Nat /\ y - pool.quote \in Nat
         /\ calculate_liquidity_delta(x - pool.base, y - pool.quote, pool) = t
         /\ DammDeposit(pool, t).base \in Int /\ DammDeposit(pool, t).base <= x - pool.base
         /\ DammDeposit(pool, t).quote \in Int /\ DammDeposit(pool, t).quote <= y - pool.quote
    BY <1>5, <1>6, <1>11, <1>12, <1>13, <1>19
  <1>21. l + t <= D + PriceRounding /\ PriceRounding \in Nat
    BY <1>3, <1>9, <1>17
  <1> QED
    BY <1>15, <1>16, <1>18, <1>20, <1>21 DEF Deposits, D, x, y, pool

\* The integer square root.
LEMMA RootProps ==
    ASSUME NEW x \in Nat, x < (MAX_SQRT_PRICE + 1) * (MAX_SQRT_PRICE + 1)
    PROVE  LET s == sqrt_u256(x)
           IN  s \in Nat /\ s * s <= x /\ x < (s + 1) * (s + 1)
  <1> DEFINE s == sqrt_u256(x)
  <1>1. MAX_SQRT_PRICE \in Nat
    BY ConfigAssumption DEF ConfigAssumption
  <1>2. \E k \in 0..MAX_SQRT_PRICE : k * k <= x /\ x < (k + 1) * (k + 1)
    BY <1>1, RootExists
  <1>3. s \in 0..MAX_SQRT_PRICE /\ s * s <= x /\ x < (s + 1) * (s + 1)
    BY <1>2, Zenon DEF sqrt_u256
  <1> HIDE DEF s
  <1>4. s \in Nat
    BY <1>1, <1>3
  <1> QED
    BY <1>3, <1>4 DEF s

\* The roots of a quotient rounded up and rounded down differ by at most
\* one, and then the larger one is exact: the pool's liquidity is covered by
\* the quote at the price rounded up.
LEMMA RootsOfQuotient ==
    ASSUME NEW B \in Nat, NEW Y \in Nat, NEW up \in Nat, NEW down \in Nat,
           NEW s \in Nat, NEW r \in Nat,
           B > 0, B * down <= Y, B * up < Y + B, down <= up, up <= down + 1, s > 0,
           s * s <= up, up < (s + 1) * (s + 1), r * r <= down, down < (r + 1) * (r + 1)
    PROVE  r <= s /\ s <= r + 1 /\ s * (r * B) <= Y
  <1>1. r <= s
    <2>1. r * r < (s + 1) * (s + 1)
      OBVIOUS
    <2> QED
      BY <2>1, SquareOrder
  <1>2. CASE s = r
    <2>1. s * (r * B) = B * (r * r) /\ r * r \in Int
      BY <1>2
    <2>2. B * (r * r) <= B * down /\ B * (r * r) \in Int /\ B * down \in Int
      BY <2>1, Scaled
    <2> QED
      BY <1>2, <2>1, <2>2
  <1>3. CASE s # r
    <2>1. r + 1 <= s
      BY <1>1, <1>3
    <2>2. (r + 1) * (r + 1) <= s * s /\ (r + 1) * (r + 1) \in Int /\ s * s \in Int
      <3>1. (r + 1) * (r + 1) <= (r + 1) * s /\ s * (r + 1) <= s * s
        BY <2>1, Scaled
      <3>2. (r + 1) * s = s * (r + 1) /\ (r + 1) * (r + 1) \in Int /\ s * s \in Int
            /\ s * (r + 1) \in Int
        BY Products
      <3> QED
        BY <3>1, <3>2
    <2>3. up = s * s /\ (r + 1) * (r + 1) = s * s
      BY <2>2
    <2>4. s = r + 1
      <3> SUFFICES ASSUME r + 1 < s PROVE FALSE
        BY <2>1
      <3>1. (r + 1) * (r + 1) < s * s
        <4>1. (r + 1) * (r + 1) <= (r + 1) * s /\ s * (r + 2) <= s * s
          BY Scaled
        <4>2. (r + 1) * s = s * (r + 1) /\ s * (r + 2) = s * (r + 1) + s
              /\ s * (r + 1) \in Int /\ (r + 1) * (r + 1) \in Int /\ s * s \in Int
          BY Products
        <4> QED
          BY <4>1, <4>2
      <3> QED
        BY <2>3, <3>1
    <2>5. s * (r * B) <= B * up - B
      <3>1. s * (r * B) = B * (s * r) /\ s * r = s * s - s /\ s * s \in Int
        BY <2>4
      <3>2. s * r <= up - 1 /\ s * r \in Int
        BY <2>3, <3>1
      <3>3. B * (s * r) <= B * (up - 1) /\ B * (up - 1) = B * up - B
        BY <3>2, Scaled
      <3> QED
        BY <3>1, <3>3
    <2>6. s * (r * B) \in Int /\ B * up \in Int
      OBVIOUS
    <2> QED
      BY <1>1, <2>4, <2>5, <2>6
  <1> QED
    BY <1>2, <1>3

\* A quotient rounded up and the same one rounded down.
LEMMA RoundedQuotients ==
    ASSUME NEW Q \in Nat, NEW S \in Nat, NEW B \in Nat, B > 0
    PROVE  LET up   == MulDivUp(Q, S, B)
               down == MulDivDown(Q, S, B)
           IN  up \in Nat /\ down \in Nat /\ down <= up /\ up <= down + 1
  <1> DEFINE up == MulDivUp(Q, S, B)
             down == MulDivDown(Q, S, B)
  <1>1. up \in Int /\ B * up < Q * S + B /\ Q * S <= B * up
    BY UpProps
  <1>2. down \in Int /\ B * down <= Q * S /\ Q * S < B * down + B
    BY DownProps
  <1> HIDE DEF up, down
  <1>3. Q * S \in Nat
    OBVIOUS
  <1>4. B * up \in Int /\ B * down \in Int /\ B * (down + 1) = B * down + B
        /\ B * (down + 2) = B * down + 2 * B /\ B * 0 = 0
    BY <1>1, <1>2
  <1>5. down <= up /\ up <= down + 1 /\ down >= 0
    <2>1. down <= up
      <3>1. B * down <= B * up
        BY <1>1, <1>2, <1>3, <1>4
      <3> QED
        BY <1>1, <1>2, <3>1, Cancel
    <2>2. up < down + 2
      <3>1. B * up < B * (down + 2) /\ down + 2 \in Int
        BY <1>1, <1>2, <1>3, <1>4
      <3> QED
        BY <1>1, <3>1, Cancel
    <2>3. 0 < down + 1
      <3>1. B * 0 < B * (down + 1) /\ down + 1 \in Int
        BY <1>2, <1>3, <1>4
      <3> QED
        BY <3>1, Cancel
    <2> QED
      BY <1>1, <1>2, <2>1, <2>2, <2>3
  <1> QED
    BY <1>1, <1>2, <1>5 DEF up, down

\* The liquidity of a compounding pool and its price.
LEMMA CompoundingLiquidity ==
    ASSUME Ready, config.compounding
    PROVE  LET D == Initial.distributable
               s == Initial.sqrt_price
               L == D + Initial.dead
           IN  /\ Initial.dead \in Nat \ {0} /\ D \in Nat /\ s \in Nat \ {0}
               /\ L <= BaseOffered * s
               /\ s * L <= QuoteOffered * (Scale * Scale)
               /\ BaseOffered * s <= L + BaseOffered
  <1> DEFINE B == BaseOffered
             Q == QuoteOffered
             S == Scale * Scale
             up == MulDivUp(Q, S, B)
             down == MulDivDown(Q, S, B)
             s == sqrt_u256(up)
             r == sqrt_u256(down)
             D == Initial.distributable
             L == r * B
  <1>1. B \in Nat /\ B > 0 /\ Q \in Nat
    BY Offered
  <1>2. S \in Nat /\ S > 0 /\ MIN_SQRT_PRICE \in Nat \ {0} /\ MAX_SQRT_PRICE \in Nat
    BY ReadyPrices
  <1>3. DEAD_LIQUIDITY \in Nat \ {0}
    BY PositionsAssumption DEF PositionsAssumption
  <1>4. /\ MIN_SQRT_PRICE * MIN_SQRT_PRICE <= up
        /\ up < (MAX_SQRT_PRICE + 1) * (MAX_SQRT_PRICE + 1)
        /\ Initial.sqrt_price = s /\ Initial.dead = DEAD_LIQUIDITY
        /\ D = L - DEAD_LIQUIDITY /\ L >= DEAD_LIQUIDITY
    BY DEF Ready, Sufficient, Initial, get_initial_pool_information,
        calculate_compounding_initial_sqrt_price_and_liquidity
  <1> HIDE DEF B, Q, S, D
  <1>5. up \in Int /\ B * up < Q * S + B /\ Q * S <= B * up
    BY <1>1, <1>2, UpProps
  <1>6. down \in Int /\ B * down <= Q * S /\ Q * S < B * down + B
    BY <1>1, <1>2, DownProps
  <1> HIDE DEF up, down
  <1>7. Q * S \in Nat
    BY <1>1, <1>2
  <1>8. B * up \in Int /\ B * down \in Int /\ B * (down + 1) = B * down + B
        /\ B * (down + 2) = B * down + 2 * B /\ B * 0 = 0
    BY <1>1, <1>5, <1>6
  <1>9. down <= up /\ up <= down + 1 /\ down >= 0
    BY <1>1, <1>2, RoundedQuotients DEF up, down
  <1>10. up \in Nat /\ down \in Nat
    BY <1>5, <1>6, <1>9
  <1>11. down < (MAX_SQRT_PRICE + 1) * (MAX_SQRT_PRICE + 1)
    <2>1. (MAX_SQRT_PRICE + 1) * (MAX_SQRT_PRICE + 1) \in Int
      BY <1>2
    <2> QED
      BY <1>4, <1>9, <1>10, <2>1
  <1>12. s \in Nat /\ s * s <= up /\ up < (s + 1) * (s + 1)
    BY <1>4, <1>10, RootProps
  <1>13. r \in Nat /\ r * r <= down /\ down < (r + 1) * (r + 1)
    BY <1>10, <1>11, RootProps
  <1> HIDE DEF s, r
  <1>14. s > 0
    <2>1. MIN_SQRT_PRICE * MIN_SQRT_PRICE < (s + 1) * (s + 1)
      <3>1. MIN_SQRT_PRICE * MIN_SQRT_PRICE \in Int /\ (s + 1) * (s + 1) \in Int
        BY <1>2, <1>12
      <3> QED
        BY <1>4, <1>10, <1>12, <3>1
    <2>2. MIN_SQRT_PRICE < s + 1
      BY <1>2, <1>12, <2>1, SquareOrder
    <2> QED
      BY <1>2, <1>12, <2>2
  <1> DEFINE Y == Q * S
  <1>15. Y \in Nat /\ B * down <= Y /\ B * up < Y + B
    BY <1>5, <1>6, <1>7
  <1> HIDE DEF Y
  <1>16. r <= s /\ s <= r + 1 /\ s * (r * B) <= Y
    BY <1>1, <1>9, <1>10, <1>12, <1>13, <1>14, <1>15, RootsOfQuotient
  <1>17. L \in Nat /\ L <= B * s /\ B * s <= L + B
    <2>1. B * r <= B * s /\ B * s <= B * (r + 1)
      BY <1>1, <1>12, <1>13, <1>16, Scaled
    <2>2. L = B * r /\ B * (r + 1) = B * r + B /\ B * r \in Nat /\ B * s \in Int
      BY <1>1, <1>12, <1>13
    <2> HIDE DEF L
    <2> QED
      BY <1>1, <2>1, <2>2
  <1>18. s * L <= Q * S
    BY <1>16 DEF Y
  <1> HIDE DEF L
  <1>19. D \in Nat /\ D + Initial.dead = L
    BY <1>3, <1>4, <1>17
  <1> QED
    BY <1>3, <1>4, <1>12, <1>14, <1>17, <1>18, <1>19 DEF B, Q, S, D, s

\* The deposits of a compounding pool, when the larger share is first.
LEMMA CompoundingDeposits ==
    ASSUME Ready, config.compounding, NEW l \in Nat, l <= Initial.distributable,
           Initial.distributable <= 2 * l
    PROVE  Deposits(l)
  <1> DEFINE D == Initial.distributable
             s == Initial.sqrt_price
             dead == Initial.dead
             L == D + dead
             p == l + dead
             S == Scale * Scale
             x == BaseOffered
             y == QuoteOffered
             d == 1
             a == MulDivUp(p, d, s)
             c == MulDivUp(p, s, S)
             b == MulDivDown(x - a, p, a)
             q == MulDivDown(y - c, p, c)
             A == MulDivUp(D, d, s)
             C == MulDivUp(D, s, S)
             pool == DammPool(s, p)
             t == MinOf(b, q)
  <1>1. x \in Nat /\ y \in Nat
    BY Offered
  <1>2. S \in Int /\ S > 0
    BY ReadyPrices
  <1>3. /\ dead \in Nat \ {0} /\ D \in Nat /\ s \in Nat \ {0}
        /\ L <= x * s /\ s * L <= y * S /\ x * s <= L + x
    BY CompoundingLiquidity
  <1>4. \A k : DammPool(s, k) = [liquidity |-> k, base |-> MulDivUp(k, d, s),
                                quote |-> MulDivUp(k, s, S)]
    BY DEF DammPool
  <1>0. d \in Int /\ d = 1
    OBVIOUS
  <1> HIDE DEF D, s, dead, S, x, y, d
  <1>5. pool.base = a /\ pool.quote = c /\ pool.liquidity = p
    BY <1>4
  <1>6. \A k : DammDeposit(pool, k).base = MulDivUp(k, a, p)
               /\ DammDeposit(pool, k).quote = MulDivUp(k, c, p)
    <2> HIDE DEF pool
    <2> QED
      BY <1>5 DEF DammDeposit
  <1>7. calculate_liquidity_delta(x - a, y - c, pool) = t
    <2> HIDE DEF pool
    <2> QED
      BY <1>5 DEF calculate_liquidity_delta
  <1>8. UnitLiquidity = 1 + (IF UnitOf(D, A) > UnitOf(D, C) THEN UnitOf(D, A) ELSE UnitOf(D, C))
    <2>1. DammPool(s, D).base = A /\ DammPool(s, D).quote = C
      BY <1>4
    <2> QED
      BY <2>1, UnitIs DEF D, s
  <1>9. PriceRounding = x
    BY DEF PriceRounding, x
  <1>10. l <= D /\ D <= 2 * l
    BY DEF D
  <1> HIDE DEF pool
  <1>11. /\ L \in Nat /\ p \in Nat /\ p > 0 /\ p <= L /\ L <= 2 * p /\ L - p <= D
         /\ L - p = D - l
    BY <1>3, <1>10
  <1> HIDE DEF L, p
  <1>12. d * L <= x * s /\ s \in Int /\ s > 0 /\ d \in Int /\ d > 0
    BY <1>0, <1>1, <1>3, <1>11
  <1>13. /\ a \in Int /\ a > 0 /\ x - a \in Nat /\ b \in Nat /\ UnitOf(D, A) \in Nat
         /\ d * (b + p) <= x * s
         /\ L <= p + b + 2 * UnitOf(D, A)
         /\ \A k \in Int : k <= b => MulDivUp(k, a, p) \in Int /\ MulDivUp(k, a, p) <= x - a
    BY <1>1, <1>3, <1>11, <1>12, ShareToken
  <1>14. /\ c \in Int /\ c > 0 /\ y - c \in Nat /\ q \in Nat /\ UnitOf(D, C) \in Nat
         /\ L <= p + q + 2 * UnitOf(D, C)
         /\ \A k \in Int : k <= q => MulDivUp(k, c, p) \in Int /\ MulDivUp(k, c, p) <= y - c
    BY <1>1, <1>2, <1>3, <1>11, <1>12, ShareToken
  <1> HIDE DEF a, b, c, q, A, C
  <1>15. t \in Int /\ t <= b /\ t <= q /\ (t = b \/ t = q)
    <2>1. b \in Int /\ q \in Int
      BY <1>13, <1>14
    <2> QED
      BY <2>1, MinOfProps
  <1> HIDE DEF t
  <1>16. UnitLiquidity \in Nat /\ UnitOf(D, A) <= UnitLiquidity /\ UnitOf(D, C) <= UnitLiquidity
    BY <1>8, <1>13, <1>14, UnitBound
  <1>17. t \in Nat
    BY <1>13, <1>14, <1>15
  <1>18. l + t <= D + PriceRounding /\ PriceRounding \in Nat
    <2>1. x * s \in Int
      BY <1>1, <1>3
    <2> QED
      BY <1>0, <1>1, <1>3, <1>9, <1>11, <1>13, <1>15, <2>1 DEF L, p
  <1>19. D <= l + t + 2 * UnitLiquidity
    <2>1. CASE t = b
      BY <1>3, <1>11, <1>13, <1>16, <2>1
    <2>2. CASE t = q
      BY <1>3, <1>11, <1>14, <1>16, <2>2
    <2> QED
      BY <1>15, <2>1, <2>2
  <1>20. /\ MulDivUp(t, a, p) \in Int /\ MulDivUp(t, a, p) <= x - a
         /\ MulDivUp(t, c, p) \in Int /\ MulDivUp(t, c, p) <= y - c
    BY <1>13, <1>14, <1>15
  <1>21. /\ x - pool.base \in Nat /\ y - pool.quote \in Nat
         /\ calculate_liquidity_delta(x - pool.base, y - pool.quote, pool) = t
         /\ DammDeposit(pool, t).base \in Int /\ DammDeposit(pool, t).base <= x - pool.base
         /\ DammDeposit(pool, t).quote \in Int /\ DammDeposit(pool, t).quote <= y - pool.quote
    BY <1>5, <1>6, <1>7, <1>13, <1>14, <1>20
  <1> QED
    BY <1>16, <1>17, <1>18, <1>19, <1>21 DEF Deposits, D, s, dead, x, y, pool, p

-----------------------------------------------------------------------------
(***************************************************************************)
(* The two positions.                                                      *)
(***************************************************************************)

\* The role whose position is created second.
SecondRole == IF FirstRole = "partner" THEN "creator" ELSE "partner"

\* The two shares: they are natural numbers, add up to what is distributable,
\* and the first is the larger.
LEMMA SharesOfRoles ==
    ASSUME Ready
    PROVE  LET D == Initial.distributable
           IN  /\ D \in Nat
               /\ FirstRole \in Role /\ SecondRole \in Role /\ FirstRole # SecondRole
               /\ \A r \in Role : r = FirstRole \/ r = SecondRole
               /\ \A k \in Share, r \in Role : Item(r)[k] \in Nat
               /\ \A r \in Role : get_total_liquidity(Item(r)) \in Nat
               /\ get_total_liquidity(Item(FirstRole)) + get_total_liquidity(Item(SecondRole)) = D
               /\ D <= 2 * get_total_liquidity(Item(FirstRole))
               /\ \A k \in {"lock", "vest"}, r \in Role :
                      /\ 100 * Item(r)[k] <= D * percentage[k][r]
                      /\ D * percentage[k][r] < 100 * Item(r)[k] + 100
  <1> DEFINE D == Initial.distributable
             d == get_liquidity_distribution(D)
  <1>1. D \in Nat
    BY RangeLiquidity, CompoundingLiquidity
  <1>2. percentage \in Percentages
    BY DEF Ready, Sufficient
  <1>3. \A r : Item(r) = [k \in Share |-> d[k][r]]
    BY DEF Item
  <1> HIDE DEF D
  <1>4. /\ d \in [Share -> [Role -> Nat]]
        /\ d["lock"]["partner"] + d["lock"]["creator"] + d["claim"]["partner"]
           + d["claim"]["creator"] + d["vest"]["partner"] + d["vest"]["creator"] = D
        /\ \A k \in {"lock", "vest"}, r \in Role :
               100 * d[k][r] <= D * percentage[k][r] /\ D * percentage[k][r] < 100 * d[k][r] + 100
    BY <1>1, <1>2, SharesAdd
  <1> HIDE DEF d
  <1>5. FirstRole \in Role /\ SecondRole \in Role /\ FirstRole # SecondRole
        /\ \A r \in Role : r = FirstRole \/ r = SecondRole
    BY DEF FirstRole, SecondRole, Role
  <1>6. \A k \in Share, r \in Role : Item(r)[k] = d[k][r] /\ Item(r)[k] \in Nat
    BY <1>3, <1>4
  <1>7. \A r \in Role : get_total_liquidity(Item(r)) \in Nat
    BY <1>6 DEF get_total_liquidity, Share, Kind
  <1> DEFINE i == get_total_liquidity(Item("partner"))
             j == get_total_liquidity(Item("creator"))
  <1>8. i \in Nat /\ j \in Nat
    BY <1>7 DEF Role
  <1>9. i + j = D
    <2>1. /\ i = d["claim"]["partner"] + d["lock"]["partner"] + d["vest"]["partner"]
          /\ j = d["claim"]["creator"] + d["lock"]["creator"] + d["vest"]["creator"]
      BY <1>6 DEF get_total_liquidity, Share, Kind, Role
    <2>2. \A k \in Share, r \in Role : d[k][r] \in Nat
      BY <1>4
    <2>3. /\ d["claim"]["partner"] \in Nat /\ d["lock"]["partner"] \in Nat
          /\ d["vest"]["partner"] \in Nat /\ d["claim"]["creator"] \in Nat
          /\ d["lock"]["creator"] \in Nat /\ d["vest"]["creator"] \in Nat
      BY <2>2 DEF Share, Kind, Role
    <2> HIDE DEF i, j
    <2> QED
      BY <1>4, <2>1, <2>3
  <1>10. /\ (IF i > j THEN FirstRole = "partner" ELSE FirstRole = "creator")
         /\ (IF i > j THEN SecondRole = "creator" ELSE SecondRole = "partner")
    BY DEF FirstRole, SecondRole
  <1>11. get_total_liquidity(Item(FirstRole)) = IF i > j THEN i ELSE j
    BY <1>10
  <1>12. get_total_liquidity(Item(SecondRole)) = IF i > j THEN j ELSE i
    BY <1>10
  <1> HIDE DEF i, j
  <1>13. /\ get_total_liquidity(Item(FirstRole)) + get_total_liquidity(Item(SecondRole)) = D
         /\ D <= 2 * get_total_liquidity(Item(FirstRole))
    BY <1>1, <1>8, <1>9, <1>11, <1>12
  <1>14. \A k \in {"lock", "vest"}, r \in Role :
             /\ 100 * Item(r)[k] <= D * percentage[k][r]
             /\ D * percentage[k][r] < 100 * Item(r)[k] + 100
    <2>1. \A k \in {"lock", "vest"}, r \in Role : Item(r)[k] = d[k][r]
      BY <1>6 DEF Share, Kind
    <2> QED
      BY <1>4, <2>1
  <1> QED
    BY <1>1, <1>5, <1>6, <1>7, <1>13, <1>14 DEF D

\* What the migration deposits for the two parties.
LEMMA MigrationDeposits ==
    ASSUME Ready
    PROVE  LET D == Initial.distributable
               deposit == DammDeposit(FirstPool, SecondTotal)
           IN  /\ UnitLiquidity \in Nat /\ PriceRounding \in Nat
               /\ LeftBase \in Nat /\ LeftQuote \in Nat /\ SecondTotal \in Nat
               /\ deposit.base \in Int /\ deposit.base <= LeftBase
               /\ deposit.quote \in Int /\ deposit.quote <= LeftQuote
               /\ SecondTotal <= get_total_liquidity(Item(SecondRole)) + PriceRounding
               /\ get_total_liquidity(Item(SecondRole)) <= SecondTotal + 2 * UnitLiquidity
  <1> DEFINE l == get_total_liquidity(Item(FirstRole))
             m == get_total_liquidity(Item(SecondRole))
             D == Initial.distributable
  <1>1. l \in Nat /\ m \in Nat /\ D \in Nat /\ l + m = D /\ D <= 2 * l
    BY SharesOfRoles
  <1>2. l <= D
    BY <1>1
  <1>3. Deposits(l)
    BY <1>1, <1>2, RangeDeposits, CompoundingDeposits
  <1>4. /\ UnitLiquidity \in Nat /\ PriceRounding \in Nat
        /\ LeftBase \in Nat /\ LeftQuote \in Nat /\ SecondTotal \in Nat
        /\ DammDeposit(FirstPool, SecondTotal).base \in Int
        /\ DammDeposit(FirstPool, SecondTotal).base <= LeftBase
        /\ DammDeposit(FirstPool, SecondTotal).quote \in Int
        /\ DammDeposit(FirstPool, SecondTotal).quote <= LeftQuote
        /\ l + SecondTotal <= D + PriceRounding
        /\ D <= l + SecondTotal + 2 * UnitLiquidity
    BY <1>3 DEF Deposits, FirstPool, LeftBase, LeftQuote, SecondTotal
  <1>5. SecondTotal <= m + PriceRounding /\ m <= SecondTotal + 2 * UnitLiquidity
    <2> HIDE DEF l, m, D
    <2> QED
      BY <1>1, <1>4
  <1> QED
    BY <1>4, <1>5

\* How a liquidity is divided: the free part first, and of the rest the
\* vested part as the percentages of both locked parts say.
Divided(it, total, claim, vest, lock) ==
    /\ \A k \in Share : it[k] \in Nat
    /\ it["claim"] + it["lock"] + it["vest"] = total
    /\ vest + lock = 0 => it["claim"] = total /\ it["lock"] = 0 /\ it["vest"] = 0
    /\ vest + lock > 0 => /\ it["claim"] = MinOf(total, claim)
                          /\ (vest + lock) * it["vest"] <= (it["lock"] + it["vest"]) * vest

\* adjust_liquidity divides a liquidity like this.
LEMMA Adjusted ==
    ASSUME percentage \in Percentages, NEW r \in Role, NEW item, item["claim"] \in Nat,
           NEW total \in Nat
    PROVE  Divided(adjust_liquidity(r, item, total), total, item["claim"],
                   percentage["vest"][r], percentage["lock"][r])
  <1> DEFINE v == percentage["vest"][r]
             l == percentage["lock"][r]
             P == v + l
             claim == item["claim"]
             free == IF P = 0 THEN total ELSE MinOf(total, claim)
             rest == total - free
             vested == IF P = 0 THEN 0 ELSE MulDivDown(rest, v, P)
             it == adjust_liquidity(r, item, total)
  <1>1. v \in Int /\ 0 <= v /\ l \in Int /\ 0 <= l
    <2>1. \A k \in Share, s \in Role : percentage[k][s] \in Int /\ 0 <= percentage[k][s]
      BY PercentagesAdd
    <2> QED
      BY <2>1 DEF Share, Kind
  <1>2. it["claim"] = free /\ it["vest"] = vested /\ it["lock"] = rest - vested
    BY DEF adjust_liquidity, Share, Kind
  <1>3. claim \in Nat
    OBVIOUS
  <1> HIDE DEF v, l, claim, it
  <1>4. P \in Nat /\ (P = 0 => v = 0)
    BY <1>1
  <1> HIDE DEF P
  <1>5. free \in Nat /\ rest \in Nat /\ (P = 0 => free = total)
        /\ (P > 0 => free = MinOf(total, claim))
    BY <1>3, <1>4 DEF MinOf
  <1> HIDE DEF free
  <1>6. free + rest = total
    BY <1>5
  <1> HIDE DEF rest
  <1>7. vested \in Nat /\ vested <= rest /\ (P > 0 => P * vested <= rest * v)
        /\ (P = 0 => vested = 0)
    <2>1. CASE P = 0
      BY <1>5, <2>1
    <2>2. CASE P > 0
      <3>1. vested = MulDivDown(rest, v, P)
        BY <1>4, <2>2
      <3>2. vested \in Int /\ P * vested <= rest * v /\ rest * v < P * vested + P
        BY <1>1, <1>4, <1>5, <2>2, <3>1, DownProps
      <3> HIDE DEF vested
      <3>3. rest * v <= rest * P /\ rest * P = P * rest /\ rest * v \in Nat
            /\ P * vested \in Int /\ P * rest \in Int
        BY <1>1, <1>4, <1>5, <3>2, Scaled DEF P
      <3>4. P * vested <= P * rest
        BY <3>2, <3>3
      <3>5. vested <= rest
        BY <1>4, <1>5, <2>2, <3>2, <3>4, Cancel
      <3>6. P * 0 < P * (vested + 1)
        <4>1. P * (vested + 1) = P * vested + P /\ P * 0 = 0
          BY <1>4, <3>2
        <4> QED
          BY <1>4, <3>2, <3>3, <4>1
      <3>7. 0 < vested + 1
        <4>1. vested + 1 \in Int
          BY <3>2
        <4> QED
          BY <1>4, <2>2, <3>6, <4>1, Cancel
      <3> QED
        BY <2>2, <3>2, <3>5, <3>7
    <2> QED
      BY <1>4, <2>1, <2>2
  <1> HIDE DEF vested
  <1>8. \A k \in Share : it[k] \in Nat
    BY <1>2, <1>5, <1>7 DEF Share, Kind
  <1>9. it["claim"] + it["lock"] + it["vest"] = total
    BY <1>2, <1>5, <1>6, <1>7
  <1>10. it["lock"] + it["vest"] = rest
    BY <1>2, <1>5, <1>7
  <1>11. P = 0 => it["claim"] = total /\ it["lock"] = 0 /\ it["vest"] = 0
    BY <1>2, <1>5, <1>6, <1>7
  <1>12. P > 0 => /\ it["claim"] = MinOf(total, claim)
                  /\ P * it["vest"] <= (it["lock"] + it["vest"]) * v
    BY <1>2, <1>5, <1>7, <1>10
  <1>13. Divided(it, total, claim, v, l)
    BY <1>8, <1>9, <1>11, <1>12 DEF Divided, P
  <1> QED
    BY <1>13 DEF it, claim, v, l

\* Nothing is divided into nothing.
LEMMA NothingDivided ==
    ASSUME percentage \in Percentages, NEW r \in Role, NEW claim \in Nat
    PROVE  Divided([k \in Share |-> 0], 0, claim, percentage["vest"][r], percentage["lock"][r])
  <1> DEFINE v == percentage["vest"][r]
             l == percentage["lock"][r]
             it == [k \in Share |-> 0]
  <1>1. v \in Int /\ 0 <= v /\ l \in Int /\ 0 <= l
    <2>1. \A k \in Share, s \in Role : percentage[k][s] \in Int /\ 0 <= percentage[k][s]
      BY PercentagesAdd
    <2> QED
      BY <2>1 DEF Share, Kind
  <1>2. it["claim"] = 0 /\ it["lock"] = 0 /\ it["vest"] = 0 /\ \A k \in Share : it[k] = 0
    BY DEF Share, Kind
  <1> HIDE DEF v, l, it
  <1>3. MinOf(0, claim) = 0
    BY DEF MinOf
  <1>4. (v + l) * 0 <= (0 + 0) * v
    BY <1>1
  <1>5. Divided(it, 0, claim, v, l)
    BY <1>1, <1>2, <1>3, <1>4 DEF Divided
  <1> QED
    BY <1>5 DEF it, v, l

\* The second position divides what is left as the configuration says.
LEMMA SecondDivided ==
    ASSUME Ready
    PROVE  LET r == SecondRole
           IN  Divided(CreatedItem(r), SecondTotal, Item(r)["claim"],
                       percentage["vest"][r], percentage["lock"][r])
  <1> DEFINE r == SecondRole
  <1>1. r \in Role /\ r # FirstRole /\ Item(r)["claim"] \in Nat
    BY SharesOfRoles DEF Share, Kind
  <1>2. SecondTotal \in Nat /\ percentage \in Percentages
    BY MigrationDeposits DEF Ready, Sufficient
  <1> HIDE DEF r
  <1>3. CASE SecondTotal > 0
    <2>1. CreatedItem(r) = adjust_liquidity(r, Item(r), SecondTotal)
      BY <1>1, <1>3 DEF CreatedItem
    <2> QED
      BY <1>1, <1>2, <2>1, Adjusted DEF r
  <1>4. CASE SecondTotal = 0
    <2>1. CreatedItem(r) = [k \in Share |-> 0]
      BY <1>1, <1>4 DEF CreatedItem
    <2> QED
      BY <1>1, <1>2, <1>4, <2>1, NothingDivided DEF r
  <1> QED
    BY <1>2, <1>3, <1>4

\* Both positions keep their shares.
LEMMA ItemsKeepShares ==
    ASSUME Ready, NEW r \in Role
    PROVE  LET it == CreatedItem(r)
           IN  /\ \A k \in Share : it[k] \in Nat
               /\ it["claim"] <= Item(r)["claim"] + PriceRounding
               /\ it["lock"] + it["vest"] + 2 * UnitLiquidity
                      >= Item(r)["lock"] + Item(r)["vest"]
               /\ percentage["vest"][r] = 0 => it["vest"] = 0
  <1> DEFINE it == CreatedItem(r)
             v == percentage["vest"][r]
             l == percentage["lock"][r]
             D == Initial.distributable
  <1>1. /\ UnitLiquidity \in Nat /\ PriceRounding \in Nat /\ SecondTotal \in Nat
        /\ SecondTotal <= get_total_liquidity(Item(SecondRole)) + PriceRounding
        /\ get_total_liquidity(Item(SecondRole)) <= SecondTotal + 2 * UnitLiquidity
    BY MigrationDeposits
  <1>2. /\ Item(r)["claim"] \in Nat /\ Item(r)["lock"] \in Nat /\ Item(r)["vest"] \in Nat
        /\ D \in Nat
        /\ 100 * Item(r)["lock"] <= D * l /\ 100 * Item(r)["vest"] <= D * v
        /\ r = FirstRole \/ r = SecondRole
    BY SharesOfRoles DEF Share, Kind
  <1>3. v \in Int /\ 0 <= v /\ l \in Int /\ 0 <= l
    <2>1. \A k \in Share, s \in Role : percentage[k][s] \in Int /\ 0 <= percentage[k][s]
      BY PercentagesAdd DEF Ready, Sufficient
    <2> QED
      BY <2>1 DEF Share, Kind
  <1> HIDE DEF v, l, D
  <1>4. (v = 0 => Item(r)["vest"] = 0) /\ (l = 0 => Item(r)["lock"] = 0)
    <2>1. D * 0 = 0
      BY <1>2
    <2> QED
      BY <1>2, <2>1
  <1>5. CASE r = FirstRole
    <2>1. it = Item(r)
      BY <1>5 DEF CreatedItem
    <2>2. \A k \in Share : it[k] \in Nat
      BY <2>1, SharesOfRoles
    <2> HIDE DEF it
    <2>3. /\ it["claim"] <= Item(r)["claim"] + PriceRounding
          /\ it["lock"] + it["vest"] + 2 * UnitLiquidity >= Item(r)["lock"] + Item(r)["vest"]
          /\ v = 0 => it["vest"] = 0
      BY <1>1, <1>2, <1>4, <2>1
    <2> QED
      BY <2>2, <2>3 DEF it, v
  <1>6. CASE r = SecondRole
    <2>1. Divided(it, SecondTotal, Item(r)["claim"], v, l)
      BY <1>6, SecondDivided DEF v, l
    <2> HIDE DEF it
    <2> DEFINE c == Item(r)["claim"]
               T == SecondTotal
               a == it["claim"]
               b == it["lock"]
               w == it["vest"]
               P == v + l
    <2>2. /\ a \in Nat /\ b \in Nat /\ w \in Nat /\ a + b + w = T /\ c \in Nat
          /\ P = 0 => a = T
          /\ P > 0 => a = MinOf(T, c) /\ P * w <= (b + w) * v
          /\ P = 0 => w = 0
          /\ \A k \in Share : it[k] \in Nat
      BY <1>2, <2>1 DEF Divided, Share, Kind
    <2>3. /\ T <= c + Item(r)["lock"] + Item(r)["vest"] + PriceRounding
          /\ c + Item(r)["lock"] + Item(r)["vest"] <= T + 2 * UnitLiquidity
      BY <1>1, <1>6 DEF get_total_liquidity
    <2> HIDE DEF c, T, a, b, w, P
    <2>4. P \in Nat /\ (P = 0 => v = 0 /\ l = 0)
      BY <1>3 DEF P
    <2>5. a <= c + PriceRounding
          /\ b + w + 2 * UnitLiquidity >= Item(r)["lock"] + Item(r)["vest"]
      <3>1. CASE P = 0
        BY <1>1, <1>2, <1>4, <2>2, <2>3, <2>4, <3>1
      <3>2. CASE P > 0
        <4>1. (a = T \/ a = c) /\ a <= T /\ a <= c /\ T \in Nat
          BY <1>1, <2>2, <3>2 DEF MinOf, T
        <4> QED
          BY <1>1, <1>2, <2>2, <2>3, <4>1
      <3> QED
        BY <2>4, <3>1, <3>2
    <2>6. v = 0 => w = 0
      <3> SUFFICES ASSUME v = 0, P > 0 PROVE w = 0
        BY <2>2, <2>4
      <3>1. (b + w) * v = 0 /\ P * 0 = 0
        BY <2>2, <2>4
      <3>2. P * w <= P * 0
        BY <2>2, <3>1
      <3>3. w <= 0
        BY <2>2, <2>4, <3>2, Cancel
      <3> QED
        BY <2>2, <3>3
    <2> QED
      BY <2>2, <2>5, <2>6 DEF it, v, a, b, w, c
  <1> QED
    BY <1>2, <1>5, <1>6

-----------------------------------------------------------------------------
(***************************************************************************)
(* What is locked a day after the migration.                               *)
(***************************************************************************)

\* The periods of a vesting that have passed after a day.
PeriodsPassed(info) ==
    IF info.frequency = 0 THEN 0
    ELSE MinOf((SECONDS_PER_DAY - info.cliff_duration_from_migration_time) \div info.frequency,
               info.number_of_periods)

\* What of a vested liquidity w is locked then.
VestedThen(info, w, now) ==
    w - get_max_unlocked_liquidity_at_current_point(
            get_damm_v2_vesting_parameters(info, w, now), now + SECONDS_PER_DAY)

\* All of it before the cliff, and after it the periods that are left.
LEMMA VestedThenIs ==
    ASSUME NEW info \in VestingInfo, NEW w \in Nat, NEW now \in Nat
    PROVE  LET cliff == info.cliff_duration_from_migration_time
               n == info.number_of_periods
               k == PeriodsPassed(info)
           IN  /\ SECONDS_PER_DAY < cliff => VestedThen(info, w, now) = w
               /\ cliff <= SECONDS_PER_DAY => /\ k \in 0..n
                                              /\ VestedThen(info, w, now)
                                                     = PerPeriod(info, w) * (n - k)
  <1> DEFINE cliff == info.cliff_duration_from_migration_time
             n == info.number_of_periods
             freq == info.frequency
             k == PeriodsPassed(info)
             per == PerPeriod(info, w)
             day == SECONDS_PER_DAY
             v == get_damm_v2_vesting_parameters(info, w, now)
             u == get_max_unlocked_liquidity_at_current_point(v, now + day)
  <1>1. /\ cliff \in Nat /\ freq \in Nat
        /\ v.liquidity_per_period = per
        /\ per = 0 => /\ v.cliff_point = now + (IF cliff = 0 THEN 1 ELSE cliff)
                      /\ v.cliff_unlock_liquidity = w
                      /\ v.period_frequency = 0 /\ v.number_of_period = 0
        /\ per # 0 => /\ v.cliff_point = now + cliff
                      /\ v.cliff_unlock_liquidity = w - per * n
                      /\ v.period_frequency = freq /\ v.number_of_period = n
    BY VestingFields
  <1>2. n \in Nat /\ per \in Nat
    BY PeriodProps
  <1>3. day \in Nat /\ day > 0
    BY PositionsAssumption DEF PositionsAssumption
  <1>4. k = IF freq = 0 THEN 0 ELSE MinOf((day - cliff) \div freq, n)
    BY DEF PeriodsPassed
  <1>5. VestedThen(info, w, now) = w - u
    BY DEF VestedThen
  <1>6. u = IF now + day < v.cliff_point THEN 0
            ELSE IF v.period_frequency = 0 THEN v.cliff_unlock_liquidity
            ELSE v.cliff_unlock_liquidity + v.liquidity_per_period *
                     MinOf(((now + day) - v.cliff_point) \div v.period_frequency,
                           v.number_of_period)
    BY DEF get_max_unlocked_liquidity_at_current_point
  <1> HIDE DEF cliff, n, freq, k, per, day, v, u
  <1>7. CASE day < cliff
    <2>1. u = 0
      BY <1>1, <1>3, <1>6, <1>7
    <2>2. VestedThen(info, w, now) = w
      BY <1>5, <2>1
    <2> QED
      BY <1>1, <1>3, <1>7, <2>2 DEF cliff, day
  <1>8. CASE cliff <= day
    <2>1. k \in 0..n
      <3>1. CASE freq = 0
        BY <1>2, <1>4, <3>1
      <3>2. CASE freq # 0
        <4> DEFINE z == day - cliff
                   y == z \div freq
        <4>1. z \in Nat
          BY <1>1, <1>3, <1>8
        <4> HIDE DEF z
        <4>2. y \in Nat
          BY <1>1, <3>2, <4>1, DivMod
        <4>3. k = MinOf(y, n)
          BY <1>4, <3>2 DEF z
        <4> HIDE DEF y
        <4> QED
          BY <1>2, <4>2, <4>3 DEF MinOf
      <3> QED
        BY <3>1, <3>2
    <2>2. k \in Int
      BY <1>2, <2>1
    <2>3. CASE per = 0
      <3>1. u = w
        BY <1>1, <1>3, <1>6, <1>8, <2>3
      <3>2. per * (n - k) = 0 /\ w - u = 0
        BY <1>2, <2>2, <2>3, <3>1
      <3> QED
        BY <1>1, <1>3, <1>5, <1>8, <2>1, <3>2 DEF cliff, day, n, k, per
    <2>4. CASE per # 0
      <3>1. (now + day) - v.cliff_point = day - cliff /\ ~(now + day < v.cliff_point)
        BY <1>1, <1>3, <1>8, <2>4
      <3>2. u = (w - per * n) + per * k
        <4>1. per * n \in Int /\ per * 0 = 0
          BY <1>2
        <4>2. CASE freq = 0
          BY <1>1, <1>2, <1>4, <1>6, <2>4, <3>1, <4>1, <4>2
        <4>3. CASE freq # 0
          BY <1>1, <1>4, <1>6, <2>4, <3>1, <4>3
        <4> QED
          BY <4>2, <4>3
      <3>3. per * (n - k) = per * n - per * k /\ per * n \in Int /\ per * k \in Int
        BY <1>2, <2>2
      <3>4. w - u = per * (n - k)
        BY <3>2, <3>3
      <3> QED
        BY <1>1, <1>3, <1>5, <1>8, <2>1, <3>4 DEF cliff, day, n, k, per
    <2> QED
      BY <2>3, <2>4
  <1> QED
    BY <1>1, <1>3, <1>7, <1>8

\* What create_config accepted of a party's vesting.
VestingChecked(r) ==
    /\ percentage \in Percentages
    /\ liquidity_vesting_info \in VestingInfos
    /\ ValidLiquidityVesting(r)

\* What that says when the party's liquidity vests.
LEMMA VestingCheckedIs ==
    ASSUME NEW r \in Role, VestingChecked(r)
    PROVE  LET info == liquidity_vesting_info[r]
               q == percentage["vest"][r]
               w == LargestVested(r)
           IN  /\ info \in VestingInfo /\ q \in 0..100 /\ w \in Nat
               /\ U128Max \in Nat \ {0} /\ 100 * w <= U128Max * q
               /\ q > 0 => /\ w >= BASIS_POINT_MAX
                           /\ info.bps_per_period * info.number_of_periods > BASIS_POINT_MAX =>
                                  w > BASIS_POINT_MAX * info.number_of_periods
                           /\ validate_vesting_parameters(
                                  get_damm_v2_vesting_parameters(info, w, 0), 0)
  <1> DEFINE info == liquidity_vesting_info[r]
             q == percentage["vest"][r]
             w == LargestVested(r)
  <1>1. info \in VestingInfo
    BY PositionsAssumption DEF PositionsAssumption, VestingChecked
  <1>2. q \in Int /\ 0 <= q /\ q <= 100
    <2>1. \A k \in Share, s \in Role : /\ percentage[k][s] \in Int /\ 0 <= percentage[k][s]
                                       /\ percentage[k][s] <= 100
      BY PercentagesAdd DEF VestingChecked
    <2> QED
      BY <2>1 DEF Share
  <1>3. U128Max \in Nat \ {0}
    BY PositionsAssumption DEF PositionsAssumption
  <1>4. w = MulDivDown(U128Max, q, 100)
    BY DEF LargestVested
  <1>5. q > 0 => /\ w >= BASIS_POINT_MAX
                 /\ info.bps_per_period * info.number_of_periods > BASIS_POINT_MAX =>
                        w > BASIS_POINT_MAX * info.number_of_periods
    <2>1. percentage \in Percentages /\ liquidity_vesting_info \in VestingInfos
      BY DEF VestingChecked
    <2> QED
      BY <1>4, <2>1, PositionsAssumption, Zenon DEF PositionsAssumption
  <1>6. q > 0 => validate_vesting_parameters(get_damm_v2_vesting_parameters(info, w, 0), 0)
    BY <1>2 DEF VestingChecked, ValidLiquidityVesting, LargestVesting
  <1> HIDE DEF q, w
  <1>7. w \in Int /\ 100 * w <= U128Max * q /\ U128Max * q < 100 * w + 100
    BY <1>2, <1>3, <1>4, DownProps
  <1>8. U128Max * q \in Nat
    BY <1>2, <1>3
  <1>9. w \in Nat /\ q \in 0..100
    BY <1>2, <1>7, <1>8
  <1> QED
    BY <1>1, <1>3, <1>5, <1>6, <1>7, <1>9 DEF q, w

\* A share f, in basis points, of every vested liquidity is locked after a
\* day, up to one unit for each period.
LocksShare(info, q, f) ==
    \A v \in Nat, now \in Nat :
        (q = 0 => v = 0) =>
            /\ VestedThen(info, v, now) \in Int
            /\ v * f - BASIS_POINT_MAX * info.number_of_periods
                   <= BASIS_POINT_MAX * VestedThen(info, v, now)

\* What create_config counts of the largest liquidity U, of which w vests.
Counted(info, q, w, U, bps) ==
    /\ 100 * w <= U * q
    /\ q > 0 => info.bps_per_period * info.number_of_periods <= 10000
    /\ bps = MulDivDown(VestedThen(info, w, 0), BASIS_POINT_MAX, U)

\* It is no more than such a share of the party's percentage q.
LEMMA VestedShare ==
    ASSUME NEW info \in VestingInfo, NEW q \in 0..100, NEW w \in Nat, NEW U \in Nat \ {0},
           NEW bps, Counted(info, q, w, U, bps)
    PROVE  /\ bps \in Int
           /\ \E f \in 0..BASIS_POINT_MAX : 100 * bps <= q * f /\ LocksShare(info, q, f)
  <1> DEFINE n == info.number_of_periods
             b == info.bps_per_period
             k == PeriodsPassed(info)
             then(v, now) == VestedThen(info, v, now)
             cliff == info.cliff_duration_from_migration_time
  <1>1. q \in Nat /\ 100 * w <= U * q
    BY DEF Counted
  <1>2. q > 0 => b * n <= 10000
    BY DEF Counted
  <1>3. b \in Nat /\ n \in Nat /\ b <= 10000
    <2>1. b \in 0..BASIS_POINT_MAX /\ n \in Nat
      BY Zenon DEF VestingInfo
    <2> HIDE DEF b, n
    <2> QED
      BY <2>1 DEF BASIS_POINT_MAX
  <1>4. cliff \in Nat /\ SECONDS_PER_DAY \in Nat
    BY VestingFields, PositionsAssumption DEF PositionsAssumption
  <1>5. bps = MulDivDown(then(w, 0), 10000, U)
    BY DEF Counted, BASIS_POINT_MAX
  <1>6. \A v \in Nat, now \in Nat :
            /\ SECONDS_PER_DAY < cliff => then(v, now) = v
            /\ cliff <= SECONDS_PER_DAY => /\ k \in 0..n
                                           /\ then(v, now) = PerPeriod(info, v) * (n - k)
    BY VestedThenIs
  <1>7. \A v \in Nat : /\ PerPeriod(info, v) \in Nat
                       /\ n = 0 => PerPeriod(info, v) = 0
                       /\ n > 0 => 10000 * PerPeriod(info, v) <= v * b
                                   /\ v * b < 10000 * PerPeriod(info, v) + 10000
    BY PeriodProps
  <1> HIDE DEF n, b, k, then, cliff
  <1>8. \A v \in Nat, now \in Nat : then(v, now) \in Nat
    <2> TAKE v \in Nat, now \in Nat
    <2>1. CASE SECONDS_PER_DAY < cliff
      BY <1>6, <2>1
    <2>2. CASE cliff <= SECONDS_PER_DAY
      <3>1. k \in 0..n /\ then(v, now) = PerPeriod(info, v) * (n - k)
        BY <1>6, <2>2
      <3>2. n - k \in Nat /\ PerPeriod(info, v) \in Nat
        BY <1>3, <1>7, <3>1
      <3> QED
        BY <3>1, <3>2
    <2> QED
      BY <1>4, <2>1, <2>2
  <1>9. then(w, 0) \in Nat
    BY <1>1, <1>8
  <1>10. bps \in Int /\ U * bps <= then(w, 0) * 10000
    <2> DEFINE T == then(w, 0)
               z == 10000
    <2>1. T \in Int /\ U \in Int /\ U > 0 /\ z \in Int /\ bps = MulDivDown(T, z, U)
      BY <1>1, <1>5, <1>9
    <2> HIDE DEF T, z
    <2>2. bps \in Int /\ U * bps <= T * z
      BY <2>1, DownProps
    <2> QED
      BY <2>2 DEF T, z
  <1>18. \A g \in Nat : (\A v \in Nat, now \in Nat : (q = 0 => v = 0) =>
                               v * g - 10000 * n <= 10000 * then(v, now))
                         => LocksShare(info, q, g)
    <2> TAKE g \in Nat
    <2> HAVE \A v \in Nat, now \in Nat : (q = 0 => v = 0) =>
                 v * g - 10000 * n <= 10000 * then(v, now)
    <2>1. \A v \in Nat, now \in Nat : then(v, now) \in Int
      BY <1>8
    <2> QED
      BY <2>1 DEF LocksShare, then, n, BASIS_POINT_MAX
  <1>11. \A f \in Nat : 100 * (then(w, 0) * 10000) <= U * (q * f) => 100 * bps <= q * f
    <2> TAKE f \in Nat
    <2>1. q \in Int /\ f \in Int /\ U \in Int /\ U > 0
      BY <1>1
    <2>2. 100 * bps \in Int /\ q * f \in Int /\ U * (100 * bps) = 100 * (U * bps)
          /\ U * bps \in Int /\ U * (q * f) \in Int
      BY <1>10, <2>1
    <2>3. 100 * (then(w, 0) * 10000) <= U * (q * f) => U * (100 * bps) <= U * (q * f)
      BY <1>9, <1>10, <2>2
    <2> QED
      BY <2>1, <2>2, <2>3, Cancel
  <1>12. ASSUME SECONDS_PER_DAY < cliff 
         PROVE  \E g \in 0..BASIS_POINT_MAX : 100 * bps <= q * g /\ LocksShare(info, q, g)
    <2>1. \A v \in Nat, now \in Nat : then(v, now) = v
      BY <1>6, <1>12
    <2>2. 100 * (then(w, 0) * 10000) <= U * (q * 10000)
      <3>1. then(w, 0) = w
        BY <1>1, <2>1
      <3>2. U * (q * 10000) = 10000 * (U * q) /\ U * q \in Int
        BY <1>1
      <3> QED
        BY <1>1, <3>1, <3>2
    <2>3. 100 * bps <= q * 10000
      <3>1. 10000 \in Nat
        OBVIOUS
      <3> QED
        BY <1>11, <2>2, <3>1
    <2>4. \A v \in Nat, now \in Nat : v * 10000 - 10000 * n <= 10000 * then(v, now)
      BY <1>3, <2>1
    <2>5. LocksShare(info, q, 10000)
      <3>1. 10000 \in Nat
        OBVIOUS
      <3> QED
        BY <1>18, <2>4, <3>1
    <2>6. 10000 \in 0..BASIS_POINT_MAX
      BY DEF BASIS_POINT_MAX
    <2> QED
      BY <2>3, <2>5, <2>6
  <1>13. ASSUME cliff <= SECONDS_PER_DAY, q = 0 
         PROVE  \E g \in 0..BASIS_POINT_MAX : 100 * bps <= q * g /\ LocksShare(info, q, g)
    <2>1. w = 0
      BY <1>1, <1>13
    <2>2. k \in 0..n /\ \A now \in Nat : then(0, now) = PerPeriod(info, 0) * (n - k)
      BY <1>6, <1>13
    <2>3. PerPeriod(info, 0) = 0
      <3>1. 0 * b = 0
        BY <1>3
      <3> QED
        BY <1>3, <1>7, <3>1
    <2>4. \A now \in Nat : then(0, now) = 0
      <3>1. 0 * (n - k) = 0
        BY <1>3, <2>2
      <3> QED
        BY <2>2, <2>3, <3>1
    <2>5. 100 * (then(w, 0) * 10000) <= U * (q * 0)
      BY <1>1, <1>13, <2>1, <2>4
    <2>6. 100 * bps <= q * 0
      <3>1. 0 \in Nat
        OBVIOUS
      <3> QED
        BY <1>11, <2>5, <3>1
    <2>7. \A now \in Nat : 0 * 0 - 10000 * n <= 10000 * then(0, now)
      BY <1>3, <2>4
    <2>8. LocksShare(info, q, 0)
      <3>1. 0 \in Nat
        OBVIOUS
      <3> QED
        BY <1>13, <1>18, <2>7, <3>1
    <2>9. 0 \in 0..BASIS_POINT_MAX
      BY DEF BASIS_POINT_MAX
    <2> QED
      BY <2>6, <2>8, <2>9
  <1>14. ASSUME cliff <= SECONDS_PER_DAY, q > 0 
         PROVE  \E g \in 0..BASIS_POINT_MAX : 100 * bps <= q * g /\ LocksShare(info, q, g)
    <2> DEFINE m == n - k
               f == b * m
    <2>1. /\ k \in 0..n
          /\ \A v \in Nat, now \in Nat : then(v, now) = PerPeriod(info, v) * m
      <3>1. 0 \in Nat
        OBVIOUS
      <3> QED
        BY <1>6, <1>14, <3>1
    <2>2. m \in Nat /\ m <= n /\ (n = 0 => m = 0)
      BY <1>3, <2>1
    <2> HIDE DEF m
    <2>3. f \in 0..10000 /\ f \in Nat
      <3>1. b * m <= b * n /\ b * m \in Nat /\ b * n \in Nat
        BY <1>3, <2>2, Scaled
      <3>2. f <= 10000
        BY <1>2, <1>14, <3>1
      <3> HIDE DEF f
      <3>3. f \in Nat
        BY <3>1 DEF f
      <3> QED
        BY <3>2, <3>3
    <2>4. ASSUME NEW v \in Nat
          PROVE  /\ PerPeriod(info, v) * m \in Int
                 /\ 10000 * (PerPeriod(info, v) * m) <= v * f
                 /\ v * f - 10000 * n <= 10000 * (PerPeriod(info, v) * m)
      <3> DEFINE per == PerPeriod(info, v)
      <3>1. /\ per \in Nat /\ (n > 0 => 10000 * per <= v * b)
            /\ (n > 0 => v * b < 10000 * per + 10000)
        BY <1>7
      <3> HIDE DEF per
      <3>2. v * f = m * (v * b) /\ v * b \in Int /\ m * (10000 * per) = 10000 * (per * m)
            /\ m * (10000 * per + 10000) = 10000 * (per * m) + 10000 * m /\ per * m \in Int
        BY <1>3, <2>2, <3>1
      <3>3. CASE n = 0
        <4>1. per * m = 0 /\ v * f = 0
          BY <1>3, <2>2, <3>1, <3>3
        <4> QED
          BY <3>3, <4>1 DEF per
      <3>4. CASE n > 0
        <4>1. m * (10000 * per) <= m * (v * b)
          BY <2>2, <3>1, <3>2, <3>4, Scaled
        <4>2. m * (v * b) <= m * (10000 * per + 10000)
          BY <2>2, <3>1, <3>2, <3>4, Scaled
        <4>3. m * (v * b) \in Int
          BY <2>2, <3>2
        <4> HIDE DEF f
        <4>4. per * m \in Int /\ 10000 * (per * m) <= v * f
              /\ v * f - 10000 * n <= 10000 * (per * m)
          BY <1>3, <2>2, <3>2, <4>1, <4>2, <4>3
        <4> QED
          BY <4>4 DEF per
      <3> QED
        BY <1>3, <3>3, <3>4
    <2> HIDE DEF f
    <2>5. 100 * (then(w, 0) * 10000) <= U * (q * f)
      <3>1. 10000 * then(w, 0) <= w * f
        BY <1>1, <2>1, <2>4
      <3>2. f * (100 * w) <= f * (U * q)
        <4>1. 100 * w \in Int /\ U * q \in Int
          BY <1>1
        <4> QED
          BY <1>1, <2>3, <4>1, Scaled
      <3>3. f * (100 * w) = 100 * (w * f) /\ f * (U * q) = U * (q * f)
            /\ w * f \in Int /\ U * (q * f) \in Int
        BY <1>1, <2>3
      <3> QED
        BY <1>9, <3>1, <3>2, <3>3
    <2>6. 100 * bps <= q * f
      <3>1. f \in Nat
        BY <2>3
      <3> QED
        BY <1>11, <2>5, <3>1
    <2>7. \A v \in Nat, now \in Nat : v * f - 10000 * n <= 10000 * then(v, now)
      BY <2>1, <2>4
    <2>8. LocksShare(info, q, f)
      BY <1>18, <2>3, <2>7
    <2>9. f \in 0..BASIS_POINT_MAX
      BY <2>3 DEF BASIS_POINT_MAX
    <2> QED
      BY <2>6, <2>8, <2>9
  <1> QED
    BY <1>1, <1>4, <1>10, <1>12, <1>13, <1>14

\* So it is of each party's vesting.
LEMMA VestedLock ==
    ASSUME NEW r \in Role, VestingChecked(r)
    PROVE  LET bps == get_liquidity_locked_bps_at_n_seconds(r, SECONDS_PER_DAY)
           IN  /\ bps \in Int
               /\ \E f \in 0..BASIS_POINT_MAX :
                      /\ 100 * bps <= percentage["vest"][r] * f
                      /\ LocksShare(liquidity_vesting_info[r], percentage["vest"][r], f)
  <1>1. PICK info : info = liquidity_vesting_info[r]
    OBVIOUS
  <1>2. PICK q : q = percentage["vest"][r]
    OBVIOUS
  <1>3. PICK w : w = LargestVested(r)
    OBVIOUS
  <1>4. PICK bps : bps = get_liquidity_locked_bps_at_n_seconds(r, SECONDS_PER_DAY)
    OBVIOUS
  <1>5. /\ info \in VestingInfo /\ q \in 0..100 /\ w \in Nat
        /\ U128Max \in Nat \ {0} /\ 100 * w <= U128Max * q
        /\ q > 0 => /\ w >= BASIS_POINT_MAX
                    /\ info.bps_per_period * info.number_of_periods > BASIS_POINT_MAX =>
                           w > BASIS_POINT_MAX * info.number_of_periods
                    /\ validate_vesting_parameters(
                           get_damm_v2_vesting_parameters(info, w, 0), 0)
    BY <1>1, <1>2, <1>3, VestingCheckedIs
  <1>6. q > 0 => info.bps_per_period * info.number_of_periods <= 10000
    BY <1>5, PeriodsUnlockAtMostAll
  <1>7. bps = MulDivDown(VestedThen(info, w, 0), BASIS_POINT_MAX, U128Max)
    <2>1. SECONDS_PER_DAY \in Nat
      BY PositionsAssumption DEF PositionsAssumption
    <2>2. 0 + SECONDS_PER_DAY = SECONDS_PER_DAY
      BY <2>1
    <2> QED
      BY <1>1, <1>3, <1>4, <2>2 DEF get_liquidity_locked_bps_at_n_seconds, VestedThen,
          LargestVesting
  <1>8. Counted(info, q, w, U128Max, bps)
    BY <1>5, <1>6, <1>7 DEF Counted
  <1>9. bps \in Int /\ \E f \in 0..BASIS_POINT_MAX : 100 * bps <= q * f /\ LocksShare(info, q, f)
    BY <1>5, <1>8, VestedShare
  <1> QED
    BY <1>1, <1>2, <1>4, <1>9

\* What is locked of the first position after a day: its shares q and k per
\* cent of D, of which v vests and l is locked for ever, with n periods that
\* leave h of v.
LEMMA FirstLock ==
    ASSUME NEW D \in Nat, NEW q \in Nat, NEW k \in Nat, NEW f \in Nat, NEW n \in Nat,
           NEW v \in Nat, NEW l \in Nat, NEW h \in Int, f <= 10000,
           D * q < 100 * v + 100, D * k < 100 * l + 100, v * f - 10000 * n <= 10000 * h
    PROVE  D * (q * f + 10000 * k) <= 1000000 * (l + h + 2 + n)
  <1>1. D * q \in Int /\ D * k \in Int /\ v * f \in Int
    OBVIOUS
  <1>2. f * (D * q) <= f * (100 * v + 100)
    BY <1>1, Scaled
  <1>3. f * (D * q) = D * (q * f) /\ f * (100 * v + 100) = 100 * (v * f) + 100 * f
    OBVIOUS
  <1>4. q * f \in Int /\ D * (q * f) \in Int
    OBVIOUS
  <1>5. D * (q * f + 10000 * k) = D * (q * f) + 10000 * (D * k)
    OBVIOUS
  <1> QED
    BY <1>1, <1>2, <1>3, <1>4, <1>5

\* The same of the second position, which misses its share by m at most and
\* of whose locked liquidity no more than q / (q + k) vests.
LEMMA SecondLock ==
    ASSUME NEW D \in Nat, NEW q \in Nat, NEW k \in Nat, NEW f \in Nat, NEW n \in Nat,
           NEW v \in Nat, NEW l \in Nat, NEW h \in Int, NEW m \in Nat, f <= 10000,
           D * (q + k) <= 100 * (l + v + m) + 200,
           (q + k) * v <= (l + v) * q,
           v * f - 10000 * n <= 10000 * h
    PROVE  D * (q * f + 10000 * k) <= 1000000 * (l + h + 2 + n + m)
  <1> DEFINE P == q + k
             L == l + v
             W == q * f + 10000 * k
             g == 10000 - f
             x == l + h + n
  <1>1. P \in Nat /\ L \in Nat /\ g \in Nat /\ x \in Int /\ k = P - q /\ l = L - v
    OBVIOUS
  <1>2. v * f \in Int /\ v * f >= 0 /\ q * f \in Nat
    OBVIOUS
  <1>3. W \in Nat
    BY <1>2
  <1>4. 10000 * x >= 10000 * L - v * g
    <2>1. v * g = 10000 * v - v * f
      OBVIOUS
    <2> HIDE DEF g
    <2> QED
      BY <1>2, <2>1
  <1>5. W = 10000 * P - q * g
    <2>1. q * g = 10000 * q - q * f
      OBVIOUS
    <2> HIDE DEF g
    <2> QED
      BY <1>2, <2>1
  <1>6. D * P <= 100 * (L + m) + 200 /\ P * v <= L * q
    OBVIOUS
  <1>7. q * g \in Nat /\ v * g \in Int
    BY <1>1
  <1> HIDE DEF P, L, W, g, x
  <1>8. W <= 10000 * P
    BY <1>1, <1>3, <1>5, <1>7
  <1>9. L * W <= 10000 * (P * x)
    <2>1. P * v \in Int /\ L * q \in Int
      BY <1>1
    <2>2. g * (P * v) <= g * (L * q)
      BY <1>1, <1>6, <2>1, Scaled
    <2>3. P * (10000 * L - v * g) <= P * (10000 * x)
      <3>1. 10000 * L - v * g \in Int /\ 10000 * x \in Int
        BY <1>1, <1>7
      <3> QED
        BY <1>1, <1>4, <3>1, Scaled
    <2>4. P * (10000 * L - v * g) = 10000 * (P * L) - g * (P * v) /\ P * L \in Int
          /\ g * (P * v) \in Int
      BY <1>1
    <2>5. L * W = 10000 * (P * L) - g * (L * q) /\ g * (L * q) \in Int
      <3>1. L * W = L * (10000 * P - q * g)
        BY <1>5
      <3> QED
        BY <1>1, <3>1
    <2>6. P * (10000 * x) = 10000 * (P * x) /\ P * x \in Int
      BY <1>1
    <2> QED
      BY <2>2, <2>3, <2>4, <2>5, <2>6
  <1>10. W * (D * P) <= W * (100 * (L + m) + 200)
    <2>1. D * P \in Int /\ 100 * (L + m) + 200 \in Int
      BY <1>1
    <2> QED
      BY <1>3, <1>6, <2>1, Scaled
  <1>11. (100 * m + 200) * W <= (100 * m + 200) * (10000 * P)
    <2>1. 100 * m + 200 \in Int /\ 100 * m + 200 >= 0 /\ 10000 * P \in Int
      BY <1>1
    <2> QED
      BY <1>3, <1>8, <2>1, Scaled
  <1>12. P * (D * W) <= P * (1000000 * (x + 2 + m))
    <2>1. W * (D * P) = P * (D * W) /\ P * (D * W) \in Int
      BY <1>1, <1>3
    <2>2. W * (100 * (L + m) + 200) = 100 * (L * W) + (100 * m + 200) * W
          /\ L * W \in Int /\ (100 * m + 200) * W \in Int
      BY <1>1, <1>3
    <2>3. (100 * m + 200) * (10000 * P) = 1000000 * (m * P) + 2000000 * P /\ m * P \in Int
      BY <1>1
    <2>4. P * (1000000 * (x + 2 + m)) = 1000000 * (P * x) + 2000000 * P + 1000000 * (m * P)
          /\ P * x \in Int
      BY <1>1
    <2> QED
      BY <1>1, <1>9, <1>10, <1>11, <2>1, <2>2, <2>3, <2>4
  <1>13. D * W \in Int /\ 1000000 * (x + 2 + m) \in Int
    BY <1>1, <1>3
  <1>14. D * W <= 1000000 * (x + 2 + m)
    <2>1. CASE P > 0
      BY <1>1, <1>12, <1>13, <2>1, Cancel
    <2>2. CASE P = 0
      <3>1. W = 0
        BY <1>3, <1>8, <2>2
      <3>2. D * W = 0
        BY <3>1
      <3>3. x >= 0
        BY <1>2 DEF x
      <3> QED
        BY <1>1, <3>2, <3>3
    <2> QED
      BY <1>1, <2>1, <2>2
  <1>15. x + 2 + m = l + h + 2 + n + m
    BY DEF x
  <1> QED
    BY <1>14, <1>15 DEF W

\* What the migration locks for a party, and what of it is locked a day later.
LockedThen(r, now) ==
    CreatedItem(r)["lock"] + VestedThen(liquidity_vesting_info[r], CreatedItem(r)["vest"], now)

\* A party's part of what create_config counts, of all that is distributable.
LEMMA LockOfRole ==
    ASSUME Ready, NEW r \in Role, VestingChecked(r), NEW now \in Nat
    PROVE  LET bps == get_liquidity_locked_bps_at_n_seconds(r, SECONDS_PER_DAY)
               locked == LockedThen(r, now)
           IN  /\ bps \in Int /\ locked \in Int /\ SharesRounding(r) \in Nat
               /\ \E W \in Nat :
                      /\ 100 * bps + 10000 * percentage["lock"][r] <= W
                      /\ Initial.distributable * W <= 1000000 * (locked + SharesRounding(r)
                             + IF r = FirstRole THEN 0 ELSE 2 * UnitLiquidity)
  <1>1. PICK D : D = Initial.distributable
    OBVIOUS
  <1>2. PICK info : info = liquidity_vesting_info[r]
    OBVIOUS
  <1>3. PICK q : q = percentage["vest"][r]
    OBVIOUS
  <1>4. PICK k : k = percentage["lock"][r]
    OBVIOUS
  <1>5. PICK v : v = CreatedItem(r)["vest"]
    OBVIOUS
  <1>6. PICK l : l = CreatedItem(r)["lock"]
    OBVIOUS
  <1>7. PICK n : n = info.number_of_periods
    OBVIOUS
  <1>8. PICK h : h = VestedThen(info, v, now)
    OBVIOUS
  <1>9. PICK bps : bps = get_liquidity_locked_bps_at_n_seconds(r, SECONDS_PER_DAY)
    OBVIOUS
  <1>10. /\ D \in Nat /\ q \in Nat /\ k \in Nat /\ v \in Nat /\ l \in Nat
         /\ r = FirstRole \/ r = SecondRole
         /\ FirstRole # SecondRole
    <2>1. \A a \in Share, s \in Role : percentage[a][s] \in Int /\ 0 <= percentage[a][s]
      BY PercentagesAdd DEF Ready, Sufficient
    <2>2. q \in Int /\ 0 <= q /\ k \in Int /\ 0 <= k
      BY <1>3, <1>4, <2>1 DEF Share, Kind
    <2>3. v \in Nat /\ l \in Nat
      BY <1>5, <1>6, ItemsKeepShares DEF Share, Kind
    <2> QED
      BY <1>1, <2>2, <2>3, SharesOfRoles
  <1>11. n \in Nat
    <2>1. info \in VestingInfo
      BY <1>2, VestingCheckedIs
    <2> QED
      BY <1>7, <2>1 DEF VestingInfo
  <1>12. bps \in Int /\ \E f \in 0..BASIS_POINT_MAX : 100 * bps <= q * f /\ LocksShare(info, q, f)
    BY <1>2, <1>3, <1>9, VestedLock
  <1>13. PICK f \in 0..BASIS_POINT_MAX : 100 * bps <= q * f /\ LocksShare(info, q, f)
    BY <1>12
  <1>14. f \in Nat /\ f <= 10000 /\ q * f \in Nat
    <2>1. f \in Nat /\ f <= 10000
      BY <1>13 DEF BASIS_POINT_MAX
    <2> QED
      BY <1>10, <2>1
  <1>15. q = 0 => v = 0
    BY <1>3, <1>5, ItemsKeepShares
  <1>16. h \in Int /\ v * f - 10000 * n <= 10000 * h
    <2>1. h \in Int /\ v * f - BASIS_POINT_MAX * n <= BASIS_POINT_MAX * h
      BY <1>7, <1>8, <1>10, <1>13, <1>15 DEF LocksShare
    <2> QED
      BY <2>1 DEF BASIS_POINT_MAX
  <1>17. LockedThen(r, now) = l + h
    BY <1>2, <1>5, <1>6, <1>8 DEF LockedThen
  <1>18. SharesRounding(r) = 2 + n
    BY <1>2, <1>7 DEF SharesRounding
  <1>19. PICK a : a = Item(r)["vest"]
    OBVIOUS
  <1>20. PICK b : b = Item(r)["lock"]
    OBVIOUS
  <1>21. a \in Nat /\ b \in Nat /\ D * q < 100 * a + 100 /\ D * k < 100 * b + 100
    BY <1>1, <1>3, <1>4, <1>19, <1>20, SharesOfRoles DEF Share, Kind
  <1> DEFINE W == q * f + 10000 * k
  <1>22. W \in Nat /\ 100 * bps + 10000 * k <= W
    BY <1>10, <1>12, <1>13, <1>14
  <1>23. CASE r = FirstRole
    <2>1. CreatedItem(r) = Item(r)
      BY <1>23 DEF CreatedItem
    <2>2. a = v /\ b = l
      BY <1>5, <1>6, <1>19, <1>20, <2>1
    <2>3. D * W <= 1000000 * (l + h + 2 + n)
      BY <1>10, <1>11, <1>14, <1>16, <1>21, <2>2, FirstLock
    <2> HIDE DEF W
    <2>4. D * W <= 1000000 * ((l + h) + (2 + n) + 0)
      BY <1>10, <1>11, <1>16, <2>3
    <2>5. D * W <= 1000000 * (LockedThen(r, now) + SharesRounding(r)
                             + IF r = FirstRole THEN 0 ELSE 2 * UnitLiquidity)
      BY <1>17, <1>18, <1>23, <2>4
    <2>6. LockedThen(r, now) \in Int /\ SharesRounding(r) \in Nat
      BY <1>10, <1>11, <1>16, <1>17, <1>18
    <2> QED
      BY <1>1, <1>4, <1>9, <1>12, <1>22, <2>5, <2>6
  <1>24. CASE r = SecondRole
    <2>1. PICK m : m = 2 * UnitLiquidity
      OBVIOUS
    <2>2. m \in Nat
      BY <2>1, MigrationDeposits
    <2>3. l + v + m >= b + a
      BY <1>5, <1>6, <1>19, <1>20, <2>1, ItemsKeepShares
    <2>4. (q + k) * v <= (l + v) * q
      <3>1. Divided(CreatedItem(r), SecondTotal, Item(r)["claim"], q, k)
        BY <1>3, <1>4, <1>24, SecondDivided
      <3>2. /\ q + k = 0 => l = 0 /\ v = 0
            /\ q + k > 0 => (q + k) * v <= (l + v) * q
        BY <1>5, <1>6, <3>1 DEF Divided
      <3>3. CASE q + k = 0
        <4>1. (q + k) * 0 <= (0 + 0) * q
          BY <1>10
        <4> QED
          BY <3>2, <3>3, <4>1
      <3> QED
        BY <1>10, <3>2, <3>3
    <2>5. D * (q + k) <= 100 * (l + v + m) + 200
      <3>1. D * (q + k) = D * q + D * k /\ D * q \in Int /\ D * k \in Int
        BY <1>10
      <3> QED
        BY <1>10, <1>21, <2>2, <2>3, <3>1
    <2>6. D * W <= 1000000 * (l + h + 2 + n + m)
      BY <1>10, <1>11, <1>14, <1>16, <2>2, <2>4, <2>5, SecondLock
    <2> HIDE DEF W
    <2>7. D * W <= 1000000 * ((l + h) + (2 + n) + m)
      BY <1>10, <1>11, <1>16, <2>2, <2>6
    <2>8. D * W <= 1000000 * (LockedThen(r, now) + SharesRounding(r)
                             + IF r = FirstRole THEN 0 ELSE 2 * UnitLiquidity)
      BY <1>10, <1>17, <1>18, <1>24, <2>1, <2>7
    <2>9. LockedThen(r, now) \in Int /\ SharesRounding(r) \in Nat
      BY <1>10, <1>11, <1>16, <1>17, <1>18
    <2> QED
      BY <1>1, <1>4, <1>9, <1>12, <1>22, <2>8, <2>9
  <1> QED
    BY <1>10, <1>23, <1>24

\* So of both: a tenth of the migrated liquidity is locked a day later.
LEMMA LockOfBoth ==
    ASSUME Ready, \A r \in Role : VestingChecked(r), NEW now \in Nat,
           get_total_liquidity_locked_bps_at_n_seconds(SECONDS_PER_DAY)
               >= MIN_LOCKED_LIQUIDITY_BPS
    PROVE  LET total == get_total_liquidity(CreatedItem("partner"))
                        + get_total_liquidity(CreatedItem("creator"))
           IN  LockedThen("partner", now) + LockedThen("creator", now)
               + 2 * UnitLiquidity + PriceRounding
               + SharesRounding("partner") + SharesRounding("creator")
                   >= MulDivDown(total, MIN_LOCKED_LIQUIDITY_BPS, BASIS_POINT_MAX)
  <1> DEFINE bps(r) == get_liquidity_locked_bps_at_n_seconds(r, SECONDS_PER_DAY)
             lock(r) == percentage["lock"][r]
             slack(r) == IF r = FirstRole THEN 0 ELSE 2 * UnitLiquidity
  <1>1. PICK D : D = Initial.distributable
    OBVIOUS
  <1>2. PICK x : x = LockedThen("partner", now)
    OBVIOUS
  <1>3. PICK y : y = LockedThen("creator", now)
    OBVIOUS
  <1>4. PICK i : i = SharesRounding("partner")
    OBVIOUS
  <1>5. PICK j : j = SharesRounding("creator")
    OBVIOUS
  <1>6. PICK u : u = slack("partner")
    OBVIOUS
  <1>7. PICK w : w = slack("creator")
    OBVIOUS
  <1>8. PICK z : z = PriceRounding
    OBVIOUS
  <1>9. PICK total : total = get_total_liquidity(CreatedItem("partner"))
                             + get_total_liquidity(CreatedItem("creator"))
    OBVIOUS
  <1>10. /\ D \in Nat /\ z \in Nat /\ UnitLiquidity \in Nat
         /\ u \in Nat /\ w \in Nat /\ u + w = 2 * UnitLiquidity
    <2>1. D \in Nat /\ FirstRole \in Role
      BY <1>1, SharesOfRoles
    <2>2. z \in Nat /\ UnitLiquidity \in Nat
      BY <1>8, MigrationDeposits
    <2> HIDE DEF UnitLiquidity
    <2> QED
      BY <1>6, <1>7, <2>1, <2>2 DEF Role
  <1>11. /\ bps("partner") \in Int /\ x \in Int /\ i \in Nat
         /\ \E W \in Nat : /\ 100 * bps("partner") + 10000 * lock("partner") <= W
                           /\ D * W <= 1000000 * (x + i + u)
    BY <1>1, <1>2, <1>4, <1>6, LockOfRole DEF Role
  <1>12. /\ bps("creator") \in Int /\ y \in Int /\ j \in Nat
         /\ \E W \in Nat : /\ 100 * bps("creator") + 10000 * lock("creator") <= W
                           /\ D * W <= 1000000 * (y + j + w)
    BY <1>1, <1>3, <1>5, <1>7, LockOfRole DEF Role
  <1>13. lock("partner") \in Int /\ lock("creator") \in Int
    BY PercentagesAdd DEF Ready, Sufficient, Share, Kind, Role
  <1>14. bps("partner") + 100 * lock("partner") + bps("creator") + 100 * lock("creator") >= 1000
    BY DEF get_total_liquidity_locked_bps_at_n_seconds, MIN_LOCKED_LIQUIDITY_BPS
  <1> HIDE DEF bps, lock, slack
  <1>15. PICK V \in Nat : /\ 100 * bps("partner") + 10000 * lock("partner") <= V
                          /\ D * V <= 1000000 * (x + i + u)
    BY <1>11
  <1>16. PICK W \in Nat : /\ 100 * bps("creator") + 10000 * lock("creator") <= W
                          /\ D * W <= 1000000 * (y + j + w)
    BY <1>12
  <1>17. 100000 <= V + W
    BY <1>11, <1>12, <1>13, <1>14, <1>15, <1>16
  <1>18. 100000 * D <= D * V + D * W
    <2>1. V + W \in Int
      OBVIOUS
    <2>2. D * 100000 <= D * (V + W)
      BY <1>10, <1>17, <2>1, Scaled
    <2>3. D * (V + W) = D * V + D * W
      BY <1>10
    <2> QED
      BY <1>10, <2>2, <2>3
  <1>19. D <= 10 * (x + y + u + w + i + j)
    <2>1. D * V \in Int /\ D * W \in Int
      BY <1>10
    <2> QED
      BY <1>10, <1>11, <1>12, <1>15, <1>16, <1>18, <2>1
  <1>20. total \in Int /\ total <= D + z
    <2> DEFINE s == SecondRole
               c == CreatedItem(s)
    <2>1. PICK a : a = get_total_liquidity(CreatedItem(FirstRole))
      OBVIOUS
    <2>2. PICK b : b = get_total_liquidity(CreatedItem(SecondRole))
      OBVIOUS
    <2>3. a = get_total_liquidity(Item(FirstRole))
      BY <2>1 DEF CreatedItem
    <2>4. b = SecondTotal
      <3>1. Divided(c, SecondTotal, Item(s)["claim"], percentage["vest"][s], percentage["lock"][s])
        BY SecondDivided
      <3> HIDE DEF c
      <3>2. c["claim"] + c["lock"] + c["vest"] = SecondTotal
        BY <3>1 DEF Divided
      <3> QED
        BY <2>2, <3>2 DEF get_total_liquidity, c, s
    <2>5. a \in Nat /\ b \in Nat /\ a + b <= D + z
      <3>1. PICK m : m = get_total_liquidity(Item(SecondRole))
        OBVIOUS
      <3>2. a \in Nat /\ m \in Nat /\ a + m = D
        BY <1>1, <2>3, <3>1, SharesOfRoles
      <3>3. b \in Nat /\ b <= m + z
        BY <1>8, <2>4, <3>1, MigrationDeposits
      <3> QED
        BY <1>10, <3>2, <3>3
    <2>6. total = a + b
      <3>1. CASE FirstRole = "partner"
        BY <1>9, <2>1, <2>2, <3>1 DEF SecondRole
      <3>2. CASE FirstRole = "creator"
        <4>1. SecondRole = "partner"
          BY <3>2 DEF SecondRole
        <4>2. total = b + a
          BY <1>9, <2>1, <2>2, <3>2, <4>1
        <4> QED
          BY <2>5, <4>2
      <3> QED
        BY <3>1, <3>2, SharesOfRoles DEF Role
    <2> QED
      BY <2>5, <2>6
  <1>21. PICK t : t = MulDivDown(total, MIN_LOCKED_LIQUIDITY_BPS, BASIS_POINT_MAX)
    OBVIOUS
  <1>22. t \in Int /\ 10000 * t <= 1000 * total
    <2> DEFINE c == 1000
               d == 10000
    <2>1. c \in Int /\ d \in Int /\ d > 0 /\ t = MulDivDown(total, c, d)
      BY <1>21 DEF MIN_LOCKED_LIQUIDITY_BPS, BASIS_POINT_MAX
    <2> HIDE DEF c, d
    <2>2. t \in Int /\ d * t <= total * c
      BY <1>20, <2>1, DownProps
    <2> QED
      BY <1>20, <2>2 DEF c, d
  <1>23. x + y + (u + w) + z + i + j >= t
    BY <1>10, <1>11, <1>12, <1>19, <1>20, <1>22
  <1> QED
    BY <1>2, <1>3, <1>4, <1>5, <1>8, <1>9, <1>10, <1>21, <1>23

-----------------------------------------------------------------------------
(***************************************************************************)
(* The migration's outcome, and the invariant.                             *)
(***************************************************************************)

\* Migration in terms of its parts.
LEMMA MigrationIs ==
    LET created == [r \in Role |-> Position(r, CreatedItem(r))]
        deposit == DammDeposit(FirstPool, SecondTotal)
        refused == ~Initial.ok \/ LeftBase < 0 \/ LeftQuote < 0
    IN  /\ refused => Migration.ok = FALSE
        /\ ~refused =>
               Migration = [ok         |-> \A r \in Role : LockAccepted(created[r]),
                            positions  |-> created,
                            base_dust  |-> LeftBase - deposit.base,
                            quote_dust |-> LeftQuote - deposit.quote]
  BY DEF Migration, Initial, LeftBase, LeftQuote, FirstPool, SecondTotal, CreatedItem, Item,
      FirstRole

\* What the two positions promise, of any two positions.
SharesKept(pos) ==
    LET shares == get_liquidity_distribution(Initial.distributable)
    IN  \A r \in Role :
            /\ pos[r].liquidity["claim"] <= shares["claim"][r] + PriceRounding
            /\ pos[r].liquidity["lock"] + pos[r].liquidity["vest"] + 2 * UnitLiquidity
                   >= shares["lock"][r] + shares["vest"][r]

LockedOf(pos, role, point) ==
    pos[role].liquidity["lock"] + pos[role].liquidity["vest"]
    - get_max_unlocked_liquidity_at_current_point(pos[role].vesting, point)

DayLocked(pos, at) ==
    LockedOf(pos, "partner", at + SECONDS_PER_DAY) + LockedOf(pos, "creator", at + SECONDS_PER_DAY)
    + 2 * UnitLiquidity + PriceRounding + SharesRounding("partner") + SharesRounding("creator")
        >= MulDivDown(get_total_liquidity(pos["partner"].liquidity)
                      + get_total_liquidity(pos["creator"].liquidity),
                      MIN_LOCKED_LIQUIDITY_BPS, BASIS_POINT_MAX)

LEMMA PropertiesAre ==
    /\ PositionsKeepShares <=> (migrated_at > 0 => SharesKept(positions))
    /\ LockedForADay <=> (migrated_at > 0 => DayLocked(positions, migrated_at))
  BY DEF PositionsKeepShares, LockedForADay, SharesKept, DayLocked, LockedOf, LockedAt, Initial

\* They are about the sale and the configuration, which a migration ends.
LEMMA OfferedFixed ==
    ASSUME UNCHANGED <<configVars, saleVars>>
    PROVE  UNCHANGED <<BaseOffered, QuoteOffered>>
  BY DEF configVars, saleVars, BaseOffered, QuoteOffered, MigrationBase, MigrationQuote,
      effective_migration_quote_threshold

LEMMA InitialFixed ==
    ASSUME UNCHANGED <<configVars, saleVars>>
    PROVE  UNCHANGED <<Initial, UnitLiquidity, PriceRounding>>
  <1>1. UNCHANGED <<BaseOffered, QuoteOffered, config, sqrt_price>>
    BY OfferedFixed DEF configVars, saleVars
  <1> HIDE DEF BaseOffered, QuoteOffered
  <1>2. Initial' = Initial
    BY <1>1 DEF Initial, get_initial_pool_information, calculate_concentrated_initial_liquidity
  <1>3. UnitLiquidity' = UnitLiquidity
    BY <1>1, <1>2 DEF Initial, UnitLiquidity, DammPool
  <1>4. PriceRounding' = PriceRounding
    BY <1>1 DEF PriceRounding
  <1> QED
    BY <1>2, <1>3, <1>4

LEMMA PromisesFixed ==
    ASSUME UNCHANGED <<configVars, saleVars, percentage, liquidity_vesting_info>>, NEW pos, NEW at
    PROVE  /\ SharesKept(pos) => SharesKept(pos)'
           /\ DayLocked(pos, at) => DayLocked(pos, at)'
  <1>1. UNCHANGED <<Initial, UnitLiquidity, PriceRounding, percentage, liquidity_vesting_info>>
    BY InitialFixed
  <1>2. SharesKept(pos) => SharesKept(pos)'
    <2>1. PICK D : D = Initial.distributable
      OBVIOUS
    <2>2. Initial.distributable' = D
      BY <1>1, <2>1
    <2>3. get_liquidity_distribution(D)' = get_liquidity_distribution(D)
      BY <1>1 DEF get_liquidity_distribution
    <2>4. get_liquidity_distribution(Initial.distributable)'
          = get_liquidity_distribution(Initial.distributable)
      BY <2>1, <2>2, <2>3
    <2> HIDE DEF Initial, UnitLiquidity, PriceRounding
    <2> QED
      BY <1>1, <2>4 DEF SharesKept
  <1>3. DayLocked(pos, at) => DayLocked(pos, at)'
    BY <1>1 DEF DayLocked, SharesRounding
  <1> QED
    BY <1>2, <1>3

\* What of a vested liquidity is unlocked then is a number.
LEMMA UnlockedInt ==
    ASSUME NEW info \in VestingInfo, NEW w \in Nat, NEW now \in Nat
    PROVE  get_max_unlocked_liquidity_at_current_point(
               get_damm_v2_vesting_parameters(info, w, now), now + SECONDS_PER_DAY) \in Int
  <1> DEFINE v == get_damm_v2_vesting_parameters(info, w, now)
             n == info.number_of_periods
             per == PerPeriod(info, w)
             point == now + SECONDS_PER_DAY
             y == (point - v.cliff_point) \div v.period_frequency
  <1>1. n \in Nat /\ per \in Nat /\ SECONDS_PER_DAY \in Nat
    BY PeriodProps, PositionsAssumption DEF PositionsAssumption
  <1>2. per * n \in Int /\ point \in Int
    BY <1>1
  <1>3. /\ v.cliff_point \in Int /\ v.cliff_unlock_liquidity \in Int
        /\ v.period_frequency \in Nat /\ v.number_of_period \in Nat
        /\ v.liquidity_per_period = per
    <2> DEFINE cliff == info.cliff_duration_from_migration_time
               freq == info.frequency
    <2>1. /\ cliff \in Nat /\ freq \in Nat
          /\ v.liquidity_per_period = per
          /\ per = 0 => /\ v.cliff_point = now + (IF cliff = 0 THEN 1 ELSE cliff)
                        /\ v.cliff_unlock_liquidity = w
                        /\ v.period_frequency = 0 /\ v.number_of_period = 0
          /\ per # 0 => /\ v.cliff_point = now + cliff
                        /\ v.cliff_unlock_liquidity = w - per * n
                        /\ v.period_frequency = freq /\ v.number_of_period = n
      BY VestingFields
    <2> HIDE DEF v, per, n, cliff, freq
    <2> QED
      BY <1>1, <1>2, <2>1
  <1> HIDE DEF v, per, n, point
  <1>4. v.period_frequency # 0 => y \in Int
    <2>1. point - v.cliff_point \in Int
      BY <1>2, <1>3
    <2> QED
      BY <1>3, <2>1, Floor
  <1> HIDE DEF y
  <1>5. v.period_frequency # 0 => per * MinOf(y, v.number_of_period) \in Int
    <2>1. v.period_frequency # 0 => MinOf(y, v.number_of_period) \in Int
      BY <1>3, <1>4 DEF MinOf
    <2> QED
      BY <1>1, <2>1
  <1> QED
    BY <1>3, <1>5 DEF get_max_unlocked_liquidity_at_current_point, v, point, y

\* What create_config accepted of both parties' liquidity.
LiquidityChecked ==
    /\ \A r \in Role : VestingChecked(r)
    /\ get_total_liquidity_locked_bps_at_n_seconds(SECONDS_PER_DAY) >= MIN_LOCKED_LIQUIDITY_BPS

\* The positions of a migration keep both promises.
LEMMA PromisesKept ==
    ASSUME Ready, LiquidityChecked
    PROVE  LET created == [r \in Role |-> Position(r, CreatedItem(r))]
           IN  SharesKept(created) /\ DayLocked(created, clock)
  <1>1. PICK pos : pos = [r \in Role |-> Position(r, CreatedItem(r))]
    OBVIOUS
  <1>2. \A r \in Role :
            /\ pos[r].liquidity = CreatedItem(r)
            /\ pos[r].vesting = get_damm_v2_vesting_parameters(liquidity_vesting_info[r],
                                    CreatedItem(r)["vest"], clock)
    BY <1>1 DEF Position
  <1>3. SharesKept(pos)
    <2> SUFFICES ASSUME NEW r \in Role
                 PROVE  LET shares == get_liquidity_distribution(Initial.distributable)
                        IN  /\ pos[r].liquidity["claim"] <= shares["claim"][r] + PriceRounding
                            /\ pos[r].liquidity["lock"] + pos[r].liquidity["vest"]
                               + 2 * UnitLiquidity >= shares["lock"][r] + shares["vest"][r]
      BY DEF SharesKept
    <2>1. /\ CreatedItem(r)["claim"] <= Item(r)["claim"] + PriceRounding
          /\ CreatedItem(r)["lock"] + CreatedItem(r)["vest"] + 2 * UnitLiquidity
                 >= Item(r)["lock"] + Item(r)["vest"]
      BY ItemsKeepShares
    <2>2. \A k \in Share : Item(r)[k] = get_liquidity_distribution(Initial.distributable)[k][r]
      BY DEF Item
    <2>3. "claim" \in Share /\ "lock" \in Share /\ "vest" \in Share
      BY DEF Share, Kind
    <2> HIDE DEF Initial
    <2> QED
      BY <1>2, <2>1, <2>2, <2>3
  <1>4. DayLocked(pos, clock)
    <2>1. PICK now \in Nat : now = clock
      BY DEF Ready, Sufficient, TypeOK
    <2>2. \A r \in Role : LockedOf(pos, r, now + SECONDS_PER_DAY) = LockedThen(r, now)
      <3> TAKE r \in Role
      <3>1. PICK v : v = CreatedItem(r)["vest"]
        OBVIOUS
      <3>2. PICK l : l = CreatedItem(r)["lock"]
        OBVIOUS
      <3>3. PICK info : info = liquidity_vesting_info[r]
        OBVIOUS
      <3>4. PICK u : u = get_max_unlocked_liquidity_at_current_point(
                             get_damm_v2_vesting_parameters(info, v, now), now + SECONDS_PER_DAY)
        OBVIOUS
      <3>5. LockedOf(pos, r, now + SECONDS_PER_DAY) = l + v - u
        BY <1>2, <2>1, <3>1, <3>2, <3>3, <3>4 DEF LockedOf
      <3>6. LockedThen(r, now) = l + (v - u)
        BY <3>1, <3>2, <3>3, <3>4 DEF LockedThen, VestedThen
      <3>7. v \in Int /\ l \in Int
        BY <3>1, <3>2, ItemsKeepShares DEF Share, Kind
      <3>8. u \in Int
        <4>1. info \in VestingInfo
          BY <3>3, VestingCheckedIs DEF LiquidityChecked
        <4>2. v \in Nat
          BY <3>1, ItemsKeepShares DEF Share, Kind
        <4> QED
          BY <2>1, <3>4, <4>1, <4>2, UnlockedInt
      <3> QED
        BY <3>5, <3>6, <3>7, <3>8
    <2>3. LET total == get_total_liquidity(CreatedItem("partner"))
                       + get_total_liquidity(CreatedItem("creator"))
          IN  LockedThen("partner", now) + LockedThen("creator", now)
              + 2 * UnitLiquidity + PriceRounding
              + SharesRounding("partner") + SharesRounding("creator")
                  >= MulDivDown(total, MIN_LOCKED_LIQUIDITY_BPS, BASIS_POINT_MAX)
      BY LockOfBoth DEF LiquidityChecked
    <2>4. DayLocked(pos, now)
      BY <1>2, <2>2, <2>3 DEF DayLocked, Role
    <2> QED
      BY <2>1, <2>4
  <1> QED
    BY <1>1, <1>3, <1>4

PositionsInv ==
    /\ TypeOK /\ OnCurve /\ PayoutsFollowSale
    /\ LiquidityChecked
    /\ migrated_at \in Nat
    /\ migrated_at > 0 => migration_progress = "CreatedPool"
    /\ PositionsKeepShares /\ LockedForADay

\* A migration that DAMM v2 does not refuse finds a pool that is ready, and
\* leaves a dust.
LEMMA MigrationReady ==
    ASSUME TypeOK, OnCurve, LiquidityChecked, config.migration_option = "DammV2",
           SufficientForMigration, Migration.ok
    PROVE  /\ Ready
           /\ Migration.positions = [r \in Role |-> Position(r, CreatedItem(r))]
           /\ Migration.base_dust \in Nat /\ Migration.quote_dust \in Nat
  <1> DEFINE deposit == DammDeposit(FirstPool, SecondTotal)
             created == [r \in Role |-> Position(r, CreatedItem(r))]
  <1>1. ~(~Initial.ok \/ LeftBase < 0 \/ LeftQuote < 0)
    BY MigrationIs
  <1>2. Migration = [ok         |-> \A r \in Role : LockAccepted(created[r]),
                     positions  |-> created,
                     base_dust  |-> LeftBase - deposit.base,
                     quote_dust |-> LeftQuote - deposit.quote]
    BY <1>1, MigrationIs
  <1>3. percentage \in Percentages
    BY DEF LiquidityChecked, VestingChecked, Role
  <1>4. Ready
    BY <1>1, <1>3 DEF Ready, Sufficient
  <1>5. /\ LeftBase \in Nat /\ deposit.base \in Int /\ deposit.base <= LeftBase
        /\ LeftQuote \in Nat /\ deposit.quote \in Int /\ deposit.quote <= LeftQuote
    BY <1>4, MigrationDeposits
  <1> HIDE DEF deposit, created, Migration
  <1>6. /\ Migration.positions = created
        /\ Migration.base_dust = LeftBase - deposit.base
        /\ Migration.quote_dust = LeftQuote - deposit.quote
    BY <1>2
  <1>7. Migration.base_dust \in Nat /\ Migration.quote_dust \in Nat
    BY <1>5, <1>6
  <1> QED
    BY <1>4, <1>6, <1>7 DEF created

\* What the configuration was checked for stays checked.
LEMMA CheckedFixed ==
    ASSUME LiquidityChecked, UNCHANGED <<config, percentage, liquidity_vesting_info>>
    PROVE  LiquidityChecked'
  BY DEF LiquidityChecked, VestingChecked, ValidLiquidityVesting, LargestVesting, LargestVested,
      get_total_liquidity_locked_bps_at_n_seconds, get_liquidity_locked_bps_at_n_seconds

\* Every other step is one of the pool and its LP tokens.
LEMMA OtherIsLiquidity == OtherStep => LiquidityNext
  BY DEF OtherStep, LiquidityNext, PoolStep

\* The parts of the state that a migration to positions leaves alone.
LEMMA MigrateIs ==
    ASSUME MigrateToPositions
    PROVE  /\ SufficientForMigration /\ Migration.ok
           /\ config.migration_option = "DammV2"
           /\ Migrate(Migration.base_dust, Migration.quote_dust)
           /\ positions' = Migration.positions /\ migrated_at' = clock
           /\ migration_progress # "CreatedPool" /\ migration_progress' = "CreatedPool"
           /\ is_sale_complete
           /\ UNCHANGED <<configVars, saleVars, withdrawVars, clock>>
           /\ UNCHANGED <<percentage, creator, lpVars, liquidity_vesting_info>>
  <1>1. PICK m : /\ m = Migration /\ m.ok
                 /\ MigrateDammV2(m.base_dust, m.quote_dust)
                 /\ positions' = m.positions
    BY DEF MigrateToPositions
  <1>2. /\ config.migration_option = "DammV2"
        /\ Migrate(Migration.base_dust, Migration.quote_dust)
    BY <1>1 DEF MigrateDammV2
  <1>3. /\ SufficientForMigration /\ migrated_at' = clock
        /\ UNCHANGED <<percentage, creator, lpVars, liquidity_vesting_info>>
    BY DEF MigrateToPositions
  <1> HIDE DEF Migration
  <1>4. /\ migration_progress # "CreatedPool" /\ migration_progress' = "CreatedPool"
        /\ is_sale_complete
        /\ UNCHANGED <<configVars, saleVars, withdrawVars, clock>>
    BY <1>2 DEF Migrate, MigrateAfterDeadline
  <1> QED
    BY <1>1, <1>2, <1>3, <1>4

LEMMA PositionsInvInit == PositionsInit => PositionsInv
  <1> SUFFICES ASSUME PositionsInit PROVE PositionsInv
    OBVIOUS
  <1>1. Init /\ percentage \in Percentages
    BY DEF PositionsInit, LiquidityInit
  <1>2. TypeOK /\ OnCurve
    BY <1>1, TypeInit, OnCurveInit
  <1>3. PayoutsFollowSale
    BY <1>1 DEF Init, PayoutsFollowSale
  <1>4. LiquidityChecked
    BY <1>1 DEF PositionsInit, LiquidityChecked, VestingChecked
  <1>5. migrated_at = 0
    BY DEF PositionsInit
  <1>6. PositionsKeepShares /\ LockedForADay
    BY <1>5 DEF PositionsKeepShares, LockedForADay
  <1> QED
    BY <1>2, <1>3, <1>4, <1>5, <1>6 DEF PositionsInv

\* The migration makes both promises.
LEMMA MigrateKeepsPositions ==
    ASSUME PositionsInv, MigrateToPositions
    PROVE  PositionsInv'
  <1>1. TypeOK /\ OnCurve /\ PayoutsFollowSale /\ LiquidityChecked
    BY DEF PositionsInv
  <1>2. /\ SufficientForMigration /\ Migration.ok /\ config.migration_option = "DammV2"
        /\ Migrate(Migration.base_dust, Migration.quote_dust)
        /\ positions' = Migration.positions /\ migrated_at' = clock
        /\ migration_progress' = "CreatedPool" /\ is_sale_complete
        /\ UNCHANGED <<configVars, saleVars, withdrawVars, clock>>
        /\ UNCHANGED <<percentage, liquidity_vesting_info>>
    BY MigrateIs
  <1> HIDE DEF Migration
  <1>3. TypeOK'
    <2>1. PICK bd : bd = Migration.base_dust
      OBVIOUS
    <2>2. PICK qd : qd = Migration.quote_dust
      OBVIOUS
    <2>3. Migrate(bd, qd)
      BY <1>2, <2>1, <2>2
    <2> QED
      BY <1>1, <2>3, TypeMigrate
  <1>4. OnCurve'
    BY <1>1, <1>2 DEF OnCurve, CurveBacked, total_quote_reserve, configVars, saleVars
  <1>5. PayoutsFollowSale'
    <2>1. is_sale_complete'
      BY <1>2 DEF is_sale_complete, is_curve_complete, is_deadline_reached,
          total_quote_reserve, configVars, saleVars
    <2>2. has_real_quote_surplus' = has_real_quote_surplus
      BY <1>2 DEF has_real_quote_surplus, configVars, saleVars
    <2> QED
      BY <1>1, <1>2, <2>1, <2>2 DEF PayoutsFollowSale, withdrawVars
  <1>6. LiquidityChecked'
    BY <1>1, <1>2, CheckedFixed DEF configVars
  <1>7. clock \in Nat
    BY <1>1 DEF TypeOK
  <1>8. PICK pos : pos = [r \in Role |-> Position(r, CreatedItem(r))]
    OBVIOUS
  <1>9. PICK at : at = clock
    OBVIOUS
  <1>10. Ready /\ positions' = pos
    BY <1>1, <1>2, <1>8, MigrationReady
  <1>11. SharesKept(pos) /\ DayLocked(pos, at)
    BY <1>1, <1>8, <1>9, <1>10, PromisesKept
  <1>12. SharesKept(pos)' /\ DayLocked(pos, at)'
    BY <1>2, <1>11, PromisesFixed
  <1>13. SharesKept(positions)' /\ DayLocked(positions, migrated_at)'
    <2>1. positions' = pos /\ migrated_at' = at
      BY <1>2, <1>9, <1>10
    <2> QED
      BY <1>12, <2>1
  <1>14. PositionsKeepShares' /\ LockedForADay'
    BY <1>13 DEF PositionsKeepShares, LockedForADay, SharesKept, DayLocked,
        LockedOf, LockedAt, Initial
  <1> QED
    BY <1>2, <1>3, <1>4, <1>5, <1>6, <1>7, <1>14 DEF PositionsInv

\* Nothing after it takes them back.
LEMMA OtherKeepsPositions ==
    ASSUME PositionsInv, OtherStep \/ UNCHANGED <<allVars, positionVars>>
    PROVE  PositionsInv'
  <1>1. TypeOK /\ OnCurve /\ PayoutsFollowSale /\ LiquidityChecked
    BY DEF PositionsInv
  <1>2. UNCHANGED positionVars
    BY DEF OtherStep
  <1>3. [LiquidityNext]_allVars
    BY OtherIsLiquidity
  <1>4. [Next]_vars
    BY <1>3, PoolSteps
  <1>5. UNCHANGED percentage
    BY <1>3 DEF LiquidityNext, PoolStep, CreateMetadata, MigrateAndMint, DeliverLp,
        TransferPoolCreator, allVars
  <1>6. TypeOK' /\ OnCurve' /\ PayoutsFollowSale'
    BY <1>1, <1>4, TypeStep, OnCurveStep, PayoutsStep
  <1>7. UNCHANGED config
    BY <1>1, <1>4, ConfigFixed
  <1>8. LiquidityChecked'
    BY <1>1, <1>2, <1>5, <1>7, CheckedFixed DEF positionVars
  <1>9. /\ migrated_at' \in Nat /\ migrated_at' = migrated_at
        /\ liquidity_vesting_info' = liquidity_vesting_info /\ positions' = positions
    BY <1>2 DEF positionVars, PositionsInv
  <1>10. ASSUME migrated_at > 0
         PROVE  /\ migration_progress' = "CreatedPool"
                /\ SharesKept(positions)' /\ DayLocked(positions, migrated_at)'
    <2>1. migration_progress = "CreatedPool"
      BY <1>10 DEF PositionsInv
    <2>2. ~Trade
      <3> SUFFICES ASSUME Trade PROVE FALSE
        OBVIOUS
      <3>1. PICK r : \E v \in BOOLEAN : process_swap(r, v)
        BY DEF Trade, Swap, VirtualSwap
      <3>2. PICK v \in BOOLEAN : process_swap(r, v)
        BY <3>1
      <3> QED
        BY <1>1, <2>1, <3>2, SwapBeforeCompletion
    <2>3. UNCHANGED <<configVars, saleVars>>
      BY <1>1, <1>4, <2>2, OtherSteps
    <2>4. migration_progress' = "CreatedPool"
      <3>1. CASE Claim
        BY <2>1, <3>1 DEF Claim, ClaimProtocolFee, ClaimProtocolFee2, ZapProtocolFee,
            ClaimTradingFee, PartnerWithdrawSurplus, CreatorWithdrawSurplus,
            WithdrawSurplus, WithdrawMigrationFee, WithdrawLeftover, statusVars
      <3>2. CASE ~Claim
        BY <1>4, <2>1, <2>2, <3>2 DEF Next, CreateLocker, CreateLockerAfterDeadline, CreatePool,
            MigrateMeteoraDamm, MigrateDammV2, Migrate, MigrateAfterDeadline, Tick, vars,
            statusVars
      <3> QED
        BY <3>1, <3>2
    <2>5. SharesKept(positions) /\ DayLocked(positions, migrated_at)
      BY <1>10, PropertiesAre DEF PositionsInv
    <2>6. PICK pos : pos = positions
      OBVIOUS
    <2>7. PICK at : at = migrated_at
      OBVIOUS
    <2>8. SharesKept(pos) /\ DayLocked(pos, at)
      BY <2>5, <2>6, <2>7
    <2>9. SharesKept(pos)' /\ DayLocked(pos, at)'
      BY <1>5, <1>9, <2>3, <2>8, PromisesFixed
    <2>10. positions' = pos /\ migrated_at' = at
      BY <1>9, <2>6, <2>7
    <2> QED
      BY <2>4, <2>9, <2>10
  <1>11. PositionsKeepShares' /\ LockedForADay'
    BY <1>9, <1>10 DEF PositionsKeepShares, LockedForADay, SharesKept, DayLocked,
        LockedOf, LockedAt, Initial
  <1> QED
    BY <1>6, <1>8, <1>9, <1>10, <1>11 DEF PositionsInv

LEMMA PositionsInvariant == PositionsSpec => []PositionsInv
  <1>1. PositionsInv /\ [PositionsNext]_<<allVars, positionVars>> => PositionsInv'
    BY MigrateKeepsPositions, OtherKeepsPositions DEF PositionsNext
  <1> QED
    BY <1>1, PositionsInvInit, PTL DEF PositionsSpec

\* Each party's position keeps its share: for every configuration and every
\* price and reserve the sale may end with, the position that is created
\* second, out of the tokens that the first one left, has no more free and
\* hardly less locked liquidity than the configuration's percentages say.
THEOREM SharesAreKept == PositionsSpec => []PositionsKeepShares
  <1>1. PositionsInv => PositionsKeepShares
    BY DEF PositionsInv
  <1> QED
    BY <1>1, PositionsInvariant, PTL

\* A tenth of the migrated liquidity is locked for a day at least, whatever
\* vestings create_config accepted, although it computed with the largest
\* liquidity and not with the one that the pool really has.
THEOREM LiquidityStaysLocked == PositionsSpec => []LockedForADay
  <1>1. PositionsInv => LockedForADay
    BY DEF PositionsInv
  <1> QED
    BY <1>1, PositionsInvariant, PTL

\* A vesting that create_config accepted is accepted for the liquidity that
\* the party really gets, when the migration happens.
LEMMA LocksAccepted ==
    ASSUME Ready, LiquidityChecked, NEW r \in Role
    PROVE  LockAccepted(Position(r, CreatedItem(r)))
  <1>1. PICK y : y = CreatedItem(r)["vest"]
    OBVIOUS
  <1>2. PICK info : info = liquidity_vesting_info[r]
    OBVIOUS
  <1>3. PICK q : q = percentage["vest"][r]
    OBVIOUS
  <1>4. PICK w : w = LargestVested(r)
    OBVIOUS
  <1>5. PICK now \in Nat : now = clock
    BY DEF Ready, Sufficient, TypeOK
  <1>6. /\ info \in VestingInfo /\ q \in 0..100 /\ w \in Nat
        /\ q > 0 => /\ w >= BASIS_POINT_MAX
                    /\ info.bps_per_period * info.number_of_periods > BASIS_POINT_MAX =>
                           w > BASIS_POINT_MAX * info.number_of_periods
                    /\ validate_vesting_parameters(
                           get_damm_v2_vesting_parameters(info, w, 0), 0)
    BY <1>2, <1>3, <1>4, VestingCheckedIs DEF LiquidityChecked
  <1>7. y \in Nat /\ (q = 0 => y = 0)
    BY <1>1, <1>3, ItemsKeepShares DEF Share, Kind
  <1>8. y > 0 => validate_vesting_parameters(get_damm_v2_vesting_parameters(info, y, now), now)
    <2> SUFFICES ASSUME y > 0
                 PROVE  validate_vesting_parameters(
                            get_damm_v2_vesting_parameters(info, y, now), now)
      OBVIOUS
    <2>1. q > 0
      BY <1>6, <1>7
    <2> QED
      BY <1>6, <1>7, <2>1, VestingAccepted
  <1> QED
    BY <1>1, <1>2, <1>5, <1>8 DEF LockAccepted, Position

\* The check that create_config made of a compounding pool.
CompoundingChecked ==
    config.migration_option = "DammV2" /\ config.compounding => validate_initial_pool_information

LEMMA CompoundingInvariant == PositionsSpec => []CompoundingChecked
  <1>1. PositionsInit => CompoundingChecked
    BY DEF PositionsInit, CompoundingChecked
  <1>2. ASSUME PositionsInv, CompoundingChecked, [PositionsNext]_<<allVars, positionVars>>
        PROVE  CompoundingChecked'
    <2>1. UNCHANGED <<config, protocol_liquidity_migration_fee_bps>>
      <3>1. CASE MigrateToPositions
        BY <3>1, MigrateIs DEF configVars
      <3>2. CASE OtherStep \/ UNCHANGED <<allVars, positionVars>>
        <4>1. [Next]_vars
          BY <3>2, OtherIsLiquidity, PoolSteps DEF allVars
        <4> QED
          BY <1>2, <4>1, ConfigFixed DEF PositionsInv
      <3> QED
        BY <1>2, <3>1, <3>2 DEF PositionsNext
    <2> QED
      BY <1>2, <2>1 DEF CompoundingChecked, validate_initial_pool_information
  <1> QED
    BY <1>1, <1>2, PositionsInvariant, PTL DEF PositionsSpec

\* A sale that real buys completed at the migration price migrates the amounts
\* that create_config has checked.
LEMMA CompletedSaleCovers ==
    ASSUME Sufficient, CompoundingChecked, config.compounding, is_curve_complete,
           virtual_quote_reserve = 0, sqrt_price = config.migration_sqrt_price
    PROVE  Initial.ok
  <1> DEFINE cap   == get_migration_quote_amount_cap(config)
             quote == calculate_post_fee_migration_quote_amount(config, cap)
             bps   == protocol_liquidity_migration_fee_bps
             p     == calculate_compounding_initial_sqrt_price_and_liquidity(
                          BaseOffered, QuoteOffered)
  <1>0. TypeOK /\ config.migration_option = "DammV2"
    BY DEF Sufficient
  <1>1. effective_migration_quote_threshold = cap
    <2>1. /\ quote_reserve \in Nat /\ cap \in Nat
          /\ cap <= config.migration_quote_threshold /\ config.migration_quote_threshold \in Nat
      <3>1. config \in Configs /\ quote_reserve \in U64
        BY <1>0 DEF TypeOK
      <3>2. /\ config.migration_quote_threshold \in U64
            /\ cap \in U64 /\ cap <= config.migration_quote_threshold
        BY <3>1, ConfigFields, CapProps
      <3> HIDE DEF cap
      <3> QED
        BY <3>1, <3>2, U64Props
    <2>2. config.migration_quote_threshold <= quote_reserve
      BY <2>1 DEF is_curve_complete, total_quote_reserve
    <2> HIDE DEF cap
    <2> QED
      BY <2>1, <2>2 DEF effective_migration_quote_threshold, MinOf, cap
  <1>2. MigrationQuote = quote
    BY <1>1 DEF MigrationQuote
  <1>3. MigrationBase = config.migration_base_threshold
    <2>1. config.migration_base_threshold =
              MigrationBaseAmount(config, quote, config.migration_sqrt_price)
      <3> DEFINE c == process_create_config(config)
      <3>1. config = c
        BY <1>0, PoolAssumption DEF PoolAssumption, TypeOK
      <3>2. c.migration_base_threshold = MigrationBaseAmount(config, quote, c.migration_sqrt_price)
        BY DEF process_create_config
      <3> HIDE DEF c
      <3> QED
        BY <3>1, <3>2
    <2> QED
      BY <1>2, <2>1 DEF MigrationBase
  <1>4. /\ BaseOffered = config.migration_base_threshold
                - MulDivDown(config.migration_base_threshold, bps, BASIS_POINT_MAX)
        /\ QuoteOffered = quote - ProtocolMigrationQuoteFee(quote, bps)
    BY <1>2, <1>3 DEF BaseOffered, QuoteOffered, ProtocolMigrationBaseFee, IsConstantProduct
  <1>5. p.ok /\ p.liquidity > DEAD_LIQUIDITY
    BY <1>0, <1>4 DEF CompoundingChecked, validate_initial_pool_information
  <1>6. Initial.ok = (p.ok /\ p.liquidity >= DEAD_LIQUIDITY)
    BY DEF Initial, get_initial_pool_information
  <1>7. p.liquidity \in Nat
    <2> DEFINE S    == Scale * Scale
               up   == MulDivUp(QuoteOffered, S, BaseOffered)
               down == MulDivDown(QuoteOffered, S, BaseOffered)
    <2>1. BaseOffered \in Nat /\ BaseOffered > 0 /\ QuoteOffered \in Nat /\ S \in Nat
          /\ MAX_SQRT_PRICE \in Nat
      BY SufficientOffered, SufficientPrices
    <2>2. up < (MAX_SQRT_PRICE + 1) * (MAX_SQRT_PRICE + 1)
          /\ p.liquidity = sqrt_u256(down) * BaseOffered
      BY <1>5 DEF calculate_compounding_initial_sqrt_price_and_liquidity
    <2> HIDE DEF BaseOffered, QuoteOffered, S, p
    <2>3. up \in Nat /\ down \in Nat /\ down <= up
      BY <2>1, RoundedQuotients
    <2> HIDE DEF up, down
    <2>4. down < (MAX_SQRT_PRICE + 1) * (MAX_SQRT_PRICE + 1)
          /\ (MAX_SQRT_PRICE + 1) * (MAX_SQRT_PRICE + 1) \in Nat
      BY <2>1, <2>2, <2>3
    <2>5. sqrt_u256(down) \in Nat
      BY <2>3, <2>4, RootProps
    <2> QED
      BY <2>1, <2>2, <2>5
  <1>8. DEAD_LIQUIDITY \in Nat
    BY PositionsAssumption DEF PositionsAssumption
  <1> HIDE DEF p
  <1>9. p.liquidity >= DEAD_LIQUIDITY
    BY <1>5, <1>7, <1>8
  <1> QED
    BY <1>5, <1>6, <1>9, Zenon

\* No migration is stuck: what create_config accepted of the liquidity's split
\* and vesting is accepted by the DAMM v2 calls, for every sale that passes
\* the migration's liquidity check.  A compounding pool can be created at all
\* only when its dead liquidity is covered: it is when real buys completed the
\* sale at the migration price, for which create_config computed it.
THEOREM PositionsAreAccepted ==
    PositionsSpec =>
        []((config.compounding => Initial.ok \/ sqrt_price = config.migration_sqrt_price)
              => PositionsAccepted)
  <1>1. ASSUME PositionsInv, CompoundingChecked,
               config.compounding => Initial.ok \/ sqrt_price = config.migration_sqrt_price
        PROVE  PositionsAccepted
    <2> SUFFICES ASSUME config.migration_option = "DammV2", SufficientForMigration,
                        config.compounding => is_curve_complete /\ virtual_quote_reserve = 0
                 PROVE  Migration.ok
      BY DEF PositionsAccepted
    <2> DEFINE deposit == DammDeposit(FirstPool, SecondTotal)
               created == [r \in Role |-> Position(r, CreatedItem(r))]
    <2>1. LiquidityChecked /\ percentage \in Percentages
      BY <1>1 DEF PositionsInv, LiquidityChecked, VestingChecked, Role
    <2>2. Sufficient
      BY <1>1, <2>1 DEF PositionsInv, Sufficient
    <2>3. config.compounding => Initial.ok
      BY <1>1, <2>2, CompletedSaleCovers
    <2>4. Ready
      BY <2>2, <2>3 DEF Ready
    <2>5. Initial.ok
      <3>1. CASE config.compounding
        BY <2>3, <3>1
      <3>2. CASE ~config.compounding
        BY <3>2 DEF Initial, get_initial_pool_information
      <3> QED
        BY <3>1, <3>2
    <2>6. LeftBase \in Nat /\ LeftQuote \in Nat
      BY <2>4, MigrationDeposits
    <2>7. ~(~Initial.ok \/ LeftBase < 0 \/ LeftQuote < 0)
      BY <2>5, <2>6
    <2>8. Migration = [ok         |-> \A r \in Role : LockAccepted(created[r]),
                       positions  |-> created,
                       base_dust  |-> LeftBase - deposit.base,
                       quote_dust |-> LeftQuote - deposit.quote]
      BY <2>7, MigrationIs
    <2>9. \A r \in Role : LockAccepted(Position(r, CreatedItem(r)))
      BY <2>1, <2>4, LocksAccepted
    <2>10. \A r \in Role : LockAccepted(created[r])
      BY <2>9
    <2> HIDE DEF created, deposit, Migration
    <2> QED
      BY <2>8, <2>10
  <1> QED
    BY <1>1, PositionsInvariant, CompoundingInvariant, PTL

\* No deposit leaves more of a token than MaxDust.
DustWithinBound ==
    config.migration_option = "DammV2" /\ SufficientForMigration /\ Migration.ok =>
        Migration.base_dust <= MaxDust /\ Migration.quote_dust <= MaxDust

\* What the deposits leave is not below zero, and no more than was offered.
LEMMA DustIsAnAmount ==
    ASSUME PositionsInv, MigrateToPositions
    PROVE  Migration.base_dust \in U64 /\ Migration.quote_dust \in U64
  <1>1. /\ SufficientForMigration /\ Migration.ok /\ config.migration_option = "DammV2"
        /\ Migrate(Migration.base_dust, Migration.quote_dust)
    BY MigrateIs
  <1>2. Migration.base_dust \in Nat /\ Migration.quote_dust \in Nat
    BY <1>1, MigrationReady DEF PositionsInv
  <1> HIDE DEF Migration
  <1>3. PICK bd : bd = Migration.base_dust
    OBVIOUS
  <1>4. PICK qd : qd = Migration.quote_dust
    OBVIOUS
  <1>5. PICK bo \in U64, qo \in U64 : bd <= bo /\ qd <= qo
    <2>1. Migrate(bd, qd)
      BY <1>1, <1>3, <1>4
    <2> QED
      BY <2>1 DEF Migrate
  <1>6. U64Max \in Nat
    BY ConfigAssumption DEF ConfigAssumption
  <1> QED
    BY <1>2, <1>3, <1>4, <1>5, <1>6 DEF U64

\* A step of the detailed migration is one that MigratedLiquidity allows when
\* its dust is.
LEMMA PositionsStep ==
    ASSUME PositionsInv, [PositionsNext]_<<allVars, positionVars>>,
           MigrateToPositions => Migration.base_dust <= MaxDust /\ Migration.quote_dust <= MaxDust
    PROVE  [LiquidityNext]_allVars
  <1>1. CASE MigrateToPositions
    <2>1. /\ config.migration_option = "DammV2"
          /\ Migrate(Migration.base_dust, Migration.quote_dust)
          /\ UNCHANGED <<percentage, creator, lpVars>>
      BY <1>1, MigrateIs
    <2>2. Migration.base_dust \in U64 /\ Migration.quote_dust \in U64
      BY <1>1, DustIsAnAmount
    <2> HIDE DEF Migration
    <2>3. PICK bd : bd = Migration.base_dust
      OBVIOUS
    <2>4. PICK qd : qd = Migration.quote_dust
      OBVIOUS
    <2>5. bd \in 0..MaxDust /\ qd \in 0..MaxDust
      <3>1. bd <= MaxDust /\ qd <= MaxDust
        BY <1>1, <2>3, <2>4
      <3>2. MaxDust \in Nat /\ U64Max \in Nat
        BY PoolAssumption, ConfigAssumption DEF PoolAssumption, ConfigAssumption
      <3> QED
        BY <2>2, <2>3, <2>4, <3>1, <3>2 DEF U64
    <2>6. MigrateDammV2(bd, qd)
      BY <2>1, <2>3, <2>4 DEF MigrateDammV2
    <2> QED
      BY <2>1, <2>5, <2>6 DEF LiquidityNext, PoolStep
  <1>2. CASE OtherStep
    BY <1>2, OtherIsLiquidity
  <1>3. CASE UNCHANGED <<allVars, positionVars>>
    BY <1>3
  <1> QED
    BY <1>1, <1>2, <1>3 DEF PositionsNext

\* The detailed migration is one that MigratedLiquidity allows, so every
\* theorem about that module and about VirtualPool holds of it: the two
\* deposits never take more than was offered.  MaxDust is the constant that
\* bounds what they leave.
THEOREM PositionsImplementLiquidity ==
    PositionsSpec /\ []DustWithinBound => ImplementsLiquidity
  <1>1. PositionsInit => LiquidityInit
    BY DEF PositionsInit
  <1>2. ASSUME PositionsInv, DustWithinBound, [PositionsNext]_<<allVars, positionVars>>
        PROVE  [LiquidityNext]_allVars
    <2>1. MigrateToPositions =>
              Migration.base_dust <= MaxDust /\ Migration.quote_dust <= MaxDust
      BY <1>2, MigrateIs DEF DustWithinBound
    <2> QED
      BY <1>2, <2>1, PositionsStep
  <1> QED
    BY <1>1, <1>2, PositionsInvariant, PTL DEF PositionsSpec, ImplementsLiquidity, LiquiditySpec

\* With a MaxDust that excludes no amount nothing is left to assume: every
\* property of MigratedLiquidity and VirtualPool that is proved without a
\* bound on MaxDust holds of the detailed migration.
THEOREM PositionsImplementLiquidityWithAnyDust ==
    ASSUME MaxDust >= U64Max
    PROVE  PositionsSpec => ImplementsLiquidity
  <1>1. PositionsInit => LiquidityInit
    BY DEF PositionsInit
  <1>2. ASSUME PositionsInv, [PositionsNext]_<<allVars, positionVars>>
        PROVE  [LiquidityNext]_allVars
    <2>1. ASSUME MigrateToPositions
          PROVE  Migration.base_dust <= MaxDust /\ Migration.quote_dust <= MaxDust
      <3>1. Migration.base_dust \in U64 /\ Migration.quote_dust \in U64
        BY <1>2, <2>1, DustIsAnAmount
      <3>2. MaxDust \in Nat /\ U64Max \in Nat
        BY PoolAssumption, ConfigAssumption DEF PoolAssumption, ConfigAssumption
      <3> HIDE DEF Migration
      <3> QED
        BY <3>1, <3>2 DEF U64
    <2> QED
      BY <1>2, <2>1, PositionsStep
  <1> QED
    BY <1>1, <1>2, PositionsInvariant, PTL DEF PositionsSpec, ImplementsLiquidity, LiquiditySpec

=============================================================================
