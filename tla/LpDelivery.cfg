SPECIFICATION PositionsSpec
CHECK_DEADLOCK FALSE
CONSTANTS
    Scale = 1024
    FEE_DENOMINATOR = 100
    MAX_FEE_NUMERATOR = 99
    MIN_SQRT_PRICE = 256
    MAX_SQRT_PRICE = 4096
    U64Max = 1000
    Configs <- LpConfigs
    Deadlines = {0, 2}
    MigrationFeeBps = {20}
    FeeNumerators = {0}
    BuyAmounts = {60}
    OutAmounts = {}
    ClaimCaps = {}
    MaxDust = 4
    MaxTime = 2
    Accounts = {partner, alice, bob}
    fee_claimer = partner
    Percentages <- AllShares
    LpMinted = {1, 101}
    VestingInfos <- AllVestings
    DEAD_LIQUIDITY = 2048
    U128Max = 214003
    SECONDS_PER_DAY = 3
    MAX_LOCK_DURATION_IN_SECONDS = 20
INVARIANTS
    LiquidityTypeOK
    LpBacked
    NoStrandedShare
    PositionsKeepShares
    LockedForADay
    PositionsAccepted
PROPERTIES
    ImplementsLiquidity

