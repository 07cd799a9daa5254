SPECIFICATION KeeperSpec
CHECK_DEADLOCK FALSE
CONSTANTS
    Scale = 1024
    FEE_DENOMINATOR = 100
    MAX_FEE_NUMERATOR = 99
    MIN_SQRT_PRICE = 256
    MAX_SQRT_PRICE = 4096
    U64Max = 1000
    Configs <- KeeperConfigs
    Deadlines = {0, 2}
    MigrationFeeBps = {20}
    FeeNumerators = {0}
    BuyAmounts = {70}
    OutAmounts = {}
    ClaimCaps = {}
    MaxDust = 0
    MaxTime = 3
    KeeperOptions <- BothOptions
    ClockSkews <- AnyClock
    MIGRATION_TRANSPORT_ATTEMPTS = 2
    MaxFaults = 2
INVARIANTS
    ReportsHappened
    StopsForCause
    DoneMeansCollected
PROPERTIES
    KeeperMigrates
    KeeperSettles
