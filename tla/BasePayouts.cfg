SPECIFICATION Spec
CONSTANTS
    Scale = 1024
    FEE_DENOMINATOR = 100
    MAX_FEE_NUMERATOR = 99
    MIN_SQRT_PRICE = 256
    MAX_SQRT_PRICE = 4096
    U64Max = 1000
    Configs <- BaseConfigs
    Deadlines = {2}
    MigrationFeeBps = {2000}
    FeeNumerators = {50}
    BuyAmounts = {200}
    OutAmounts = {20}
    ClaimCaps = {8}
    MaxDust = 1
    MaxTime = 2
INVARIANTS
    TypeOK
    BaseSolvent
    FixedSupplyFloor
    NoStrandedBase
PROPERTIES
    ImplementsLaunch
