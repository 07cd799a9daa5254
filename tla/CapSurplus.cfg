SPECIFICATION Spec
CONSTANTS
    Scale = 1024
    FEE_DENOMINATOR = 100
    MAX_FEE_NUMERATOR = 99
    MIN_SQRT_PRICE = 256
    MAX_SQRT_PRICE = 4096
    U64Max = 1000
    Configs <- CappedConfigs
    Deadlines = {0}
    MigrationFeeBps = {0}
    FeeNumerators = {4}
    BuyAmounts = {45, 130}
    OutAmounts = {}
    ClaimCaps = {0}
    MaxDust = 0
    MaxTime = 1
INVARIANTS
    CapSurplusReachesPartner
