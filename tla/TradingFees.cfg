SPECIFICATION Spec
CONSTANTS
    Scale = 16384
    FEE_DENOMINATOR = 100
    MAX_FEE_NUMERATOR = 99
    BASIS_POINT_MAX = 100
    U64_MAX = 190
    MAX_RATE_LIMITER_DURATION = 4
    FeeConfigs <- MCFeeConfigs
    Amounts = {6, 22, 35, 172}
    Prices = {1000, 1015, 1060}
    Start = 4
    MaxTime = 9
    MaxSwaps = 2
    BIN_STEP_U128 = 163
    VARIABLE_FEE_SCALE = 1000000
    SQUARE_VFA_BIN = 90000
    MIN_MIGRATED_POOL_FEE_BPS = 10
    MAX_MIGRATED_POOL_FEE_BPS = 50
    DAMM_MIN_FEE_NUMERATOR = 10
    DAMM_MAX_FEE_NUMERATOR = 99
INVARIANTS
    LimiterChargesSlices
    ExactOutPaysSchedule
    FeesAlwaysDefined
    LimitedExactOutDefined
    MovementChargedOnce
    OneLimitedSwap
    MigratedFeesAccepted
    MigratedDynamicFeeIsAFifth
PROPERTY
    BaseFeeNeverRises
