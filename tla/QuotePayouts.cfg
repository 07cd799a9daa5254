SPECIFICATION Spec
CONSTANTS
    Scale = 1024
    FEE_DENOMINATOR = 100
    MAX_FEE_NUMERATOR = 99
    MIN_SQRT_PRICE = 256
    MAX_SQRT_PRICE = 4096
    U64Max = 1000
    Configs <- QuoteConfigs
    Deadlines = {0, 2}
    MigrationFeeBps = {2000}
    FeeNumerators = {50}
    BuyAmounts = {110, 300}
    OutAmounts = {30}
    ClaimCaps = {1000}
    MaxDust = 1
    MaxTime = 3
INVARIANTS
    QuoteSolvent
    NoStrandedQuote
    FinishTimestampSound
PROPERTIES
    SaleFinal
    PayoutsFinal
