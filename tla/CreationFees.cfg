SPECIFICATION CreationSpec
CONSTANTS
    p1 = p1
    c1 = c1
    c2 = c2
    alice = alice
    bob = bob
    Pools = {p1}
    ConfigKeys = {c1, c2}
    Addresses = {alice, bob}
    PoolCreationFees = {0, 5, 25, 40}
    MIN_POOL_CREATION_FEE = 10
    MAX_POOL_CREATION_FEE = 50
    LegacyFee = 7
    RentMinimum = 3
    MaxDonated = 1
INVARIANTS
    ChargedFeesPaidOnce
    CreationFeesCovered
    OperatorsActWithinGrants
