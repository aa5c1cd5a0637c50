SPECIFICATION Spec
CONSTANTS
    REWARD_START = 1
    PHASE1_END = 1
    REWARD_END = 1
    HALVING_INTERVAL = 1
    LIFECYCLE_START = 1
    GOLD_RUSH_END = 2
    MIGRATION_END = 6
    COMPETING_CLAIMS_HEIGHT = 1
    QQP4_HEIGHT = 9
    PHASE1_REWARD = 40
    PHASE2_REWARD = 19
    CENT = 2
    MAX_EMISSION = 140
    MAX_POW_EVALS = 2
    LATE_ORIGIN_WINDOW = 2
    SOLVER_ACTIVITY_WINDOW = 2
    BASE_BITS = 4
    MIN_BITS = 1
    MAX_BITS = 6
    ASERT_HALF_LIFE = 1
    MAX_HEIGHT = 4
    COINBASE_MATURITY = 2
    MAX_CLAIM_MARKERS = 20
    Whitelist = {1, 2}
    Content <- DoubleSpendContent
    CanonicalRank <- MCRank
INVARIANTS
    StopsOnlyOnCorruption
