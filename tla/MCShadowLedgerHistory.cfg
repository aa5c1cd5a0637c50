SPECIFICATION MCSpec
CONSTANTS
    REWARD_START = 1
    PHASE1_END = 2
    REWARD_END = 5
    HALVING_INTERVAL = 1
    LIFECYCLE_START = 1
    GOLD_RUSH_END = 5
    MIGRATION_END = 7
    COMPETING_CLAIMS_HEIGHT = 2
    QQP4_HEIGHT = 5
    PHASE1_REWARD = 40
    PHASE2_REWARD = 19
    CENT = 2
    MAX_EMISSION = 140
    MAX_POW_EVALS = 2
    LATE_ORIGIN_WINDOW = 2
    SOLVER_ACTIVITY_WINDOW = 2
    BASE_BITS = 4
    MIN_BITS = 1
    MAX_BITS = 6
    ASERT_HALF_LIFE = 1
    MAX_HEIGHT = 7
    COINBASE_MATURITY = 2
    MAX_CLAIM_MARKERS = 20
    Whitelist = {1, 2}
    Content <- AllContent
    CanonicalRank <- MCRank
INVARIANTS
    NeverStops
    EmissionIsConserved
    ProofIsPaidOnce
    ActiveMeansRecentSolve
    InventoryIsExact
PROPERTY
    DisconnectRestoresParent
