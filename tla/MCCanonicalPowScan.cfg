SPECIFICATION Spec
CONSTANTS
    REWARD_START = 1
    PHASE1_END = 6
    REWARD_END = 6
    HALVING_INTERVAL = 10
    LIFECYCLE_START = 1
    GOLD_RUSH_END = 6
    MIGRATION_END = 8
    COMPETING_CLAIMS_HEIGHT = 2
    QQP4_HEIGHT = 5
    PHASE1_REWARD = 40
    PHASE2_REWARD = 40
    CENT = 3
    MAX_EMISSION = 1000
    MAX_POW_EVALS = 2
    LATE_ORIGIN_WINDOW = 2
    SOLVER_ACTIVITY_WINDOW = 2
    BASE_BITS = 3
    MIN_BITS = 2
    MAX_BITS = 5
    ASERT_HALF_LIFE = 2
    MaxBlockTxs = 4
    Transactions <- MCTransactions
    Contexts <- MCContexts
    CanonicalRank <- MCRank
INVARIANTS
    SelectionIsCanonical
    OrderIndependent
    CopiesCannotSuppress
CHECK_DEADLOCK FALSE
