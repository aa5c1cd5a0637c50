SPECIFICATION Spec
CONSTANTS
    g = g
    a1 = a1
    a2 = a2
    a3 = a3
    b1 = b1
    b2 = b2
    Null = Null
    Blocks = {g, a1, a2, b1, b2}
    Genesis = g
    Parent <- MCParent
    Height <- MCHeight
    BlockTime <- MCBlockTime
    Path <- MCPath
    Winners = {a1}
    SHADOW_REWARD_START_HEIGHT = 1
    COMPETING_CLAIMS_HEIGHT = 1
    MaxPending = 2
    MaxKills = 1
    MaxInvalidations = 1
    MaxFaults = 1
INVARIANT RewindStartsAtBest
CHECK_DEADLOCK FALSE
