SPECIFICATION CacheSpec
CONSTANTS
    Outpoints = {o1}
    Coins = {c1, c2}
    Spent = spent
    Blocks = {b1, b2}
    Null = null
INVARIANTS
    NoLogicError
PROPERTY
    ImplementsCoinsView
