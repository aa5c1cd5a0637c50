SPECIFICATION Spec
CONSTANTS
    g = g
    a1 = a1
    a2 = a2
    b1 = b1
    b2 = b2
    b3 = b3
    b4 = b4
    p = p
    q = q
    r = r
    Null = Null
    Marker = Marker
    Leaf = Leaf
    Snapshot = Snapshot
    Blocks <- MCBlocks
    Genesis = g
    Parent <- MCParent
    Height <- MCHeight
    Ancestor <- MCAncestor
    Base = {p, q, r}
    Creates <- MCCreates
    Spends <- MCSpends
    Utxo <- MCUtxo
    SHADOW_WHITELIST_HEIGHT = 3
INVARIANTS
    ConsistentWhenMarked
    ViewIsTheTip
    NeverFails
    RebuildIsJustified
PROPERTIES
    ImplementsDurableTip
    NodeGetsUp
