SPECIFICATION MCSpec
CONSTANTS
    k1 = k1
    k2 = k2
    c1 = c1
    c2 = c2
    c3 = c3
    c4 = c4
    c5 = c5
    m1 = m1
    m2 = m2
    s1 = s1
    a1 = a1
    a2 = a2
    None = None
    Keys = {k1, k2}
    Coins = {c1, c2, c3, c4, c5}
    Attestations = {a1, a2}
    Moves = {m1, m2, s1}
    Stakes = {s1}
    Owner <- MCOwner
    Issued <- MCIssued
    In <- MCIn
    Out <- MCOut
    TxOrder <- MCTxOrder
    Activation = 2
    Grace = 1
    Zero = 3
    AutoAttest = 1
    DEMURRAGE_PPM = 100
    MAX_DEMURRAGE_ATTESTATIONS_PER_BLOCK = 1
    MaxHeight = 6
    Busy = 4
    MaxReorg = 2
SYMMETRY Symmetry
INVARIANTS LatestIsTheChains NeverHalts MempoolIsMinable TemplateIsValid
PROPERTIES OnlyAttestationRevives
