SPECIFICATION Spec
CONSTANTS
    g = g
    a1 = a1
    a2 = a2
    a3 = a3
    a4 = a4
    b1 = b1
    b2 = b2
    b3 = b3
    c2 = c2
    None = None
    Block <- MCBlock
    Genesis = g
    Parent <- MCParent
    Height <- MCHeight
    Round <- MCRound
    Mined = {a3}
    Bad = {b3}
    Flaky = {a3, a4}
    Signed = {a1, c2, b3}
    CHECKPOINT_INTERVAL = 1
    CHECKPOINT_STORE_PERSISTENTLY_INTERVAL = 3
    PULSE_BASE_WEIGHT = 12
    MaxPops = 0
    MaxRestarts = 1
CHECK_DEADLOCK FALSE
INVARIANT
    LockedInForGood
