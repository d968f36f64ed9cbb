SPECIFICATION CollectorSpec
CONSTANTS
    t1 = t1
    n1 = n1
    n2 = n2
    n3 = n3
    n4 = n4
    g = g
    p = p
    x2 = x2
    x3 = x3
    y2 = y2
    y3 = y3
    Node <- MCNode
    Thread = {t1}
    Block <- MCBlock
    Genesis = g
    Parent <- MCParent
    Validator <- MCValidator
    Target = {0, 6}
    CHECKPOINT_INTERVAL = 1
    CHECKPOINT_QUORUM_SIZE = 4
    CHECKPOINT_MIN_VOTES = 3
    VOTE_LIFETIME = 3
    REORG_SAFETY_BUFFER_BLOCKS = 2
    MaxHeight = 3
    MaxRepeats = 1
CHECK_DEADLOCK FALSE
SYMMETRY Voters
INVARIANTS
    TypeOK
    CheckpointAgreement
    NoDoubleVote
    QuorumBacked
PROPERTIES
    SignaturesKept
    CheckpointsAreFinal
