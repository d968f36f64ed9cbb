\* Two conflicting blinks of adjacent quorum intervals, two threads, one
\* restart.
SPECIFICATION BusySpec

CONSTANTS
    a = a
    b = b
    c = c
    t1 = t1
    t2 = t2
    Node <- MCNode
    Peer <- MCPeer
    Tx <- MCTx
    Blinks <- MCBlinks
    Spends <- MCSpends
    BlinkQuorum <- MCBlinkQuorum
    LocalHeight = 50
    BLINK_QUORUM_INTERVAL = 5
    BLINK_QUORUM_LAG = 35
    BLINK_SUBQUORUM_SIZE = 3
    BLINK_MIN_VOTES = 2
    Threads <- MCThreads
    P2pThread <- MCP2pThread
    MaxRestarts <- MCMaxRestarts

INVARIANTS
    TypeOK
    NoConflictingBlinks
    VerdictsAgree
    NoForgottenSignature
    ApprovedIsRelayed
    Decided

PROPERTY ApprovalIsFinal

\* The nodes stop when every blink is decided.
CHECK_DEADLOCK FALSE
