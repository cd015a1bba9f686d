CONSTANTS
    m1 = m1
    m2 = m2
    m3 = m3
    null = null
    Msgs <- MCTwoMsgs
    NoMsg = null
    Packets <- MCPackets
SPECIFICATION FairSpec
CHECK_DEADLOCK FALSE
INVARIANTS
    NoLockCycle
PROPERTIES
    Reclaimed
