CONSTANTS
    m1 = m1
    m2 = m2
    m3 = m3
    null = null
    Msgs <- MCMsgs
    NoMsg = null
    Packets <- MCAllPackets
SPECIFICATION Spec
CHECK_DEADLOCK FALSE
INVARIANTS
    ObjectsOutliveUse
PROPERTIES
    BuffersPrivate
