CONSTANTS
    g1 = g1
    g2 = g2
    p1 = p1
    p2 = p2
    p3 = p3
    p4 = p4
    anna = anna
    none = none
    Names = {anna}
    Protocols = {g1, g2}
    Objects = {p1, p2, p3, p4}
    Nobody = none
    KickOnLogin = {TRUE, FALSE}
    MaxPending = 0
    ada = ada
    ben = ben
    chest = chest
    bag = bag
    coin = coin
    Watchers = {ada, ben}
    Cells = {1, 3}
    Crates = {chest, bag}
    Trinkets = {coin}
    CrateRoom = 2
    Wrecked = wrecked
    Cids = {0, 1}
    Named <- MCNamed
    Closed = closed
    Start <- MCStart
SPECIFICATION ClientSpec
INVARIANTS
    ClientPlaysPlayer
    UsesBalance
    WindowsHold
    NoSecondSession
PROPERTIES
    LeftIsDeleted
