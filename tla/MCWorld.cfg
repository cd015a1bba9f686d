CONSTANTS
    Creatures = {1, 2, 3}
    Blocks = 2
    Vectors = 1
    RateSpawn = 1
    NoMaster = 0
    Objects = {1, 2}
    Types = {"lit", "out", "stub", "field"}
    TypeData <- MCTypeData
    Never = never
    Vanish = vanish
    Interval = 2
    TextInterval = 1
    MaxEntries = 4
    Stack = 3
    PurseRoom = 2
    MaxWorth = 11
    Viewer = viewer
    Walkers = {viewer, rat, bat}
    Litter = {box}
    FieldEnd = 3
    Radius = 1
    MaxShown = 2
    MaxKnown = 2
SPECIFICATION WorldSpec
CHECK_DEADLOCK FALSE
INVARIANTS
    CreatureLinks
    DecayLinks
    DecayingIsListed
    MoneyKept
    SightTrue
