CONSTANTS
    hero = hero
    orc = orc
    rat = rat
    Folk = {hero}
    Beasts = {orc, rat}
    Rolls <- MCRolls
    Tame = {orc, rat}
    Spots = {1, 2, 3}
    Haven = {3}
    Sight = 1
    Nowhere = nowhere
    NoBeing = noBeing
    pit = pit
    stair = stair
    door = door
    crate = crate
    fire = fire
    Width = 3
    Height = 3
    Radius = 1
    Objects = {pit, stair, door, crate, fire}
    KindFlags <- MCKindFlags
    Turns <- MCTurns
    FirstKind <- MCFirstKind
    Beds <- MCBeds
    Walks <- MCWalks
    Absent = absent
    Fighters = {p, q}
    FightTime = 1
    KillTime = 2
    FragTime = 2
    LowTicks = 2
    KillsToRed = 3
    KillsToBan = 4
    MaxFrags = 4
SPECIFICATION CombatSpec
CHECK_DEADLOCK FALSE
INVARIANTS
    PursuitHolds
    WalkHolds
    SkullsHold
