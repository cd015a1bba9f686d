CONSTANTS
    anna = anna
    gm = gm
    none = none
    eat = eat
    Players <- MCPlayers
    Always <- MCAlways
    NoPlayer = none
    MaxQueue = 3
    Orders = {eat}
    KindOf <- MCKindOf
    PlaceOf <- MCPlaceOf
    Nobody = nobody
    LastPlace = 2
    EventIds = {1, 2, 3, 4, 5, 6}
    MaxPackets = 1
    Places = {1, 2}
    Gear = {"ring", "active", "boots"}
    GearData <- MCGearData
    Bare = bare
    Spells <- MCSpells
    MaxSpells = 2
    MaxDelay = 1
    MaxBase = 2
    ann = ann
    bob = bob
    sofa = sofa
    Dwellers = {ann, bob}
    Cottages = {1, 2}
    Unowned = unowned
    Street = street
    NoWindow = noWindow
    NoSale = noSale
    Visited = {1}
    Texts <- MCTexts
    Tenants = {ann, bob}
    Estate = {1, 2}
    Furniture = {sofa}
    Vacant = vacant
    Rent <- MCRent
    Wealth <- MCWealth
    Home <- MCHome
    BalanceLimit = 2
    WarningLimit = 1
    Amounts = {1}
SPECIFICATION LifeSpec
CHECK_DEADLOCK FALSE
INVARIANTS
    EffectsAddUp
    HousesHold
    EstatesHold
PROPERTIES
    OnlineIsJustified
    ShutdownCompletes
    ErrandsEnd
