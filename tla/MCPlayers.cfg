CONSTANTS
    ann = ann
    bob = bob
    pam = pam
    pia = pia
    gm = gm
    ada = ada
    ben = ben
    cid = cid
    pack = pack
    bag = bag
    pouch = pouch
    coin = coin
    guild = guild
    push = push
    eat = eat
    Clients <- MCClients
    Premium <- MCPremium
    Always <- MCAlways
    MaxPlayers = 2
    RetryTime <- MCRetryTime
    Grace = 1
    PartyPlayers = {ada, ben, cid}
    Parties = {p1, p2}
    NoParty = noParty
    NoLeader = noLeader
    Ground = ground
    Destroyed = destroyed
    NoTrader = noTrader
    NoGood = noGood
    Traders = {ada, ben, cid}
    Goods = {pack, bag, pouch, coin}
    Boxes = {pack, bag, pouch}
    Slots = 1
    BoxRoom = 1
    InitialParents <- MCParents
    Chatters = {ada, ben}
    Staff = {ada}
    Guilds = {guild}
    NoGuild = noGuild
    OpenChannels = {}
    RuleChannel = reports
    PrivateIds = {100, 101}
    NoOwner = noOwner
    MaxVisits = 2
    GuildOf <- MCGuildOf
    Orders = {push, eat}
    KindOf <- MCKindOf
    PlaceOf <- MCPlaceOf
    Nobody = nobody
    LastPlace = 2
    EventIds = {1, 2, 3, 4, 5, 6}
    MaxPackets = 1
SPECIFICATION PlayersSpec
CHECK_DEADLOCK FALSE
INVARIANTS
    PartyLinks
    TradesHold
    ChatLinks
    PlacesHold
    ErrandsKept
PROPERTIES
    NoOvertaking
