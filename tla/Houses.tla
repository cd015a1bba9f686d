-------------------------------- MODULE Houses --------------------------------
(***************************************************************************)
(* Houses (house.cpp, housetile.cpp): who owns one, who is on its lists,   *)
(* who is inside; the windows in which the lists are edited (spells.cpp,   *)
(* game.cpp), buying and selling (commands.cpp).  Everything runs on the   *)
(* dispatcher thread, a command or a packet a step.                        *)
(*                                                                         *)
(* A list is the set of the players it names: expressions, guilds and      *)
(* doors, which have a list of their own, are left out, and so are the     *)
(* gamemasters who may edit any house.  What becomes of the furniture, the *)
(* rent and the tables on disk are the subject of module Estates.  A       *)
(* player is in one sale at a time, as the buyer or the seller, against    *)
(* goods and not against another house.                                    *)
(***************************************************************************)
EXTENDS Integers, FiniteSets

CONSTANTS
    Dwellers,   \* players
    Cottages,   \* ids of houses
    Unowned,    \* the owner 0
    Street,     \* everywhere else
    NoWindow,   \* editHouse is NULL
    NoSale,     \* transferItem is NULL
    Visited,    \* bound: the houses that players enter
    Texts       \* bound: the names that players write into lists

ASSUME HousesAssumption ==
    /\ Visited \subseteq Cottages /\ Cottages \subseteq Nat /\ IsFiniteSet(Cottages) /\ Texts \subseteq SUBSET Dwellers
    /\ Unowned \notin Dwellers /\ Street \notin Cottages

Lists == {"guests", "subowners"}

VARIABLES
    houses,     \* of each house, its owner and its lists
    present,    \* the players in the game
    where,      \* the house that each stands in; loginPosition of who is not in the game
    editing,    \* of each player, the house and the list of its window
    sale,       \* transferItem of each house: between whom its document is traded
    tenure,     \* history: the owner under whom each list was written
    overruled,  \* history: players inside when a list was written without them
    stale,      \* history: houses whose lists somebody wrote who no longer may
    seized,     \* history: houses that changed hands while they were for sale
    lucky       \* history: players who got a house by decree, or bought one during a sale

houseVars == <<houses, present, where, editing, sale, tenure, overruled, stale, seized, lucky>>

Town == [houses |-> houses, where |-> where]
Becomes(t) == houses' = t.houses /\ where' = t.where
-----------------------------------------------------------------------------
\* getHouseAccessLevel.
AccessLevel(t, h, p) ==
    CASE t.houses[h].owner = p -> 3
      [] p \in t.houses[h].subowners -> 2
      [] p \in t.houses[h].guests -> 1
      [] OTHER -> 0

Invited(t, h, p) == AccessLevel(t, h, p) > 0
MayEdit(h, list, p) ==
    \/ AccessLevel(Town, h, p) = 3
    \/ AccessLevel(Town, h, p) = 2 /\ list = "guests"

Inside(t, h) == {p \in present : t.where[p] = h}

\* Game::internalTeleport to the entry of the house: its test is meant for the
\* house that a player is sent to, and made of the one he is in.
ToEntry(t, ps) ==
    [t EXCEPT !.where = [p \in Dwellers |->
        IF p \in ps /\ (@[p] \in Cottages => Invited(t, @[p], p)) THEN Street ELSE @[p]]]

SetAccessList(t, h, list, names) ==
    LET s == [t EXCEPT !.houses[h] = [@ EXCEPT ![list] = names]]
    IN  ToEntry(s, {p \in Inside(s, h) : ~Invited(s, h, p)})

\* kickPlayer; without a player who kicks, everybody who can be.
Kicked(t, h, by, p) ==
    IF p \in Inside(t, h) /\ (by = {} \/ \E q \in by : AccessLevel(t, h, q) >= AccessLevel(t, h, p))
    THEN ToEntry(t, {p}) ELSE t

ListsCleared(t, h) ==
    LET s == [t EXCEPT !.houses[h].owner = Unowned]
    IN  SetAccessList(SetAccessList(s, h, "subowners", {}), h, "guests", {})

\* As SetHouseOwner, but the lists go first and the inhabitants then.
SetOwnerThenKick(t, h, guid) ==
    LET s == IF t.houses[h].owner = Unowned THEN t
             ELSE LET u == ListsCleared(t, h) IN ToEntry(u, Inside(u, h))
    IN  IF t.houses[h].owner = guid THEN t ELSE [s EXCEPT !.houses[h].owner = guid]

SetHouseOwner(t, h, guid) ==
    LET s == IF t.houses[h].owner = Unowned THEN t
             ELSE ListsCleared(ToEntry(t, Inside(t, h)), h)
    IN  IF t.houses[h].owner = guid THEN t ELSE [s EXCEPT !.houses[h].owner = guid]

\* getHouseByPlayerId: the first in the order of the ids.
HousesOf(p) == {h \in Cottages : houses[h].owner = p}
HouseOf(p) == CHOOSE h \in HousesOf(p) : \A g \in HousesOf(p) : h <= g
-----------------------------------------------------------------------------
Remaining(t) == {x \in overruled : t.where[x[1]] = x[2]}

Selling(p) == {h \in Cottages : sale[h] # NoSale /\ p \in {sale[h].seller, sale[h].buyer}}

\* HouseTile::__queryAdd.
Walk(p, to) ==
    /\ p \in present /\ to # where[p] /\ Street \in {to, where[p]}
    /\ to \in Cottages => Invited(Town, to, p)
    /\ Becomes([Town EXCEPT !.where[p] = to])
    /\ overruled' = Remaining([Town EXCEPT !.where[p] = to])
    /\ UNCHANGED <<present, editing, sale, tenure, stale, seized, lucky>>

\* The Player is deleted, its trade closed (onCreatureDisappear).
Logout(p) ==
    /\ p \in present
    /\ present' = present \ {p}
    /\ overruled' = {x \in overruled : x[1] # p}
    /\ editing' = [editing EXCEPT ![p] = NoWindow]
    /\ sale' = [h \in Cottages |-> IF h \in Selling(p) THEN NoSale ELSE sale[h]]
    /\ seized' = seized \ Selling(p)
    /\ UNCHANGED <<houses, where, tenure, stale, lucky>>

\* Map::placeCreature: who is not invited comes out at the entry.
Login(p) ==
    /\ p \notin present
    /\ present' = present \union {p}
    /\ where' = IF where[p] \in Cottages /\ ~Invited(Town, where[p], p)
                THEN [where EXCEPT ![p] = Street] ELSE where
    /\ UNCHANGED <<houses, editing, sale, tenure, overruled, stale, seized, lucky>>

\* The spells that open a window, for one who stands in the house.
OpenWindow(p, list) ==
    /\ p \in present /\ where[p] \in Cottages /\ MayEdit(where[p], list, p)
    /\ editing' = [editing EXCEPT ![p] = [house |-> where[p], list |-> list]]
    /\ UNCHANGED <<houses, where, present, sale, tenure, overruled, stale, seized, lucky>>

\* playerUpdateHouseWindow, whenever the client sends the text: whether the player
\* may still edit the list is not asked.
UpdateHouseWindow(p, names) ==
    /\ p \in present /\ editing[p] # NoWindow
    /\ LET h == editing[p].house
           list == editing[p].list
           t == SetAccessList(Town, h, list, names)
       IN  /\ Becomes(t)
           /\ overruled' = Remaining(t) \union {<<q, h>> : q \in {r \in Inside(t, h) : ~Invited(t, h, r)}}
           /\ tenure' = [tenure EXCEPT ![h][list] = houses[h].owner]
           /\ stale' = IF MayEdit(h, list, p) THEN stale ELSE stale \union {h}
    /\ editing' = [editing EXCEPT ![p] = NoWindow]
    /\ UNCHANGED <<present, sale, seized, lucky>>

HouseKick(p, q) ==
    /\ p \in present /\ where[p] \in Cottages
    /\ Becomes(Kicked(Town, where[p], {p}, q))
    /\ overruled' = Remaining(Kicked(Town, where[p], {p}, q))
    /\ UNCHANGED <<present, editing, sale, tenure, stale, seized, lucky>>

\* What a change of owner does to the history.
ChangesOwner(h, guid, gain) ==
    LET t == SetHouseOwner(Town, h, guid)
    IN  /\ Becomes(t) /\ overruled' = Remaining(t)
        /\ stale' = IF t.houses[h].guests = {} /\ t.houses[h].subowners = {} THEN stale \ {h} ELSE stale
        /\ lucky' = {p \in lucky \union gain : Cardinality({g \in Cottages : t.houses[g].owner = p}) > 1}
        /\ tenure' = [g \in Cottages |-> IF g = h /\ t # Town THEN [list \in Lists |-> Unowned] ELSE tenure[g]]
        /\ UNCHANGED <<present, editing>>

\* A command, a script or unpaid rent gives the house to somebody or to nobody.
Decree(h, guid) ==
    /\ houses[h].owner # guid
    /\ ChangesOwner(h, guid, {guid} \ {Unowned})
    /\ seized' = IF sale[h] # NoSale THEN seized \union {h} ELSE seized
    /\ UNCHANGED sale

BuyHouse(p, h) ==
    /\ p \in present /\ HousesOf(p) = {} /\ houses[h].owner = Unowned
    /\ ChangesOwner(h, p, IF Selling(p) # {} THEN {p} ELSE {})
    /\ seized' = IF sale[h] # NoSale THEN seized \union {h} ELSE seized
    /\ UNCHANGED sale

\* Commands::sellHouse, when internalStartTrade succeeds; otherwise the document is
\* taken back at once.
SellHouse(p, q) ==
    /\ {p, q} \subseteq present /\ p # q
    /\ HousesOf(p) # {} /\ HousesOf(q) = {}
    /\ Selling(p) = {} /\ Selling(q) = {}
    /\ sale[HouseOf(p)] = NoSale
    /\ sale' = [sale EXCEPT ![HouseOf(p)] = [seller |-> p, buyer |-> q]]
    /\ UNCHANGED <<houses, where, present, editing, tenure, overruled, stale, seized, lucky>>

\* Both accept: onTradeEvent(ON_TRADE_TRANSFER), executeTransfer.
AcceptSale(h) ==
    /\ sale[h] # NoSale
    /\ ChangesOwner(h, sale[h].buyer,
                    IF h \in seized \/ HousesOf(sale[h].buyer) # {} THEN {sale[h].buyer} ELSE {})
    /\ sale' = [sale EXCEPT ![h] = NoSale]
    /\ seized' = seized \ {h}

\* The trade is closed or fails: ON_TRADE_CANCEL.
CancelSale(h) ==
    /\ sale[h] # NoSale
    /\ sale' = [sale EXCEPT ![h] = NoSale]
    /\ seized' = seized \ {h}
    /\ UNCHANGED <<houses, where, present, editing, tenure, overruled, stale, lucky>>

HousesInit ==
    /\ houses = [h \in Cottages |-> [owner |-> Unowned, guests |-> {}, subowners |-> {}]]
    /\ present = {} /\ where = [p \in Dwellers |-> Street]
    /\ editing = [p \in Dwellers |-> NoWindow] /\ sale = [h \in Cottages |-> NoSale]
    /\ tenure = [h \in Cottages |-> [list \in Lists |-> Unowned]]
    /\ overruled = {} /\ stale = {} /\ seized = {} /\ lucky = {}

HousesNext ==
    \/ \E p \in Dwellers, to \in Visited \union {Street} : Walk(p, to)
    \/ \E p \in Dwellers : Logout(p) \/ Login(p)
    \/ \E p \in Dwellers, list \in Lists : OpenWindow(p, list)
    \/ \E p \in Dwellers, names \in Texts : UpdateHouseWindow(p, names)
    \/ \E p, q \in Dwellers : HouseKick(p, q) \/ SellHouse(p, q)
    \/ \E p \in Dwellers, h \in Cottages : BuyHouse(p, h)
    \/ \E h \in Cottages, guid \in Dwellers \union {Unowned} : Decree(h, guid)
    \/ \E h \in Cottages : AcceptSale(h) \/ CancelSale(h)

HousesSpec == HousesInit /\ [][HousesNext]_houseVars
-----------------------------------------------------------------------------
HousesTypeOK ==
    /\ houses \in [Cottages -> [owner : Dwellers \union {Unowned}, guests : SUBSET Dwellers,
                                subowners : SUBSET Dwellers]]
    /\ where \in [Dwellers -> Cottages \union {Street}] /\ present \subseteq Dwellers
    /\ editing \in [Dwellers -> [house : Cottages, list : Lists] \union {NoWindow}]
    /\ sale \in [Cottages -> [seller : Dwellers, buyer : Dwellers] \union {NoSale}]

\* Who is in a house is invited, unless a list was written without him while he
\* was inside: a new owner finds nobody there whom the old one had invited.
InsideInvited ==
    \A p \in present : where[p] \in Cottages =>
        Invited(Town, where[p], p) \/ <<p, where[p]>> \in overruled

\* The lists of a house were written under its present owner, unless somebody wrote
\* one who no longer might: nobody inherits the guests of another.
ListsOfOwner ==
    \A h \in Cottages, list \in Lists :
        houses[h][list] # {} => tenure[h][list] = houses[h].owner \/ h \in stale

\* A house for sale belongs to the seller, who is in the game as the buyer is, unless
\* it changed hands meanwhile.
SellerOwns ==
    \A h \in Cottages : sale[h] # NoSale =>
        /\ {sale[h].seller, sale[h].buyer} \subseteq present
        /\ houses[h].owner = sale[h].seller \/ h \in seized

\* A player who buys has one house, unless he bought two at a time.
OneHouseEach == \A p \in Dwellers : Cardinality(HousesOf(p)) <= 1 \/ p \in lucky

HousesHold == HousesTypeOK /\ InsideInvited /\ ListsOfOwner /\ SellerOwns /\ OneHouseEach
=============================================================================
