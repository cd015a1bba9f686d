------------------------------- MODULE Estates -------------------------------
(***************************************************************************)
(* The rent of houses, the bank, and what becomes of the furniture of a    *)
(* house that is lost (house.cpp, player.cpp), with the copies that a      *)
(* player has: the one in the game, the row on disk, and those that are    *)
(* loaded for a moment to change the row of somebody who is not in the     *)
(* game (ioplayer.cpp).                                                    *)
(*                                                                         *)
(* Saves succeed and the server does not fail: nothing is promised about a *)
(* failure, as players are saved one by one and the map apart from them.   *)
(* The depot of the house's town stands for all that a player has.  Rent   *)
(* is paid from the bank (USE_ACCBALANCE).  The ids are those of           *)
(* houseMap, in whose order the rent is taken.                             *)
(***************************************************************************)
EXTENDS Integers, FiniteSetsExt, Functions

CONSTANTS
    Tenants,        \* players
    Estate,         \* ids of houses
    Furniture,      \* items
    Vacant,         \* the owner 0
    Rent,           \* of each house
    Wealth,         \* what each player has in the bank at first
    Home,           \* whose depot each item is in at first
    BalanceLimit,   \* 2^32
    WarningLimit,   \* 7
    Amounts         \* bound: what players transfer

ASSUME EstatesAssumption ==
    /\ IsFiniteSet(Tenants) /\ IsFiniteSet(Estate) /\ Estate \subseteq Nat /\ Vacant \notin Tenants
    /\ BalanceLimit \in Nat \ {0} /\ WarningLimit \in Nat /\ Amounts \subseteq Nat
    /\ Rent \in [Estate -> Nat \ {0}] /\ Wealth \in [Tenants -> 0..(BalanceLimit - 1)]
    /\ Home \in [Furniture -> Tenants]

VARIABLES
    logged,     \* the players in the game
    player,     \* of each player in the game, its bank and its depot
    disk,       \* of each player, the same in the tables
    estate,     \* of each house: owner, paid (paidUntil), warnings, warned (lastWarning) and rooms
    collected,  \* history: the rent that was taken
    wrapped     \* history: a balance was beyond BalanceLimit

estateVars == <<logged, player, disk, estate, collected, wrapped>>

Books == [player |-> player, disk |-> disk, estate |-> estate, collected |-> collected]
Balanced(b) ==
    player' = b.player /\ disk' = b.disk /\ estate' = b.estate /\ collected' = b.collected
-----------------------------------------------------------------------------
\* getPlayerByName or loadPlayer; a change of the copy in the game, or of the one
\* that was loaded, and savePlayer.
CopyOf(b, p) == IF p \in logged THEN b.player[p] ELSE b.disk[p]
Keep(b, p, copy) ==
    IF p \in logged THEN [b EXCEPT !.player[p] = copy]
    ELSE [b EXCEPT !.disk[p] = copy, !.player[p] = copy]

TransferToDepot(b, h) ==
    LET p == b.estate[h].owner
    IN  [Keep(b, p, [CopyOf(b, p) EXCEPT !.depot = @ \union b.estate[h].rooms])
            EXCEPT !.estate[h].rooms = {}]

\* setHouseOwner; a house without an owner has nothing paid and no warnings.
SetOwner(b, h, guid) ==
    LET c == IF b.estate[h].owner = Vacant THEN b ELSE TransferToDepot(b, h)
    IN  IF b.estate[h].owner = guid THEN b
        ELSE [c EXCEPT !.estate[h] = [c.estate[h] EXCEPT
                !.owner = guid, !.paid = FALSE, !.warnings = 0, !.warned = TRUE]]

Pays(b, h) == CopyOf(b, b.estate[h].owner).balance >= Rent[h]
Paying(b, h) ==
    LET p == b.estate[h].owner
    IN  [Keep(b, p, [CopyOf(b, p) EXCEPT !.balance = @ - Rent[h]])
            EXCEPT !.estate[h].paid = TRUE, !.collected = @ + Rent[h]]
Warning(b, h) ==
    [b EXCEPT !.estate[h] = [b.estate[h] EXCEPT !.warnings = @ + 1, !.warned = TRUE]]

\* As Evicted, without the "ugly hack": the copy is saved as well.
EvictedAndSaved(b, h) ==
    LET p == b.estate[h].owner IN Keep(SetOwner(b, h, Vacant), p, CopyOf(b, p))

\* setHouseOwner loads and saves an owner who is not in the game by itself: the copy
\* that payHouses has is then not saved.
Evicted(b, h) == SetOwner(b, h, Vacant)

\* payHouses for one house.
PayHouse(b, h) ==
    LET e == b.estate[h]
    IN  CASE e.owner = Vacant \/ e.paid -> b
          [] e.owner # Vacant /\ ~e.paid /\ Pays(b, h) -> Paying(b, h)
          [] e.owner # Vacant /\ ~e.paid /\ ~Pays(b, h) /\ e.warned -> b
          [] OTHER -> IF e.warnings >= WarningLimit THEN Evicted(b, h) ELSE Warning(b, h)

\* payHouses, in the order of houseMap.
PayHouses(b) ==
    LET paid[hs \in SUBSET Estate] ==
            IF hs = {} THEN b
            ELSE LET h == CHOOSE x \in hs : \A y \in hs : y <= x IN PayHouse(paid[hs \ {h}], h)
    IN  paid[Estate]
-----------------------------------------------------------------------------
EnterGame(p) ==
    /\ p \notin logged
    /\ logged' = logged \union {p} /\ player' = [player EXCEPT ![p] = disk[p]]
    /\ UNCHANGED <<disk, estate, collected, wrapped>>

\* onCreatureDisappear saves.
LeaveGame(p) ==
    /\ p \in logged
    /\ logged' = logged \ {p} /\ disk' = [disk EXCEPT ![p] = player[p]]
    /\ UNCHANGED <<player, estate, collected, wrapped>>

\* saveServer(true): first the players, then the rent.
SaveServer ==
    LET saved == [Books EXCEPT !.disk = [p \in Tenants |-> IF p \in logged THEN player[p] ELSE disk[p]]]
    IN  /\ Balanced(PayHouses(saved))
        /\ UNCHANGED <<logged, wrapped>>

\* transferMoneyTo: to somebody in the game, maybe oneself, or to a row on disk.
TransferMoneyTo(p, q, amount) ==
    LET b == Keep(Books, p, [player[p] EXCEPT !.balance = @ - amount])
        sum == CopyOf(b, q).balance + amount
    IN  /\ p \in logged /\ player[p].balance >= amount
        /\ Balanced(Keep(b, q, [CopyOf(b, q) EXCEPT !.balance = sum % BalanceLimit]))
        /\ wrapped' = (wrapped \/ sum >= BalanceLimit)
        /\ UNCHANGED logged

\* A house is bought, sold, given or taken away (setHouseOwner).
ChangeOwner(h, guid) ==
    /\ estate[h].owner # guid
    /\ Balanced(SetOwner(Books, h, guid))
    /\ UNCHANGED <<logged, wrapped>>

\* Somebody in the game carries an item into a house or out of it.
Furnish(p, h, x) ==
    /\ p \in logged /\ x \in player[p].depot
    /\ player' = [player EXCEPT ![p].depot = @ \ {x}]
    /\ estate' = [estate EXCEPT ![h].rooms = @ \union {x}]
    /\ UNCHANGED <<logged, disk, collected, wrapped>>

Fetch(p, h, x) ==
    /\ p \in logged /\ x \in estate[h].rooms
    /\ player' = [player EXCEPT ![p].depot = @ \union {x}]
    /\ estate' = [estate EXCEPT ![h].rooms = @ \ {x}]
    /\ UNCHANGED <<logged, disk, collected, wrapped>>

\* Time: a day since the last warning; the end of the period that is paid.
DayPasses(h) ==
    /\ estate[h].warned
    /\ estate' = [estate EXCEPT ![h].warned = FALSE]
    /\ UNCHANGED <<logged, player, disk, collected, wrapped>>
PeriodEnds(h) ==
    /\ estate[h].paid
    /\ estate' = [estate EXCEPT ![h].paid = FALSE]
    /\ UNCHANGED <<logged, player, disk, collected, wrapped>>

EstatesInit ==
    /\ logged = {}
    /\ disk = [p \in Tenants |-> [balance |-> Wealth[p], depot |-> {x \in Furniture : Home[x] = p}]]
    /\ player = disk
    /\ estate = [h \in Estate |-> [owner |-> Vacant, paid |-> FALSE, warnings |-> 0, warned |-> FALSE, rooms |-> {}]]
    /\ collected = 0 /\ wrapped = FALSE

EstatesNext ==
    \/ \E p \in Tenants : EnterGame(p) \/ LeaveGame(p)
    \/ SaveServer
    \/ \E p, q \in Tenants, amount \in Amounts : TransferMoneyTo(p, q, amount)
    \/ \E h \in Estate, guid \in Tenants \union {Vacant} : ChangeOwner(h, guid)
    \/ \E p \in Tenants, h \in Estate, x \in Furniture : Furnish(p, h, x) \/ Fetch(p, h, x)
    \/ \E h \in Estate : DayPasses(h) \/ PeriodEnds(h)

EstatesSpec == EstatesInit /\ [][EstatesNext]_estateVars
-----------------------------------------------------------------------------
Person == [balance : 0..(BalanceLimit - 1), depot : SUBSET Furniture]
EstatesTypeOK ==
    /\ logged \subseteq Tenants
    /\ player \in [Tenants -> Person] /\ disk \in [Tenants -> Person]
    /\ estate \in [Estate -> [owner : Tenants \union {Vacant}, paid : BOOLEAN, warnings : 0..WarningLimit,
                              warned : BOOLEAN, rooms : SUBSET Furniture]]

\* Money moves between balances and to the rent, and is neither made nor lost, unless
\* a balance went beyond its 32 bits.
NoMoneyMade ==
    wrapped \/ collected + SumFunctionOnSet([p \in Tenants |-> CopyOf(Books, p).balance], Tenants)
                   = SumFunctionOnSet(Wealth, Tenants)

\* Every item is in one house or with one player, however a house is lost and
\* whichever copy of its owner the depot belongs to.
FurnitureKept ==
    \A x \in Furniture :
        Cardinality({h \in Estate : x \in estate[h].rooms})
            + Cardinality({p \in Tenants : x \in CopyOf(Books, p).depot}) = 1

\* Neither money nor furniture is lost or doubled.
EstatesHold == EstatesTypeOK /\ NoMoneyMade /\ FurnitureKept
=============================================================================
