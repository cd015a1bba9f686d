------------------------------- MODULE Trade -------------------------------
(***************************************************************************)
(* Trading (font/game.cpp, playerRequestTrade to internalCloseTrade) with  *)
(* the checks by which Player closes a trade whose item is touched         *)
(* (font/player.cpp, checkTradeState and its callers) and the search for a *)
(* place that an exchange uses (Player::__queryDestination).               *)
(*                                                                         *)
(* Items lie in players' slots, in containers or on the ground next to the *)
(* players; counts, weights and kinds of slots are left out.  Everything   *)
(* runs on the dispatcher thread, one command or one move of an item a     *)
(* step.  A player that answers a request may accept without an offer of   *)
(* its own; the exchange then calls a method of NULL, which ends the       *)
(* process, and the behaviour.                                             *)
(***************************************************************************)
EXTENDS Naturals, FiniteSets

CONSTANTS
    Traders,        \* players
    Goods,          \* items that may be offered
    Boxes,          \* those that are containers
    Ground,         \* the tiles around the players
    Destroyed,      \* the parent of an item that has been removed
    NoTrader,       \* NULL, for a player
    NoGood,         \* NULL, for an item
    Slots,          \* slots of a player
    BoxRoom,        \* Container::capacity
    InitialParents  \* where the items are in the beginning

Holders == Traders \cup Boxes \cup {Ground, Destroyed}

\* The containers an item is in, one in the other.
BoxesAround(par, i) ==
    {b \in Boxes : \A S \in SUBSET Boxes :
        (\A c \in S \cup {i} : par[c] \in Boxes => par[c] \in S) => b \in S}

\* Everything an item is in: its parent, the parent's parent and so on.
Around(par, i) == {par[c] : c \in BoxesAround(par, i) \cup {i}}

ASSUME TradeAssumption ==
    /\ Boxes \subseteq Goods /\ IsFiniteSet(Goods)
    /\ Traders \cap Goods = {} /\ Ground # Destroyed
    /\ {Ground, Destroyed} \cap (Traders \cup Goods) = {}
    /\ NoTrader \notin Traders /\ NoGood \notin Goods
    /\ Slots \in Nat /\ BoxRoom \in Nat
    /\ \A par \in InitialParents :
          par \in [Goods -> Holders] /\ \A i \in Goods : i \notin Around(par, i)

VARIABLES
    tradeState,     \* NONE, ACKNOWLEDGE, INITIATED or ACCEPT; TRANSFER lasts for
                    \* the time of one exchange
    tradePartner,
    tradeItem,
    tradeItems,     \* Game::tradeItems: pairs of an item and who offers it; each
                    \* has one use of the item
    parent,         \* Item::getParent
    exchange        \* history: the exchange the last step made, if it succeeded

tradeVars == <<tradeState, tradePartner, tradeItem, tradeItems, parent, exchange>>

NoExchange == [of |-> NoTrader, with |-> NoTrader, gave |-> NoGood, got |-> NoGood,
               nested |-> FALSE]

TradeTypeOK ==
    /\ tradeState \in [Traders -> {"NONE", "ACKNOWLEDGE", "INITIATED", "ACCEPT"}]
    /\ tradePartner \in [Traders -> Traders \cup {NoTrader}]
    /\ tradeItem \in [Traders -> Goods \cup {NoGood}]
    /\ tradeItems \subseteq Goods \X Traders
    /\ parent \in [Goods -> Holders]
    /\ exchange \in [of : Traders \cup {NoTrader}, with : Traders \cup {NoTrader},
                     gave : Goods \cup {NoGood}, got : Goods \cup {NoGood},
                     nested : BOOLEAN]

TradeInit ==
    /\ tradeState = [p \in Traders |-> "NONE"]
    /\ tradePartner = [p \in Traders |-> NoTrader]
    /\ tradeItem = [p \in Traders |-> NoGood]
    /\ tradeItems = {}
    /\ parent \in InitialParents
    /\ exchange = NoExchange

-----------------------------------------------------------------------------
(* Where items are.                                                        *)

\* Container::isHoldingItem.
IsHolding(par, c, i) == c \in Around(par, i)

Content(par, h) == {i \in Goods : par[i] = h}

\* Room for i, Container::__queryAdd and the free slots of a player.
Accepts(par, h, i) ==
    IF h \in Traders THEN Cardinality(Content(par, h)) < Slots
    ELSE /\ Cardinality(Content(par, h)) < BoxRoom
         /\ h # i
         /\ ~IsHolding(par, i, h)

\* mutant: the containers in the slots are searched, offered or not.
DestinationsAll(par, p, i) ==
    IF Accepts(par, p, i) THEN {p}
    ELSE {c \in Boxes : par[c] = p /\ Accepts(par, c, i)}

\* __queryDestination: a slot; else a container in a slot; else a container
\* deeper down.  The item its owner offers is passed over, and so is all that is
\* in it when it lies in a slot, but not when it lies deeper.
Destinations(par, p, i) ==
    LET mayTake(c) == c # tradeItem[p] /\ Accepts(par, c, i)
        inSlots == {c \in Boxes : par[c] = p /\ mayTake(c)}
        deeper == {c \in Boxes :
                      /\ mayTake(c)
                      /\ \E s \in Boxes :
                            par[s] = p /\ s # tradeItem[p] /\ IsHolding(par, s, c)}
    IN IF Accepts(par, p, i) THEN {p}
       ELSE IF inSlots # {} THEN inSlots
       ELSE deeper

\* internalMoveItem: the item stays where it is when there is no place.
MovedTo(par, p, i) ==
    IF Destinations(par, p, i) = {} THEN {par}
    ELSE {[par EXCEPT ![i] = d] : d \in Destinations(par, p, i)}

-----------------------------------------------------------------------------
(* Closing.                                                                *)

\* internalCloseTrade, for some players and the partner of each.
Close(players) ==
    LET closed == players \cup {tradePartner[p] : p \in players}
    IN /\ tradeState' = [p \in Traders |-> IF p \in closed THEN "NONE" ELSE tradeState[p]]
       /\ tradePartner' =
             [p \in Traders |-> IF p \in closed THEN NoTrader ELSE tradePartner[p]]
       /\ tradeItem' = [p \in Traders |-> IF p \in closed THEN NoGood ELSE tradeItem[p]]
       /\ tradeItems' = {x \in tradeItems :
                            \A p \in closed \cap Traders : x[1] # tradeItem[p]}

\* checkTradeState.
Touches(par, p, i) == tradeItem[p] = i \/ IsHolding(par, tradeItem[p], i)

\* mutant: what is moved is compared with the offered item only.
RemovalTouchesItem(p, i) == Touches(parent, p, i)

\* The owners that onRemoveInventoryItem, onRemoveTileItem and
\* onRemoveContainerItem find concerned by i leaving its place.
RemovalTouches(p, i) ==
    \/ Touches(parent, p, i)
    \/ IsHolding(parent, i, tradeItem[p])
    \/ /\ parent[i] \in Boxes
       /\ parent[tradeItem[p]] # parent[i]
       /\ IsHolding(parent, parent[i], tradeItem[p])

Concerned(i, d) ==
    {p \in Traders :
        /\ tradeItem[p] # NoGood
        /\ \/ RemovalTouches(p, i)
           \/ d \in Boxes /\ Touches([parent EXCEPT ![i] = d], p, i)}

\* An item is moved, decays, is used up or is destroyed, by anybody's command
\* or by the game.
Move(i, d) ==
    /\ parent[i] # Destroyed
    /\ Destroyed \notin Around(parent, i)
    /\ d # parent[i]
    /\ \/ d \in {Ground, Destroyed}
       \/ d \in Traders /\ Accepts(parent, d, i)
       \/ d \in Boxes /\ Accepts(parent, d, i) /\ Destroyed \notin Around(parent, d)
    /\ parent' = [parent EXCEPT ![i] = d]
    /\ Close(Concerned(i, d))
    /\ exchange' = NoExchange

\* playerCloseTrade, a step out of range (onCreatureMove), and leaving the game
\* (onCreatureDisappear).
CloseTrade(p) ==
    /\ tradeState[p] # "NONE"
    /\ Close({p})
    /\ exchange' = NoExchange
    /\ UNCHANGED parent

-----------------------------------------------------------------------------
(* Asking and accepting.                                                   *)

\* Nothing in the item, around it or it itself is offered already.
IsFree(i) ==
    \A x \in tradeItems :
        x[1] # i /\ ~IsHolding(parent, i, x[1]) /\ ~IsHolding(parent, x[1], i)

\* Can p reach i?  Its own things, and what lies near.
InReach(p, i) == Around(parent, i) \cap {p, Ground} # {}

\* playerRequestTrade and internalStartTrade; p's offer, and a request or the
\* answer to one.
RequestTrade(p, q, i) ==
    /\ p # q
    /\ InReach(p, i)
    /\ IsFree(i)
    /\ tradeState[p] = "NONE" \/ (tradeState[p] = "ACKNOWLEDGE" /\ tradePartner[p] = q)
    /\ tradeState[q] = "NONE" \/ tradePartner[q] = p
    /\ tradeState' = [tradeState EXCEPT
                         ![p] = "INITIATED",
                         ![q] = IF @ = "NONE" THEN "ACKNOWLEDGE" ELSE @]
    /\ tradePartner' = [tradePartner EXCEPT
                           ![p] = q, ![q] = IF tradeState[q] = "NONE" THEN p ELSE @]
    /\ tradeItem' = [tradeItem EXCEPT ![p] = i]
    /\ tradeItems' = tradeItems \cup {<<i, p>>}
    /\ exchange' = NoExchange
    /\ UNCHANGED parent

MayAccept(p) == tradeState[p] \in {"ACKNOWLEDGE", "INITIATED"}

\* playerAcceptTrade, the first of the two.
AcceptFirst(p) ==
    /\ MayAccept(p)
    /\ tradeState[tradePartner[p]] # "ACCEPT"
    /\ tradeState' = [tradeState EXCEPT ![p] = "ACCEPT"]
    /\ exchange' = NoExchange
    /\ UNCHANGED <<tradePartner, tradeItem, tradeItems, parent>>

HasBox(i) == \E c \in Boxes : IsHolding(parent, i, c)

\* The second: both items are looked for a place, then both are moved, with the
\* results of the moves left unread.
AcceptSecond(p) ==
    LET q == tradePartner[p]
        mine == tradeItem[p]
        yours == tradeItem[q]
    IN /\ MayAccept(p)
       /\ tradeState[q] = "ACCEPT"
       /\ NoGood \notin {mine, yours}
       /\ IF Destinations(parent, q, mine) # {} /\ Destinations(parent, p, yours) # {}
          THEN /\ \E half \in MovedTo(parent, q, mine) :
                     parent' \in MovedTo(half, p, yours)
               /\ exchange' = [of |-> p, with |-> q, gave |-> mine, got |-> yours,
                               nested |-> HasBox(mine) \/ HasBox(yours)]
          ELSE exchange' = NoExchange /\ UNCHANGED parent
       /\ Close({p})

TradeNext ==
    \/ \E p \in Traders : CloseTrade(p) \/ AcceptFirst(p) \/ AcceptSecond(p)
    \/ \E p, q \in Traders, i \in Goods : RequestTrade(p, q, i)
    \/ \E i \in Goods, d \in Holders : Move(i, d)

TradeSpec == TradeInit /\ [][TradeNext]_tradeVars

-----------------------------------------------------------------------------
(* Properties.                                                             *)

\* Partners are each other's, whoever asked, answered, moved away or was asked
\* by a third meanwhile; internalCloseTrade closes the partner's side without
\* looking whose partner that is.
PartnersAgree ==
    \A p \in Traders :
        /\ (tradePartner[p] = NoTrader) <=> (tradeState[p] = "NONE")
        /\ tradePartner[p] # NoTrader => tradePartner[tradePartner[p]] = p

\* The register of offered items holds each offer once and nothing else: the
\* use counted for an item is released when its trade ends.
RegisterAgrees ==
    tradeItems = {<<tradeItem[p], p>> : p \in {q \in Traders : tradeItem[q] # NoGood}}

\* An offered item exists and is within its owner's reach, and no two offers
\* are one in the other: every way an item or its containers can go closes the
\* trade first (checkTradeState).
OffersStand ==
    \A p \in Traders : tradeItem[p] # NoGood =>
        /\ tradePartner[p] # NoTrader
        /\ Destroyed \notin Around(parent, tradeItem[p])
        /\ InReach(p, tradeItem[p])
        /\ \A q \in Traders \ {p} :
              /\ tradeItem[q] # tradeItem[p]
              /\ tradeItem[q] # NoGood => ~IsHolding(parent, tradeItem[p], tradeItem[q])

TradeLinks == PartnersAgree /\ RegisterAgrees /\ OffersStand

\* Each has what the other offered.
Swapped(x) ==
    /\ IsHolding(parent, x.of, x.got) /\ ~IsHolding(parent, x.of, x.gave)
    /\ IsHolding(parent, x.with, x.gave) /\ ~IsHolding(parent, x.with, x.got)

\* "tradeItem1->onTradeEvent(ON_TRADE_TRANSFER, tradePartner)" (game.cpp): an
\* exchange that succeeds gives each player the other's item, however full the
\* slots and containers of both are.
ExchangesSwap == exchange # NoExchange => Swapped(exchange)

\* The same, when the offered items hold no containers.
PlainExchangesSwap == exchange # NoExchange /\ ~exchange.nested => Swapped(exchange)

\* Trades are about goods that their owners have, and give each the other's.
TradesHold == TradeTypeOK /\ TradeLinks /\ PlainExchangesSwap
=============================================================================
