------------------------------- MODULE Windows -------------------------------
(***************************************************************************)
(* The containers that players have open (player.cpp, container.cpp,       *)
(* game.cpp, actions.cpp).  containerVec holds plain pointers, by the id   *)
(* of a window that the client chose, and counts no use of the container:  *)
(* a window must be closed when its container, or one around it, is        *)
(* destroyed, carried away by somebody else or left behind.  The client    *)
(* shows what a window held when it was opened, changed by every message   *)
(* since.                                                                  *)
(*                                                                         *)
(* The map is a line of cells.  Who stands near enough is told of what     *)
(* happens on the map; all are near enough here, as only those next to a   *)
(* container can have it open.  Depots, which hang under every locker in   *)
(* turn, stacks, which never are containers, and a player without a client *)
(* are left out.                                                           *)
(***************************************************************************)
EXTENDS Integers, FiniteSets, Sequences

LOCAL INSTANCE SequencesExt

CONSTANTS
    Watchers,   \* the players
    Cells,      \* the tiles, by their distance from one end
    Crates,     \* the containers
    Trinkets,   \* the other items
    CrateRoom,  \* capacity of a container
    Wrecked,    \* the place of what was removed
    Cids,       \* the ids of windows
    Named,      \* bound: the ids that the client of each player names
    Closed,     \* what the client shows under an id without a window
    Start       \* where things are at first

Stuff == Crates \union Trinkets
Depth == Cardinality(Stuff)

ASSUME WindowsAssumption ==
    /\ Cells \subseteq Int /\ CrateRoom \in Nat \ {0}
    /\ Watchers \intersect Cells = {} /\ Wrecked \notin Watchers \union Cells
    /\ Start \in [Watchers \union Stuff -> Cells] /\ Named \in [Watchers -> SUBSET Cids]

VARIABLES
    holder,    \* of each item, getParent: a player, a cell, a container
    inside,    \* itemlist of each container, the newest first
    at,        \* the cell of each player
    windows,   \* containerVec of each player: [cid, box]
    shown,     \* what each client shows under each id: [box, items]
    strayed    \* history: players whose client once had fewer windows than they

windowVars == <<holder, inside, at, windows, shown, strayed>>

\* What the steps of an operation change, in their order.
Scene == [holder |-> holder, inside |-> inside, at |-> at, windows |-> windows, shown |-> shown]
Becomes(s) ==
    /\ holder' = s.holder /\ inside' = s.inside /\ at' = s.at
    /\ windows' = s.windows /\ shown' = s.shown
-----------------------------------------------------------------------------
(* Where things are.                                                       *)

\* The item, what holds it, what holds that, and so on.
Upwards(s, x) ==
    LET up[n \in 0..Depth] ==
            IF n = 0 THEN x
            ELSE LET y == up[n - 1] IN IF y \in Stuff THEN s.holder[y] ELSE y
    IN  up
Root(s, x) == Upwards(s, x)[Depth]
AroundOf(s, x) == {Upwards(s, x)[n] : n \in 0..Depth} \intersect Crates

IsGone(s, x) == Root(s, x) = Wrecked
PositionOf(s, x) == LET r == Root(s, x) IN IF r \in Watchers THEN s.at[r] ELSE r
Near(s, p, x) == ~IsGone(s, x) /\ PositionOf(s, x) \in (s.at[p] - 1)..(s.at[p] + 1)
-----------------------------------------------------------------------------
(* Windows and the messages about them.                                    *)

CidsOf(s, p, b) == {w.cid : w \in {v \in ToSet(s.windows[p]) : v.box = b}}
BoxAt(s, p, cid) == {w.box : w \in {v \in ToSet(s.windows[p]) : v.cid = cid}}

View(s, b) == [box |-> b, items |-> s.inside[b]]

\* onSendContainer: under every id, the client opens a window if it has none.
SendContainer(s, p, b) ==
    [s EXCEPT !.shown[p] = [c \in Cids |-> IF c \in CidsOf(s, p, b) THEN View(s, b) ELSE @[c]]]

\* A client without the window does nothing.
Change(s, b, Op(_)) ==
    [s EXCEPT !.shown = [p \in Watchers |-> [c \in Cids |->
        IF c \in CidsOf(s, p, b) /\ @[p][c] # Closed
        THEN [@[p][c] EXCEPT !.items = Op(@)] ELSE @[p][c]]]]

\* addContainer: in the place of the window with this id, if there is one.
AddContainer(s, p, cid, b) ==
    [s EXCEPT !.windows[p] =
        IF BoxAt(s, p, cid) # {}
        THEN [n \in DOMAIN @ |-> IF @[n].cid = cid THEN [cid |-> cid, box |-> b] ELSE @[n]]
        ELSE Append(@, [cid |-> cid, box |-> b])]

CloseContainer(s, p, cid) ==
    [s EXCEPT !.windows[p] = SelectSeq(@, LAMBDA w : w.cid # cid)]
SendClose(s, p, cids) ==
    [s EXCEPT !.shown[p] = [c \in Cids |-> IF c \in cids THEN Closed ELSE @[c]]]

\* As AutoCloseContainers, without a look at what is around the container.
AutoCloseOne(s, p, b) ==
    LET cids == {c \in Cids : \E v \in BoxAt(s, p, c) : IsGone(s, v) \/ b = v}
    IN  SendClose([s EXCEPT !.windows[p] = SelectSeq(@, LAMBDA w : w.cid \notin cids)], p, cids)

\* The windows of b and of all that is in it, and of all that is gone.
AutoCloseContainers(s, p, b) ==
    LET cids == {c \in Cids : \E v \in BoxAt(s, p, c) : IsGone(s, v) \/ b \in AroundOf(s, v)}
    IN  SendClose([s EXCEPT !.windows[p] = SelectSeq(@, LAMBDA w : w.cid \notin cids)], p, cids)
-----------------------------------------------------------------------------
(* Notifications.                                                          *)

\* Those whom a removal from h, or an addition to h, is made known to: the player
\* who carries it, or those around.
ToldOf(s, h) == IF Root(s, h) \in Watchers THEN {Root(s, h)} ELSE Watchers

\* Player::postRemoveNotification of a container.
PostRemoveFor(s, p, b) ==
    IF ~Near(s, p, b) \/ Root(s, b) \in Watchers \ {p}
    THEN AutoCloseContainers(s, p, b)
    ELSE SendContainer(s, p, b)

Notify(s, ps, x, Op(_, _, _)) ==
    IF x \in Crates THEN FoldLeft(LAMBDA t, p : Op(t, p, x), s, SetToSeq(ps)) ELSE s

\* __removeThing and __addThing, which tell those who have the container open.
RemoveThing(s, x) ==
    LET h == s.holder[x]
        n == IF h \in Crates THEN CHOOSE i \in DOMAIN s.inside[h] : s.inside[h][i] = x ELSE 0
    IN  IF h \in Crates
        THEN [Change(s, h, LAMBDA items : RemoveAt(items, n))
                EXCEPT !.inside[h] = RemoveAt(@, n), !.holder[x] = Wrecked]
        ELSE [s EXCEPT !.holder[x] = Wrecked]

AddThing(s, x, to) ==
    IF to \in Crates
    THEN [Change(s, to, LAMBDA items : <<x>> \o items)
            EXCEPT !.inside[to] = <<x>> \o @, !.holder[x] = to]
    ELSE [s EXCEPT !.holder[x] = to]
-----------------------------------------------------------------------------
(* What players do.                                                        *)

\* internalGetThing and canUse: what the player carries, what lies next to him,
\* what is in a container he has open.
Reaches(p, x) ==
    \/ holder[x] = p
    \/ holder[x] \in (at[p] - 1)..(at[p] + 1)
    \/ \E w \in ToSet(windows[p]) : holder[x] = w.box

\* Using a container opens it in the window that the client names, or closes it:
\* onCloseContainer every window, closeContainer the first.
UseContainer(p, b, cid) ==
    LET cids == CidsOf(Scene, p, b)
        first == SelectInSeq(windows[p], LAMBDA w : w.box = b)
    IN  /\ Reaches(p, b)
        /\ IF cids = {}
           THEN /\ Becomes(SendContainer(AddContainer(Scene, p, cid, b), p, b))
                /\ UNCHANGED strayed
           ELSE /\ Becomes(CloseContainer(SendClose(Scene, p, cids), p, windows[p][first].cid))
                /\ strayed' = IF Cardinality(cids) > 1 THEN strayed \union {p} ELSE strayed

PlayerCloseContainer(p, cid) ==
    /\ Becomes(SendClose(CloseContainer(Scene, p, cid), p, {cid}))
    /\ UNCHANGED strayed

\* sendContainer of this window only.
PlayerMoveUpContainer(p, cid) ==
    /\ \E b \in BoxAt(Scene, p, cid) :
            /\ holder[b] \in Crates
            /\ LET s == AddContainer(Scene, p, cid, holder[b])
               IN  Becomes([s EXCEPT !.shown[p][cid] = View(s, holder[b])])
    /\ UNCHANGED strayed

\* Where a player may put a thing: on the map, in his slots, in a container that he
\* has open or that he sees.
Accepting(p, x) ==
    Cells \union {p} \union
    {b \in Crates : (Reaches(p, b) \/ CidsOf(Scene, p, b) # {}) /\ x \notin AroundOf(Scene, b)
                    /\ Len(inside[b]) < CrateRoom}

\* internalMoveItem.
MoveThing(p, x, to) ==
    LET from == holder[x]
        s1 == AddThing(RemoveThing(Scene, x), x, to)
        s2 == Notify(s1, ToldOf(s1, from), x, PostRemoveFor)
    IN  /\ Reaches(p, x) /\ to \in Accepting(p, x) \ {from}
        /\ Becomes(Notify(s2, ToldOf(s2, to), x, SendContainer))
        /\ UNCHANGED strayed

\* internalRemoveItem: a decay, a script, something eaten.  What a container holds
\* goes with it.
DestroyThing(x) ==
    LET s == RemoveThing(Scene, x)
    IN  /\ ~IsGone(Scene, x)
        /\ Becomes(Notify(s, ToldOf(s, holder[x]), x, PostRemoveFor))
        /\ UNCHANGED strayed

\* The player stands somewhere else: Player::postAddNotification closes what is too
\* far away, with all that is in it.
WalkTo(p, cell) ==
    LET s == [Scene EXCEPT !.at[p] = cell]
        far == SelectSeq(s.windows[p], LAMBDA w : ~Near(s, p, w.box))
    IN  /\ cell # at[p]
        /\ Becomes(FoldLeft(LAMBDA t, w : AutoCloseContainers(t, p, w.box), s, far))
        /\ UNCHANGED strayed

\* ProtocolGame::connect: a new client, without windows, for the same Player.
NewConnection(p) ==
    /\ Becomes(SendClose(Scene, p, Cids))
    /\ strayed' = IF windows[p] # <<>> THEN strayed \union {p} ELSE strayed

WindowsInit ==
    /\ holder = [x \in Stuff |-> Start[x]] /\ inside = [b \in Crates |-> <<>>]
    /\ at = [p \in Watchers |-> Start[p]] /\ windows = [p \in Watchers |-> <<>>]
    /\ shown = [p \in Watchers |-> [c \in Cids |-> Closed]] /\ strayed = {}

WindowsNext ==
    \/ \E p \in Watchers, b \in Crates : \E cid \in Named[p] : UseContainer(p, b, cid)
    \/ \E p \in Watchers : \E cid \in Named[p] : PlayerCloseContainer(p, cid) \/ PlayerMoveUpContainer(p, cid)
    \/ \E p \in Watchers, x \in Stuff : \E to \in Accepting(p, x) : MoveThing(p, x, to)
    \/ \E x \in Stuff : DestroyThing(x)
    \/ \E p \in Watchers, cell \in Cells : WalkTo(p, cell)
    \/ \E p \in Watchers : NewConnection(p)

WindowsSpec == WindowsInit /\ [][WindowsNext]_windowVars
-----------------------------------------------------------------------------
\* The variables have their types.
WindowsTypeOK ==
    /\ holder \in [Stuff -> Watchers \union Cells \union Crates \union {Wrecked}]
    /\ \A b \in Crates : inside[b] \in Seq(Stuff)
    /\ at \in [Watchers -> Cells]
    /\ \A p \in Watchers : windows[p] \in Seq([cid : Cids, box : Crates])
    /\ strayed \subseteq Watchers

\* A window is open to a container that exists, and that the player carries or can
\* reach where it lies, however deep it is in others: containerVec holds no pointer
\* that outlives its container (autoCloseContainers).
WindowsInReach ==
    \A p \in Watchers : \A w \in ToSet(windows[p]) :
        Near(Scene, p, w.box) /\ Root(Scene, w.box) \notin Watchers \ {p}

\* The client shows under each id the container that the server has there, with
\* what it holds in its order, and no other window; a client that once had fewer
\* windows than the server may lack some.
WindowsAreTrue ==
    \A p \in Watchers, c \in Cids :
        \/ {shown[p][c]} = {View(Scene, b) : b \in BoxAt(Scene, p, c)}
        \/ shown[p][c] = Closed /\ (p \in strayed \/ BoxAt(Scene, p, c) = {})

\* One window for an id.
IdsApart ==
    \A p \in Watchers : \A m, n \in DOMAIN windows[p] : windows[p][m].cid = windows[p][n].cid => m = n

\* What players have open is theirs to have open, and their clients show it.
WindowsHold == WindowsTypeOK /\ WindowsInReach /\ WindowsAreTrue /\ IdsApart
=============================================================================
