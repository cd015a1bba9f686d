-------------------------------- MODULE Sight --------------------------------
(***************************************************************************)
(* What a client is told of the map (protocolgame.cpp, tile.cpp,           *)
(* game.cpp).  The client draws at most ten things of a tile, and names    *)
(* them by their place on it; the server counts the place on its own tile  *)
(* and sends no thing from the tenth on.  Of the creatures it has been     *)
(* told of the client keeps a record by id, and the server a list of these *)
(* ids, at most 150: a creature that is on the list is sent without its    *)
(* record.  The two pictures can drift apart without either side noticing. *)
(*                                                                         *)
(* The map is a line of tiles on one floor.  A tile is the creatures on it *)
(* and the items lying there, the newest first; the ground and the items   *)
(* that are always on top, which keep their place, are left out.  An item  *)
(* looks one way or another, which transformItem changes.                  *)
(***************************************************************************)
EXTENDS Integers, SequencesExt

CONSTANTS
    Viewer,        \* the player whose client this is
    Walkers,   \* the creatures, Viewer among them
    Litter,    \* the items
    FieldEnd,  \* the last tile of the map
    Radius,    \* cMaxViewLeft and its like
    MaxShown,  \* the ten things of a tile that a client draws
    MaxKnown   \* the 150 creatures a client keeps

Field == 1..FieldEnd

ASSUME SightAssumption ==
    /\ Viewer \in Walkers
    /\ FieldEnd \in Nat \ {0} /\ Radius \in Nat
    /\ MaxShown \in Nat \ {0, 1} /\ MaxKnown \in Nat \ {0}

VARIABLES
    world,   \* standing: the creatures of each tile, lying: its items, look: of each item
    client   \* picture: what it draws, knows: the creatures it has records of;
             \* list: knownCreatureList, crowded: it was once full of creatures in sight

sightVars == <<world, client>>

Shown(s) == SubSeq(s, 1, IF Len(s) < MaxShown THEN Len(s) ELSE MaxShown)

Items(w, p) == [n \in DOMAIN w.lying[p] |-> <<w.lying[p][n], w.look[w.lying[p][n]]>>]
OnTile(w, p) == w.standing[p] \o Items(w, p)

\* __getIndexOfThing, which counts from 0.
CreatureIndex(w, p, c) == CHOOSE n \in 0..(Len(w.standing[p]) - 1) : w.standing[p][n + 1] = c
ItemIndex(w, p, i) ==
    Len(w.standing[p]) + CHOOSE n \in 0..(Len(w.lying[p]) - 1) : w.lying[p][n + 1] = i

StandsOn(w, c) == {p \in Field : Contains(w.standing[p], c)}
LiesOn(w, i) == {p \in Field : Contains(w.lying[p], i)}

InSight(w, p) == \E q \in StandsOn(w, Viewer) : p \in (q - Radius)..(q + Radius)
CanSee(w, c) == \E p \in StandsOn(w, c) : InSight(w, p)
-----------------------------------------------------------------------------
(* What the server writes about creatures it may have told of.             *)

\* A creature that is not on the full list takes the place of the first one
\* that is out of sight; those in sight before it go to the back.  With none
\* out of sight the loop ends after MaxKnown turns: the last one it looked at
\* is reported as removed, and the new one, now at the front, is popped.
CheckCreatureAsKnown(w, v, c) ==
    LET all == Append(v.list, c)
        unseen == {n \in 1..MaxKnown : ~CanSee(w, all[n])}
        first == CHOOSE n \in unseen : \A k \in unseen : n <= k
    IN  IF Contains(v.list, c)
        THEN [v EXCEPT !.list = Append(Remove(@, c), c)]
        ELSE IF Len(v.list) < MaxKnown
        THEN [v EXCEPT !.list = all, !.knows = @ \union {c}]
        ELSE IF unseen # {}
        THEN [v EXCEPT !.list = SubSeq(all, first + 1, MaxKnown + 1) \o SubSeq(all, 1, first - 1),
                       !.knows = (@ \ {all[first]}) \union {c}]
        ELSE [v EXCEPT !.crowded = TRUE, !.knows = (@ \ {all[MaxKnown]}) \union {c}]

TileDescription(w, v, p) ==
    [FoldLeft(LAMBDA u, c : CheckCreatureAsKnown(w, u, c), v, Shown(w.standing[p]))
        EXCEPT !.picture[p] = Shown(OnTile(w, p))]

\* GetMapDescription of the tiles in ps, from left to right.
Describe(w, v, ps) ==
    FoldLeft(LAMBDA u, p : TileDescription(w, u, p), v, SetToSortSeq(ps, <))

SendUpdateTile(w, v, p) == IF InSight(w, p) THEN TileDescription(w, v, p) ELSE v

\* As PostRemove, with the limit itself for the number of things left.
PostRemoveLate(w, v, p) ==
    IF Len(OnTile(w, p)) > MaxShown THEN SendUpdateTile(w, v, p) ELSE v

\* Tile::postRemoveNotification: what was beyond the tenth place may have moved up.
PostRemove(w, v, p) ==
    IF Len(OnTile(w, p)) > MaxShown - 2 THEN SendUpdateTile(w, v, p) ELSE v
-----------------------------------------------------------------------------
(* What the client does with the messages: it draws a creature before the  *)
(* other things of the tile, an item before the other items, and no more   *)
(* than MaxShown things; the tiles it no longer sees it forgets.           *)

DrawCreature(v, p, c) == [v EXCEPT !.picture[p] = Shown(<<c>> \o @)]
DrawItem(v, p, x) ==
    LET n == Len(SelectSeq(v.picture[p], LAMBDA y : y \in Walkers))
    IN  [v EXCEPT !.picture[p] = Shown(InsertAt(@, n + 1, x))]
Erase(v, p, index) ==
    [v EXCEPT !.picture[p] = IF index < Len(@) THEN RemoveAt(@, index + 1) ELSE @]
Redraw(v, p, index, x) ==
    [v EXCEPT !.picture[p] = IF index < Len(@) THEN [@ EXCEPT ![index + 1] = x] ELSE @]
\* The message names the creature by its old tile and place.
Shift(v, p, index, q) ==
    IF index < Len(v.picture[p])
    THEN DrawCreature(Erase(v, p, index), q, v.picture[p][index + 1])
    ELSE v
Forget(w, v) ==
    [v EXCEPT !.picture = [p \in Field |-> IF InSight(w, p) THEN @[p] ELSE <<>>]]
-----------------------------------------------------------------------------
(* The messages.  w is the map after the change, as the code sends last.   *)

AddTileCreature(w, v, p, c) == DrawCreature(CheckCreatureAsKnown(w, v, c), p, c)
RemoveTileItem(v, p, index) == IF index < MaxShown THEN Erase(v, p, index) ELSE v
UpdateTileItem(v, p, index, x) == IF index < MaxShown THEN Redraw(v, p, index, x) ELSE v
AddMapDescription(w, v) ==
    Describe(w, [v EXCEPT !.picture = [p \in Field |-> <<>>]], {p \in Field : InSight(w, p)})

SendAddTileItem(w, v, p, x) == IF InSight(w, p) THEN DrawItem(v, p, x) ELSE v
SendRemoveTileThing(w, v, p, index) == IF InSight(w, p) THEN RemoveTileItem(v, p, index) ELSE v
SendAddCreature(w, v, p, c) == IF InSight(w, p) THEN AddTileCreature(w, v, p, c) ELSE v

\* A step of the client's own player: the creature moves on the picture, then
\* come the tiles that were not in sight before.
SendOwnMove(w, v, p, index, q, teleport) ==
    IF teleport \/ index >= MaxShown
    THEN AddMapDescription(w, RemoveTileItem(v, p, index))
    ELSE Forget(w, Describe(w, Shift(v, p, index, q),
                            {r \in Field : InSight(w, r) /\ r \notin (p - Radius)..(p + Radius)}))

SendOthersMove(w, v, c, p, index, q, teleport) ==
    IF InSight(w, p) /\ InSight(w, q)
    THEN IF teleport \/ index >= MaxShown
         THEN AddTileCreature(w, RemoveTileItem(v, p, index), q, c)
         ELSE Shift(v, p, index, q)
    ELSE IF InSight(w, p) THEN RemoveTileItem(v, p, index)
    ELSE SendAddCreature(w, v, q, c)
-----------------------------------------------------------------------------
NewClient == [picture |-> [p \in Field |-> <<>>], knows |-> {}, list |-> <<>>, crowded |-> FALSE]

SightInit ==
    /\ world = [standing |-> [p \in Field |-> IF p = 1 THEN <<Viewer>> ELSE <<>>],
                lying |-> [p \in Field |-> <<>>],
                look |-> [i \in Litter |-> FALSE]]
    /\ client = AddMapDescription(world, NewClient)

Told(w, v) == world' = w /\ client' = v

\* Tile::moveCreature.  A step needs a tile without creatures, a teleport does
\* not ask.
MoveCreature(c, p, q, teleport) ==
    LET w == [world EXCEPT !.standing[p] = Remove(@, c), !.standing[q] = <<c>> \o @]
        index == CreatureIndex(world, p, c)
    IN  /\ p \in StandsOn(world, c) /\ p # q
        /\ teleport \/ (q \in {p - 1, p + 1} /\ world.standing[q] = <<>>)
        /\ Told(w, PostRemove(w, IF c = Viewer THEN SendOwnMove(w, client, p, index, q, teleport)
                                 ELSE SendOthersMove(w, client, c, p, index, q, teleport), p))

\* A spawn, a summon, a login: placeCreature.
CreatureAppears(c, p) ==
    LET w == [world EXCEPT !.standing[p] = <<c>> \o @]
    IN  /\ StandsOn(world, c) = {}
        /\ Told(w, SendAddCreature(w, client, p, c))

CreatureDisappears(c, p) ==
    LET w == [world EXCEPT !.standing[p] = Remove(@, c)]
    IN  /\ c # Viewer /\ p \in StandsOn(world, c)
        /\ Told(w, PostRemove(w, SendRemoveTileThing(w, client, p, CreatureIndex(world, p, c)), p))

\* An item comes from a container or a corpse.
ItemAppears(i, p) ==
    LET w == [world EXCEPT !.lying[p] = <<i>> \o @]
    IN  /\ LiesOn(world, i) = {}
        /\ Told(w, SendAddTileItem(w, client, p, <<i, w.look[i]>>))

ItemDisappears(i, p) ==
    LET w == [world EXCEPT !.lying[p] = Remove(@, i)]
    IN  /\ p \in LiesOn(world, i)
        /\ Told(w, PostRemove(w, SendRemoveTileThing(w, client, p, ItemIndex(world, p, i)), p))

\* internalMoveItem between two tiles: both are told of before the notification.
MoveItem(i, p, q) ==
    LET w == [world EXCEPT !.lying[p] = Remove(@, i)]
        w2 == [w EXCEPT !.lying[q] = <<i>> \o @]
        removed == SendRemoveTileThing(w, client, p, ItemIndex(world, p, i))
    IN  /\ p \in LiesOn(world, i) /\ p # q
        /\ Told(w2, PostRemove(w2, SendAddTileItem(w2, removed, q, <<i, w.look[i]>>), p))

\* transformItem: the notification of the removal comes before the update when
\* the item keeps its type, after it when another item takes its place.
TransformLitter(i, p, keepsType) ==
    LET w == [world EXCEPT !.look[i] = ~@]
        index == ItemIndex(world, p, i)
        update(v) == IF InSight(w, p) THEN UpdateTileItem(v, p, index, <<i, w.look[i]>>) ELSE v
    IN  /\ p \in LiesOn(world, i)
        /\ Told(w, IF keepsType THEN update(PostRemove(world, client, p))
                   ELSE PostRemove(w, update(client), p))

\* ProtocolGame::connect: a new protocol and a new client take the player over.
Reconnect == Told(world, AddMapDescription(world, NewClient))

SightNext ==
    \/ \E c \in Walkers, p, q \in Field, teleport \in BOOLEAN : MoveCreature(c, p, q, teleport)
    \/ \E c \in Walkers, p \in Field : CreatureAppears(c, p) \/ CreatureDisappears(c, p)
    \/ \E i \in Litter, p \in Field : ItemAppears(i, p) \/ ItemDisappears(i, p)
    \/ \E i \in Litter, p, q \in Field : MoveItem(i, p, q)
    \/ \E i \in Litter, p \in Field, keepsType \in BOOLEAN : TransformLitter(i, p, keepsType)
    \/ Reconnect

SightSpec == SightInit /\ [][SightNext]_sightVars
-----------------------------------------------------------------------------
\* The variables have their types.
SightTypeOK ==
    /\ \A p \in Field : /\ world.standing[p] \in Seq(Walkers)
                        /\ world.lying[p] \in Seq(Litter)
                        /\ client.picture[p] \in Seq(Walkers \union (Litter \X BOOLEAN))
    /\ world.look \in [Litter -> BOOLEAN]
    /\ client.list \in Seq(Walkers) /\ client.knows \subseteq Walkers
    /\ client.crowded \in BOOLEAN

\* The client draws of each tile in sight the first things of the server's tile,
\* in their order: the places that later messages name mean the same on both
\* sides (GetTileDescription, UpdateTileItem and RemoveTileItem stop at ten,
\* postRemoveNotification sends the tile again).
PictureIsTrue ==
    \A p \in Field : client.picture[p] = IF InSight(world, p) THEN Shown(OnTile(world, p)) ELSE <<>>

\* The server holds for known the creatures the client has records of, and these
\* include all it draws, until 150 creatures were in sight at once
\* (checkCreatureAsKnown).
KnownIsTrue ==
    /\ Len(client.list) <= MaxKnown
    /\ ~client.crowded =>
        /\ client.knows = ToSet(client.list)
        /\ \A p \in Field : ToSet(client.picture[p]) \intersect Walkers \subseteq client.knows

\* What the client is told of is so.
SightTrue == SightTypeOK /\ PictureIsTrue /\ KnownIsTrue
=============================================================================
