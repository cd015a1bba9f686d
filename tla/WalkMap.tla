------------------------------- MODULE WalkMap -------------------------------
(***************************************************************************)
(* What a monster takes the map around it to be.  A monster keeps, for     *)
(* every tile within the range of its view, whether it could walk there    *)
(* (localMapCache, creature.cpp), and path search believes it; a tile      *)
(* keeps in flags what its items say together (m_flags, tile.cpp), and     *)
(* Tile::__queryAdd believes those.  Neither is computed anew: a step      *)
(* shifts the cache, what others do changes one entry of it, and an item   *)
(* that comes, goes or changes sets and resets flags.                      *)
(*                                                                         *)
(* One floor; one monster, which pushes creatures and not items and is not *)
(* immune to fields, and one other creature, a monster it can push unless  *)
(* that one serves a player.  Those told of a change of a tile are those   *)
(* who have it in their cache (maxViewportX of both).                      *)
(***************************************************************************)
EXTENDS Integers, FiniteSets

CONSTANTS
    Width, Height,  \* of the map
    Radius,         \* (mapWalkWidth - 1) / 2
    Objects,        \* items
    KindFlags,      \* kind of item -> the flags an item of the kind gives
    Turns,          \* pairs of kinds: transformations
    FirstKind,      \* the kind of each item in the beginning
    Beds,           \* where each item may lie
    Walks,          \* where the other creature walks
    Absent

Blocking == {"blockSolid", "immovableBlockSolid", "noFieldBlockPath", "immovableNoFieldBlockPath"}
\* Flags an item that goes resets, whatever else lies there.
Lone == {"floorChange", "positionChange", "magicField"}

ASSUME WalkMapAssumption ==
    /\ Width \in Nat /\ Height \in Nat /\ Radius \in Nat
    /\ FirstKind \in [Objects -> DOMAIN KindFlags]
    /\ \A k \in DOMAIN KindFlags : KindFlags[k] \subseteq Blocking \union Lone

Cells == (1..Width) \X (1..Height)

ASSUME GroundAssumption ==
    /\ Absent \notin Cells /\ Walks \subseteq Cells
    /\ Beds \in [Objects -> (SUBSET Cells) \ {{}}]

Window == (-Radius..Radius) \X (-Radius..Radius)

VARIABLES
    place,      \* of the monster
    cache,      \* localMapCache, by distance
    burns,      \* it has the condition of the field
    serves,     \* it is a summon of a player
    other,      \* the place of the other creature, or Absent
    otherServes,
    bed,        \* where each item is, or Absent
    kind,       \* of each item
    flags       \* m_flags of each tile

walkVars == <<place, cache, burns, serves, other, otherServes, bed, kind, flags>>
-----------------------------------------------------------------------------
At(p, d) == <<p[1] + d[1], p[2] + d[2]>>

\* Tile::__queryAdd for the monster, with FLAG_PATHFINDING and FLAG_IGNOREFIELDDAMAGE;
\* c is where the monster stands, o where the other, and f the flags of the tile p.
FreeIf(p, c, o, f, burning, mine, its) ==
    /\ p \in Cells /\ p # c
    /\ f \intersect {"floorChange", "positionChange"} = {}
    /\ p = o => ~mine /\ ~its
    /\ f \intersect Blocking = {}
    /\ "magicField" \in f => burning

FlagsOf(fs, p) == IF p \in Cells THEN fs[p] ELSE {}
Free(p) == FreeIf(p, place', other', FlagsOf(flags', p), burns', serves', otherServes')

\* updateMapCache, and updateTileCache of the tile p.
UpdateMapCache == [d \in Window |-> Free(At(place', d))]
UpdateTile(c, p) == [d \in Window |-> IF At(place', d) = p THEN Free(p) ELSE c[d]]

\* The cache after a step by s: the rows are moved, a row is new; the columns are moved
\* but for the new row, a column is new.
ShiftRows(c, s) ==
    [d \in Window |-> CASE s[2] = 0 -> c[d]
                        [] s[2] # 0 /\ d[2] = s[2] * Radius -> Free(At(place', d))
                        [] OTHER -> c[<<d[1], d[2] + s[2]>>]]
\* mutant: the new row is moved like the others.
ShiftAllColumns(c, s) ==
    [d \in Window |-> CASE s[1] = 0 -> c[d]
                        [] s[1] # 0 /\ d[1] = s[1] * Radius -> Free(At(place', d))
                        [] OTHER -> c[<<d[1] + s[1], d[2]>>]]

ShiftColumns(c, s) ==
    [d \in Window |-> CASE s[1] = 0 -> c[d]
                        [] s[1] # 0 /\ d[1] = s[1] * Radius -> Free(At(place', d))
                        [] s[1] # 0 /\ d[1] # s[1] * Radius /\ s[2] # 0 /\ d[2] = s[2] * Radius -> c[d]
                        [] OTHER -> c[<<d[1] + s[1], d[2]>>]]

Shifted(c, s) == UpdateTile(ShiftColumns(ShiftRows(c, s), s), place)
-----------------------------------------------------------------------------
\* Tile::updateTileFlags; ks are the kinds of the other items that lie on the tile.
Kinds(p, i) == {kind[j] : j \in {j \in Objects \ {i} : bed[j] = p}}
FlagsAdded(f, k) == f \union KindFlags[k]
FlagsRemoved(f, k, ks) ==
    f \ (KindFlags[k] \intersect (Lone \union (Blocking \ UNION {KindFlags[j] : j \in ks})))

\* Creature::onAddTileItem always looks, onRemoveTileItem and onUpdateTileItem when the
\* kinds say so.
Matters(k) == KindFlags[k] \intersect Blocking # {} \/ "magicField" \in KindFlags[k]

Others == <<place, burns, serves, other, otherServes>>

AddThing(i, p) ==
    /\ bed[i] = Absent /\ p \in Beds[i]
    /\ bed' = [bed EXCEPT ![i] = p]
    /\ flags' = [flags EXCEPT ![p] = FlagsAdded(@, kind[i])]
    /\ UNCHANGED <<Others, kind>> /\ cache' = UpdateTile(cache, p)

RemoveThing(i) ==
    /\ bed[i] # Absent /\ kind[i] \notin {"floor", "hole"}
    /\ bed' = [bed EXCEPT ![i] = Absent]
    /\ flags' = [flags EXCEPT ![bed[i]] = FlagsRemoved(@, kind[i], Kinds(bed[i], i))]
    /\ UNCHANGED <<Others, kind>>
    /\ cache' = IF Matters(kind[i]) THEN UpdateTile(cache, bed[i]) ELSE cache

\* __updateThing: the flags of the old kind are taken, then those of the new kind, and
\* the new ones given.
UpdateThing(i, k) ==
    /\ bed[i] # Absent /\ <<kind[i], k>> \in Turns
    /\ kind' = [kind EXCEPT ![i] = k]
    /\ LET ks == Kinds(bed[i], i)
       IN  flags' = [flags EXCEPT ![bed[i]] =
                        FlagsAdded(FlagsRemoved(FlagsRemoved(@, kind[i], ks), k, ks), k)]
    /\ UNCHANGED <<Others, bed>>
    /\ cache' = IF Matters(kind[i]) \/ Matters(k) THEN UpdateTile(cache, bed[i]) ELSE cache
-----------------------------------------------------------------------------
Terrain == <<bed, kind, flags>>

\* onCreatureMove of the monster itself.
Step(s) ==
    /\ s # <<0, 0>> /\ At(place, s) \in Cells \ {other}
    /\ place' = At(place, s)
    /\ UNCHANGED <<Terrain, burns, serves, other, otherServes>>
    /\ cache' = Shifted(cache, s)

TeleportTo(p) ==
    /\ p \in Cells \ {place, other}
    /\ place' = p
    /\ UNCHANGED <<Terrain, burns, serves, other, otherServes>>
    /\ cache' = UpdateMapCache

\* The other creature comes, goes or moves; the monster is told where from and where to.
OtherMoves(p) ==
    /\ other # p /\ p \in (Walks \ {place}) \union {Absent}
    /\ other' = p
    /\ otherServes' \in CASE p = Absent -> {FALSE}
                         [] p # Absent /\ other = Absent -> BOOLEAN
                         [] p # Absent /\ other # Absent -> {otherServes}
    /\ UNCHANGED <<Terrain, place, burns, serves>>
    /\ cache' = UpdateTile(UpdateTile(cache, p), other)

\* onAddCondition, onEndCondition.
Burn ==
    /\ burns' = ~burns
    /\ UNCHANGED <<Terrain, place, serves, other, otherServes>>
    /\ cache' = UpdateMapCache

\* convinceCreature changes no cache.
ConvinceIt ==
    /\ ~serves /\ serves' = TRUE
    /\ UNCHANGED <<Terrain, place, burns, other, otherServes, cache>>
ConvinceOther ==
    /\ other # Absent /\ ~otherServes /\ otherServes' = TRUE
    /\ UNCHANGED <<Terrain, place, burns, other, serves, cache>>

\* The map is loaded and the monster placed on a tile without blocks.
WalkInit ==
    /\ place \in {p \in Cells : \A i \in Objects : p \notin Beds[i]}
    /\ burns = FALSE /\ serves = FALSE /\ other = Absent /\ otherServes = FALSE
    /\ kind = FirstKind
    /\ bed = [i \in Objects |-> CHOOSE p \in Beds[i] : TRUE]
    /\ flags = [p \in Cells |-> UNION {KindFlags[kind[i]] : i \in {i \in Objects : bed[i] = p}}]
    /\ cache = [d \in Window |-> LET p == At(place, d) IN
                    FreeIf(p, place, other, FlagsOf(flags, p), burns, serves, otherServes)]

WalkNext ==
    \/ \E s \in {-1, 0, 1} \X {-1, 0, 1} : Step(s)
    \/ \E p \in Cells : TeleportTo(p)
    \/ \E p \in Cells \union {Absent} : OtherMoves(p)
    \/ \E i \in Objects, p \in Cells : AddThing(i, p)
    \/ \E i \in Objects : RemoveThing(i)
    \/ \E i \in Objects, k \in DOMAIN KindFlags : UpdateThing(i, k)
    \/ Burn \/ ConvinceIt \/ ConvinceOther

WalkSpec == WalkInit /\ [][WalkNext]_walkVars
-----------------------------------------------------------------------------
WalkTypeOK ==
    /\ place \in Cells /\ other \in Cells \union {Absent} /\ {burns, serves, otherServes} \subseteq BOOLEAN
    /\ cache \in [Window -> BOOLEAN]
    /\ bed \in [Objects -> Cells \union {Absent}] /\ kind \in [Objects -> DOMAIN KindFlags]
    /\ flags \in [Cells -> SUBSET (Blocking \union Lone)]

\* A tile says of itself what its items say together; only what makes creatures change
\* floor may have been reset with another item that does.
FlagsTrue ==
    \A p \in Cells :
        LET said == UNION {KindFlags[kind[i]] : i \in {i \in Objects : bed[i] = p}}
        IN  flags[p] \subseteq said /\ said \ Lone \subseteq flags[p]

\* The kinds an item may be of: its first, and what these turn to.
Forms ==
    [i \in Objects |-> {k \in DOMAIN KindFlags : \A S \in SUBSET DOMAIN KindFlags :
        (FirstKind[i] \in S /\ \A t \in Turns : t[1] \in S /\ t[2] \in DOMAIN KindFlags => t[2] \in S)
            => k \in S}]

\* What items that may lie on the tile p make of it that is nobody's concern.
Ways(p) ==
    {"floorChange", "positionChange"} \intersect
        UNION {KindFlags[k] : k \in UNION {Forms[i] : i \in {i \in Objects : p \in Beds[i]}}}

\* Whom each of the two has served.
Sides == {s \in BOOLEAN \X BOOLEAN : (s[1] => serves) /\ (s[2] => otherServes)}

\* The cache says of every tile what the tile says (creature.cpp:608, "Wrong cache value",
\* is printed by debug builds when it does not), but for changes nobody is told of: a way
\* to another floor that opened or went, and a creature that changed sides.
CacheTrue ==
    \A d \in Window \ {<<0, 0>>} :
        LET p == At(place, d) IN
        \E w \in SUBSET Ways(p), s \in IF p = other THEN Sides ELSE {<<serves, otherServes>>} :
            cache[d] = FreeIf(p, place, other, (FlagsOf(flags, p) \ Ways(p)) \union w, burns, s[1], s[2])

WalkHolds == WalkTypeOK /\ FlagsTrue /\ CacheTrue
=============================================================================
