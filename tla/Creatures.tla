------------------------------ MODULE Creatures ------------------------------
(***************************************************************************)
(* The life of a Creature object: a spawn (font/spawn.cpp), a summoning or *)
(* a login makes it, Game::checkCreatures lets it think, death, despawning *)
(* and other removals take it out of the game, and its memory goes when    *)
(* the last use counted for it is released.  Players appear here as        *)
(* masters of summons and as creatures that are removed; their sessions    *)
(* are in Session.                                                         *)
(*                                                                         *)
(* Every step is one task of the dispatcher thread, except a pass of       *)
(* checkCreatures, which is one step per creature with nothing in between: *)
(* what a creature does while it thinks changes the vector the loop is     *)
(* going over.                                                             *)
(***************************************************************************)
EXTENDS Naturals, Sequences, FiniteSets, FiniteSetsExt, SequencesExt

CONSTANTS
    Creatures,      \* memory for creatures, an interval of numbers
    Blocks,         \* spawnMap.size() of the one spawn
    Vectors,        \* EVENT_CREATURECOUNT
    RateSpawn,      \* RATE_SPAWN
    NoMaster        \* NULL

ASSUME CreaturesAssumption ==
    /\ Creatures \subseteq Nat /\ IsFiniteSet(Creatures) /\ Blocks \in Nat
    /\ Vectors \in Nat \ {0} /\ RateSpawn \in Nat \ {0} /\ NoMaster \notin Creatures

Slots == 1 .. Blocks    \* addMonster counts spawnId up

VARIABLES
    state,          \* free (no object), placed or removed (isRemoved)
    kind,           \* monster or player
    uses,           \* Thing::useCount
    healthy,        \* health > 0
    vectorOf,       \* checkCreatureVectorIndex, 0 when in none
    hasSpawn,       \* Monster::spawn is set
    master, summons,
    vectors,        \* checkCreatureVectors
    lastIndex,      \* checkCreatureLastIndex
    position,       \* the loop of checkCreatures; 0 when it does not run
    toRelease,      \* ToReleaseThings: a creature is freed once, on removal
    deaths,         \* scheduled doDeathDelay, by the address they carry: a creature
                    \* in the game is here exactly when isDying
    spawned,        \* spawnedMap: <<spawnId, monster>>, 0 for who walked off
    checkEvent,     \* checkSpawnEvent is set
    unwatched       \* history: an entry of spawnedMap was lost without anybody starting
                    \* a check (startup could not place it, or it was convinced)

creatureVars == <<state, kind, uses, healthy, vectorOf, hasSpawn, master, summons,
                  vectors, lastIndex, position, toRelease, deaths, spawned,
                  checkEvent, unwatched>>

CreatureTypeOK ==
    /\ state \in [Creatures -> {"free", "placed", "removed"}]
    /\ kind \in [Creatures -> {"monster", "player"}]
    /\ uses \in [Creatures -> 0 .. 3]
    /\ healthy \in [Creatures -> BOOLEAN]
    /\ vectorOf \in [Creatures -> 0 .. Vectors]
    /\ hasSpawn \in [Creatures -> BOOLEAN]
    /\ master \in [Creatures -> Creatures \cup {NoMaster}]
    /\ summons \in [Creatures -> SUBSET Creatures]
    /\ vectors \in [1 .. Vectors -> Seq(Creatures)] /\ lastIndex \in 1 .. Vectors
    /\ position \in Nat
    /\ toRelease \subseteq Creatures /\ deaths \subseteq Creatures
    /\ spawned \subseteq (Slots \cup {0}) \X Creatures
    /\ checkEvent \in BOOLEAN /\ unwatched \in BOOLEAN

-----------------------------------------------------------------------------
(* The world as one record, so that a call can follow another.             *)

World == [state |-> state, kind |-> kind, uses |-> uses, healthy |-> healthy,
          vectorOf |-> vectorOf, hasSpawn |-> hasSpawn,
          master |-> master, summons |-> summons, vectors |-> vectors,
          toRelease |-> toRelease, spawned |-> spawned,
          checkEvent |-> checkEvent]

SetWorld(w) ==
    /\ state' = w.state /\ kind' = w.kind /\ uses' = w.uses /\ healthy' = w.healthy
    /\ vectorOf' = w.vectorOf /\ hasSpawn' = w.hasSpawn
    /\ master' = w.master /\ summons' = w.summons /\ vectors' = w.vectors
    /\ toRelease' = w.toRelease /\ spawned' = w.spawned
    /\ checkEvent' = w.checkEvent

Of(S, new, old) == [c \in Creatures |-> IF c \in S THEN new ELSE old[c]]

NextVector == (lastIndex % Vectors) + 1

\* addCreatureCheck.
AddCheck(w, c) ==
    IF w.vectorOf[c] # 0 THEN w
    ELSE [w EXCEPT !.vectors[NextVector] = Append(@, c), !.vectorOf[c] = NextVector]

\* The last one takes the place of the one that goes (swap and pop).
SwapPop(s, c) ==
    LET i == CHOOSE j \in 1 .. Len(s) : s[j] = c
    IN [j \in 1 .. Len(s) - 1 |-> IF j = i THEN s[Len(s)] ELSE s[j]]

\* removeCreatureCheck.
RemoveCheck(w, c) ==
    IF w.vectorOf[c] = 0 THEN w
    ELSE [w EXCEPT !.vectors[w.vectorOf[c]] = SwapPop(@, c), !.vectorOf[c] = 0]

\* releaseThing2 for a set of creatures.
DropOne(w, S) == [w EXCEPT !.uses = [c \in Creatures |-> IF c \in S THEN @[c] - 1 ELSE @[c]]]

\* With the last use the object goes, and its destructor lets its summons go.
\* (Fields of removed and deleted creatures that nothing reads any more are given
\* one value.)
Destroy(w) ==
    LET gone == {c \in Creatures : w.state[c] # "free" /\ w.uses[c] = 0}
        orphans == UNION {w.summons[c] : c \in gone}
    IN DropOne([w EXCEPT !.state = Of(gone, "free", @),
                         !.master = Of(orphans \cup gone, NoMaster, @),
                         !.summons = Of(gone, {}, @)], orphans)

\* Who loses the last use by that goes too, and so on.
Release(w, S) ==
    LET f[n \in 0 .. Cardinality(Creatures)] ==
            IF n = 0 THEN DropOne(w, S) ELSE LET v == f[n - 1] IN Destroy(v)
    IN f[Cardinality(Creatures)]

\* removeSummon.
RemoveSummon(w, m, c) ==
    IF m = NoMaster \/ c \notin w.summons[m] THEN w
    ELSE Release([w EXCEPT !.summons[m] = @ \ {c}, !.master[c] = NoMaster], {c})

\* Monster::die and convinceCreature: the summons are left to die.
LoseSummons(w, m) ==
    LET lost == w.summons[m]
    IN Release([w EXCEPT !.healthy = Of(lost, FALSE, @), !.master = Of(lost, NoMaster, @),
                         !.summons[m] = {}], lost)

\* c, its summons, theirs: removeCreature removes them all.
Retinue(w, c) ==
    LET f[n \in 0 .. Cardinality(Creatures)] ==
            IF n = 0 THEN {c}
            ELSE LET r == f[n - 1] IN r \cup UNION {w.summons[d] : d \in r}
    IN f[Cardinality(Creatures)]

\* mutant: the creature stays in its vector of checkCreatures.
RemoveUnchecked(w, c) ==
    LET S == {d \in Retinue(w, c) : w.state[d] = "placed"}
        freed == [w EXCEPT !.state = Of(S, "removed", @), !.toRelease = @ \cup S]
    IN RemoveSummon(freed, w.master[c], c)

\* Game::removeCreature of a placed creature, and what its onCreatureDisappear
\* does: the master lets it go (those of its summons that go with it find their
\* master removed already, and stay in its list), the spawn is checked.
RemoveCreature(w, c) ==
    LET S == {d \in Retinue(w, c) : w.state[d] = "placed"}
        unchecked == FoldSet(LAMBDA d, v : RemoveCheck(v, d), w, S)
        freed == [unchecked EXCEPT
                    !.state = Of(S, "removed", @), !.toRelease = @ \cup S,
                    !.kind = Of(S, "monster", @), !.healthy = Of(S, TRUE, @),
                    !.hasSpawn = Of(S, FALSE, @),
                    !.checkEvent = @ \/ \E d \in S : w.hasSpawn[d]]
    IN RemoveSummon(freed, w.master[c], c)

\* cleanup: what FreeThing kept for the end of the task.
CleanedUp(w) == Release([w EXCEPT !.toRelease = {}], w.toRelease)

\* Memory that may be used for a new creature.
FreeIn(w) == {c \in Creatures : w.state[c] = "free" /\ c \notin deaths}
Free == FreeIn(World)

\* A new creature c is placed with n uses: placeCreature counts one.
Place(w, c, k, n) ==
    [w EXCEPT !.state[c] = "placed", !.kind[c] = k, !.uses[c] = n, !.healthy[c] = TRUE,
              !.vectorOf[c] = 0, !.hasSpawn[c] = FALSE,
              !.master[c] = NoMaster, !.summons[c] = {}]

\* Spawn::spawnMonster, which counts another use for spawnedMap.
SpawnMonster(w, slot, c) ==
    [Place(w, c, "monster", 2) EXCEPT !.hasSpawn[c] = TRUE,
                                      !.spawned = @ \cup {<<slot, c>>}]

\* Creature::addSummon.
AddSummon(w, m, c) ==
    [w EXCEPT !.summons[m] = @ \cup {c}, !.master[c] = m, !.uses[c] = @ + 1]

Filled(w) == {e[1] : e \in w.spawned}

-----------------------------------------------------------------------------
\* Spawn::startup, the first thing done: each block's monster is placed or is
\* not.  startup adds no creature to the vectors.
CreaturesInit ==
    \E placed \in SUBSET Slots :
        LET home == [c \in Creatures |-> c \in placed]
        IN /\ placed \subseteq Creatures
           /\ state = [c \in Creatures |-> IF home[c] THEN "placed" ELSE "free"]
           /\ kind = [c \in Creatures |-> "monster"]
           /\ uses = [c \in Creatures |-> IF home[c] THEN 2 ELSE 0]
           /\ healthy = [c \in Creatures |-> TRUE]
           /\ vectorOf = [c \in Creatures |-> 0]
           /\ hasSpawn = home
           /\ master = [c \in Creatures |-> NoMaster]
           /\ summons = [c \in Creatures |-> {}]
           /\ vectors = [i \in 1 .. Vectors |-> <<>>] /\ lastIndex = 1 /\ position = 0
           /\ toRelease = {} /\ deaths = {}
           /\ spawned = {<<s, s>> : s \in placed}
           /\ checkEvent = FALSE
           /\ unwatched = (placed # Slots)

Idle == position = 0    \* no pass of checkCreatures runs

\* checkSpawn, first half: removed monsters are let go, monsters outside the
\* zone (strays) become entries of no block.
Swept(w, strays) ==
    LET gone == {e \in w.spawned : w.state[e[2]] = "removed"}
        kept == w.spawned \ gone
    IN Release([w EXCEPT !.spawned = {IF e[2] \in strays THEN <<0, e[2]>> ELSE e : e \in kept}],
               {e[2] : e \in gone})

\* Second half: the empty blocks that are ready (the interval since lastSpawn has
\* passed, and no player is near), in order, until RATE_SPAWN attempts.  Placing
\* may fail.
TryBlock(r, s, ready, failed) ==
    IF s \in Filled(r.w) \/ s \notin ready \/ r.tries = RateSpawn THEN r
    ELSE IF s \in failed THEN [r EXCEPT !.tries = @ + 1]
    ELSE LET c == Min(FreeIn(r.w))
         IN [w |-> AddCheck(SpawnMonster(r.w, s, c), c), tries |-> r.tries + 1]

Respawned(w, ready, failed) ==
    LET f[s \in 0 .. Blocks] ==
            IF s = 0 THEN [w |-> w, tries |-> 0]
            ELSE LET r == f[s - 1] IN TryBlock(r, s, ready, failed)
    IN f[Blocks].w

\* spawnedMap.size() < spawnMap.size(): the check is to come again.
Missing(w) == Cardinality(w.spawned) < Blocks

\* Spawn::checkSpawn, which schedules itself while monsters are missing.
CheckSpawn(strays, ready, failed) ==
    /\ Idle /\ checkEvent
    /\ strays \subseteq {c \in Creatures : state[c] = "placed" /\ hasSpawn[c]}
    /\ LET swept == Swept([World EXCEPT !.checkEvent = FALSE], strays)
           vacated == {e[1] : e \in {x \in spawned : state[x[2]] = "removed"}}
           after == Respawned(swept, ready \ vacated, failed)
       IN /\ Cardinality(FreeIn(swept)) >= RateSpawn    \* bound: memory for the new ones
          /\ SetWorld([after EXCEPT !.checkEvent = Missing(after)])
    /\ unwatched' = FALSE
    /\ UNCHANGED <<lastIndex, position, deaths>>

\* A player logs in (ProtocolGame::login): placed, with the protocol's use.
PlayerEnters ==
    /\ Idle /\ Free # {}
    /\ SetWorld(LET c == Min(Free) IN AddCheck(Place(World, c, "player", 1), c))
    /\ UNCHANGED <<lastIndex, position, deaths, unwatched>>

\* A creature is removed by a task: logout, a kick, doRemoveCreature of a
\* script, or a summon too far from its master (Creature::onCreatureMove).
Removed(c) ==
    /\ Idle /\ state[c] = "placed"
    /\ SetWorld(RemoveCreature(World, c))
    /\ UNCHANGED <<lastIndex, position, deaths, unwatched>>

\* Combat takes the last health.
Killed(c) ==
    /\ Idle /\ state[c] = "placed" /\ healthy[c]
    /\ healthy' = [healthy EXCEPT ![c] = FALSE]
    /\ UNCHANGED <<state, kind, uses, vectorOf, hasSpawn, master, summons, vectors,
                   lastIndex, position, toRelease, deaths, spawned, checkEvent, unwatched>>

\* Monster::activate: a target came into sight, or a condition was added.
Wakes(c) ==
    /\ Idle /\ state[c] = "placed" /\ kind[c] = "monster" /\ vectorOf[c] = 0
    /\ SetWorld(AddCheck(World, c))
    /\ UNCHANGED <<lastIndex, position, deaths, unwatched>>

\* The spells that summon a monster: a summon is placed or is deleted at once.
Summons(m) ==
    /\ Idle /\ state[m] = "placed" /\ healthy[m] /\ Free # {}
    /\ kind[m] = "player"
    /\ SetWorld(LET c == Min(Free)
                IN AddCheck(AddSummon(Place(World, c, "monster", 1), m, c), c))
    /\ UNCHANGED <<lastIndex, position, deaths, unwatched>>

\* Monster::convinceCreature, by a player: not a player's summon.  The monster
\* leaves its spawn (Spawn::removeMonster), which nobody starts checking.
Convinced(c, p) ==
    /\ Idle /\ state[c] = "placed" /\ kind[c] = "monster"
    /\ state[p] = "placed" /\ kind[p] = "player"
    /\ master[c] # NoMaster => kind[master[c]] = "monster"
    /\ LET mine == AddSummon(RemoveSummon(World, master[c], c), p, c)
           alone == AddCheck(LoseSummons(mine, c), c)
           left == {e \in alone.spawned : e[2] = c}
       IN /\ SetWorld(IF hasSpawn[c]
                      THEN Release([alone EXCEPT !.spawned = @ \ left, !.hasSpawn[c] = FALSE], {c})
                      ELSE alone)
          /\ unwatched' = (unwatched \/ left # {})
    /\ UNCHANGED <<lastIndex, position, deaths>>

\* doDeathDelay, 100 to 200 ms after the pass that saw the creature without
\* health.  The event counts no use: when the object is gone by then, the test of
\* isRemoved reads freed memory, and what follows is undefined; the model lets
\* the test succeed.
DeathDelay(c) ==
    /\ Idle /\ c \in deaths
    /\ deaths' = deaths \ {c}
    /\ \E w \in {IF state[c] # "placed" THEN World
                ELSE RemoveCreature(IF kind[c] = "monster"
                                    THEN RemoveCheck(LoseSummons(World, c), c)
                                    ELSE World, c)} : SetWorld(w)
    /\ UNCHANGED <<lastIndex, position, unwatched>>

\* cleanup at the end of other tasks (checkDecay, checkCreatureWalk).
Cleanup ==
    /\ Idle /\ toRelease # {}
    /\ SetWorld(CleanedUp(World))
    /\ UNCHANGED <<lastIndex, position, deaths, unwatched>>

-----------------------------------------------------------------------------
(* checkCreatures.                                                         *)

\* mutant: checkCreatureLastIndex is not advanced.
BeginPassAgain ==
    /\ Idle
    /\ lastIndex' = lastIndex /\ position' = 1
    /\ UNCHANGED <<state, kind, uses, healthy, vectorOf, hasSpawn, master, summons,
                   vectors, toRelease, deaths, spawned, checkEvent, unwatched>>

BeginPass ==
    /\ Idle
    /\ lastIndex' = NextVector /\ position' = 1
    /\ UNCHANGED <<state, kind, uses, healthy, vectorOf, hasSpawn, master, summons,
                   vectors, toRelease, deaths, spawned, checkEvent, unwatched>>

Current == vectors[lastIndex][position]

InPass == position # 0 /\ position <= Len(vectors[lastIndex])

\* onThink and what follows it: nothing that matters here, the creature despawns
\* or is kicked, the monster has nothing to do (deactivate), it summons, or its
\* attack kills another.
Thinks(w, c) ==
    {w, RemoveCreature(w, c)}
      \cup (IF kind[c] # "monster" THEN {}
            ELSE {RemoveCheck(w, c)}
                   \cup (IF Free = {} \/ master[c] # NoMaster THEN {}
                         ELSE {LET d == Min(Free)
                               IN AddCheck(AddSummon(Place(w, d, "monster", 1), c, d), d)}))
      \cup {[w EXCEPT !.healthy[d] = FALSE] : d \in {e \in Creatures \ {c} : state[e] = "placed"}}

Think ==
    /\ InPass /\ healthy[Current]
    /\ \E w \in Thinks(World, Current) : SetWorld(w)
    /\ position' = position + 1
    /\ UNCHANGED <<lastIndex, deaths, unwatched>>

StartsDying ==
    /\ InPass /\ ~healthy[Current]
    /\ deaths' = deaths \cup {Current}
    /\ position' = position + 1
    /\ UNCHANGED <<state, kind, uses, healthy, vectorOf, hasSpawn, master, summons,
                   vectors, lastIndex, toRelease, spawned, checkEvent, unwatched>>

EndPass ==
    /\ position > Len(vectors[lastIndex])
    /\ position' = 0
    /\ \E w \in {CleanedUp(World)} : SetWorld(w)
    /\ UNCHANGED <<lastIndex, deaths, unwatched>>

CheckCreatures == BeginPass \/ Think \/ StartsDying \/ EndPass

CreaturesNext ==
    \/ \E strays \in SUBSET Creatures, ready \in SUBSET Slots : \E failed \in SUBSET ready :
          CheckSpawn(strays, ready, failed)
    \/ PlayerEnters \/ Cleanup \/ CheckCreatures
    \/ \E c \in Creatures :
          \/ Removed(c) \/ Killed(c) \/ Wakes(c) \/ Summons(c) \/ DeathDelay(c)
          \/ \E p \in Creatures : Convinced(c, p)

\* checkCreatures schedules itself, and a scheduled doDeathDelay runs.  This is
\* WF of CheckCreatures, one step of which is always enabled, and SF of each
\* DeathDelay(c), enabled between two passes, with the guards in place of ENABLED.
CreaturesFairness ==
    /\ []<><<CheckCreatures>>_creatureVars
    /\ \A c \in Creatures :
          []<>(Idle /\ c \in deaths) => []<><<DeathDelay(c)>>_creatureVars

CreaturesSpec == CreaturesInit /\ [][CreaturesNext]_creatureVars

-----------------------------------------------------------------------------
\* The uses of a creature are those of the game, of the spawn and of its master;
\* no more, or it is never deleted, and no fewer, or one of them follows a
\* pointer to freed memory.
UsesAreOwners ==
    \A c \in Creatures : state[c] # "free" =>
        uses[c] = Cardinality({e \in spawned : e[2] = c})
                    + (IF master[c] # NoMaster THEN 1 ELSE 0)
                    + (IF state[c] = "placed" \/ c \in toRelease THEN 1 ELSE 0)

\* Nothing kept between two tasks, the death events apart, points to a creature
\* that is no more.
CreaturePointersLive ==
    LET live == {c \in Creatures : state[c] # "free"}
    IN /\ {e[2] : e \in spawned} \cup toRelease \subseteq live
       /\ \A c \in live : summons[c] \subseteq live /\ master[c] \in live \cup {NoMaster}
       /\ \A c \in live : \A d \in summons[c] : master[d] = c

\* A creature is in the vector its index says, once, and in no other; no removed
\* creature is in one, though vectors change under the loop that reads them.
ChecksRight ==
    /\ \A i \in 1 .. Vectors :
          /\ IsInjective(vectors[i])
          /\ \A c \in ToSet(vectors[i]) : state[c] = "placed" /\ vectorOf[c] = i
    /\ \A c \in Creatures : state[c] = "placed" /\ vectorOf[c] # 0 =>
            c \in ToSet(vectors[vectorOf[c]])

\* A spawn that has fewer monsters than blocks, counting one that is gone as
\* gone, is going to be checked, unless the place was lost in a way that tells
\* nobody: a monster convinced by a player, or one that startup could not place.
SpawnWatched ==
    LET here == {e \in spawned : state[e[2]] = "placed"}
    IN Cardinality(here) < Blocks => checkEvent \/ unwatched

\* What the vectors, the spawns and the owners of uses say of a creature agrees with what
\* it is.
CreatureLinks ==
    /\ CreatureTypeOK /\ UsesAreOwners /\ CreaturePointersLive /\ ChecksRight /\ SpawnWatched

\* A creature without health that is being checked leaves the game, though the
\* loop skips the one that takes the place of a creature removed under it.
DeadLeave ==
    \A c \in Creatures :
        (state[c] = "placed" /\ ~healthy[c] /\ vectorOf[c] # 0) ~> (state[c] # "placed")
=============================================================================
