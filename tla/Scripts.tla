------------------------------ MODULE Scripts ------------------------------
(***************************************************************************)
(* The environments Lua scripts run in (ScriptEnviroment, luascript.cpp).  *)
(* A script calls functions that raise events, whose scripts run inside    *)
(* it: the environments are a stack.  A script knows items by number, an   *)
(* item it has created and not placed yet belongs to its environment and   *)
(* has the virtual cylinder for a parent, and when the script ends the     *)
(* environment is reset.  Items with a unique id are known to all scripts. *)
(* A script can book a call of one of its functions for later.             *)
(*                                                                         *)
(* One Lua interface.  A number given to an item by counting stands for    *)
(* that item (m_lastUID wraps after sixteen million).  Whether an item     *)
(* fits, merges with another or divides is any of what internalAddItem     *)
(* may do; items that wait in ToReleaseThings are deleted between tasks.   *)
(***************************************************************************)
EXTENDS Integers, FiniteSets, Sequences

CONSTANTS
    Items, NoItem,
    Uids,           \* unique ids
    Depth,          \* of the stack: 15 in the code
    LastTimer,      \* bound: events booked
    Releases        \* bound: how often an item merges again that is to be deleted

ASSUME ScriptsAssumption ==
    /\ Items \intersect Uids = {} /\ NoItem \notin Items /\ 0 \notin Uids
    /\ Depth \in Nat \ {0} /\ {LastTimer, Releases} \subseteq Nat

VARIABLES
    stack,      \* m_scriptEnv up to m_scriptEnvIndex; timer is the timer event that runs
    globalMap,  \* unique id -> item
    place,      \* of each item: "unborn", "virtual", "world", or "gone": no parent
    uid,        \* its unique id, or 0
    pending,    \* how often it is in ToReleaseThings
    timers,     \* m_timerEvents
    booked,     \* events of the scheduler, or on their way to run
    lastTimer,  \* m_lastEventTimerId
    age,        \* how often the interface was reloaded
    \* what happened to some items, for the properties only:
    spoiled,    \* released by the end of another script than the one that has it
    doubled,    \* released when it merged, and still known to its script
    lost,       \* left without owner
    clashed,    \* unique ids two items have had at a time
    halved,     \* unique ids of stacks a script has removed a part of by the id
    cut         \* timers stopped while they ran

scriptVars == <<stack, globalMap, place, uid, pending, timers, booked, lastTimer, age,
                spoiled, doubled, lost, clashed, halved, cut>>
timerVars == <<timers, booked, lastTimer, age, cut>>
itemVars == <<globalMap, place, uid, pending, spoiled, doubled, lost, clashed, halved>>
-----------------------------------------------------------------------------
Names == Items \union Uids
NewEnv(t) == [names |-> [n \in Names |-> NoItem], temp |-> {}, timer |-> t]
Top == stack[Len(stack)]

Removed(i) == place[i] \in {"unborn", "gone"}

\* getThingByUID: what a number means in the script that runs.
Known(n) ==
    {i \in Items : i = Top.names[n] /\ ~Removed(i)} \union
    {i \in Items : /\ n \in Uids /\ i = globalMap[n] /\ ~Removed(i)
                   /\ Top.names[n] = NoItem \/ Removed(Top.names[n])}

\* addThing; u is the unique id of an item that lies on a tile.
Named(i, u) ==
    IF i \in {Top.names[n] : n \in Names} THEN Top.names
    ELSE [Top.names EXCEPT ![IF u # 0 THEN u ELSE i] = i]

SetNames(f) == stack' = [stack EXCEPT ![Len(stack)].names = f]
Erased(m, n) == [k \in DOMAIN m |-> IF k = n THEN NoItem ELSE m[k]]

Released(S) == [i \in Items |-> pending[i] + IF i \in S THEN 1 ELSE 0]

\* reserveScriptEnv, for an event that runs inside a script or in a task of its own.
ReserveEnv ==
    /\ Len(stack) < Depth
    /\ stack' = Append(stack, NewEnv(0))
    /\ UNCHANGED <<itemVars, timerVars>>

\* As ResetEnv, for items that have been placed too.
ResetEnvPlaced ==
    LET temp == UNION {stack[k].temp : k \in DOMAIN stack}
    IN  /\ pending' = Released(temp)
        /\ spoiled' = spoiled \union (temp \ Top.temp)

\* m_tempItems is shared by all environments.
ResetEnv ==
    LET temp == {i \in UNION {stack[k].temp : k \in DOMAIN stack} : place[i] = "virtual"}
    IN  /\ pending' = Released(temp)
        /\ spoiled' = spoiled \union (temp \ Top.temp)

\* releaseScriptEnv; executeTimerEvent then forgets the timer.
ReleaseEnv ==
    /\ stack # <<>>
    /\ ResetEnv
    /\ stack' = [k \in 1..(Len(stack) - 1) |-> [stack[k] EXCEPT !.temp = {}]]
    /\ timers' = {t \in timers : t.id # Top.timer}
    /\ cut' = cut \ {Top.timer}
    /\ UNCHANGED <<globalMap, place, uid, doubled, lost, clashed, halved, booked,
                   lastTimer, age>>

\* A script comes across an item of the world (getThingfromPos, an event about it), on a
\* tile or inside a container.
Look(i, tile) ==
    /\ stack # <<>> /\ place[i] = "world"
    /\ SetNames(Named(i, IF tile THEN uid[i] ELSE 0)) /\ UNCHANGED <<itemVars, timerVars>>
-----------------------------------------------------------------------------
\* doCreateItemEx.
CreateItemEx(i) ==
    /\ stack # <<>> /\ place[i] = "unborn"
    /\ place' = [place EXCEPT ![i] = "virtual"]
    /\ stack' = [stack EXCEPT ![Len(stack)].temp = @ \union {i},
                              ![Len(stack)].names = Named(i, 0)]
    /\ UNCHANGED <<globalMap, uid, pending, spoiled, doubled, lost, clashed, halved, timerVars>>

\* doCreateItem, doPlayerAddItem, doAddContainerItem: i is placed whole and gets a number,
\* merges with what lies there, or is placed and has none: it is what was left of another
\* item that merged in part, and that nobody has.
CreateItem(i, whole) ==
    /\ stack # <<>> /\ place[i] = "unborn"
    /\ place' = [place EXCEPT ![i] = "world"]
    /\ SetNames(IF whole THEN Named(i, 0) ELSE Top.names)
    /\ UNCHANGED <<globalMap, uid, pending, spoiled, doubled, lost, clashed, halved, timerVars>>
CreateMerged(i) ==
    /\ stack # <<>> /\ place[i] = "unborn"
    /\ place' = [place EXCEPT ![i] = "gone"] /\ pending' = Released({i})
    /\ UNCHANGED <<stack, globalMap, uid, spoiled, doubled, lost, clashed, halved, timerVars>>

\* doPlayerAddItemEx, doTileAddItemEx, and doAddContainerItemEx, which alone takes the
\* item from the environment.
AddItemEx(n, container) ==
    /\ stack # <<>> /\ \E i \in Known(n) :
        /\ place[i] = "virtual"
        /\ place' = [place EXCEPT ![i] = "world"] /\ lost' = lost \ {i}
        /\ stack' = IF container
                    THEN [k \in DOMAIN stack |-> [stack[k] EXCEPT !.temp = @ \ {i}]] ELSE stack
    /\ UNCHANGED <<globalMap, uid, pending, spoiled, doubled, clashed, halved, timerVars>>
AddMerged(n, container) ==
    /\ stack # <<>> /\ \E i \in Known(n) :
        /\ place[i] = "virtual" /\ pending[i] < Releases
        /\ pending' = Released({i}) /\ doubled' = doubled \union {i} /\ lost' = lost \ {i}
        /\ stack' = IF container
                    THEN [k \in DOMAIN stack |-> [stack[k] EXCEPT !.temp = @ \ {i}]] ELSE stack
    /\ UNCHANGED <<globalMap, place, uid, spoiled, clashed, halved, timerVars>>
AddDivided(n, j, container) ==
    /\ stack # <<>> /\ \E i \in Known(n) :
        /\ place[i] = "virtual" /\ place[j] = "unborn"
        /\ place' = [place EXCEPT ![j] = "world"]
        /\ IF container
           THEN /\ stack' = [k \in DOMAIN stack |-> [stack[k] EXCEPT !.temp = @ \ {i}]]
                /\ lost' = lost \union {i}
           ELSE UNCHANGED <<stack, lost>>
    /\ UNCHANGED <<globalMap, uid, pending, spoiled, doubled, clashed, halved, timerVars>>

\* doRemoveItem, all of it or a part; an item not placed yet cannot be removed.  Its number
\* is forgotten, a unique id by all scripts, even if a part of it stays.
RemoveItem(n, part) ==
    /\ stack # <<>> /\ \E i \in Known(n) :
        /\ place[i] = "world"
        /\ place' = IF part THEN place ELSE [place EXCEPT ![i] = "gone"]
        /\ pending' = IF part THEN pending ELSE Released({i})
        /\ halved' = IF part /\ n = uid[i] THEN halved \union ({n} \ {0}) ELSE halved
    /\ SetNames(Erased(Top.names, n)) /\ globalMap' = Erased(globalMap, n)
    /\ UNCHANGED <<uid, spoiled, doubled, lost, clashed, timerVars>>

\* doTransformItem, doTransformItemAndKeepDuration and doChangeTypeItem, when the item is
\* not changed in place: j takes its place and number, or nothing does.  Across
\* alwaysOnTop (crossed) j is given the attributes of the old item.
TransformItem(n, j, crossed) ==
    /\ stack # <<>> /\ \E i \in Known(n) :
        /\ place[i] = "world" /\ j \in {NoItem} \union {k \in Items : place[k] = "unborn"}
        /\ (crossed => j # NoItem)
        /\ place' = [k \in Items |-> CASE k = i -> "gone" [] k = j -> place[i]
                                       [] k \notin {i, j} -> place[k]]
        /\ uid' = IF crossed THEN [uid EXCEPT ![j] = uid[i]] ELSE uid
        /\ clashed' = IF crossed THEN clashed \union ({uid[i]} \ {0}) ELSE clashed
        /\ pending' = Released({i})
    /\ SetNames([Top.names EXCEPT ![n] = j]) /\ globalMap' = Erased(globalMap, n)
    /\ UNCHANGED <<spoiled, doubled, lost, halved, timerVars>>

\* Game code the script has called takes an item out of the world.
Consume(i) ==
    /\ place[i] = "world"
    /\ place' = [place EXCEPT ![i] = "gone"] /\ pending' = Released({i})
    /\ UNCHANGED <<stack, globalMap, uid, spoiled, doubled, lost, clashed, halved, timerVars>>

\* An item with a unique id is loaded: setUniqueId, addUniqueThing.
LoadUnique(i, u) ==
    /\ place[i] = "unborn"
    /\ place' = [place EXCEPT ![i] = "world"] /\ uid' = [uid EXCEPT ![i] = u]
    /\ globalMap' = IF globalMap[u] = NoItem THEN [globalMap EXCEPT ![u] = i] ELSE globalMap
    /\ clashed' = IF u \in {uid[k] : k \in Items} THEN clashed \union {u} ELSE clashed
    /\ UNCHANGED <<stack, pending, spoiled, doubled, lost, halved, timerVars>>

\* Game::cleanup, between tasks; ~Item takes its unique id, whoever is known by it.  What
\* was lost is forgotten.
Cleanup ==
    /\ stack = <<>>
    /\ LET freed == {i \in Items : pending[i] > 0}
           dead == freed \union lost
           left == {uid[i] : i \in Items \ dead}
       IN  /\ dead # {}
           /\ place' = [i \in Items |-> IF i \in dead THEN "unborn" ELSE place[i]]
           /\ globalMap' = [u \in Uids |-> IF u \in {uid[i] : i \in freed} THEN NoItem ELSE globalMap[u]]
           /\ uid' = [i \in Items |-> IF i \in dead THEN 0 ELSE uid[i]]
           /\ pending' = [i \in Items |-> 0]
           /\ spoiled' = spoiled \ dead /\ doubled' = doubled \ dead /\ lost' = {}
           /\ clashed' = clashed \intersect left /\ halved' = halved \intersect left
    /\ UNCHANGED <<stack, timerVars>>
-----------------------------------------------------------------------------
\* addEvent.
AddEvent ==
    /\ stack # <<>> /\ lastTimer < LastTimer
    /\ lastTimer' = lastTimer + 1
    /\ timers' = timers \union {[id |-> lastTimer', age |-> age]}
    /\ booked' = booked \union {[id |-> lastTimer', age |-> age]}
    /\ UNCHANGED <<stack, age, cut, itemVars>>

\* stopEvent: an event that is on its way to run cannot be stopped (late).
StopEvent(t, late) ==
    /\ stack # <<>> /\ t \in timers
    /\ timers' = timers \ {t}
    /\ booked' = IF late THEN booked ELSE booked \ {t}
    /\ cut' = cut \union ({t.id} \intersect {stack[k].timer : k \in DOMAIN stack})
    /\ UNCHANGED <<stack, lastTimer, age, itemVars>>

\* executeTimerEvent.
ExecuteTimerEvent(e) ==
    /\ stack = <<>> /\ e \in booked
    /\ booked' = booked \ {e}
    /\ stack' = IF \E t \in timers : t.id = e.id THEN <<NewEnv(e.id)>> ELSE stack
    /\ UNCHANGED <<timers, lastTimer, age, cut, itemVars>>

\* reInitState, in a task of its own or by a command: closeState forgets the timers and
\* stops no event.
Reload ==
    /\ stack = <<>> /\ timers # {} /\ age < LastTimer
    /\ timers' = {} /\ age' = age + 1
    /\ UNCHANGED <<stack, booked, lastTimer, cut, itemVars>>

ScriptsInit ==
    /\ stack = <<>> /\ globalMap = [u \in Uids |-> NoItem]
    /\ place = [i \in Items |-> "unborn"] /\ uid = [i \in Items |-> 0]
    /\ pending = [i \in Items |-> 0]
    /\ timers = {} /\ booked = {} /\ lastTimer = 0 /\ age = 0
    /\ spoiled = {} /\ doubled = {} /\ lost = {} /\ clashed = {} /\ halved = {} /\ cut = {}

ScriptsNext ==
    \/ ReserveEnv \/ ReleaseEnv \/ Cleanup \/ AddEvent \/ Reload
    \/ \E i \in Items, tile \in BOOLEAN : Look(i, tile)
    \/ \E i \in Items : CreateItemEx(i) \/ CreateMerged(i) \/ Consume(i)
    \/ \E i \in Items, whole \in BOOLEAN : CreateItem(i, whole)
    \/ \E n \in Names, container \in BOOLEAN : AddItemEx(n, container) \/ AddMerged(n, container)
    \/ \E n \in Names, j \in Items, container \in BOOLEAN : AddDivided(n, j, container)
    \/ \E n \in Names, part \in BOOLEAN : RemoveItem(n, part)
    \/ \E n \in Names, j \in Items \union {NoItem}, crossed \in BOOLEAN : TransformItem(n, j, crossed)
    \/ \E i \in Items, u \in Uids : LoadUnique(i, u)
    \/ \E t \in timers, late \in BOOLEAN : StopEvent(t, late)
    \/ \E e \in booked : ExecuteTimerEvent(e)

ScriptsSpec == ScriptsInit /\ [][ScriptsNext]_scriptVars
-----------------------------------------------------------------------------
Timer == [id : 1..LastTimer, age : 0..LastTimer]
Env == [names : [Names -> Items \union {NoItem}], temp : SUBSET Items, timer : 0..LastTimer]
ScriptsTypeOK ==
    /\ stack \in Seq(Env)
    /\ Len(stack) <= Depth
    /\ globalMap \in [Uids -> Items \union {NoItem}] /\ uid \in [Items -> Uids \union {0}]
    /\ place \in [Items -> {"unborn", "virtual", "world", "gone"}] /\ pending \in [Items -> Nat]
    /\ {timers, booked} \subseteq SUBSET Timer /\ {lastTimer, age} \subseteq 0..LastTimer

\* Every item without a place is released once and no other is: an item a script has
\* created and not placed is released when the script ends, one it has placed stays.
\* Not so when a script inside it has ended meanwhile, when it merged with another
\* item and was released at once, or when the rest of it became another item.
ItemsOwned ==
    \A i \in Items :
        /\ pending[i] > 0 => place[i] \in {"gone", "virtual"} \/ i \in doubled \union spoiled
        /\ pending[i] <= 1 \/ i \in doubled \union spoiled
        /\ place[i] = "gone" => pending[i] > 0 \/ i \in lost
        /\ place[i] = "virtual" =>
              \/ \E k \in DOMAIN stack : i \in stack[k].temp
              \/ pending[i] > 0 \/ i \in lost

\* An item of the world is found by its unique id, unless two items have had the id at a
\* time or a script has removed a part of the item by it; what is found by an id has it.
UniqueTrue ==
    /\ \A u \in Uids : globalMap[u] # NoItem => uid[globalMap[u]] = u
    /\ \A i \in Items :
          place[i] = "world" /\ uid[i] \notin clashed \union halved \union {0} => globalMap[uid[i]] = i

\* A timer has an event that will run it, or runs; an event runs what it was booked for,
\* whatever was reloaded meanwhile; a timer that runs is not forgotten before its end
\* unless it stops itself.
TimersTrue ==
    /\ \A t \in timers : t \in booked \/ \E k \in DOMAIN stack : stack[k].timer = t.id
    /\ \A t \in timers, e \in booked : t.id = e.id => t = e
    /\ \A k \in DOMAIN stack : stack[k].timer \in {t.id : t \in timers} \union cut \union {0}

ScriptsHold == ScriptsTypeOK /\ ItemsOwned /\ UniqueTrue /\ TimersTrue
=============================================================================
