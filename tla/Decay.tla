------------------------------- MODULE Decay -------------------------------
(***************************************************************************)
(* Items that decay (Game::startDecay, internalDecayItem, checkDecay and   *)
(* cleanup, with Game::transformItem and Item::setID as far as they touch  *)
(* the duration and the decay state).  An item in a decay list has one use *)
(* counted for its place there.  EVENT_DECAY_BUCKETS is 1, so there is one *)
(* list; an item waits in toDecayItems until the end of the task.          *)
(*                                                                         *)
(* Items here lie on the map; what else moves and removes items is one     *)
(* action each.  A time unit is a fraction of EVENT_DECAYINTERVAL.         *)
(***************************************************************************)
EXTENDS Naturals, Sequences, FiniteSets, SequencesExt

CONSTANTS
    Objects,        \* memory for items
    Types,          \* item types
    TypeData,       \* [decayTo, decayTime, stopTime, combat, group] of a type
    Never, Vanish,  \* decayTo -1 and 0
    Interval,       \* EVENT_DECAYINTERVAL
    TextInterval,   \* EVENT_DECAYINTERVALTEXT
    MaxEntries      \* bound: entries of the lists, and text events of an item

ASSUME DecayAssumption ==
    /\ IsFiniteSet(Types) /\ Types # {}
    /\ TypeData \in [Types -> [decayTo : Types \cup {Never, Vanish}, decayTime : Nat,
                               stopTime : BOOLEAN, combat : BOOLEAN, group : Nat]]
    /\ {Never, Vanish} \cap Types = {} /\ Never # Vanish
    /\ Interval \in Nat \ {0} /\ TextInterval \in Nat \ {0} /\ MaxEntries \in Nat

VARIABLES
    item,           \* st (free, held, removed), type, uses, duration, decaying
    decayItems, toDecayItems,
    toFree,         \* items in ToReleaseThings
    texts           \* scheduled updateTextForDecayItem, by address

decayVars == <<item, decayItems, toDecayItems, toFree, texts>>

Durations == UNION {0 .. TypeData[t].decayTime : t \in Types}

ItemState == [st : {"free", "held", "removed"}, type : Types, uses : Nat,
              duration : Durations, decaying : BOOLEAN]

DecayTypeOK ==
    /\ item \in [Objects -> ItemState]
    /\ decayItems \in Seq(Objects) /\ toDecayItems \in Seq(Objects)
    /\ toFree \in Seq(Objects)
    /\ texts \in [Objects -> Nat]

AnyType == CHOOSE t \in Types : TRUE

Nothing == [st |-> "free", type |-> AnyType, uses |-> 0, duration |-> 0, decaying |-> FALSE]

DecayInit ==
    /\ item = [i \in Objects |-> Nothing]
    /\ decayItems = <<>> /\ toDecayItems = <<>> /\ toFree = <<>>
    /\ texts = [i \in Objects |-> 0]

-----------------------------------------------------------------------------
\* The world as one record; room says that the memory of Objects was enough.
Things == [item |-> item, list |-> decayItems, waiting |-> toDecayItems,
           freed |-> toFree, texts |-> texts, room |-> TRUE]

\* Bound: no step is taken that needs more memory.
SetThings(w) ==
    /\ w.room
    /\ item' = w.item /\ decayItems' = w.list /\ toDecayItems' = w.waiting
    /\ toFree' = w.freed /\ texts' = w.texts

\* Item::canDecay (no unique or action id is given to the items here).
CanDecay(x) == x.st = "held" /\ TypeData[x.type].decayTo # Never

FreeItem(w, i) == [w EXCEPT !.freed = Append(@, i)]

\* releaseThing2, n times.
ReleaseItem(x, n) ==
    IF n = 0 THEN x ELSE IF x.uses <= n THEN Nothing ELSE [x EXCEPT !.uses = @ - n]

\* Item::CreateItem: one use, which its place on the map keeps.
NewItem(t) ==
    [st |-> "held", type |-> t, uses |-> 1, duration |-> TypeData[t].decayTime, decaying |-> FALSE]

Unused(w) == {i \in Objects : w.item[i].st = "free" /\ w.texts[i] = 0}

Fresh(w) == CHOOSE i \in Unused(w) : TRUE

\* mutant: the mark of an item that decays outlives the change.
SetIDKeeps(x, t) ==
    IF TypeData[t].decayTime > 0 THEN [x EXCEPT !.type = t, !.duration = TypeData[t].decayTime]
    ELSE [x EXCEPT !.type = t, !.decaying = FALSE, !.duration = 0]

\* Item::setID.
SetID(x, t) ==
    LET old == TypeData[x.type]
        new == TypeData[t]
        hasDuration == x.duration > 0
    IN IF new.decayTime = 0 /\ ~new.stopTime /\ new.decayTo = Never
       THEN [x EXCEPT !.type = t, !.decaying = FALSE, !.duration = 0]
       ELSE IF new.decayTime > 0 /\ (~old.stopTime \/ ~hasDuration)
       THEN [x EXCEPT !.type = t, !.decaying = FALSE, !.duration = new.decayTime]
       ELSE [x EXCEPT !.type = t]

\* internalRemoveItem of the whole item; what has no parent cannot be removed.
RemoveItem(w, i) ==
    IF w.item[i].st # "held" THEN w ELSE FreeItem([w EXCEPT !.item[i].st = "removed"], i)

\* transformItem, and the item it leaves: of the same group the item is changed,
\* else it is replaced by a new one.
TransformItem(w, i, t) ==
    LET x == w.item[i]
    IN IF x.type = t \/ x.st # "held" THEN [w |-> w, i |-> i]
       ELSE IF TypeData[x.type].group = TypeData[t].group
       THEN [w |-> [w EXCEPT !.item[i] = SetID(x, t)], i |-> i]
       ELSE IF Unused(w) = {} THEN [w |-> [w EXCEPT !.room = FALSE], i |-> i]
       ELSE [w |-> RemoveItem([w EXCEPT !.item[Fresh(w)] = NewItem(t)], i), i |-> Fresh(w)]

\* mutant: no use is counted for the place in the list.
ListedUncounted(w, i) ==
    [w EXCEPT !.item[i].decaying = TRUE, !.waiting = Append(@, i),
              !.texts[i] = @ + (IF TypeData[w.item[i].type].combat THEN 1 ELSE 0)]

\* startDecay of an item with time left: it waits in toDecayItems.
Listed(w, i) ==
    [w EXCEPT !.item[i] = [w.item[i] EXCEPT !.uses = @ + 1, !.decaying = TRUE],
              !.waiting = Append(@, i),
              !.texts[i] = @ + (IF TypeData[w.item[i].type].combat THEN 1 ELSE 0)]

\* startDecay, when there is more to do: the item has no time left and decays at once.
Begun(r) ==
    LET x == r.w.item[r.i]
    IN IF ~CanDecay(x) \/ x.decaying THEN [w |-> r.w, i |-> r.i, more |-> FALSE]
       ELSE IF x.duration > 0 THEN [w |-> Listed(r.w, r.i), i |-> r.i, more |-> FALSE]
       ELSE [w |-> r.w, i |-> r.i, more |-> TRUE]

\* internalDecayItem up to the end of its startDecay.  A combat item damages who
\* stands there, and stays.  A decayTo of -1 is transformed too, to the id 65535 of
\* no type, which never decays: here the item keeps its type, which never does.
DecayOnce(r) ==
    LET x == r.w.item[r.i]
        to == TypeData[x.type].decayTo
    IN IF to \in Types THEN Begun(TransformItem(r.w, r.i, to))
       ELSE IF to = Never /\ x.st = "held"
       THEN [w |-> [r.w EXCEPT !.item[r.i] = [r.w.item[r.i] EXCEPT !.decaying = FALSE, !.duration = 0]],
             i |-> r.i, more |-> FALSE]
       ELSE IF to = Never \/ TypeData[x.type].combat THEN [r EXCEPT !.more = FALSE]
       ELSE [w |-> RemoveItem(r.w, r.i), i |-> r.i, more |-> FALSE]

\* internalDecayItem and the calls of itself that startDecay makes; f follows at
\* most all types.
InternalDecayItem(w, i) ==
    LET f[n \in 0 .. Cardinality(Types)] ==
            IF n = 0 THEN [w |-> w, i |-> i, more |-> TRUE]
            ELSE IF f[n - 1].more THEN DecayOnce(f[n - 1]) ELSE f[n - 1]
    IN f[Cardinality(Types)].w

StartDecay(w, i) ==
    LET r == Begun([w |-> w, i |-> i])
    IN IF r.more THEN InternalDecayItem(w, i) ELSE r.w

CountIn(s, i) == Cardinality({k \in DOMAIN s : s[k] = i})

\* cleanup: things are released, then the waiting items are listed.
CleanedUpItems(w) ==
    [w EXCEPT !.item = [i \in Objects |-> ReleaseItem(w.item[i], CountIn(w.freed, i))],
              !.freed = <<>>, !.list = @ \o w.waiting, !.waiting = <<>>]

\* decreaseDuration by an interval, or by what is left.
Decreased(duration, by) == IF duration < by THEN 0 ELSE duration - by

\* mutant: an item whose last interval begins leaves the list and does not decay.
CheckOneForgets(w, i) ==
    LET x == w.item[i]
        combat == TypeData[x.type].combat
        left == IF combat THEN x.duration ELSE Decreased(x.duration, Interval)
        v == [w EXCEPT !.item[i].duration = left]
    IN IF ~CanDecay(x) THEN FreeItem([v EXCEPT !.item[i].decaying = FALSE], i)
       ELSE IF left < Interval
       THEN FreeItem(IF combat \/ left > 0 THEN v ELSE InternalDecayItem(v, i), i)
       ELSE [v EXCEPT !.list = Append(@, i)]

\* The body of checkDecay's loop: the entry stays, or goes with its use.  With one
\* bucket the new bucket of an item in its last interval is the old one, and the
\* item decays at once.
CheckOne(w, i) ==
    LET x == w.item[i]
        combat == TypeData[x.type].combat
        left == IF combat THEN x.duration ELSE Decreased(x.duration, Interval)
        v == [w EXCEPT !.item[i].duration = left]
    IN IF ~CanDecay(x) THEN FreeItem([v EXCEPT !.item[i].decaying = FALSE], i)
       ELSE IF left < Interval
       THEN FreeItem(IF combat THEN v ELSE InternalDecayItem(v, i), i)
       ELSE [v EXCEPT !.list = Append(@, i)]

\* The loop of checkDecay over the list as the task finds it.
Checked(w) ==
    LET f[n \in 0 .. Len(w.list)] ==
            IF n = 0 THEN [w EXCEPT !.list = <<>>] ELSE CheckOne(f[n - 1], w.list[n])
    IN f[Len(w.list)]

-----------------------------------------------------------------------------
\* Bounds: entries and events.
Room(w) ==
    /\ Len(w.list) + Len(w.waiting) < MaxEntries
    /\ \A i \in Objects : w.texts[i] < MaxEntries

\* An item is put on the map and starts to decay (fields, corpses, splashes, loot).
DropItem(t) ==
    /\ Room(Things) /\ Unused(Things) # {}
    /\ LET i == Fresh(Things)
       IN SetThings(StartDecay([Things EXCEPT !.item[i] = NewItem(t)], i))

\* A script changes an item (a torch is lit or put out, a ring is put on or taken
\* off) with doTransformItem and doDecayItem.
Transform(i, t) ==
    /\ Room(Things)
    /\ item[i].st = "held" /\ item[i].type # t
    /\ LET r == TransformItem(Things, i, t)
       IN SetThings(StartDecay(r.w, r.i))

\* The item is taken away for good: eaten, traded, cleaned, burnt.
TakeAway(i) ==
    /\ item[i].st = "held"
    /\ SetThings(RemoveItem(Things, i))

\* checkDecay, which schedules itself every interval and ends with cleanup.
CheckDecay ==
    SetThings(CleanedUpItems(Checked(Things)))

\* cleanup after another task.
CleanupItems ==
    /\ toFree # <<>> \/ toDecayItems # <<>>
    /\ SetThings(CleanedUpItems(Things))

\* updateTextForDecayItem.  No use is counted for the event: when the item is gone
\* by then it reads freed memory.  What follows is undefined; here it stops.
UpdateText(i) ==
    /\ texts[i] > 0
    /\ LET x == item[i]
           left == Decreased(x.duration, TextInterval)
           ended == [Things EXCEPT !.texts[i] = @ - 1]
       IN SetThings(IF x.st = "free" THEN ended
                    ELSE IF x.duration > 0 THEN [Things EXCEPT !.item[i].duration = left]
                    ELSE InternalDecayItem(ended, i))

DecayNext ==
    \/ CheckDecay \/ CleanupItems
    \/ \E t \in Types : DropItem(t)
    \/ \E i \in Objects :
          \/ TakeAway(i) \/ UpdateText(i)
          \/ \E t \in Types : Transform(i, t)

\* checkDecay changes something: an entry waits, or the time of one runs.
DecayDue ==
    \/ toDecayItems # <<>>
    \/ \E i \in ToSet(decayItems) : ~TypeData[item[i].type].combat

\* checkDecay always schedules itself again: SF, with DecayDue for ENABLED.
DecayFairness == []<>DecayDue => []<><<CheckDecay>>_decayVars

DecaySpec == DecayInit /\ [][DecayNext]_decayVars

-----------------------------------------------------------------------------
\* The uses of an item are its place, its entries in the decay lists and the
\* releases that are due: every way out of a list releases the use it had.
ItemUsesCounted ==
    \A i \in Objects : item[i].st # "free" =>
        item[i].uses = (IF item[i].st = "held" THEN 1 ELSE 0)
                          + CountIn(decayItems, i) + CountIn(toDecayItems, i) + CountIn(toFree, i)

\* No list names memory that was given back.
ListsLive ==
    \A i \in ToSet(decayItems) \cup ToSet(toDecayItems) \cup ToSet(toFree) : item[i].st # "free"

\* What startDecay and setID take for granted of items.xml: an item that decays to
\* one of its group starts anew there or never decays, with no duration stopped
\* in between; and no group has combat items and others.
CleanTypes ==
    \A s, t \in Types : TypeData[s].group = TypeData[t].group =>
        /\ TypeData[s].combat = TypeData[t].combat
        /\ TypeData[s].decayTo = t /\ ~TypeData[s].combat =>
              /\ s # t /\ ~TypeData[s].stopTime
              /\ TypeData[t].decayTime > 0 \/ (TypeData[t].decayTo = Never /\ ~TypeData[t].stopTime)

\* An item that says it is decaying is in a list: startDecay believes it and
\* would never put it there again.
DecayingIsListed ==
    \A i \in Objects :
        item[i].st = "held" /\ item[i].decaying /\ ~TypeData[item[i].type].combat =>
            i \in ToSet(decayItems) \cup ToSet(toDecayItems)

\* The memory of items is given back when the last list has let it go, and not before.
DecayLinks == DecayTypeOK /\ ItemUsesCounted /\ ListsLive

\* A decaying item comes to the end of its type, if nobody changes it before.
DecayEnds ==
    \A i \in Objects, t \in Types :
        (item[i].st = "held" /\ item[i].decaying /\ item[i].type = t /\ ~TypeData[t].combat)
            ~> ~(item[i].st = "held" /\ item[i].type = t /\ item[i].decaying)
=============================================================================
