------------------------------- MODULE Effects -------------------------------
(***************************************************************************)
(* What conditions and worn items do to a player (creature.cpp,            *)
(* condition.cpp, movement.cpp, player.cpp, game.cpp).  A condition adds   *)
(* its part to the speed or the stats when it starts and takes it back     *)
(* when it ends; a worn item gives its part when it is equipped and takes  *)
(* it back when it is taken off.  Nothing is ever computed anew, so a part *)
(* that is given twice, or taken back once too often, stays for the whole  *)
(* session.                                                                *)
(*                                                                         *)
(* A condition has a kind, an id (the slot of the item it comes from, or   *)
(* CONDITIONID_COMBAT) and an end time, given as what is left until then:  *)
(* 0 when it has passed and executeConditions has not come by yet.  One    *)
(* that lasts has endTime 0, which hasCondition takes for its being there; *)
(* setTicks(-1) gives it an end time in the past instead.                  *)
(*                                                                         *)
(* The movement events call EquipItem and DeEquipItem for every item and   *)
(* slot; an item and what it becomes when worn have the same ItemTypes_t.  *)
(***************************************************************************)
EXTENDS Integers, FiniteSetsExt, Functions

CONSTANTS
    Places,     \* the slots
    Gear,       \* the types of the items
    GearData,   \* what items.xml and movements.xml say of each type
    Bare,       \* no item, no type
    Spells,     \* the conditions that spells, scripts and fields give
    MaxSpells,  \* bound on the conditions without an item at a time
    MaxDelay,   \* bound on the time until a player may act
    MaxBase     \* bound on the level, which the base stat follows

Combat == 0
Forever == -1      \* ticks -1 since its start
Lapsed == -2       \* ticks -1 by setTicks
EffectKinds == {"haste", "paralyze", "invisible", "attributes"}

ASSUME EffectsAssumption ==
    /\ Places \subseteq Nat \ {Combat} /\ IsFiniteSet(Places) /\ Bare \notin Gear
    /\ GearData \in [Gear -> [speed : Int, invisible : BOOLEAN, percent : BOOLEAN, suppresses : BOOLEAN,
                              required : Nat, worn : Gear \union {Bare}, off : Gear \union {Bare}]]
    \* What an item becomes when worn has the abilities, and becomes nothing else.
    /\ \A g \in Gear : GearData[g].worn # Bare =>
        /\ GearData[GearData[g].worn].worn = Bare
        /\ GearData[g].speed = 0 /\ ~GearData[g].invisible
        /\ ~GearData[g].percent /\ ~GearData[g].suppresses
    /\ Spells \subseteq [kind : EffectKinds, id : {Combat}, left : {Forever} \union (Nat \ {0}), delta : Int]
    /\ MaxSpells \in Nat \ {0} /\ MaxDelay \in Nat \ {0} /\ MaxBase \in Nat \ {0}

VARIABLE
    hero    \* conditions, speed: varSpeed, stats: varStats, base: getDefaultStats,
            \* hidden: what onlookers were last told, suppressed: conditionSuppressions,
            \* worn: inventory, enabled: inventoryAbilities;
            \* history: grown, shared, reborn (see the invariants)

effectVars == <<hero>>
-----------------------------------------------------------------------------
(* Conditions.                                                             *)

OfKind(h, kind) == {c \in h.conditions : c.kind = kind}
HasCondition(h, kind) == \E c \in OfKind(h, kind) : c.left = Forever \/ c.left > 0

ChangeSpeed(h, delta) == [h EXCEPT !.speed = @ + delta]
SetVarStats(h, delta) == [h EXCEPT !.stats = @ + delta]

StartCondition(h, c) ==
    CASE c.kind \in {"haste", "paralyze"} -> ChangeSpeed(h, c.delta)
      [] c.kind = "attributes" -> SetVarStats(h, c.delta)
      [] c.kind = "invisible" -> [h EXCEPT !.hidden = TRUE]

\* endCondition, called when the condition is already out of the list.
EndCondition(h, c) ==
    CASE c.kind \in {"haste", "paralyze"} -> ChangeSpeed(h, -c.delta)
      [] c.kind = "attributes" -> SetVarStats(h, -c.delta)
      [] c.kind = "invisible" -> [h EXCEPT !.hidden = @ /\ HasCondition(h, "invisible")]

EraseCondition(h, c) == EndCondition([h EXCEPT !.conditions = @ \ {c}], c)

EraseConditions(h, cs) == FoldSet(LAMBDA c, g : EraseCondition(g, c), h, cs)

\* updateCondition; a change of speed asks only whether the old one lasts.
Updates(old, new) ==
    /\ ~(old.left \in {Forever, Lapsed} /\ new.left > 0)
    /\ old.kind \in {"haste", "paralyze"} \/ new.left = Forever \/ old.left <= new.left

\* The new condition with setTicks.
Renewed(new) == [new EXCEPT !.left = IF @ = Forever THEN Lapsed ELSE @]

Replaced(h, old, c) == [h EXCEPT !.conditions = (@ \ {old}) \union {c}, !.reborn = @ \/ old.left = 0]

\* As Refresh, without the end of the old effect.
RefreshAdding(h, old, new) ==
    IF Updates(old, new) THEN StartCondition(Replaced(h, old, Renewed(new)), new) ELSE h

\* Condition::addCondition: the condition that is there takes over the new one's
\* time and effect.  It is not started again.
Refresh(h, old, new) ==
    LET g == Replaced(h, old, Renewed(new))
    IN  IF ~Updates(old, new) THEN h
        ELSE CASE new.kind \in {"haste", "paralyze"} -> ChangeSpeed(g, new.delta - old.delta)
               [] new.kind = "attributes" -> SetVarStats(g, new.delta - old.delta)
               [] new.kind = "invisible" -> g

Opposite(kind) == CASE kind = "haste" -> {"paralyze"} [] kind = "paralyze" -> {"haste"} [] OTHER -> {}

\* onAddCondition: haste and paralysis end one another.
OnAddCondition(h, kind) ==
    EraseConditions(h, UNION {OfKind(h, k) : k \in {x \in Opposite(kind) : HasCondition(h, x)}})

AddCondition(h, new) ==
    LET prev == {c \in OfKind(h, new.kind) : c.id = new.id}
    IN  IF prev # {}
        THEN Refresh(h, CHOOSE c \in prev : TRUE, new)
        ELSE OnAddCondition([StartCondition(h, new) EXCEPT !.conditions = @ \union {new}], new.kind)
-----------------------------------------------------------------------------
(* Worn items.                                                             *)

ItemCondition(s) == [kind |-> "invisible", id |-> s, left |-> Forever, delta |-> 0]

\* The abilities of type g, that EquipItem gives and DeEquipItem takes back; an
\* item that changes a stat by a part of it looks at the base both times.
GrantAbilities(h, s, g) ==
    LET d == GearData[g]
        i == IF d.invisible THEN AddCondition(h, ItemCondition(s)) ELSE h
    IN  [i EXCEPT !.speed = @ + d.speed, !.stats = @ + IF d.percent THEN h.base ELSE 0,
                  !.suppressed = @ \/ d.suppresses,
                  !.shared = @ \/ (d.suppresses /\ h.suppressed)]

WithdrawAbilities(h, s, g) ==
    LET d == GearData[g]
        i == IF d.invisible
             THEN EraseConditions(h, {c \in OfKind(h, "invisible") : c.id = s}) ELSE h
    IN  [i EXCEPT !.speed = @ - d.speed, !.stats = @ - IF d.percent THEN h.base ELSE 0,
                  !.suppressed = @ /\ ~d.suppresses]

MayWear(h, g) == h.base >= GearData[g].required

\* EquipItem, with transformItem and its notifications in between when the item
\* becomes another: the slot is enabled by the call for the new type.
EquipItem(h, s) ==
    LET g == h.worn[s]
        becomes == IF GearData[g].worn = Bare THEN g ELSE GearData[g].worn
    IN  IF g = Bare \/ h.enabled[s] \/ ~MayWear(h, g) THEN h
        ELSE IF ~MayWear(h, becomes) THEN [h EXCEPT !.worn[s] = becomes]
        ELSE GrantAbilities([h EXCEPT !.worn[s] = becomes, !.enabled[s] = TRUE], s, becomes)

\* DeEquipItem of an item of type g that has left slot s for good and is now in
\* the slots of `to': none, or one more of the same player, where it is equipped.
DeEquipItem(h, s, g, to) ==
    LET off == GearData[g].off
        h1 == [h EXCEPT !.enabled[s] = FALSE]
        h2 == IF off = Bare \/ to = {} THEN h1
              ELSE LET t == CHOOSE x \in to : TRUE IN EquipItem([h1 EXCEPT !.worn[t] = off], t)
    IN  IF h.enabled[s] THEN WithdrawAbilities(h2, s, g) ELSE h

TakeOff(h, s) ==
    IF h.worn[s] = Bare THEN h ELSE DeEquipItem([h EXCEPT !.worn[s] = Bare], s, h.worn[s], {})
-----------------------------------------------------------------------------
NewHero(base, worn) ==
    [conditions |-> {}, speed |-> 0, stats |-> 0, base |-> base, hidden |-> FALSE,
     suppressed |-> FALSE, worn |-> worn, enabled |-> [s \in Places |-> FALSE],
     grown |-> FALSE, shared |-> FALSE, reborn |-> FALSE]

EffectsInit == hero = NewHero(1, [s \in Places |-> Bare])

\* A spell, a script, a field: Creature::addCondition.
GainCondition(c) ==
    LET spells == {d \in hero.conditions : d.id = Combat}
    IN  /\ Cardinality(spells) < MaxSpells \/ \E d \in spells : d.kind = c.kind
        /\ hero' = AddCondition(hero, c)

\* executeConditions, which comes by every second.
ExecuteConditions ==
    hero' = EraseConditions(hero, {c \in hero.conditions : c.left = 0})

Older(c) == [c EXCEPT !.left = IF @ > 0 THEN @ - 1 ELSE @]
TimePasses == hero' = [hero EXCEPT !.conditions = {Older(c) : c \in hero.conditions}]

\* A spell that dispels, if it finds the condition to have time left (CombatDispelFunc):
\* Player::onCombatRemoveCondition for each of the kind.  A
\* condition of an item stays; while the player may not act the others get the
\* time until he may.
Dispel(kind, delay) ==
    LET cs == {c \in OfKind(hero, kind) : c.id = Combat}
    IN  /\ HasCondition(hero, kind)
        /\ hero' = IF delay = 0 THEN EraseConditions(hero, cs)
                   ELSE [hero EXCEPT !.conditions = (@ \ cs) \union {[c EXCEPT !.left = delay] : c \in cs},
                                     !.reborn = @ \/ \E c \in cs : c.left \in {0, Lapsed}]

\* luaDoRemoveCondition: of the conditions without a slot only.
RemoveByScript(kind) ==
    hero' = EraseConditions(hero, {c \in OfKind(hero, kind) : c.id = Combat})

\* The player puts an item on.  What is in the slot leaves it first, and stays
\* away when canPlayerWearEquip then refuses the new one.
PutOn(s, g) ==
    LET h == TakeOff(hero, s)
    IN  hero' = IF MayWear(hero, g) THEN EquipItem([h EXCEPT !.worn[s] = g], s) ELSE h

Undress(s) == hero.worn[s] # Bare /\ hero' = TakeOff(hero, s)

\* From one hand to the other, which must be free.
ChangeHands(s, t) ==
    LET g == hero.worn[s]
        h == [hero EXCEPT !.worn[s] = Bare, !.worn[t] = g]
    IN  /\ g # Bare /\ hero.worn[t] = Bare /\ MayWear(hero, g)
        /\ hero' = EquipItem(DeEquipItem(h, s, g, {t}), t)

\* transformItem of a worn item, a decay or a script: it is taken off as what it
\* was, though not removed, and equipped as what it is now.
TransformWorn(s, g) ==
    LET old == hero.worn[s]
        h == IF hero.enabled[s] THEN WithdrawAbilities([hero EXCEPT !.enabled[s] = FALSE], s, old) ELSE hero
    IN  /\ old \notin {Bare, g}
        /\ hero' = EquipItem([h EXCEPT !.worn[s] = g], s)

\* A change of level, at most once a session while an item adds a part of the base.
ChangeLevel(base) ==
    LET grows == \E s \in Places : hero.enabled[s] /\ GearData[hero.worn[s]].percent
    IN  /\ base # hero.base /\ ~(grows /\ hero.grown)
        /\ hero' = [hero EXCEPT !.base = base, !.grown = @ \/ grows]

\* The player leaves or dies, and comes back: a new object puts the items on and
\* then gets the conditions that were saved, those with a time and without a slot;
\* Player::die ends these.
Relog(dies) ==
    LET saved == {c \in hero.conditions : c.id = Combat /\ c.left > 0}
        dressed == FoldSet(LAMBDA s, h : EquipItem(h, s), NewHero(hero.base, hero.worn), Places)
    IN  hero' = IF dies THEN dressed ELSE FoldSet(LAMBDA c, h : AddCondition(h, c), dressed, saved)

EffectsNext ==
    \/ \E c \in Spells : GainCondition(c)
    \/ ExecuteConditions
    \/ TimePasses
    \/ \E kind \in EffectKinds, delay \in 0..MaxDelay : Dispel(kind, delay)
    \/ \E kind \in EffectKinds : RemoveByScript(kind)
    \/ \E s \in Places, g \in Gear : PutOn(s, g) \/ TransformWorn(s, g)
    \/ \E s \in Places : Undress(s)
    \/ \E s, t \in Places : ChangeHands(s, t)
    \/ \E base \in 1..MaxBase : ChangeLevel(base)
    \/ \E dies \in BOOLEAN : Relog(dies)

EffectsSpec == EffectsInit /\ [][EffectsNext]_effectVars
-----------------------------------------------------------------------------
\* The variable has its type.
EffectsTypeOK ==
    /\ hero.conditions \subseteq [kind : EffectKinds, id : Places \union {Combat}, left : Int, delta : Int]
    /\ hero.speed \in Int /\ hero.stats \in Int /\ hero.base \in 1..MaxBase
    /\ hero.worn \in [Places -> Gear \union {Bare}] /\ hero.enabled \in [Places -> BOOLEAN]

Enabled == {s \in Places : hero.enabled[s]}

Deltas(cs) == SumFunctionOnSet([c \in cs |-> c.delta], cs)
SpeedOf(g) == IF g = Bare THEN 0 ELSE GearData[g].speed

\* The speed is what the conditions and the enabled items add (changeSpeed).
SpeedAddsUp ==
    hero.speed = Deltas(OfKind(hero, "haste") \union OfKind(hero, "paralyze"))
                 + SumFunctionOnSet([s \in Places |-> IF hero.enabled[s] THEN SpeedOf(hero.worn[s]) ELSE 0], Places)

\* So are the stats, unless the level changed under an item that adds a part of
\* the base (setVarStats).
StatsAddUp ==
    hero.grown \/
    hero.stats = Deltas(OfKind(hero, "attributes"))
                 + hero.base * Cardinality({s \in Enabled : GearData[hero.worn[s]].percent})

\* What onlookers were told of the player's being invisible is so: there is a
\* reason when he is hidden, and he is hidden when the server takes him for
\* invisible, unless a condition was renewed after its time.
SeenAsHeIs ==
    /\ hero.hidden => OfKind(hero, "invisible") # {}
    /\ HasCondition(hero, "invisible") => hero.hidden \/ hero.reborn

\* A condition that an item gives is there while the slot is enabled and no
\* longer, and no other condition takes its place.
ItemsAreBehind ==
    /\ \A s \in Places : hero.enabled[s] => hero.worn[s] # Bare
    /\ {c.id : c \in {d \in hero.conditions : d.id # Combat}}
            = {s \in Enabled : GearData[hero.worn[s]].invisible}
    /\ \A c, d \in hero.conditions : c.kind = d.kind /\ c.id = d.id => c = d

\* A player with time left of haste has none left of paralysis, unless a condition
\* was renewed after its time.
OneSpell == hero.reborn \/ ~(HasCondition(hero, "haste") /\ HasCondition(hero, "paralyze"))

\* A condition is suppressed only for an item that suppresses it, and for every
\* one, unless two items suppressed the same.
SuppressionIsWorn ==
    LET by == {s \in Enabled : GearData[hero.worn[s]].suppresses}
    IN  (hero.suppressed => by # {}) /\ (hero.shared \/ (by # {} => hero.suppressed))

\* What the player has of conditions and items is what is there to give it.
EffectsAddUp ==
    /\ EffectsTypeOK
    /\ SpeedAddsUp /\ StatsAddUp /\ SeenAsHeIs /\ ItemsAreBehind /\ OneSpell /\ SuppressionIsWorn
=============================================================================
