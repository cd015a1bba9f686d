------------------------------- MODULE Deaths -------------------------------
(***************************************************************************)
(* How a creature is wounded, dies, and who has the death: the damage map  *)
(* of Creature, the conditions that strike round by round                  *)
(* (condition.cpp), combat on one target and on areas (combat.cpp), and    *)
(* doDeathDelay with what onDie tells and gives (creature.cpp,             *)
(* player.cpp).  One victim, and the creatures that may strike it.         *)
(*                                                                         *)
(* The victim is a player: a monster is not saved and pays nothing, and is *)
(* otherwise the same.  The amount of a hit, what is blocked, where         *)
(* everybody stands, and by when a round of a wound is due and a wound over *)
(* are choices (a visit of checkCreatures counts a tenth of the time that   *)
(* has passed for the one, and reads the clock for the other); rates are    *)
(* one; ids are in the order of the numbers.                                *)
(***************************************************************************)
EXTENDS Integers, SequencesExt, FiniteSetsExt, Functions, Folds

CONSTANTS
    Players, Monsters,  \* ids of those that may strike; NoOne is id 0
    Victim,             \* its id
    MaxHealth, Worth,   \* Worth: getLostExperience of the victim
    MaxRounds,          \* bound: rounds of a wound
    MaxEffects,         \* bound: conditions at a time
    Grounds,            \* subset of "bare", "poison", "nopvp", "safe"
    Casters,            \* bound: those whose area strikes are scheduled
    Hurts               \* bound: health lost before nothing more is begun

ASSUME DeathsAssumption ==
    /\ Players \union Monsters \union {Victim} \subseteq Nat \ {0} /\ IsFiniteSet(Players \union Monsters)
    /\ Players \intersect Monsters = {} /\ Victim \notin Players \union Monsters
    /\ {MaxHealth, MaxRounds, MaxEffects} \subseteq Nat \ {0} /\ {Worth, Hurts} \subseteq Nat

NoOne == 0
Foes == Players \union Monsters

VARIABLES
      \* the victim is a player
    master,     \* of each foe: a player, or NoOne
    here,       \* foes in the game
    body,       \* [health, damage, last, crashed]: damageMap, lastHitCreature
    effects,    \* conditions, in order
    strikes,    \* casters of area strikes that are scheduled (bound: one)
    fate,       \* "alive", "dying" (isDying), "dead"
    told, gained,   \* of each foe: onKilledCreature calls, experience
    paid,       \* whether the victim has paid for the last time its health went to zero
    \* for the properties only:
    hurt,       \* health lost since damageMap was cleared, and not by id 0
    forgotten   \* some damage was older than the fight ticks at the death

deathVars == <<master, here, body, effects, strikes, fate, told, gained,
               paid, hurt, forgotten>>
rewardVars == <<told, gained, forgotten>>
-----------------------------------------------------------------------------
Nobody == [f \in Foes |-> 0]
Smaller(a, b) == IF a < b THEN a ELSE b
Attackable(who, ground) ==
    ground = "nopvp" => who \notin Players \union {Victim} /\ (who \in Monsters => master[who] = NoOne)

\* combatChangeHealth with a loss of v: `who' has as much of it as there was health.
Drain(b, who, v) ==
    [b EXCEPT !.health = @ - v,
              !.damage[who] = @ + v, !.last = who]
Hurt(b, who, v, ground) ==
    IF Attackable(who, ground) /\ Smaller(b.health, v) > 0 THEN Drain(b, who, Smaller(b.health, v)) ELSE b
-----------------------------------------------------------------------------
(* Conditions. *)

\* ConditionDamage::doDamage calls a method of the owner it has looked up, or of NULL.
DoDamage(b, c, v, ground) ==
    IF c.owner \in here \union {Victim} THEN Hurt(b, c.owner, v, ground) ELSE [b EXCEPT !.crashed = TRUE]

\* ConditionDamage::init: so many rounds of an equal part and one of the remainder.
Rounds(total, n) ==
    [i \in 1 .. n |-> total \div n] \o (IF total % n # 0 THEN <<total % n>> ELSE <<>>)
Halves(n) == ((n + 1) \div 2) .. n
Wound(kind, owner, rounds) ==
    [kind |-> kind, owner |-> owner, rounds |-> rounds]
\* The conditions in these places, in order.
KeptAt(cs, S) == FoldLeftDomain(LAMBDA kept, i : IF i \in S THEN Append(kept, cs[i]) ELSE kept, <<>>, cs)
Regeneration == [kind |-> "regen", owner |-> NoOne, rounds |-> <<>>]

\* executeCondition, of those for which it is time (due).  A wound stays as it is on a
\* field of its kind.
Stays(c, ground) == c.kind = "poison" /\ ground = "poison"
Execute(b, c, due, ground) ==
    IF ~due THEN b
    ELSE IF c.kind = "regen"
    THEN IF ground = "safe" \/ b.health = MaxHealth THEN b ELSE [b EXCEPT !.health = @ + 1]
    ELSE IF c.rounds = <<>> THEN b ELSE DoDamage(b, c, Head(c.rounds), ground)
Bodies(due, ground) ==
    FoldLeftDomain(LAMBDA s, i : Append(s, Execute(Last(s), effects[i], i \in due, ground)), <<body>>, effects)
Aged(c, ground) == IF c.rounds = <<>> \/ Stays(c, ground) THEN c ELSE [c EXCEPT !.rounds = Tail(@)]
Later(due, over, ground) ==
    KeptAt([i \in DOMAIN effects |-> IF i \in due THEN Aged(effects[i], ground) ELSE effects[i]],
           DOMAIN effects \ over)

\* startCondition and addCondition of a wound that is not delayed: the first round at once.
First(c) == [c EXCEPT !.rounds = Tail(@)]
Without(cs, k) == KeptAt(cs, {i \in DOMAIN cs : cs[i].kind # k})
Has(k) == \E i \in DOMAIN effects : effects[i].kind = k
\* updateCondition: not if there is more damage left, and not if there is more time left,
\* which is a choice; the damage left of an empty list is whatever the memory holds.
Total(c) == FoldLeft(+, 0, c.rounds)
MayRefresh(c, new) == c.rounds = <<>> \/ Total(new) >= Total(c)
-----------------------------------------------------------------------------
DeathsInit ==
    /\ master \in [Foes -> Players \union {NoOne}] /\ \A f \in Players : master[f] = NoOne
    /\ here = Foes
    /\ body = [health |-> MaxHealth, damage |-> [f \in Foes \union {Victim, NoOne} |-> 0],
               last |-> NoOne, crashed |-> FALSE]
    /\ effects = <<>> /\ strikes = {} /\ fate = "alive"
    /\ told = Nobody /\ gained = Nobody /\ paid = "no"
    /\ hurt = 0 /\ forgotten = FALSE

Open == ~body.crashed /\ fate # "dead"
\* The bodies a step goes through: what they lose of health, and whether all of it.
Losses(bs) == MapThenSumSet(LAMBDA i : IF bs[i].health > bs[i + 1].health THEN bs[i].health - bs[i + 1].health ELSE 0,
                            1 .. Len(bs) - 1)
Falls(bs) == \E i \in 1 .. Len(bs) - 1 : bs[i].health > 0 /\ bs[i + 1].health = 0
Suffer(bs) ==
    /\ body' = Last(bs)
    /\ hurt' = hurt + Losses(bs)
    /\ paid' = IF Falls(bs) THEN "no" ELSE paid

\* CombatHealthFunc: the hit, then the condition of the combat (a poison of n rounds, or
\* none), even on one that has no health left.
Infected(b, new, ground) ==
    IF ~Has("poison")
    THEN /\ Len(effects) < MaxEffects
         /\ effects' = Append(effects, First(new))
         /\ Suffer(<<body, b, DoDamage(b, new, Head(new.rounds), ground)>>)
    ELSE \E i \in DOMAIN effects :
            /\ effects[i].kind = "poison"
            /\ \/ /\ MayRefresh(effects[i], new)
                  /\ effects' = [effects EXCEPT ![i] = First(new)]
                  /\ Suffer(<<body, b, DoDamage(b, new, Head(new.rounds), ground)>>)
               \/ /\ effects' = effects
                  /\ Suffer(<<body, b>>)
Afflict(f, v, n, ground) ==
    IF n = 0 THEN Suffer(<<body, Hurt(body, f, v, ground)>>) /\ effects' = effects
    ELSE Infected(Hurt(body, f, v, ground), Wound("poison", f, [i \in 1 .. n |-> 1]), ground)
Hit(f, v, n, ground) ==
    /\ Open /\ hurt < Hurts /\ f \in here /\ v + n > 0
    /\ Afflict(f, v, n, ground)
    /\ UNCHANGED <<master, here, strikes, fate, rewardVars>>
\* CombatPhysicalHealthFunc: a slash opens a wound first, whose owner is the victim.
Slash(f, v, total, n, ground) ==
    /\ Open /\ hurt < Hurts /\ f \in here /\ Attackable(f, ground)
    /\ Len(Rounds(total, n)) <= MaxRounds /\ Len(Without(effects, "bleed")) < MaxEffects
    /\ effects' = Append(Without(effects, "bleed"), Wound("bleed", Victim, Rounds(total, n)))
    /\ Suffer(<<body, Hurt(body, f, v, ground)>>)
    /\ UNCHANGED <<master, here, strikes, fate, rewardVars>>

\* doCombat on an area: each square is an event that holds the caster's address.
Cast(f) ==
    /\ Open /\ hurt < Hurts /\ f \in here /\ strikes = {}
    /\ strikes' = strikes \union {f}
    /\ UNCHANGED <<master, here, body, effects, fate, rewardVars, paid, hurt>>
\* When it lands the caster may be gone: its memory is still there, or it is not.
StrikeLands(f, v, n, ground) ==
    /\ Open /\ f \in strikes
    /\ strikes' = strikes \ {f}
    /\ \/ Suffer(<<body>>) /\ effects' = effects
       \/ Afflict(f, v, n, ground)
       \/ /\ f \notin here /\ effects' = effects
          /\ Suffer(<<body, [body EXCEPT !.crashed = TRUE]>>)
    /\ UNCHANGED <<master, here, fate, rewardVars>>

\* doCreatureAddHealth of a script: it heals the dead as well; a loss is nobody's.
ScriptHeal(v) ==
    /\ Open /\ hurt < Hurts
    /\ Suffer(<<body, [body EXCEPT !.health = Smaller(MaxHealth, @ + v)]>>)
    /\ UNCHANGED <<master, here, effects, strikes, fate, rewardVars>>
ScriptHurt(v) ==
    /\ Open /\ hurt < Hurts /\ body.health > 0
    /\ body' = [body EXCEPT !.health = IF @ > v THEN @ - v ELSE 0]
    /\ hurt' = hurt
    /\ paid' = IF body.health <= v THEN "no" ELSE paid
    /\ UNCHANGED <<master, here, effects, strikes, fate, rewardVars>>
Feed ==
    /\ Open /\ ~Has("regen") /\ Len(effects) < MaxEffects
    /\ effects' = Append(effects, Regeneration)
    /\ UNCHANGED <<master, here, body, strikes, fate, rewardVars, paid, hurt>>

\* A creature leaves, and its summons with it (removeCreature).  Bound: none of those that
\* have done nothing.
Pets(f) == {g \in Foes : master[g] = f}
Involved(f) == f \in strikes \/ f = body.last \/ body.damage[f] > 0 \/ \E i \in DOMAIN effects : effects[i].owner = f
Leave(f) ==
    /\ Open /\ f \in here /\ \E g \in {f} \union Pets(f) : Involved(g)
    /\ here' = here \ ({f} \union Pets(f))
    /\ UNCHANGED <<master, body, effects, strikes, fate, rewardVars, paid, hurt>>
\* onIdleStatus: it keeps lastHitCreature.
IdleStatus ==
    /\ Open /\ body.health > 0
    /\ body' = [body EXCEPT !.damage = [f \in DOMAIN @ |-> 0]]
    /\ hurt' = 0
    /\ UNCHANGED <<master, here, effects, strikes, fate, rewardVars, paid>>

\* checkCreatures, for one that has health left: executeConditions.
Visit(due, over, ground) ==
    /\ Open /\ hurt < Hurts /\ body.health > 0 /\ effects # <<>>
    /\ \A i \in over : effects[i].kind # "regen"
    /\ effects' = Later(due, over, ground)
    /\ Suffer(Bodies(due, ground))
    /\ UNCHANGED <<master, here, strikes, fate, rewardVars>>
\* For one that has none: its death is booked, once.
Book ==
    /\ Open /\ body.health = 0 /\ fate = "alive"
    /\ fate' = "dying"
    /\ UNCHANGED <<master, here, body, effects, strikes, rewardVars, paid, hurt>>
Paid == IF paid = "no" THEN "once" ELSE "twice"
\* preSave of a global save, in whatever state the player is.
Save ==
    /\ Open /\ body.health = 0
    /\ paid' = Paid
    /\ body' = [body EXCEPT !.health = MaxHealth]
    /\ UNCHANGED <<master, here, effects, strikes, fate, rewardVars, hurt>>
-----------------------------------------------------------------------------
(* onDie. *)
Found(f) == f \in here \union {Victim}
Damagers == {f \in DOMAIN body.damage : body.damage[f] > 0}
MasterOf(f) == IF f \in Foes THEN master[f] ELSE NoOne

\* getKillers, over the damage map in the order of the ids: an entry of one that is gone
\* is looked up as NULL, and does not raise what the next one has to exceed.
Leads(f, fresh) == \A g \in fresh : g < f /\ Found(g) => body.damage[g] < body.damage[f]
LastHit == IF Found(body.last) THEN body.last ELSE NoOne
MostDamage(fresh) ==
    LET leaders == {f \in fresh : Leads(f, fresh)}
    IN  IF leaders = {} \/ ~Found(Max(leaders)) THEN NoOne ELSE Max(leaders)

TellsMostUnrelated(last, most) ==
    /\ most \notin {NoOne, last}
    /\ last = NoOne \/ most # MasterOf(last)
    /\ last = NoOne \/ last # MasterOf(most)
TellsMost(last, most) ==
    /\ most \notin {NoOne, last}
    /\ last = NoOne \/ most # MasterOf(last)
    /\ last = NoOne \/ last # MasterOf(most)
    /\ last = NoOne \/ MasterOf(last) = NoOne \/ MasterOf(most) # MasterOf(last)
Killers(last, most) == ({last} \union IF TellsMost(last, most) THEN {most} ELSE {}) \intersect Foes
\* onKilledCreature goes on to the master.
Told(killers) ==
    [f \in Foes |-> Cardinality({k \in killers : f = k \/ f = master[k]})]

\* onAttackedCreatureKilled: the share of all damage; half a summon's goes to its master.
AllDamage == SumFunction(body.damage)
Share(f) == IF body.damage[f] = 0 THEN 0 ELSE (Worth * body.damage[f]) \div AllDamage
Gain(p) ==
    IF p \notin Players \intersect here THEN 0
    ELSE Share(p) + MapThenSumSet(LAMBDA s : Share(s) \div 2, {s \in Monsters \intersect here : master[s] = p})

\* doDeathDelay, whatever the health is by now.  A player's experience is taken by preSave
\* when it is removed (or, in an arena, revived and then removed), if it has no health left
\* and neither an item nor a kill in the arena prevents it.  Entries older than the fight
\* ticks do not count for mostDamageCreature; the latest is the last to become too old.
Death(fresh) ==
    /\ Open /\ fate = "dying"
    /\ fate' = "dead"
    /\ fresh \subseteq Damagers /\ (fresh # {} => body.last \in fresh \/ body.last \notin Damagers)
    /\ forgotten' = (fresh # Damagers)
    /\ told' = Told(Killers(LastHit, MostDamage(fresh)))
    /\ gained' = [f \in Foes |-> Gain(f)]
    /\ paid' \in {paid} \union IF body.health = 0 THEN {Paid} ELSE {}
    /\ UNCHANGED <<master, here, body, effects, strikes, hurt>>

DeathsNext ==
    \/ \E ground \in Grounds :
          \/ \E f \in Foes, v \in 0 .. MaxHealth, n \in {0, MaxRounds} :
                Hit(f, v, n, ground) \/ StrikeLands(f, v, n, ground)
          \/ \E f \in Foes, v \in 1 .. MaxHealth, n \in Halves(MaxRounds) :
                Slash(f, v, MaxRounds, n, ground)
          \/ \E due, over \in SUBSET DOMAIN effects : Visit(due, over, ground)
    \/ \E f \in Foes : (f \in Casters /\ Cast(f)) \/ Leave(f)
    \/ ScriptHeal(1) \/ ScriptHurt(1) \/ Feed \/ IdleStatus
    \/ Book \/ Save
    \/ \E fresh \in SUBSET Damagers : Death(fresh)
DeathsSpec == DeathsInit /\ [][DeathsNext]_deathVars
-----------------------------------------------------------------------------
(* What a death comes to. *)

\* Every point of health lost to somebody is in the damage map once, however the hits of
\* foes, rounds of wounds, healing and idle times are interleaved: nobody is credited with
\* more than there was (combatChangeHealth, addDamagePoints, onIdleStatus).
DamageAdds == AllDamage - body.damage[NoOne] = hurt

\* Nobody hears of a death twice, be it as the last to hit, as the one that did most
\* damage, or as the master of either (onDie, onKilledCreature).
ToldOnce == \A f \in Foes : told[f] <= 1

\* As long as all that did damage are in the game and none is forgotten, the foe that did
\* most, its master, or a summon of the same master hears of the death.
Kin(f) == {g \in Foes : g = f \/ g = master[f] \/ f = master[g]
                         \/ (master[f] # NoOne /\ master[g] = master[f])}
MostIsTold ==
    fate = "dead" /\ ~forgotten =>
        \A f \in Foes \intersect Damagers :
            /\ \A g \in Damagers \ {f} : body.damage[g] < body.damage[f]
            /\ \A g \in Damagers : Found(g)
            => \E g \in Kin(f) : told[g] = 1

\* The shares of a death never add up to more than it is worth.
SharesFair == SumFunction(gained) <= Worth

\* A player pays at most once for each time its health goes to zero: the save of a
\* player that has no health left, the arena and the removal do not charge twice.
CostsOnce == paid # "twice"

DeathsHold == DamageAdds /\ ToldOnce /\ MostIsTold /\ SharesFair /\ CostsOnce
=============================================================================
