------------------------------- MODULE Pursuit -------------------------------
(***************************************************************************)
(* Whom creatures attack and follow, and the lists of the creatures that a *)
(* monster has in sight (creature.cpp, monster.cpp).  attackedCreature and *)
(* followCreature are plain pointers: what keeps them right is that every  *)
(* creature in sight of a step, an arrival, a leave or a change of sides   *)
(* is told of it and draws its own conclusions.                            *)
(*                                                                         *)
(* The map is a line; a creature is in sight within Sight steps, and those *)
(* in sight are those who are told (maxViewportX of both).  Left out: paths*)
(* (whether one is found is a choice), invisible creatures, monsters who   *)
(* have summons, fleeing, distance that makes a summon despawn, and the    *)
(* time between a monster's death and its removal, and what those who have *)
(* left still point to.  Monsters do not enter protection zones.           *)
(***************************************************************************)
EXTENDS Integers, Sequences, SequencesExt

CONSTANTS
    Folk,       \* players
    Beasts,     \* monsters
    Rolls,      \* the orders in which those in sight are told
    Tame,       \* monsters that can be summoned or convinced
    Spots,      \* positions
    Haven,      \* positions in a protection zone
    Sight,
    Nowhere,    \* the place of who has not come yet
    NoBeing     \* NULL

ASSUME PursuitAssumption ==
    /\ Spots \subseteq Nat /\ Haven \subseteq Spots /\ Sight \in Nat
    /\ Tame \subseteq Beasts /\ Folk \intersect Beasts = {}
    /\ (\A r \in Rolls : ToSet(r) = Folk \union Beasts) /\ Nowhere \notin Spots

Being == Folk \union Beasts

VARIABLES
    spot,       \* where each is, or was when it left
    left,       \* isRemoved
    attacked,   \* attackedCreature
    follow,     \* followCreature
    master,      \* master of a monster
    targets,    \* targetList of a monster
    friends,    \* friendList
    awake,      \* isActivated
    near        \* isMasterInRange

pursuitVars == <<spot, left, attacked, follow, master, targets, friends, awake, near>>

Scene == [spot |-> spot, left |-> left, attacked |-> attacked, follow |-> follow,
          master |-> master, targets |-> targets, friends |-> friends, awake |-> awake, near |-> near]
Becomes(t) ==
    /\ spot' = t.spot /\ left' = t.left /\ attacked' = t.attacked /\ follow' = t.follow
    /\ master' = t.master /\ targets' = t.targets /\ friends' = t.friends
    /\ awake' = t.awake /\ near' = t.near
-----------------------------------------------------------------------------
Visible(p, q) == p - q <= Sight /\ q - p <= Sight
Placed(t, c) == t.spot[c] # Nowhere /\ c \notin t.left
Sees(t, c, x) == Placed(t, c) /\ Placed(t, x) /\ Visible(t.spot[c], t.spot[x])
Spectators(t, r, p) == SelectSeq(r, LAMBDA c : Placed(t, c) /\ Visible(t.spot[c], p))
SummonsOf(t, c) == {m \in Beasts : t.master[m] = c}

Opponent(t, m, x) ==
    IF t.master[m] # NoBeing THEN x # t.master[m] ELSE x \in Folk \/ t.master[x] # NoBeing
Friend(t, m, x) ==
    IF t.master[m] # NoBeing THEN t.master[m] \in {x, t.master[x]}
    ELSE x \in Beasts /\ t.master[x] = NoBeing

\* setFollowCreature; found: a path to x is found (onFollowCreatureComplete).
SetFollow(t, c, x, found) ==
    CASE x = NoBeing \/ t.follow[c] = x -> [t EXCEPT !.follow[c] = x]
      [] x # NoBeing /\ t.follow[c] # x /\ ~Sees(t, c, x) ->
            IF c \in Folk THEN [t EXCEPT !.follow[c] = NoBeing, !.attacked =
                    [b \in Being |-> IF b = c \/ b \in SummonsOf(t, c) THEN NoBeing ELSE @[b]]]
            ELSE [t EXCEPT !.follow[c] = NoBeing]
      [] OTHER -> [t EXCEPT !.follow[c] = x,
                            !.targets[c] = IF t.master[c] # NoBeing /\ ~found THEN @ \ {x} ELSE @]

\* Creature::setAttackedCreature: the summons are told, and see for themselves.
AttackBase(t, c, x) ==
    IF x # NoBeing /\ ~Sees(t, c, x) THEN [t EXCEPT !.attacked[c] = NoBeing]
    ELSE [t EXCEPT !.attacked = [b \in Being |->
            CASE b = c -> x
              [] b \in SummonsOf(t, c) -> IF x # NoBeing /\ Sees(t, b, x) THEN x ELSE NoBeing
              [] OTHER -> @[b]]]

\* setAttackedCreature of a player: chase is whether it follows whom it attacks.
Attack(t, c, x, chase) ==
    LET s == AttackBase(t, c, x)
    IN  CASE c \in Beasts \/ s.attacked[c] # x -> s
          [] c \in Folk /\ s.attacked[c] = x -> SetFollow(s, c, IF chase THEN x ELSE NoBeing, TRUE)

\* Creature::onCreatureDisappear.
LoseSight(t, c, x) ==
    LET s == IF t.attacked[c] = x THEN Attack(t, c, NoBeing, FALSE) ELSE t
    IN  IF s.follow[c] = x THEN SetFollow(s, c, NoBeing, TRUE) ELSE s

Activate(t, m) ==
    [t EXCEPT !.awake[m] = @ \/ (IF t.master[m] # NoBeing THEN t.near[m] ELSE t.targets[m] # {})]
Deactivate(t, m) ==
    [t EXCEPT !.awake[m] = @ /\ (IF t.master[m] # NoBeing THEN t.near[m] ELSE t.targets[m] # {})]

\* onCreatureFound of each of xs.
Found(t, m, xs) ==
    LET s == [t EXCEPT !.friends[m] = @ \union {x \in xs : Friend(t, m, x)},
                       !.targets[m] = @ \union {x \in xs : Opponent(t, m, x)}]
    IN  IF s.targets[m] # t.targets[m] THEN Activate(s, m) ELSE s

\* The lists are looked through by position: who left in sight stays.
UpdateTargetList(t, m) ==
    LET seen == {x \in Being \ {m} : t.spot[x] # Nowhere /\ Visible(t.spot[m], t.spot[x])}
    IN  Found([t EXCEPT !.targets[m] = @ \intersect seen, !.friends[m] = @ \intersect seen],
              m, seen \ t.left)

CreatureEnter(t, m, x) ==
    Found(IF t.master[m] = x THEN Activate([t EXCEPT !.near[m] = TRUE], m) ELSE t, m, {x})

\* As CreatureLeave, without the lists: the one who left stays a target.
CreatureLeaveListed(t, m, x) ==
    IF t.master[m] = x THEN Deactivate([t EXCEPT !.near[m] = FALSE], m) ELSE t

\* onCreatureLeave: whose friend or enemy x was is asked of what x is now.
CreatureLeave(t, m, x) ==
    LET s == IF t.master[m] = x THEN Deactivate([t EXCEPT !.near[m] = FALSE], m) ELSE t
        u == IF Friend(s, m, x) THEN [s EXCEPT !.friends[m] = @ \ {x}] ELSE s
        v == IF Opponent(s, m, x) THEN [u EXCEPT !.targets[m] = @ \ {x}] ELSE u
    IN  IF v.targets[m] # u.targets[m] /\ v.targets[m] = {} THEN Deactivate(v, m) ELSE v

IsTarget(t, x) == Placed(t, x) /\ t.spot[x] \notin Haven
SelectTarget(t, m, x, found) ==
    IF IsTarget(t, x) /\ x \in t.targets[m] THEN SetFollow(AttackBase(t, m, x), m, x, found) ELSE t

MasterInRange(t, m) ==
    IF t.master[m] # NoBeing THEN [t EXCEPT !.near[m] = Sees(t, m, t.master[m])] ELSE t
LookAround(t, m) == Activate(UpdateTargetList(MasterInRange(t, m), m), m)
-----------------------------------------------------------------------------
\* onCreatureAppear of everybody in sight.
OnAppear(t, r, x) ==
    LET told(s, c) == CASE c \in Folk -> s
                        [] c \in Beasts /\ c = x -> LookAround(s, c)
                        [] OTHER -> CreatureEnter(s, c, x)
    IN  FoldLeft(told, t, Spectators(t, r, t.spot[x]))

\* onChangeZone of the one who moved.
ChangeZone(t, c) ==
    IF t.attacked[c] # NoBeing /\ t.spot[c] \in Haven THEN LoseSight(t, c, t.attacked[c]) ELSE t

\* Creature::onCreatureMove of c, when x has moved: whom it follows first, whom it
\* attacks then.
LoseFollowed(t, c, x) ==
    IF t.follow[c] # NoBeing /\ x \in {c, t.follow[c]} /\ ~Sees(t, c, t.follow[c])
    THEN LoseSight(t, c, t.follow[c]) ELSE t
LoseAttacked(t, c, x) ==
    IF t.attacked[c] # NoBeing /\ x \in {c, t.attacked[c]}
       /\ (~Sees(t, c, t.attacked[c]) \/ t.spot[t.attacked[c]] \in Haven)
    THEN LoseSight(t, c, t.attacked[c]) ELSE t
SeeMoveBase(t, c, x) ==
    LoseAttacked(LoseFollowed(IF c = x THEN ChangeZone(t, c) ELSE t, c, x), c, x)

\* Monster::onCreatureMove of another: it comes in sight or leaves it, it may be the
\* master, and a wild monster that follows nobody takes an enemy that has moved.
PassSight(t, c, x, from) ==
    LET seen == Visible(t.spot[c], t.spot[x])
    IN  CASE seen /\ ~Visible(t.spot[c], from) -> CreatureEnter(t, c, x)
          [] ~seen /\ Visible(t.spot[c], from) -> CreatureLeave(t, c, x)
          [] OTHER -> t
SeeMaster(t, c, x) ==
    IF t.master[c] = x /\ Visible(t.spot[c], t.spot[x])
    THEN Activate([t EXCEPT !.near[c] = TRUE], c) ELSE t
TakeTarget(t, c, x) ==
    IF {t.follow[c], t.master[c]} = {NoBeing} /\ Opponent(t, c, x)
    THEN SelectTarget(t, c, x, TRUE) ELSE t

SeeMove(t, c, x, from) ==
    CASE c \in Folk -> SeeMoveBase(t, c, x)
      [] c \in Beasts /\ c = x -> LookAround(SeeMoveBase(t, c, x), c)
      [] c \in Beasts \ {x} ->
            TakeTarget(SeeMaster(PassSight(SeeMoveBase(t, c, x), c, x, from), c, x), c, x)

OnMove(t, r, x, to) ==
    LET s == [t EXCEPT !.spot[x] = to]
        told == SelectSeq(r, LAMBDA c : Placed(s, c)
                    /\ (Visible(s.spot[c], t.spot[x]) \/ Visible(s.spot[c], to)))
    IN  FoldLeft(LAMBDA w, c : SeeMove(w, c, x, t.spot[x]), s, told)

\* onCreatureDisappear of everybody in sight.  The one who leaves hears it too, and is
\* from then on nobody's summon unless the master has left before it.
Gone(t, r, x) ==
    LET told(s, c) ==
            LET u == LoseSight(s, c, x)
            IN  CASE c = x -> [u EXCEPT !.master[x] = IF @ \in u.left THEN @ ELSE NoBeing]
                  [] c \in Beasts \ {x} -> CreatureLeave(u, c, x)
                  [] OTHER -> u
        s == FoldLeft(told, t, Spectators(t, r, t.spot[x]))
    IN  [s EXCEPT !.left = @ \union {x}, !.attacked[x] = NoBeing, !.follow[x] = NoBeing,
                  !.targets[x] = {}, !.friends[x] = {}, !.awake[x] = FALSE, !.near[x] = FALSE]

\* removeCreature, and the summons after it.
RemoveWithSummons(t, r, x) ==
    FoldLeft(LAMBDA s, m : Gone(s, r, m), Gone(t, r, x), SelectSeq(r, LAMBDA m : t.master[m] = x))
-----------------------------------------------------------------------------
Appear(r, x, p) ==
    /\ spot[x] = Nowhere /\ (x \in Beasts => p \notin Haven)
    /\ Becomes(OnAppear([Scene EXCEPT !.spot[x] = p], r, x))

\* SummonSpell: the master comes first, the place then.
Summon(r, c, m, p) ==
    /\ Placed(Scene, c) /\ spot[m] = Nowhere /\ m \in Tame
    /\ p \notin Haven /\ Visible(spot[c], p)
    /\ Becomes(OnAppear([Scene EXCEPT !.spot[m] = p, !.master[m] = c], r, m))

\* A step, or a teleport.
StepTo(r, x, p) ==
    /\ Placed(Scene, x) /\ spot[x] # p /\ (x \in Beasts => p \notin Haven)
    /\ Becomes(OnMove(Scene, r, x, p))

\* A logout, a death.
Depart(r, x) ==
    /\ Placed(Scene, x)
    /\ Becomes(RemoveWithSummons(Scene, r, x))

\* convinceCreature: the lists stay as they are but for who comes in sight.
Convince(r, c, m) ==
    /\ m \in Tame /\ master[m] = NoBeing /\ Sees(Scene, c, m)
    /\ LET t == [Scene EXCEPT !.master[m] = c, !.follow[m] = NoBeing,
                                !.attacked[m] = NoBeing, !.near[m] = TRUE]
           s == Activate(UpdateTargetList(t, m), m)
           told == SelectSeq(r, LAMBDA b : b \in Beasts /\ (Sees(s, b, m) \/ Sees(s, b, c)))
           convinced(u, b) == IF Friend(u, b, m) \/ Opponent(u, b, m)
                              THEN Activate(UpdateTargetList(u, b), b) ELSE u
       IN  Becomes(FoldLeft(convinced, s, told))

\* playerSetAttackedCreature (canTargetCreature), and its chase mode.
SetAttackedCreature(c, x, chase) ==
    /\ Placed(Scene, c) /\ x # c
    /\ Becomes(IF x # NoBeing /\ (~Placed(Scene, x) \/ spot[c] \in Haven \/ spot[x] \in Haven)
               THEN Attack(Scene, c, NoBeing, FALSE) ELSE Attack(Scene, c, x, chase))

FollowCreature(c, x) ==
    /\ Placed(Scene, c) /\ x # c
    /\ LET t == Attack(Scene, c, NoBeing, FALSE)
       IN  Becomes(SetFollow(t, c, IF x # NoBeing /\ ~Placed(Scene, x) THEN NoBeing ELSE x, TRUE))

SetChaseMode(c, chase) ==
    /\ attacked[c] # NoBeing /\ (chase => follow[c] = NoBeing)
    /\ Becomes(SetFollow(Scene, c, IF chase THEN attacked[c] ELSE NoBeing, TRUE))

\* Monster::onThink, in so far as it is not asleep.
ThinkSummon(t, m, found) ==
    CASE t.attacked[m] = NoBeing /\ t.attacked[t.master[m]] # NoBeing ->
            SelectTarget(t, m, t.attacked[t.master[m]], found)
      [] t.attacked[m] = NoBeing /\ t.attacked[t.master[m]] = NoBeing ->
            SetFollow(t, m, t.master[m], found)
      [] t.attacked[m] = m -> SetFollow(t, m, NoBeing, found)
      [] OTHER -> SetFollow(t, m, t.attacked[m], found)

\* searchTarget: any target that can be attacked, but for the one it follows.
SearchTarget(t, m) == {x \in t.targets[m] : t.follow[m] # x /\ IsTarget(t, x)}

MonsterThinks(m, x, found) ==
    LET t == Deactivate(Scene, m)
    IN  /\ Placed(Scene, m)
        /\ CASE ~t.awake[m] -> x = NoBeing /\ Becomes(t)
             [] t.awake[m] /\ t.master[m] # NoBeing ->
                    x = NoBeing /\ Becomes(ThinkSummon(t, m, found))
             [] t.awake[m] /\ t.master[m] = NoBeing ->
                    IF SearchTarget(t, m) = {} THEN x = NoBeing /\ Becomes(t)
                    ELSE \/ x \in SearchTarget(t, m) /\ Becomes(SelectTarget(t, m, x, found))
                         \/ x = NoBeing /\ t.follow[m] # NoBeing /\ Becomes(t)

\* updateCreatureWalk: the path is looked for again.
UpdateCreatureWalk(m) ==
    /\ master[m] # NoBeing /\ follow[m] \in targets[m]
    /\ targets' = [targets EXCEPT ![m] = @ \ {follow[m]}]
    /\ UNCHANGED <<spot, left, attacked, follow, master, friends, awake, near>>

PursuitInit ==
    /\ spot = [c \in Being |-> Nowhere] /\ left = {}
    /\ attacked = [c \in Being |-> NoBeing] /\ follow = attacked /\ master = attacked
    /\ targets = [c \in Being |-> {}] /\ friends = targets
    /\ awake = [c \in Being |-> FALSE] /\ near = awake

PursuitNext ==
    \/ \E r \in Rolls, x \in Being, p \in Spots : Appear(r, x, p) \/ StepTo(r, x, p)
    \/ \E r \in Rolls, x \in Being : Depart(r, x)
    \/ \E r \in Rolls, c \in Folk, m \in Beasts, p \in Spots : Summon(r, c, m, p)
    \/ \E r \in Rolls, c \in Folk, m \in Beasts : Convince(r, c, m)
    \/ \E c \in Folk, x \in Being \union {NoBeing}, chase \in BOOLEAN :
          SetAttackedCreature(c, x, chase)
    \/ \E c \in Folk, x \in Being \union {NoBeing} : FollowCreature(c, x)
    \/ \E c \in Folk, chase \in BOOLEAN : SetChaseMode(c, chase)
    \/ \E m \in Beasts, x \in Being \union {NoBeing}, found \in BOOLEAN : MonsterThinks(m, x, found)
    \/ \E m \in Beasts : UpdateCreatureWalk(m)

PursuitSpec == PursuitInit /\ [][PursuitNext]_pursuitVars
-----------------------------------------------------------------------------
PursuitTypeOK ==
    /\ spot \in [Being -> Spots \union {Nowhere}] /\ left \subseteq Being
    /\ {attacked, follow} \subseteq [Being -> Being \union {NoBeing}]
    /\ master \in [Being -> Folk \union {NoBeing}]
    /\ {targets, friends} \subseteq [Being -> SUBSET Being]
    /\ {awake, near} \subseteq [Being -> BOOLEAN]

\* Whom a creature attacks or follows is in the game and in its sight: no pointer to a
\* creature that has left, whoever removed it.
PursuedInSight ==
    \A c \in Being : \A x \in {attacked[c], follow[c]} : x # NoBeing => Sees(Scene, c, x)

\* NoBeing is attacked in a protection zone or out of one.
PeaceInHaven ==
    \A c \in Being : attacked[c] # NoBeing => spot[c] \notin Haven /\ spot[attacked[c]] \notin Haven

\* Those on the lists of a monster are in sight, except where someone was convinced since:
\* a convinced monster, the friends it had, and its master as a target.
ListsInSight ==
    \A m \in Beasts :
        /\ \A x \in targets[m] : Sees(Scene, m, x) \/ x \in Tame \union {master[m]}
        /\ \A x \in friends[m] : Sees(Scene, m, x) \/ x \in Tame \/ master[m] # NoBeing

\* A wild monster knows every enemy in sight, sleeps only when there is none, and
\* follows whom it attacks.
WildAlert ==
    \A m \in Beasts : Placed(Scene, m) /\ master[m] = NoBeing =>
        /\ \A x \in Being : Sees(Scene, m, x) /\ Opponent(Scene, m, x) => x \in targets[m]
        /\ targets[m] # {} => awake[m]
        /\ attacked[m] = follow[m]

\* A summon knows whether its master is in sight, and is awake while it is.
SummonsNear ==
    \A m \in Beasts : Placed(Scene, m) /\ master[m] # NoBeing =>
        near[m] = Sees(Scene, m, master[m]) /\ (near[m] => awake[m])

PursuitHolds ==
    PursuitTypeOK /\ PursuedInSight /\ PeaceInHaven /\ ListsInSight /\ WildAlert /\ SummonsNear
=============================================================================
