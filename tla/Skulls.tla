------------------------------- MODULE Skulls -------------------------------
(***************************************************************************)
(* Fights between players (player.cpp): who is in one (CONDITION_INFIGHT), *)
(* who is kept out of protection zones (pzLocked), who attacked whom first *)
(* (attackedSet), the skulls that show it, and the kills that were not     *)
(* justified (redSkullTicks), with the red skull and the ban they lead to. *)
(*                                                                         *)
(* Time goes by in turns of checkCreatures: in each the fights run down by *)
(* one and every player thinks.  Left out: zones where fighting is free,   *)
(* players whose flags keep them out of fights, safe mode, monsters, and   *)
(* the two seconds redSkullTicks is rounded up by at a login.              *)
(***************************************************************************)
EXTENDS Integers, FiniteSets

CONSTANTS
    Fighters,
    FightTime,      \* getInFightTicks
    KillTime,       \* WHITE_SKULL_TIME
    FragTime,       \* FRAG_TIME
    LowTicks,       \* redSkullTicks under this are as good as none
    KillsToRed, KillsToBan,
    MaxFrags        \* bound: kills that are counted

ASSUME SkullsAssumption ==
    /\ {FightTime, KillTime, FragTime, KillsToRed, KillsToBan, MaxFrags} \subseteq Nat \ {0}
    /\ KillsToRed <= KillsToBan /\ LowTicks \in 2..FragTime /\ FightTime <= KillTime

Out == -1   \* not in a fight: no such condition

VARIABLES
    online,
    skull,
    attackedSet,
    fight,          \* ticks of the condition, or Out; at 0 its time is up and it is not removed yet
    pzLocked,
    redTicks,       \* redSkullTicks
    partners,       \* the party, if there is one
    banned,
    \* For the properties only:
    frags,          \* kills counted since redTicks was last low
    afterRed        \* whose fight ended with a red skull and the set uncleared

skullVars == <<online, skull, attackedSet, fight, pzLocked, redTicks, partners, banned,
               frags, afterRed>>

HasCondition(p) == fight[p] > 0
IsPartner(p, q) == {p, q} \subseteq partners
Longer(n, m) == IF n >= m THEN n ELSE m

Scores == [skull |-> skull, set |-> attackedSet, fight |-> fight, pz |-> pzLocked,
           red |-> redTicks, ban |-> banned, frags |-> frags, after |-> afterRed]
Become(t) ==
    /\ skull' = t.skull /\ attackedSet' = t.set /\ fight' = t.fight /\ pzLocked' = t.pz
    /\ redTicks' = t.red /\ banned' = t.ban
    /\ frags' = t.frags /\ afterRed' = t.after

\* addInFightTicks: a condition that is there is renewed if that makes it longer.
InFight(t, p, n) == [t EXCEPT !.fight[p] = Longer(n, @)]

\* mutant: the lock is left to the next fight.
FightEndedLocked(t, p) ==
    IF t.skull[p] = "red" THEN [t EXCEPT !.fight[p] = Out]
    ELSE [t EXCEPT !.fight[p] = Out, !.set[p] = {}, !.skull[p] = "none", !.after = @ \ {p}]

\* onEndCondition(CONDITION_INFIGHT).
FightEnded(t, p) ==
    LET s == [t EXCEPT !.fight[p] = Out, !.pz[p] = FALSE]
    IN  IF t.skull[p] = "red"
        THEN [s EXCEPT !.after = IF t.set[p] = {} THEN @ ELSE @ \union {p}]
        ELSE [s EXCEPT !.set[p] = {}, !.skull[p] = "none", !.after = @ \ {p}]
-----------------------------------------------------------------------------
\* onAttackedCreature of the one, onAttacked of the other.
AttackPlayer(p, q) ==
    /\ {p, q} \subseteq online /\ p # q
    /\ LET first == ~IsPartner(p, q) /\ p \notin attackedSet[q]
           s == [Scores EXCEPT !.pz[p] = TRUE]
           t == IF ~first THEN s
                ELSE [s EXCEPT !.set[p] = @ \union {q},
                        !.skull[p] = IF skull[q] = "none" /\ @ = "none" THEN "white" ELSE @]
       IN  Become(InFight(InFight(t, p, FightTime), q, FightTime))
    /\ UNCHANGED <<online, partners>>

\* addUnjustifiedDead.
AddUnjustifiedDead(t, k) ==
    LET n == t.red[k] + FragTime
        s == [t EXCEPT !.red[k] = n, !.frags[k] = @ + 1]
    IN  CASE k \in t.ban -> s
          [] k \notin t.ban /\ t.skull[k] # "red" /\ n >= (KillsToRed - 1) * FragTime ->
                [s EXCEPT !.skull[k] = "red"]
          [] k \notin t.ban /\ t.skull[k] = "red" /\ n >= (KillsToBan - 1) * FragTime ->
                [s EXCEPT !.ban = @ \union {k}]
          [] OTHER -> s

\* onKilledCreature.
KilledBy(t, v, k) ==
    LET s == IF ~IsPartner(k, v) /\ k \notin t.set[v] /\ t.skull[v] = "none"
             THEN AddUnjustifiedDead(t, k) ELSE t
    IN  IF s.fight[k] > 0 THEN InFight([s EXCEPT !.pz[k] = TRUE], k, KillTime) ELSE s

\* onDie: the killer has its kill, then the fight of the dead is over and he leaves.
Die(v, k) ==
    /\ {v, k} \subseteq online /\ v # k /\ frags[k] < MaxFrags
    /\ LET t == KilledBy(Scores, v, k)
       IN  Become(IF t.fight[v] # Out THEN FightEnded(t, v) ELSE t)
    /\ online' = online \ {v} /\ partners' = partners \ {v}

\* canLogout.
LeaveGame(p) ==
    /\ p \in online /\ ~HasCondition(p)
    /\ online' = online \ {p} /\ partners' = partners \ {p} /\ Become(Scores)

\* The kick that follows a ban by a second.
KickPlayer(p) ==
    /\ p \in online \intersect banned
    /\ online' = online \ {p} /\ partners' = partners \ {p} /\ Become(Scores)

\* loadPlayer: a new object with an id of its own; saved are the red skull and the time
\* it has left, which goes on while the player is away.
LoadPlayer(p, n) ==
    /\ p \notin online \union banned
    /\ n \in {0, redTicks[p]}
    /\ online' = online \union {p} /\ UNCHANGED partners
    /\ LET t == [Scores EXCEPT !.red[p] = n, !.pz[p] = FALSE, !.fight[p] = Out,
                    !.set = [q \in Fighters |-> IF q = p THEN {} ELSE @[q] \ {p}],
                    !.skull[p] = IF n > 0 /\ @ = "red" THEN "red" ELSE "none",
                    !.after = @ \ {p}]
       IN  Become(IF n < LowTicks THEN [t EXCEPT !.frags[p] = 0] ELSE t)

\* A party is joined at any time and left out of fights only.
JoinTogether ==
    /\ online = Fighters /\ partners = {} /\ partners' = Fighters
    /\ UNCHANGED <<online, skull, attackedSet, fight, pzLocked, redTicks, banned, frags, afterRed>>
LeaveParty(p) ==
    /\ p \in partners /\ ~HasCondition(p) /\ partners' = partners \ {p}
    /\ UNCHANGED <<online, skull, attackedSet, fight, pzLocked, redTicks, banned, frags, afterRed>>

TimeGoesBy ==
    /\ \E p \in online : fight[p] > 0
    /\ fight' = [p \in Fighters |-> IF p \in online /\ fight[p] > 0 THEN fight[p] - 1 ELSE fight[p]]
    /\ UNCHANGED <<online, skull, attackedSet, pzLocked, redTicks, partners, banned, frags, afterRed>>

\* onThink (checkRedSkullTicks), then executeConditions.
ThinkAndExecute(p) ==
    /\ p \in online
    /\ LET n == IF redTicks[p] - 1 > 0 THEN redTicks[p] - 1 ELSE redTicks[p]
           s == [Scores EXCEPT !.red[p] = n,
                    !.frags[p] = IF n < LowTicks THEN 0 ELSE @,
                    !.skull[p] = IF n < LowTicks /\ ~HasCondition(p) THEN "none" ELSE @]
       IN  Become(IF fight[p] = 0 THEN FightEnded(s, p) ELSE s)
    /\ UNCHANGED <<online, partners>>

SkullsInit ==
    /\ online = Fighters /\ skull = [p \in Fighters |-> "none"]
    /\ attackedSet = [p \in Fighters |-> {}] /\ fight = [p \in Fighters |-> Out]
    /\ pzLocked = [p \in Fighters |-> FALSE] /\ redTicks = [p \in Fighters |-> 0]
    /\ partners = {} /\ banned = {}
    /\ frags = redTicks /\ afterRed = {}

SkullsNext ==
    \/ \E p, q \in Fighters : AttackPlayer(p, q) \/ Die(p, q)
    \/ \E p \in Fighters : LeaveGame(p) \/ KickPlayer(p) \/ LeaveParty(p) \/ ThinkAndExecute(p)
    \/ \E p \in Fighters : \E n \in {0, redTicks[p]} : LoadPlayer(p, n)
    \/ JoinTogether \/ TimeGoesBy

SkullsSpec == SkullsInit /\ [][SkullsNext]_skullVars
-----------------------------------------------------------------------------
SkullsTypeOK ==
    /\ online \subseteq Fighters /\ partners \subseteq Fighters /\ banned \subseteq Fighters
    /\ skull \in [Fighters -> {"none", "white", "red"}]
    /\ attackedSet \in [Fighters -> SUBSET Fighters]
    /\ fight \in [Fighters -> {Out} \union 0..KillTime] /\ pzLocked \in [Fighters -> BOOLEAN]
    /\ redTicks \in [Fighters -> Nat]

\* Of two players at most one attacked the other first: one who defends himself is never
\* marked as an aggressor.
OneAggressor ==
    \A p, q \in Fighters : q \in attackedSet[p] => p \notin attackedSet[q]

\* Who is in no fight is not locked out, has no white skull and attacked nobody.  (The set
\* of a red skull is left as it is when the fight ends.)
PeaceClears ==
    \A p \in online : fight[p] = Out =>
        ~pzLocked[p] /\ skull[p] # "white" /\ (attackedSet[p] = {} \/ p \in afterRed)

\* Who has the ticks of a red skull killed at least one player fewer than KillsToRed says,
\* and of a ban one fewer than KillsToBan: what is left of an earlier kill never counts as
\* one.  (It is one fewer when the kills follow each other between two turns.)
RedByKills ==
    \A p \in online :
        /\ skull[p] = "red" /\ redTicks[p] >= (KillsToRed - 1) * FragTime => frags[p] >= KillsToRed - 1
        /\ p \in banned /\ redTicks[p] >= (KillsToBan - 1) * FragTime => frags[p] >= KillsToBan - 1

SkullsHold == SkullsTypeOK /\ OneAggressor /\ PeaceClears /\ RedByKills
=============================================================================
