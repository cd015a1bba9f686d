---------------------------- MODULE CombatProofs ----------------------------
(***************************************************************************)
(* Proofs about fights: the skulls that players get, for any players,      *)
(* times and numbers of kills; and what a monster takes the map around it  *)
(* to be, for any map, range of view, items and kinds of items.            *)
(***************************************************************************)
EXTENDS Skulls, WalkMap, Deaths, Loops

-----------------------------------------------------------------------------
(* Fights between players.                                                 *)

Boards ==
    [skull : [Fighters -> {"none", "white", "red"}], set : [Fighters -> SUBSET Fighters],
     fight : [Fighters -> {Out} \union 0..KillTime], pz : [Fighters -> BOOLEAN],
     red : [Fighters -> Nat], ban : SUBSET Fighters,
     frags : [Fighters -> Nat], after : SUBSET Fighters]

Ordered(t) == \A p, q \in Fighters : q \in t.set[p] => p \notin t.set[q]

Peaceful(t, p) ==
    t.fight[p] = Out => ~t.pz[p] /\ t.skull[p] # "white" /\ (t.set[p] = {} \/ p \in t.after)

\* The ticks of a red skull are those of the kills that are counted, and less than one
\* more that is left of earlier ones.
Owed(t) == \A p \in Fighters : t.red[p] < LowTicks + t.frags[p] * FragTime

Fair(t, present) == t \in Boards /\ Ordered(t) /\ Owed(t) /\ \A p \in present : Peaceful(t, p)

\* The inductive invariant behind SkullsHold.
SkullsInv == online \subseteq Fighters /\ partners \subseteq Fighters /\ Fair(Scores, online)
LEMMA Numbers ==
    /\ FightTime \in Nat /\ KillTime \in Nat /\ FragTime \in Nat /\ LowTicks \in Nat
    /\ KillsToRed \in Nat /\ KillsToBan \in Nat
    /\ 1 <= FightTime /\ FightTime <= KillTime /\ 1 <= FragTime
    /\ 1 <= KillsToRed /\ 1 <= KillsToBan /\ 2 <= LowTicks /\ LowTicks <= FragTime
    /\ Out = 0 - 1
BY SkullsAssumption DEF SkullsAssumption, Out

LEMMA LongerIs ==
    ASSUME NEW n \in 1..KillTime, NEW m \in {Out} \union 0..KillTime
    PROVE  Longer(n, m) \in 1..KillTime
BY Numbers DEF Longer

\* A fight that begins or is renewed.
LEMMA InFightIs ==
    ASSUME NEW t \in Boards, NEW p \in Fighters, NEW n \in 1..KillTime, NEW r, r = InFight(t, p, n)
    PROVE  /\ r \in Boards /\ r.fight[p] # Out /\ \A q \in Fighters : q # p => r.fight[q] = t.fight[q]
           /\ r.set = t.set /\ r.skull = t.skull /\ r.pz = t.pz
           /\ r.red = t.red /\ r.ban = t.ban /\ r.frags = t.frags /\ r.after = t.after
<1> DEFINE f == [t.fight EXCEPT ![p] = Longer(n, @)]
<1>1. t.fight \in [Fighters -> {Out} \union 0..KillTime]
  BY DEF Boards
<1>2. Longer(n, t.fight[p]) \in 1..KillTime
  BY <1>1, LongerIs
<1>3. f \in [Fighters -> {Out} \union 0..KillTime] /\ f[p] # Out
      /\ \A q \in Fighters : q # p => f[q] = t.fight[q]
  BY <1>1, <1>2, Numbers
<1>4. r = [t EXCEPT !.fight = f]
  BY DEF InFight, Boards
<1> HIDE DEF f
<1> QED BY <1>3, <1>4 DEF Boards

LEMMA InFightKeeps ==
    ASSUME NEW present \in SUBSET Fighters, NEW t, Fair(t, present), NEW p \in Fighters,
           NEW n \in 1..KillTime
    PROVE  Fair(InFight(t, p, n), present)
<1>1. PICK r : r = InFight(t, p, n)
  OBVIOUS
<1>2. t \in Boards
  BY DEF Fair
<1>3. /\ r \in Boards /\ r.fight[p] # Out /\ \A q \in Fighters : q # p => r.fight[q] = t.fight[q]
      /\ r.set = t.set /\ r.skull = t.skull /\ r.pz = t.pz
      /\ r.red = t.red /\ r.ban = t.ban /\ r.frags = t.frags /\ r.after = t.after
  BY <1>1, <1>2, InFightIs
<1>4. Ordered(r) /\ Owed(r)
  BY <1>3 DEF Fair, Ordered, Owed
<1>5. \A q \in present : Peaceful(r, q)
  BY <1>3 DEF Fair, Peaceful
<1> QED BY <1>1, <1>3, <1>4, <1>5 DEF Fair

\* The end of a fight.
LEMMA FightEndedKeeps ==
    ASSUME NEW present \in SUBSET Fighters, NEW t, Fair(t, present), NEW p \in Fighters
    PROVE  Fair(FightEnded(t, p), present)
<1> DEFINE f == [t.fight EXCEPT ![p] = Out]
           z == [t.pz EXCEPT ![p] = FALSE]
           a == IF t.set[p] = {} THEN t.after ELSE t.after \union {p}
           e == [t.set EXCEPT ![p] = {}]
           k == [t.skull EXCEPT ![p] = "none"]
           s == [t EXCEPT !.fight[p] = Out, !.pz[p] = FALSE]
           red == [t EXCEPT !.fight = f, !.pz = z, !.after = a]
           clear == [t EXCEPT !.fight = f, !.pz = z, !.set = e, !.skull = k, !.after = t.after \ {p}]
<1>1. t \in Boards /\ Ordered(t) /\ Owed(t)
  BY DEF Fair
<1>2. /\ f \in [Fighters -> {Out} \union 0..KillTime] /\ z \in [Fighters -> BOOLEAN]
      /\ a \in SUBSET Fighters /\ e \in [Fighters -> SUBSET Fighters]
      /\ k \in [Fighters -> {"none", "white", "red"}]
      /\ ~z[p] /\ e[p] = {} /\ k[p] = "none"
      /\ \A q \in Fighters : q # p =>
            f[q] = t.fight[q] /\ z[q] = t.pz[q] /\ e[q] = t.set[q] /\ k[q] = t.skull[q]
  BY <1>1 DEF Boards
<1>3. s = [t EXCEPT !.fight = f, !.pz = z]
  BY <1>1 DEF Boards
<1>4. CASE t.skull[p] = "red"
  <2>1. FightEnded(t, p) = [s EXCEPT !.after = a]
    <3>1. s.after = t.after
      BY <1>1, <1>3 DEF Boards
    <3> QED BY <1>1, <1>4, <3>1 DEF FightEnded, Boards
  <2>2. t.set[p] = {} \/ p \in a
    OBVIOUS
  <2>3. t.after \subseteq a
    OBVIOUS
  <2> HIDE DEF f, z, a, e, k, s
  <2>4. FightEnded(t, p) = red
    BY <1>1, <1>3, <2>1 DEF Boards
  <2>5. /\ red \in Boards /\ red.fight = f /\ red.pz = z /\ red.after = a
        /\ red.set = t.set /\ red.skull = t.skull /\ red.red = t.red /\ red.frags = t.frags
    BY <1>1, <1>2 DEF Boards
  <2> HIDE DEF red
  <2>6. Ordered(red) /\ Owed(red)
    BY <1>1, <2>5 DEF Ordered, Owed
  <2>7. \A q \in present : Peaceful(red, q)
    BY <1>2, <1>4, <2>2, <2>3, <2>5 DEF Fair, Peaceful
  <2> QED BY <2>4, <2>5, <2>6, <2>7 DEF Fair
<1>5. CASE t.skull[p] # "red"
  <2>1. FightEnded(t, p) = [s EXCEPT !.set = e, !.skull = k, !.after = t.after \ {p}]
    <3>1. s.after = t.after /\ s.set = t.set /\ s.skull = t.skull /\ s \in Boards
      BY <1>1, <1>2, <1>3 DEF Boards
    <3>2. FightEnded(t, p) = [s EXCEPT !.set[p] = {}, !.skull[p] = "none", !.after = @ \ {p}]
      BY <1>5 DEF FightEnded
    <3> HIDE DEF s
    <3> QED BY <3>1, <3>2 DEF Boards
  <2> HIDE DEF f, z, a, e, k, s
  <2>2. FightEnded(t, p) = clear
    BY <1>1, <1>3, <2>1 DEF Boards
  <2>3. /\ clear \in Boards /\ clear.fight = f /\ clear.pz = z /\ clear.after = t.after \ {p}
        /\ clear.set = e /\ clear.skull = k /\ clear.red = t.red /\ clear.frags = t.frags
    BY <1>1, <1>2 DEF Boards
  <2> HIDE DEF clear
  <2>4. Ordered(clear) /\ Owed(clear)
    BY <1>1, <1>2, <2>3 DEF Ordered, Owed
  <2>5. \A q \in present : Peaceful(clear, q)
    BY <1>2, <2>3 DEF Fair, Peaceful
  <2> QED BY <2>2, <2>3, <2>4, <2>5 DEF Fair
<1> QED BY <1>4, <1>5

\* Who is in a fight has nothing to clear.
LEMMA FightingIsFair ==
    ASSUME NEW present \in SUBSET Fighters, NEW t, NEW p \in Fighters,
           Fair(t, present \ {p}), t.fight[p] # Out
    PROVE  Fair(t, present)
BY DEF Fair, Peaceful

LEMMA LockedIs ==
    ASSUME NEW t \in Boards, NEW p \in Fighters
    PROVE  LET r == [t EXCEPT !.pz[p] = TRUE]
           IN  /\ r \in Boards
               /\ \A q \in Fighters : q # p => r.pz[q] = t.pz[q]
               /\ r.fight = t.fight /\ r.set = t.set /\ r.skull = t.skull
               /\ r.red = t.red /\ r.frags = t.frags /\ r.after = t.after
<1> DEFINE z == [t.pz EXCEPT ![p] = TRUE]
           r == [t EXCEPT !.pz = z]
<1>1. z \in [Fighters -> BOOLEAN] /\ \A q \in Fighters : q # p => z[q] = t.pz[q]
  BY DEF Boards
<1>2. [t EXCEPT !.pz[p] = TRUE] = r
  BY DEF Boards
<1> HIDE DEF z
<1>3. /\ r \in Boards /\ r.pz = z
      /\ r.fight = t.fight /\ r.set = t.set /\ r.skull = t.skull
      /\ r.red = t.red /\ r.frags = t.frags /\ r.after = t.after
  BY <1>1 DEF Boards
<1> QED BY <1>1, <1>2, <1>3

LEMMA OneMoreKill ==
    ASSUME NEW n \in Nat, NEW f \in Nat, n < LowTicks + f * FragTime
    PROVE  n + FragTime < LowTicks + (f + 1) * FragTime
<1>1. (f + 1) * FragTime = f * FragTime + FragTime /\ f * FragTime \in Nat
  BY Numbers
<1> QED BY <1>1, Numbers

\* A kill that was not justified adds its ticks and is counted.
LEMMA AddUnjustifiedDeadKeeps ==
    ASSUME NEW present \in SUBSET Fighters, NEW t, Fair(t, present), NEW k \in Fighters
    PROVE  Fair(AddUnjustifiedDead(t, k), present)
<1> DEFINE n == t.red[k] + FragTime
           rs == [t.red EXCEPT ![k] = n]
           fs == [t.frags EXCEPT ![k] = @ + 1]
           sk == [t.skull EXCEPT ![k] = "red"]
           s == [t EXCEPT !.red = rs, !.frags = fs]
<1>1. t \in Boards /\ Ordered(t) /\ Owed(t) /\ \A p \in present : Peaceful(t, p)
  BY DEF Fair
<1>2. /\ rs \in [Fighters -> Nat] /\ fs \in [Fighters -> Nat]
      /\ rs[k] = t.red[k] + FragTime /\ fs[k] = t.frags[k] + 1
      /\ \A q \in Fighters : q # k => rs[q] = t.red[q] /\ fs[q] = t.frags[q]
  BY <1>1, Numbers DEF Boards
<1>3. sk \in [Fighters -> {"none", "white", "red"}] /\ sk[k] = "red"
      /\ \A q \in Fighters : q # k => sk[q] = t.skull[q]
  BY <1>1 DEF Boards
<1>4. [t EXCEPT !.red[k] = n, !.frags[k] = @ + 1] = s
  BY <1>1 DEF Boards
<1>5. /\ s \in Boards /\ s.red = rs /\ s.frags = fs
      /\ s.skull = t.skull /\ s.fight = t.fight /\ s.set = t.set /\ s.pz = t.pz
      /\ s.ban = t.ban /\ s.after = t.after
  <2> HIDE DEF n, rs, fs
  <2> QED BY <1>1, <1>2 DEF Boards
<1>6. [s EXCEPT !.skull[k] = "red"] = [s EXCEPT !.skull = sk]
  <2> HIDE DEF s
  <2> QED BY <1>5 DEF Boards
<1>7. AddUnjustifiedDead(t, k) \in {s, [s EXCEPT !.skull = sk], [s EXCEPT !.ban = @ \union {k}]}
  <2>1. AddUnjustifiedDead(t, k) \in {s, [s EXCEPT !.skull[k] = "red"], [s EXCEPT !.ban = @ \union {k}]}
    <3>1. AddUnjustifiedDead(t, k) =
            CASE k \in t.ban -> s
              [] k \notin t.ban /\ t.skull[k] # "red" /\ n >= (KillsToRed - 1) * FragTime ->
                    [s EXCEPT !.skull[k] = "red"]
              [] k \notin t.ban /\ t.skull[k] = "red" /\ n >= (KillsToBan - 1) * FragTime ->
                    [s EXCEPT !.ban = @ \union {k}]
              [] OTHER -> s
      BY <1>4 DEF AddUnjustifiedDead
    <3> HIDE DEF s, n
    <3> QED BY <3>1
  <2> HIDE DEF s, sk
  <2> QED BY <2>1, <1>6
<1> HIDE DEF n, rs, fs, sk, s
<1>8. PICK r : r = AddUnjustifiedDead(t, k)
  OBVIOUS
<1>9. /\ r \in Boards /\ r.red = rs /\ r.frags = fs /\ r.fight = t.fight /\ r.set = t.set
      /\ r.pz = t.pz /\ r.after = t.after /\ r.skull \in {t.skull, sk}
  BY <1>3, <1>5, <1>7, <1>8 DEF Boards
<1>10. Ordered(r)
  BY <1>1, <1>9 DEF Ordered
<1>11. Owed(r)
  <2> SUFFICES ASSUME NEW q \in Fighters PROVE rs[q] < LowTicks + fs[q] * FragTime
    BY <1>9 DEF Owed
  <2>1. t.red[q] \in Nat /\ t.frags[q] \in Nat /\ t.red[q] < LowTicks + t.frags[q] * FragTime
    BY <1>1 DEF Owed, Boards
  <2>2. CASE q = k
    <3>1. t.red[q] + FragTime < LowTicks + (t.frags[q] + 1) * FragTime
      BY <2>1, OneMoreKill
    <3> QED BY <1>2, <2>2, <3>1
  <2>3. CASE q # k
    BY <1>2, <2>1, <2>3
  <2> QED BY <2>2, <2>3
<1>12. \A p \in present : Peaceful(r, p)
  BY <1>1, <1>3, <1>9 DEF Peaceful
<1> QED BY <1>8, <1>9, <1>10, <1>11, <1>12 DEF Fair

LEMMA KilledByKeeps ==
    ASSUME NEW present \in SUBSET Fighters, NEW t, Fair(t, present), NEW v \in Fighters, NEW k \in Fighters
    PROVE  Fair(KilledBy(t, v, k), present)
<1>1. PICK s : s = IF ~IsPartner(k, v) /\ k \notin t.set[v] /\ t.skull[v] = "none"
                   THEN AddUnjustifiedDead(t, k) ELSE t
  OBVIOUS
<1>2. Fair(s, present)
  BY <1>1, AddUnjustifiedDeadKeeps
<1>3. KilledBy(t, v, k) =
        IF s.fight[k] > 0 THEN InFight([s EXCEPT !.pz[k] = TRUE], k, KillTime) ELSE s
  BY <1>1 DEF KilledBy
<1>4. PICK l : l = [s EXCEPT !.pz[k] = TRUE]
  OBVIOUS
<1>5. /\ l \in Boards /\ \A q \in Fighters : q # k => l.pz[q] = s.pz[q]
      /\ l.fight = s.fight /\ l.set = s.set /\ l.skull = s.skull
      /\ l.red = s.red /\ l.frags = s.frags /\ l.after = s.after
  BY <1>2, <1>4, LockedIs DEF Fair
<1>6. Fair(l, present \ {k})
  BY <1>2, <1>5 DEF Fair, Ordered, Owed, Peaceful
<1>7. KillTime \in 1..KillTime
  BY Numbers
<1>8. Fair(InFight(l, k, KillTime), present)
  <2>1. Fair(InFight(l, k, KillTime), present \ {k}) /\ InFight(l, k, KillTime).fight[k] # Out
    <3>1. present \ {k} \in SUBSET Fighters
      OBVIOUS
    <3>2. PICK kept : kept = present \ {k}
      OBVIOUS
    <3>3. Fair(InFight(l, k, KillTime), kept)
      <4>1. kept \in SUBSET Fighters /\ Fair(l, kept)
        BY <1>6, <3>1, <3>2
      <4> QED BY <1>7, <4>1, InFightKeeps
    <3>4. InFight(l, k, KillTime).fight[k] # Out
      BY <1>5, <1>7, InFightIs
    <3> QED BY <3>2, <3>3, <3>4
  <2> QED BY <2>1, FightingIsFair
<1> QED BY <1>2, <1>3, <1>4, <1>8

-----------------------------------------------------------------------------
LEMMA BecomesFair ==
    ASSUME NEW t, Become(t), Fair(t, online'), online' \subseteq Fighters, partners' \subseteq Fighters
    PROVE  SkullsInv'
<1>1. t \in Boards
  BY DEF Fair
<1>2. Scores' = t
  BY <1>1 DEF Become, Scores, Boards
<1>3. Fair(Scores', online')
  BY <1>2
<1> QED BY <1>3 DEF SkullsInv

LEMMA AttackPlayerKeeps ==
    ASSUME SkullsInv, NEW p \in Fighters, NEW q \in Fighters, AttackPlayer(p, q)
    PROVE  SkullsInv'
<1>1. PICK s : s = [Scores EXCEPT !.pz[p] = TRUE]
  OBVIOUS
<1>2. Fair(Scores, online) /\ Scores \in Boards /\ online \in SUBSET Fighters
  BY DEF SkullsInv, Fair
<1>3. /\ s \in Boards /\ \A r \in Fighters : r # p => s.pz[r] = Scores.pz[r]
      /\ s.fight = Scores.fight /\ s.set = Scores.set /\ s.skull = Scores.skull
      /\ s.red = Scores.red /\ s.frags = Scores.frags /\ s.after = Scores.after
  BY <1>1, <1>2, LockedIs
<1>4. p # q /\ UNCHANGED <<online, partners>>
  BY DEF AttackPlayer
<1> DEFINE es == [s.set EXCEPT ![p] = @ \union {q}]
           ks == [s.skull EXCEPT ![p] = IF skull[q] = "none" /\ @ = "none" THEN "white" ELSE @]
<1>5. PICK t : t = IF ~(~IsPartner(p, q) /\ p \notin attackedSet[q]) THEN s
                   ELSE [s EXCEPT !.set[p] = @ \union {q},
                          !.skull[p] = IF skull[q] = "none" /\ @ = "none" THEN "white" ELSE @]
  OBVIOUS
<1>6. Become(InFight(InFight(t, p, FightTime), q, FightTime))
  BY <1>1, <1>5 DEF AttackPlayer
<1>7. t \in Boards /\ Ordered(t) /\ Owed(t) /\ t.fight = s.fight /\ t.pz = s.pz /\ t.after = s.after
      /\ \A r \in Fighters : r # p => t.skull[r] = s.skull[r] /\ t.set[r] = s.set[r]
  <2>1. CASE t = s
    BY <1>2, <1>3, <2>1 DEF Fair, Ordered, Owed
  <2>2. CASE p \notin attackedSet[q] /\ t = [s EXCEPT !.set = es, !.skull = ks]
    <3>1. /\ es \in [Fighters -> SUBSET Fighters] /\ ks \in [Fighters -> {"none", "white", "red"}]
          /\ es[p] = s.set[p] \union {q}
          /\ \A r \in Fighters : r # p => es[r] = s.set[r] /\ ks[r] = s.skull[r]
      BY <1>3 DEF Boards
    <3>2. p \notin s.set[q]
      BY <1>3, <2>2 DEF Scores
    <3> HIDE DEF es, ks
    <3>3. /\ t \in Boards /\ t.set = es /\ t.skull = ks /\ t.fight = s.fight /\ t.pz = s.pz
          /\ t.red = s.red /\ t.frags = s.frags /\ t.after = s.after
      BY <1>3, <2>2, <3>1 DEF Boards
    <3>4. Ordered(s) /\ Owed(s)
      BY <1>2, <1>3 DEF Fair, Ordered, Owed
    <3>5. Ordered(t)
      BY <1>4, <3>1, <3>2, <3>3, <3>4 DEF Ordered
    <3>6. Owed(t)
      BY <3>3, <3>4 DEF Owed
    <3> QED BY <3>1, <3>3, <3>5, <3>6
  <2>3. t = s \/ (p \notin attackedSet[q] /\ t = [s EXCEPT !.set = es, !.skull = ks])
    <3>1. [s EXCEPT !.set[p] = @ \union {q},
                    !.skull[p] = IF skull[q] = "none" /\ @ = "none" THEN "white" ELSE @]
          = [s EXCEPT !.set = es, !.skull = ks]
      BY <1>3 DEF Boards
    <3> HIDE DEF es, ks
    <3> QED BY <1>5, <3>1
  <2> QED BY <2>1, <2>2, <2>3
<1>8. Fair(t, online \ {p})
  BY <1>2, <1>3, <1>7 DEF Fair, Peaceful
<1>9. FightTime \in 1..KillTime /\ online \ {p} \in SUBSET Fighters
  BY <1>2, Numbers
<1>10. PICK u : u = InFight(t, p, FightTime)
  OBVIOUS
<1>11. Fair(u, online)
  <2>1. Fair(u, online \ {p}) /\ u.fight[p] # Out
    <3>1. Fair(u, online \ {p})
      BY <1>8, <1>9, <1>10, InFightKeeps
    <3>2. u.fight[p] # Out
      BY <1>8, <1>9, <1>10, InFightIs DEF Fair
    <3> QED BY <3>1, <3>2
  <2> QED BY <1>2, <2>1, FightingIsFair
<1>12. Fair(InFight(u, q, FightTime), online)
  BY <1>2, <1>9, <1>11, InFightKeeps
<1> QED BY <1>2, <1>4, <1>6, <1>10, <1>12, BecomesFair DEF SkullsInv

LEMMA DieKeeps ==
    ASSUME SkullsInv, NEW v \in Fighters, NEW k \in Fighters, Die(v, k)
    PROVE  SkullsInv'
<1>1. PICK t : t = KilledBy(Scores, v, k)
  OBVIOUS
<1>2. Become(IF t.fight[v] # Out THEN FightEnded(t, v) ELSE t)
      /\ online' = online \ {v} /\ partners' = partners \ {v}
  BY <1>1 DEF Die
<1>3. Fair(t, online) /\ online \in SUBSET Fighters
  BY <1>1, KilledByKeeps DEF SkullsInv
<1>4. Fair(FightEnded(t, v), online)
  BY <1>3, FightEndedKeeps
<1>5. \A u : Fair(u, online) => Fair(u, online')
  BY <1>2 DEF Fair
<1>6. PICK u : u = (IF t.fight[v] # Out THEN FightEnded(t, v) ELSE t)
  OBVIOUS
<1> QED BY <1>2, <1>3, <1>4, <1>5, <1>6, BecomesFair DEF SkullsInv

\* Who goes leaves the scores as they are.
LEMMA LeaveKeeps ==
    ASSUME SkullsInv, Become(Scores), online' \subseteq online, partners' \subseteq Fighters
    PROVE  SkullsInv'
BY BecomesFair DEF SkullsInv, Fair

LEMMA LoadPlayerKeeps ==
    ASSUME SkullsInv, NEW p \in Fighters, NEW n \in {0, redTicks[p]}, LoadPlayer(p, n)
    PROVE  SkullsInv'
<1> DEFINE rs == [redTicks EXCEPT ![p] = n]
           zs == [pzLocked EXCEPT ![p] = FALSE]
           fs == [fight EXCEPT ![p] = Out]
           es == [q \in Fighters |-> IF q = p THEN {} ELSE attackedSet[q] \ {p}]
           ks == [skull EXCEPT ![p] = IF n > 0 /\ @ = "red" THEN "red" ELSE "none"]
           gs == [frags EXCEPT ![p] = 0]
           t == [Scores EXCEPT !.red = rs, !.pz = zs, !.fight = fs, !.set = es, !.skull = ks,
                               !.after = afterRed \ {p}]
           u == IF n < LowTicks THEN [t EXCEPT !.frags = gs] ELSE t
<1>1. Scores \in Boards /\ Ordered(Scores) /\ Owed(Scores)
      /\ \A q \in online : Peaceful(Scores, q)
  BY DEF SkullsInv, Fair
<1>2. n \in Nat /\ (n >= LowTicks => n = redTicks[p])
  BY <1>1, Numbers DEF Boards, Scores
<1>3. /\ rs \in [Fighters -> Nat] /\ zs \in [Fighters -> BOOLEAN]
      /\ fs \in [Fighters -> {Out} \union 0..KillTime] /\ es \in [Fighters -> SUBSET Fighters]
      /\ ks \in [Fighters -> {"none", "white", "red"}] /\ gs \in [Fighters -> Nat]
      /\ rs[p] = n /\ ~zs[p] /\ es[p] = {} /\ ks[p] # "white" /\ gs[p] = 0
      /\ \A q \in Fighters : q # p =>
            /\ rs[q] = redTicks[q] /\ zs[q] = pzLocked[q] /\ fs[q] = fight[q]
            /\ es[q] \subseteq attackedSet[q] /\ ks[q] = skull[q] /\ gs[q] = frags[q]
  BY <1>1, <1>2 DEF Boards, Scores
<1>4. [Scores EXCEPT !.red[p] = n, !.pz[p] = FALSE, !.fight[p] = Out,
              !.set = [q \in Fighters |-> IF q = p THEN {} ELSE @[q] \ {p}],
              !.skull[p] = IF n > 0 /\ @ = "red" THEN "red" ELSE "none",
              !.after = @ \ {p}] = t
  BY DEF Scores
<1>5. /\ t \in Boards /\ t.red = rs /\ t.pz = zs /\ t.fight = fs /\ t.set = es /\ t.skull = ks
      /\ t.after = afterRed \ {p} /\ t.frags = frags
  <2> HIDE DEF rs, zs, fs, es, ks
  <2> QED BY <1>1, <1>3 DEF Boards, Scores
<1>6. Become(u) /\ online' = online \union {p} /\ partners' = partners
  <2>1. [t EXCEPT !.frags[p] = 0] = [t EXCEPT !.frags = gs]
    <3> HIDE DEF t
    <3> QED BY <1>5 DEF Boards
  <2> HIDE DEF t, gs
  <2> QED BY <1>4, <2>1 DEF LoadPlayer
<1> HIDE DEF rs, zs, fs, es, ks, gs, t
<1>7. /\ u \in Boards /\ u.red = rs /\ u.pz = zs /\ u.fight = fs /\ u.set = es /\ u.skull = ks
      /\ u.after = afterRed \ {p}
      /\ u.frags = IF n < LowTicks THEN gs ELSE frags
  BY <1>3, <1>5 DEF Boards
<1> HIDE DEF u
<1>8. Ordered(u)
  <2>1. \A q, r \in Fighters : r \in attackedSet[q] => q \notin attackedSet[r]
    BY <1>1 DEF Ordered, Scores
  <2> QED BY <1>3, <1>7, <2>1 DEF Ordered
<1>9. Owed(u)
  <2> SUFFICES ASSUME NEW q \in Fighters PROVE u.red[q] < LowTicks + u.frags[q] * FragTime
    BY DEF Owed
  <2>1. redTicks[q] < LowTicks + frags[q] * FragTime
    BY <1>1 DEF Owed, Scores
  <2>2. CASE q # p
    BY <1>3, <1>7, <2>1, <2>2
  <2>3. CASE q = p /\ n < LowTicks
    <3>1. u.frags[q] * FragTime = 0
      BY <1>3, <1>7, <2>3, Numbers
    <3> QED BY <1>2, <1>3, <1>7, <2>3, <3>1, Numbers
  <2>4. CASE q = p /\ ~(n < LowTicks)
    <3>1. n = redTicks[p]
      BY <1>2, <2>4, Numbers
    <3> QED BY <1>3, <1>7, <2>1, <2>4, <3>1
  <2> QED BY <2>2, <2>3, <2>4
<1>10. \A q \in online' : Peaceful(u, q)
  <2> SUFFICES ASSUME NEW q \in online' PROVE Peaceful(u, q)
    OBVIOUS
  <2>1. CASE q = p
    BY <1>3, <1>7, <2>1 DEF Peaceful
  <2>2. CASE q # p
    <3>1. q \in online /\ q \in Fighters
      BY <1>6, <2>2 DEF SkullsInv
    <3>2. fight[q] = Out =>
             ~pzLocked[q] /\ skull[q] # "white" /\ (attackedSet[q] = {} \/ q \in afterRed)
      BY <1>1, <3>1 DEF Peaceful, Scores
    <3>3. u.fight[q] = fight[q] /\ u.pz[q] = pzLocked[q] /\ u.skull[q] = skull[q]
          /\ u.set[q] \subseteq attackedSet[q] /\ (q \in afterRed => q \in u.after)
      BY <1>3, <1>7, <2>2, <3>1
    <3> QED BY <3>2, <3>3 DEF Peaceful
  <2> QED BY <2>1, <2>2
<1> QED BY <1>6, <1>7, <1>8, <1>9, <1>10, BecomesFair DEF Fair, SkullsInv

LEMMA ThinkAndExecuteKeeps ==
    ASSUME SkullsInv, NEW p \in Fighters, ThinkAndExecute(p)
    PROVE  SkullsInv'
<1> DEFINE n == IF redTicks[p] - 1 > 0 THEN redTicks[p] - 1 ELSE redTicks[p]
           rs == [redTicks EXCEPT ![p] = n]
           gs == [frags EXCEPT ![p] = IF n < LowTicks THEN 0 ELSE @]
           ks == [skull EXCEPT ![p] = IF n < LowTicks /\ ~HasCondition(p) THEN "none" ELSE @]
           s == [Scores EXCEPT !.red = rs, !.frags = gs, !.skull = ks]
<1>1. Scores \in Boards /\ Ordered(Scores) /\ Owed(Scores)
      /\ online \in SUBSET Fighters /\ \A q \in online : Peaceful(Scores, q)
  BY DEF SkullsInv, Fair
<1>2. n \in Nat /\ n <= redTicks[p]
  BY <1>1, Numbers DEF Boards, Scores
<1>3. [Scores EXCEPT !.red[p] = n,
                     !.frags[p] = IF n < LowTicks THEN 0 ELSE @,
                     !.skull[p] = IF n < LowTicks /\ ~HasCondition(p) THEN "none" ELSE @] = s
  BY DEF Scores
<1>4. Become(IF fight[p] = 0 THEN FightEnded(s, p) ELSE s) /\ UNCHANGED <<online, partners>>
  <2> HIDE DEF s
  <2> QED BY <1>3 DEF ThinkAndExecute
<1> HIDE DEF n
<1>5. /\ rs \in [Fighters -> Nat] /\ gs \in [Fighters -> Nat]
      /\ ks \in [Fighters -> {"none", "white", "red"}]
      /\ rs[p] = n /\ gs[p] = (IF n < LowTicks THEN 0 ELSE frags[p])
      /\ \A q \in Fighters : q # p => rs[q] = redTicks[q] /\ gs[q] = frags[q]
      /\ \A q \in Fighters : ks[q] \in {"none", skull[q]}
  BY <1>1, <1>2 DEF Boards, Scores
<1> HIDE DEF rs, gs, ks
<1>6. /\ s \in Boards /\ s.red = rs /\ s.frags = gs /\ s.skull = ks /\ s.pz = pzLocked
      /\ s.fight = fight /\ s.set = attackedSet /\ s.after = afterRed
  BY <1>1, <1>5 DEF Boards, Scores
<1> HIDE DEF s
<1>7. Ordered(s)
  BY <1>1, <1>6 DEF Ordered, Scores
<1>8. Owed(s)
  <2> SUFFICES ASSUME NEW q \in Fighters PROVE s.red[q] < LowTicks + s.frags[q] * FragTime
    BY DEF Owed
  <2>1. redTicks[q] < LowTicks + frags[q] * FragTime
    BY <1>1 DEF Owed, Scores
  <2>2. redTicks[q] \in Nat /\ frags[q] \in Nat /\ frags[q] * FragTime \in Nat
    BY <1>1, Numbers DEF Boards, Scores
  <2>3. CASE q # p
    BY <1>5, <1>6, <2>1, <2>3
  <2>4. CASE q = p /\ n < LowTicks
    <3>1. s.frags[q] * FragTime = 0
      BY <1>5, <1>6, <2>4, Numbers
    <3> QED BY <1>2, <1>5, <1>6, <2>4, <3>1, Numbers
  <2>5. CASE q = p /\ ~(n < LowTicks)
    BY <1>2, <1>5, <1>6, <2>1, <2>2, <2>5, Numbers
  <2> QED BY <2>3, <2>4, <2>5
<1>9. \A q \in online : Peaceful(s, q)
  BY <1>1, <1>5, <1>6 DEF Peaceful, Scores
<1>10. Fair(s, online)
  BY <1>6, <1>7, <1>8, <1>9 DEF Fair
<1>11. Fair(FightEnded(s, p), online)
  BY <1>1, <1>10, FightEndedKeeps
<1>12. PICK u : u = (IF fight[p] = 0 THEN FightEnded(s, p) ELSE s)
  OBVIOUS
<1> QED BY <1>4, <1>10, <1>11, <1>12, BecomesFair DEF SkullsInv

LEMMA TimeGoesByKeeps ==
    ASSUME SkullsInv, TimeGoesBy
    PROVE  SkullsInv'
<1> DEFINE fs == [p \in Fighters |-> IF p \in online /\ fight[p] > 0 THEN fight[p] - 1 ELSE fight[p]]
           t == [Scores EXCEPT !.fight = fs]
<1>1. Scores \in Boards /\ Fair(Scores, online)
  BY DEF SkullsInv, Fair
<1>2. fs \in [Fighters -> {Out} \union 0..KillTime] /\ \A p \in Fighters : fs[p] = Out => fight[p] = Out
  BY <1>1, Numbers DEF Boards, Scores
<1>3. fight' = fs
      /\ UNCHANGED <<online, skull, attackedSet, pzLocked, redTicks, partners, banned, frags, afterRed>>
  BY DEF TimeGoesBy
<1> HIDE DEF fs
<1>4. /\ t \in Boards /\ t.fight = fs /\ t.set = attackedSet /\ t.skull = skull /\ t.pz = pzLocked
      /\ t.red = redTicks /\ t.ban = banned /\ t.frags = frags /\ t.after = afterRed
  BY <1>1, <1>2 DEF Boards, Scores
<1> HIDE DEF t
<1>5. Become(t)
  BY <1>3, <1>4 DEF Become
<1>6. Ordered(t) /\ Owed(t) /\ \A p \in online : Peaceful(t, p)
  BY <1>1, <1>2, <1>4 DEF Fair, Ordered, Owed, Peaceful, Scores, SkullsInv
<1> QED BY <1>3, <1>4, <1>5, <1>6, BecomesFair DEF Fair, SkullsInv

\* What is left of an earlier kill is less than one.
LEMMA TicksTellKills ==
    ASSUME NEW n \in Nat, NEW f \in Nat, NEW k \in Nat, 1 <= k,
           n < LowTicks + f * FragTime, n >= (k - 1) * FragTime
    PROVE  f >= k - 1
<1> SUFFICES ASSUME ~(f >= k - 1) PROVE FALSE
  OBVIOUS
<1>1. PICK d \in Nat : k - 1 = f + 1 + d
  <2>1. k - 2 - f \in Nat /\ k - 1 = f + 1 + (k - 2 - f)
    OBVIOUS
  <2> QED BY <2>1
<1>2. (k - 1) * FragTime = f * FragTime + FragTime + d * FragTime
  BY <1>1, Numbers
<1>3. d * FragTime \in Nat /\ f * FragTime \in Nat
  BY Numbers
<1> QED BY <1>2, <1>3, Numbers

-----------------------------------------------------------------------------
\* The invariant behind SkullsHold: redSkullTicks is never a kill's ticks or more above
\* what the kills that are counted give.
THEOREM SkullsInductive == SkullsSpec => []SkullsInv
<1>1. SkullsInit => SkullsInv
  <2> SUFFICES ASSUME SkullsInit PROVE SkullsInv
    OBVIOUS
  <2>1. Scores \in Boards
    BY Numbers DEF SkullsInit, Scores, Boards
  <2>2. Ordered(Scores) /\ \A p \in online : Peaceful(Scores, p)
    BY DEF SkullsInit, Scores, Ordered, Peaceful
  <2>3. Owed(Scores)
    <3>1. 0 * FragTime = 0
      BY Numbers
    <3> QED BY <3>1, Numbers DEF SkullsInit, Scores, Owed
  <2> QED BY <2>1, <2>2, <2>3 DEF SkullsInit, SkullsInv, Fair
<1>2. SkullsInv /\ [SkullsNext]_skullVars => SkullsInv'
  <2> SUFFICES ASSUME SkullsInv, [SkullsNext]_skullVars PROVE SkullsInv'
    OBVIOUS
  <2>1. ASSUME NEW p \in Fighters, NEW q \in Fighters, AttackPlayer(p, q) PROVE SkullsInv'
    BY <2>1, AttackPlayerKeeps
  <2>2. ASSUME NEW p \in Fighters, NEW q \in Fighters, Die(p, q) PROVE SkullsInv'
    BY <2>2, DieKeeps
  <2>3. ASSUME NEW p \in Fighters, LeaveGame(p) \/ KickPlayer(p) PROVE SkullsInv'
    BY <2>3, LeaveKeeps DEF LeaveGame, KickPlayer, SkullsInv
  <2>4. ASSUME NEW p \in Fighters, LeaveParty(p) PROVE SkullsInv'
    BY <2>4, LeaveKeeps DEF LeaveParty, SkullsInv, Become, Scores
  <2>5. ASSUME NEW p \in Fighters, ThinkAndExecute(p) PROVE SkullsInv'
    BY <2>5, ThinkAndExecuteKeeps
  <2>6. ASSUME NEW p \in Fighters, NEW n \in {0, redTicks[p]}, LoadPlayer(p, n) PROVE SkullsInv'
    BY <2>6, LoadPlayerKeeps
  <2>7. CASE JoinTogether
    BY <2>7, LeaveKeeps DEF JoinTogether, SkullsInv, Become, Scores
  <2>8. CASE TimeGoesBy
    BY <2>8, TimeGoesByKeeps
  <2>9. CASE UNCHANGED skullVars
    BY <2>9, LeaveKeeps DEF skullVars, SkullsInv, Become, Scores
  <2> QED BY <2>1, <2>2, <2>3, <2>4, <2>5, <2>6, <2>7, <2>8, <2>9 DEF SkullsNext
<1> QED BY <1>1, <1>2, PTL DEF SkullsSpec

\* Who defends himself is never marked as the aggressor; who is in no fight is locked out
\* of nothing, has no white skull and attacked nobody; and nobody has the ticks of a red
\* skull or of a ban without the kills (player.cpp addUnjustifiedDead), for any times and
\* any number of kills.
THEOREM SkullsKept == SkullsSpec => []SkullsHold
<1>1. SkullsInv => SkullsHold
  <2> SUFFICES ASSUME SkullsInv PROVE SkullsHold
    OBVIOUS
  <2>1. Scores \in Boards /\ Ordered(Scores) /\ Owed(Scores) /\ \A p \in online : Peaceful(Scores, p)
    BY DEF SkullsInv, Fair
  <2>2. SkullsTypeOK
    BY <2>1 DEF SkullsInv, SkullsTypeOK, Boards, Scores
  <2>3. OneAggressor /\ PeaceClears
    BY <2>1 DEF OneAggressor, PeaceClears, Ordered, Peaceful, Scores
  <2>4. RedByKills
    <3> SUFFICES ASSUME NEW p \in online
                 PROVE  /\ redTicks[p] >= (KillsToRed - 1) * FragTime => frags[p] >= KillsToRed - 1
                        /\ redTicks[p] >= (KillsToBan - 1) * FragTime => frags[p] >= KillsToBan - 1
      BY DEF RedByKills
    <3>1. redTicks[p] \in Nat /\ frags[p] \in Nat /\ redTicks[p] < LowTicks + frags[p] * FragTime
      BY <2>1 DEF SkullsInv, Owed, Boards, Scores
    <3> QED BY <3>1, TicksTellKills, Numbers
  <2> QED BY <2>2, <2>3, <2>4 DEF SkullsHold
<1> QED BY <1>1, SkullsInductive, PTL
-----------------------------------------------------------------------------
(* The walk cache.                                                         *)

Doors == {"floorChange", "positionChange"}

\* Items keep to their places and kinds.
ObjectsInPlace ==
    \A i \in Objects : bed[i] \in Beds[i] \union {Absent} /\ kind[i] \in Forms[i]

WalkInv == WalkHolds /\ ObjectsInPlace

\* When the cache may say that the monster can walk to p, and when that it cannot.
Clear(p) ==
    /\ p \in Cells /\ p # place
    /\ FlagsOf(flags, p) \intersect Blocking = {}
    /\ "magicField" \in FlagsOf(flags, p) => burns
MayWalk(p) == Clear(p) /\ (FlagsOf(flags, p) \ Ways(p)) \intersect Doors = {}
MayNot(p) ==
    \/ ~Clear(p)
    \/ FlagsOf(flags, p) \intersect Doors # {}
    \/ Ways(p) # {}
    \/ p = other /\ (serves \/ otherServes)

\* What is true of the entry v for the tile p.
Entry(v, p) == (v => MayWalk(p)) /\ (~v => MayNot(p))

LEMMA FormsClosed ==
    ASSUME NEW i \in Objects
    PROVE  /\ FirstKind[i] \in Forms[i] /\ Forms[i] \subseteq DOMAIN KindFlags
           /\ \A k \in Forms[i], l \in DOMAIN KindFlags : <<k, l>> \in Turns => l \in Forms[i]
<1>1. FirstKind[i] \in DOMAIN KindFlags
  BY WalkMapAssumption
<1> DEFINE Closed(S) == FirstKind[i] \in S /\ \A t \in Turns : t[1] \in S /\ t[2] \in DOMAIN KindFlags => t[2] \in S
<1>2. Forms[i] = {k \in DOMAIN KindFlags : \A S \in SUBSET DOMAIN KindFlags : Closed(S) => k \in S}
  BY DEF Forms
<1>3. ASSUME NEW k \in Forms[i], NEW l \in DOMAIN KindFlags, <<k, l>> \in Turns PROVE l \in Forms[i]
  <2>1. ASSUME NEW S \in SUBSET DOMAIN KindFlags, Closed(S) PROVE l \in S
    <3>1. k \in S
      BY <1>2, <2>1
    <3>2. <<k, l>>[1] \in S /\ <<k, l>>[2] \in DOMAIN KindFlags => <<k, l>>[2] \in S
      BY <1>3, <2>1
    <3> QED BY <3>1, <3>2
  <2> HIDE DEF Closed
  <2> QED BY <1>2, <2>1
<1>4. FirstKind[i] \in Forms[i]
  BY <1>1, <1>2
<1>5. Forms[i] \subseteq DOMAIN KindFlags
  BY <1>2
<1> QED BY <1>3, <1>4, <1>5

LEMMA WaysAreDoors ==
    ASSUME NEW p
    PROVE  /\ Ways(p) \subseteq Doors
           /\ \A i \in Objects : \A k : p \in Beds[i] /\ k \in Forms[i] => KindFlags[k] \intersect Doors \subseteq Ways(p)
BY DEF Ways, Doors

LEMMA DoorsAreNoBlocks == Doors \intersect Blocking = {} /\ "magicField" \notin Doors \union Blocking
BY DEF Doors, Blocking

\* CacheTrue says of each entry what Entry does.
LEMMA EntrySays ==
    ASSUME NEW v \in BOOLEAN, NEW p, WalkTypeOK
    PROVE  Entry(v, p) <=>
             \E w \in SUBSET Ways(p), s \in IF p = other THEN Sides ELSE {<<serves, otherServes>>} :
               v = FreeIf(p, place, other, (FlagsOf(flags, p) \ Ways(p)) \union w, burns, s[1], s[2])
<1> DEFINE F == FlagsOf(flags, p)
           S == IF p = other THEN Sides ELSE {<<serves, otherServes>>}
           G(w, a, b) == FreeIf(p, place, other, (F \ Ways(p)) \union w, burns, a, b)
<1>0. Ways(p) \subseteq Doors /\ Doors \intersect Blocking = {} /\ "magicField" \notin Doors \union Blocking
  BY WaysAreDoors, DoorsAreNoBlocks
<1>b. serves \in BOOLEAN /\ otherServes \in BOOLEAN /\ burns \in BOOLEAN
  BY DEF WalkTypeOK
<1>1. ASSUME NEW w \in SUBSET Ways(p), NEW a \in BOOLEAN, NEW b \in BOOLEAN
      PROVE  G(w, a, b) <=> /\ Clear(p) /\ ((F \ Ways(p)) \union w) \intersect Doors = {}
                            /\ p = other => ~a /\ ~b
  BY <1>0 DEF FreeIf, Clear, Doors
<1>2. <<serves, otherServes>> \in S /\ (p = other => <<FALSE, FALSE>> \in S)
  BY <1>b DEF Sides
<1>3. \A s \in S : /\ s[1] \in BOOLEAN /\ s[2] \in BOOLEAN
                   /\ s[1] => serves
                   /\ s[2] => otherServes
  BY <1>b DEF Sides
<1> HIDE DEF G, S
<1>4. (\E w \in SUBSET Ways(p), s \in S : G(w, s[1], s[2])) <=> MayWalk(p)
  <2>1. ASSUME NEW w \in SUBSET Ways(p), NEW s \in S, G(w, s[1], s[2]) PROVE MayWalk(p)
    BY <1>1, <1>3, <2>1 DEF MayWalk
  <2>2. ASSUME MayWalk(p) PROVE \E w \in SUBSET Ways(p), s \in S : G(w, s[1], s[2])
    <3>1. CASE p = other
      <4>1. G({}, FALSE, FALSE)
        <5>1. {} \in SUBSET Ways(p) /\ FALSE \in BOOLEAN
          OBVIOUS
        <5>2. G({}, FALSE, FALSE) <=> /\ Clear(p) /\ ((F \ Ways(p)) \union {}) \intersect Doors = {}
                                      /\ p = other => ~FALSE /\ ~FALSE
          BY <1>1, <5>1
        <5>3. (F \ Ways(p)) \union {} = F \ Ways(p)
          OBVIOUS
        <5> QED BY <2>2, <5>2, <5>3 DEF MayWalk
      <4>2. <<FALSE, FALSE>> \in S
        BY <1>2, <3>1
      <4>3. <<FALSE, FALSE>>[1] = FALSE /\ <<FALSE, FALSE>>[2] = FALSE
        OBVIOUS
      <4> QED BY <4>1, <4>2, <4>3
    <3>2. CASE p # other
      <4>1. G({}, serves, otherServes)
        BY <1>1, <1>b, <2>2, <3>2 DEF MayWalk
      <4> QED BY <1>2, <4>1
    <3> QED BY <3>1, <3>2
  <2> QED BY <2>1, <2>2
<1>5. (\E w \in SUBSET Ways(p), s \in S : ~G(w, s[1], s[2])) <=> MayNot(p)
  <2>1. ASSUME NEW w \in SUBSET Ways(p), NEW s \in S, ~G(w, s[1], s[2]) PROVE MayNot(p)
    BY <1>0, <1>1, <1>3, <2>1 DEF MayNot
  <2>2. ASSUME MayNot(p) PROVE \E w \in SUBSET Ways(p), s \in S : ~G(w, s[1], s[2])
    <3>1. ~G(F \intersect Ways(p), serves, otherServes) \/ ~G(Ways(p), serves, otherServes)
      BY <1>0, <1>1, <1>b, <2>2 DEF MayNot
    <3> QED BY <1>2, <3>1
  <2> QED BY <2>1, <2>2
<1>6. CASE v = TRUE
  BY <1>4, <1>6 DEF Entry, G, S
<1>7. CASE v = FALSE
  <2>1. \A w \in SUBSET Ways(p), s \in S : (v = G(w, s[1], s[2])) <=> ~G(w, s[1], s[2])
    BY <1>7 DEF G, FreeIf
  <2>2. Entry(v, p) <=> \E w \in SUBSET Ways(p), s \in S : v = G(w, s[1], s[2])
    BY <1>5, <1>7, <2>1 DEF Entry
  <2> QED BY <2>2 DEF G, S
<1> QED BY <1>6, <1>7

EntriesTrue == \A d \in Window \ {<<0, 0>>} : Entry(cache[d], At(place, d))

LEMMA CacheSays == WalkTypeOK => (CacheTrue <=> EntriesTrue)
<1> SUFFICES ASSUME WalkTypeOK PROVE CacheTrue <=> EntriesTrue
  OBVIOUS
<1>1. ASSUME NEW d \in Window \ {<<0, 0>>}
      PROVE  Entry(cache[d], At(place, d)) <=>
               \E w \in SUBSET Ways(At(place, d)),
                  s \in IF At(place, d) = other THEN Sides ELSE {<<serves, otherServes>>} :
                 cache[d] = FreeIf(At(place, d), place, other,
                              (FlagsOf(flags, At(place, d)) \ Ways(At(place, d))) \union w, burns, s[1], s[2])
  <2>1. PICK p : p = At(place, d)
    OBVIOUS
  <2>2. cache[d] \in BOOLEAN
    BY DEF WalkTypeOK
  <2> QED BY <2>1, <2>2, EntrySays
<1> QED BY <1>1 DEF CacheTrue, EntriesTrue

LEMMA CacheSaysNext == WalkTypeOK' => (CacheTrue' <=> EntriesTrue')
BY CacheSays, PTL

\* A tile looked at anew is entered as it is.
LEMMA FreshEntry ==
    ASSUME NEW p
    PROVE  (Free(p) => MayWalk(p)') /\ (~Free(p) => MayNot(p)')
BY DEF Free, FreeIf, MayWalk, MayNot, Clear, Doors

\* A tile that nothing happened to: its entry stays true.
Undisturbed(p) == (MayWalk(p) => MayWalk(p)') /\ (MayNot(p) => MayNot(p)')

\* Looking at one tile and leaving the others makes a true cache of a true one.
LEMMA OneLook ==
    ASSUME EntriesTrue, UNCHANGED place, NEW q, cache' = UpdateTile(cache, q),
           \A p : p # q => Undisturbed(p)
    PROVE  EntriesTrue'
<1> SUFFICES ASSUME NEW d \in Window \ {<<0, 0>>} PROVE Entry(cache[d], At(place, d))'
  BY DEF EntriesTrue
<1>1. PICK p : p = At(place, d) /\ p = At(place', d)
  OBVIOUS
<1>2. CASE p = q
  <2>1. cache'[d] = Free(q)
    BY <1>1, <1>2 DEF UpdateTile
  <2> QED BY <1>1, <1>2, <2>1, FreshEntry DEF Entry
<1>3. CASE p # q
  <2>1. cache'[d] = cache[d]
    BY <1>1, <1>3 DEF UpdateTile
  <2>2. Entry(cache[d], p)
    BY <1>1 DEF EntriesTrue
  <2> QED BY <1>1, <1>3, <2>1, <2>2 DEF Entry, Undisturbed
<1> QED BY <1>2, <1>3

LEMMA AllLooks == ASSUME cache' = UpdateMapCache PROVE EntriesTrue'
<1> SUFFICES ASSUME NEW d \in Window \ {<<0, 0>>} PROVE Entry(cache[d], At(place, d))'
  BY DEF EntriesTrue
<1>1. PICK p : p = At(place', d)
  OBVIOUS
<1>2. cache'[d] = Free(p)
  BY <1>1 DEF UpdateMapCache
<1> QED BY <1>1, <1>2, FreshEntry DEF Entry

LEMMA NoLook ==
    ASSUME EntriesTrue, UNCHANGED <<place, cache>>, \A p : Undisturbed(p)
    PROVE  EntriesTrue'
BY DEF EntriesTrue, Entry, Undisturbed

\* Where an entry comes from when the cache is shifted: it is new, or that of the tile it
\* is about now.
LEMMA ShiftMoves ==
    ASSUME NEW s \in {-1, 0, 1} \X {-1, 0, 1}, NEW d \in Window, NEW c
    PROVE  LET r == ShiftColumns(ShiftRows(c, s), s)
               e == <<d[1] + s[1], d[2] + s[2]>>
           IN  r[d] = Free(At(place', d)) \/ (e \in Window /\ r[d] = c[e])
<1> DEFINE e == <<d[1] + s[1], d[2] + s[2]>>
           e1 == <<d[1] + s[1], d[2]>>
           b == ShiftRows(c, s)
           r == ShiftColumns(b, s)
<1> SUFFICES r[d] = Free(At(place', d)) \/ (e \in Window /\ r[d] = c[e])
  OBVIOUS
<1>0. /\ Radius \in Nat /\ d \in (-Radius..Radius) \X (-Radius..Radius)
      /\ d[1] \in Int /\ d[2] \in Int /\ s[1] \in {-1, 0, 1} /\ s[2] \in {-1, 0, 1}
      /\ d = <<d[1], d[2]>>
  BY WalkMapAssumption DEF Window
<1>1. \A x \in Window : b[x] = CASE s[2] = 0 -> c[x]
                        [] s[2] # 0 /\ x[2] = s[2] * Radius -> Free(At(place', x))
                        [] OTHER -> c[<<x[1], x[2] + s[2]>>]
  BY DEF ShiftRows
<1>2. r[d] = CASE s[1] = 0 -> b[d]
                        [] s[1] # 0 /\ d[1] = s[1] * Radius -> Free(At(place', d))
                        [] s[1] # 0 /\ d[1] # s[1] * Radius /\ s[2] # 0 /\ d[2] = s[2] * Radius -> b[d]
                        [] OTHER -> b[<<d[1] + s[1], d[2]>>]
  BY DEF ShiftColumns
<1>3. s[2] # 0 /\ d[2] # s[2] * Radius => d[2] + s[2] \in -Radius..Radius
  <2>1. s[2] = 1 => s[2] * Radius = Radius
    BY <1>0
  <2>2. s[2] = -1 => s[2] * Radius = -Radius
    BY <1>0
  <2> QED BY <1>0, <2>1, <2>2
<1>4. s[1] # 0 /\ d[1] # s[1] * Radius => d[1] + s[1] \in -Radius..Radius
  <2>1. s[1] = 1 => s[1] * Radius = Radius
    BY <1>0
  <2>2. s[1] = -1 => s[1] * Radius = -Radius
    BY <1>0
  <2> QED BY <1>0, <2>1, <2>2
<1>5. d[2] \in -Radius..Radius /\ d[1] \in -Radius..Radius
  BY <1>0
<1> HIDE DEF b, r
<1>6. CASE s[1] = 0
  <2>1. r[d] = b[d] /\ d[1] + s[1] = d[1]
    BY <1>0, <1>2, <1>6
  <2>2. CASE s[2] = 0
    BY <1>0, <1>1, <1>5, <2>1, <2>2 DEF Window
  <2>3. CASE s[2] # 0 /\ d[2] = s[2] * Radius
    BY <1>0, <1>1, <1>5, <2>1, <2>3
  <2>4. CASE s[2] # 0 /\ d[2] # s[2] * Radius
    <3>1. b[d] = c[<<d[1], d[2] + s[2]>>]
      BY <1>1, <2>4
    <3> QED BY <1>3, <1>5, <2>1, <2>4, <3>1 DEF Window
  <2> QED BY <2>2, <2>3, <2>4
<1>7. CASE s[1] # 0 /\ d[1] = s[1] * Radius
  <2>1. PICK f, g, h, m, n : /\ f = Free(At(place', d)) /\ g = b[<<d[1] + s[1], d[2]>>]
                             /\ h = b[d] /\ m = s[1] * Radius /\ n = s[2] * Radius
    OBVIOUS
  <2>2. r[d] = CASE s[1] = 0 -> h
                 [] s[1] # 0 /\ d[1] = m -> f
                 [] s[1] # 0 /\ d[1] # m /\ s[2] # 0 /\ d[2] = n -> h
                 [] OTHER -> g
    BY <1>2, <2>1, Zenon
  <2>3. s[1] # 0 /\ d[1] = m
    BY <1>7, <2>1
  <2>4. r[d] = f
    BY ONLY <2>2, <2>3
  <2> QED BY <2>1, <2>4
<1>8. CASE s[1] # 0 /\ d[1] # s[1] * Radius /\ s[2] # 0 /\ d[2] = s[2] * Radius
  <2>1. r[d] = b[d]
    BY <1>2, <1>8
  <2>2. b[d] = Free(At(place', d))
    BY <1>1, <1>8
  <2> QED BY <2>1, <2>2
<1>9. CASE s[1] # 0 /\ d[1] # s[1] * Radius /\ ~(s[2] # 0 /\ d[2] = s[2] * Radius)
  <2>1. r[d] = b[e1] /\ e1 \in Window /\ e1[1] = d[1] + s[1] /\ e1[2] = d[2]
    BY <1>2, <1>4, <1>5, <1>9 DEF Window
  <2>2. CASE s[2] = 0
    <3>1. b[e1] = c[e1]
      BY <1>1, <2>1, <2>2
    <3>2. e = e1
      BY <1>0, <2>2
    <3> QED BY <2>1, <3>1, <3>2
  <2>3. CASE s[2] # 0
    <3>1. b[e1] = c[<<e1[1], e1[2] + s[2]>>]
      BY <1>1, <1>9, <2>1, <2>3
    <3>2. e \in Window
      BY <1>3, <1>4, <1>9, <2>3 DEF Window
    <3> QED BY <2>1, <3>1, <3>2
  <2> QED BY <2>2, <2>3
<1> QED BY <1>6, <1>7, <1>8, <1>9

LEMMA StepShifts ==
    ASSUME WalkTypeOK, EntriesTrue, NEW s \in {-1, 0, 1} \X {-1, 0, 1}, Step(s)
    PROVE  EntriesTrue'
<1> USE WalkMapAssumption
<1>0. /\ place' = At(place, s) /\ place' \in Cells /\ place \in Cells
      /\ UNCHANGED <<bed, kind, flags, burns, serves, other, otherServes>>
      /\ cache' = UpdateTile(ShiftColumns(ShiftRows(cache, s), s), place)
  BY DEF Step, Terrain, Shifted, WalkTypeOK
<1> SUFFICES ASSUME NEW d \in Window \ {<<0, 0>>} PROVE Entry(cache[d], At(place, d))'
  BY DEF EntriesTrue
<1>1. PICK p : p = At(place', d)
  OBVIOUS
<1>2. CASE p = place
  <2>1. cache'[d] = Free(place)
    BY <1>0, <1>1, <1>2 DEF UpdateTile
  <2> QED BY <1>1, <1>2, <2>1, FreshEntry DEF Entry
<1>3. CASE p # place
  <2> DEFINE e == <<d[1] + s[1], d[2] + s[2]>>
             r == ShiftColumns(ShiftRows(cache, s), s)
  <2>1. cache'[d] = r[d]
    BY <1>0, <1>1, <1>3 DEF UpdateTile
  <2>2. r[d] = Free(p) \/ (e \in Window /\ r[d] = cache[e])
    BY <1>1, ShiftMoves
  <2>3. CASE r[d] = Free(p)
    BY <1>1, <2>1, <2>3, FreshEntry DEF Entry
  <2>4. CASE e \in Window /\ r[d] = cache[e]
    <3>1. /\ place[1] \in Int /\ place[2] \in Int /\ s[1] \in Int /\ s[2] \in Int
          /\ d[1] \in Int /\ d[2] \in Int /\ d = <<d[1], d[2]>> /\ place = <<place[1], place[2]>>
      BY <1>0 DEF Cells, Window
    <3>2. At(place, e) = p
      BY <1>0, <1>1, <3>1 DEF At
    <3>3. e # <<0, 0>>
      BY <1>3, <3>1, <3>2 DEF At
    <3>4. Entry(cache[e], p)
      BY <2>4, <3>2, <3>3 DEF EntriesTrue
    <3>5. p # place'
      <4>1. d[1] # 0 \/ d[2] # 0
        BY <3>1
      <4> QED BY <1>0, <1>1, <3>1, <4>1 DEF At
    <3>6. (MayWalk(p) => MayWalk(p)') /\ (MayNot(p) => MayNot(p)')
      BY <1>0, <1>3, <3>5 DEF MayWalk, MayNot, Clear, FlagsOf
    <3> QED BY <1>1, <2>1, <2>4, <3>4, <3>6 DEF Entry
  <2> QED BY <2>2, <2>3, <2>4
<1> QED BY <1>2, <1>3
-----------------------------------------------------------------------------
(* What the items of a tile say together.                                  *)

\* The flags of a tile follow its items, whichever comes, goes or changes.
Said(p) == UNION {KindFlags[kind[i]] : i \in {i \in Objects : bed[i] = p}}

LEMMA SaidBy ==
    ASSUME NEW p, NEW f
    PROVE  f \in Said(p) <=> \E i \in Objects : bed[i] = p /\ f \in KindFlags[kind[i]]
BY DEF Said

LEMMA SaidByNext ==
    \A p, f : f \in Said(p)' <=> \E i \in Objects : bed'[i] = p /\ f \in KindFlags[kind'[i]]
BY DEF Said

LEMMA LeftBy ==
    ASSUME NEW i \in Objects, NEW p, NEW f
    PROVE  (\E k \in Kinds(p, i) : f \in KindFlags[k]) <=>
             \E j \in Objects : j # i /\ bed[j] = p /\ f \in KindFlags[kind[j]]
BY DEF Kinds

LEMMA RemovedFlags ==
    ASSUME NEW g, NEW k, NEW ks, NEW f
    PROVE  f \in FlagsRemoved(g, k, ks) <=>
             /\ f \in g
             /\ ~ /\ f \in KindFlags[k]
                  /\ f \in Lone \/ (f \in Blocking /\ ~\E l \in ks : f \in KindFlags[l])
BY DEF FlagsRemoved

Agrees(p) == flags[p] \subseteq Said(p) /\ \A f \in Said(p) : f \notin Lone => f \in flags[p]

LEMMA FlagsSay == FlagsTrue <=> \A p \in Cells : Agrees(p)
BY DEF FlagsTrue, Agrees, Said
LEMMA FlagsSayNext == FlagsTrue' <=> \A p \in Cells : Agrees(p)'
BY DEF FlagsTrue, Agrees, Said, Lone, Cells

LEMMA AddFlags ==
    ASSUME WalkTypeOK, FlagsTrue, NEW i \in Objects, NEW p \in Cells, AddThing(i, p)
    PROVE  FlagsTrue'
<1> USE GroundAssumption
<1>1. /\ bed[i] = Absent /\ bed' = [bed EXCEPT ![i] = p] /\ kind' = kind
      /\ flags' = [flags EXCEPT ![p] = flags[p] \union KindFlags[kind[i]]]
  BY DEF AddThing, FlagsAdded
<1>2. \A j \in Objects : bed'[j] = IF j = i THEN p ELSE bed[j]
  BY <1>1 DEF WalkTypeOK
<1>3. \A q \in Cells : flags'[q] = IF q = p THEN flags[p] \union KindFlags[kind[i]] ELSE flags[q]
  BY <1>1 DEF WalkTypeOK
<1> SUFFICES ASSUME NEW q \in Cells PROVE Agrees(q)'
  BY FlagsSayNext
<1>4. Agrees(q)
  BY FlagsSay
<1>5. \A f : f \in Said(q)' <=> f \in Said(q) \/ (q = p /\ f \in KindFlags[kind[i]])
  BY <1>1, <1>2, SaidBy, SaidByNext
<1> QED BY <1>3, <1>4, <1>5 DEF Agrees

LEMMA RemoveFlags ==
    ASSUME WalkTypeOK, FlagsTrue, NEW i \in Objects, RemoveThing(i)
    PROVE  FlagsTrue'
<1> USE GroundAssumption, WalkMapAssumption
<1>1. PICK p \in Cells : p = bed[i]
  BY DEF RemoveThing, WalkTypeOK
<1>2. /\ bed' = [bed EXCEPT ![i] = Absent] /\ kind' = kind
      /\ flags' = [flags EXCEPT ![p] = FlagsRemoved(flags[p], kind[i], Kinds(p, i))]
  BY <1>1 DEF RemoveThing
<1>3. \A j \in Objects : bed'[j] = IF j = i THEN Absent ELSE bed[j]
  BY <1>2 DEF WalkTypeOK
<1>4. \A q \in Cells : flags'[q] = IF q = p THEN FlagsRemoved(flags[p], kind[i], Kinds(p, i)) ELSE flags[q]
  BY <1>2 DEF WalkTypeOK
<1> SUFFICES ASSUME NEW q \in Cells PROVE Agrees(q)'
  BY FlagsSayNext
<1>5. Agrees(q)
  BY FlagsSay
<1>6. \A f : f \in Said(q)' <=> \E j \in Objects : j # i /\ bed[j] = q /\ f \in KindFlags[kind[j]]
  BY <1>2, <1>3, SaidByNext
<1>7. CASE q # p
  BY <1>1, <1>4, <1>5, <1>6, <1>7, SaidBy DEF Agrees
<1>8. CASE q = p
  <2>1. ASSUME NEW f PROVE f \in flags'[p] <=> /\ f \in flags[p]
             /\ ~ /\ f \in KindFlags[kind[i]]
                  /\ f \in Lone \/ (f \in Blocking /\ f \notin Said(p)')
    BY <1>4, <1>6, <1>8, RemovedFlags, LeftBy
  <2>2. KindFlags[kind[i]] \subseteq Blocking \union Lone
    BY DEF WalkTypeOK
  <2>3. \A f : f \in Said(p) <=> f \in Said(p)' \/ f \in KindFlags[kind[i]]
    BY <1>1, <1>6, <1>8, SaidBy
  <2> QED BY <1>5, <1>8, <2>1, <2>2, <2>3 DEF Agrees
<1> QED BY <1>7, <1>8

LEMMA UpdateFlags ==
    ASSUME WalkTypeOK, FlagsTrue, NEW i \in Objects, NEW k \in DOMAIN KindFlags, UpdateThing(i, k)
    PROVE  FlagsTrue'
<1> USE GroundAssumption, WalkMapAssumption
<1>1. PICK p \in Cells : p = bed[i]
  BY DEF UpdateThing, WalkTypeOK
<1> DEFINE ks == Kinds(p, i)
           g == FlagsRemoved(flags[p], kind[i], ks)
           h == FlagsRemoved(g, k, ks)
<1>2. /\ kind' = [kind EXCEPT ![i] = k] /\ bed' = bed
      /\ flags' = [flags EXCEPT ![p] = h \union KindFlags[k]]
  BY <1>1 DEF UpdateThing, FlagsAdded
<1>3. \A j \in Objects : kind'[j] = IF j = i THEN k ELSE kind[j]
  BY <1>2 DEF WalkTypeOK
<1> HIDE DEF h
<1>4. \A q \in Cells : flags'[q] = IF q = p THEN h \union KindFlags[k] ELSE flags[q]
  BY <1>2 DEF WalkTypeOK
<1> SUFFICES ASSUME NEW q \in Cells PROVE Agrees(q)'
  BY FlagsSayNext
<1>5. Agrees(q)
  BY FlagsSay
<1>6. CASE q # p
  <2>1. \A f : f \in Said(q)' <=> f \in Said(q)
    BY <1>1, <1>2, <1>3, <1>6, SaidBy, SaidByNext
  <2> QED BY <1>4, <1>5, <1>6, <2>1 DEF Agrees
<1>7. CASE q = p
  <2> DEFINE Remains(f) == \E j \in Objects : j # i /\ bed[j] = p /\ f \in KindFlags[kind[j]]
  <2>1. ASSUME NEW f PROVE f \in g <=> /\ f \in flags[p]
             /\ ~(f \in KindFlags[kind[i]] /\ (f \in Lone \/ (f \in Blocking /\ ~Remains(f))))
    BY RemovedFlags, LeftBy
  <2>2. ASSUME NEW f PROVE f \in h <=> /\ f \in g
             /\ ~(f \in KindFlags[k] /\ (f \in Lone \/ (f \in Blocking /\ ~Remains(f))))
    BY RemovedFlags, LeftBy, SMTT(30) DEF h
  <2>3. KindFlags[kind[i]] \subseteq Blocking \union Lone /\ KindFlags[k] \subseteq Blocking \union Lone
    BY DEF WalkTypeOK
  <2>4. \A f : f \in Said(p)' <=> Remains(f) \/ f \in KindFlags[k]
    BY <1>1, <1>2, <1>3, SaidByNext
  <2>5. \A f : f \in Said(p) <=> Remains(f) \/ f \in KindFlags[kind[i]]
    BY <1>1, SaidBy
  <2> HIDE DEF g, Remains
  <2>6. \A f : f \in flags'[p] <=> f \in h \/ f \in KindFlags[k]
    BY <1>4
  <2>7. flags[p] \subseteq Said(p) /\ \A f \in Said(p) : f \notin Lone => f \in flags[p]
    BY <1>5, <1>7 DEF Agrees
  <2>8. ASSUME NEW f, f \in flags'[p] PROVE f \in Said(p)'
    <3>1. CASE f \in KindFlags[k]
      BY <2>4, <3>1
    <3>2. CASE f \in h
      BY <2>1, <2>2, <2>3, <2>4, <2>5, <2>7, <3>2
    <3> QED BY <2>6, <2>8, <3>1, <3>2
  <2>9. ASSUME NEW f, f \in Said(p)', f \notin Lone PROVE f \in flags'[p]
    BY <2>1, <2>2, <2>4, <2>5, <2>6, <2>7, <2>9
  <2> QED BY <1>7, <2>8, <2>9 DEF Agrees
<1> QED BY <1>6, <1>7
-----------------------------------------------------------------------------
(* What each step does to the cache.                                       *)

LEMMA FreeIsSaid == \A p : Free(p) \in BOOLEAN
BY DEF Free, FreeIf

LEMMA UpdateTileType ==
    ASSUME NEW c \in [Window -> BOOLEAN], NEW p
    PROVE  UpdateTile(c, p) \in [Window -> BOOLEAN]
BY FreeIsSaid DEF UpdateTile

LEMMA UpdateMapType == UpdateMapCache \in [Window -> BOOLEAN]
BY FreeIsSaid DEF UpdateMapCache

LEMMA ShiftedType ==
    ASSUME NEW c \in [Window -> BOOLEAN], NEW s \in {-1, 0, 1} \X {-1, 0, 1}
    PROVE  Shifted(c, s) \in [Window -> BOOLEAN]
<1> DEFINE r == ShiftColumns(ShiftRows(c, s), s)
           e(d) == <<d[1] + s[1], d[2] + s[2]>>
<1>1. ASSUME NEW d \in Window PROVE r[d] \in BOOLEAN
  <2>1. r[d] = Free(At(place', d)) \/ (e(d) \in Window /\ r[d] = c[e(d)])
    BY ShiftMoves
  <2>2. PICK p, x : p = At(place', d) /\ x = e(d)
    OBVIOUS
  <2>3. r[d] = Free(p) \/ (x \in Window /\ r[d] = c[x])
    BY <2>1, <2>2
  <2> HIDE DEF r, e
  <2> QED BY <2>3, FreeIsSaid
<1>2. r = [d \in Window |-> r[d]]
  BY DEF ShiftColumns
<1> HIDE DEF r
<1>3. r \in [Window -> BOOLEAN]
  BY <1>1, <1>2
<1> QED BY <1>3, UpdateTileType DEF Shifted, r

\* A tile whose flags stay, with who stands on it.
LEMMA QuietTile ==
    ASSUME NEW p, UNCHANGED <<place, burns>>, FlagsOf(flags', p) = FlagsOf(flags, p),
           p = other /\ (serves \/ otherServes) => p = other' /\ (serves' \/ otherServes')
    PROVE  Undisturbed(p)
BY DEF Undisturbed, MayWalk, MayNot, Clear

\* A tile of which only its ways to another floor change.
LEMMA DoorsOnly ==
    ASSUME NEW p \in Cells, UNCHANGED Others, flags'[p] \ Ways(p) = flags[p] \ Ways(p)
    PROVE  Undisturbed(p)
<1>1. Ways(p) \subseteq Doors /\ Doors \intersect Blocking = {} /\ "magicField" \notin Doors
  BY WaysAreDoors, DoorsAreNoBlocks
<1>2. \A f : f \notin Ways(p) => (f \in flags'[p] <=> f \in flags[p])
  BY Zenon
<1>3. \A f : f \in Blocking \/ f = "magicField" => (f \in flags'[p] <=> f \in flags[p])
  BY <1>1, <1>2
<1>4. FlagsOf(flags', p) = flags'[p] /\ FlagsOf(flags, p) = flags[p]
  BY DEF FlagsOf
<1>5. UNCHANGED <<place, burns, serves, other, otherServes>>
  BY DEF Others
<1>6. Clear(p)' <=> Clear(p)
  BY <1>3, <1>4, <1>5 DEF Clear
<1>7. MayWalk(p)' <=> MayWalk(p)
  BY <1>4, <1>6 DEF MayWalk
<1>8. MayNot(p) => MayNot(p)'
  <2>1. flags[p] \intersect Doors # {} => flags'[p] \intersect Doors # {} \/ Ways(p) # {}
    BY <1>2
  <2> QED BY <1>4, <1>5, <1>6, <2>1 DEF MayNot
<1> QED BY <1>7, <1>8 DEF Undisturbed

\* The flags of an item that is of no concern are ways of its tile.
LEMMA NoConcern ==
    ASSUME NEW i \in Objects, NEW k \in Forms[i], NEW p \in Beds[i], ~Matters(k)
    PROVE  KindFlags[k] \subseteq Ways(p)
<1>1. KindFlags[k] \subseteq Blocking \union Lone
  BY FormsClosed, WalkMapAssumption
<1>2. KindFlags[k] \subseteq Doors
  BY <1>1 DEF Matters, Lone, Doors
<1> QED BY <1>2, WaysAreDoors

LEMMA AddLooks ==
    ASSUME WalkTypeOK, EntriesTrue, NEW i \in Objects, NEW p \in Cells, AddThing(i, p)
    PROVE  EntriesTrue'
<1>1. /\ UNCHANGED Others /\ cache' = UpdateTile(cache, p)
      /\ flags' = [flags EXCEPT ![p] = FlagsAdded(flags[p], kind[i])]
  BY DEF AddThing, Others
<1>2. ASSUME NEW q, q # p PROVE Undisturbed(q)
  <2>1. FlagsOf(flags', q) = FlagsOf(flags, q)
    BY <1>1, <1>2 DEF FlagsOf, WalkTypeOK
  <2> QED BY <1>1, <2>1, QuietTile DEF Others
<1> QED BY <1>1, <1>2, OneLook DEF Others

LEMMA RemoveLooks ==
    ASSUME WalkTypeOK, EntriesTrue, ObjectsInPlace, NEW i \in Objects, RemoveThing(i)
    PROVE  EntriesTrue'
<1> USE GroundAssumption
<1>1. PICK p \in Cells : p = bed[i] /\ p \in Beds[i] /\ kind[i] \in Forms[i]
  BY DEF RemoveThing, WalkTypeOK, ObjectsInPlace
<1>2. /\ UNCHANGED Others
      /\ flags' = [flags EXCEPT ![p] = FlagsRemoved(flags[p], kind[i], Kinds(p, i))]
      /\ cache' = IF Matters(kind[i]) THEN UpdateTile(cache, p) ELSE cache
  BY <1>1 DEF RemoveThing, Others
<1>3. ASSUME NEW q, q # p PROVE Undisturbed(q)
  <2>1. FlagsOf(flags', q) = FlagsOf(flags, q)
    BY <1>2, <1>3 DEF FlagsOf, WalkTypeOK
  <2> QED BY <1>2, <2>1, QuietTile DEF Others
<1>4. CASE Matters(kind[i])
  BY <1>2, <1>3, <1>4, OneLook DEF Others
<1>5. CASE ~Matters(kind[i])
  <2>1. KindFlags[kind[i]] \subseteq Ways(p)
    BY <1>1, <1>5, NoConcern
  <2>2. flags'[p] = FlagsRemoved(flags[p], kind[i], Kinds(p, i))
    BY <1>2 DEF WalkTypeOK
  <2>3. flags'[p] \ Ways(p) = flags[p] \ Ways(p)
    BY <2>1, <2>2 DEF FlagsRemoved
  <2>4. Undisturbed(p)
    BY <1>2, <2>3, DoorsOnly
  <2> QED BY <1>2, <1>3, <1>5, <2>4, NoLook DEF Others
<1> QED BY <1>4, <1>5

LEMMA UpdateLooks ==
    ASSUME WalkTypeOK, EntriesTrue, ObjectsInPlace, NEW i \in Objects,
           NEW k \in DOMAIN KindFlags, UpdateThing(i, k)
    PROVE  EntriesTrue'
<1> USE GroundAssumption
<1>1. PICK p \in Cells : p = bed[i] /\ p \in Beds[i] /\ kind[i] \in Forms[i]
  BY DEF UpdateThing, WalkTypeOK, ObjectsInPlace
<1>2. k \in Forms[i]
  BY <1>1, FormsClosed DEF UpdateThing
<1> DEFINE g == FlagsRemoved(FlagsRemoved(flags[p], kind[i], Kinds(p, i)), k, Kinds(p, i))
<1>3. /\ UNCHANGED Others
      /\ flags' = [flags EXCEPT ![p] = FlagsAdded(g, k)]
      /\ cache' = IF Matters(kind[i]) \/ Matters(k) THEN UpdateTile(cache, p) ELSE cache
  BY <1>1 DEF UpdateThing, Others
<1>4. ASSUME NEW q, q # p PROVE Undisturbed(q)
  <2>1. FlagsOf(flags', q) = FlagsOf(flags, q)
    BY <1>3, <1>4 DEF FlagsOf, WalkTypeOK
  <2> QED BY <1>3, <2>1, QuietTile DEF Others
<1>5. CASE Matters(kind[i]) \/ Matters(k)
  BY <1>3, <1>4, <1>5, OneLook DEF Others
<1>6. CASE ~(Matters(kind[i]) \/ Matters(k))
  <2>1. KindFlags[kind[i]] \subseteq Ways(p) /\ KindFlags[k] \subseteq Ways(p)
    BY <1>1, <1>2, <1>6, NoConcern
  <2>2. flags'[p] = FlagsAdded(g, k)
    BY <1>3 DEF WalkTypeOK
  <2>3. flags'[p] \ Ways(p) = flags[p] \ Ways(p)
    BY <2>1, <2>2 DEF FlagsRemoved, FlagsAdded
  <2>4. Undisturbed(p)
    BY <1>3, <2>3, DoorsOnly
  <2> QED BY <1>3, <1>4, <1>6, <2>4, NoLook DEF Others
<1> QED BY <1>5, <1>6

LEMMA MoveLooks ==
    ASSUME EntriesTrue, NEW q, OtherMoves(q)
    PROVE  EntriesTrue'
<1>1. /\ UNCHANGED <<bed, kind, flags, place, burns, serves>>
      /\ cache' = UpdateTile(UpdateTile(cache, q), other)
  BY DEF OtherMoves, Terrain
<1> SUFFICES ASSUME NEW d \in Window \ {<<0, 0>>} PROVE Entry(cache[d], At(place, d))'
  BY DEF EntriesTrue
<1>2. PICK p : p = At(place, d) /\ p = At(place', d)
  BY <1>1
<1>3. CASE p = q \/ p = other
  <2>1. cache'[d] = Free(p)
    BY <1>1, <1>2, <1>3 DEF UpdateTile
  <2> QED BY <1>2, <2>1, FreshEntry DEF Entry
<1>4. CASE p # q /\ p # other
  <2>1. cache'[d] = cache[d]
    BY <1>1, <1>2, <1>4 DEF UpdateTile
  <2>2. Entry(cache[d], p)
    BY <1>2 DEF EntriesTrue
  <2>3. Undisturbed(p)
    BY <1>1, <1>4, QuietTile
  <2> QED BY <1>2, <2>1, <2>2, <2>3 DEF Entry, Undisturbed
<1> QED BY <1>3, <1>4

LEMMA ConvinceLooks ==
    ASSUME WalkTypeOK, EntriesTrue, ConvinceIt \/ ConvinceOther
    PROVE  EntriesTrue'
<1>1. ASSUME NEW p PROVE Undisturbed(p)
  BY QuietTile DEF ConvinceIt, ConvinceOther, Terrain
<1> QED BY <1>1, NoLook DEF ConvinceIt, ConvinceOther

LEMMA WalkStarts == WalkInit => WalkInv
<1> SUFFICES ASSUME WalkInit PROVE WalkInv
  OBVIOUS
<1> USE WalkMapAssumption, GroundAssumption
<1>1. \A i \in Objects : bed[i] \in Beds[i] /\ kind[i] = FirstKind[i]
  BY DEF WalkInit
<1>2. flags = [p \in Cells |-> Said(p)]
  BY DEF WalkInit, Said
<1>3. \A p \in Cells : Said(p) \in SUBSET (Blocking \union Lone)
  BY <1>1 DEF Said
<1>4. ASSUME NEW d \in Window PROVE cache[d] \in BOOLEAN /\ Entry(cache[d], At(place, d))
  <2>1. PICK p : p = At(place, d)
    OBVIOUS
  <2>2. cache[d] = FreeIf(p, place, other, FlagsOf(flags, p), burns, serves, otherServes)
    BY <2>1 DEF WalkInit
  <2>3. cache[d] \in BOOLEAN
    BY <2>2 DEF FreeIf
  <2>4. Entry(cache[d], p)
    BY <2>2, <2>3 DEF FreeIf, Entry, MayWalk, MayNot, Clear, Doors
  <2> QED BY <2>1, <2>3, <2>4
<1> DEFINE v(d) == FreeIf(At(place, d), place, other, FlagsOf(flags, At(place, d)), burns, serves, otherServes)
<1>5. cache \in [Window -> BOOLEAN]
  <2>1. cache = [d \in Window |-> v(d)]
    BY DEF WalkInit
  <2>2. \A d \in Window : v(d) \in BOOLEAN
    BY DEF FreeIf
  <2> HIDE DEF v
  <2> QED BY <2>1, <2>2
<1>6. WalkTypeOK
  <2>1. cache \in [Window -> BOOLEAN]
    BY <1>5
  <2>2. bed \in [Objects -> Cells \union {Absent}] /\ kind \in [Objects -> DOMAIN KindFlags]
    BY <1>1 DEF WalkInit
  <2>3. flags \in [Cells -> SUBSET (Blocking \union Lone)]
    BY <1>2, <1>3
  <2> QED BY <2>1, <2>2, <2>3 DEF WalkInit, WalkTypeOK
<1>7. FlagsTrue
  <2>1. \A p \in Cells : Agrees(p)
    BY <1>2 DEF Agrees
  <2> QED BY <2>1, FlagsSay
<1>8. CacheTrue
  BY <1>4, <1>6, CacheSays DEF EntriesTrue
<1>9. ObjectsInPlace
  BY <1>1, FormsClosed DEF ObjectsInPlace
<1> QED BY <1>6, <1>7, <1>8, <1>9 DEF WalkInv, WalkHolds

LEMMA WalkTypes ==
    ASSUME WalkTypeOK, WalkNext
    PROVE  WalkTypeOK'
<1> USE WalkMapAssumption, GroundAssumption
<1> USE DEF WalkTypeOK
<1>1. ASSUME NEW s \in {-1, 0, 1} \X {-1, 0, 1}, Step(s) PROVE WalkTypeOK'
  BY <1>1, ShiftedType DEF Step, Terrain
<1>2. ASSUME NEW p \in Cells, TeleportTo(p) PROVE WalkTypeOK'
  BY <1>2, UpdateMapType DEF TeleportTo, Terrain
<1>3. ASSUME NEW p \in Cells \union {Absent}, OtherMoves(p) PROVE WalkTypeOK'
  <2>1. UpdateTile(cache, p) \in [Window -> BOOLEAN]
    BY UpdateTileType
  <2>2. cache' \in [Window -> BOOLEAN]
    BY <1>3, <2>1, UpdateTileType DEF OtherMoves
  <2>3. other' \in Cells \union {Absent} /\ otherServes' \in BOOLEAN
    <3>1. other' = p /\ p \in (Walks \ {place}) \union {Absent}
      BY <1>3 DEF OtherMoves
    <3>2. otherServes' \in {FALSE} \/ otherServes' \in BOOLEAN \/ otherServes' \in {otherServes}
      BY <1>3 DEF OtherMoves
    <3> QED BY <3>1, <3>2
  <2> QED BY <1>3, <2>2, <2>3 DEF OtherMoves, Terrain
<1>4. ASSUME NEW i \in Objects, NEW p \in Cells, AddThing(i, p) PROVE WalkTypeOK'
  <2>1. FlagsAdded(flags[p], kind[i]) \in SUBSET (Blocking \union Lone)
    BY DEF FlagsAdded
  <2>2. flags' \in [Cells -> SUBSET (Blocking \union Lone)]
    BY <1>4, <2>1 DEF AddThing
  <2>3. cache' \in [Window -> BOOLEAN]
    BY <1>4, UpdateTileType DEF AddThing
  <2> QED BY <1>4, <2>2, <2>3 DEF AddThing, Others
<1>5. ASSUME NEW i \in Objects, RemoveThing(i) PROVE WalkTypeOK'
  <2>1. bed[i] \in Cells
    BY <1>5 DEF RemoveThing
  <2>2. FlagsRemoved(flags[bed[i]], kind[i], Kinds(bed[i], i)) \in SUBSET (Blocking \union Lone)
    BY <2>1 DEF FlagsRemoved
  <2>3. flags' \in [Cells -> SUBSET (Blocking \union Lone)]
    BY <1>5, <2>2 DEF RemoveThing
  <2>4. cache' \in [Window -> BOOLEAN]
    BY <1>5, UpdateTileType DEF RemoveThing
  <2> QED BY <1>5, <2>3, <2>4 DEF RemoveThing, Others
<1>6. ASSUME NEW i \in Objects, NEW k \in DOMAIN KindFlags, UpdateThing(i, k) PROVE WalkTypeOK'
  <2>1. bed[i] \in Cells
    BY <1>6 DEF UpdateThing
  <2> DEFINE g == FlagsRemoved(FlagsRemoved(flags[bed[i]], kind[i], Kinds(bed[i], i)), k, Kinds(bed[i], i))
  <2>2. FlagsAdded(g, k) \in SUBSET (Blocking \union Lone)
    BY <2>1 DEF FlagsRemoved, FlagsAdded
  <2>3. flags' \in [Cells -> SUBSET (Blocking \union Lone)]
    <3>1. flags' = [flags EXCEPT ![bed[i]] = FlagsAdded(g, k)]
      BY <1>6 DEF UpdateThing
    <3> QED BY <2>2, <3>1
  <2>4. cache' \in [Window -> BOOLEAN]
    BY <1>6, UpdateTileType DEF UpdateThing
  <2> QED BY <1>6, <2>3, <2>4 DEF UpdateThing, Others
<1>7. CASE Burn
  BY <1>7, UpdateMapType DEF Burn, Terrain
<1>8. CASE ConvinceIt \/ ConvinceOther
  BY <1>8 DEF ConvinceIt, ConvinceOther, Terrain
<1> QED BY <1>1, <1>2, <1>3, <1>4, <1>5, <1>6, <1>7, <1>8 DEF WalkNext

LEMMA WalkKeeps == WalkInv /\ WalkNext => WalkInv'
<1> SUFFICES ASSUME WalkInv, WalkNext PROVE WalkInv'
  OBVIOUS
<1>0. WalkTypeOK /\ FlagsTrue /\ CacheTrue /\ EntriesTrue /\ ObjectsInPlace
  BY CacheSays DEF WalkInv, WalkHolds
<1>1. WalkTypeOK'
  BY <1>0, WalkTypes
<1>2. ASSUME FlagsTrue', EntriesTrue', ObjectsInPlace' PROVE WalkInv'
  BY <1>1, <1>2, CacheSaysNext DEF WalkInv, WalkHolds
<1>3. UNCHANGED <<bed, kind, flags>> => FlagsTrue' /\ ObjectsInPlace'
  BY <1>0 DEF FlagsTrue, ObjectsInPlace
<1>4. ASSUME NEW s \in {-1, 0, 1} \X {-1, 0, 1}, Step(s) PROVE WalkInv'
  BY <1>0, <1>2, <1>3, <1>4, StepShifts DEF Step, Terrain
<1>5. ASSUME NEW p \in Cells, TeleportTo(p) PROVE WalkInv'
  BY <1>0, <1>2, <1>3, <1>5, AllLooks DEF TeleportTo, Terrain
<1>6. ASSUME NEW p \in Cells \union {Absent}, OtherMoves(p) PROVE WalkInv'
  BY <1>0, <1>2, <1>3, <1>6, MoveLooks DEF OtherMoves, Terrain
<1>7. ASSUME NEW i \in Objects, NEW p \in Cells, AddThing(i, p) PROVE WalkInv'
  <2>1. ObjectsInPlace'
    BY <1>0, <1>7 DEF AddThing, ObjectsInPlace, WalkTypeOK
  <2> QED BY <1>0, <1>2, <1>7, <2>1, AddFlags, AddLooks
<1>8. ASSUME NEW i \in Objects, RemoveThing(i) PROVE WalkInv'
  <2>1. ObjectsInPlace'
    BY <1>0, <1>8 DEF RemoveThing, ObjectsInPlace, WalkTypeOK
  <2> QED BY <1>0, <1>2, <1>8, <2>1, RemoveFlags, RemoveLooks
<1>9. ASSUME NEW i \in Objects, NEW k \in DOMAIN KindFlags, UpdateThing(i, k) PROVE WalkInv'
  <2>1. kind[i] \in Forms[i] /\ k \in Forms[i]
    BY <1>0, <1>9, FormsClosed DEF UpdateThing, ObjectsInPlace
  <2>2. ObjectsInPlace'
    BY <1>0, <1>9, <2>1 DEF UpdateThing, ObjectsInPlace, WalkTypeOK
  <2> QED BY <1>0, <1>2, <1>9, <2>2, UpdateFlags, UpdateLooks
<1>10. CASE Burn
  BY <1>0, <1>2, <1>3, <1>10, AllLooks DEF Burn, Terrain
<1>11. CASE ConvinceIt \/ ConvinceOther
  BY <1>0, <1>2, <1>3, <1>11, ConvinceLooks DEF ConvinceIt, ConvinceOther, Terrain
<1> QED BY <1>4, <1>5, <1>6, <1>7, <1>8, <1>9, <1>10, <1>11 DEF WalkNext

LEMMA WalkStutters == WalkInv /\ UNCHANGED walkVars => WalkInv'
<1> SUFFICES ASSUME WalkInv, UNCHANGED walkVars PROVE WalkInv'
  OBVIOUS
<1>0. WalkTypeOK /\ FlagsTrue /\ EntriesTrue /\ ObjectsInPlace
  BY CacheSays DEF WalkInv, WalkHolds
<1>1. WalkTypeOK' /\ FlagsTrue' /\ ObjectsInPlace'
  BY <1>0 DEF walkVars, WalkTypeOK, FlagsTrue, ObjectsInPlace
<1>2. \A p : Undisturbed(p)
  BY QuietTile DEF walkVars
<1>3. EntriesTrue'
  BY <1>0, <1>2, NoLook DEF walkVars
<1> QED BY <1>1, <1>3, CacheSaysNext DEF WalkInv, WalkHolds

\* The invariant of the walk cache is inductive: the cache is true as long as items keep
\* to their places and kinds.
THEOREM WalkInductive == WalkSpec => []WalkInv
BY WalkStarts, WalkKeeps, WalkStutters, PTL DEF WalkSpec

\* What a monster and a tile keep of the map is true of it, whatever moves, comes, goes or
\* changes (localMapCache, m_flags).
THEOREM WalkKept == WalkSpec => []WalkHolds
<1>1. WalkInv => WalkHolds
  BY DEF WalkInv
<1> QED BY <1>1, WalkInductive, PTL
-----------------------------------------------------------------------------
(* The death of a player.                                                  *)

Persons == Foes \union {Victim, NoOne}
Body == [health : 0 .. MaxHealth, damage : [Persons -> Nat], last : Persons, crashed : BOOLEAN]
Effect == [kind : {"regen", "poison", "bleed"}, owner : Persons, rounds : Seq(Nat)]

DeathsTypes ==
    /\ master \in [Foes -> Players \union {NoOne}] /\ \A f \in Players : master[f] = NoOne
    /\ here \subseteq Foes /\ body \in Body /\ effects \in Seq(Effect) /\ strikes \subseteq Foes
    /\ fate \in {"alive", "dying", "dead"} /\ {told, gained} \subseteq [Foes -> Nat]
    /\ paid \in {"no", "once"} /\ hurt \in Nat /\ forgotten \in BOOLEAN

\* The damage booked for somebody.
Credit(b) == SumFunctionOnSet(b.damage, Persons) - b.damage[NoOne]

\* Who has paid has health again, or nothing more to pay.
PaidUp == paid = "once" => body.health > 0 \/ fate = "dead"

DeathsInv ==
    /\ DeathsTypes /\ Credit(body) = hurt /\ PaidUp
    /\ ToldOnce /\ MostIsTold /\ SharesFair
-----------------------------------------------------------------------------
\* Health is lost as it is booked.
Lost(b, c) == IF b.health > c.health THEN b.health - c.health ELSE 0
Passes(b, c) == c \in Body /\ Credit(c) = Credit(b) + Lost(b, c)

LEMMA PersonsAre ==
    /\ IsFiniteSet(Persons) /\ NoOne \in Persons /\ Victim \in Persons /\ Victim # NoOne
    /\ Foes \subseteq Persons /\ NoOne \notin Foes /\ Victim \notin Foes /\ Persons \subseteq Nat
    /\ IsFiniteSet(Foes) /\ MaxHealth \in Nat \ {0} /\ Worth \in Nat
<1>1. IsFiniteSet(Foes)
  BY DeathsAssumption DEF Foes
<1>2. IsFiniteSet({Victim, NoOne})
  <2>1. IsFiniteSet({}) /\ {Victim, NoOne} = ({} \union {Victim}) \union {NoOne}
    BY FS_EmptySet
  <2> QED BY <2>1, FS_AddElement
<1>3. IsFiniteSet(Persons)
  BY <1>1, <1>2, FS_Union DEF Persons
<1> QED BY <1>1, <1>3, DeathsAssumption DEF Persons, Foes, NoOne

LEMMA BodyIs ==
    ASSUME NEW b \in Body
    PROVE  /\ b.health \in Nat /\ b.health \in 0 .. MaxHealth /\ b.damage \in [Persons -> Nat]
           /\ b.last \in Persons /\ b.crashed \in BOOLEAN
<1>1. b.health \in 0 .. MaxHealth /\ MaxHealth \in Nat
  BY PersonsAre DEF Body
<1> QED BY <1>1 DEF Body

LEMMA CreditIs == ASSUME NEW b \in Body PROVE Credit(b) \in Int
<1>1. \A x \in Persons : b.damage[x] \in Int
  BY DEF Body
<1>2. SumFunctionOnSet(b.damage, Persons) \in Int
  BY <1>1, PersonsAre, SumType
<1> QED BY <1>1, <1>2, PersonsAre DEF Credit

LEMMA SamePasses ==
    ASSUME NEW b \in Body, NEW c \in Body, c.damage = b.damage, c.health >= b.health
    PROVE  Passes(b, c)
<1>1. Lost(b, c) = 0
  BY DEF Lost, Body
<1>2. Credit(c) = Credit(b)
  BY DEF Credit
<1> QED BY <1>1, <1>2, CreditIs DEF Passes

LEMMA DrainPasses ==
    ASSUME NEW b \in Body, NEW who \in Foes \union {Victim}, NEW v \in Nat, v <= b.health
    PROVE  Passes(b, Drain(b, who, v))
<1> DEFINE c == Drain(b, who, v)
<1>0. who \in Persons /\ who # NoOne
  BY PersonsAre
<1>1. c \in Body /\ c.health = b.health - v /\ c.damage = [b.damage EXCEPT ![who] = @ + v]
  <2>1. b.health \in 0 .. MaxHealth /\ MaxHealth \in Nat /\ b.damage \in [Persons -> Nat]
    BY PersonsAre DEF Body
  <2>2. b.health - v \in 0 .. MaxHealth /\ [b.damage EXCEPT ![who] = @ + v] \in [Persons -> Nat]
    BY <1>0, <2>1
  <2> QED BY <1>0, <2>2 DEF Drain, Body
<1>2. Lost(b, c) = v
  <2>1. b.health \in Nat
    BY DEF Body
  <2> QED BY <1>1, <2>1 DEF Lost
<1> DEFINE d == b.damage
           e == c.damage
<1>3. d \in [Persons -> Nat]
  BY DEF Body
<1>4. e = [d EXCEPT ![who] = @ + v]
  BY <1>1
<1> HIDE DEF c, d, e
<1>5. \A x \in Persons : d[x] \in Int /\ (x # who => e[x] = d[x])
  BY <1>3, <1>4
<1>6. e[who] = d[who] + v /\ e[who] \in Int /\ e[NoOne] = d[NoOne] /\ d[NoOne] \in Int
  BY <1>0, <1>3, <1>4, PersonsAre
<1>7. SumFunctionOnSet(e, Persons) = SumFunctionOnSet(d, Persons) - d[who] + e[who]
  <2>1. \A x \in Persons : d[x] \in Int
    BY <1>5
  <2>2. \A x \in Persons : x # who => e[x] = d[x]
    BY <1>5
  <2>3. IsFiniteSet(Persons) /\ who \in Persons
    BY <1>0, PersonsAre
  <2> QED BY ONLY <1>6, <2>1, <2>2, <2>3, SumChanged
<1>8. SumFunctionOnSet(d, Persons) \in Int
  BY <1>5, PersonsAre, SumType
<1>9. Credit(c) = Credit(b) + v
  BY <1>0, <1>5, <1>6, <1>7, <1>8 DEF Credit, d, e
<1> QED BY <1>1, <1>2, <1>9 DEF Passes, c

LEMMA HurtPasses ==
    ASSUME NEW b \in Body, NEW who \in Foes \union {Victim}, NEW v \in Nat, NEW ground
    PROVE  Passes(b, Hurt(b, who, v, ground))
<1>1. b.health \in Nat
  BY DEF Body
<1>2. Smaller(b.health, v) \in Nat /\ Smaller(b.health, v) <= b.health
  BY <1>1 DEF Smaller
<1>3. Passes(b, b)
  BY <1>1, SamePasses
<1>4. Passes(b, Drain(b, who, Smaller(b.health, v)))
  BY <1>2, DrainPasses
<1> QED BY <1>3, <1>4 DEF Hurt

LEMMA DoDamagePasses ==
    ASSUME NEW b \in Body, NEW c, NEW v \in Nat, NEW ground, here \subseteq Foes
    PROVE  Passes(b, DoDamage(b, c, v, ground))
<1>1. CASE c.owner \in here \union {Victim}
  BY <1>1, HurtPasses DEF DoDamage
<1>2. CASE ~(c.owner \in here \union {Victim})
  <2>1. DoDamage(b, c, v, ground) = [b EXCEPT !.crashed = TRUE]
    BY <1>2 DEF DoDamage
  <2> DEFINE d == [b EXCEPT !.crashed = TRUE]
  <2>2. d \in Body /\ d.damage = b.damage /\ d.health >= b.health
    <3>1. d.damage = b.damage /\ d.health = b.health /\ d \in Body
      BY DEF Body
    <3> QED BY <3>1, BodyIs
  <2> HIDE DEF d
  <2> QED BY <2>1, <2>2, SamePasses DEF d
<1> QED BY <1>1, <1>2

LEMMA ExecutePasses ==
    ASSUME NEW b \in Body, NEW c \in Effect, NEW due, NEW ground, here \subseteq Foes
    PROVE  Passes(b, Execute(b, c, due, ground))
<1>0. b.health \in 0 .. MaxHealth /\ MaxHealth \in Nat
  BY PersonsAre DEF Body
<1>1. Passes(b, b)
  BY <1>0, SamePasses
<1>2. ASSUME b.health # MaxHealth PROVE Passes(b, [b EXCEPT !.health = @ + 1])
  <2> DEFINE d == [b EXCEPT !.health = @ + 1]
  <2>1. d \in Body /\ d.damage = b.damage /\ d.health >= b.health
    BY <1>0, <1>2 DEF Body
  <2> HIDE DEF d
  <2> QED BY <2>1, SamePasses DEF d
<1>3. ASSUME c.rounds # <<>> PROVE Passes(b, DoDamage(b, c, Head(c.rounds), ground))
  <2>1. Head(c.rounds) \in Nat
    BY <1>3 DEF Effect
  <2> QED BY <2>1, DoDamagePasses
<1> QED BY <1>1, <1>2, <1>3 DEF Execute
-----------------------------------------------------------------------------
(* Going through some bodies.                                              *)

IsLosses(g, bs) ==
    g = [s \in SUBSET (1 .. Len(bs) - 1) |->
            IF s = {} THEN 0
            ELSE LET i == Picked(s)
                 IN  (IF bs[i].health > bs[i + 1].health THEN bs[i].health - bs[i + 1].health ELSE 0) + g[s \ {i}]]

LEMMA LossesLoop ==
    ASSUME NEW bs PROVE Losses(bs) = (CHOOSE g : IsLosses(g, bs))[1 .. Len(bs) - 1]
BY DEF Losses, MapThenSumSet, MapThenFoldSet, Picked, IsLosses

LEMMA LossesAre ==
    ASSUME NEW bs, Len(bs) \in Nat
    PROVE  Losses(bs) = SumFunctionOnSet([i \in 1 .. Len(bs) - 1 |-> Lost(bs[i], bs[i + 1])], 1 .. Len(bs) - 1)
<1> DEFINE S == 1 .. Len(bs) - 1
           f == [i \in S |-> Lost(bs[i], bs[i + 1])]
<1>0. IsFiniteSet(S)
  <2>1. 1 \in Int /\ Len(bs) - 1 \in Int
    OBVIOUS
  <2> QED BY <2>1, FS_Interval
<1>1. \A i \in S : f[i] = IF bs[i].health > bs[i + 1].health THEN bs[i].health - bs[i + 1].health ELSE 0
  BY DEF Lost
<1>2. Losses(bs) = (CHOOSE g : IsLosses(g, bs))[S]
  BY LossesLoop
<1> HIDE DEF f
<1>3. ASSUME NEW s \in SUBSET S, s # {} PROVE Picked(s) \in S
  BY <1>3 DEF Picked
<1>4. ASSUME NEW g PROVE IsSum(g, S, f) <=> IsLosses(g, bs)
  <2> DEFINE G == [s \in SUBSET S |-> IF s = {} THEN 0 ELSE f[Picked(s)] + g[s \ {Picked(s)}]]
             H == [s \in SUBSET S |->
                    IF s = {} THEN 0
                    ELSE LET i == Picked(s)
                         IN  (IF bs[i].health > bs[i + 1].health THEN bs[i].health - bs[i + 1].health ELSE 0) + g[s \ {i}]]
  <2>1. G = H
    BY <1>1, <1>3
  <2>2. IsSum(g, S, f) <=> g = G
    BY DEF IsSum
  <2>3. IsLosses(g, bs) <=> g = H
    BY DEF IsLosses
  <2> HIDE DEF G, H
  <2> QED BY <2>1, <2>2, <2>3
<1>5. PICK g : IsSum(g, S, f) /\ g[S] = SumFunctionOnSet(f, S)
  BY <1>0, SumLoop
<1> DEFINE c == CHOOSE h : IsLosses(h, bs)
<1>6. IsLosses(c, bs)
  BY <1>4, <1>5
<1>7. IsSum(c, S, f) /\ Losses(bs) = c[S]
  BY <1>2, <1>4, <1>6
<1> HIDE DEF c
<1>8. c[S] = g[S]
  BY <1>0, <1>5, <1>7, SameSums
<1> QED BY <1>5, <1>7, <1>8 DEF f

\* What going through some bodies comes to.
Through(bs) ==
    /\ bs \in Seq(Body) /\ bs # <<>> /\ bs[1] = body
    /\ \A i \in 1 .. Len(bs) - 1 : Passes(bs[i], bs[i + 1])

LEMMA SufferKeeps ==
    ASSUME body \in Body, hurt \in Nat, paid \in {"no", "once"}, Credit(body) = hurt,
           paid = "once" => body.health > 0,
           NEW bs, Through(bs), Suffer(bs)
    PROVE  /\ body' \in Body /\ hurt' \in Nat /\ paid' \in {"no", "once"}
           /\ Credit(body') = hurt' /\ (paid' = "once" => body'.health > 0)
<1> DEFINE n == Len(bs) - 1
           f == [i \in 1 .. n |-> Lost(bs[i], bs[i + 1])]
<1>0. n \in Nat /\ Len(bs) = n + 1 /\ Len(bs) \in Nat /\ bs[1] = body
  BY DEF Through
<1>1. \A i \in 1 .. n + 1 : bs[i] \in Body /\ bs[i].health \in Nat
  <2>1. bs \in Seq(Body)
    BY DEF Through
  <2>2. \A i \in 1 .. n + 1 : bs[i] \in Body
    BY <1>0, <2>1
  <2> QED BY <2>2, BodyIs
<1>2. body' = bs[n + 1]
  BY <1>0 DEF Suffer, Last
<1>3. hurt' = hurt + SumFunctionOnSet(f, 1 .. n)
  BY <1>0, LossesAre DEF Suffer
<1>4. \A i \in 1 .. n : f[i] \in Nat
  BY <1>1 DEF Lost
<1>5. \A i \in 1 .. n : Credit(bs[i + 1]) = Credit(bs[i]) + f[i]
  BY DEF Through, Passes
<1>6. \A i \in 1 .. n + 1 : Credit(bs[i]) \in Int
  BY <1>1, CreditIs
<1>a. paid' = IF Falls(bs) THEN "no" ELSE paid
  BY DEF Suffer
<1>b. Falls(bs) <=> \E i \in 1 .. n : bs[i].health > 0 /\ bs[i + 1].health = 0
  BY DEF Falls
<1> HIDE DEF n, f
<1>7. \A m \in 0 .. n : SumFunctionOnSet(f, 1 .. m) \in Nat /\ Credit(bs[m + 1]) = hurt + SumFunctionOnSet(f, 1 .. m)
  <2> DEFINE Bad == {m \in Nat : m <= n /\ ~ (SumFunctionOnSet(f, 1 .. m) \in Nat
                                              /\ Credit(bs[m + 1]) = hurt + SumFunctionOnSet(f, 1 .. m))}
  <2>1. 0 \notin Bad
    <3>1. 1 .. 0 = {} /\ SumFunctionOnSet(f, {}) = 0
      BY SumEmpty
    <3>2. bs[0 + 1] = body
      BY <1>0
    <3> QED BY <3>1, <3>2
  <2>2. ASSUME NEW m \in Nat, m + 1 \in Bad PROVE m \in Bad
    <3>0. m + 1 <= n /\ m <= n /\ m + 1 \in 1 .. n /\ m + 1 \in 1 .. n + 1 /\ m + 1 + 1 \in 1 .. n + 1
      BY <1>0, <2>2
    <3>1. IsFiniteSet(1 .. m + 1)
      BY FS_Interval
    <3>2. \A x \in 1 .. m + 1 : f[x] \in Int /\ f[x] \in Nat
      BY <1>0, <1>4, <3>0
    <3>3. m + 1 \in 1 .. m + 1 /\ (1 .. m + 1) \ {m + 1} = 1 .. m
      OBVIOUS
    <3>4. SumFunctionOnSet(f, 1 .. m + 1) = f[m + 1] + SumFunctionOnSet(f, (1 .. m + 1) \ {m + 1})
      BY <3>1, <3>2, <3>3, SumWithout
    <3>5. SumFunctionOnSet(f, 1 .. m + 1) = f[m + 1] + SumFunctionOnSet(f, 1 .. m)
      BY <3>3, <3>4
    <3>6. Credit(bs[m + 1 + 1]) = Credit(bs[m + 1]) + f[m + 1] /\ Credit(bs[m + 1]) \in Int /\ f[m + 1] \in Nat
      BY <1>4, <1>5, <1>6, <3>0
    <3> SUFFICES ASSUME SumFunctionOnSet(f, 1 .. m) \in Nat /\ Credit(bs[m + 1]) = hurt + SumFunctionOnSet(f, 1 .. m)
                 PROVE  FALSE
      BY <3>0
    <3> QED BY ONLY <2>2, <3>5, <3>6, hurt \in Nat, SumFunctionOnSet(f, 1 .. m) \in Nat /\ Credit(bs[m + 1]) = hurt + SumFunctionOnSet(f, 1 .. m)
  <2>3. Bad = {}
    BY <2>1, <2>2, NoLeast
  <2> SUFFICES ASSUME NEW m \in 0 .. n,
                       ~ (SumFunctionOnSet(f, 1 .. m) \in Nat /\ Credit(bs[m + 1]) = hurt + SumFunctionOnSet(f, 1 .. m))
               PROVE  FALSE
    OBVIOUS
  <2>4. m \in Nat /\ m <= n
    BY <1>0
  <2> QED BY <2>3, <2>4
<1>8. Credit(body') = hurt' /\ hurt' \in Nat
  BY <1>0, <1>2, <1>3, <1>7
<1>9. ASSUME paid' = "once" PROVE body'.health > 0
  <2>1. paid = "once" /\ \A i \in 1 .. n : bs[i].health > 0 => bs[i + 1].health > 0
    BY <1>0, <1>1, <1>9, <1>a, <1>b
  <2> DEFINE Bad == {m \in Nat : m <= n /\ ~ (bs[m + 1].health > 0)}
  <2>2. 0 \notin Bad
    BY <1>0, <2>1
  <2>3. ASSUME NEW m \in Nat, m + 1 \in Bad PROVE m \in Bad
    <3>1. m + 1 \in 1 .. n /\ m <= n
      BY <1>0, <2>3
    <3> QED BY <2>1, <2>3, <3>1
  <2>4. Bad = {}
    BY <2>2, <2>3, NoLeast
  <2>5. n \in Nat /\ n <= n /\ n \notin Bad
    BY <1>0, <2>4
  <2>6. bs[n + 1].health > 0
    BY ONLY <2>5
  <2> QED BY <1>2, <2>6
<1>10. body' \in Body /\ paid' \in {"no", "once"}
  BY <1>0, <1>1, <1>2, <1>a
<1> QED BY <1>8, <1>9, <1>10
-----------------------------------------------------------------------------
(* Conditions.                                                             *)

LEMMA PlacesAre ==
    ASSUME NEW X, NEW s \in Seq(X)
    PROVE  /\ Len(s) \in Nat /\ DOMAIN [i \in DOMAIN s |-> i] = 1 .. Len(s)
           /\ \A x \in 1 .. Len(s) : [i \in DOMAIN s |-> i][x] = x /\ s[x] \in X
OBVIOUS

IsKept(g, s, S) ==
    g = [p \in SUBSET DOMAIN [i \in DOMAIN s |-> i] |->
            IF p = {} THEN <<>>
            ELSE LET x == Latest(p)
                 IN  IF [i \in DOMAIN s |-> i][x] \in S
                     THEN Append(g[p \ {x}], s[[i \in DOMAIN s |-> i][x]]) ELSE g[p \ {x}]]

LEMMA KeptIsLoop ==
    ASSUME NEW s, NEW S
    PROVE  KeptAt(s, S) = (CHOOSE g : IsKept(g, s, S))[DOMAIN [i \in DOMAIN s |-> i]]
BY DEF KeptAt, FoldLeftDomain, FoldLeft, MapThenFoldSet, Max, Latest, IsKept

LEMMA KeptType ==
    ASSUME NEW X, NEW s \in Seq(X), NEW S
    PROVE  KeptAt(s, S) \in Seq(X)
<1> DEFINE n == Len(s)
           V == Seq(X)
           step == [t \in V \X (1 .. n) |-> IF t[2] \in S THEN Append(t[1], s[t[2]]) ELSE t[1]]
           at == [i \in DOMAIN s |-> i]
<1>1. n \in Nat /\ DOMAIN at = 1 .. n /\ \A x \in 1 .. n : at[x] = x /\ s[x] \in X
  BY PlacesAre
<1>2. \A v \in V, x \in 1 .. n :
        step[<<v, x>>] = IF x \in S THEN Append(v, s[x]) ELSE v
  OBVIOUS
<1>3. IsStep(step, n, V)
  BY <1>1 DEF IsStep
<1>4. <<>> \in V
  OBVIOUS
<1>5. KeptAt(s, S) = (CHOOSE g : IsKept(g, s, S))[DOMAIN at]
  BY KeptIsLoop
<1> HIDE DEF n, V, step
<1>6. PICK g : IsLeft(g, n, <<>>, step)
  BY <1>1, LeftExists
<1>7. /\ \A p \in SUBSET (1 .. n) : g[p] \in V
      /\ \E h : IsTurns(h, n, V, <<>>, step) /\ h[n] = g[1 .. n]
  <2>1. n \in Nat
    BY <1>1
  <2>2. HasTurns(g, n, V, <<>>, step)
    BY <2>1, <1>3, <1>4, <1>6, LeftTurns
  <2> QED BY <2>2 DEF HasTurns
<1>8. \A p \in SUBSET (1 .. n) : p # {} => Latest(p) \in 1 .. n /\ p \ {Latest(p)} \in SUBSET (1 .. n)
  BY <1>1, LatestOut
<1>9. IsKept(g, s, S)
  <2> DEFINE Body1(p) == IF p = {} THEN <<>> ELSE step[<<g[p \ {Latest(p)}], Latest(p)>>]
             Body2(p) == IF p = {} THEN <<>>
                         ELSE LET x == Latest(p)
                              IN  IF at[x] \in S THEN Append(g[p \ {x}], s[at[x]]) ELSE g[p \ {x}]
  <2>1. \A p \in SUBSET (1 .. n) : Body1(p) = Body2(p)
    BY <1>1, <1>2, <1>7, <1>8
  <2>2. g = [p \in SUBSET (1 .. n) |-> Body1(p)]
    BY <1>6 DEF IsLeft
  <2>3. g = [p \in SUBSET DOMAIN at |-> Body2(p)]
    BY <1>1, <2>1, <2>2
  <2> QED BY <2>3 DEF IsKept
<1> DEFINE c == CHOOSE k : IsKept(k, s, S)
<1>10. IsKept(c, s, S)
  BY <1>9
<1> HIDE DEF c
<1>11. \A p \in SUBSET (1 .. n) :
        /\ c[p] = IF p = {} THEN <<>> ELSE IF at[Latest(p)] \in S
                    THEN Append(c[p \ {Latest(p)}], s[at[Latest(p)]]) ELSE c[p \ {Latest(p)}]
        /\ g[p] = IF p = {} THEN <<>> ELSE IF at[Latest(p)] \in S
                    THEN Append(g[p \ {Latest(p)}], s[at[Latest(p)]]) ELSE g[p \ {Latest(p)}]
  BY <1>1, <1>9, <1>10 DEF IsKept
<1>12. \A p \in SUBSET (1 .. n) : c[p] = g[p]
  <2>2. GoOnAlike(c, g, n)
    BY <1>11 DEF GoOnAlike
  <2>3. n \in Nat
    BY <1>1
  <2> QED BY <2>2, <2>3, LeftsAgree DEF AreAlike
<1>13. KeptAt(s, S) = g[1 .. n] /\ 1 .. n \in SUBSET (1 .. n)
  BY <1>1, <1>5, <1>12 DEF c
<1> QED BY <1>7, <1>13 DEF V

IsBodies(g, due, ground) ==
    g = [p \in SUBSET DOMAIN [i \in DOMAIN effects |-> i] |->
            IF p = {} THEN <<body>>
            ELSE LET x == Latest(p)
                 IN  Append(g[p \ {x}],
                            Execute(Last(g[p \ {x}]), effects[[i \in DOMAIN effects |-> i][x]],
                                    [i \in DOMAIN effects |-> i][x] \in due, ground))]

LEMMA BodiesLoop ==
    ASSUME NEW due, NEW ground
    PROVE  Bodies(due, ground) = (CHOOSE g : IsBodies(g, due, ground))[DOMAIN [i \in DOMAIN effects |-> i]]
BY DEF Bodies, FoldLeftDomain, FoldLeft, MapThenFoldSet, Max, Latest, IsBodies

LEMMA BodiesThrough ==
    ASSUME DeathsTypes, NEW due, NEW ground
    PROVE  Through(Bodies(due, ground))
<1> DEFINE n == Len(effects)
           V == {t \in Seq(Body) : t # <<>>}
           Next(t, x) == Append(t, Execute(Last(t), effects[x], x \in due, ground))
           step == [t \in V \X (1 .. n) |-> Next(t[1], t[2])]
           at == [i \in DOMAIN effects |-> i]
<1>0. effects \in Seq(Effect) /\ body \in Body /\ here \subseteq Foes
  BY DEF DeathsTypes
<1>1. n \in Nat /\ DOMAIN at = 1 .. n /\ \A x \in 1 .. n : at[x] = x /\ effects[x] \in Effect
  BY <1>0, PlacesAre
<1>2. ASSUME NEW t \in V, NEW x \in 1 .. n
      PROVE  /\ Next(t, x) \in V /\ Len(Next(t, x)) = Len(t) + 1 /\ Len(t) \in Nat \ {0}
             /\ \A i \in 1 .. Len(t) : Next(t, x)[i] = t[i]
             /\ Passes(t[Len(t)], Next(t, x)[Len(t) + 1])
  <2>1. Last(t) \in Body /\ Last(t) = t[Len(t)] /\ Len(t) \in Nat \ {0}
    BY DEF Last
  <2> DEFINE e == Execute(Last(t), effects[x], x \in due, ground)
  <2>2. Passes(Last(t), e) /\ e \in Body
    BY <1>0, <1>1, <2>1, ExecutePasses DEF Passes
  <2>3. Next(t, x) = Append(t, e)
    OBVIOUS
  <2> HIDE DEF e, Next
  <2> QED BY <2>1, <2>2, <2>3
<1>3. \A v \in V, x \in 1 .. n : step[<<v, x>>] = Next(v, x)
  OBVIOUS
<1>4. IsStep(step, n, V)
  BY <1>2 DEF IsStep
<1>5. <<body>> \in V /\ Len(<<body>>) = 1 /\ <<body>>[1] = body
  BY <1>0
<1>6. Bodies(due, ground) = (CHOOSE g : IsBodies(g, due, ground))[DOMAIN at]
  BY BodiesLoop
<1> HIDE DEF step
<1>7. PICK g : IsLeft(g, n, <<body>>, step)
  BY <1>1, LeftExists
<1>8. /\ \A p \in SUBSET (1 .. n) : g[p] \in V
      /\ \E h : IsTurns(h, n, V, <<body>>, step) /\ h[n] = g[1 .. n]
  <2>1. n \in Nat /\ <<body>> \in V
    BY <1>1, <1>5
  <2> HIDE DEF n, V
  <2>2. HasTurns(g, n, V, <<body>>, step)
    BY <2>1, <1>4, <1>7, LeftTurns
  <2> QED BY <2>2 DEF HasTurns
<1>9. \A p \in SUBSET (1 .. n) : p # {} => Latest(p) \in 1 .. n /\ p \ {Latest(p)} \in SUBSET (1 .. n)
  BY <1>1, LatestOut
<1>10. IsBodies(g, due, ground)
  <2> DEFINE Body1(p) == IF p = {} THEN <<body>> ELSE step[<<g[p \ {Latest(p)}], Latest(p)>>]
             Body2(p) == IF p = {} THEN <<body>>
                         ELSE LET x == Latest(p)
                              IN  Append(g[p \ {x}], Execute(Last(g[p \ {x}]), effects[at[x]], at[x] \in due, ground))
  <2>1. \A p \in SUBSET (1 .. n) : Body1(p) = Body2(p)
    BY <1>1, <1>3, <1>8, <1>9
  <2>2. g = [p \in SUBSET (1 .. n) |-> Body1(p)]
    BY <1>7 DEF IsLeft
  <2>3. g = [p \in SUBSET DOMAIN at |-> Body2(p)]
    BY <1>1, <2>1, <2>2
  <2> QED BY <2>3 DEF IsBodies
<1> DEFINE c == CHOOSE k : IsBodies(k, due, ground)
<1>11. IsBodies(c, due, ground)
  BY <1>10
<1> HIDE DEF c
<1>12. \A p \in SUBSET (1 .. n) :
        /\ c[p] = IF p = {} THEN <<body>> ELSE Next(c[p \ {Latest(p)}], at[Latest(p)])
        /\ g[p] = IF p = {} THEN <<body>> ELSE Next(g[p \ {Latest(p)}], at[Latest(p)])
  BY <1>1, <1>10, <1>11 DEF IsBodies
<1>13. \A p \in SUBSET (1 .. n) : c[p] = g[p]
  <2>2. GoOnAlike(c, g, n)
    BY <1>12 DEF GoOnAlike
  <2>3. n \in Nat
    BY <1>1
  <2> HIDE DEF n
  <2> QED BY <2>2, <2>3, LeftsAgree DEF AreAlike
<1>14. Bodies(due, ground) = g[1 .. n]
  BY <1>1, <1>6, <1>13 DEF c
<1>15. PICK h : IsTurns(h, n, V, <<body>>, step) /\ h[n] = g[1 .. n]
  BY <1>8
<1>16. /\ \A i \in 0 .. n : h[i] \in V /\ h[0] = <<body>>
       /\ \A i \in 1 .. n : h[i] = Next(h[i - 1], i)
  <2>1. h \in [0 .. n -> V] /\ h[0] = <<body>> /\ \A i \in 1 .. n : h[i] = step[<<h[i - 1], i>>]
    BY <1>15 DEF IsTurns
  <2>2. n \in Nat
    BY <1>1
  <2> HIDE DEF Next, V, n
  <2>3. \A i \in 1 .. n : i - 1 \in 0 .. n
    BY <2>2
  <2>4. \A i \in 1 .. n : h[i - 1] \in V
    BY <2>1, <2>3
  <2> QED BY <1>3, <2>1, <2>4
<1> DEFINE Good(t, m) == /\ t \in V /\ Len(t) = m + 1 /\ t[1] = body
                         /\ \A i \in 1 .. m : Passes(t[i], t[i + 1])
<1>17. \A m \in 0 .. n : Good(h[m], m)
  <2> DEFINE Bad == {m \in Nat : m <= n /\ ~ Good(h[m], m)}
  <2>1. 0 \notin Bad
    <3>1. h[0] \in V /\ h[0] = <<body>>
      BY <1>1, <1>16
    <3>2. \A i \in 1 .. 0 : FALSE
      OBVIOUS
    <3>3. Good(h[0], 0)
      BY <1>5, <3>1, <3>2
    <3> HIDE DEF Good
    <3> QED BY <3>3
  <2>2. ASSUME NEW m \in Nat, m + 1 \in Bad PROVE m \in Bad
    <3>1. m + 1 \in 1 .. n /\ m \in 0 .. n /\ m <= n
      BY <1>1, <2>2
    <3>2. PICK t : t = h[m]
      OBVIOUS
    <3>3. t \in V /\ h[m + 1] = Next(t, m + 1)
      BY <1>16, <3>1, <3>2
    <3> SUFFICES ASSUME Good(t, m) PROVE FALSE
      BY <3>1, <3>2
    <3> DEFINE u == Next(t, m + 1)
    <3>4. /\ u \in V /\ Len(u) = m + 2 /\ Len(t) = m + 1
          /\ \A i \in 1 .. m + 1 : u[i] = t[i]
          /\ Passes(t[m + 1], u[m + 2])
      <4>1. Len(t) = m + 1
        OBVIOUS
      <4> HIDE DEF Next, V
      <4>2. /\ u \in V /\ Len(u) = Len(t) + 1
            /\ \A i \in 1 .. Len(t) : u[i] = t[i]
            /\ Passes(t[Len(t)], u[Len(t) + 1])
        BY <1>2, <3>1, <3>3
      <4>3. m + 1 + 1 = m + 2
        OBVIOUS
      <4> HIDE DEF u
      <4> QED BY <4>1, <4>2, <4>3
    <3> HIDE DEF u
    <3>5. u[1] = body
      BY <3>4
    <3>6. \A i \in 1 .. m + 1 : Passes(u[i], u[i + 1])
      <4> SUFFICES ASSUME NEW i \in 1 .. m + 1 PROVE Passes(u[i], u[i + 1])
        OBVIOUS
      <4>1. CASE i = m + 1
        <5>1. u[i] = t[m + 1] /\ i + 1 = m + 2
          BY <3>4, <4>1
        <5> QED BY <3>4, <5>1
      <4>2. CASE i # m + 1
        <5>1. i \in 1 .. m /\ i + 1 \in 1 .. m + 1 /\ i \in 1 .. m + 1
          BY <4>2
        <5>2. u[i] = t[i] /\ u[i + 1] = t[i + 1]
          BY <3>4, <5>1
        <5> QED BY <5>1, <5>2
      <4> QED BY <4>1, <4>2
    <3>7. Good(u, m + 1)
      BY <3>4, <3>5, <3>6
    <3> QED BY <2>2, <3>3, <3>7 DEF u
  <2>3. Bad = {}
    BY <2>1, <2>2, NoLeast
  <2> SUFFICES ASSUME NEW m \in 0 .. n, ~ Good(h[m], m) PROVE FALSE
    OBVIOUS
  <2>4. m \in Nat /\ m <= n
    BY <1>1
  <2> HIDE DEF Good
  <2> QED BY <2>3, <2>4
<1>18. PICK t : t = Bodies(due, ground)
  OBVIOUS
<1>19. Good(t, n)
  BY <1>1, <1>14, <1>15, <1>17, <1>18
<1>20. t \in Seq(Body) /\ t # <<>> /\ t[1] = body /\ Len(t) - 1 = n
  BY <1>1, <1>19
<1> QED BY <1>18, <1>19, <1>20 DEF Through
-----------------------------------------------------------------------------
(* What happens before the death.                                          *)

LEMMA DeathsFacts ==
    ASSUME DeathsInv, Open
    PROVE  /\ body \in Body /\ hurt \in Nat /\ paid \in {"no", "once"} /\ Credit(body) = hurt
           /\ (paid = "once" => body.health > 0) /\ here \subseteq Foes /\ effects \in Seq(Effect)
           /\ fate \in {"alive", "dying"} /\ DeathsTypes
           /\ body.health \in 0 .. MaxHealth /\ MaxHealth \in Nat \ {0}
BY PersonsAre, BodyIs DEF DeathsInv, DeathsTypes, PaidUp, Open

\* What all that happens before leaves for the death.
LEMMA NotYet ==
    ASSUME DeathsInv, fate' \in {"alive", "dying"}, UNCHANGED <<master, rewardVars>>,
           here' \subseteq Foes, strikes' \subseteq Foes, effects' \in Seq(Effect),
           body' \in Body, hurt' \in Nat, paid' \in {"no", "once"}, Credit(body') = hurt',
           paid' = "once" => body'.health > 0
    PROVE  DeathsInv'
<1>1. UNCHANGED <<master, told, gained, forgotten>>
  BY DEF rewardVars
<1>2. DeathsTypes'
  BY <1>1 DEF DeathsInv, DeathsTypes
<1>3. Credit(body)' = hurt' /\ PaidUp' /\ ToldOnce' /\ MostIsTold' /\ SharesFair'
  <2>1. ToldOnce' /\ SharesFair'
    BY <1>1 DEF DeathsInv, ToldOnce, SharesFair
  <2>2. Credit(body)' = Credit(body')
    BY DEF Credit
  <2> QED BY <2>1, <2>2 DEF PaidUp, MostIsTold
<1> QED BY <1>2, <1>3 DEF DeathsInv

LEMMA OneBody ==
    ASSUME body \in Body, NEW b, Passes(body, b)
    PROVE  Through(<<body, b>>)
BY DEF Through, Passes

LEMMA TwoBodies ==
    ASSUME body \in Body, NEW b, NEW c, Passes(body, b), Passes(b, c)
    PROVE  Through(<<body, b, c>>)
<1> DEFINE bs == <<body, b, c>>
<1>1. b \in Body /\ c \in Body
  BY DEF Passes
<1>2. Len(bs) - 1 = 2 /\ bs \in Seq(Body) /\ bs # <<>> /\ bs[1] = body /\ bs[2] = b /\ bs[3] = c
  BY <1>1
<1>3. \A i \in 1 .. Len(bs) - 1 : (i = 1 /\ i + 1 = 2) \/ (i = 2 /\ i + 1 = 3)
  BY <1>2
<1> HIDE DEF bs
<1>4. \A i \in 1 .. Len(bs) - 1 : Passes(bs[i], bs[i + 1])
  BY <1>2, <1>3
<1>5. Through(bs)
  BY <1>2, <1>4 DEF Through
<1> QED BY <1>5 DEF bs

LEMMA NoBody ==
    ASSUME body \in Body
    PROVE  Through(<<body>>)
BY DEF Through

\* What a step that only suffers has to show.
LEMMA SufferingKeeps ==
    ASSUME DeathsInv, Open, NEW bs, Through(bs), Suffer(bs),
           here' \subseteq Foes, strikes' \subseteq Foes, effects' \in Seq(Effect),
           UNCHANGED <<master, fate, rewardVars>>
    PROVE  DeathsInv'
<1>1. /\ body' \in Body /\ hurt' \in Nat /\ paid' \in {"no", "once"}
      /\ Credit(body') = hurt' /\ (paid' = "once" => body'.health > 0)
  BY DeathsFacts, SufferKeeps
<1>2. fate' \in {"alive", "dying"} /\ UNCHANGED <<master, rewardVars>>
  BY DeathsFacts
<1> QED BY <1>1, <1>2, NotYet

LEMMA FirstType ==
    ASSUME NEW c \in Effect, c.rounds # <<>>
    PROVE  First(c) \in Effect /\ Head(c.rounds) \in Nat
<1>1. c.rounds \in Seq(Nat)
  BY DEF Effect
<1>2. Tail(c.rounds) \in Seq(Nat) /\ Head(c.rounds) \in Nat
  BY <1>1
<1> QED BY <1>2 DEF First, Effect

LEMMA InfectedKeeps ==
    ASSUME DeathsInv, Open, NEW b, Passes(body, b), NEW new \in Effect, new.rounds # <<>>, NEW ground,
           Infected(b, new, ground)
    PROVE  effects' \in Seq(Effect) /\ \E bs : Through(bs) /\ Suffer(bs)
<1>0. /\ body \in Body /\ here \subseteq Foes /\ effects \in Seq(Effect) /\ b \in Body
      /\ First(new) \in Effect /\ Head(new.rounds) \in Nat
  BY DeathsFacts, FirstType DEF Passes
<1>1. Passes(b, DoDamage(b, new, Head(new.rounds), ground))
  BY <1>0, DoDamagePasses
<1>2. Through(<<body, b, DoDamage(b, new, Head(new.rounds), ground)>>)
  BY <1>0, <1>1, TwoBodies
<1>3. Through(<<body, b>>)
  BY <1>0, OneBody
<1>4. Append(effects, First(new)) \in Seq(Effect)
  BY <1>0
<1>5. ASSUME NEW i \in DOMAIN effects PROVE [effects EXCEPT ![i] = First(new)] \in Seq(Effect)
  <2>1. DOMAIN effects = 1 .. Len(effects) /\ Len(effects) \in Nat
    BY <1>0
  <2> QED BY <1>0, <2>1
<1>6. CASE ~Has("poison")
  BY <1>2, <1>4, <1>6 DEF Infected
<1>7. CASE Has("poison")
  BY <1>0, <1>2, <1>3, <1>5, <1>7 DEF Infected
<1> QED BY <1>6, <1>7

LEMMA AfflictKeeps ==
    ASSUME DeathsInv, Open, NEW f \in Foes, NEW v \in Nat, NEW n \in Nat, NEW ground,
           Afflict(f, v, n, ground)
    PROVE  effects' \in Seq(Effect) /\ \E bs : Through(bs) /\ Suffer(bs)
<1>0. body \in Body /\ effects \in Seq(Effect)
  BY DeathsFacts
<1>1. Passes(body, Hurt(body, f, v, ground))
  BY <1>0, HurtPasses
<1>2. CASE n = 0
  BY <1>0, <1>1, <1>2, OneBody DEF Afflict
<1>3. CASE n # 0
  <2> DEFINE new == Wound("poison", f, [i \in 1 .. n |-> 1])
  <2>1. new \in Effect /\ new.rounds # <<>>
    <3>1. [i \in 1 .. n |-> 1] \in Seq(Nat) /\ Len([i \in 1 .. n |-> 1]) = n
      OBVIOUS
    <3>2. [i \in 1 .. n |-> 1] # <<>>
      BY <1>3, <3>1
    <3> QED BY <3>1, <3>2, PersonsAre DEF Wound, Effect
  <2>2. Infected(Hurt(body, f, v, ground), new, ground)
    BY <1>3 DEF Afflict
  <2> HIDE DEF new
  <2> QED BY <1>1, <2>1, <2>2, InfectedKeeps
<1> QED BY <1>2, <1>3

LEMMA HitKeeps ==
    ASSUME DeathsInv, NEW f \in Foes, NEW v \in Nat, NEW n \in Nat, NEW ground, Hit(f, v, n, ground)
    PROVE  DeathsInv'
<1>1. Open /\ Afflict(f, v, n, ground) /\ UNCHANGED <<master, here, strikes, fate, rewardVars>>
  BY DEF Hit
<1>2. effects' \in Seq(Effect) /\ \E bs : Through(bs) /\ Suffer(bs)
  BY <1>1, AfflictKeeps
<1>3. here' \subseteq Foes /\ strikes' \subseteq Foes
  BY <1>1 DEF DeathsInv, DeathsTypes
<1> QED BY <1>1, <1>2, <1>3, SufferingKeeps

LEMMA SlashKeeps ==
    ASSUME DeathsInv, NEW f \in Foes, NEW v \in Nat, NEW total \in Nat, NEW n \in Nat \ {0}, NEW ground,
           Slash(f, v, total, n, ground)
    PROVE  DeathsInv'
<1>1. Open /\ UNCHANGED <<master, here, strikes, fate, rewardVars>>
  BY DEF Slash
<1>2. body \in Body /\ effects \in Seq(Effect)
  BY <1>1, DeathsFacts
<1>3. Wound("bleed", Victim, Rounds(total, n)) \in Effect
  <2>1. total \div n \in Nat /\ total % n \in Nat
    OBVIOUS
  <2>2. [i \in 1 .. n |-> total \div n] \in Seq(Nat)
    BY <2>1
  <2>3. (IF total % n # 0 THEN <<total % n>> ELSE <<>>) \in Seq(Nat)
    BY <2>1
  <2>4. Rounds(total, n) \in Seq(Nat)
    BY <2>2, <2>3 DEF Rounds
  <2> QED BY <2>4, PersonsAre DEF Wound, Effect
<1>4. Without(effects, "bleed") \in Seq(Effect)
  BY <1>2, KeptType DEF Without
<1>5. effects' \in Seq(Effect)
  BY <1>3, <1>4 DEF Slash
<1>6. Through(<<body, Hurt(body, f, v, ground)>>)
  BY <1>2, HurtPasses, OneBody
<1>7. Suffer(<<body, Hurt(body, f, v, ground)>>)
  BY DEF Slash
<1>8. here' \subseteq Foes /\ strikes' \subseteq Foes
  BY <1>1 DEF DeathsInv, DeathsTypes
<1> QED BY <1>1, <1>5, <1>6, <1>7, <1>8, SufferingKeeps

LEMMA StrikeLandsKeeps ==
    ASSUME DeathsInv, NEW f \in Foes, NEW v \in Nat, NEW n \in Nat, NEW ground, StrikeLands(f, v, n, ground)
    PROVE  DeathsInv'
<1>1. Open /\ UNCHANGED <<master, here, fate, rewardVars>> /\ strikes' = strikes \ {f}
  BY DEF StrikeLands
<1>2. body \in Body /\ effects \in Seq(Effect)
  BY <1>1, DeathsFacts
<1>3. effects' \in Seq(Effect) /\ \E bs : Through(bs) /\ Suffer(bs)
  <2>1. CASE Suffer(<<body>>) /\ effects' = effects
    BY <1>2, <2>1, NoBody
  <2>2. CASE Afflict(f, v, n, ground)
    BY <1>1, <2>2, AfflictKeeps
  <2>3. CASE effects' = effects /\ Suffer(<<body, [body EXCEPT !.crashed = TRUE]>>)
    <3> DEFINE c == [body EXCEPT !.crashed = TRUE]
    <3>1. c \in Body /\ c.damage = body.damage /\ c.health >= body.health
      <4>1. c \in Body /\ c.damage = body.damage /\ c.health = body.health
        BY <1>2 DEF Body
      <4> HIDE DEF c
      <4>2. body.health \in Nat
        BY <1>2, BodyIs
      <4> QED BY <4>1, <4>2
    <3> HIDE DEF c
    <3>2. Through(<<body, c>>)
      BY <1>2, <3>1, SamePasses, OneBody
    <3> QED BY <1>2, <2>3, <3>2 DEF c
  <2> QED BY <2>1, <2>2, <2>3 DEF StrikeLands
<1>4. here' \subseteq Foes /\ strikes' \subseteq Foes
  BY <1>1 DEF DeathsInv, DeathsTypes
<1> QED BY <1>1, <1>3, <1>4, SufferingKeeps

LEMMA CastKeeps ==
    ASSUME DeathsInv, NEW f \in Foes, Cast(f)
    PROVE  DeathsInv'
<1>1. Open /\ strikes' = strikes \union {f} /\ UNCHANGED <<master, here, body, effects, fate, rewardVars, paid, hurt>>
  BY DEF Cast
<1>2. here' \subseteq Foes /\ strikes' \subseteq Foes
  BY <1>1 DEF DeathsInv, DeathsTypes
<1> QED BY <1>1, <1>2, DeathsFacts, NotYet

LEMMA ScriptHealKeeps ==
    ASSUME DeathsInv, NEW v \in Nat, ScriptHeal(v)
    PROVE  DeathsInv'
<1> DEFINE c == [body EXCEPT !.health = Smaller(MaxHealth, @ + v)]
<1>1. Open /\ Suffer(<<body, c>>) /\ UNCHANGED <<master, here, effects, strikes, fate, rewardVars>>
  BY DEF ScriptHeal
<1>2. /\ body \in Body /\ effects \in Seq(Effect) /\ here \subseteq Foes /\ strikes \subseteq Foes
      /\ body.health \in 0 .. MaxHealth /\ MaxHealth \in Nat
  BY <1>1, DeathsFacts DEF DeathsTypes
<1>3. Smaller(MaxHealth, body.health + v) \in 0 .. MaxHealth /\ Smaller(MaxHealth, body.health + v) >= body.health
  BY <1>2 DEF Smaller
<1>4. c \in Body /\ c.damage = body.damage /\ c.health = Smaller(MaxHealth, body.health + v)
  BY <1>2, <1>3 DEF Body
<1> HIDE DEF c
<1>5. Through(<<body, c>>)
  BY <1>2, <1>3, <1>4, SamePasses, OneBody
<1> QED BY <1>1, <1>2, <1>5, SufferingKeeps

LEMMA ScriptHurtKeeps ==
    ASSUME DeathsInv, NEW v \in Nat, ScriptHurt(v)
    PROVE  DeathsInv'
<1> DEFINE h == IF body.health > v THEN body.health - v ELSE 0
<1>1. /\ Open /\ body' = [body EXCEPT !.health = h] /\ hurt' = hurt
      /\ paid' = IF body.health <= v THEN "no" ELSE paid
      /\ UNCHANGED <<master, here, effects, strikes, fate, rewardVars>>
  BY DEF ScriptHurt
<1>2. /\ body \in Body /\ effects \in Seq(Effect) /\ here \subseteq Foes /\ strikes \subseteq Foes
      /\ body.health \in 0 .. MaxHealth /\ MaxHealth \in Nat /\ hurt \in Nat /\ paid \in {"no", "once"}
      /\ Credit(body) = hurt /\ fate \in {"alive", "dying"}
  BY <1>1, DeathsFacts DEF DeathsTypes
<1>3. h \in 0 .. MaxHealth /\ (body.health > v => h > 0)
  BY <1>2
<1> HIDE DEF h
<1>4. body' \in Body /\ body'.damage = body.damage /\ body'.health = h
  BY <1>1, <1>2, <1>3 DEF Body
<1>5. Credit(body') = hurt'
  BY <1>1, <1>2, <1>4 DEF Credit
<1>6. paid' \in {"no", "once"} /\ (paid' = "once" => body'.health > 0)
  BY <1>1, <1>2, <1>3, <1>4
<1> QED BY <1>1, <1>2, <1>4, <1>5, <1>6, NotYet

LEMMA FeedKeeps ==
    ASSUME DeathsInv, Feed
    PROVE  DeathsInv'
<1>1. /\ Open /\ effects' = Append(effects, Regeneration)
      /\ UNCHANGED <<master, here, body, strikes, fate, rewardVars, paid, hurt>>
  BY DEF Feed
<1>2. effects \in Seq(Effect) /\ here \subseteq Foes /\ strikes \subseteq Foes
  BY <1>1, DeathsFacts DEF DeathsTypes
<1>3. Regeneration \in Effect
  BY PersonsAre DEF Regeneration, Effect
<1>4. effects' \in Seq(Effect)
  BY <1>1, <1>2, <1>3
<1> QED BY <1>1, <1>2, <1>4, DeathsFacts, NotYet

LEMMA FoeLeavesKeeps ==
    ASSUME DeathsInv, NEW f \in Foes, Leave(f)
    PROVE  DeathsInv'
<1>1. /\ Open /\ here' \subseteq here
      /\ UNCHANGED <<master, body, effects, strikes, fate, rewardVars, paid, hurt>>
  BY DEF Leave
<1>2. here' \subseteq Foes /\ strikes' \subseteq Foes
  BY <1>1 DEF DeathsInv, DeathsTypes
<1> QED BY <1>1, <1>2, DeathsFacts, NotYet

LEMMA IdleStatusKeeps ==
    ASSUME DeathsInv, IdleStatus
    PROVE  DeathsInv'
<1> DEFINE d == [f \in DOMAIN body.damage |-> 0]
<1>1. /\ Open /\ body' = [body EXCEPT !.damage = d] /\ hurt' = 0 /\ body.health > 0
      /\ UNCHANGED <<master, here, effects, strikes, fate, rewardVars, paid>>
  BY DEF IdleStatus
<1>2. /\ body \in Body /\ effects \in Seq(Effect) /\ here \subseteq Foes /\ strikes \subseteq Foes
      /\ paid \in {"no", "once"} /\ fate \in {"alive", "dying"}
  BY <1>1, DeathsFacts DEF DeathsTypes
<1>3. DOMAIN body.damage = Persons
  BY <1>2, BodyIs
<1>4. d \in [Persons -> Nat] /\ \A x \in Persons : d[x] = 0
  BY <1>3
<1> HIDE DEF d
<1>5. body' \in Body /\ body'.damage = d /\ body'.health = body.health
  BY <1>1, <1>2, <1>4 DEF Body
<1>6. Credit(body') = 0
  <2>1. SumFunctionOnSet(d, Persons) = 0 /\ d[NoOne] = 0
    BY <1>4, PersonsAre, SumNothing
  <2> QED BY <1>5, <2>1 DEF Credit
<1> QED BY <1>1, <1>2, <1>5, <1>6, NotYet

LEMMA AgedType ==
    ASSUME NEW c \in Effect, NEW ground
    PROVE  Aged(c, ground) \in Effect
<1>1. c.rounds # <<>> => Tail(c.rounds) \in Seq(Nat)
  BY DEF Effect
<1> QED BY <1>1 DEF Aged, Effect

LEMMA VisitKeeps ==
    ASSUME DeathsInv, NEW due, NEW over, NEW ground, Visit(due, over, ground)
    PROVE  DeathsInv'
<1>1. /\ Open /\ effects' = Later(due, over, ground) /\ Suffer(Bodies(due, ground))
      /\ UNCHANGED <<master, here, strikes, fate, rewardVars>>
  BY DEF Visit
<1>2. effects \in Seq(Effect) /\ here \subseteq Foes /\ strikes \subseteq Foes /\ DeathsTypes
  BY <1>1, DeathsFacts DEF DeathsTypes
<1> DEFINE aged == [i \in DOMAIN effects |-> IF i \in due THEN Aged(effects[i], ground) ELSE effects[i]]
<1>3. aged \in Seq(Effect)
  <2>1. DOMAIN effects = 1 .. Len(effects) /\ Len(effects) \in Nat /\ \A i \in DOMAIN effects : effects[i] \in Effect
    BY <1>2
  <2>2. \A i \in DOMAIN effects : aged[i] \in Effect
    BY <2>1, AgedType
  <2> QED BY <2>1, <2>2
<1>4. effects' \in Seq(Effect)
  <2> HIDE DEF aged
  <2>1. KeptAt(aged, DOMAIN effects \ over) \in Seq(Effect)
    BY <1>3, KeptType
  <2> QED BY <1>1, <2>1 DEF Later, aged
<1>5. Through(Bodies(due, ground))
  BY <1>2, BodiesThrough
<1> QED BY <1>1, <1>2, <1>4, <1>5, SufferingKeeps

LEMMA BookKeeps ==
    ASSUME DeathsInv, Book
    PROVE  DeathsInv'
<1>1. /\ Open /\ fate' = "dying"
      /\ UNCHANGED <<master, here, body, effects, strikes, rewardVars, paid, hurt>>
  BY DEF Book
<1>2. here \subseteq Foes /\ strikes \subseteq Foes
  BY <1>1, DeathsFacts DEF DeathsTypes
<1> QED BY <1>1, <1>2, DeathsFacts, NotYet

LEMMA SaveKeeps ==
    ASSUME DeathsInv, Save
    PROVE  DeathsInv'
<1>1. /\ Open /\ body.health = 0 /\ paid' = Paid /\ body' = [body EXCEPT !.health = MaxHealth]
      /\ UNCHANGED <<master, here, effects, strikes, fate, rewardVars, hurt>>
  BY DEF Save
<1>2. /\ body \in Body /\ effects \in Seq(Effect) /\ here \subseteq Foes /\ strikes \subseteq Foes
      /\ paid \in {"no", "once"} /\ fate \in {"alive", "dying"} /\ hurt \in Nat /\ Credit(body) = hurt
      /\ (paid = "once" => body.health > 0) /\ MaxHealth \in Nat \ {0}
  BY <1>1, DeathsFacts DEF DeathsTypes
<1>3. body' \in Body /\ body'.damage = body.damage /\ body'.health = MaxHealth
  <2>1. MaxHealth \in 0 .. MaxHealth
    BY <1>2
  <2> QED BY <1>1, <1>2, <2>1 DEF Body
<1>4. paid' \in {"no", "once"} /\ body'.health > 0
  BY <1>1, <1>2, <1>3 DEF Paid
<1>5. Credit(body') = hurt'
  BY <1>1, <1>2, <1>3 DEF Credit
<1> QED BY <1>1, <1>2, <1>3, <1>4, <1>5, NotYet
-----------------------------------------------------------------------------
(* Who hears of the death.                                                 *)

LEMMA KillersFew ==
    ASSUME DeathsTypes, NEW last, NEW most, NEW f \in Foes
    PROVE  Cardinality({k \in Killers(last, most) : f = k \/ f = master[k]}) \in {0, 1}
<1> DEFINE S == {k \in Killers(last, most) : f = k \/ f = master[k]}
<1>1. \A x \in S, y \in S : x = y
  <2>1. SUFFICES ASSUME NEW x \in S, NEW y \in S, x # y PROVE FALSE
    OBVIOUS
  <2>2. x \in Foes /\ y \in Foes /\ {x, y} = {last, most} /\ TellsMost(last, most)
    BY <2>1 DEF Killers
  <2>3. last \in Foes /\ most \in Foes /\ last # NoOne /\ most # NoOne /\ f # NoOne
    BY <2>2, PersonsAre
  <2>4. (f = last \/ f = master[last]) /\ (f = most \/ f = master[most])
    BY <2>1, <2>2
  <2>5. most # last /\ most # master[last] /\ last # master[most]
        /\ (master[last] = NoOne \/ master[most] # master[last])
    BY <2>2, <2>3 DEF TellsMost, MasterOf
  <2> QED BY <2>3, <2>4, <2>5
<1> HIDE DEF S
<1>2. CASE S = {}
  BY <1>2, FS_EmptySet DEF S
<1>3. CASE S # {}
  <2>1. PICK x : S = {x}
    BY <1>1, <1>3
  <2> QED BY <2>1, FS_Singleton DEF S
<1> QED BY <1>2, <1>3

LEMMA KillersHear ==
    ASSUME DeathsTypes, NEW last, NEW most, NEW k \in Killers(last, most)
    PROVE  k \in Foes /\ Told(Killers(last, most))[k] = 1
<1>1. k \in Foes
  BY DEF Killers
<1> DEFINE S == {j \in Killers(last, most) : k = j \/ k = master[j]}
<1>2. k \in S /\ Cardinality(S) \in {0, 1}
  BY <1>1, KillersFew
<1>3. Told(Killers(last, most))[k] = Cardinality(S)
  BY <1>1 DEF Told
<1>4. IsFiniteSet(S)
  <2>1. S \subseteq Foes
    BY DEF Killers
  <2> QED BY <2>1, PersonsAre, FS_Subset
<1> HIDE DEF S
<1>5. Cardinality(S) # 0
  BY <1>2, <1>4, FS_EmptySet
<1> QED BY <1>1, <1>2, <1>3, <1>5

LEMMA MostIs ==
    ASSUME DeathsTypes, NEW f \in Foes \intersect Damagers,
           \A g \in Damagers \ {f} : body.damage[g] < body.damage[f],
           \A g \in Damagers : Found(g)
    PROVE  MostDamage(Damagers) = f
<1> DEFINE leaders == {g \in Damagers : Leads(g, Damagers)}
<1>0. /\ Damagers \subseteq Persons /\ Persons \subseteq Nat
      /\ \A g \in Persons : body.damage[g] \in Nat
  <2>1. body \in Body
    BY DEF DeathsTypes
  <2> QED BY <2>1, PersonsAre, BodyIs DEF Damagers
<1>1. f \in leaders
  <2>1. f \in Nat
    BY <1>0
  <2> QED BY <1>0, <2>1 DEF Leads
<1>2. \A g \in leaders : g \in Nat /\ f >= g
  <2>0. f \in Nat /\ \A g \in leaders : g \in Nat /\ g \in Damagers /\ Leads(g, Damagers)
    BY <1>0
  <2> HIDE DEF leaders
  <2> SUFFICES ASSUME NEW g \in leaders, ~(f >= g) PROVE FALSE
    BY <2>0
  <2>1. f < g /\ g \in Damagers /\ f \in Damagers /\ Leads(g, Damagers)
    BY <2>0
  <2>2. body.damage[f] < body.damage[g]
    BY <2>1 DEF Leads
  <2>3. body.damage[g] < body.damage[f]
    BY <2>0, <2>1
  <2> QED BY <1>0, <2>1, <2>2, <2>3
<1>3. Max(leaders) = f
  <2> HIDE DEF leaders
  <2> QED BY <1>0, <1>1, <1>2 DEF Max
<1> QED BY <1>1, <1>3 DEF MostDamage

LEMMA MostHears ==
    ASSUME DeathsTypes, NEW f \in Foes \intersect Damagers,
           \A g \in Damagers \ {f} : body.damage[g] < body.damage[f],
           \A g \in Damagers : Found(g)
    PROVE  \E g \in Kin(f) : Told(Killers(LastHit, MostDamage(Damagers)))[g] = 1
<1>1. MostDamage(Damagers) = f
  BY MostIs
<1>2. SUFFICES ASSUME NEW last, last = LastHit
               PROVE  \E g \in Kin(f) : g \in Killers(last, f)
  BY <1>1, KillersHear
<1>3. f \in Foes /\ f # NoOne /\ f \in Kin(f) /\ MasterOf(f) = master[f] /\ master[f] \in Players \union {NoOne}
  BY PersonsAre DEF Kin, MasterOf, DeathsTypes
<1>4. CASE f = last \/ TellsMost(last, f)
  BY <1>3, <1>4 DEF Killers
<1>5. CASE ~(f = last \/ TellsMost(last, f))
  <2>1. /\ last # NoOne
        /\ \/ f = MasterOf(last)
           \/ last = master[f]
           \/ MasterOf(last) # NoOne /\ master[f] = MasterOf(last)
    BY <1>3, <1>5 DEF TellsMost
  <2>2. last \in Foes
    BY <1>3, <2>1 DEF MasterOf, Foes
  <2>3. MasterOf(last) = master[last]
    BY <2>2 DEF MasterOf
  <2>4. last \in Kin(f)
    BY <2>1, <2>2, <2>3 DEF Kin
  <2>5. last \in Killers(last, f)
    BY <2>2 DEF Killers
  <2> QED BY <2>4, <2>5
<1> QED BY <1>4, <1>5
-----------------------------------------------------------------------------
(* What the death is worth.                                                *)

LEMMA AllDamageIs ==
    ASSUME body \in Body
    PROVE  /\ AllDamage = SumFunctionOnSet(body.damage, Persons) /\ AllDamage \in Nat
           /\ \A f \in Persons : body.damage[f] \in Nat /\ body.damage[f] <= AllDamage
<1>1. body.damage \in [Persons -> Nat] /\ DOMAIN body.damage = Persons
  BY BodyIs
<1>2. AllDamage = SumFunctionOnSet(body.damage, Persons)
  BY <1>1 DEF AllDamage, SumFunction
<1>3. AllDamage \in Nat
  BY <1>1, <1>2, PersonsAre, SumNat
<1>4. ASSUME NEW f \in Persons PROVE body.damage[f] <= AllDamage
  <2> DEFINE d == body.damage
  <2>1. \A x \in Persons : d[x] \in Int /\ d[x] \in Nat
    BY <1>1
  <2>2. SumFunctionOnSet(d, Persons) = d[f] + SumFunctionOnSet(d, Persons \ {f})
    <3>1. \A x \in Persons : d[x] \in Int
      BY <2>1
    <3> HIDE DEF d
    <3> QED BY <3>1, PersonsAre, SumWithout
  <2>3. SumFunctionOnSet(d, Persons \ {f}) \in Nat
    <3>1. IsFiniteSet(Persons \ {f}) /\ \A x \in Persons \ {f} : d[x] \in Nat
      BY <2>1, PersonsAre, FS_Subset
    <3> HIDE DEF d
    <3> QED BY <3>1, SumNat
  <2>4. d[f] \in Nat
    BY <2>1
  <2> QED BY <1>2, <2>2, <2>3, <2>4
<1> QED BY <1>1, <1>2, <1>3, <1>4

\* Dividing rounds down.
LEMMA Quotients ==
    ASSUME NEW n \in Nat, NEW a \in Nat \ {0}
    PROVE  n \div a \in Nat /\ a * (n \div a) <= n
OBVIOUS

LEMMA ShareIs ==
    ASSUME body \in Body, NEW f \in Persons
    PROVE  Share(f) \in Nat /\ AllDamage * Share(f) <= Worth * body.damage[f]
<1>0. Worth \in Nat /\ AllDamage \in Nat /\ body.damage[f] \in Nat /\ body.damage[f] <= AllDamage
  BY PersonsAre, AllDamageIs
<1>1. CASE body.damage[f] = 0
  <2>1. Share(f) = 0
    BY <1>1 DEF Share
  <2>2. AllDamage * 0 = 0 /\ Worth * 0 = 0
    BY <1>0
  <2> QED BY <1>1, <2>1, <2>2
<1>2. CASE body.damage[f] # 0
  <2>1. AllDamage \in Nat \ {0} /\ Worth * body.damage[f] \in Nat
    BY <1>0, <1>2
  <2>2. Share(f) = (Worth * body.damage[f]) \div AllDamage
    BY <1>2 DEF Share
  <2> QED BY <2>1, <2>2, Quotients
<1> QED BY <1>1, <1>2

Shares == [f \in Foes |-> Share(f)]
Summons(p) == {s \in Monsters \intersect here : master[s] = p}
Halved == [s \in Foes |-> Share(s) \div 2]

LEMMA SharesAre ==
    ASSUME body \in Body
    PROVE  /\ \A f \in Foes : Shares[f] \in Nat /\ Halved[f] \in Nat /\ Halved[f] <= Shares[f]
           /\ SumFunctionOnSet(Shares, Foes) \in Nat /\ SumFunctionOnSet(Shares, Foes) <= Worth
<1>1. \A f \in Foes : Share(f) \in Nat /\ AllDamage * Share(f) <= Worth * body.damage[f] /\ f \in Persons
  BY PersonsAre, ShareIs
<1>2. \A f \in Foes : Shares[f] \in Nat /\ Halved[f] \in Nat /\ Halved[f] <= Shares[f]
  <2> SUFFICES ASSUME NEW f \in Foes PROVE Shares[f] \in Nat /\ Halved[f] \in Nat /\ Halved[f] <= Shares[f]
    OBVIOUS
  <2>1. Share(f) \in Nat /\ Shares[f] = Share(f) /\ Halved[f] = Share(f) \div 2
    BY <1>1 DEF Shares, Halved
  <2> QED BY <2>1
<1>3. SumFunctionOnSet(Shares, Foes) \in Nat
  BY <1>2, PersonsAre, SumNat
<1> DEFINE a == AllDamage
           w == Worth
           d == body.damage
<1>4. a \in Nat /\ w \in Nat /\ \A f \in Persons : d[f] \in Nat /\ d[f] <= a
  BY PersonsAre, AllDamageIs
<1>5. \A f \in Foes : Shares[f] \in Nat /\ d[f] \in Nat /\ a * Shares[f] <= w * d[f]
  BY <1>1, <1>2, <1>4 DEF Shares
<1>6. a = SumFunctionOnSet(d, Persons)
  BY AllDamageIs
<1> HIDE DEF a, w, d
<1>7. a * SumFunctionOnSet(Shares, Foes) <= w * SumFunctionOnSet(d, Foes)
  BY <1>4, <1>5, PersonsAre, SumShares
<1>8. SumFunctionOnSet(d, Foes) <= a /\ SumFunctionOnSet(d, Foes) \in Nat
  <2>1. SumFunctionOnSet(d, Foes) <= SumFunctionOnSet(d, Persons)
    <3>1. Foes \in SUBSET Persons /\ IsFiniteSet(Persons) /\ \A x \in Persons : d[x] \in Nat
      BY <1>4, PersonsAre
    <3> QED BY <3>1, SumPart
  <2>2. SumFunctionOnSet(d, Foes) \in Nat
    BY <1>5, PersonsAre, SumNat
  <2> QED BY <1>6, <2>1, <2>2
<1>9. SumFunctionOnSet(Shares, Foes) <= w
  <2>1. CASE a = 0
    <3>1. \A f \in Foes : Shares[f] = 0
      <4> SUFFICES ASSUME NEW f \in Foes PROVE Shares[f] = 0
        OBVIOUS
      <4>1. body.damage[f] = 0
        <5>1. d[f] \in Nat /\ d[f] <= 0
          BY <1>1, <1>4, <2>1
        <5> QED BY <5>1 DEF d
      <4> QED BY <4>1 DEF Shares, Share
    <3>2. SumFunctionOnSet(Shares, Foes) = 0
      BY <3>1, PersonsAre, SumNothing
    <3> QED BY <1>4, <3>2
  <2>2. CASE a # 0
    <3>1. PICK s : s = SumFunctionOnSet(Shares, Foes)
      OBVIOUS
    <3>2. PICK e : e = SumFunctionOnSet(d, Foes)
      OBVIOUS
    <3>3. a * s <= w * e /\ e <= a /\ a \in Nat \ {0} /\ s \in Nat /\ e \in Nat /\ w \in Nat
      BY <1>3, <1>4, <1>7, <1>8, <2>2, <3>1, <3>2
    <3>4. w * e <= w * a
      BY ONLY <3>3
    <3>5. a * s <= a * w
      BY ONLY <3>3, <3>4
    <3>6. s <= w
      BY ONLY <3>3, <3>5
    <3> QED BY <3>1, <3>6
  <2> QED BY <2>1, <2>2
<1> QED BY <1>2, <1>3, <1>9 DEF w

IsHalves(g, M) ==
    g = [s \in SUBSET M |-> IF s = {} THEN 0 ELSE LET i == Picked(s) IN Share(i) \div 2 + g[s \ {i}]]

LEMMA HalvesLoop ==
    ASSUME NEW p \in Players \intersect here
    PROVE  Gain(p) = Share(p) + (CHOOSE g : IsHalves(g, Summons(p)))[Summons(p)]
BY DEF Gain, MapThenSumSet, MapThenFoldSet, Picked, IsHalves, Summons

LEMMA GainIs ==
    ASSUME NEW p \in Players \intersect here, here \subseteq Foes
    PROVE  Gain(p) = Share(p) + SumFunctionOnSet(Halved, Summons(p))
<1> DEFINE S == Summons(p)
<1>0. S \subseteq Foes /\ IsFiniteSet(S)
  BY PersonsAre, FS_Subset DEF Summons
<1>1. Gain(p) = Share(p) + (CHOOSE g : IsHalves(g, S))[S]
  BY HalvesLoop
<1> HIDE DEF S
<1>2. ASSUME NEW s \in SUBSET S, s # {} PROVE Halved[Picked(s)] = Share(Picked(s)) \div 2
  <2>1. Picked(s) \in Foes
    BY <1>0, <1>2 DEF Picked
  <2> QED BY <2>1 DEF Halved
<1>3. ASSUME NEW g PROVE IsSum(g, S, Halved) <=> IsHalves(g, S)
  <2> DEFINE G == [s \in SUBSET S |-> IF s = {} THEN 0 ELSE Halved[Picked(s)] + g[s \ {Picked(s)}]]
             H == [s \in SUBSET S |-> IF s = {} THEN 0 ELSE LET i == Picked(s) IN Share(i) \div 2 + g[s \ {i}]]
  <2>1. G = H
    BY <1>2
  <2>2. IsSum(g, S, Halved) <=> g = G
    BY DEF IsSum
  <2>3. IsHalves(g, S) <=> g = H
    BY DEF IsHalves
  <2> HIDE DEF G, H
  <2> QED BY <2>1, <2>2, <2>3
<1>4. PICK g : IsSum(g, S, Halved) /\ g[S] = SumFunctionOnSet(Halved, S)
  BY <1>0, SumLoop
<1> DEFINE c == CHOOSE h : IsHalves(h, S)
<1>5. IsHalves(c, S)
  BY <1>3, <1>4
<1>6. IsSum(c, S, Halved)
  BY <1>3, <1>5
<1>7. Gain(p) = Share(p) + c[S]
  BY <1>1
<1> HIDE DEF c
<1>8. c[S] = g[S]
  BY <1>0, <1>4, <1>6, SameSums
<1> QED BY <1>4, <1>7, <1>8 DEF S

\* Those whose shares go to somebody of T.
Sources(T) == (T \intersect Players) \union {s \in Monsters : master[s] \in T}

LEMMA GainsFrom ==
    ASSUME DeathsTypes, NEW p \in Foes
    PROVE  /\ Gain(p) \in Nat /\ Sources({p}) \subseteq Foes
           /\ Gain(p) <= SumFunctionOnSet(Shares, Sources({p}))
<1>0. /\ body \in Body /\ here \subseteq Foes /\ Sources({p}) \subseteq Foes /\ IsFiniteSet(Sources({p}))
      /\ Summons(p) \subseteq Foes /\ IsFiniteSet(Summons(p)) /\ p \in Persons
  <2>1. body \in Body /\ here \subseteq Foes
    BY DEF DeathsTypes
  <2>2. Sources({p}) \subseteq Foes /\ Summons(p) \subseteq Foes
    BY DEF Sources, Summons, Foes
  <2> QED BY <2>1, <2>2, PersonsAre, FS_Subset
<1>1. \A f \in Foes : Shares[f] \in Nat /\ Halved[f] \in Nat /\ Halved[f] <= Shares[f]
  BY <1>0, SharesAre
<1>2. SumFunctionOnSet(Shares, Sources({p})) \in Nat
  BY <1>0, <1>1, SumNat
<1>3. CASE p \notin Players \intersect here
  <2>1. Gain(p) = 0
    BY <1>3 DEF Gain
  <2> QED BY <1>0, <1>2, <2>1
<1>4. CASE p \in Players \intersect here
  <2>1. Gain(p) = Share(p) + SumFunctionOnSet(Halved, Summons(p))
    BY <1>0, <1>4, GainIs
  <2>2. p \notin Summons(p) /\ Summons(p) \union {p} \subseteq Sources({p})
    BY <1>4, DeathsAssumption DEF Sources, Summons
  <2>3. SumFunctionOnSet(Shares, Summons(p) \union {p}) = SumFunctionOnSet(Shares, Summons(p)) + Shares[p]
    <3>1. \A x \in Summons(p) \union {p} : Shares[x] \in Int
      BY <1>0, <1>1
    <3> QED BY <1>0, <2>2, <3>1, SumOneMore
  <2>4. SumFunctionOnSet(Shares, Summons(p) \union {p}) <= SumFunctionOnSet(Shares, Sources({p}))
    <3>1. Summons(p) \union {p} \in SUBSET Sources({p}) /\ \A x \in Sources({p}) : Shares[x] \in Nat
      BY <1>0, <1>1, <2>2
    <3> QED BY <1>0, <3>1, SumPart
  <2>5. /\ SumFunctionOnSet(Halved, Summons(p)) \in Nat /\ SumFunctionOnSet(Shares, Summons(p)) \in Nat
        /\ SumFunctionOnSet(Halved, Summons(p)) <= SumFunctionOnSet(Shares, Summons(p))
    <3>1. \A x \in Summons(p) : Shares[x] \in Nat /\ Halved[x] \in Nat /\ 1 * Halved[x] <= 1 * Shares[x]
      <4> SUFFICES ASSUME NEW x \in Summons(p) PROVE Shares[x] \in Nat /\ Halved[x] \in Nat /\ 1 * Halved[x] <= 1 * Shares[x]
        OBVIOUS
      <4>1. Shares[x] \in Nat /\ Halved[x] \in Nat /\ Halved[x] <= Shares[x]
        BY <1>0, <1>1
      <4> QED BY <4>1
    <3>2. 1 * SumFunctionOnSet(Halved, Summons(p)) <= 1 * SumFunctionOnSet(Shares, Summons(p)) /\ 1 \in Nat
      BY <1>0, <3>1, SumShares
    <3>3. SumFunctionOnSet(Halved, Summons(p)) \in Nat /\ SumFunctionOnSet(Shares, Summons(p)) \in Nat
      BY <1>0, <3>1, SumNat
    <3> QED BY <3>2, <3>3
  <2>6. Share(p) \in Nat /\ Shares[p] = Share(p)
    BY <1>0, ShareIs DEF Shares
  <2> QED BY <1>0, <1>2, <2>1, <2>3, <2>4, <2>5, <2>6
<1> QED BY <1>3, <1>4

LEMMA GainsFair ==
    ASSUME DeathsTypes, NEW gains, gains = [f \in Foes |-> Gain(f)]
    PROVE  SumFunction(gains) <= Worth /\ gains \in [Foes -> Nat]
<1>0. \A f \in Foes : gains[f] \in Nat /\ gains[f] <= SumFunctionOnSet(Shares, Sources({f}))
  BY GainsFrom
<1>1. gains \in [Foes -> Nat] /\ DOMAIN gains = Foes
  BY GainsFrom
<1>2. /\ \A f \in Foes : Shares[f] \in Nat
      /\ SumFunctionOnSet(Shares, Foes) \in Nat /\ SumFunctionOnSet(Shares, Foes) <= Worth
  BY SharesAre DEF DeathsTypes
<1>3. IsFiniteSet(Foes) /\ Worth \in Nat
  BY PersonsAre
<1>4. \A T \in SUBSET Foes : Sources(T) \subseteq Foes /\ IsFiniteSet(Sources(T))
  <2>1. \A T \in SUBSET Foes : Sources(T) \subseteq Foes
    BY DEF Sources, Foes
  <2> QED BY <1>3, <2>1, FS_Subset
<1> DEFINE Good == {T \in SUBSET Foes : SumFunctionOnSet(gains, T) <= SumFunctionOnSet(Shares, Sources(T))}
<1>5. {} \in Good
  <2>1. Sources({}) = {}
    BY DEF Sources
  <2>2. SumFunctionOnSet(gains, {}) = 0 /\ SumFunctionOnSet(Shares, {}) = 0
    BY SumEmpty
  <2> QED BY <2>1, <2>2
<1>6. ASSUME NEW T \in SUBSET Foes, NEW x \in Foes, x \notin T, T \in Good PROVE T \union {x} \in Good
  <2>1. IsFiniteSet(T)
    BY <1>3, FS_Subset
  <2>2. SumFunctionOnSet(gains, T \union {x}) = SumFunctionOnSet(gains, T) + gains[x]
    <3>1. \A y \in T \union {x} : gains[y] \in Int
      <4>1. \A y \in Foes : gains[y] \in Int
        BY <1>1
      <4> QED BY ONLY <4>1, T \in SUBSET Foes, x \in Foes
    <3> QED BY <1>6, <2>1, <3>1, SumOneMore
  <2>3. Sources(T \union {x}) = Sources(T) \union Sources({x}) /\ Sources(T) \intersect Sources({x}) = {}
    BY <1>6, DeathsAssumption DEF Sources
  <2>4. SumFunctionOnSet(Shares, Sources(T \union {x}))
            = SumFunctionOnSet(Shares, Sources(T)) + SumFunctionOnSet(Shares, Sources({x}))
    <3>1. Sources(T) \subseteq Foes /\ IsFiniteSet(Sources(T)) /\ Sources({x}) \subseteq Foes /\ IsFiniteSet(Sources({x}))
      <4>1. {x} \in SUBSET Foes
        OBVIOUS
      <4> QED BY <1>4, <4>1
    <3>2. \A y \in Sources(T) \union Sources({x}) : Shares[y] \in Int
      BY <1>2, <3>1
    <3>3. SumFunctionOnSet(Shares, Sources(T) \union Sources({x}))
              = SumFunctionOnSet(Shares, Sources(T)) + SumFunctionOnSet(Shares, Sources({x}))
      BY ONLY <2>3, <3>1, <3>2, SumApart
    <3> QED BY <2>3, <3>3
  <2>5. SumFunctionOnSet(gains, T) \in Nat /\ gains[x] \in Nat
    <3>1. \A y \in T : gains[y] \in Nat
      BY <1>0
    <3> QED BY <1>0, <2>1, <3>1, SumNat
  <2>6. SumFunctionOnSet(Shares, Sources(T)) \in Nat /\ SumFunctionOnSet(Shares, Sources({x})) \in Nat
    <3>1. {x} \in SUBSET Foes
      OBVIOUS
    <3>2. \A U \in SUBSET Foes : SumFunctionOnSet(Shares, Sources(U)) \in Nat
      <4> SUFFICES ASSUME NEW U \in SUBSET Foes PROVE SumFunctionOnSet(Shares, Sources(U)) \in Nat
        OBVIOUS
      <4>1. IsFiniteSet(Sources(U)) /\ \A y \in Sources(U) : Shares[y] \in Nat
        BY <1>2, <1>4
      <4> QED BY <4>1, SumNat
    <3> QED BY <3>1, <3>2
  <2>7. gains[x] <= SumFunctionOnSet(Shares, Sources({x})) /\ SumFunctionOnSet(gains, T) <= SumFunctionOnSet(Shares, Sources(T))
    BY <1>0, <1>6
  <2>8. SumFunctionOnSet(gains, T \union {x}) <= SumFunctionOnSet(Shares, Sources(T \union {x}))
    BY ONLY <2>2, <2>4, <2>5, <2>6, <2>7
  <2> QED BY <2>8
<1> HIDE DEF Good
<1>7. Foes \in Good
  BY <1>3, <1>5, <1>6, SetGrows
<1>8. SumFunctionOnSet(gains, Foes) <= SumFunctionOnSet(Shares, Sources(Foes))
  BY <1>7 DEF Good
<1>9. SumFunctionOnSet(Shares, Sources(Foes)) <= SumFunctionOnSet(Shares, Foes)
  <2>1. Sources(Foes) \in SUBSET Foes
    BY <1>4
  <2> QED BY <1>2, <1>3, <2>1, SumPart
<1>10. SumFunctionOnSet(gains, Foes) \in Nat /\ SumFunctionOnSet(Shares, Sources(Foes)) \in Nat
  <2>1. IsFiniteSet(Sources(Foes)) /\ \A y \in Sources(Foes) : Shares[y] \in Nat
    BY <1>2, <1>4
  <2>2. \A y \in Foes : gains[y] \in Nat
    BY <1>0
  <2> QED BY <1>3, <2>1, <2>2, SumNat
<1>11. SumFunction(gains) = SumFunctionOnSet(gains, Foes)
  BY <1>1 DEF SumFunction
<1>12. SumFunction(gains) <= Worth
  BY ONLY <1>2, <1>3, <1>8, <1>9, <1>10, <1>11
<1> QED BY <1>1, <1>12

LEMMA DeathKeeps ==
    ASSUME DeathsInv, NEW fresh \in SUBSET Damagers, Death(fresh)
    PROVE  DeathsInv'
<1>1. /\ Open /\ fate' = "dead" /\ forgotten' = (fresh # Damagers)
      /\ told' = Told(Killers(LastHit, MostDamage(fresh)))
      /\ gained' = [f \in Foes |-> Gain(f)]
      /\ paid' \in {paid} \union IF body.health = 0 THEN {Paid} ELSE {}
      /\ UNCHANGED <<master, here, body, effects, strikes, hurt>>
  BY DEF Death
<1>2. DeathsTypes /\ paid \in {"no", "once"} /\ (paid = "once" => body.health > 0) /\ Credit(body) = hurt
  BY <1>1, DeathsFacts
<1>3. paid' \in {"no", "once"}
  BY <1>1, <1>2 DEF Paid
<1>4. told' \in [Foes -> Nat] /\ \A f \in Foes : told'[f] <= 1
  <2> DEFINE last == LastHit
             most == MostDamage(fresh)
  <2>1. told' = [f \in Foes |-> Cardinality({k \in Killers(last, most) : f = k \/ f = master[k]})]
    BY <1>1 DEF Told
  <2> HIDE DEF last, most
  <2>2. \A f \in Foes : Cardinality({k \in Killers(last, most) : f = k \/ f = master[k]}) \in {0, 1}
    BY <1>2, KillersFew
  <2>3. \A f \in Foes : told'[f] \in {0, 1}
    BY <2>1, <2>2
  <2> QED BY <2>1, <2>3
<1>5. SumFunction(gained') <= Worth /\ gained' \in [Foes -> Nat]
  <2>1. PICK gains : gains = gained'
    OBVIOUS
  <2>2. gains = [f \in Foes |-> Gain(f)]
    BY <1>1, <2>1
  <2>3. SumFunction(gains) <= Worth /\ gains \in [Foes -> Nat]
    BY ONLY <1>2, <2>2, GainsFair
  <2> QED BY <2>1, <2>3
<1>6. DeathsTypes'
  BY <1>1, <1>2, <1>3, <1>4, <1>5 DEF DeathsTypes
<1>7. MostIsTold'
  <2> SUFFICES ASSUME ~forgotten', NEW f \in Foes \intersect Damagers,
                      \A g \in Damagers \ {f} : body.damage[g] < body.damage[f],
                      \A g \in Damagers : Found(g)
               PROVE  \E g \in Kin(f) : told'[g] = 1
    BY <1>1 DEF MostIsTold, Damagers, Found, Kin
  <2>1. fresh = Damagers
    BY <1>1
  <2>2. told' = Told(Killers(LastHit, MostDamage(Damagers)))
    BY <1>1, <2>1
  <2> QED BY <1>2, <2>2, MostHears
<1>8. Credit(body)' = hurt' /\ PaidUp' /\ ToldOnce' /\ SharesFair'
  <2>1. Credit(body)' = Credit(body)
    BY <1>1 DEF Credit
  <2> QED BY <1>1, <1>2, <1>4, <1>5, <2>1 DEF PaidUp, ToldOnce, SharesFair
<1> QED BY <1>6, <1>7, <1>8 DEF DeathsInv

LEMMA DeathsStart ==
    ASSUME DeathsInit
    PROVE  DeathsInv
<1>1. body = [health |-> MaxHealth, damage |-> [f \in Persons |-> 0], last |-> NoOne, crashed |-> FALSE]
  BY DEF DeathsInit, Persons
<1>2. body \in Body
  <2>1. MaxHealth \in 0 .. MaxHealth
    BY PersonsAre
  <2> QED BY <1>1, <2>1, PersonsAre DEF Body
<1>3. Credit(body) = 0
  <2> DEFINE d == [f \in Persons |-> 0]
  <2>1. body.damage = d /\ \A x \in Persons : d[x] = 0
    BY <1>1
  <2> HIDE DEF d
  <2>2. SumFunctionOnSet(d, Persons) = 0 /\ d[NoOne] = 0
    BY <2>1, PersonsAre, SumNothing
  <2> QED BY <2>1, <2>2 DEF Credit
<1>4. DeathsTypes
  <2>1. told = [f \in Foes |-> 0] /\ gained = [f \in Foes |-> 0] /\ told \in [Foes -> Nat] /\ gained \in [Foes -> Nat]
    BY DEF DeathsInit, Nobody
  <2>2. effects \in Seq(Effect)
    BY DEF DeathsInit
  <2> QED BY <1>2, <2>1, <2>2 DEF DeathsInit, DeathsTypes
<1>5. SharesFair
  <2>1. gained = [f \in Foes |-> 0] /\ DOMAIN gained = Foes /\ \A f \in Foes : gained[f] = 0
    BY DEF DeathsInit, Nobody
  <2>2. SumFunctionOnSet(gained, Foes) = 0
    BY <2>1, PersonsAre, SumNothing
  <2> QED BY <2>1, <2>2, PersonsAre DEF SharesFair, SumFunction
<1> QED BY <1>3, <1>4, <1>5 DEF DeathsInit, DeathsInv, PaidUp, ToldOnce, MostIsTold, Nobody

LEMMA DeathsStep ==
    ASSUME DeathsInv, [DeathsNext]_deathVars
    PROVE  DeathsInv'
<1>1. MaxHealth \in Nat /\ MaxRounds \in Nat \ {0} /\ 1 \in Nat
  BY DeathsAssumption
<1>2. ASSUME NEW ground \in Grounds, NEW f \in Foes, NEW v \in 0 .. MaxHealth, NEW n \in {0, MaxRounds},
             Hit(f, v, n, ground) \/ StrikeLands(f, v, n, ground)
      PROVE  DeathsInv'
  <2>1. v \in Nat /\ n \in Nat
    BY <1>1
  <2> QED BY <1>2, <2>1, HitKeeps, StrikeLandsKeeps
<1>3. ASSUME NEW ground \in Grounds, NEW f \in Foes, NEW v \in 1 .. MaxHealth, NEW n \in Halves(MaxRounds),
             Slash(f, v, MaxRounds, n, ground)
      PROVE  DeathsInv'
  <2>1. n \in Nat \ {0}
    BY <1>1 DEF Halves
  <2>2. MaxRounds \in Nat /\ v \in Nat
    BY <1>1
  <2> QED BY <1>3, <2>1, <2>2, SlashKeeps
<1>4. CASE UNCHANGED deathVars
  <2>1. UNCHANGED <<master, here, body, effects, strikes, fate, told, gained, paid, hurt, forgotten>>
    BY <1>4 DEF deathVars
  <2>2. DeathsTypes' /\ Credit(body)' = hurt' /\ PaidUp' /\ ToldOnce' /\ SharesFair'
    BY <2>1 DEF DeathsInv, DeathsTypes, Credit, PaidUp, ToldOnce, SharesFair
  <2>3. MostIsTold'
    BY <2>1 DEF DeathsInv, MostIsTold, Damagers, Found, Kin
  <2> QED BY <2>2, <2>3 DEF DeathsInv
<1>5. ASSUME NEW ground \in Grounds, NEW due, NEW over, Visit(due, over, ground) PROVE DeathsInv'
  BY <1>5, VisitKeeps
<1>6. ASSUME NEW f \in Foes, Cast(f) \/ Leave(f) PROVE DeathsInv'
  BY <1>6, CastKeeps, FoeLeavesKeeps
<1>7. ASSUME ScriptHeal(1) \/ ScriptHurt(1) \/ Feed \/ IdleStatus \/ Book \/ Save PROVE DeathsInv'
  BY <1>1, <1>7, ScriptHealKeeps, ScriptHurtKeeps, FeedKeeps, IdleStatusKeeps, BookKeeps, SaveKeeps
<1> QED BY <1>2, <1>3, <1>4, <1>5, <1>6, <1>7, DeathKeeps DEF DeathsNext

\* All that is needed for what a death comes to holds in every state.
THEOREM DeathsInductive == DeathsSpec => []DeathsInv
<1>1. DeathsInit => DeathsInv
  BY DeathsStart
<1>2. DeathsInv /\ [DeathsNext]_deathVars => DeathsInv'
  BY DeathsStep
<1> QED BY <1>1, <1>2, PTL DEF DeathsSpec

\* What a death comes to.
THEOREM DeathsKept == DeathsSpec => []DeathsHold
<1>1. DeathsInv => DeathsHold
  <2> SUFFICES ASSUME DeathsInv PROVE DeathsHold
    OBVIOUS
  <2>1. AllDamage = SumFunctionOnSet(body.damage, Persons)
    BY AllDamageIs DEF DeathsInv, DeathsTypes
  <2>2. DamageAdds
    BY <2>1 DEF DeathsInv, Credit, DamageAdds
  <2> QED BY <2>2 DEF DeathsInv, DeathsTypes, DeathsHold, CostsOnce
<1> QED BY <1>1, DeathsInductive, PTL
=============================================================================
