---------------------------- MODULE RulesProofs ----------------------------
(***************************************************************************)
(* The rules of the game.  The invariants of Scripts hold in every         *)
(* reachable state, for any items, any unique ids and any depth of the     *)
(* stack; those of Estates for any houses, tenants, rents and balances;    *)
(* those of Effects for any items, spells and times; those of Houses for   *)
(* any players, houses and lists; those of the life of the server for any  *)
(* players and any number of tasks.                                        *)
(*                                                                         *)
(* What the properties of a script's end leave out is what lives on while  *)
(* it runs: the numbers of the scripts below it.  Enclosed says, of every  *)
(* script of the stack, what its list and its numbers can name, and        *)
(* Placed what an item without a place can have.                           *)
(***************************************************************************)
EXTENDS GameLifecycle, Houses, Scripts, Estates, Effects, Loops

Accounted(i) == i \in doubled \union spoiled

\* An item that does not exist, or has never been placed, has no unique id; what
\* is not born is not to be deleted, and what nobody has was not placed.
Placed ==
    /\ \A i \in Items :
        /\ place[i] = "unborn" => pending[i] = 0
        /\ place[i] \in {"unborn", "virtual"} => uid[i] = 0
        /\ i \in lost => place[i] = "virtual"
    /\ \A u \in Uids : globalMap[u] # NoItem => place[globalMap[u]] \in {"world", "gone"}

\* Two items that have a unique id at a time are known to have clashed.
Apart ==
    \A i, j \in Items : i # j /\ uid[i] = uid[j] /\ uid[i] # 0 => uid[i] \in clashed

\* Why the item known by unique id n to a script may be erased from globalMap: it
\* has the id, or another item had it when it was erased before.
Erasable(i, n) ==
    n \in Uids => \/ uid[i] = n \/ n \in clashed
                  \/ globalMap[n] = NoItem /\ \E j \in Items : uid[j] = n

\* What script k has in its list and knows by number.
Listed(k) ==
    \A i \in stack[k].temp :
        /\ place[i] # "unborn"
        /\ place[i] = "virtual" /\ pending[i] > 0 => Accounted(i)
Numbers(k) ==
    \A n \in Names : stack[k].names[n] # NoItem =>
        LET i == stack[k].names[n] IN
        /\ place[i] # "unborn"
        /\ place[i] = "virtual" /\ pending[i] > 0 => Accounted(i)
        /\ Erasable(i, n)
Own(k) ==
    \A n \in Names : stack[k].names[n] # NoItem /\ place[stack[k].names[n]] = "virtual" =>
        \A j \in DOMAIN stack : stack[k].names[n] \in stack[j].temp => j = k
Enclosed == \A k \in DOMAIN stack : Listed(k) /\ Numbers(k) /\ Own(k)

\* Only the script at the bottom can be a timer's, and the timers have been booked.
Booked ==
    /\ \A k \in DOMAIN stack : stack[k].timer # 0 => k = 1
    /\ \A t \in timers \union booked : t.id <= lastTimer

Histories == {spoiled, doubled, lost} \subseteq SUBSET Items /\ {clashed, halved} \subseteq SUBSET Uids

ScriptsInv ==
    /\ ScriptsTypeOK /\ Histories /\ Placed /\ Apart /\ Enclosed /\ Booked
    /\ ItemsOwned /\ UniqueTrue /\ TimersTrue
-----------------------------------------------------------------------------
(* Timers, and steps that leave them and the depth of the stack alone.     *)

Framed ==
    /\ stack' \in Seq(Env) /\ Len(stack') = Len(stack)
    /\ \A k \in 1..Len(stack) : stack'[k].timer = stack[k].timer

\* What a script knows by number.
Numbering == [Names -> Items \union {NoItem}]

\* A script writes to its own numbers, and takes an item from every list.
TopNames(f) ==
    \A k \in 1..Len(stack) :
        /\ stack'[k].temp = stack[k].temp
        /\ stack'[k].names = IF k = Len(stack) THEN f ELSE stack[k].names
ListsWithout(i, container) ==
    \A k \in 1..Len(stack) :
        /\ stack'[k].temp = IF container THEN stack[k].temp \ {i} ELSE stack[k].temp
        /\ stack'[k].names = stack[k].names
Withdrawn(i, container) ==
    stack' = IF container THEN [k \in DOMAIN stack |-> [stack[k] EXCEPT !.temp = @ \ {i}]] ELSE stack

LEMMA SameFrame == ASSUME ScriptsTypeOK, UNCHANGED stack PROVE Framed
BY DEF Framed, ScriptsTypeOK

LEMMA NamesFrame ==
    ASSUME NEW f, f \in Numbering, ScriptsTypeOK, stack # <<>>, SetNames(f)
    PROVE  Framed /\ TopNames(f)
<1> DEFINE top == Len(stack)
<1>1. top \in 1..Len(stack) /\ stack \in Seq(Env)
  BY DEF ScriptsTypeOK
<1>2. stack' = [stack EXCEPT ![top] = [stack[top] EXCEPT !.names = f]]
  BY DEF SetNames
<1>3. stack[top] \in Env
  BY <1>1
<1> HIDE DEF top
<1> DEFINE e == [stack[top] EXCEPT !.names = f]
<1>4. e \in Env /\ e.names = f /\ e.temp = stack[top].temp /\ e.timer = stack[top].timer
  BY <1>3 DEF Env, Numbering
<1> HIDE DEF e
<1>5. stack' = [stack EXCEPT ![top] = e]
  BY <1>2 DEF e
<1> QED BY <1>1, <1>4, <1>5 DEF Framed, TopNames, top

LEMMA ListsFrame ==
    ASSUME NEW i \in Items, NEW container \in BOOLEAN, ScriptsTypeOK, Withdrawn(i, container)
    PROVE  Framed /\ ListsWithout(i, container)
<1>0. stack \in Seq(Env)
  BY DEF ScriptsTypeOK
<1>1. CASE container
  <2>1. stack' = [k \in 1..Len(stack) |-> [stack[k] EXCEPT !.temp = @ \ {i}]]
    BY <1>0, <1>1 DEF Withdrawn
  <2>2. ASSUME NEW k \in 1..Len(stack)
        PROVE  LET e == [stack[k] EXCEPT !.temp = @ \ {i}]
               IN  e \in Env /\ e.temp = stack[k].temp \ {i} /\ e.names = stack[k].names
                   /\ e.timer = stack[k].timer
    <3>1. stack[k] \in Env
      BY <1>0
    <3> QED BY <3>1 DEF Env
  <2>3. stack' \in Seq(Env) /\ Len(stack') = Len(stack)
    BY <1>0, <2>1, <2>2
  <2> QED BY <1>1, <2>1, <2>2, <2>3 DEF Framed, ListsWithout
<1>2. CASE ~container
  BY <1>0, <1>2 DEF Withdrawn, Framed, ListsWithout
<1> QED BY <1>1, <1>2

LEMMA TimersFramed ==
    ASSUME ScriptsTypeOK, Booked, TimersTrue, Framed, UNCHANGED timerVars
    PROVE  Booked' /\ TimersTrue'
<1>1. DOMAIN stack = 1..Len(stack) /\ DOMAIN stack' = 1..Len(stack)
  BY DEF Framed, ScriptsTypeOK
<1> QED BY <1>1 DEF Framed, Booked, TimersTrue, timerVars
-----------------------------------------------------------------------------
(* What a step must not do for the stack to stay in order.                 *)

\* An item that exists stays, is not taken from its place into a script's hands nor
\* marked without a reason, and may be erased as before.
ItemsKeep ==
    \A i \in Items : place[i] # "unborn" =>
        /\ place'[i] # "unborn" /\ (place'[i] = "virtual" => place[i] = "virtual")
        /\ place'[i] = "virtual" /\ pending'[i] > 0 => pending[i] > 0 \/ Accounted(i)'
        /\ Accounted(i) => Accounted(i)'
        /\ \A n \in Names : Erasable(i, n) => Erasable(i, n)'

\* Lists do not grow, and a number is kept, forgotten, or given to an item of the world.
StackKeeps ==
    \A k \in 1..Len(stack) :
        /\ stack'[k].temp \subseteq stack[k].temp
        /\ \A n \in Names :
              \/ stack'[k].names[n] \in {stack[k].names[n], NoItem}
              \/ \E i \in Items : stack'[k].names[n] = i /\ place'[i] = "world" /\ Erasable(i, n)'

LEMMA EnvTypes ==
    ASSUME ScriptsTypeOK
    PROVE  /\ DOMAIN stack = 1..Len(stack)
           /\ \A k \in 1..Len(stack) : /\ stack[k].temp \subseteq Items
                                       /\ \A n \in Names : stack[k].names[n] \in Items \union {NoItem}
                                       /\ stack[k].names \in [Names -> Items \union {NoItem}]
                                       /\ stack[k].timer \in 0..LastTimer
<1>1. \A k \in 1..Len(stack) : stack[k] \in Env
  BY DEF ScriptsTypeOK
<1> QED BY <1>1 DEF Env, ScriptsTypeOK

LEMMA EnclosedKept ==
    ASSUME ScriptsTypeOK, ScriptsTypeOK', Framed, Enclosed, ItemsKeep, StackKeeps
    PROVE  Enclosed'
<1>1. DOMAIN stack = 1..Len(stack) /\ DOMAIN stack' = 1..Len(stack)
  BY DEF Framed, ScriptsTypeOK
<1> SUFFICES ASSUME NEW k \in 1..Len(stack) PROVE Listed(k)' /\ Numbers(k)' /\ Own(k)'
  BY <1>1 DEF Enclosed
<1>2. Listed(k) /\ Numbers(k) /\ Own(k) /\ stack[k].temp \subseteq Items
  BY <1>1, EnvTypes DEF Enclosed
<1>3. stack'[k].temp \subseteq stack[k].temp
  BY DEF StackKeeps
<1>4. Listed(k)'
  BY <1>2, <1>3 DEF Listed, ItemsKeep, Accounted, ScriptsTypeOK
<1>5. ASSUME NEW n \in Names, stack'[k].names[n] # NoItem
      PROVE  /\ \E i \in Items :
                  /\ i = stack'[k].names[n] /\ place'[i] # "unborn" /\ Erasable(i, n)'
                  /\ place'[i] = "virtual" /\ pending'[i] > 0 => Accounted(i)'
                  /\ place'[i] = "virtual" => \A j \in 1..Len(stack) : i \in stack'[j].temp => j = k
  <2>1. CASE stack'[k].names[n] = stack[k].names[n]
    <3>1. PICK i \in Items : i = stack[k].names[n]
      BY <1>5, <2>1, EnvTypes
    <3>2. /\ place[i] # "unborn" /\ Erasable(i, n)
          /\ place[i] = "virtual" /\ pending[i] > 0 => Accounted(i)
      BY <1>2, <1>5, <2>1, <3>1 DEF Numbers
    <3>3. place[i] = "virtual" => \A j \in 1..Len(stack) : i \in stack[j].temp => j = k
      BY <1>1, <1>2, <1>5, <2>1, <3>1 DEF Own
    <3>4. \A j \in 1..Len(stack) : stack'[j].temp \subseteq stack[j].temp
      BY DEF StackKeeps
    <3> QED BY <2>1, <3>1, <3>2, <3>3, <3>4 DEF ItemsKeep
  <2>2. CASE \E i \in Items : stack'[k].names[n] = i /\ place'[i] = "world" /\ Erasable(i, n)'
    BY <2>2
  <2> QED BY <1>5, <2>1, <2>2 DEF StackKeeps
<1>6. Numbers(k)'
  BY <1>5 DEF Numbers
<1>7. Own(k)'
  BY <1>1, <1>5 DEF Own
<1> QED BY <1>4, <1>6, <1>7
-----------------------------------------------------------------------------
(* One lemma for each step that changes items.                             *)

LEMMA ConsumeKeeps ==
    ASSUME ScriptsInv, NEW i \in Items, Consume(i)
    PROVE  ScriptsInv'
<1> USE ScriptsAssumption DEF ScriptsInv
<1>1. Framed /\ DOMAIN stack = 1..Len(stack)
  BY SameFrame DEF Consume, ScriptsTypeOK
<1>2. Booked' /\ TimersTrue'
  BY <1>1, TimersFramed DEF Consume
<1>3. /\ place[i] = "world"
      /\ \A j \in Items : /\ place'[j] = IF j = i THEN "gone" ELSE place[j]
                          /\ pending'[j] = IF j = i THEN pending[j] + 1 ELSE pending[j]
      /\ UNCHANGED <<stack, globalMap, uid, spoiled, doubled, lost, clashed, halved>>
  BY DEF Consume, Released, ScriptsTypeOK
<1>4. ScriptsTypeOK' /\ Histories'
  BY DEF ScriptsTypeOK, Histories, Consume, Released, timerVars
<1>5. Placed' /\ Apart'
  BY <1>3 DEF Placed, Apart, ScriptsTypeOK
<1>6. ItemsKeep /\ StackKeeps
  BY <1>3 DEF ItemsKeep, StackKeeps, Erasable, Accounted
<1>7. Enclosed'
  BY <1>1, <1>4, <1>6, EnclosedKept
<1>8. ItemsOwned'
  BY <1>1, <1>3 DEF ItemsOwned, ScriptsTypeOK
<1>9. UniqueTrue'
  BY <1>3 DEF UniqueTrue, ScriptsTypeOK
<1> QED BY <1>2, <1>4, <1>5, <1>7, <1>8, <1>9

LEMMA CreateMergedKeeps ==
    ASSUME ScriptsInv, NEW i \in Items, CreateMerged(i)
    PROVE  ScriptsInv'
<1> USE ScriptsAssumption DEF ScriptsInv
<1>1. Framed /\ DOMAIN stack = 1..Len(stack)
  BY SameFrame DEF CreateMerged, ScriptsTypeOK
<1>2. Booked' /\ TimersTrue'
  BY <1>1, TimersFramed DEF CreateMerged
<1>3. /\ place[i] = "unborn"
      /\ \A j \in Items : /\ place'[j] = IF j = i THEN "gone" ELSE place[j]
                          /\ pending'[j] = IF j = i THEN pending[j] + 1 ELSE pending[j]
      /\ UNCHANGED <<stack, globalMap, uid, spoiled, doubled, lost, clashed, halved>>
  BY DEF CreateMerged, Released, ScriptsTypeOK
<1>4. ScriptsTypeOK' /\ Histories'
  BY DEF ScriptsTypeOK, Histories, CreateMerged, Released, timerVars
<1>5. Placed' /\ Apart'
  BY <1>3 DEF Placed, Apart, ScriptsTypeOK
<1>6. ItemsKeep /\ StackKeeps
  BY <1>3 DEF ItemsKeep, StackKeeps, Erasable, Accounted
<1>7. Enclosed'
  BY <1>1, <1>4, <1>6, EnclosedKept
<1>8. ItemsOwned'
  BY <1>1, <1>3 DEF ItemsOwned, Placed, ScriptsTypeOK
<1>9. UniqueTrue'
  BY <1>3 DEF UniqueTrue, Placed, ScriptsTypeOK
<1> QED BY <1>2, <1>4, <1>5, <1>7, <1>8, <1>9

LEMMA LoadUniqueKeeps ==
    ASSUME ScriptsInv, NEW i \in Items, NEW u \in Uids, LoadUnique(i, u)
    PROVE  ScriptsInv'
<1> USE ScriptsAssumption DEF ScriptsInv
<1>1. Framed /\ DOMAIN stack = 1..Len(stack)
  BY SameFrame DEF LoadUnique, ScriptsTypeOK
<1>2. Booked' /\ TimersTrue'
  BY <1>1, TimersFramed DEF LoadUnique
<1>3. /\ place[i] = "unborn" /\ uid[i] = 0 /\ pending[i] = 0
      /\ \A j \in Items : /\ place'[j] = IF j = i THEN "world" ELSE place[j]
                          /\ uid'[j] = IF j = i THEN u ELSE uid[j]
      /\ \A v \in Uids : globalMap'[v] = IF v = u /\ globalMap[v] = NoItem THEN i ELSE globalMap[v]
      /\ clashed \subseteq clashed' /\ ((\E j \in Items : uid[j] = u) => u \in clashed')
      /\ UNCHANGED <<stack, pending, spoiled, doubled, lost, halved>>
  BY DEF LoadUnique, Placed, ScriptsTypeOK
<1>4. ScriptsTypeOK' /\ Histories'
  BY DEF ScriptsTypeOK, Histories, LoadUnique, timerVars
<1>a. \A v \in Uids : globalMap[v] = NoItem \/ (globalMap[v] \in Items /\ globalMap[v] # i)
  BY <1>3 DEF Placed, ScriptsTypeOK
<1>b. \A v \in Uids : globalMap'[v] = globalMap[v] \/ (v = u /\ globalMap'[v] = i)
  BY <1>3
<1>5. Placed' /\ Apart'
  <2>1. Placed'
    BY <1>3, <1>a, <1>b DEF Placed
  <2>2. Apart'
    BY <1>3 DEF Apart
  <2> QED BY <2>1, <2>2
<1>6. ItemsKeep /\ StackKeeps
  BY <1>3, SMTT(30) DEF ItemsKeep, StackKeeps, Erasable, Accounted, Names, ScriptsTypeOK
<1>7. Enclosed'
  BY <1>1, <1>4, <1>6, EnclosedKept
<1>8. ItemsOwned'
  BY <1>1, <1>3 DEF ItemsOwned, ScriptsTypeOK
<1>9. UniqueTrue'
  <2>1. \A v \in Uids : globalMap'[v] # NoItem => uid'[globalMap'[v]] = v
    BY <1>3, <1>a, <1>b DEF UniqueTrue
  <2>2. ASSUME NEW j \in Items, place'[j] = "world", uid'[j] \notin clashed' \union halved' \union {0}
        PROVE  globalMap'[uid'[j]] = j
    <3>1. CASE j # i
      <4>1. globalMap[uid[j]] = j /\ uid[j] \in Uids /\ uid'[j] = uid[j]
        BY <1>3, <2>2, <3>1 DEF UniqueTrue, ScriptsTypeOK
      <4> QED BY <1>3, <4>1
    <3>2. CASE j = i
      <4>1. globalMap[u] = NoItem
        BY <1>3, <1>a, <2>2, <3>2 DEF UniqueTrue
      <4> QED BY <1>3, <3>2, <4>1
    <3> QED BY <3>1, <3>2
  <2> QED BY <2>1, <2>2 DEF UniqueTrue
<1> QED BY <1>2, <1>4, <1>5, <1>7, <1>8, <1>9

\* What a script may learn: an item by its unique id,
\* or by itself.
Learns(f, i, u) ==
    /\ f \in Numbering
    /\ \A n \in Names : f[n] = Top.names[n] \/ (f[n] = i /\ n \in {u, i})

LEMMA TopTyped == ASSUME ScriptsTypeOK, stack # <<>> PROVE Top.names \in Numbering
<1>1. Len(stack) \in 1..Len(stack)
  BY DEF ScriptsTypeOK
<1> QED BY <1>1, EnvTypes DEF Top, Numbering

LEMMA NamedTrue ==
    ASSUME ScriptsTypeOK, stack # <<>>, NEW i \in Items, NEW u, u \in Uids \/ u = 0
    PROVE  Learns(Named(i, u), i, u)
<1> DEFINE f == Top.names
           g == Named(i, u)
           key == IF u # 0 THEN u ELSE i
<1>1. g = IF i \in {f[n] : n \in Names} THEN f ELSE [f EXCEPT ![key] = i]
  BY DEF Named
<1>2. f \in Numbering
  BY TopTyped
<1>3. key \in Names /\ (key = u \/ key = i)
  BY DEF Names
<1> HIDE DEF f, g, key
<1>4. g \in Numbering /\ \A n \in Names : g[n] = f[n] \/ (g[n] = i /\ n = key)
  <2>1. CASE g = f
    BY <1>2, <2>1
  <2>2. CASE g = [f EXCEPT ![key] = i]
    BY <1>2, <1>3, <2>2 DEF Numbering
  <2> QED BY <1>1, <2>1, <2>2
<1> QED BY <1>3, <1>4 DEF Learns, f, g

LEMMA LookKeeps ==
    ASSUME ScriptsInv, NEW i \in Items, NEW tile \in BOOLEAN, Look(i, tile)
    PROVE  ScriptsInv'
<1> USE ScriptsAssumption DEF ScriptsInv
<1> DEFINE u == IF tile THEN uid[i] ELSE 0
           f == Named(i, u)
<1>0. stack # <<>> /\ place[i] = "world" /\ SetNames(f) /\ u \in {uid[i], 0}
      /\ (u \in Uids \/ u = 0)
  BY DEF Look, ScriptsTypeOK
<1> HIDE DEF u
<1>1. Learns(f, i, u)
  BY <1>0, NamedTrue
<1>2. SetNames(f)
  BY <1>0
<1> HIDE DEF f
<1>3. Framed /\ TopNames(f)
  BY <1>0, <1>1, <1>2, NamesFrame DEF Learns
<1>4. Booked' /\ TimersTrue'
  BY <1>3, TimersFramed DEF Look
<1>5. UNCHANGED <<globalMap, place, uid, pending, spoiled, doubled, lost, clashed, halved>>
  BY DEF Look, itemVars
<1>6. ScriptsTypeOK' /\ Histories' /\ Placed' /\ Apart'
  BY <1>3, <1>5 DEF Look, timerVars, Framed, ScriptsTypeOK, Histories, Placed, Apart
<1>7. ItemsKeep
  BY <1>5 DEF ItemsKeep, Erasable, Accounted
<1>8. StackKeeps
  <2>1. ASSUME NEW n \in Names PROVE Erasable(i, n)' \/ n \notin {u, i}
    BY <1>0, <1>5 DEF Erasable, Names, ScriptsTypeOK
  <2> QED BY <1>0, <1>1, <1>3, <1>5, <2>1 DEF StackKeeps, TopNames, Top, Learns
<1>9. Enclosed'
  BY <1>3, <1>6, <1>7, <1>8, EnclosedKept
<1>10. DOMAIN stack = 1..Len(stack) /\ DOMAIN stack' = 1..Len(stack)
  BY <1>3 DEF Framed, ScriptsTypeOK
<1>11. ItemsOwned'
  BY <1>0, <1>3, <1>5, <1>10 DEF ItemsOwned, TopNames
<1>12. UniqueTrue'
  BY <1>5 DEF UniqueTrue
<1> QED BY <1>4, <1>6, <1>9, <1>11, <1>12

LEMMA CreateItemKeeps ==
    ASSUME ScriptsInv, NEW i \in Items, NEW whole \in BOOLEAN, CreateItem(i, whole)
    PROVE  ScriptsInv'
<1> USE ScriptsAssumption DEF ScriptsInv
<1>0. stack # <<>> /\ place[i] = "unborn" /\ SetNames(IF whole THEN Named(i, 0) ELSE Top.names)
  BY DEF CreateItem
<1> DEFINE f == IF whole THEN Named(i, 0) ELSE Top.names
<1>1. Learns(f, i, 0)
  <2>1. CASE whole
    BY <1>0, <2>1, NamedTrue
  <2>2. CASE ~whole
    BY <1>0, <2>2, TopTyped DEF Learns
  <2> QED BY <2>1, <2>2
<1>2. SetNames(f)
  BY <1>0
<1> HIDE DEF f
<1>3. Framed /\ TopNames(f)
  BY <1>0, <1>1, <1>2, NamesFrame DEF Learns
<1>4. Booked' /\ TimersTrue'
  BY <1>3, TimersFramed DEF CreateItem
<1>5. /\ \A j \in Items : place'[j] = IF j = i THEN "world" ELSE place[j]
      /\ UNCHANGED <<globalMap, uid, pending, spoiled, doubled, lost, clashed, halved>>
      /\ pending[i] = 0 /\ uid[i] = 0
  BY <1>0 DEF CreateItem, ScriptsTypeOK, Placed
<1>6. ScriptsTypeOK' /\ Histories' /\ Placed' /\ Apart'
  BY <1>3, <1>5 DEF CreateItem, timerVars, Framed, ScriptsTypeOK, Histories, Placed, Apart
<1>7. ItemsKeep
  BY <1>0, <1>5 DEF ItemsKeep, Erasable, Accounted
<1>8. StackKeeps
  <2>1. \A n \in {0, i} : Erasable(i, n)'
    BY DEF Erasable
  <2> QED BY <1>0, <1>1, <1>3, <1>5, <2>1 DEF StackKeeps, TopNames, Top, Learns
<1>9. Enclosed'
  BY <1>3, <1>6, <1>7, <1>8, EnclosedKept
<1>10. DOMAIN stack = 1..Len(stack) /\ DOMAIN stack' = 1..Len(stack)
  BY <1>3 DEF Framed, ScriptsTypeOK
<1>11. ItemsOwned'
  BY <1>0, <1>3, <1>5, <1>10 DEF ItemsOwned, TopNames
<1>12. UniqueTrue'
  BY <1>5 DEF UniqueTrue, Placed
<1> QED BY <1>4, <1>6, <1>9, <1>11, <1>12

\* What a number means to a script is an item with a place or one not placed yet,
\* that was released for a known reason if at all.
Handled(i, n) ==
    /\ i \in Items /\ place[i] \in {"virtual", "world"} /\ Erasable(i, n)
    /\ place[i] = "virtual" /\ pending[i] > 0 => Accounted(i)

LEMMA KnownHandled ==
    ASSUME ScriptsInv, stack # <<>>, NEW n \in Names, NEW i \in Known(n)
    PROVE  Handled(i, n)
<1> USE ScriptsAssumption DEF ScriptsInv
<1>1. i \in Items /\ place[i] \in {"virtual", "world"}
  BY DEF Known, Removed, ScriptsTypeOK
<1>2. CASE i = Top.names[n]
  <2>1. Len(stack) \in DOMAIN stack
    BY DEF ScriptsTypeOK
  <2>2. Numbers(Len(stack)) /\ stack[Len(stack)].names[n] = i
    BY <1>2, <2>1 DEF Enclosed, Top
  <2> QED BY <1>1, <2>2 DEF Numbers, Handled
<1>3. CASE n \in Uids /\ i = globalMap[n]
  <2>1. uid[i] = n /\ place[i] = "world"
    BY <1>1, <1>3 DEF UniqueTrue, Placed
  <2> QED BY <1>1, <2>1 DEF Handled, Erasable
<1> QED BY <1>2, <1>3 DEF Known

LEMMA AddItemExKeeps ==
    ASSUME ScriptsInv, NEW n \in Names, NEW container \in BOOLEAN, AddItemEx(n, container)
    PROVE  ScriptsInv'
<1> USE ScriptsAssumption DEF ScriptsInv
<1>1. PICK i \in Items :
        /\ i \in Known(n) /\ place[i] = "virtual" /\ place' = [place EXCEPT ![i] = "world"]
        /\ lost' = lost \ {i} /\ Withdrawn(i, container)
  BY DEF AddItemEx, Known, Withdrawn
<1>2. Framed /\ ListsWithout(i, container)
  BY <1>1, ListsFrame
<1>3. Booked' /\ TimersTrue'
  BY <1>2, TimersFramed DEF AddItemEx
<1>4. /\ \A j \in Items : place'[j] = IF j = i THEN "world" ELSE place[j]
      /\ UNCHANGED <<globalMap, uid, pending, spoiled, doubled, clashed, halved>>
      /\ uid[i] = 0
  BY <1>1 DEF AddItemEx, ScriptsTypeOK, Placed
<1>5. ScriptsTypeOK' /\ Histories'
  BY <1>1, <1>2, <1>4 DEF AddItemEx, timerVars, Framed, ScriptsTypeOK, Histories
<1>6. Placed' /\ Apart'
  BY <1>1, <1>4 DEF Placed, Apart, ScriptsTypeOK
<1>7. ItemsKeep
  BY <1>1, <1>4 DEF ItemsKeep, Erasable, Accounted
<1>8. StackKeeps
  BY <1>2 DEF StackKeeps, ListsWithout
<1>9. Enclosed'
  BY <1>2, <1>5, <1>7, <1>8, EnclosedKept
<1>10. DOMAIN stack = 1..Len(stack) /\ DOMAIN stack' = 1..Len(stack)
  BY <1>2 DEF Framed, ScriptsTypeOK
<1>11. pending[i] > 0 => Accounted(i)
  BY <1>1, KnownHandled DEF AddItemEx, Handled
<1>12. ItemsOwned'
  <2> SUFFICES ASSUME NEW j \in Items
               PROVE  /\ pending'[j] > 0 => place'[j] \in {"gone", "virtual"} \/ Accounted(j)'
                      /\ pending'[j] <= 1 \/ Accounted(j)'
                      /\ place'[j] = "gone" => pending'[j] > 0 \/ j \in lost'
                      /\ place'[j] = "virtual" => \/ \E k \in DOMAIN stack' : j \in stack'[k].temp
                                                 \/ pending'[j] > 0 \/ j \in lost'
    BY DEF ItemsOwned, Accounted
  <2>1. CASE j = i
    BY <1>1, <1>4, <1>11, <2>1 DEF ItemsOwned, Accounted
  <2>2. CASE j # i
    BY <1>1, <1>2, <1>4, <1>10, <2>2 DEF ItemsOwned, ListsWithout, Accounted
  <2> QED BY <2>1, <2>2
<1>13. UniqueTrue'
  BY <1>4 DEF UniqueTrue
<1> QED BY <1>3, <1>5, <1>6, <1>9, <1>12, <1>13

LEMMA AddMergedKeeps ==
    ASSUME ScriptsInv, NEW n \in Names, NEW container \in BOOLEAN, AddMerged(n, container)
    PROVE  ScriptsInv'
<1> USE ScriptsAssumption DEF ScriptsInv
<1>1. PICK i \in Items :
        /\ i \in Known(n) /\ place[i] = "virtual" /\ pending' = Released({i})
        /\ doubled' = doubled \union {i} /\ lost' = lost \ {i} /\ Withdrawn(i, container)
  BY DEF AddMerged, Known, Withdrawn
<1>2. Framed /\ ListsWithout(i, container)
  BY <1>1, ListsFrame
<1>3. Booked' /\ TimersTrue'
  BY <1>2, TimersFramed DEF AddMerged
<1>4. /\ \A j \in Items : pending'[j] = IF j = i THEN pending[j] + 1 ELSE pending[j]
      /\ UNCHANGED <<globalMap, place, uid, spoiled, clashed, halved>>
  BY <1>1 DEF AddMerged, Released, ScriptsTypeOK
<1>5. ScriptsTypeOK' /\ Histories'
  BY <1>1, <1>2, <1>4 DEF AddMerged, Released, timerVars, Framed, ScriptsTypeOK, Histories
<1>6. Placed' /\ Apart'
  BY <1>1, <1>4 DEF Placed, Apart, ScriptsTypeOK
<1>7. ItemsKeep
  BY <1>1, <1>4 DEF ItemsKeep, Erasable, Accounted
<1>8. StackKeeps
  BY <1>2 DEF StackKeeps, ListsWithout
<1>9. Enclosed'
  BY <1>2, <1>5, <1>7, <1>8, EnclosedKept
<1>10. DOMAIN stack = 1..Len(stack) /\ DOMAIN stack' = 1..Len(stack)
  BY <1>2 DEF Framed, ScriptsTypeOK
<1>11. ItemsOwned'
  <2> SUFFICES ASSUME NEW j \in Items
               PROVE  /\ pending'[j] > 0 => place'[j] \in {"gone", "virtual"} \/ Accounted(j)'
                      /\ pending'[j] <= 1 \/ Accounted(j)'
                      /\ place'[j] = "gone" => pending'[j] > 0 \/ j \in lost'
                      /\ place'[j] = "virtual" => \/ \E k \in DOMAIN stack' : j \in stack'[k].temp
                                                 \/ pending'[j] > 0 \/ j \in lost'
    BY DEF ItemsOwned, Accounted
  <2>1. CASE j = i
    <3>1. pending'[i] > 0
      BY <1>4 DEF ScriptsTypeOK
    <3>2. i \in doubled' /\ place'[i] = "virtual"
      BY <1>1, <1>4
    <3> QED BY <2>1, <3>1, <3>2 DEF Accounted
  <2>2. CASE j # i
    BY <1>1, <1>2, <1>4, <1>10, <2>2 DEF ItemsOwned, ListsWithout, Accounted
  <2> QED BY <2>1, <2>2
<1>12. UniqueTrue'
  BY <1>4 DEF UniqueTrue
<1> QED BY <1>3, <1>5, <1>6, <1>9, <1>11, <1>12

LEMMA AddDividedKeeps ==
    ASSUME ScriptsInv, NEW n \in Names, NEW j \in Items, NEW container \in BOOLEAN,
           AddDivided(n, j, container)
    PROVE  ScriptsInv'
<1> USE ScriptsAssumption DEF ScriptsInv
<1>1. PICK i \in Items :
        /\ place[i] = "virtual" /\ place[j] = "unborn" /\ place' = [place EXCEPT ![j] = "world"]
        /\ lost' = IF container THEN lost \union {i} ELSE lost
        /\ Withdrawn(i, container)
  BY DEF AddDivided, Known, Withdrawn
<1>2. Framed /\ ListsWithout(i, container)
  BY <1>1, ListsFrame
<1>3. Booked' /\ TimersTrue'
  BY <1>2, TimersFramed DEF AddDivided
<1>4. /\ \A m \in Items : place'[m] = IF m = j THEN "world" ELSE place[m]
      /\ UNCHANGED <<globalMap, uid, pending, spoiled, doubled, clashed, halved>>
      /\ uid[j] = 0 /\ pending[j] = 0
  BY <1>1 DEF AddDivided, ScriptsTypeOK, Placed
<1>5. ScriptsTypeOK' /\ Histories'
  BY <1>1, <1>2, <1>4 DEF AddDivided, timerVars, Framed, ScriptsTypeOK, Histories
<1>6. Placed' /\ Apart'
  BY <1>1, <1>4 DEF Placed, Apart, ScriptsTypeOK
<1>7. ItemsKeep
  BY <1>1, <1>4 DEF ItemsKeep, Erasable, Accounted
<1>8. StackKeeps
  BY <1>2 DEF StackKeeps, ListsWithout
<1>9. Enclosed'
  BY <1>2, <1>5, <1>7, <1>8, EnclosedKept
<1>10. DOMAIN stack = 1..Len(stack) /\ DOMAIN stack' = 1..Len(stack)
  BY <1>2 DEF Framed, ScriptsTypeOK
<1>11. ItemsOwned'
  <2> SUFFICES ASSUME NEW m \in Items
               PROVE  /\ pending'[m] > 0 => place'[m] \in {"gone", "virtual"} \/ Accounted(m)'
                      /\ pending'[m] <= 1 \/ Accounted(m)'
                      /\ place'[m] = "gone" => pending'[m] > 0 \/ m \in lost'
                      /\ place'[m] = "virtual" => \/ \E k \in DOMAIN stack' : m \in stack'[k].temp
                                                 \/ pending'[m] > 0 \/ m \in lost'
    BY DEF ItemsOwned, Accounted
  <2>1. CASE m = i
    BY <1>1, <1>2, <1>4, <1>10, <2>1 DEF ItemsOwned, ListsWithout, Accounted
  <2>2. CASE m = j
    BY <1>4, <2>2 DEF ItemsOwned, Accounted
  <2>3. CASE m \notin {i, j}
    <3>1. /\ place'[m] = place[m] /\ UNCHANGED <<pending, doubled, spoiled>>
          /\ (m \in lost <=> m \in lost')
          /\ \A k \in 1..Len(stack) : m \in stack'[k].temp <=> m \in stack[k].temp
      BY <1>1, <1>2, <1>4, <2>3 DEF ListsWithout
    <3> QED BY <1>10, <3>1 DEF ItemsOwned, Accounted
  <2> QED BY <2>1, <2>2, <2>3
<1>12. UniqueTrue'
  BY <1>4 DEF UniqueTrue
<1> QED BY <1>3, <1>5, <1>6, <1>9, <1>11, <1>12

LEMMA ErasedTrue ==
    ASSUME NEW f \in Numbering, NEW n
    PROVE  /\ Erased(f, n) \in Numbering
           /\ \A m \in Names : Erased(f, n)[m] = IF m = n THEN NoItem ELSE f[m]
BY DEF Erased, Numbering

LEMMA MapErased ==
    ASSUME ScriptsTypeOK, NEW n
    PROVE  /\ Erased(globalMap, n) \in [Uids -> Items \union {NoItem}]
           /\ \A u \in Uids : Erased(globalMap, n)[u] = IF u = n THEN NoItem ELSE globalMap[u]
BY DEF Erased, ScriptsTypeOK

\* Erasing a unique id a script has used hides no other item.
LEMMA NoneHidden ==
    ASSUME ScriptsInv, NEW n \in Names, NEW i \in Items, Handled(i, n),
           NEW m \in Items, m # i, place[m] = "world", uid[m] \notin clashed \union halved \union {0}
    PROVE  uid[m] # n /\ globalMap[uid[m]] = m
<1> USE ScriptsAssumption DEF ScriptsInv
<1>1. globalMap[uid[m]] = m /\ uid[m] \in Uids
  BY DEF UniqueTrue, ScriptsTypeOK
<1>2. CASE uid[m] = n
  <2>1. uid[i] = n \/ globalMap[n] = NoItem
    BY <1>1, <1>2 DEF Handled, Erasable
  <2>2. uid[i] # n
    BY <1>1, <1>2 DEF Apart
  <2> QED BY <1>1, <1>2, <2>1, <2>2
<1> QED BY <1>1, <1>2

LEMMA RemoveItemKeeps ==
    ASSUME ScriptsInv, NEW n \in Names, NEW part \in BOOLEAN, RemoveItem(n, part)
    PROVE  ScriptsInv'
<1> USE ScriptsAssumption DEF ScriptsInv
<1>1. PICK i \in Items :
        /\ i \in Known(n) /\ place[i] = "world"
        /\ place' = IF part THEN place ELSE [place EXCEPT ![i] = "gone"]
        /\ pending' = IF part THEN pending ELSE Released({i})
        /\ halved' = IF part /\ n = uid[i] THEN halved \union ({n} \ {0}) ELSE halved
  BY DEF RemoveItem, Known
<1>2. stack # <<>> /\ SetNames(Erased(Top.names, n)) /\ globalMap' = Erased(globalMap, n)
  BY DEF RemoveItem
<1> DEFINE f == Erased(Top.names, n)
<1>3. f \in Numbering /\ \A m \in Names : f[m] \in {Top.names[m], NoItem}
  BY <1>2, TopTyped, ErasedTrue
<1>4. SetNames(f)
  BY <1>2
<1> HIDE DEF f
<1>5. Framed /\ TopNames(f)
  BY <1>2, <1>3, <1>4, NamesFrame
<1>6. Booked' /\ TimersTrue'
  BY <1>5, TimersFramed DEF RemoveItem
<1>7. /\ \A j \in Items : /\ place'[j] = IF j = i /\ ~part THEN "gone" ELSE place[j]
                          /\ pending'[j] = IF j = i /\ ~part THEN pending[j] + 1 ELSE pending[j]
      /\ UNCHANGED <<uid, spoiled, doubled, lost, clashed>>
  BY <1>1, <1>2 DEF RemoveItem, Released, ScriptsTypeOK
<1>h. /\ halved \subseteq halved' /\ halved' \subseteq Uids
      /\ part /\ n = uid[i] /\ n # 0 => n \in halved'
  BY <1>1 DEF ScriptsTypeOK, Histories
<1>g. /\ globalMap' \in [Uids -> Items \union {NoItem}]
      /\ \A u \in Uids : globalMap'[u] = IF u = n THEN NoItem ELSE globalMap[u]
  BY <1>2, MapErased
<1>8. place' \in [Items -> {"unborn", "virtual", "world", "gone"}] /\ pending' \in [Items -> Nat]
  BY <1>1 DEF Released, ScriptsTypeOK
<1>9. ScriptsTypeOK' /\ Histories'
  <2>1. UNCHANGED <<uid, spoiled, doubled, lost, clashed, timers, booked, lastTimer, age>>
    BY DEF RemoveItem, timerVars
  <2> QED BY <1>5, <1>8, <1>g, <1>h, <2>1 DEF Framed, ScriptsTypeOK, Histories
<1>10. Placed' /\ Apart'
  <2>1. Apart'
    BY <1>7 DEF Apart
  <2>2. \A j \in Items : pending[j] \in Nat
    BY DEF ScriptsTypeOK
  <2>3. ASSUME NEW u \in Uids, globalMap'[u] # NoItem
        PROVE  place'[globalMap'[u]] \in {"world", "gone"}
    <3>1. globalMap'[u] = globalMap[u] /\ globalMap[u] \in Items
      BY <1>g, <2>3 DEF ScriptsTypeOK
    <3> QED BY <1>7, <2>3, <3>1 DEF Placed
  <2>4. \A m \in Items : /\ place'[m] = "unborn" => pending'[m] = 0
                         /\ place'[m] \in {"unborn", "virtual"} => uid'[m] = 0
                         /\ m \in lost' => place'[m] = "virtual"
    <3> SUFFICES ASSUME NEW m \in Items
                 PROVE  /\ place'[m] = "unborn" => pending'[m] = 0
                        /\ place'[m] \in {"unborn", "virtual"} => uid'[m] = 0
                        /\ m \in lost' => place'[m] = "virtual"
      OBVIOUS
    <3>1. CASE m = i
      <4>1. i \notin lost /\ place'[i] \in {"gone", "world"}
        BY <1>1, <1>7 DEF Placed
      <4> QED BY <1>7, <3>1, <4>1
    <3>2. CASE m # i
      <4>1. place'[m] = place[m] /\ pending'[m] = pending[m] /\ UNCHANGED <<uid, lost>>
        BY <1>7, <3>2
      <4> QED BY <4>1 DEF Placed
    <3> QED BY <3>1, <3>2
  <2>5. Placed'
    BY <2>3, <2>4 DEF Placed
  <2> QED BY <2>1, <2>5
<1>11. ItemsKeep
  <2>1. \A j \in Items, m \in Names : Erasable(j, m) => Erasable(j, m)'
    BY <1>7, <1>g DEF Erasable
  <2> QED BY <1>1, <1>7, <2>1 DEF ItemsKeep, Accounted
<1>12. StackKeeps
  BY <1>3, <1>5 DEF StackKeeps, TopNames, Top
<1>13. Enclosed'
  BY <1>5, <1>9, <1>11, <1>12, EnclosedKept
<1>14. DOMAIN stack = 1..Len(stack) /\ DOMAIN stack' = 1..Len(stack)
  BY <1>5 DEF Framed, ScriptsTypeOK
<1>15. ItemsOwned'
  <2> SUFFICES ASSUME NEW m \in Items
               PROVE  /\ pending'[m] > 0 => place'[m] \in {"gone", "virtual"} \/ Accounted(m)'
                      /\ pending'[m] <= 1 \/ Accounted(m)'
                      /\ place'[m] = "gone" => pending'[m] > 0 \/ m \in lost'
                      /\ place'[m] = "virtual" => \/ \E k \in DOMAIN stack' : m \in stack'[k].temp
                                                 \/ pending'[m] > 0 \/ m \in lost'
    BY DEF ItemsOwned, Accounted
  <2>1. CASE m = i /\ ~part
    <3>1. pending[i] \in Nat /\ (pending[i] > 0 => Accounted(i))
      BY <1>1 DEF ItemsOwned, Accounted, ScriptsTypeOK
    <3> QED BY <1>7, <2>1, <3>1 DEF Accounted
  <2>2. CASE m # i \/ part
    <3>1. place'[m] = place[m] /\ pending'[m] = pending[m]
      BY <1>7, <2>2
    <3> QED BY <1>5, <1>7, <1>14, <3>1 DEF ItemsOwned, TopNames, Accounted
  <2> QED BY <2>1, <2>2
<1>16. UniqueTrue'
  <2>0. Handled(i, n)
    BY <1>1, <1>2, KnownHandled
  <2>1. \A u \in Uids : globalMap'[u] # NoItem => uid'[globalMap'[u]] = u
    BY <1>7, <1>g DEF UniqueTrue
  <2>2. ASSUME NEW m \in Items, place'[m] = "world", uid'[m] \notin clashed' \union halved' \union {0}
        PROVE  globalMap'[uid'[m]] = m
    <3>1. /\ m # i \/ part
          /\ place[m] = "world" /\ uid[m] \notin clashed \union halved \union {0} /\ uid[m] \in Uids
      BY <1>7, <1>h, <2>2 DEF ScriptsTypeOK
    <3>2. uid[m] # n /\ globalMap[uid[m]] = m
      <4>1. CASE m = i
        BY <1>7, <1>h, <2>2, <3>1, <4>1 DEF UniqueTrue
      <4>2. CASE m # i
        BY <2>0, <3>1, <4>2, NoneHidden
      <4> QED BY <4>1, <4>2
    <3> QED BY <1>7, <1>g, <3>1, <3>2
  <2> QED BY <2>1, <2>2 DEF UniqueTrue
<1> QED BY <1>6, <1>9, <1>10, <1>13, <1>15, <1>16

LEMMA TransformItemKeeps ==
    ASSUME ScriptsInv, NEW n \in Names, NEW j \in Items \union {NoItem}, NEW crossed \in BOOLEAN,
           TransformItem(n, j, crossed)
    PROVE  ScriptsInv'
<1> USE ScriptsAssumption DEF ScriptsInv
<1>1. PICK i \in Items :
        /\ i \in Known(n) /\ place[i] = "world"
        /\ j \in {NoItem} \union {k \in Items : place[k] = "unborn"} /\ (crossed => j # NoItem)
        /\ place' = [k \in Items |-> CASE k = i -> "gone" [] k = j -> place[i]
                                       [] k \notin {i, j} -> place[k]]
        /\ uid' = IF crossed THEN [uid EXCEPT ![j] = uid[i]] ELSE uid
        /\ clashed' = IF crossed THEN clashed \union ({uid[i]} \ {0}) ELSE clashed
        /\ pending' = Released({i})
  BY DEF TransformItem, Known
<1>2. /\ stack # <<>> /\ SetNames([Top.names EXCEPT ![n] = j])
      /\ globalMap' = Erased(globalMap, n)
      /\ UNCHANGED <<spoiled, doubled, lost, halved>> /\ UNCHANGED timerVars
  BY DEF TransformItem
<1>3. j # i /\ (j # NoItem => j \in Items /\ place[j] = "unborn" /\ uid[j] = 0 /\ pending[j] = 0)
  BY <1>1 DEF Placed
<1> DEFINE f == [Top.names EXCEPT ![n] = j]
<1>4. f \in Numbering /\ \A m \in Names : f[m] = IF m = n THEN j ELSE Top.names[m]
  <2>1. PICK g : g = Top.names
    OBVIOUS
  <2>2. g \in Numbering
    BY <1>2, <2>1, TopTyped
  <2> QED BY <2>1, <2>2 DEF Numbering
<1>5. SetNames(f)
  BY <1>2
<1> HIDE DEF f
<1>6. Framed /\ TopNames(f)
  BY <1>2, <1>4, <1>5, NamesFrame
<1>7. Booked' /\ TimersTrue'
  BY <1>2, <1>6, TimersFramed
<1>8. \A k \in Items :
        /\ place'[k] = IF k = i THEN "gone" ELSE IF k = j THEN "world" ELSE place[k]
        /\ pending'[k] = IF k = i THEN pending[k] + 1 ELSE pending[k]
        /\ uid'[k] = IF crossed /\ k = j THEN uid[i] ELSE uid[k]
  <2>1. \A k \in Items : uid'[k] = IF crossed /\ k = j THEN uid[i] ELSE uid[k]
    BY <1>1 DEF ScriptsTypeOK
  <2>2. \A k \in Items : place'[k] = IF k = i THEN "gone" ELSE IF k = j THEN "world" ELSE place[k]
    BY <1>1, <1>3
  <2>3. \A k \in Items : pending'[k] = IF k = i THEN pending[k] + 1 ELSE pending[k]
    BY <1>1 DEF Released, ScriptsTypeOK
  <2> QED BY <2>1, <2>2, <2>3
<1>g. /\ globalMap' \in [Uids -> Items \union {NoItem}]
      /\ \A u \in Uids : globalMap'[u] = IF u = n THEN NoItem ELSE globalMap[u]
  BY <1>2, MapErased
<1>u. /\ clashed \subseteq clashed'
      /\ crossed => (uid[i] # 0 => uid[i] \in clashed')
  BY <1>1
<1>h. Handled(i, n) /\ (pending[i] > 0 => Accounted(i)) /\ pending[i] \in Nat
  BY <1>1, <1>2, KnownHandled DEF ItemsOwned, Accounted, ScriptsTypeOK
<1>9. ScriptsTypeOK' /\ Histories'
  <2>1. place' \in [Items -> {"unborn", "virtual", "world", "gone"}]
    BY <1>1, <1>3 DEF ScriptsTypeOK
  <2>2. uid' \in [Items -> Uids \union {0}] /\ clashed' \subseteq Uids
    BY <1>1 DEF ScriptsTypeOK, Histories
  <2>3. pending' \in [Items -> Nat]
    BY <1>1 DEF Released, ScriptsTypeOK
  <2>4. UNCHANGED <<spoiled, doubled, lost, halved, timers, booked, lastTimer, age>>
    BY <1>2 DEF timerVars
  <2> QED BY <1>6, <1>g, <2>1, <2>2, <2>3, <2>4 DEF Framed, ScriptsTypeOK, Histories
<1>10. Placed'
  <2>1. ASSUME NEW u \in Uids, globalMap'[u] # NoItem
        PROVE  place'[globalMap'[u]] \in {"world", "gone"}
    <3>1. globalMap'[u] = globalMap[u] /\ globalMap[u] \in Items
      BY <1>g, <2>1 DEF ScriptsTypeOK
    <3> QED BY <1>8, <2>1, <3>1 DEF Placed
  <2>2. \A k \in Items : /\ place'[k] = "unborn" => pending'[k] = 0
                         /\ place'[k] \in {"unborn", "virtual"} => uid'[k] = 0
    BY <1>1, <1>8, ZenonT(30) DEF Placed
  <2>3. \A k \in Items : k \in lost' => place'[k] = "virtual"
    BY <1>1, <1>2, <1>3, <1>8 DEF Placed
  <2> QED BY <2>1, <2>2, <2>3 DEF Placed
<1>11. Apart'
  <2> SUFFICES ASSUME NEW k \in Items, NEW m \in Items, k # m, uid'[k] = uid'[m], uid'[k] # 0
               PROVE  uid'[k] \in clashed'
    BY DEF Apart
  <2>1. CASE crossed /\ j \in {k, m}
    BY <1>8, <1>u, <2>1
  <2>2. CASE ~(crossed /\ j \in {k, m})
    BY <1>8, <1>u, <2>2 DEF Apart
  <2> QED BY <2>1, <2>2
<1>12. ASSUME NEW k \in Items, place[k] # "unborn" \/ k = j, NEW m \in Names, m # n \/ k # j,
              k # j => Erasable(k, m)
       PROVE  k # j => Erasable(k, m)'
  <2> SUFFICES ASSUME k # j, m \in Uids PROVE Erasable(k, m)'
    BY DEF Erasable
  <2>1. uid'[k] = uid[k]
    BY <1>8
  <2>2. globalMap[m] = NoItem => globalMap'[m] = NoItem
    BY <1>g
  <2>3. \A q \in Items : uid[q] = m => uid'[q] = m
    BY <1>3, <1>8
  <2> QED BY <1>12, <1>u, <2>1, <2>2, <2>3 DEF Erasable
<1>13. j # NoItem => Erasable(j, n)'
  <2> SUFFICES ASSUME j # NoItem, n \in Uids PROVE Erasable(j, n)'
    BY DEF Erasable
  <2>1. globalMap'[n] = NoItem
    BY <1>g
  <2>2. n \in clashed \/ \E q \in Items : uid[q] = n
    BY <1>h DEF Handled, Erasable
  <2>3. \A q \in Items : uid[q] = n => uid'[q] = n
    BY <1>3, <1>8
  <2> QED BY <1>u, <2>1, <2>2, <2>3 DEF Erasable
<1>14. ItemsKeep
  <2> SUFFICES ASSUME NEW k \in Items, place[k] # "unborn"
               PROVE  /\ place'[k] # "unborn" /\ (place'[k] = "virtual" => place[k] = "virtual")
                      /\ place'[k] = "virtual" /\ pending'[k] > 0 => pending[k] > 0 \/ Accounted(k)'
                      /\ Accounted(k) => Accounted(k)'
                      /\ \A m \in Names : Erasable(k, m) => Erasable(k, m)'
    BY DEF ItemsKeep
  <2>1. k # j
    BY <1>3
  <2> QED BY <1>2, <1>8, <1>12, <2>1 DEF Accounted
<1>15. StackKeeps
  <2>1. j # NoItem => place'[j] = "world"
    BY <1>3, <1>8
  <2> QED BY <1>3, <1>4, <1>6, <1>13, <2>1 DEF StackKeeps, TopNames, Top
<1>16. Enclosed'
  BY <1>6, <1>9, <1>14, <1>15, EnclosedKept
<1>17. DOMAIN stack = 1..Len(stack) /\ DOMAIN stack' = 1..Len(stack)
  BY <1>6 DEF Framed, ScriptsTypeOK
<1>18. ItemsOwned'
  <2> SUFFICES ASSUME NEW m \in Items
               PROVE  /\ pending'[m] > 0 => place'[m] \in {"gone", "virtual"} \/ Accounted(m)'
                      /\ pending'[m] <= 1 \/ Accounted(m)'
                      /\ place'[m] = "gone" => pending'[m] > 0 \/ m \in lost'
                      /\ place'[m] = "virtual" => \/ \E k \in DOMAIN stack' : m \in stack'[k].temp
                                                 \/ pending'[m] > 0 \/ m \in lost'
    BY DEF ItemsOwned, Accounted
  <2>1. CASE m = i
    BY <1>2, <1>8, <1>h, <2>1 DEF Accounted
  <2>2. CASE m = j
    BY <1>3, <1>8, <2>2
  <2>3. CASE m \notin {i, j}
    <3>1. place'[m] = place[m] /\ pending'[m] = pending[m]
      BY <1>8, <2>3
    <3> QED BY <1>2, <1>6, <1>17, <3>1 DEF ItemsOwned, TopNames, Accounted
  <2> QED BY <2>1, <2>2, <2>3
<1>19. UniqueTrue'
  <2>1. ASSUME NEW u \in Uids, globalMap'[u] # NoItem PROVE uid'[globalMap'[u]] = u
    <3>1. /\ globalMap'[u] = globalMap[u] /\ globalMap[u] \in Items
          /\ uid[globalMap[u]] = u /\ place[globalMap[u]] # "unborn"
      BY <1>g, <2>1 DEF UniqueTrue, Placed, ScriptsTypeOK
    <3> QED BY <1>3, <1>8, <3>1
  <2>2. ASSUME NEW m \in Items, place'[m] = "world", uid'[m] \notin clashed' \union halved' \union {0}
        PROVE  globalMap'[uid'[m]] = m
    <3>1. m # i /\ m # j
      BY <1>3, <1>8, <1>u, <2>2
    <3>2. /\ place[m] = "world" /\ uid'[m] = uid[m] /\ uid[m] \in Uids
          /\ uid[m] \notin clashed \union halved \union {0}
      BY <1>2, <1>8, <1>u, <2>2, <3>1 DEF ScriptsTypeOK
    <3>3. uid[m] # n /\ globalMap[uid[m]] = m
      BY <1>h, <3>1, <3>2, NoneHidden
    <3> QED BY <1>g, <3>2, <3>3
  <2> QED BY <2>1, <2>2 DEF UniqueTrue
<1> QED BY <1>7, <1>9, <1>10, <1>11, <1>16, <1>18, <1>19

LEMMA CreateItemExKeeps ==
    ASSUME ScriptsInv, NEW i \in Items, CreateItemEx(i)
    PROVE  ScriptsInv'
<1> USE ScriptsAssumption DEF ScriptsInv
<1> DEFINE top == Len(stack)
           f == Named(i, 0)
           e == [stack[top] EXCEPT !.temp = @ \union {i}, !.names = f]
<1>1. /\ stack # <<>> /\ place[i] = "unborn" /\ place' = [place EXCEPT ![i] = "virtual"]
      /\ stack' = [stack EXCEPT ![top] = e]
      /\ UNCHANGED <<globalMap, uid, pending, spoiled, doubled, lost, clashed, halved>> /\ UNCHANGED timerVars
  BY DEF CreateItemEx
<1>2. Learns(f, i, 0)
  BY <1>1, NamedTrue
<1>3. top \in 1..Len(stack) /\ stack \in Seq(Env) /\ DOMAIN stack = 1..Len(stack)
  BY <1>1 DEF ScriptsTypeOK
<1>4. stack[top] \in Env
  BY <1>3
<1>n. Top = stack[top]
  BY DEF Top
<1> HIDE DEF f, top
<1>5. /\ e \in Env /\ e.names = f /\ e.temp = stack[top].temp \union {i}
      /\ e.timer = stack[top].timer
  <2>1. PICK t : t = stack[top].temp \union {i}
    OBVIOUS
  <2>2. e = [stack[top] EXCEPT !.temp = t, !.names = f]
    BY <2>1
  <2> QED BY <1>2, <1>4, <2>1, <2>2 DEF Env, Learns, Numbering
<1> HIDE DEF e
<1>6. /\ stack' \in Seq(Env) /\ Len(stack') = Len(stack) /\ DOMAIN stack' = 1..Len(stack)
      /\ \A k \in 1..Len(stack) : stack'[k] = IF k = top THEN e ELSE stack[k]
  BY <1>1, <1>3, <1>5
<1>7. Framed
  BY <1>5, <1>6 DEF Framed
<1>8. Booked' /\ TimersTrue'
  BY <1>1, <1>7, TimersFramed
<1>9. \A j \in Items : place'[j] = IF j = i THEN "virtual" ELSE place[j]
  BY <1>1 DEF ScriptsTypeOK
<1>10. pending[i] = 0 /\ uid[i] = 0 /\ i \notin lost
  BY <1>1 DEF Placed
<1>11. ScriptsTypeOK' /\ Histories'
  BY <1>1, <1>6 DEF timerVars, ScriptsTypeOK, Histories
<1>12. Placed' /\ Apart'
  <2>1. Apart'
    BY <1>1 DEF Apart
  <2>2. ASSUME NEW u \in Uids, globalMap[u] # NoItem
        PROVE  place'[globalMap[u]] \in {"world", "gone"}
    BY <1>1, <1>9, <2>2 DEF Placed, ScriptsTypeOK
  <2> QED BY <1>1, <1>9, <1>10, <2>1, <2>2 DEF Placed
<1>13. Enclosed'
  <2> SUFFICES ASSUME NEW k \in 1..Len(stack) PROVE Listed(k)' /\ Numbers(k)' /\ Own(k)'
    BY <1>6 DEF Enclosed
  <2>1. Listed(k) /\ Numbers(k) /\ Own(k) /\ stack[k].temp \subseteq Items
    BY <1>3, EnvTypes DEF Enclosed
  <2>2. stack'[k].temp = IF k = top THEN stack[k].temp \union {i} ELSE stack[k].temp
    BY <1>5, <1>6
  <2>3. i \notin stack[k].temp
    BY <1>1, <2>1 DEF Listed
  <2>4. Listed(k)'
    <3> SUFFICES ASSUME NEW j \in stack'[k].temp
                 PROVE  /\ place'[j] # "unborn"
                        /\ place'[j] = "virtual" /\ pending'[j] > 0 => Accounted(j)'
      BY DEF Listed
    <3>1. CASE j = i
      BY <1>1, <1>9, <1>10, <3>1
    <3>2. CASE j # i
      <4>1. j \in stack[k].temp /\ j \in Items
        BY <2>1, <2>2, <3>2
      <4> QED BY <1>1, <1>9, <2>1, <3>2, <4>1 DEF Listed, Accounted
    <3> QED BY <3>1, <3>2
  <2>5. \A n \in Names : \/ stack'[k].names[n] = stack[k].names[n]
                         \/ k = top /\ stack'[k].names[n] = i /\ n \in {0, i}
    BY <1>2, <1>5, <1>6, <1>n DEF Learns
  <2>6. ASSUME NEW n \in Names, stack'[k].names[n] # NoItem
        PROVE  \E j \in Items :
                  /\ j = stack'[k].names[n] /\ place'[j] # "unborn" /\ Erasable(j, n)'
                  /\ place'[j] = "virtual" /\ pending'[j] > 0 => Accounted(j)'
                  /\ place'[j] = "virtual" => \A m \in 1..Len(stack) : j \in stack'[m].temp => m = k
    <3>1. CASE stack'[k].names[n] = stack[k].names[n]
      <4>1. PICK j \in Items : j = stack[k].names[n]
        BY <2>6, <3>1, EnvTypes
      <4>2. /\ place[j] # "unborn" /\ Erasable(j, n)
            /\ place[j] = "virtual" /\ pending[j] > 0 => Accounted(j)
        BY <2>1, <2>6, <3>1, <4>1 DEF Numbers
      <4>3. j # i /\ Erasable(j, n)'
        BY <1>1, <4>2 DEF Erasable
      <4>4. \A m \in 1..Len(stack) : j \in stack'[m].temp => j \in stack[m].temp
        BY <1>5, <1>6, <4>3
      <4>5. place[j] = "virtual" => \A m \in 1..Len(stack) : j \in stack[m].temp => m = k
        BY <1>3, <2>1, <2>6, <3>1, <4>1 DEF Own
      <4> QED BY <1>1, <1>9, <3>1, <4>1, <4>2, <4>3, <4>4, <4>5 DEF Accounted
    <3>2. CASE k = top /\ stack'[k].names[n] = i /\ n \in {0, i}
      <4>1. Erasable(i, n)'
        BY <3>2 DEF Erasable
      <4>2. ASSUME NEW m \in 1..Len(stack), i \in stack'[m].temp PROVE m = k
        <5>1. i \notin stack[m].temp
          BY <1>1, <1>3 DEF Enclosed, Listed
        <5> QED BY <1>5, <1>6, <3>2, <4>2, <5>1
      <4> QED BY <1>1, <1>9, <1>10, <3>2, <4>1, <4>2
    <3> QED BY <2>5, <3>1, <3>2
  <2>7. Numbers(k)'
    BY <2>6 DEF Numbers
  <2>8. Own(k)'
    BY <1>6, <2>6 DEF Own
  <2> QED BY <2>4, <2>7, <2>8
<1>14. ItemsOwned'
  <2> SUFFICES ASSUME NEW m \in Items
               PROVE  /\ pending'[m] > 0 => place'[m] \in {"gone", "virtual"} \/ Accounted(m)'
                      /\ pending'[m] <= 1 \/ Accounted(m)'
                      /\ place'[m] = "gone" => pending'[m] > 0 \/ m \in lost'
                      /\ place'[m] = "virtual" => \/ \E k \in DOMAIN stack' : m \in stack'[k].temp
                                                 \/ pending'[m] > 0 \/ m \in lost'
    BY DEF ItemsOwned, Accounted
  <2>1. CASE m = i
    <3>1. i \in stack'[top].temp /\ top \in DOMAIN stack'
      BY <1>3, <1>5, <1>6
    <3> QED BY <1>1, <1>9, <1>10, <2>1, <3>1
  <2>2. CASE m # i
    <3>1. \A k \in 1..Len(stack) : m \in stack[k].temp => m \in stack'[k].temp
      BY <1>5, <1>6
    <3> QED BY <1>1, <1>3, <1>6, <1>9, <2>2, <3>1 DEF ItemsOwned, Accounted
  <2> QED BY <2>1, <2>2
<1>15. UniqueTrue'
  BY <1>1, <1>9, <1>10 DEF UniqueTrue
<1> QED BY <1>8, <1>11, <1>12, <1>13, <1>14, <1>15

LEMMA CleanupKeeps ==
    ASSUME ScriptsInv, Cleanup
    PROVE  ScriptsInv'
<1> USE ScriptsAssumption DEF ScriptsInv
<1> DEFINE freed == {i \in Items : pending[i] > 0}
           dead == freed \union lost
           left == {uid[i] : i \in Items \ dead}
<1>1. /\ stack = <<>> /\ UNCHANGED stack /\ UNCHANGED timerVars
      /\ place' = [i \in Items |-> IF i \in dead THEN "unborn" ELSE place[i]]
      /\ globalMap' = [u \in Uids |-> IF u \in {uid[i] : i \in freed} THEN NoItem ELSE globalMap[u]]
      /\ uid' = [i \in Items |-> IF i \in dead THEN 0 ELSE uid[i]]
      /\ pending' = [i \in Items |-> 0]
      /\ spoiled' = spoiled \ dead /\ doubled' = doubled \ dead /\ lost' = {}
      /\ clashed' = clashed \intersect left /\ halved' = halved \intersect left
  BY DEF Cleanup
<1>2. Framed /\ DOMAIN stack' = {}
  BY <1>1, SameFrame DEF ScriptsTypeOK
<1>3. Booked' /\ TimersTrue'
  BY <1>1, <1>2, TimersFramed
<1>4. /\ \A i \in Items : i \in freed <=> pending[i] > 0
      /\ \A i \in Items : i \in dead <=> i \in freed \/ i \in lost
      /\ \A i \in Items : i \notin dead => uid[i] \in left
      /\ freed \subseteq Items /\ dead \subseteq Items
      /\ \A u \in left : \E i \in Items : i \notin dead /\ u = uid[i]
  BY DEF Histories
<1> HIDE DEF freed, dead, left
<1>5. /\ \A i \in Items : /\ place'[i] = IF i \in dead THEN "unborn" ELSE place[i]
                          /\ uid'[i] = IF i \in dead THEN 0 ELSE uid[i]
                          /\ pending'[i] = 0
      /\ \A u \in Uids : globalMap'[u] = NoItem \/ globalMap'[u] = globalMap[u]
      /\ \A u \in Uids, i \in Items : i \in freed /\ uid[i] = u => globalMap'[u] = NoItem
      /\ \A u \in Uids : globalMap'[u] # globalMap[u] => \E i \in Items : i \in freed /\ uid[i] = u
  BY <1>1, <1>4
<1>6. ScriptsTypeOK' /\ Histories'
  <2>1. UNCHANGED <<stack, timers, booked, lastTimer, age>>
    BY <1>1 DEF timerVars
  <2>2. /\ place' \in [Items -> {"unborn", "virtual", "world", "gone"}]
        /\ uid' \in [Items -> Uids \union {0}] /\ pending' \in [Items -> Nat]
        /\ globalMap' \in [Uids -> Items \union {NoItem}]
    BY <1>1 DEF ScriptsTypeOK
  <2>3. Histories'
    BY <1>1 DEF Histories
  <2> QED BY <2>1, <2>2, <2>3 DEF ScriptsTypeOK
\* What nobody has is known by no unique id, and what is deleted takes its id along.
<1>7. ASSUME NEW u \in Uids, globalMap'[u] # NoItem
      PROVE  /\ globalMap'[u] = globalMap[u] /\ globalMap[u] \in Items /\ globalMap[u] \notin dead
             /\ uid[globalMap[u]] = u
  <2>1. globalMap'[u] = globalMap[u] /\ globalMap[u] \in Items
    BY <1>5, <1>7 DEF ScriptsTypeOK
  <2>2. uid[globalMap[u]] = u /\ place[globalMap[u]] # "virtual"
    BY <1>7, <2>1 DEF UniqueTrue, Placed
  <2>3. globalMap[u] \notin freed /\ globalMap[u] \notin lost
    BY <1>5, <1>7, <2>1, <2>2 DEF Placed
  <2> QED BY <1>4, <2>1, <2>2, <2>3
<1>8. Placed'
  BY <1>1, <1>5, <1>7 DEF Placed
<1>9. Apart'
  <2> SUFFICES ASSUME NEW k \in Items, NEW m \in Items, k # m, uid'[k] = uid'[m], uid'[k] # 0
               PROVE  uid'[k] \in clashed'
    BY DEF Apart
  <2>1. k \notin dead /\ m \notin dead /\ uid[k] = uid[m] /\ uid'[k] = uid[k] /\ uid[k] # 0
    BY <1>5
  <2> QED BY <1>1, <1>4, <2>1 DEF Apart
<1>10. Enclosed'
  BY <1>2 DEF Enclosed
<1>11. ItemsOwned'
  <2>1. ASSUME NEW i \in Items, i \notin dead PROVE place[i] \notin {"gone", "virtual"}
    <3>1. pending[i] = 0 /\ i \notin lost
      BY <1>4, <2>1 DEF ScriptsTypeOK
    <3>2. DOMAIN stack = {}
      BY <1>1
    <3> QED BY <3>1, <3>2 DEF ItemsOwned
  <2> QED BY <1>5, <2>1 DEF ItemsOwned
<1>12. UniqueTrue'
  <2>1. ASSUME NEW u \in Uids, globalMap'[u] # NoItem PROVE uid'[globalMap'[u]] = u
    BY <1>5, <1>7, <2>1
  <2>2. ASSUME NEW m \in Items, place'[m] = "world", uid'[m] \notin clashed' \union halved' \union {0}
        PROVE  globalMap'[uid'[m]] = m
    <3>1. m \notin dead /\ place[m] = "world" /\ uid'[m] = uid[m] /\ uid[m] # 0
      BY <1>5, <2>2
    <3>2. uid[m] \notin clashed \union halved /\ uid[m] \in Uids
      BY <1>1, <1>4, <2>2, <3>1 DEF ScriptsTypeOK
    <3>3. globalMap[uid[m]] = m
      BY <3>1, <3>2 DEF UniqueTrue
    <3>4. \A i \in Items : i \in freed => uid[i] # uid[m]
      BY <1>4, <3>1, <3>2 DEF Apart
    <3> QED BY <1>5, <3>1, <3>2, <3>3, <3>4
  <2> QED BY <2>1, <2>2 DEF UniqueTrue
<1> QED BY <1>3, <1>6, <1>8, <1>9, <1>10, <1>11, <1>12

LEMMA ReleaseEnvKeeps ==
    ASSUME ScriptsInv, ReleaseEnv
    PROVE  ScriptsInv'
<1> USE ScriptsAssumption DEF ScriptsInv
<1> DEFINE temp == {i \in UNION {stack[k].temp : k \in DOMAIN stack} : place[i] = "virtual"}
           top == Len(stack)
<1>1. /\ stack # <<>>
      /\ pending' = Released(temp) /\ spoiled' = spoiled \union (temp \ Top.temp)
      /\ stack' = [k \in 1..(top - 1) |-> [stack[k] EXCEPT !.temp = {}]]
      /\ timers' = {t \in timers : t.id # Top.timer} /\ cut' = cut \ {Top.timer}
      /\ UNCHANGED <<globalMap, place, uid, doubled, lost, clashed, halved, booked, lastTimer, age>>
  BY DEF ReleaseEnv, ResetEnv
<1>2. top \in 1..Len(stack) /\ DOMAIN stack = 1..top /\ Top = stack[top] /\ stack \in Seq(Env)
  BY <1>1 DEF ScriptsTypeOK, Top
<1>3. ASSUME NEW k \in 1..(top - 1)
      PROVE  LET e == [stack[k] EXCEPT !.temp = {}]
             IN  e \in Env /\ e.temp = {} /\ e.names = stack[k].names /\ e.timer = stack[k].timer
  <2>1. stack[k] \in Env
    BY <1>2
  <2> QED BY <2>1 DEF Env
<1>4. /\ \A i \in Items : i \in temp <=> /\ place[i] = "virtual"
                                        /\ \E k \in 1..top : i \in stack[k].temp
      /\ temp \subseteq Items
  BY <1>2, EnvTypes
<1> HIDE DEF temp, top
<1>5. /\ stack' \in Seq(Env) /\ Len(stack') = top - 1 /\ DOMAIN stack' = 1..(top - 1)
      /\ \A k \in 1..(top - 1) : /\ stack'[k].temp = {} /\ stack'[k].names = stack[k].names
                                 /\ stack'[k].timer = stack[k].timer
  <2> DEFINE e(k) == [stack[k] EXCEPT !.temp = {}]
  <2>1. PICK n \in Nat : n = top - 1
    BY <1>2
  <2>2. stack' = [k \in 1..n |-> e(k)]
    BY <1>1, <2>1
  <2>3. \A k \in 1..n : /\ e(k) \in Env /\ e(k).temp = {} /\ e(k).names = stack[k].names
                         /\ e(k).timer = stack[k].timer
    BY <1>3, <2>1
  <2> HIDE DEF e
  <2>4. stack' \in Seq(Env) /\ Len(stack') = n /\ DOMAIN stack' = 1..n
    BY <2>2, <2>3
  <2> QED BY <2>1, <2>2, <2>3, <2>4
<1>6. \A i \in Items : pending'[i] = IF i \in temp THEN pending[i] + 1 ELSE pending[i]
  BY <1>1 DEF Released, ScriptsTypeOK
<1>7. ScriptsTypeOK' /\ Histories'
  <2>1. pending' \in [Items -> Nat]
    BY <1>1 DEF Released, ScriptsTypeOK
  <2>2. Len(stack') <= Depth
    BY <1>2, <1>5 DEF ScriptsTypeOK, top
  <2>3. Histories'
    BY <1>1, <1>4 DEF Histories
  <2> QED BY <1>1, <1>5, <2>1, <2>2, <2>3 DEF ScriptsTypeOK
<1>8. Booked'
  BY <1>1, <1>2, <1>5 DEF Booked
<1>9. TimersTrue'
  <2>1. ASSUME NEW k \in 1..(top - 1) PROVE stack[k].timer # 0 => Top.timer = 0
    BY <1>2 DEF Booked
  <2>2. ASSUME NEW t \in timers'
        PROVE  t \in booked' \/ \E k \in DOMAIN stack' : stack'[k].timer = t.id
    <3>1. t \in timers /\ t.id # stack[top].timer
      BY <1>1, <1>2
    <3>2. CASE t \in booked
      BY <1>1, <3>2
    <3>3. CASE \E k \in 1..top : stack[k].timer = t.id
      BY <1>2, <1>5, <3>1, <3>3
    <3> QED BY <1>2, <3>1, <3>2, <3>3 DEF TimersTrue
  <2>3. \A t \in timers', e \in booked' : t.id = e.id => t = e
    BY <1>1 DEF TimersTrue
  <2>4. ASSUME NEW k \in 1..(top - 1)
        PROVE  stack'[k].timer \in {t.id : t \in timers'} \union cut' \union {0}
    <3>1. CASE stack[k].timer = 0
      BY <1>5, <3>1
    <3>2. CASE stack[k].timer # 0
      <4>1. Top.timer = 0 /\ stack'[k].timer = stack[k].timer
        BY <1>5, <2>1, <3>2
      <4>2. stack[k].timer \in {t.id : t \in timers} \union cut
        BY <1>2, <3>2 DEF TimersTrue
      <4> QED BY <1>1, <3>2, <4>1, <4>2
    <3> QED BY <3>1, <3>2
  <2> QED BY <1>5, <2>2, <2>3, <2>4 DEF TimersTrue
<1>10. Placed' /\ Apart'
  BY <1>1, <1>4, <1>6 DEF Placed, Apart
<1>11. ASSUME NEW i \in Items, i \in temp, NEW k \in 1..(top - 1), NEW n \in Names, stack[k].names[n] = i
       PROVE  Accounted(i)'
  <2>1. \A j \in 1..top : i \in stack[j].temp => j = k
    BY <1>2, <1>4, <1>11 DEF Enclosed, Own
  <2>2. i \notin Top.temp
    BY <1>2, <2>1
  <2> QED BY <1>1, <1>11, <2>2 DEF Accounted
<1>12. Enclosed'
  <2> SUFFICES ASSUME NEW k \in 1..(top - 1) PROVE Listed(k)' /\ Numbers(k)' /\ Own(k)'
    BY <1>5 DEF Enclosed
  <2>1. Listed(k)' /\ Own(k)'
    BY <1>5 DEF Listed, Own
  <2>2. Numbers(k) /\ \A n \in Names : stack[k].names[n] \in Items \union {NoItem}
    BY <1>2, EnvTypes DEF Enclosed
  <2>3. ASSUME NEW n \in Names, stack[k].names[n] # NoItem, NEW i \in Items, i = stack[k].names[n]
        PROVE  /\ place'[i] # "unborn" /\ Erasable(i, n)'
               /\ place'[i] = "virtual" /\ pending'[i] > 0 => Accounted(i)'
    <3>1. /\ place[i] # "unborn" /\ Erasable(i, n)
          /\ place[i] = "virtual" /\ pending[i] > 0 => Accounted(i)
      BY <2>2, <2>3 DEF Numbers
    <3>2. Erasable(i, n)'
      BY <1>1, <3>1 DEF Erasable
    <3>3. Accounted(i) => Accounted(i)'
      BY <1>1 DEF Accounted
    <3> QED BY <1>1, <1>6, <1>11, <2>3, <3>1, <3>2, <3>3
  <2>4. Numbers(k)'
    BY <1>5, <2>2, <2>3 DEF Numbers
  <2> QED BY <2>1, <2>4
<1>13. ItemsOwned'
  <2> SUFFICES ASSUME NEW m \in Items
               PROVE  /\ pending'[m] > 0 => place'[m] \in {"gone", "virtual"} \/ Accounted(m)'
                      /\ pending'[m] <= 1 \/ Accounted(m)'
                      /\ place'[m] = "gone" => pending'[m] > 0 \/ m \in lost'
                      /\ place'[m] = "virtual" => \/ \E k \in DOMAIN stack' : m \in stack'[k].temp
                                                 \/ pending'[m] > 0 \/ m \in lost'
    BY DEF ItemsOwned, Accounted
  <2>0. pending[m] \in Nat /\ (Accounted(m) => Accounted(m)')
    BY <1>1 DEF Accounted, ScriptsTypeOK
  <2>1. CASE m \in temp
    <3>1. place[m] = "virtual" /\ pending'[m] = pending[m] + 1
      BY <1>4, <1>6, <2>1
    <3>2. pending[m] > 0 => Accounted(m)
      BY <1>2, <1>4, <2>1 DEF Enclosed, Listed
    <3> QED BY <1>1, <2>0, <3>1, <3>2
  <2>2. CASE m \notin temp
    <3>1. pending'[m] = pending[m] /\ place'[m] = place[m] /\ lost' = lost
      BY <1>1, <1>6, <2>2
    <3> QED BY <1>2, <1>4, <2>0, <2>2, <3>1 DEF ItemsOwned, Accounted
  <2> QED BY <2>1, <2>2
<1>14. UniqueTrue'
  BY <1>1 DEF UniqueTrue
<1> QED BY <1>7, <1>8, <1>9, <1>10, <1>12, <1>13, <1>14
-----------------------------------------------------------------------------
(* Steps that change no item.                                              *)

LEMMA ItemsLeftAlone ==
    ASSUME ScriptsTypeOK, Placed, Apart, UniqueTrue, Histories, UNCHANGED itemVars
    PROVE  Placed' /\ Apart' /\ UniqueTrue' /\ Histories'
BY DEF itemVars, Placed, Apart, UniqueTrue, Histories

LEMMA StackLeftAlone ==
    ASSUME Enclosed, ItemsOwned, UNCHANGED itemVars, UNCHANGED stack
    PROVE  Enclosed' /\ ItemsOwned'
<1>1. Enclosed'
  BY DEF itemVars, Enclosed, Listed, Numbers, Own, Erasable, Accounted
<1>2. ItemsOwned'
  BY DEF itemVars, ItemsOwned
<1> QED BY <1>1, <1>2

LEMMA NewEnvTyped ==
    ASSUME NEW t \in 0..LastTimer
    PROVE  /\ NewEnv(t) \in Env /\ NewEnv(t).timer = t /\ NewEnv(t).temp = {}
           /\ \A n \in Names : NewEnv(t).names[n] = NoItem
BY DEF NewEnv, Env

LEMMA ReserveEnvKeeps ==
    ASSUME ScriptsInv, ReserveEnv
    PROVE  ScriptsInv'
<1> USE ScriptsAssumption DEF ScriptsInv
<1> DEFINE e == NewEnv(0)
<1>0. PICK top : top = Len(stack)
  OBVIOUS
<1>1. /\ top < Depth /\ stack' = Append(stack, e)
      /\ UNCHANGED itemVars /\ UNCHANGED timerVars
  BY <1>0 DEF ReserveEnv
<1>2. e \in Env /\ e.timer = 0 /\ e.temp = {} /\ \A n \in Names : e.names[n] = NoItem
  <2>1. 0 \in 0..LastTimer
    OBVIOUS
  <2> QED BY <2>1, NewEnvTyped
<1> HIDE DEF e
<1>3. stack \in Seq(Env) /\ top \in Nat /\ DOMAIN stack = 1..top
  BY <1>0 DEF ScriptsTypeOK
<1>4. /\ stack' \in Seq(Env) /\ Len(stack') = top + 1 /\ DOMAIN stack' = 1..(top + 1)
      /\ \A k \in 1..top : stack'[k] = stack[k]
      /\ stack'[top + 1] = e
  BY <1>0, <1>1, <1>2, <1>3
<1>5. ScriptsTypeOK'
  BY <1>0, <1>1, <1>3, <1>4 DEF itemVars, timerVars, ScriptsTypeOK
<1>6. Placed' /\ Apart' /\ UniqueTrue' /\ Histories'
  BY <1>1, ItemsLeftAlone
<1>7. \A k \in 1..(top + 1) : k \in 1..top \/ k = top + 1
  BY <1>3
<1>8. Enclosed'
  <2>1. ASSUME NEW k \in 1..top PROVE Listed(k)' /\ Numbers(k)' /\ Own(k)'
    <3>1. Listed(k) /\ Numbers(k) /\ Own(k)
      BY <1>3 DEF Enclosed
    <3>2. Listed(k)' /\ Numbers(k)'
      BY <1>1, <1>4, <3>1 DEF itemVars, Listed, Numbers, Erasable, Accounted
    <3>3. Own(k)'
      BY <1>1, <1>2, <1>3, <1>4, <1>7, <3>1 DEF itemVars, Own
    <3> QED BY <3>2, <3>3
  <2>2. Listed(top + 1)' /\ Numbers(top + 1)' /\ Own(top + 1)'
    BY <1>2, <1>4 DEF Listed, Numbers, Own
  <2> QED BY <1>4, <1>7, <2>1, <2>2 DEF Enclosed
<1>9. ItemsOwned'
  <2>1. \A i : (\E k \in DOMAIN stack : i \in stack[k].temp) => \E k \in DOMAIN stack' : i \in stack'[k].temp
    BY <1>3, <1>4
  <2> QED BY <1>1, <2>1 DEF itemVars, ItemsOwned
<1>10. Booked' /\ TimersTrue'
  <2>1. Booked'
    BY <1>1, <1>2, <1>3, <1>4, <1>7 DEF timerVars, Booked
  <2>2. TimersTrue'
    <3>1. \A t \in timers : t \in booked \/ \E k \in DOMAIN stack' : stack'[k].timer = t.id
      BY <1>3, <1>4 DEF TimersTrue
    <3>2. \A k \in DOMAIN stack' : stack'[k].timer \in {t.id : t \in timers} \union cut \union {0}
      BY <1>2, <1>3, <1>4, <1>7 DEF TimersTrue
    <3> QED BY <1>1, <3>1, <3>2 DEF timerVars, TimersTrue
  <2> QED BY <2>1, <2>2
<1> QED BY <1>5, <1>6, <1>8, <1>9, <1>10

LEMMA AddEventKeeps ==
    ASSUME ScriptsInv, AddEvent
    PROVE  ScriptsInv'
<1> USE ScriptsAssumption DEF ScriptsInv
<1>1. Placed' /\ Apart' /\ UniqueTrue' /\ Histories' /\ Enclosed' /\ ItemsOwned'
  BY ItemsLeftAlone, StackLeftAlone DEF AddEvent
<1> DEFINE new == [id |-> lastTimer + 1, age |-> age]
<1>2. /\ lastTimer < LastTimer /\ lastTimer' = lastTimer + 1
      /\ timers' = timers \union {new} /\ booked' = booked \union {new}
      /\ UNCHANGED <<stack, age, cut>> /\ UNCHANGED itemVars
  BY DEF AddEvent
<1>3. lastTimer \in 0..LastTimer /\ age \in 0..LastTimer /\ timers \subseteq Timer /\ booked \subseteq Timer
  BY DEF ScriptsTypeOK
<1>4. new \in Timer /\ new.id = lastTimer + 1
  BY <1>2, <1>3 DEF Timer
<1>5. \A t \in timers \union booked : t.id \in Nat /\ t.id <= lastTimer
  BY <1>3 DEF Booked, Timer
<1> HIDE DEF new
<1>6. ScriptsTypeOK'
  BY <1>2, <1>3, <1>4 DEF itemVars, ScriptsTypeOK
<1>7. Booked'
  BY <1>2, <1>3, <1>4, <1>5 DEF Booked
<1>8. TimersTrue'
  <2>1. \A t \in timers', e \in booked' : t.id = e.id => t = e
    BY <1>2, <1>3, <1>4, <1>5 DEF TimersTrue
  <2>2. \A t \in timers' : t \in booked' \/ \E k \in DOMAIN stack' : stack'[k].timer = t.id
    BY <1>2 DEF TimersTrue
  <2>3. \A k \in DOMAIN stack' : stack'[k].timer \in {t.id : t \in timers'} \union cut' \union {0}
    BY <1>2 DEF TimersTrue
  <2> QED BY <2>1, <2>2, <2>3 DEF TimersTrue
<1> QED BY <1>1, <1>6, <1>7, <1>8

LEMMA StopEventKeeps ==
    ASSUME ScriptsInv, NEW t \in timers, NEW overdue \in BOOLEAN, StopEvent(t, overdue)
    PROVE  ScriptsInv'
<1> USE ScriptsAssumption DEF ScriptsInv
<1>1. Placed' /\ Apart' /\ UniqueTrue' /\ Histories' /\ Enclosed' /\ ItemsOwned'
  BY ItemsLeftAlone, StackLeftAlone DEF StopEvent
<1>2. /\ timers' = timers \ {t} /\ booked' = IF overdue THEN booked ELSE booked \ {t}
      /\ cut' = cut \union ({t.id} \intersect {stack[k].timer : k \in DOMAIN stack})
      /\ UNCHANGED <<stack, lastTimer, age>> /\ UNCHANGED itemVars
  BY DEF StopEvent
<1>3. ScriptsTypeOK'
  BY <1>2 DEF itemVars, ScriptsTypeOK
<1>4. Booked'
  BY <1>2 DEF Booked
<1>5. TimersTrue'
  BY <1>2 DEF TimersTrue
<1> QED BY <1>1, <1>3, <1>4, <1>5

LEMMA ExecuteTimerEventKeeps ==
    ASSUME ScriptsInv, NEW e \in booked, ExecuteTimerEvent(e)
    PROVE  ScriptsInv'
<1> USE ScriptsAssumption DEF ScriptsInv
<1> DEFINE env == NewEnv(e.id)
<1>1. /\ stack = <<>> /\ booked' = booked \ {e}
      /\ stack' = IF \E t \in timers : t.id = e.id THEN <<env>> ELSE stack
      /\ UNCHANGED <<timers, lastTimer, age, cut>> /\ UNCHANGED itemVars
  BY DEF ExecuteTimerEvent
<1>2. e.id \in 0..LastTimer
  BY DEF ScriptsTypeOK, Timer
<1>3. env \in Env /\ env.timer = e.id /\ env.temp = {} /\ \A n \in Names : env.names[n] = NoItem
  BY <1>2, NewEnvTyped
<1> HIDE DEF env
<1>4. Placed' /\ Apart' /\ UniqueTrue' /\ Histories'
  BY <1>1, ItemsLeftAlone
<1>5. DOMAIN stack = {}
  BY <1>1
<1>6. CASE \E t \in timers : t.id = e.id
  <2>1. stack' \in Seq(Env) /\ Len(stack') = 1 /\ DOMAIN stack' = {1} /\ stack'[1] = env
    BY <1>1, <1>3, <1>6
  <2>2. ScriptsTypeOK'
    BY <1>1, <2>1 DEF itemVars, ScriptsTypeOK
  <2>3. Enclosed'
    BY <1>3, <2>1 DEF Enclosed, Listed, Numbers, Own
  <2>4. ItemsOwned'
    BY <1>1, <1>5 DEF itemVars, ItemsOwned
  <2>5. Booked'
    BY <1>1, <2>1 DEF Booked
  <2>6. TimersTrue'
    <3>1. \A t \in timers : t \in booked
      BY <1>5 DEF TimersTrue
    <3> QED BY <1>1, <1>3, <1>6, <2>1, <3>1 DEF TimersTrue
  <2> QED BY <1>4, <2>2, <2>3, <2>4, <2>5, <2>6
<1>7. CASE ~\E t \in timers : t.id = e.id
  <2>1. UNCHANGED stack
    BY <1>1, <1>7
  <2>2. ScriptsTypeOK'
    BY <1>1, <2>1 DEF itemVars, ScriptsTypeOK
  <2>3. Enclosed' /\ ItemsOwned'
    BY <1>1, <2>1, StackLeftAlone
  <2>4. Booked'
    BY <1>1, <2>1 DEF Booked
  <2>5. TimersTrue'
    BY <1>1, <1>7, <2>1 DEF TimersTrue
  <2> QED BY <1>4, <2>2, <2>3, <2>4, <2>5
<1> QED BY <1>6, <1>7

LEMMA ReloadKeeps ==
    ASSUME ScriptsInv, Reload
    PROVE  ScriptsInv'
<1> USE ScriptsAssumption DEF ScriptsInv
<1>1. Placed' /\ Apart' /\ UniqueTrue' /\ Histories' /\ Enclosed' /\ ItemsOwned'
  BY ItemsLeftAlone, StackLeftAlone DEF Reload
<1>2. /\ stack = <<>> /\ timers' = {} /\ age < LastTimer /\ age' = age + 1
      /\ UNCHANGED <<stack, booked, lastTimer, cut>> /\ UNCHANGED itemVars
  BY DEF Reload
<1>3. ScriptsTypeOK'
  BY <1>2 DEF itemVars, ScriptsTypeOK
<1>4. Booked'
  BY <1>2 DEF Booked
<1>5. TimersTrue'
  BY <1>2 DEF TimersTrue
<1> QED BY <1>1, <1>3, <1>4, <1>5
-----------------------------------------------------------------------------
LEMMA ScriptsStart == ScriptsInit => ScriptsInv
<1> SUFFICES ASSUME ScriptsInit PROVE ScriptsInv
  OBVIOUS
<1> USE ScriptsAssumption
<1>1. DOMAIN stack = {}
  BY DEF ScriptsInit
<1>2. ScriptsTypeOK /\ Histories
  BY DEF ScriptsInit, ScriptsTypeOK, Histories
<1>3. Placed /\ Apart /\ UniqueTrue
  BY DEF ScriptsInit, Placed, Apart, UniqueTrue
<1>4. Enclosed /\ Booked /\ TimersTrue
  BY <1>1 DEF ScriptsInit, Enclosed, Booked, TimersTrue
<1>5. ItemsOwned
  BY DEF ScriptsInit, ItemsOwned
<1> QED BY <1>2, <1>3, <1>4, <1>5 DEF ScriptsInv

LEMMA ScriptsStutter == ScriptsInv /\ UNCHANGED scriptVars => ScriptsInv'
<1> SUFFICES ASSUME ScriptsInv, UNCHANGED scriptVars PROVE ScriptsInv'
  OBVIOUS
<1> USE DEF ScriptsInv, scriptVars
<1>1. ScriptsTypeOK' /\ Booked' /\ TimersTrue'
  BY DEF ScriptsTypeOK, Booked, TimersTrue
<1>2. Placed' /\ Apart' /\ UniqueTrue' /\ Histories'
  BY ItemsLeftAlone DEF itemVars
<1>3. Enclosed' /\ ItemsOwned'
  BY StackLeftAlone DEF itemVars
<1> QED BY <1>1, <1>2, <1>3

\* What the scripts have in their lists and know by number, their items, unique ids and
\* timers stay in order whatever they do: luascript.cpp, ScriptEnviroment.
THEOREM ScriptsInductive == ScriptsSpec => []ScriptsInv
<1>1. ScriptsInv /\ [ScriptsNext]_scriptVars => ScriptsInv'
  <2> SUFFICES ASSUME ScriptsInv, ScriptsNext PROVE ScriptsInv'
    BY ScriptsStutter
  <2>1. CASE ReserveEnv
    BY <2>1, ReserveEnvKeeps
  <2>2. CASE ReleaseEnv
    BY <2>2, ReleaseEnvKeeps
  <2>3. CASE Cleanup
    BY <2>3, CleanupKeeps
  <2>4. CASE AddEvent
    BY <2>4, AddEventKeeps
  <2>5. CASE Reload
    BY <2>5, ReloadKeeps
  <2>6. CASE \E i \in Items, tile \in BOOLEAN : Look(i, tile)
    BY <2>6, LookKeeps
  <2>7. CASE \E i \in Items : CreateItemEx(i) \/ CreateMerged(i) \/ Consume(i)
    BY <2>7, CreateItemExKeeps, CreateMergedKeeps, ConsumeKeeps
  <2>8. CASE \E i \in Items, whole \in BOOLEAN : CreateItem(i, whole)
    BY <2>8, CreateItemKeeps
  <2>9. CASE \E n \in Names, container \in BOOLEAN : AddItemEx(n, container) \/ AddMerged(n, container)
    BY <2>9, AddItemExKeeps, AddMergedKeeps
  <2>10. CASE \E n \in Names, j \in Items, container \in BOOLEAN : AddDivided(n, j, container)
    BY <2>10, AddDividedKeeps
  <2>11. CASE \E n \in Names, part \in BOOLEAN : RemoveItem(n, part)
    BY <2>11, RemoveItemKeeps
  <2>12. CASE \E n \in Names, j \in Items \union {NoItem}, crossed \in BOOLEAN : TransformItem(n, j, crossed)
    BY <2>12, TransformItemKeeps
  <2>13. CASE \E i \in Items, u \in Uids : LoadUnique(i, u)
    BY <2>13, LoadUniqueKeeps
  <2>14. CASE \E t \in timers, overdue \in BOOLEAN : StopEvent(t, overdue)
    BY <2>14, StopEventKeeps
  <2>15. CASE \E e \in booked : ExecuteTimerEvent(e)
    BY <2>15, ExecuteTimerEventKeeps
  <2> QED BY <2>1, <2>2, <2>3, <2>4, <2>5, <2>6, <2>7, <2>8, <2>9, <2>10, <2>11, <2>12, <2>13, <2>14,
             <2>15 DEF ScriptsNext
<1> QED BY <1>1, ScriptsStart, PTL DEF ScriptsSpec

\* What a script has created and not placed is released once when it ends, what has been
\* placed stays, an item of the world is found by its unique id unless two items have had
\* the id or a script has removed a part of the item by it, and a timer runs what it was
\* booked for, but for the other cases ItemsOwned and TimersTrue name: luascript.cpp.
THEOREM ScriptsKept == ScriptsSpec => []ScriptsHold
<1>1. ScriptsInv => ScriptsHold
  BY DEF ScriptsInv, ScriptsHold
<1> QED BY <1>1, ScriptsInductive, PTL

-----------------------------------------------------------------------------
(* Rent, bank and furniture.                                               *)

\* Where the furniture is, and who has what money, whichever copy counts.
RoomsOf(b) == [h \in Estate |-> b.estate[h].rooms]
DepotsOf(b) == [p \in Tenants |-> CopyOf(b, p).depot]
BalancesOf(b) == [p \in Tenants |-> CopyOf(b, p).balance]

Settled(r, d) ==
    /\ r \in [Estate -> SUBSET Furniture] /\ d \in [Tenants -> SUBSET Furniture]
    /\ \A x \in Furniture : (\E h \in Estate : x \in r[h]) \/ (\E p \in Tenants : x \in d[p])
    /\ \A x \in Furniture, h, g \in Estate : x \in r[h] /\ x \in r[g] => h = g
    /\ \A x \in Furniture, p, q \in Tenants : x \in d[p] /\ x \in d[q] => p = q
    /\ \A x \in Furniture, h \in Estate, p \in Tenants : ~(x \in r[h] /\ x \in d[p])

House == [owner : Tenants \union {Vacant}, paid : BOOLEAN, warnings : 0..WarningLimit,
          warned : BOOLEAN, rooms : SUBSET Furniture]

SoundBooks(b) ==
    /\ b.player \in [Tenants -> Person] /\ b.disk \in [Tenants -> Person]
    /\ b.estate \in [Estate -> House] /\ b.collected \in Int
    /\ b = [player |-> b.player, disk |-> b.disk, estate |-> b.estate, collected |-> b.collected]
    /\ Settled(RoomsOf(b), DepotsOf(b))

Money(b) == b.collected + SumFunctionOnSet(BalancesOf(b), Tenants)

EstatesInv ==
    /\ EstatesTypeOK /\ wrapped \in BOOLEAN
    /\ SoundBooks(Books) /\ NoMoneyMade
-----------------------------------------------------------------------------
LEMMA AllToDepot ==
    ASSUME NEW r, NEW d, Settled(r, d), NEW h \in Estate, NEW p \in Tenants
    PROVE  Settled([r EXCEPT ![h] = {}], [d EXCEPT ![p] = @ \union r[h]])
BY DEF Settled

LEMMA IntoHouse ==
    ASSUME NEW r, NEW d, Settled(r, d), NEW h \in Estate, NEW p \in Tenants, NEW x \in d[p]
    PROVE  Settled([r EXCEPT ![h] = @ \union {x}], [d EXCEPT ![p] = @ \ {x}])
BY DEF Settled

LEMMA OutOfHouse ==
    ASSUME NEW r, NEW d, Settled(r, d), NEW h \in Estate, NEW p \in Tenants, NEW x \in r[h]
    PROVE  Settled([r EXCEPT ![h] = @ \ {x}], [d EXCEPT ![p] = @ \union {x}])
BY DEF Settled

LEMMA OnePlaceEach ==
    ASSUME Settled(RoomsOf(Books), DepotsOf(Books)) PROVE FurnitureKept
<1> SUFFICES ASSUME NEW x \in Furniture
             PROVE  Cardinality({h \in Estate : x \in estate[h].rooms})
                      + Cardinality({p \in Tenants : x \in CopyOf(Books, p).depot}) = 1
  BY DEF FurnitureKept
<1> DEFINE H == {h \in Estate : x \in estate[h].rooms}
           P == {p \in Tenants : x \in CopyOf(Books, p).depot}
<1>1. \A h \in Estate : h \in H <=> x \in RoomsOf(Books)[h]
  BY DEF RoomsOf, Books
<1>2. \A p \in Tenants : p \in P <=> x \in DepotsOf(Books)[p]
  BY DEF DepotsOf
<1>3. H \subseteq Estate /\ P \subseteq Tenants
  OBVIOUS
<1> HIDE DEF H, P
<1>4. (\E h : H = {h} /\ P = {}) \/ (\E p : H = {} /\ P = {p})
  <2>1. CASE \E h \in Estate : h \in H
    BY <1>1, <1>2, <1>3, <2>1 DEF Settled
  <2>2. CASE \E p \in Tenants : p \in P
    <3>1. PICK p \in Tenants : p \in P
      BY <2>2
    <3>2. \A h \in Estate : h \notin H
      BY <1>1, <1>2, <3>1 DEF Settled
    <3>3. \A q \in Tenants : q \in P => q = p
      BY <1>2, <3>1 DEF Settled
    <3> QED BY <1>3, <3>1, <3>2, <3>3
  <2> QED BY <1>1, <1>2, <2>1, <2>2 DEF Settled
<1>5. Cardinality(H) + Cardinality(P) = 1
  <2>1. Cardinality({}) = 0 /\ \A y : Cardinality({y}) = 1
    BY FS_Singleton, FS_EmptySet
  <2>2. (Cardinality(H) = 1 /\ Cardinality(P) = 0) \/ (Cardinality(H) = 0 /\ Cardinality(P) = 1)
    BY <1>4, <2>1, Zenon
  <2> QED BY <2>2
<1> QED BY <1>5 DEF H, P
-----------------------------------------------------------------------------
\* The copy of p is c, and nothing else is different.
Kept(k, b, p, c) ==
    /\ k.player \in [Tenants -> Person] /\ k.disk \in [Tenants -> Person]
    /\ k.estate = b.estate /\ k.collected = b.collected
    /\ k = [player |-> k.player, disk |-> k.disk, estate |-> k.estate, collected |-> k.collected]
    /\ CopyOf(k, p) = c /\ \A q \in Tenants : q # p => CopyOf(k, q) = CopyOf(b, q)
    /\ RoomsOf(k) = RoomsOf(b)
    /\ DepotsOf(k) = [DepotsOf(b) EXCEPT ![p] = c.depot]
    /\ BalancesOf(k) = [BalancesOf(b) EXCEPT ![p] = c.balance]

LEMMA KeepSound ==
    ASSUME NEW b, SoundBooks(b), NEW p \in Tenants, NEW c \in Person
    PROVE  Kept(Keep(b, p, c), b, p, c)
<1> DEFINE k == Keep(b, p, c)
<1>1. /\ k.player \in [Tenants -> Person] /\ k.disk \in [Tenants -> Person]
      /\ k.estate = b.estate /\ k.collected = b.collected
      /\ k = [player |-> k.player, disk |-> k.disk, estate |-> k.estate, collected |-> k.collected]
      /\ CopyOf(k, p) = c /\ \A q \in Tenants : q # p => CopyOf(k, q) = CopyOf(b, q)
  <2>1. CASE p \in logged
    BY <2>1 DEF Keep, CopyOf, SoundBooks
  <2>2. CASE p \notin logged
    BY <2>2 DEF Keep, CopyOf, SoundBooks
  <2> QED BY <2>1, <2>2
<1> HIDE DEF k
<1>2. RoomsOf(k) = RoomsOf(b)
  BY <1>1 DEF RoomsOf
<1>3. \A q \in Tenants : CopyOf(k, q) = IF q = p THEN c ELSE CopyOf(b, q)
  BY <1>1
<1>4. DepotsOf(k) = [DepotsOf(b) EXCEPT ![p] = c.depot]
  BY <1>3 DEF DepotsOf
<1>5. BalancesOf(k) = [BalancesOf(b) EXCEPT ![p] = c.balance]
  BY <1>3 DEF BalancesOf
<1> QED BY <1>1, <1>2, <1>4, <1>5 DEF k, Kept

LEMMA CopyType ==
    ASSUME NEW b, SoundBooks(b), NEW p \in Tenants
    PROVE  /\ CopyOf(b, p) \in Person
           /\ CopyOf(b, p) = [balance |-> BalancesOf(b)[p], depot |-> DepotsOf(b)[p]]
           /\ BalancesOf(b)[p] \in 0..(BalanceLimit - 1) /\ BalancesOf(b)[p] \in Int
           /\ DepotsOf(b)[p] \subseteq Furniture
<1>1. CopyOf(b, p) \in Person
  BY DEF CopyOf, SoundBooks
<1>2. BalancesOf(b)[p] = CopyOf(b, p).balance /\ DepotsOf(b)[p] = CopyOf(b, p).depot
  BY DEF BalancesOf, DepotsOf
<1>3. BalanceLimit \in Nat
  BY EstatesAssumption
<1> QED BY <1>1, <1>2, <1>3 DEF Person

LEMMA MoneyChanged ==
    ASSUME NEW b, SoundBooks(b), NEW p \in Tenants, NEW k, NEW v \in Int,
           BalancesOf(k) = [BalancesOf(b) EXCEPT ![p] = v]
    PROVE  /\ SumFunctionOnSet(BalancesOf(k), Tenants)
                = SumFunctionOnSet(BalancesOf(b), Tenants) - BalancesOf(b)[p] + v
           /\ SumFunctionOnSet(BalancesOf(b), Tenants) \in Int
           /\ BalancesOf(b)[p] \in Int
<1>1. IsFiniteSet(Tenants)
  BY EstatesAssumption
<1>2. \A q \in Tenants : BalancesOf(b)[q] \in Int
  BY CopyType
<1>3. BalancesOf(k)[p] = v /\ \A q \in Tenants : q # p => BalancesOf(k)[q] = BalancesOf(b)[q]
  BY DEF BalancesOf
<1>4. SumFunctionOnSet(BalancesOf(b), Tenants) \in Int
  BY <1>1, <1>2, SumType
<1>5. SumFunctionOnSet(BalancesOf(k), Tenants)
        = SumFunctionOnSet(BalancesOf(b), Tenants) - BalancesOf(b)[p] + BalancesOf(k)[p]
  <2>1. PICK f : f = BalancesOf(b)
    OBVIOUS
  <2>2. PICK g : g = BalancesOf(k)
    OBVIOUS
  <2>3. g[p] \in Int /\ \A q \in Tenants : f[q] \in Int /\ (q # p => g[q] = f[q])
    BY <1>2, <1>3, <2>1, <2>2
  <2>4. SumFunctionOnSet(g, Tenants) = SumFunctionOnSet(f, Tenants) - f[p] + g[p]
    BY <1>1, <2>3, SumChanged
  <2> QED BY <2>1, <2>2, <2>4
<1> QED BY <1>2, <1>3, <1>4, <1>5

\* Changes of a house alone.
SetHouse(b, h, e) == [b EXCEPT !.estate[h] = e]

Altered(k, b, h, e) ==
    /\ k.player = b.player /\ k.disk = b.disk /\ k.collected = b.collected
    /\ k.estate \in [Estate -> House] /\ k.estate[h] = e
    /\ \A g \in Estate : g # h => k.estate[g] = b.estate[g]
    /\ k = [player |-> k.player, disk |-> k.disk, estate |-> k.estate, collected |-> k.collected]
    /\ RoomsOf(k) = [RoomsOf(b) EXCEPT ![h] = e.rooms]
    /\ DepotsOf(k) = DepotsOf(b) /\ BalancesOf(k) = BalancesOf(b)

LEMMA HouseSet ==
    ASSUME NEW b, b.estate \in [Estate -> House], NEW h \in Estate, NEW e \in House,
           b = [player |-> b.player, disk |-> b.disk, estate |-> b.estate, collected |-> b.collected]
    PROVE  Altered(SetHouse(b, h, e), b, h, e)
<1> DEFINE k == SetHouse(b, h, e)
<1>1. /\ k.player = b.player /\ k.disk = b.disk /\ k.collected = b.collected
      /\ k.estate = [b.estate EXCEPT ![h] = e]
      /\ k = [player |-> k.player, disk |-> k.disk, estate |-> k.estate, collected |-> k.collected]
  BY DEF SetHouse
<1> HIDE DEF k
<1>2. /\ k.estate \in [Estate -> House] /\ k.estate[h] = e
      /\ \A g \in Estate : g # h => k.estate[g] = b.estate[g]
  BY <1>1
<1>3. RoomsOf(k) = [RoomsOf(b) EXCEPT ![h] = e.rooms]
  BY <1>2 DEF RoomsOf
<1>4. DepotsOf(k) = DepotsOf(b) /\ BalancesOf(k) = BalancesOf(b)
  BY <1>1 DEF DepotsOf, BalancesOf, CopyOf
<1> QED BY <1>1, <1>2, <1>3, <1>4 DEF k, Altered
-----------------------------------------------------------------------------
(* The rent.                                                               *)

\* The same furniture in other hands is still in one place each; the money is the same.
AsSound(k, b) == SoundBooks(k) /\ Money(k) = Money(b)

LEMMA DepotSound ==
    ASSUME NEW b, SoundBooks(b), NEW h \in Estate, b.estate[h].owner # Vacant
    PROVE  LET k == TransferToDepot(b, h)
           IN  /\ AsSound(k, b) /\ k.collected = b.collected
               /\ k.estate[h].owner = b.estate[h].owner
               /\ k.estate[h] \in House
<1>1. PICK e \in House : e = b.estate[h]
  BY DEF SoundBooks
<1>2. PICK p \in Tenants : p = e.owner
  BY <1>1 DEF House
<1>3. PICK c : c = [CopyOf(b, p) EXCEPT !.depot = @ \union e.rooms]
  OBVIOUS
<1>4. /\ c \in Person /\ c.balance = BalancesOf(b)[p]
      /\ c.depot = DepotsOf(b)[p] \union RoomsOf(b)[h]
  <2>1. e.rooms \subseteq Furniture /\ RoomsOf(b)[h] = e.rooms
    BY <1>1 DEF House, RoomsOf
  <2> QED BY <1>3, <2>1, CopyType DEF Person
<1>5. PICK k : k = Keep(b, p, c)
  OBVIOUS
<1>20. Kept(k, b, p, c)
  BY <1>4, <1>5, KeepSound
<1>6. /\ k.player \in [Tenants -> Person] /\ k.disk \in [Tenants -> Person]
      /\ k.estate = b.estate /\ k.collected = b.collected
      /\ k = [player |-> k.player, disk |-> k.disk, estate |-> k.estate, collected |-> k.collected]
      /\ RoomsOf(k) = RoomsOf(b)
      /\ DepotsOf(k) = [DepotsOf(b) EXCEPT ![p] = c.depot]
      /\ BalancesOf(k) = [BalancesOf(b) EXCEPT ![p] = c.balance]
  BY <1>20 DEF Kept
<1>7. PICK e2 : e2 = [e EXCEPT !.rooms = {}]
  OBVIOUS
<1>8. e2 \in House /\ e2.rooms = {} /\ e2.owner = e.owner
  BY <1>1, <1>7 DEF House
<1>9. PICK m : m = SetHouse(k, h, e2)
  OBVIOUS
<1>10. TransferToDepot(b, h) = m
  <2>1. TransferToDepot(b, h) = [k EXCEPT !.estate[h].rooms = {}]
    BY <1>1, <1>2, <1>3, <1>5 DEF TransferToDepot
  <2>2. k.estate[h] = e
    BY <1>1, <1>6
  <2>3. [k EXCEPT !.estate[h].rooms = {}] = [k EXCEPT !.estate[h] = e2]
    BY <1>6, <1>7, <2>2
  <2> QED BY <1>9, <2>1, <2>3 DEF SetHouse
<1>21. Altered(m, k, h, e2)
  <2>1. k.estate \in [Estate -> House]
    BY <1>6 DEF SoundBooks
  <2> QED BY <1>6, <1>8, <1>9, <2>1, HouseSet
<1>11. /\ m.player = k.player /\ m.disk = k.disk /\ m.collected = k.collected
       /\ m.estate \in [Estate -> House] /\ m.estate[h] = e2
       /\ m = [player |-> m.player, disk |-> m.disk, estate |-> m.estate, collected |-> m.collected]
       /\ RoomsOf(m) = [RoomsOf(k) EXCEPT ![h] = e2.rooms]
       /\ DepotsOf(m) = DepotsOf(k) /\ BalancesOf(m) = BalancesOf(k)
  BY <1>21 DEF Altered
<1>12. Settled(RoomsOf(m), DepotsOf(m))
  <2>1. RoomsOf(m) = [RoomsOf(b) EXCEPT ![h] = {}]
    BY <1>6, <1>8, <1>11
  <2>2. DepotsOf(m) = [DepotsOf(b) EXCEPT ![p] = @ \union RoomsOf(b)[h]]
    BY <1>4, <1>6, <1>11
  <2>3. Settled(RoomsOf(b), DepotsOf(b))
    BY DEF SoundBooks
  <2>4. Settled([RoomsOf(b) EXCEPT ![h] = {}], [DepotsOf(b) EXCEPT ![p] = @ \union RoomsOf(b)[h]])
    BY <2>3, AllToDepot
  <2> QED BY <2>1, <2>2, <2>4
<1>13. Money(m) = Money(b)
  <2>1. BalancesOf(m) = [BalancesOf(b) EXCEPT ![p] = BalancesOf(b)[p]]
    BY <1>4, <1>6, <1>11
  <2>2. BalancesOf(m) = BalancesOf(b)
    BY <2>1 DEF BalancesOf
  <2> QED BY <1>6, <1>11, <2>2 DEF Money
<1>14. SoundBooks(m)
  BY <1>6, <1>11, <1>12 DEF SoundBooks
<1> QED BY <1>1, <1>6, <1>8, <1>10, <1>11, <1>13, <1>14 DEF AsSound

LEMMA SetOwnerSound ==
    ASSUME NEW b, SoundBooks(b), NEW h \in Estate, NEW guid \in Tenants \union {Vacant}
    PROVE  AsSound(SetOwner(b, h, guid), b)
<1>1. PICK c : c = IF b.estate[h].owner = Vacant THEN b ELSE TransferToDepot(b, h)
  OBVIOUS
<1>2. AsSound(c, b) /\ c.estate[h] \in House
  <2>1. b.estate[h] \in House
    BY DEF SoundBooks
  <2> QED BY <1>1, <2>1, DepotSound DEF AsSound
<1>3. CASE b.estate[h].owner = guid
  BY <1>3 DEF SetOwner, AsSound
<1>4. CASE b.estate[h].owner # guid
  <2>1. PICK e : e = [c.estate[h] EXCEPT !.owner = guid, !.paid = FALSE, !.warnings = 0, !.warned = TRUE]
    OBVIOUS
  <2>2. e \in House /\ e.rooms = c.estate[h].rooms
    <3>1. WarningLimit \in Nat
      BY EstatesAssumption
    <3>2. PICK x \in House : x = c.estate[h]
      BY <1>2
    <3>3. /\ e = [owner |-> guid, paid |-> FALSE, warnings |-> 0, warned |-> TRUE, rooms |-> x.rooms]
          /\ x.rooms \subseteq Furniture
      BY <2>1, <3>2 DEF House
    <3>4. e \in House /\ e.rooms = x.rooms
      BY ONLY <3>1, <3>3 DEF House
    <3> QED BY <3>2, <3>4
  <2>3. SetOwner(b, h, guid) = SetHouse(c, h, e)
    BY <1>1, <1>4, <2>1 DEF SetOwner, SetHouse
  <2>4. PICK m : m = SetHouse(c, h, e)
    OBVIOUS
  <2>5. SoundBooks(c)
    BY <1>2 DEF AsSound
  <2>20. Altered(m, c, h, e)
    <3>1. /\ c.estate \in [Estate -> House]
          /\ c = [player |-> c.player, disk |-> c.disk, estate |-> c.estate, collected |-> c.collected]
      BY <2>5 DEF SoundBooks
    <3> QED BY <2>2, <2>4, <3>1, HouseSet
  <2>6. /\ m.player = c.player /\ m.disk = c.disk /\ m.collected = c.collected
        /\ m.estate \in [Estate -> House]
        /\ m = [player |-> m.player, disk |-> m.disk, estate |-> m.estate, collected |-> m.collected]
        /\ RoomsOf(m) = [RoomsOf(c) EXCEPT ![h] = e.rooms]
        /\ DepotsOf(m) = DepotsOf(c) /\ BalancesOf(m) = BalancesOf(c)
    BY <2>20 DEF Altered
  <2>7. RoomsOf(m) = RoomsOf(c)
    BY <2>2, <2>6 DEF RoomsOf
  <2>8. SoundBooks(m) /\ Money(m) = Money(c)
    BY <2>5, <2>6, <2>7 DEF SoundBooks, Money
  <2> QED BY <1>2, <2>3, <2>4, <2>8 DEF AsSound
<1> QED BY <1>3, <1>4

LEMMA PayingSound ==
    ASSUME NEW b, SoundBooks(b), NEW h \in Estate, b.estate[h].owner # Vacant, Pays(b, h)
    PROVE  AsSound(Paying(b, h), b)
<1>1. PICK e \in House : e = b.estate[h]
  BY DEF SoundBooks
<1>2. PICK p \in Tenants : p = e.owner
  BY <1>1 DEF House
<1>3. PICK c : c = [CopyOf(b, p) EXCEPT !.balance = @ - Rent[h]]
  OBVIOUS
<1>4. /\ c \in Person /\ c.balance = BalancesOf(b)[p] - Rent[h] /\ c.balance \in Int
      /\ c.depot = DepotsOf(b)[p] /\ Rent[h] \in Nat
  <2>1. Rent[h] \in Nat /\ Rent[h] # 0 /\ BalanceLimit \in Nat
    BY EstatesAssumption
  <2>2. BalancesOf(b)[p] >= Rent[h]
    BY <1>1, <1>2, CopyType DEF Pays
  <2>3. BalancesOf(b)[p] - Rent[h] \in 0..(BalanceLimit - 1)
    BY <2>1, <2>2, CopyType
  <2>4. c = [balance |-> BalancesOf(b)[p] - Rent[h], depot |-> DepotsOf(b)[p]]
    BY <1>3, CopyType
  <2> QED BY <2>1, <2>3, <2>4, CopyType DEF Person
<1>5. PICK k : k = Keep(b, p, c)
  OBVIOUS
<1>20. Kept(k, b, p, c)
  BY <1>4, <1>5, KeepSound
<1>6. /\ k.player \in [Tenants -> Person] /\ k.disk \in [Tenants -> Person]
      /\ k.estate = b.estate /\ k.collected = b.collected
      /\ k = [player |-> k.player, disk |-> k.disk, estate |-> k.estate, collected |-> k.collected]
      /\ RoomsOf(k) = RoomsOf(b)
      /\ DepotsOf(k) = [DepotsOf(b) EXCEPT ![p] = c.depot]
      /\ BalancesOf(k) = [BalancesOf(b) EXCEPT ![p] = c.balance]
  BY <1>20 DEF Kept
<1>7. PICK e2 : e2 = [e EXCEPT !.paid = TRUE]
  OBVIOUS
<1>8. e2 \in House /\ e2.rooms = e.rooms
  BY <1>1, <1>7 DEF House
<1>9. PICK m : m = SetHouse(k, h, e2)
  OBVIOUS
<1>21. Altered(m, k, h, e2)
  <2>1. k.estate \in [Estate -> House]
    BY <1>6 DEF SoundBooks
  <2> QED BY <1>6, <1>8, <1>9, <2>1, HouseSet
<1>10. /\ m.player = k.player /\ m.disk = k.disk /\ m.collected = k.collected
       /\ m.estate \in [Estate -> House]
       /\ m = [player |-> m.player, disk |-> m.disk, estate |-> m.estate, collected |-> m.collected]
       /\ RoomsOf(m) = [RoomsOf(k) EXCEPT ![h] = e2.rooms]
       /\ DepotsOf(m) = DepotsOf(k) /\ BalancesOf(m) = BalancesOf(k)
  BY <1>21 DEF Altered
<1>11. PICK n : n = [m EXCEPT !.collected = @ + Rent[h]]
  OBVIOUS
<1>12. n = Paying(b, h)
  <2>1. Paying(b, h) = [k EXCEPT !.estate[h].paid = TRUE, !.collected = @ + Rent[h]]
    BY <1>1, <1>2, <1>3, <1>5 DEF Paying
  <2>2. k.estate[h] = e
    BY <1>1, <1>6
  <2>3. m = [k EXCEPT !.estate[h] = e2]
    BY <1>9 DEF SetHouse
  <2> QED BY <1>6, <1>7, <1>11, <2>1, <2>2, <2>3
<1>13. /\ n.player = m.player /\ n.disk = m.disk /\ n.collected = m.collected + Rent[h]
       /\ n.estate = m.estate
       /\ n = [player |-> n.player, disk |-> n.disk, estate |-> n.estate, collected |-> n.collected]
  BY <1>10, <1>11
<1>14. RoomsOf(n) = RoomsOf(m) /\ DepotsOf(n) = DepotsOf(m) /\ BalancesOf(n) = BalancesOf(m)
  BY <1>13 DEF RoomsOf, DepotsOf, BalancesOf, CopyOf
<1>15. RoomsOf(n) = RoomsOf(b) /\ DepotsOf(n) = DepotsOf(b)
  <2>1. RoomsOf(b)[h] = e.rooms /\ RoomsOf(n) = [RoomsOf(b) EXCEPT ![h] = e.rooms]
    BY <1>1, <1>6, <1>8, <1>10, <1>14 DEF RoomsOf
  <2>2. DepotsOf(n) = [DepotsOf(b) EXCEPT ![p] = DepotsOf(b)[p]]
    BY <1>4, <1>6, <1>10, <1>14
  <2>3. RoomsOf(n) = RoomsOf(b)
    BY <2>1 DEF RoomsOf
  <2> QED BY <2>2, <2>3 DEF DepotsOf
<1>16. b.collected \in Int
  BY DEF SoundBooks
<1>17. SoundBooks(n)
  BY <1>4, <1>6, <1>10, <1>13, <1>15, <1>16 DEF SoundBooks
<1>18. Money(n) = Money(b)
  <2>1. BalancesOf(n) = [BalancesOf(b) EXCEPT ![p] = c.balance]
    BY <1>6, <1>10, <1>14
  <2>2. /\ SumFunctionOnSet(BalancesOf(n), Tenants)
             = SumFunctionOnSet(BalancesOf(b), Tenants) - BalancesOf(b)[p] + c.balance
        /\ SumFunctionOnSet(BalancesOf(b), Tenants) \in Int /\ BalancesOf(b)[p] \in Int
    BY <1>4, <2>1, MoneyChanged
  <2> QED BY <1>4, <1>6, <1>10, <1>13, <1>16, <2>2 DEF Money
<1> QED BY <1>12, <1>17, <1>18 DEF AsSound

LEMMA WarningSound ==
    ASSUME NEW b, SoundBooks(b), NEW h \in Estate, ~(b.estate[h].warnings >= WarningLimit)
    PROVE  AsSound(Warning(b, h), b)
<1>1. PICK e : e = [b.estate[h] EXCEPT !.warnings = @ + 1, !.warned = TRUE]
  OBVIOUS
<1>2. e \in House /\ e.rooms = b.estate[h].rooms
  <2>1. b.estate[h] \in House /\ WarningLimit \in Nat
    BY EstatesAssumption DEF SoundBooks
  <2>2. PICK x \in House : x = b.estate[h]
    BY <2>1
  <2>3. x.warnings \in 0..WarningLimit /\ ~(x.warnings >= WarningLimit)
    BY <2>2 DEF House
  <2>4. x.warnings + 1 \in 0..WarningLimit
    BY <2>1, <2>3
  <2>5. e = [owner |-> x.owner, paid |-> x.paid, warnings |-> x.warnings + 1, warned |-> TRUE, rooms |-> x.rooms]
    BY <1>1, <2>2 DEF House
  <2> QED BY <2>2, <2>4, <2>5 DEF House
<1>3. PICK m : m = SetHouse(b, h, e)
  OBVIOUS
<1>20. Altered(m, b, h, e)
  <2>1. /\ b.estate \in [Estate -> House]
        /\ b = [player |-> b.player, disk |-> b.disk, estate |-> b.estate, collected |-> b.collected]
    BY DEF SoundBooks
  <2> QED BY <1>2, <1>3, <2>1, HouseSet
<1>4. /\ m.player = b.player /\ m.disk = b.disk /\ m.collected = b.collected
      /\ m.estate \in [Estate -> House]
      /\ m = [player |-> m.player, disk |-> m.disk, estate |-> m.estate, collected |-> m.collected]
      /\ RoomsOf(m) = [RoomsOf(b) EXCEPT ![h] = e.rooms]
      /\ DepotsOf(m) = DepotsOf(b) /\ BalancesOf(m) = BalancesOf(b)
  BY <1>20 DEF Altered
<1>5. RoomsOf(m) = RoomsOf(b)
  BY <1>2, <1>4 DEF RoomsOf
<1>6. SoundBooks(m) /\ Money(m) = Money(b)
  BY <1>4, <1>5 DEF SoundBooks, Money
<1> QED BY <1>1, <1>3, <1>6 DEF AsSound, Warning, SetHouse

LEMMA PayHouseSound ==
    ASSUME NEW b, SoundBooks(b), NEW h \in Estate
    PROVE  AsSound(PayHouse(b, h), b)
<1>1. AsSound(b, b)
  BY DEF AsSound
<1>2. AsSound(Evicted(b, h), b)
  BY SetOwnerSound DEF Evicted
<1>3. b.estate[h].owner # Vacant /\ Pays(b, h) => AsSound(Paying(b, h), b)
  BY PayingSound
<1>4. ~(b.estate[h].warnings >= WarningLimit) => AsSound(Warning(b, h), b)
  BY WarningSound
<1> QED BY <1>1, <1>2, <1>3, <1>4 DEF PayHouse

\* The houses are in some order, and each is one of them.
HighestId(hs) == CHOOSE x \in hs : \A y \in hs : y <= x

LEMMA TopIsOne ==
    ASSUME NEW hs \in SUBSET Estate, hs # {} PROVE HighestId(hs) \in hs
<1> DEFINE HasTop(s) == \E x \in s : \A y \in s : y <= x
           Bad == {n \in Nat : \E s \in SUBSET Estate : s # {} /\ Cardinality(s) = n /\ ~HasTop(s)}
<1>1. IsFiniteSet(Estate) /\ Estate \subseteq Nat
  BY EstatesAssumption
<1>2. \A s \in SUBSET Estate : Cardinality(s) \in Nat /\ (s = {} <=> Cardinality(s) = 0)
  BY <1>1, FS_Subset, FS_CardinalityType, FS_EmptySet
<1>3. 0 \notin Bad
  BY <1>2
<1>4. ASSUME NEW n \in Nat, n + 1 \in Bad PROVE n \in Bad
  <2>1. PICK s \in SUBSET Estate : s # {} /\ Cardinality(s) = n + 1 /\ ~HasTop(s)
    BY <1>4
  <2>2. PICK x \in s : TRUE
    BY <2>1
  <2>3. Cardinality(s \ {x}) = n /\ s \ {x} \in SUBSET Estate
    <3>1. Cardinality(s \ {x}) = Cardinality(s) - 1
      BY <1>1, <2>1, FirstOut
    <3> QED BY <2>1, <3>1
  <2>4. s \ {x} # {}
    BY <1>1, <2>1
  <2>5. ~HasTop(s \ {x})
    <3>1. SUFFICES ASSUME NEW m \in s \ {x}, \A y \in s \ {x} : y <= m PROVE FALSE
      OBVIOUS
    <3>2. m \in Nat /\ x \in Nat /\ \A y \in s : y \in Nat
      BY <1>1
    <3>3. CASE x <= m
      BY <2>1, <3>1, <3>3
    <3>4. CASE m <= x
      BY <2>1, <3>1, <3>2, <3>4
    <3> QED BY <3>2, <3>3, <3>4
  <2> QED BY <2>3, <2>4, <2>5
<1>5. Bad = {}
  BY <1>3, <1>4, NoLeast
<1>6. HasTop(hs)
  BY <1>2, <1>5
<1> QED BY <1>6 DEF HighestId

IsRound(f, b) ==
    f = [hs \in SUBSET Estate |-> IF hs = {} THEN b ELSE PayHouse(f[hs \ {HighestId(hs)}], HighestId(hs))]

LEMMA RoundIsLoop ==
    ASSUME NEW b PROVE PayHouses(b) = (CHOOSE f : IsRound(f, b))[Estate]
BY DEF PayHouses, IsRound, HighestId

LEMMA TopOut ==
    ASSUME NEW hs \in SUBSET Estate, hs # {}
    PROVE  /\ HighestId(hs) \in Estate /\ hs \ {HighestId(hs)} \in SUBSET Estate
           /\ Cardinality(hs \ {HighestId(hs)}) = Cardinality(hs) - 1
<1>1. IsFiniteSet(Estate)
  BY EstatesAssumption
<1>2. HighestId(hs) \in hs
  BY TopIsOne
<1> QED BY <1>1, <1>2, FirstOut

LEMMA RoundExists ==
    ASSUME NEW b PROVE \E f : IsRound(f, b)
<1> DEFINE Small(n) == {s \in SUBSET Estate : Cardinality(s) <= n}
           Upto(g, n) == g = [s \in Small(n) |-> IF s = {} THEN b ELSE PayHouse(g[s \ {HighestId(s)}], HighestId(s))]
           Bad == {n \in Nat : ~ \E g : Upto(g, n)}
<1>0. IsFiniteSet(Estate)
  BY EstatesAssumption
<1>1. \A s \in SUBSET Estate : Cardinality(s) \in Nat /\ (s = {} <=> Cardinality(s) = 0)
  BY <1>0, FS_Subset, FS_CardinalityType, FS_EmptySet
<1>2. 0 \notin Bad
  <2>1. Small(0) = {{}}
    BY <1>1
  <2> DEFINE g == [s \in Small(0) |-> b]
  <2>2. Upto(g, 0)
    BY <2>1
  <2> QED BY <2>2
<1>3. ASSUME NEW n \in Nat, n + 1 \in Bad PROVE n \in Bad
  <2>1. SUFFICES ASSUME NEW g, Upto(g, n) PROVE FALSE
    OBVIOUS
  <2> DEFINE h == [s \in Small(n + 1) |-> IF s = {} THEN b ELSE PayHouse(g[s \ {HighestId(s)}], HighestId(s))]
  <2>2. \A s \in Small(n + 1) : s # {} => s \ {HighestId(s)} \in Small(n)
    BY <1>1, TopOut
  <2>3. \A s \in Small(n) : s \in Small(n + 1)
    BY <1>1
  <2>4. \A s \in Small(n) : g[s] = IF s = {} THEN b ELSE PayHouse(g[s \ {HighestId(s)}], HighestId(s))
    BY <2>1
  <2> HIDE DEF Small
  <2>5. \A s \in Small(n) : h[s] = g[s]
    BY <2>3, <2>4
  <2>6. \A s \in Small(n + 1) :
            h[s] = IF s = {} THEN b ELSE PayHouse(h[s \ {HighestId(s)}], HighestId(s))
    BY <2>2, <2>5
  <2>7. Upto(h, n + 1)
    BY <2>6
  <2> QED BY <1>3, <2>7
<1> HIDE DEF Upto
<1>4. Bad = {}
  BY <1>2, <1>3, NoLeast
<1>5. Cardinality(Estate) \in Nat
  BY <1>0, FS_CardinalityType
<1>6. PICK g : Upto(g, Cardinality(Estate))
  BY <1>4, <1>5
<1>7. Small(Cardinality(Estate)) = SUBSET Estate
  BY <1>0, FS_Subset
<1> HIDE DEF Small
<1> QED BY <1>6, <1>7 DEF Upto, IsRound

\* The round of the rent.
LEMMA PayHousesSound ==
    ASSUME NEW b, SoundBooks(b) PROVE AsSound(PayHouses(b), b)
<1>1. PICK f : IsRound(f, b) /\ PayHouses(b) = f[Estate]
  <2> DEFINE f == CHOOSE k : IsRound(k, b)
  <2>1. IsRound(f, b)
    BY RoundExists
  <2> QED BY <2>1, RoundIsLoop
<1> DEFINE Bad == {n \in Nat : \E s \in SUBSET Estate : Cardinality(s) = n /\ ~AsSound(f[s], b)}
<1>2. \A s \in SUBSET Estate : Cardinality(s) \in Nat /\ (s = {} <=> Cardinality(s) = 0)
  BY EstatesAssumption, FS_Subset, FS_CardinalityType, FS_EmptySet
<1>3. \A s \in SUBSET Estate : f[s] = IF s = {} THEN b ELSE PayHouse(f[s \ {HighestId(s)}], HighestId(s))
  BY <1>1 DEF IsRound
<1>4. 0 \notin Bad
  <2>1. AsSound(f[{}], b)
    BY <1>3 DEF AsSound
  <2> QED BY <1>2, <2>1
<1>5. ASSUME NEW n \in Nat, n + 1 \in Bad PROVE n \in Bad
  <2>1. PICK s \in SUBSET Estate : Cardinality(s) = n + 1 /\ ~AsSound(f[s], b)
    BY <1>5
  <2>2. s # {}
    BY <1>2, <2>1
  <2>3. PICK h : h = HighestId(s)
    OBVIOUS
  <2>4. h \in Estate /\ s \ {h} \in SUBSET Estate /\ Cardinality(s \ {h}) = Cardinality(s) - 1
    BY <2>2, <2>3, TopOut
  <2>5. Cardinality(s \ {h}) = n
    BY <2>1, <2>4
  <2>6. PICK k : k = f[s \ {h}]
    OBVIOUS
  <2>7. f[s] = PayHouse(k, h)
    BY <1>3, <2>2, <2>3, <2>6
  <2>8. SoundBooks(k) => AsSound(PayHouse(k, h), k)
    BY <2>4, PayHouseSound
  <2>9. ~AsSound(k, b)
    BY <2>1, <2>7, <2>8 DEF AsSound
  <2> QED BY <2>4, <2>5, <2>6, <2>9
<1>6. Bad = {}
  BY <1>4, <1>5, NoLeast
<1>7. AsSound(f[Estate], b)
  BY <1>2, <1>6
<1> QED BY <1>1, <1>7
-----------------------------------------------------------------------------
(* The steps.                                                              *)

LEMMA EstatesAtFirst == EstatesInit => EstatesInv
<1> SUFFICES ASSUME EstatesInit PROVE EstatesInv
  OBVIOUS
<1>1. /\ BalanceLimit \in Nat /\ BalanceLimit # 0 /\ WarningLimit \in Nat
      /\ Wealth \in [Tenants -> 0..(BalanceLimit - 1)] /\ Home \in [Furniture -> Tenants]
  BY EstatesAssumption
<1>2. /\ logged = {} /\ player = disk /\ collected = 0 /\ wrapped = FALSE
      /\ disk = [p \in Tenants |-> [balance |-> Wealth[p], depot |-> {x \in Furniture : Home[x] = p}]]
      /\ estate = [h \in Estate |-> [owner |-> Vacant, paid |-> FALSE, warnings |-> 0, warned |-> FALSE, rooms |-> {}]]
  BY DEF EstatesInit
<1>3. disk \in [Tenants -> Person]
  BY <1>1, <1>2 DEF Person
<1>4. estate \in [Estate -> House]
  BY <1>1, <1>2 DEF House
<1>5. EstatesTypeOK
  BY <1>2, <1>3, <1>4 DEF EstatesTypeOK, House
<1>6. /\ Books.player = player /\ Books.disk = disk /\ Books.estate = estate /\ Books.collected = 0
      /\ \A p \in Tenants : CopyOf(Books, p) = disk[p]
  BY <1>2 DEF Books, CopyOf
<1>7. RoomsOf(Books) = [h \in Estate |-> {}]
  BY <1>2, <1>6 DEF RoomsOf
<1>8. DepotsOf(Books) = [p \in Tenants |-> {x \in Furniture : Home[x] = p}]
  BY <1>2, <1>6 DEF DepotsOf
<1>9. \A p \in Tenants : BalancesOf(Books)[p] = Wealth[p]
  BY <1>2, <1>6 DEF BalancesOf
<1>10. Settled(RoomsOf(Books), DepotsOf(Books))
  <2>1. \A x \in Furniture : Home[x] \in Tenants
    BY <1>1
  <2> QED BY <1>7, <1>8, <2>1 DEF Settled
<1>11. NoMoneyMade
  <2>1. BalancesOf(Books) = Wealth
    BY <1>1, <1>9 DEF BalancesOf
  <2>2. IsFiniteSet(Tenants) /\ \A p \in Tenants : Wealth[p] \in Int
    BY <1>1, EstatesAssumption
  <2>3. SumFunctionOnSet(Wealth, Tenants) \in Int
    BY <2>2, SumType
  <2>4. collected + SumFunctionOnSet(BalancesOf(Books), Tenants) = SumFunctionOnSet(Wealth, Tenants)
    BY <1>2, <2>1, <2>3
  <2> QED BY <2>4 DEF NoMoneyMade, BalancesOf
<1>12. SoundBooks(Books)
  <2>1. Books = [player |-> player, disk |-> disk, estate |-> estate, collected |-> collected]
    BY DEF Books
  <2>2. player \in [Tenants -> Person] /\ collected \in Int
    BY <1>2, <1>3
  <2> QED BY <1>3, <1>4, <1>10, <2>1, <2>2 DEF SoundBooks
<1> QED BY <1>2, <1>5, <1>11, <1>12 DEF EstatesInv

\* The variables make books, and back.
LEMMA BooksSound ==
    ASSUME EstatesInv
    PROVE  /\ SoundBooks(Books)
           /\ Books.player = player /\ Books.disk = disk
           /\ Books.estate = estate /\ Books.collected = collected
           /\ wrapped \/ Money(Books) = SumFunctionOnSet(Wealth, Tenants)
           /\ logged \subseteq Tenants /\ wrapped \in BOOLEAN
BY DEF EstatesInv, EstatesTypeOK, Books, Money, NoMoneyMade, BalancesOf

\* With the same players in the game, sound books with as much money will do.
LEMMA BooksKept ==
    ASSUME EstatesInv, NEW k, SoundBooks(k), Balanced(k), logged' = logged, wrapped' \in BOOLEAN,
           wrapped' \/ Money(k) = SumFunctionOnSet(Wealth, Tenants)
    PROVE  EstatesInv'
<1>1. /\ player' = k.player /\ disk' = k.disk /\ estate' = k.estate /\ collected' = k.collected
  BY DEF Balanced
<1>2. Books' = k
  BY <1>1 DEF Books, SoundBooks
<1>3. \A p \in Tenants : CopyOf(Books, p)' = CopyOf(k, p)
  BY <1>1, <1>2 DEF CopyOf, Books
<1>4. RoomsOf(Books)' = RoomsOf(k) /\ DepotsOf(Books)' = DepotsOf(k) /\ BalancesOf(Books)' = BalancesOf(k)
  BY <1>2, <1>3 DEF RoomsOf, DepotsOf, BalancesOf
<1>5. SoundBooks(Books)'
  BY <1>2, <1>4 DEF SoundBooks
<1>6. EstatesTypeOK'
  BY <1>1, BooksSound DEF EstatesTypeOK, SoundBooks, House
<1>7. NoMoneyMade'
  <2>1. wrapped' \/ collected' + SumFunctionOnSet(BalancesOf(Books)', Tenants) = SumFunctionOnSet(Wealth, Tenants)
    BY <1>1, <1>4 DEF Money
  <2> QED BY <2>1 DEF NoMoneyMade, BalancesOf
<1> QED BY <1>5, <1>6, <1>7 DEF EstatesInv

\* The books are the same, and for each player the copy that counts.
LEMMA CopiesKept ==
    ASSUME EstatesInv, logged' \subseteq Tenants, player' \in [Tenants -> Person], disk' \in [Tenants -> Person],
           estate' = estate, collected' = collected, wrapped' = wrapped,
           \A p \in Tenants : CopyOf(Books, p)' = CopyOf(Books, p)
    PROVE  EstatesInv'
<1>1. RoomsOf(Books)' = RoomsOf(Books) /\ DepotsOf(Books)' = DepotsOf(Books) /\ BalancesOf(Books)' = BalancesOf(Books)
  <2>1. Books.estate = estate /\ Books'.estate = estate'
    BY DEF Books
  <2> QED BY <2>1 DEF RoomsOf, DepotsOf, BalancesOf
<1>2. SoundBooks(Books)'
  <2>1. SoundBooks(Books)
    BY BooksSound
  <2> QED BY <1>1, <2>1 DEF SoundBooks, Books
<1>3. NoMoneyMade'
  <2>1. wrapped' \/ collected' + SumFunctionOnSet(BalancesOf(Books)', Tenants) = SumFunctionOnSet(Wealth, Tenants)
    BY <1>1, BooksSound DEF Money
  <2> QED BY <2>1 DEF NoMoneyMade, BalancesOf
<1>4. EstatesTypeOK'
  BY DEF EstatesInv, EstatesTypeOK
<1> QED BY <1>2, <1>3, <1>4, BooksSound DEF EstatesInv

LEMMA EnterGameKeeps == ASSUME EstatesInv, NEW p \in Tenants, EnterGame(p) PROVE EstatesInv'
<1>1. /\ logged' = logged \union {p} /\ player' = [player EXCEPT ![p] = disk[p]] /\ p \notin logged
      /\ UNCHANGED <<disk, estate, collected, wrapped>>
      /\ player \in [Tenants -> Person] /\ disk \in [Tenants -> Person] /\ logged \subseteq Tenants
  BY DEF EnterGame, EstatesInv, EstatesTypeOK
<1>2. player' \in [Tenants -> Person] /\ disk' \in [Tenants -> Person] /\ logged' \subseteq Tenants
  BY <1>1
<1>3. \A q \in Tenants : CopyOf(Books, q)' = CopyOf(Books, q)
  BY <1>1 DEF CopyOf, Books
<1> QED BY <1>1, <1>2, <1>3, CopiesKept

LEMMA LeaveGameKeeps == ASSUME EstatesInv, NEW p \in Tenants, LeaveGame(p) PROVE EstatesInv'
<1>1. /\ logged' = logged \ {p} /\ disk' = [disk EXCEPT ![p] = player[p]] /\ p \in logged
      /\ UNCHANGED <<player, estate, collected, wrapped>>
      /\ player \in [Tenants -> Person] /\ disk \in [Tenants -> Person] /\ logged \subseteq Tenants
  BY DEF LeaveGame, EstatesInv, EstatesTypeOK
<1>2. player' \in [Tenants -> Person] /\ disk' \in [Tenants -> Person] /\ logged' \subseteq Tenants
  BY <1>1
<1>3. \A q \in Tenants : CopyOf(Books, q)' = CopyOf(Books, q)
  BY <1>1 DEF CopyOf, Books
<1> QED BY <1>1, <1>2, <1>3, CopiesKept

LEMMA SaveServerKeeps == ASSUME EstatesInv, SaveServer PROVE EstatesInv'
<1>1. PICK b : b = [Books EXCEPT !.disk = [p \in Tenants |-> IF p \in logged THEN player[p] ELSE disk[p]]]
  OBVIOUS
<1>2. /\ b.player = player /\ b.estate = estate /\ b.collected = collected
      /\ b.disk = [p \in Tenants |-> IF p \in logged THEN player[p] ELSE disk[p]]
      /\ b = [player |-> b.player, disk |-> b.disk, estate |-> b.estate, collected |-> b.collected]
  BY <1>1 DEF Books
<1>3. \A p \in Tenants : CopyOf(b, p) = CopyOf(Books, p)
  BY <1>2 DEF CopyOf, Books
<1>4. RoomsOf(b) = RoomsOf(Books) /\ DepotsOf(b) = DepotsOf(Books) /\ BalancesOf(b) = BalancesOf(Books)
  BY <1>2, <1>3, BooksSound DEF RoomsOf, DepotsOf, BalancesOf
<1>5. SoundBooks(b) /\ Money(b) = Money(Books)
  <2>1. player \in [Tenants -> Person] /\ disk \in [Tenants -> Person]
    BY DEF EstatesInv, EstatesTypeOK
  <2>2. b.disk \in [Tenants -> Person]
    BY <1>2, <2>1
  <2> QED BY <1>2, <1>4, <2>2, BooksSound DEF SoundBooks, Money
<1>6. PICK k : k = PayHouses(b)
  OBVIOUS
<1>7. SoundBooks(k) /\ Money(k) = Money(b)
  BY <1>5, <1>6, PayHousesSound DEF AsSound
<1>8. Balanced(k) /\ logged' = logged /\ wrapped' = wrapped
  BY <1>1, <1>6 DEF SaveServer
<1> QED BY <1>5, <1>7, <1>8, BooksSound, BooksKept

LEMMA ChangeOwnerKeeps ==
    ASSUME EstatesInv, NEW h \in Estate, NEW guid \in Tenants \union {Vacant}, ChangeOwner(h, guid)
    PROVE  EstatesInv'
<1>1. PICK k : k = SetOwner(Books, h, guid)
  OBVIOUS
<1>2. SoundBooks(k) /\ Money(k) = Money(Books)
  BY <1>1, BooksSound, SetOwnerSound DEF AsSound
<1>3. Balanced(k) /\ logged' = logged /\ wrapped' = wrapped
  BY <1>1 DEF ChangeOwner
<1> QED BY <1>2, <1>3, BooksSound, BooksKept

LEMMA TransferKeeps ==
    ASSUME EstatesInv, NEW p \in Tenants, NEW q \in Tenants, NEW amount \in Amounts,
           TransferMoneyTo(p, q, amount)
    PROVE  EstatesInv'
<1>1. PICK c : c = [player[p] EXCEPT !.balance = @ - amount]
  OBVIOUS
<1>2. /\ amount \in Nat /\ BalanceLimit \in Nat /\ BalanceLimit # 0 /\ IsFiniteSet(Tenants)
  BY EstatesAssumption
<1>3. /\ p \in logged /\ player[p].balance >= amount /\ logged' = logged
  BY DEF TransferMoneyTo
<1>4. CopyOf(Books, p) = player[p] /\ SoundBooks(Books)
  BY <1>3, BooksSound DEF CopyOf
<1>5. /\ c \in Person /\ c.balance = BalancesOf(Books)[p] - amount /\ c.balance \in Int
      /\ c.depot = DepotsOf(Books)[p]
  <2>1. BalancesOf(Books)[p] >= amount
    BY <1>3, <1>4, CopyType
  <2>2. BalancesOf(Books)[p] - amount \in 0..(BalanceLimit - 1)
    BY <1>2, <1>4, <2>1, CopyType
  <2>3. c = [balance |-> BalancesOf(Books)[p] - amount, depot |-> DepotsOf(Books)[p]]
    BY <1>1, <1>4, CopyType
  <2> QED BY <1>2, <1>4, <2>2, <2>3, CopyType DEF Person
<1>6. PICK b : b = Keep(Books, p, c)
  OBVIOUS
<1>7. Kept(b, Books, p, c)
  BY <1>4, <1>5, <1>6, KeepSound
<1>8. /\ RoomsOf(b) = RoomsOf(Books)
      /\ DepotsOf(b) = [DepotsOf(Books) EXCEPT ![p] = DepotsOf(Books)[p]]
      /\ BalancesOf(b) = [BalancesOf(Books) EXCEPT ![p] = c.balance]
      /\ b.collected = collected /\ b.estate = estate
  BY <1>5, <1>7, BooksSound DEF Kept
<1>9. SoundBooks(b)
  <2>1. DepotsOf(b) = DepotsOf(Books)
    BY <1>8 DEF DepotsOf
  <2> QED BY <1>4, <1>7, <1>8, <2>1 DEF Kept, SoundBooks
<1>10. /\ SumFunctionOnSet(BalancesOf(b), Tenants)
             = SumFunctionOnSet(BalancesOf(Books), Tenants) - amount
       /\ SumFunctionOnSet(BalancesOf(Books), Tenants) \in Int
  <2>1. /\ SumFunctionOnSet(BalancesOf(b), Tenants)
             = SumFunctionOnSet(BalancesOf(Books), Tenants) - BalancesOf(Books)[p] + c.balance
        /\ SumFunctionOnSet(BalancesOf(Books), Tenants) \in Int /\ BalancesOf(Books)[p] \in Int
    BY <1>4, <1>5, <1>8, MoneyChanged
  <2> QED BY <1>2, <1>5, <2>1
<1>11. PICK sum : sum = CopyOf(b, q).balance + amount
  OBVIOUS
<1>12. PICK d : d = [CopyOf(b, q) EXCEPT !.balance = sum % BalanceLimit]
  OBVIOUS
<1>13. /\ sum = BalancesOf(b)[q] + amount /\ sum \in Nat
       /\ d \in Person /\ d.balance = sum % BalanceLimit /\ d.balance \in Int
       /\ d.depot = DepotsOf(b)[q]
  <2>1. BalancesOf(b)[q] \in 0..(BalanceLimit - 1) /\ sum = BalancesOf(b)[q] + amount
    BY <1>9, <1>11, CopyType
  <2>2. sum \in Nat
    BY <1>2, <2>1
  <2>3. sum % BalanceLimit \in 0..(BalanceLimit - 1)
    BY <1>2, <2>2
  <2>4. d = [balance |-> sum % BalanceLimit, depot |-> DepotsOf(b)[q]]
    BY <1>9, <1>12, CopyType
  <2> QED BY <1>2, <1>9, <2>1, <2>2, <2>3, <2>4, CopyType DEF Person
<1>14. PICK k : k = Keep(b, q, d)
  OBVIOUS
<1>15. Kept(k, b, q, d)
  BY <1>9, <1>13, <1>14, KeepSound
<1>16. /\ RoomsOf(k) = RoomsOf(b)
       /\ DepotsOf(k) = [DepotsOf(b) EXCEPT ![q] = DepotsOf(b)[q]]
       /\ BalancesOf(k) = [BalancesOf(b) EXCEPT ![q] = d.balance]
       /\ k.collected = collected
  BY <1>8, <1>13, <1>15 DEF Kept
<1>17. SoundBooks(k)
  <2>1. DepotsOf(k) = DepotsOf(b)
    BY <1>16 DEF DepotsOf
  <2> QED BY <1>9, <1>15, <1>16, <2>1 DEF Kept, SoundBooks
<1>18. /\ SumFunctionOnSet(BalancesOf(k), Tenants)
             = SumFunctionOnSet(BalancesOf(b), Tenants) - BalancesOf(b)[q] + d.balance
       /\ SumFunctionOnSet(BalancesOf(b), Tenants) \in Int /\ BalancesOf(b)[q] \in Int
  BY <1>9, <1>13, <1>16, MoneyChanged
<1>19. wrapped' = (wrapped \/ sum >= BalanceLimit) /\ Balanced(k)
  BY <1>1, <1>6, <1>11, <1>12, <1>14 DEF TransferMoneyTo
<1>20. sum < BalanceLimit => sum % BalanceLimit = sum
  BY <1>2, <1>13
<1>21. sum < BalanceLimit => Money(k) = Money(Books)
  <2>1. collected \in Int /\ Books.collected = collected
    BY BooksSound DEF SoundBooks
  <2> QED BY <1>2, <1>10, <1>13, <1>16, <1>18, <1>20, <2>1 DEF Money
<1>22. wrapped' \in BOOLEAN /\ (wrapped' \/ Money(k) = SumFunctionOnSet(Wealth, Tenants))
  <2>1. wrapped \in BOOLEAN /\ (wrapped \/ Money(Books) = SumFunctionOnSet(Wealth, Tenants))
    BY BooksSound
  <2>2. CASE wrapped \/ sum >= BalanceLimit
    BY <1>19, <2>2
  <2>3. CASE ~wrapped /\ ~(sum >= BalanceLimit)
    <3>1. sum < BalanceLimit
      BY <1>2, <1>13, <2>3
    <3> QED BY <1>19, <1>21, <2>1, <2>3, <3>1
  <2> QED BY <2>2, <2>3
<1> QED BY <1>3, <1>17, <1>19, <1>22, BooksKept

LEMMA FurnishKeeps ==
    ASSUME EstatesInv, NEW p \in Tenants, NEW h \in Estate, NEW x \in Furniture,
           Furnish(p, h, x) \/ Fetch(p, h, x)
    PROVE  EstatesInv'
<1>1. PICK c \in Person : c = player[p]
  BY DEF EstatesInv, EstatesTypeOK
<1>2. PICK e \in House : e = estate[h]
  BY DEF EstatesInv, EstatesTypeOK, House
<1>3. /\ p \in logged /\ UNCHANGED <<logged, disk, collected, wrapped>>
      /\ CopyOf(Books, p) = c /\ SoundBooks(Books)
      /\ DepotsOf(Books)[p] = c.depot /\ RoomsOf(Books)[h] = e.rooms
  <2>1. p \in logged /\ UNCHANGED <<logged, disk, collected, wrapped>>
    BY DEF Furnish, Fetch
  <2>2. CopyOf(Books, p) = c
    BY <1>1, <2>1, BooksSound DEF CopyOf
  <2> QED BY <1>2, <2>1, <2>2, BooksSound DEF DepotsOf, RoomsOf
<1>4. PICK dp, rm : /\ player' = [player EXCEPT ![p] = [c EXCEPT !.depot = dp]]
                    /\ estate' = [estate EXCEPT ![h] = [e EXCEPT !.rooms = rm]]
                    /\ dp \subseteq Furniture /\ rm \subseteq Furniture
                    /\ Settled([RoomsOf(Books) EXCEPT ![h] = rm], [DepotsOf(Books) EXCEPT ![p] = dp])
  <2>1. Settled(RoomsOf(Books), DepotsOf(Books)) /\ c.depot \subseteq Furniture /\ e.rooms \subseteq Furniture
    BY <1>1, <1>2, <1>3 DEF SoundBooks, Person, House
  <2>2. CASE Furnish(p, h, x)
    <3>1. x \in c.depot
      BY <1>1, <2>2 DEF Furnish
    <3>2. /\ player' = [player EXCEPT ![p] = [c EXCEPT !.depot = c.depot \ {x}]]
          /\ estate' = [estate EXCEPT ![h] = [e EXCEPT !.rooms = e.rooms \union {x}]]
      BY <1>1, <1>2, <2>2 DEF Furnish
    <3>3. Settled([RoomsOf(Books) EXCEPT ![h] = @ \union {x}], [DepotsOf(Books) EXCEPT ![p] = @ \ {x}])
      BY <1>3, <2>1, <3>1, IntoHouse
    <3>4. Settled([RoomsOf(Books) EXCEPT ![h] = e.rooms \union {x}], [DepotsOf(Books) EXCEPT ![p] = c.depot \ {x}])
      BY <1>3, <3>3
    <3> QED BY <2>1, <3>2, <3>4
  <2>3. CASE Fetch(p, h, x)
    <3>1. x \in e.rooms
      BY <1>2, <2>3 DEF Fetch
    <3>2. /\ player' = [player EXCEPT ![p] = [c EXCEPT !.depot = c.depot \union {x}]]
          /\ estate' = [estate EXCEPT ![h] = [e EXCEPT !.rooms = e.rooms \ {x}]]
      BY <1>1, <1>2, <2>3 DEF Fetch
    <3>3. Settled([RoomsOf(Books) EXCEPT ![h] = @ \ {x}], [DepotsOf(Books) EXCEPT ![p] = @ \union {x}])
      BY <1>3, <2>1, <3>1, OutOfHouse
    <3>4. Settled([RoomsOf(Books) EXCEPT ![h] = e.rooms \ {x}], [DepotsOf(Books) EXCEPT ![p] = c.depot \union {x}])
      BY <1>3, <3>3
    <3> QED BY <2>1, <3>2, <3>4
  <2> QED BY <2>2, <2>3
<1>5. PICK k : k = [player |-> player', disk |-> disk, estate |-> estate', collected |-> collected]
  OBVIOUS
<1>6. /\ k.player = player' /\ k.disk = disk /\ k.estate = estate' /\ k.collected = collected
      /\ Balanced(k)
  BY <1>3, <1>5 DEF Balanced
<1>7. PICK c2 : c2 = [c EXCEPT !.depot = dp]
  OBVIOUS
<1>8. PICK e2 : e2 = [e EXCEPT !.rooms = rm]
  OBVIOUS
<1>9. /\ c2 \in Person /\ c2.depot = dp /\ c2.balance = c.balance
      /\ e2 \in House /\ e2.rooms = rm
  BY <1>4, <1>7, <1>8 DEF Person, House
<1>10. /\ player \in [Tenants -> Person] /\ disk \in [Tenants -> Person] /\ estate \in [Estate -> House]
       /\ player' = [player EXCEPT ![p] = c2] /\ estate' = [estate EXCEPT ![h] = e2]
  BY <1>4, <1>7, <1>8 DEF EstatesInv, EstatesTypeOK, House
<1>11. \A q \in Tenants : CopyOf(k, q) = IF q = p THEN c2 ELSE CopyOf(Books, q)
  BY <1>3, <1>6, <1>10, BooksSound DEF CopyOf
<1>12. RoomsOf(k) = [RoomsOf(Books) EXCEPT ![h] = rm]
  BY <1>6, <1>9, <1>10, BooksSound DEF RoomsOf
<1>13. DepotsOf(k) = [DepotsOf(Books) EXCEPT ![p] = dp]
  BY <1>9, <1>11 DEF DepotsOf
<1>14. BalancesOf(k) = BalancesOf(Books)
  BY <1>3, <1>9, <1>11 DEF BalancesOf
<1>15. SoundBooks(k)
  <2>1. k.player \in [Tenants -> Person] /\ k.disk \in [Tenants -> Person] /\ k.estate \in [Estate -> House]
    BY <1>6, <1>9, <1>10
  <2>2. k.collected \in Int
    BY <1>3, <1>6, BooksSound DEF SoundBooks
  <2>3. Settled(RoomsOf(k), DepotsOf(k))
    BY <1>4, <1>12, <1>13
  <2> QED BY <1>5, <2>1, <2>2, <2>3 DEF SoundBooks
<1>16. Money(k) = Money(Books)
  BY <1>6, <1>14, BooksSound DEF Money
<1> QED BY <1>3, <1>6, <1>15, <1>16, BooksSound, BooksKept

LEMMA TimeKeeps ==
    ASSUME EstatesInv, NEW h \in Estate, DayPasses(h) \/ PeriodEnds(h) PROVE EstatesInv'
<1>1. PICK e \in House : e = estate[h]
  BY DEF EstatesInv, EstatesTypeOK, House
<1>2. PICK e2 : (e2 = [e EXCEPT !.warned = FALSE] \/ e2 = [e EXCEPT !.paid = FALSE]) /\ estate' = [estate EXCEPT ![h] = e2]
  BY <1>1 DEF DayPasses, PeriodEnds
<1>3. e2 \in House /\ e2.rooms = e.rooms
  BY <1>2 DEF House
<1>4. UNCHANGED <<logged, player, disk, collected, wrapped>>
  BY DEF DayPasses, PeriodEnds
<1>5. PICK k : k = SetHouse(Books, h, e2)
  OBVIOUS
<1>6. SoundBooks(Books) /\ Books.estate = estate
  BY BooksSound
<1>7. Altered(k, Books, h, e2)
  BY <1>3, <1>5, <1>6, HouseSet DEF SoundBooks
<1>8. /\ k.player = player /\ k.disk = disk /\ k.collected = collected
      /\ RoomsOf(k) = [RoomsOf(Books) EXCEPT ![h] = RoomsOf(Books)[h]]
      /\ DepotsOf(k) = DepotsOf(Books) /\ BalancesOf(k) = BalancesOf(Books)
  BY <1>1, <1>3, <1>6, <1>7, BooksSound DEF Altered, RoomsOf
<1>9. RoomsOf(k) = RoomsOf(Books)
  BY <1>8 DEF RoomsOf
<1>10. k.estate = estate'
  BY <1>2, <1>5, <1>6 DEF SetHouse
<1>11. SoundBooks(k) /\ Money(k) = Money(Books)
  BY <1>6, <1>7, <1>8, <1>9, BooksSound DEF SoundBooks, Altered, Money
<1>12. Balanced(k)
  BY <1>4, <1>8, <1>10 DEF Balanced
<1> QED BY <1>4, <1>11, <1>12, BooksSound, BooksKept

\* Whatever is paid, transferred, bought or lost, at home or away, in any order.
THEOREM EstatesInductive == EstatesSpec => []EstatesInv
<1>1. EstatesInit => EstatesInv
  BY EstatesAtFirst
<1>2. EstatesInv /\ [EstatesNext]_estateVars => EstatesInv'
  <2> SUFFICES ASSUME EstatesInv, [EstatesNext]_estateVars PROVE EstatesInv'
    OBVIOUS
  <2>1. CASE \E p \in Tenants : EnterGame(p) \/ LeaveGame(p)
    BY <2>1, EnterGameKeeps, LeaveGameKeeps
  <2>2. CASE SaveServer
    BY <2>2, SaveServerKeeps
  <2>3. CASE \E p, q \in Tenants, amount \in Amounts : TransferMoneyTo(p, q, amount)
    BY <2>3, TransferKeeps
  <2>4. CASE \E h \in Estate, guid \in Tenants \union {Vacant} : ChangeOwner(h, guid)
    BY <2>4, ChangeOwnerKeeps
  <2>5. CASE \E p \in Tenants, h \in Estate, x \in Furniture : Furnish(p, h, x) \/ Fetch(p, h, x)
    BY <2>5, FurnishKeeps
  <2>6. CASE \E h \in Estate : DayPasses(h) \/ PeriodEnds(h)
    BY <2>6, TimeKeeps
  <2>7. CASE UNCHANGED estateVars
    <3>1. /\ logged' = logged /\ player' = player /\ disk' = disk /\ estate' = estate
          /\ collected' = collected /\ wrapped' = wrapped
      BY <2>7 DEF estateVars
    <3>2. \A p \in Tenants : CopyOf(Books, p)' = CopyOf(Books, p)
      BY <3>1 DEF CopyOf, Books
    <3>3. logged' \subseteq Tenants /\ player' \in [Tenants -> Person] /\ disk' \in [Tenants -> Person]
      BY <3>1 DEF EstatesInv, EstatesTypeOK
    <3> QED BY <3>1, <3>2, <3>3, CopiesKept
  <2> QED BY <2>1, <2>2, <2>3, <2>4, <2>5, <2>6, <2>7 DEF EstatesNext
<1> QED BY <1>1, <1>2, PTL DEF EstatesSpec

\* Neither money nor furniture is lost or doubled: payHouses, transferMoneyTo and
\* setHouseOwner take the copy that counts, however the saves and logins fall.
THEOREM EstatesKept == EstatesSpec => []EstatesHold
<1>1. EstatesInv => EstatesHold
  BY OnePlaceEach DEF EstatesInv, EstatesHold, SoundBooks
<1> QED BY <1>1, EstatesInductive, PTL
-----------------------------------------------------------------------------
(* Conditions and worn items.                                              *)

Lefts == {Forever, Lapsed} \union Nat
Conditions == [kind : EffectKinds, id : Places \union {Combat}, left : Lefts, delta : Int]

Heroes ==
    [conditions : SUBSET Conditions, speed : Int, stats : Int, base : 1..MaxBase, hidden : BOOLEAN,
     suppressed : BOOLEAN, worn : [Places -> Gear \union {Bare}], enabled : [Places -> BOOLEAN],
     grown : BOOLEAN, shared : BOOLEAN, reborn : BOOLEAN]

\* One condition of a kind and an id; an item makes invisible, and lasts.
Distinct(cs) ==
    /\ cs \subseteq Conditions /\ IsFiniteSet(cs)
    /\ \A c \in cs : c.id # Combat => c.kind = "invisible" /\ c.left < 0
    /\ \A c, d \in cs : c.kind = d.kind /\ c.id = d.id => c = d

Lasts(c) == c.left = Forever \/ c.left > 0
Some(cs, kind) == \E c \in cs : c.kind = kind
Active(cs, kind) == \E c \in cs : c.kind = kind /\ Lasts(c)
SeenSo(h) ==
    /\ h.hidden => Some(h.conditions, "invisible")
    /\ Active(h.conditions, "invisible") => h.hidden \/ h.reborn
NotBoth(h) == h.reborn \/ ~(Active(h.conditions, "haste") /\ Active(h.conditions, "paralyze"))

\* What the condition of a kind adds, and what is added by something else.
Part(cs, kind) == IF Some(cs, kind) THEN (CHOOSE c \in cs : c.kind = kind).delta ELSE 0
RestSpeed(h) == h.speed - Part(h.conditions, "haste") - Part(h.conditions, "paralyze")
RestStats(h) == h.stats - Part(h.conditions, "attributes")

Sound(h) == h \in Heroes /\ Distinct(h.conditions) /\ SeenSo(h)

\* Only conditions are different, and their effects.
SameGear(g, h) ==
    /\ g.base = h.base /\ g.suppressed = h.suppressed /\ g.shared = h.shared /\ g.grown = h.grown
    /\ g.worn = h.worn /\ g.enabled = h.enabled
    /\ RestSpeed(g) = RestSpeed(h) /\ RestStats(g) = RestStats(h)
-----------------------------------------------------------------------------
LEMMA PartIs ==
    ASSUME NEW cs, Distinct(cs), NEW kind, kind # "invisible"
    PROVE  /\ \A c \in cs : c.kind = kind => Part(cs, kind) = c.delta
           /\ ~Some(cs, kind) => Part(cs, kind) = 0
           /\ Part(cs, kind) \in Int
<1>1. ASSUME NEW c \in cs, c.kind = kind PROVE Part(cs, kind) = c.delta /\ c.delta \in Int
  <2>1. PICK d : d = CHOOSE x \in cs : x.kind = kind
    OBVIOUS
  <2>2. d \in cs /\ d.kind = kind
    BY <1>1, <2>1
  <2>3. c \in Conditions /\ d \in Conditions /\ c.id = Combat /\ d.id = Combat
    BY <1>1, <2>2 DEF Distinct
  <2>4. d = c
    BY <1>1, <2>2, <2>3 DEF Distinct
  <2>5. c.delta \in Int
    BY <2>3 DEF Conditions
  <2> QED BY <1>1, <2>1, <2>4, <2>5 DEF Part, Some
<1>2. ~Some(cs, kind) => Part(cs, kind) = 0
  BY DEF Part
<1> QED BY <1>1, <1>2 DEF Some

LEMMA PartLess ==
    ASSUME NEW cs, Distinct(cs), NEW c \in cs
    PROVE  /\ Distinct(cs \ {c})
           /\ \A k : k # "invisible" => Part(cs \ {c}, k) = Part(cs, k) - IF c.kind = k THEN c.delta ELSE 0
<1>1. Distinct(cs \ {c})
  BY FS_Subset DEF Distinct
<1>2. ASSUME NEW k, k # "invisible"
      PROVE  Part(cs \ {c}, k) = Part(cs, k) - IF c.kind = k THEN c.delta ELSE 0
  <2>1. CASE c.kind = k
    <3>1. Part(cs, k) = c.delta /\ c.delta \in Int
      BY <1>2, <2>1, PartIs
    <3>2. ~Some(cs \ {c}, k)
      <4>1. SUFFICES ASSUME NEW d \in cs \ {c}, d.kind = k PROVE FALSE
        BY DEF Some
      <4>2. c.id = Combat /\ d.id = Combat
        BY <1>2, <2>1, <4>1 DEF Distinct
      <4> QED BY <2>1, <4>1, <4>2 DEF Distinct
    <3>3. Part(cs \ {c}, k) = 0
      BY <1>1, <1>2, <3>2, PartIs
    <3> QED BY <2>1, <3>1, <3>3
  <2>2. CASE c.kind # k
    <3>1. CASE Some(cs, k)
      <4>1. PICK d \in cs : d.kind = k
        BY <3>1 DEF Some
      <4>2. d \in cs \ {c}
        BY <2>2, <4>1
      <4>3. Part(cs, k) = d.delta /\ Part(cs \ {c}, k) = d.delta /\ Part(cs, k) \in Int
        BY <1>1, <1>2, <4>1, <4>2, PartIs
      <4> QED BY <2>2, <4>3
    <3>2. CASE ~Some(cs, k)
      <4>1. ~Some(cs \ {c}, k)
        BY <3>2 DEF Some
      <4> QED BY <1>1, <1>2, <2>2, <3>2, <4>1, PartIs
    <3> QED BY <3>1, <3>2
  <2> QED BY <2>1, <2>2
<1> QED BY <1>1, <1>2

LEMMA PartMore ==
    ASSUME NEW cs, Distinct(cs), NEW c \in Conditions, c.id # Combat => c.kind = "invisible" /\ c.left < 0,
           \A d \in cs : ~(d.kind = c.kind /\ d.id = c.id)
    PROVE  /\ Distinct(cs \union {c})
           /\ \A k : k # "invisible" => Part(cs \union {c}, k) = Part(cs, k) + IF c.kind = k THEN c.delta ELSE 0
<1>1. Distinct(cs \union {c})
  BY FS_AddElement DEF Distinct
<1>2. c \notin cs
  OBVIOUS
<1>3. (cs \union {c}) \ {c} = cs
  BY <1>2
<1>4. c.delta \in Int
  BY DEF Conditions
<1>5. ASSUME NEW k, k # "invisible"
      PROVE  Part(cs \union {c}, k) = Part(cs, k) + IF c.kind = k THEN c.delta ELSE 0
  <2>1. Part(cs, k) = Part(cs \union {c}, k) - IF c.kind = k THEN c.delta ELSE 0
    <3>1. PICK ds : ds = cs \union {c}
      OBVIOUS
    <3>2. c \in ds /\ Distinct(ds) /\ ds \ {c} = cs
      BY <1>1, <1>3, <3>1
    <3>3. Part(ds \ {c}, k) = Part(ds, k) - IF c.kind = k THEN c.delta ELSE 0
      BY <1>5, <3>2, PartLess
    <3> QED BY <3>1, <3>2, <3>3
  <2>2. Part(cs, k) \in Int /\ Part(cs \union {c}, k) \in Int
    BY <1>1, <1>5, PartIs
  <2> QED BY <1>4, <2>1, <2>2
<1> QED BY <1>1, <1>5

LEMMA HasIsActive ==
    ASSUME NEW h, NEW kind PROVE HasCondition(h, kind) <=> Active(h.conditions, kind)
BY DEF HasCondition, OfKind, Active, Lasts

\* One condition ends.
LEMMA EraseSound ==
    ASSUME NEW h, Sound(h), NEW c \in h.conditions
    PROVE  /\ Sound(EraseCondition(h, c)) /\ SameGear(EraseCondition(h, c), h)
           /\ EraseCondition(h, c).conditions = h.conditions \ {c}
           /\ EraseCondition(h, c).reborn = h.reborn
<1>1. PICK cs : cs = h.conditions \ {c}
  OBVIOUS
<1>2. PICK g : g = EraseCondition(h, c)
  OBVIOUS
<1>3. PICK i : i = [h EXCEPT !.conditions = cs]
  OBVIOUS
<1>4. /\ h \in Heroes /\ Distinct(h.conditions) /\ c \in Conditions /\ c.kind \in EffectKinds /\ c.delta \in Int
  BY DEF Sound, Distinct, Conditions
<1>5. /\ i \in Heroes /\ i.conditions = cs /\ i.speed = h.speed /\ i.stats = h.stats
      /\ i.base = h.base /\ i.hidden = h.hidden
      /\ i.suppressed = h.suppressed /\ i.worn = h.worn /\ i.enabled = h.enabled
      /\ i.grown = h.grown /\ i.shared = h.shared /\ i.reborn = h.reborn
      /\ h.speed \in Int /\ h.stats \in Int /\ h.hidden \in BOOLEAN
  BY <1>1, <1>3, <1>4 DEF Heroes
<1>6. g = EndCondition(i, c)
  BY <1>1, <1>2, <1>3 DEF EraseCondition
<1>7. g = [i EXCEPT !.speed = IF c.kind \in {"haste", "paralyze"} THEN h.speed - c.delta ELSE h.speed,
                    !.stats = IF c.kind = "attributes" THEN h.stats - c.delta ELSE h.stats,
                    !.hidden = IF c.kind = "invisible" THEN h.hidden /\ Active(cs, "invisible") ELSE h.hidden]
  <2>1. CASE c.kind \in {"haste", "paralyze"}
    BY <1>4, <1>5, <1>6, <2>1 DEF EndCondition, ChangeSpeed, Heroes
  <2>2. CASE c.kind = "attributes"
    BY <1>4, <1>5, <1>6, <2>2 DEF EndCondition, SetVarStats, Heroes
  <2>3. CASE c.kind = "invisible"
    <3>1. HasCondition(i, "invisible") <=> Active(cs, "invisible")
      BY <1>5, HasIsActive
    <3>2. g = [i EXCEPT !.hidden = h.hidden /\ HasCondition(i, "invisible")]
      BY <1>5, <1>6, <2>3 DEF EndCondition
    <3>3. g = [i EXCEPT !.hidden = h.hidden /\ Active(cs, "invisible")]
      BY <3>1, <3>2 DEF HasCondition, Active
    <3> QED BY <1>5, <2>3, <3>3 DEF Heroes
  <2> QED BY <1>4, <2>1, <2>2, <2>3 DEF EffectKinds
<1>8. /\ g \in Heroes /\ g.conditions = cs
      /\ g.speed = IF c.kind \in {"haste", "paralyze"} THEN h.speed - c.delta ELSE h.speed
      /\ g.stats = IF c.kind = "attributes" THEN h.stats - c.delta ELSE h.stats
      /\ g.hidden = IF c.kind = "invisible" THEN h.hidden /\ Active(cs, "invisible") ELSE h.hidden
      /\ g.base = h.base
      /\ g.suppressed = h.suppressed /\ g.worn = h.worn /\ g.enabled = h.enabled
      /\ g.grown = h.grown /\ g.shared = h.shared /\ g.reborn = h.reborn
  <2>1. PICK v : v = IF c.kind \in {"haste", "paralyze"} THEN h.speed - c.delta ELSE h.speed
    OBVIOUS
  <2>2. PICK w : w = IF c.kind = "attributes" THEN h.stats - c.delta ELSE h.stats
    OBVIOUS
  <2>3. PICK b : b = IF c.kind = "invisible" THEN h.hidden /\ Active(cs, "invisible") ELSE h.hidden
    OBVIOUS
  <2>4. v \in Int /\ w \in Int
    BY ONLY <1>4, <1>5, <2>1, <2>2
  <2>5. b \in BOOLEAN
    BY <1>5, <2>3
  <2>6. g = [i EXCEPT !.speed = v, !.stats = w, !.hidden = b]
    BY <1>7, <2>1, <2>2, <2>3
  <2>7. /\ g \in Heroes /\ g.conditions = i.conditions /\ g.speed = v /\ g.stats = w /\ g.hidden = b
        /\ g.base = i.base /\ g.suppressed = i.suppressed /\ g.worn = i.worn /\ g.enabled = i.enabled
        /\ g.grown = i.grown /\ g.shared = i.shared /\ g.reborn = i.reborn
    BY ONLY <1>5, <2>4, <2>5, <2>6 DEF Heroes
  <2> QED BY <1>5, <2>1, <2>2, <2>3, <2>7
<1>9. /\ Distinct(cs)
      /\ Part(cs, "haste") = Part(h.conditions, "haste") - IF c.kind = "haste" THEN c.delta ELSE 0
      /\ Part(cs, "paralyze") = Part(h.conditions, "paralyze") - IF c.kind = "paralyze" THEN c.delta ELSE 0
      /\ Part(cs, "attributes") = Part(h.conditions, "attributes") - IF c.kind = "attributes" THEN c.delta ELSE 0
      /\ Part(h.conditions, "haste") \in Int /\ Part(h.conditions, "paralyze") \in Int
      /\ Part(h.conditions, "attributes") \in Int
  BY <1>1, <1>4, PartLess, PartIs
<1>10. RestSpeed(g) = RestSpeed(h) /\ RestStats(g) = RestStats(h)
  BY <1>4, <1>5, <1>8, <1>9 DEF RestSpeed, RestStats
<1>11. SeenSo(g)
  <2>1. Active(cs, "invisible") => Active(h.conditions, "invisible") /\ Some(cs, "invisible")
    BY <1>1 DEF Active, Some
  <2>2. c.kind # "invisible" /\ Some(h.conditions, "invisible") => Some(cs, "invisible")
    BY <1>1 DEF Some
  <2>3. /\ h.hidden => Some(h.conditions, "invisible")
        /\ Active(h.conditions, "invisible") => h.hidden \/ h.reborn
    BY DEF Sound, SeenSo
  <2> QED BY <1>8, <2>1, <2>2, <2>3 DEF SeenSo
<1>12. Sound(g) /\ SameGear(g, h)
  BY <1>8, <1>9, <1>10, <1>11 DEF Sound, SameGear
<1> QED BY <1>1, <1>2, <1>8, <1>12

\* Some conditions end, one after another.
LEMMA ErasedSound ==
    ASSUME NEW h, Sound(h), NEW cs \in SUBSET h.conditions
    PROVE  /\ Sound(EraseConditions(h, cs)) /\ SameGear(EraseConditions(h, cs), h)
           /\ EraseConditions(h, cs).conditions = h.conditions \ cs
           /\ EraseConditions(h, cs).reborn = h.reborn
<1> DEFINE P(g) == g = [s \in SUBSET cs |-> IF s = {} THEN h ELSE EraseCondition(g[s \ {Picked(s)}], Picked(s))]
           step == [x \in cs \X Heroes |-> EraseCondition(x[2], x[1])]
           W == [s \in SUBSET cs |-> {i \in Heroes : /\ Sound(i) /\ SameGear(i, h) /\ i.reborn = h.reborn
                                                     /\ i.conditions = h.conditions \ s}]
<1>0. IsFiniteSet(cs)
  BY FS_Subset DEF Sound, Distinct
<1>1. EraseConditions(h, cs) = (CHOOSE g : P(g))[cs]
  BY DEF EraseConditions, FoldSet, MapThenFoldSet, Picked
<1>2. PICK f : IsFold(f, cs, h, step)
  <2> HIDE DEF step
  <2> QED BY <1>0, FoldExists
<1>3. \A s \in SUBSET cs : f[s] \in W[s]
  <2>1. h \in W[{}]
    BY DEF Sound, SameGear
  <2>2. ASSUME NEW s \in SUBSET cs, s # {}, NEW v \in W[s \ {Picked(s)}]
        PROVE  step[<<Picked(s), v>>] \in W[s]
    <3>1. PICK c : c = Picked(s)
      OBVIOUS
    <3>2. c \in s /\ s \ {c} \in SUBSET cs /\ c \in cs
      BY <1>0, <2>2, <3>1, FirstOut
    <3>3. v \in Heroes /\ Sound(v) /\ SameGear(v, h) /\ v.reborn = h.reborn /\ v.conditions = h.conditions \ (s \ {c})
      BY <2>2, <3>1, <3>2
    <3>4. c \in v.conditions
      BY <3>2, <3>3
    <3>5. PICK w : w = EraseCondition(v, c)
      OBVIOUS
    <3>6. Sound(w) /\ SameGear(w, v) /\ w.conditions = v.conditions \ {c} /\ w.reborn = v.reborn
      BY <3>3, <3>4, <3>5, EraseSound
    <3>7. w \in Heroes /\ SameGear(w, h) /\ w.conditions = h.conditions \ s /\ w.reborn = h.reborn
      BY <3>2, <3>3, <3>6 DEF Sound, SameGear
    <3>8. step[<<c, v>>] = w
      BY <3>2, <3>3, <3>5
    <3>9. w \in W[s]
      BY <3>6, <3>7
    <3> QED BY <3>1, <3>8, <3>9
  <2> HIDE DEF W, step
  <2> QED BY <1>0, <1>2, <2>1, <2>2, FoldRuns
<1>4. \A s \in SUBSET cs : s # {} => Picked(s) \in cs /\ s \ {Picked(s)} \in SUBSET cs
  BY <1>0, FirstOut
<1>5. \A s \in SUBSET cs : f[s] = IF s = {} THEN h ELSE EraseCondition(f[s \ {Picked(s)}], Picked(s))
  <2>1. ASSUME NEW s \in SUBSET cs, s # {}, NEW v \in Heroes PROVE step[<<Picked(s), v>>] = EraseCondition(v, Picked(s))
    BY <1>4, <2>1
  <2>2. \A s \in SUBSET cs : s # {} => f[s \ {Picked(s)}] \in Heroes
    BY <1>3, <1>4
  <2> HIDE DEF step, W
  <2> QED BY <1>2, <2>1, <2>2 DEF IsFold
<1>6. P(f)
  <2> HIDE DEF W, step
  <2> QED BY <1>2, <1>5 DEF IsFold
<1>7. PICK g : P(g) /\ g = CHOOSE k : P(k)
  BY <1>6
<1>8. \A s \in SUBSET cs : g[s] = IF s = {} THEN h ELSE EraseCondition(g[s \ {Picked(s)}], Picked(s))
  BY <1>7
<1>9. g[cs] = f[cs]
  <2>1. g[{}] = f[{}]
    BY <1>5, <1>8
  <2>2. \A s \in SUBSET cs : s # {} /\ g[s \ {Picked(s)}] = f[s \ {Picked(s)}] => g[s] = f[s]
    BY <1>5, <1>8
  <2> QED BY ONLY <1>0, <2>1, <2>2, LoopsAgree
<1>10. f[cs] \in W[cs]
  BY <1>3
<1> QED BY <1>1, <1>7, <1>9, <1>10

\* A condition that is about to be there, from a spell, a script, a field or an item.
Fresh(c) ==
    /\ c \in Conditions /\ (c.left = Forever \/ c.left > 0)
    /\ c.id # Combat => c.kind = "invisible" /\ c.left = Forever

IdsOf(cs) == {c.id : c \in {d \in cs : d.id # Combat}}

\* The fields of what is h but for its speed, its stats, its being hidden and reborn,
\* and its conditions.
Differs(g, h, cs, v, w, b, z) ==
    /\ g \in Heroes /\ g.conditions = cs /\ g.speed = v /\ g.stats = w /\ g.hidden = b /\ g.reborn = z
    /\ g.base = h.base /\ g.suppressed = h.suppressed /\ g.worn = h.worn /\ g.enabled = h.enabled
    /\ g.grown = h.grown /\ g.shared = h.shared

Started(h, c) == [StartCondition(h, c) EXCEPT !.conditions = @ \union {c}]

LEMMA StartedSound ==
    ASSUME NEW h, Sound(h), NEW c, Fresh(c), \A d \in h.conditions : ~(d.kind = c.kind /\ d.id = c.id),
           NEW g, g = Started(h, c)
    PROVE  /\ Sound(g) /\ SameGear(g, h) /\ g.conditions = h.conditions \union {c} /\ g.reborn = h.reborn
<1>1. /\ h \in Heroes /\ Distinct(h.conditions) /\ c \in Conditions /\ c.kind \in EffectKinds /\ c.delta \in Int
      /\ c.id # Combat => c.kind = "invisible" /\ c.left < 0
  BY DEF Sound, Distinct, Conditions, Fresh, Forever
<1>2. PICK cs : cs = h.conditions \union {c}
  OBVIOUS
<1>3. /\ Distinct(cs)
      /\ \A k : k # "invisible" => Part(cs, k) = Part(h.conditions, k) + IF c.kind = k THEN c.delta ELSE 0
  BY <1>1, <1>2, PartMore
<1>4. /\ h.speed \in Int /\ h.stats \in Int /\ h.hidden \in BOOLEAN /\ h.reborn \in BOOLEAN
      /\ h = [h EXCEPT !.conditions = h.conditions, !.speed = h.speed, !.stats = h.stats,
                       !.hidden = h.hidden, !.reborn = h.reborn]
      /\ cs \in SUBSET Conditions
  BY <1>1, <1>3 DEF Heroes, Distinct
<1>5. PICK v : v = IF c.kind \in {"haste", "paralyze"} THEN h.speed + c.delta ELSE h.speed
  OBVIOUS
<1>6. PICK w : w = IF c.kind = "attributes" THEN h.stats + c.delta ELSE h.stats
  OBVIOUS
<1>7. PICK b : b = IF c.kind = "invisible" THEN TRUE ELSE h.hidden
  OBVIOUS
<1>8. v \in Int /\ w \in Int /\ b \in BOOLEAN
  <2>1. v \in Int /\ w \in Int
    BY ONLY <1>1, <1>4, <1>5, <1>6
  <2>2. b \in BOOLEAN
    BY ONLY <1>4, <1>7
  <2> QED BY <2>1, <2>2
<1>9. g = [h EXCEPT !.conditions = cs, !.speed = v, !.stats = w, !.hidden = b, !.reborn = h.reborn]
  <2>1. CASE c.kind \in {"haste", "paralyze"}
    BY <1>1, <1>2, <1>4, <1>5, <1>6, <1>7, <2>1 DEF Started, StartCondition, ChangeSpeed, Heroes
  <2>2. CASE c.kind = "attributes"
    BY <1>1, <1>2, <1>4, <1>5, <1>6, <1>7, <2>2 DEF Started, StartCondition, SetVarStats, Heroes
  <2>3. CASE c.kind = "invisible"
    BY <1>1, <1>2, <1>4, <1>5, <1>6, <1>7, <2>3 DEF Started, StartCondition, Heroes
  <2> QED BY <1>1, <2>1, <2>2, <2>3 DEF EffectKinds
<1>10. Differs(g, h, cs, v, w, b, h.reborn)
  <2>1. h.reborn \in BOOLEAN /\ h \in Heroes /\ cs \in SUBSET Conditions
    BY <1>1, <1>4
  <2> QED BY ONLY <1>8, <1>9, <2>1 DEF Differs, Heroes
<1>11. /\ Part(h.conditions, "haste") \in Int /\ Part(h.conditions, "paralyze") \in Int
       /\ Part(h.conditions, "attributes") \in Int
       /\ Part(cs, "haste") = Part(h.conditions, "haste") + IF c.kind = "haste" THEN c.delta ELSE 0
       /\ Part(cs, "paralyze") = Part(h.conditions, "paralyze") + IF c.kind = "paralyze" THEN c.delta ELSE 0
       /\ Part(cs, "attributes") = Part(h.conditions, "attributes") + IF c.kind = "attributes" THEN c.delta ELSE 0
  BY <1>1, <1>3, PartIs
<1>12. RestSpeed(g) = RestSpeed(h) /\ RestStats(g) = RestStats(h)
  <2>1. g.speed = v /\ g.stats = w /\ g.conditions = cs
    BY <1>10 DEF Differs
  <2>2. RestSpeed(g) = v - Part(cs, "haste") - Part(cs, "paralyze") /\ RestStats(g) = w - Part(cs, "attributes")
    BY <2>1 DEF RestSpeed, RestStats
  <2>3. /\ RestSpeed(h) = h.speed - Part(h.conditions, "haste") - Part(h.conditions, "paralyze")
        /\ RestStats(h) = h.stats - Part(h.conditions, "attributes")
    BY DEF RestSpeed, RestStats
  <2> QED BY ONLY <1>1, <1>4, <1>5, <1>6, <1>11, <2>2, <2>3
<1>13. SeenSo(g)
  <2>1. c.kind # "invisible" => (Active(cs, "invisible") <=> Active(h.conditions, "invisible"))
    BY <1>2 DEF Active
  <2>2. Some(h.conditions, "invisible") \/ c.kind = "invisible" => Some(cs, "invisible")
    BY <1>2 DEF Some
  <2>3. /\ h.hidden => Some(h.conditions, "invisible")
        /\ Active(h.conditions, "invisible") => h.hidden \/ h.reborn
    BY DEF Sound, SeenSo
  <2> QED BY <1>7, <1>10, <2>1, <2>2, <2>3 DEF SeenSo, Differs
<1> QED BY <1>2, <1>3, <1>10, <1>12, <1>13 DEF Sound, SameGear, Differs

\* A condition is renewed.
LEMMA RefreshSound ==
    ASSUME NEW h, Sound(h), NotBoth(h), NEW new, Fresh(new), NEW old \in h.conditions,
           old.kind = new.kind, old.id = new.id
    PROVE  /\ Sound(Refresh(h, old, new)) /\ NotBoth(Refresh(h, old, new))
           /\ SameGear(Refresh(h, old, new), h)
           /\ IdsOf(Refresh(h, old, new).conditions) = IdsOf(h.conditions)
<1>1. CASE ~Updates(old, new)
  BY <1>1 DEF Refresh, SameGear
<1>2. CASE Updates(old, new)
  <2>1. /\ h \in Heroes /\ Distinct(h.conditions) /\ new \in Conditions /\ new.kind \in EffectKinds
        /\ new.delta \in Int /\ old.delta \in Int /\ old \in Conditions
        /\ h.speed \in Int /\ h.stats \in Int /\ h.hidden \in BOOLEAN /\ h.reborn \in BOOLEAN
    BY DEF Sound, Distinct, Conditions, Fresh, Heroes
  <2>2. PICK c : c = Renewed(new)
    OBVIOUS
  <2>3. /\ c \in Conditions /\ c.kind = new.kind /\ c.id = new.id /\ c.delta = new.delta
        /\ Lasts(c) => new.left > 0 /\ new.left # Forever
    BY <2>1, <2>2 DEF Renewed, Conditions, Lefts, Lasts, Forever, Lapsed, Fresh
  <2>4. Lasts(c) => Lasts(old) \/ old.left = 0
    <3>1. old.left \in Lefts
      BY <2>1 DEF Conditions
    <3> QED BY <1>2, <2>3, <3>1 DEF Updates, Lasts, Lefts, Forever, Lapsed
  <2>5. PICK ds : ds = h.conditions \ {old}
    OBVIOUS
  <2>6. PICK cs : cs = ds \union {c}
    OBVIOUS
  <2>7. /\ Distinct(ds)
        /\ \A k : k # "invisible" => Part(ds, k) = Part(h.conditions, k) - IF old.kind = k THEN old.delta ELSE 0
    BY <2>1, <2>5, PartLess
  <2>8. /\ Distinct(cs)
        /\ \A k : k # "invisible" => Part(cs, k) = Part(ds, k) + IF c.kind = k THEN c.delta ELSE 0
    <3>1. \A d \in ds : ~(d.kind = c.kind /\ d.id = c.id)
      BY <2>1, <2>3, <2>5 DEF Distinct
    <3>2. c.id # Combat => c.kind = "invisible" /\ c.left < 0
      BY <2>2, <2>3 DEF Fresh, Renewed, Forever, Lapsed
    <3> QED BY <2>3, <2>6, <2>7, <3>1, <3>2, PartMore
  <2>9. PICK z : z = (h.reborn \/ old.left = 0)
    OBVIOUS
  <2>10. PICK v : v = IF new.kind \in {"haste", "paralyze"} THEN h.speed + (new.delta - old.delta) ELSE h.speed
    OBVIOUS
  <2>11. PICK w : w = IF new.kind = "attributes" THEN h.stats + (new.delta - old.delta) ELSE h.stats
    OBVIOUS
  <2>12. v \in Int /\ w \in Int /\ z \in BOOLEAN /\ cs \in SUBSET Conditions
    BY <2>1, <2>8, <2>9, <2>10, <2>11 DEF Distinct
  <2>13. PICK g : g = Refresh(h, old, new)
    OBVIOUS
  <2>14. g = [h EXCEPT !.conditions = cs, !.speed = v, !.stats = w, !.hidden = h.hidden, !.reborn = z]
    <3>1. PICK i : i = Replaced(h, old, c)
      OBVIOUS
    <3>2. i = [h EXCEPT !.conditions = cs, !.reborn = z]
      BY <2>1, <2>5, <2>6, <2>9, <3>1 DEF Replaced, Heroes
    <3>3. i.speed = h.speed /\ i.stats = h.stats /\ i.hidden = h.hidden
      BY <2>1, <3>2 DEF Heroes
    <3>4. CASE new.kind \in {"haste", "paralyze"}
      <4>1. g = [i EXCEPT !.speed = v]
        BY <1>2, <2>2, <2>10, <2>13, <3>1, <3>3, <3>4 DEF Refresh, ChangeSpeed
      <4> QED BY <2>1, <2>11, <3>2, <3>4, <4>1 DEF Heroes
    <3>5. CASE new.kind = "attributes"
      <4>1. g = [i EXCEPT !.stats = w]
        BY <1>2, <2>2, <2>11, <2>13, <3>1, <3>3, <3>5 DEF Refresh, SetVarStats
      <4> QED BY <2>1, <2>10, <3>2, <3>5, <4>1 DEF Heroes
    <3>6. CASE new.kind = "invisible"
      <4>1. g = i
        BY <1>2, <2>2, <2>13, <3>1, <3>6 DEF Refresh
      <4> QED BY <2>1, <2>10, <2>11, <3>2, <3>6, <4>1 DEF Heroes
    <3> QED BY <2>1, <3>4, <3>5, <3>6 DEF EffectKinds
  <2>15. Differs(g, h, cs, v, w, h.hidden, z)
    <3>1. h.hidden \in BOOLEAN /\ h \in Heroes
      BY <2>1
    <3> QED BY ONLY <2>12, <2>14, <3>1 DEF Differs, Heroes
  <2>16. RestSpeed(g) = RestSpeed(h) /\ RestStats(g) = RestStats(h)
    <3>1. /\ Part(h.conditions, "haste") \in Int /\ Part(h.conditions, "paralyze") \in Int
          /\ Part(h.conditions, "attributes") \in Int
      BY <2>1, PartIs
    <3>2. \A k \in {"haste", "paralyze", "attributes"} :
             Part(cs, k) = Part(h.conditions, k) + IF new.kind = k THEN new.delta - old.delta ELSE 0
      <4>1. ASSUME NEW k \in {"haste", "paralyze", "attributes"}
            PROVE  Part(cs, k) = Part(h.conditions, k) + IF new.kind = k THEN new.delta - old.delta ELSE 0
        <5>1. /\ Part(ds, k) = Part(h.conditions, k) - IF old.kind = k THEN old.delta ELSE 0
              /\ Part(cs, k) = Part(ds, k) + IF c.kind = k THEN c.delta ELSE 0
              /\ Part(h.conditions, k) \in Int
          BY <2>7, <2>8, <3>1, <4>1
        <5> QED BY <2>1, <2>3, <5>1
      <4> QED BY <4>1
    <3>3. /\ Part(cs, "haste") = Part(h.conditions, "haste") + IF new.kind = "haste" THEN new.delta - old.delta ELSE 0
          /\ Part(cs, "paralyze") = Part(h.conditions, "paralyze") + IF new.kind = "paralyze" THEN new.delta - old.delta ELSE 0
          /\ Part(cs, "attributes") = Part(h.conditions, "attributes") + IF new.kind = "attributes" THEN new.delta - old.delta ELSE 0
      BY <3>2
    <3> QED BY <2>1, <2>10, <2>11, <2>15, <3>1, <3>3 DEF RestSpeed, RestStats, Differs
  <2>17. \A k : Active(cs, k) => Active(h.conditions, k) \/ z
    BY <2>3, <2>4, <2>5, <2>6, <2>9 DEF Active
  <2>18. \A k : Some(h.conditions, k) => Some(cs, k)
    BY <2>3, <2>5, <2>6 DEF Some
  <2>19. SeenSo(g)
    <3>1. /\ h.hidden => Some(h.conditions, "invisible")
          /\ Active(h.conditions, "invisible") => h.hidden \/ h.reborn
      BY DEF Sound, SeenSo
    <3> QED BY <2>9, <2>15, <2>17, <2>18, <3>1 DEF SeenSo, Differs
  <2>20. NotBoth(g)
    BY <2>9, <2>15, <2>17 DEF NotBoth, Differs
  <2>21. IdsOf(cs) = IdsOf(h.conditions)
    BY <2>3, <2>5, <2>6 DEF IdsOf
  <2>22. Sound(g) /\ SameGear(g, h)
    BY <2>8, <2>15, <2>16, <2>19 DEF Sound, SameGear, Differs
  <2> QED BY <2>13, <2>15, <2>20, <2>21, <2>22 DEF Differs
<1> QED BY <1>1, <1>2

LEMMA AddSound ==
    ASSUME NEW h, Sound(h), NotBoth(h), NEW new, Fresh(new)
    PROVE  /\ Sound(AddCondition(h, new)) /\ NotBoth(AddCondition(h, new))
           /\ SameGear(AddCondition(h, new), h)
           /\ IdsOf(AddCondition(h, new).conditions) = IdsOf(h.conditions) \union ({new.id} \ {Combat})
<1> DEFINE prev == {c \in OfKind(h, new.kind) : c.id = new.id}
<1>1. CASE prev # {}
  <2>1. PICK old : old = CHOOSE c \in prev : TRUE
    OBVIOUS
  <2>2. old \in h.conditions /\ old.kind = new.kind /\ old.id = new.id
    BY <1>1, <2>1 DEF OfKind
  <2>3. AddCondition(h, new) = Refresh(h, old, new)
    BY <1>1, <2>1 DEF AddCondition
  <2>4. new.id # Combat => new.id \in IdsOf(h.conditions)
    BY <2>2 DEF IdsOf
  <2>5. IdsOf(h.conditions) \union ({new.id} \ {Combat}) = IdsOf(h.conditions)
    BY <2>4
  <2> QED BY <2>2, <2>3, <2>5, RefreshSound
<1>2. CASE prev = {}
  <2>1. PICK g : g = Started(h, new)
    OBVIOUS
  <2>2. \A d \in h.conditions : ~(d.kind = new.kind /\ d.id = new.id)
    BY <1>2 DEF OfKind
  <2>3. Sound(g) /\ SameGear(g, h) /\ g.conditions = h.conditions \union {new} /\ g.reborn = h.reborn
    <3>1. Sound(h) /\ Fresh(new)
      OBVIOUS
    <3> QED BY ONLY <2>1, <2>2, <3>1, StartedSound
  <2>4. PICK us : us = UNION {OfKind(g, k) : k \in {x \in Opposite(new.kind) : HasCondition(g, x)}}
    OBVIOUS
  <2>5. /\ us \in SUBSET g.conditions
        /\ \A c \in us : c.kind \in {"haste", "paralyze"}
        /\ \A c \in g.conditions : c.kind \in Opposite(new.kind) /\ HasCondition(g, c.kind) => c \in us
    BY <2>4 DEF OfKind, Opposite
  <2>6. PICK k : k = EraseConditions(g, us)
    OBVIOUS
  <2>7. AddCondition(h, new) = k
    BY <1>2, <2>1, <2>4, <2>6 DEF Started, AddCondition, OnAddCondition
  <2>8. Sound(k) /\ SameGear(k, g) /\ k.conditions = g.conditions \ us /\ k.reborn = g.reborn
    BY <2>3, <2>5, <2>6, ErasedSound
  <2>9. SameGear(k, h)
    BY <2>3, <2>8 DEF SameGear
  <2>10. IdsOf(k.conditions) = IdsOf(h.conditions) \union ({new.id} \ {Combat})
    <3>1. \A c \in us : c.id = Combat
      BY <2>3, <2>5 DEF Sound, Distinct
    <3> QED BY <2>3, <2>8, <3>1 DEF IdsOf
  <2>11. NotBoth(k)
    <3>1. SUFFICES ASSUME ~h.reborn, Active(k.conditions, "haste"), Active(k.conditions, "paralyze") PROVE FALSE
      BY <2>3, <2>8 DEF NotBoth
    <3>2. ~(Active(h.conditions, "haste") /\ Active(h.conditions, "paralyze"))
      BY <3>1 DEF NotBoth
    <3>3. /\ Active(g.conditions, "haste") /\ Active(g.conditions, "paralyze")
      BY <2>8, <3>1 DEF Active
    <3>4. new.kind = "haste" \/ new.kind = "paralyze"
      BY <2>3, <3>2, <3>3 DEF Active
    <3>5. PICK o \in Opposite(new.kind) : o \in {"haste", "paralyze"}
      BY <3>4 DEF Opposite
    <3>6. HasCondition(g, o)
      BY <3>3, <3>5, HasIsActive
    <3>7. \A c \in k.conditions : c.kind # o
      BY <2>5, <2>8, <3>5, <3>6
    <3> QED BY <3>1, <3>5, <3>7 DEF Active
  <2> QED BY <2>7, <2>8, <2>9, <2>10, <2>11
<1> QED BY <1>1, <1>2
-----------------------------------------------------------------------------
(* What worn items give.  a[t] is the type whose abilities slot t gave.     *)

Types == Gear \union {Bare}
Outfits == [Places -> Types]
SpeedSum(a) == SumFunctionOnSet([t \in Places |-> SpeedOf(a[t])], Places)
Hiding(a) == {t \in Places : a[t] # Bare /\ GearData[a[t]].invisible}
Raising(a) == {t \in Places : a[t] # Bare /\ GearData[a[t]].percent}
Quelling(a) == {t \in Places : a[t] # Bare /\ GearData[a[t]].suppresses}

\* Two items that suppress the same are at the origin of anything that is not so.
Quelled(h, by) ==
    /\ h.suppressed => by # {}
    /\ h.shared \/ ((by # {} => h.suppressed) /\ \A s, t \in by : s = t)

Granted(h, a) ==
    /\ a \in Outfits
    /\ RestSpeed(h) = SpeedSum(a)
    /\ h.grown \/ RestStats(h) = h.base * Cardinality(Raising(a))
    /\ IdsOf(h.conditions) = Hiding(a)
    /\ Quelled(h, Quelling(a))

LEMMA SpeedIs == ASSUME NEW g \in Types PROVE SpeedOf(g) \in Int
BY EffectsAssumption DEF SpeedOf, Types

Wears(a, s, v) == [a EXCEPT ![s] = v]

LEMMA OutfitChanged ==
    ASSUME NEW a \in Outfits, NEW s \in Places, NEW v \in Types, NEW b, b = Wears(a, s, v)
    PROVE  /\ b \in Outfits
           /\ SpeedSum(a) \in Int /\ SpeedSum(b) = SpeedSum(a) - SpeedOf(a[s]) + SpeedOf(v)
           /\ Hiding(b) = (Hiding(a) \ {s}) \union (IF v # Bare /\ GearData[v].invisible THEN {s} ELSE {})
           /\ Raising(b) = (Raising(a) \ {s}) \union (IF v # Bare /\ GearData[v].percent THEN {s} ELSE {})
           /\ Quelling(b) = (Quelling(a) \ {s}) \union (IF v # Bare /\ GearData[v].suppresses THEN {s} ELSE {})
<1>1. b \in Outfits /\ b[s] = v /\ \A t \in Places : t # s => b[t] = a[t]
  BY DEF Outfits, Wears
<1>2. IsFiniteSet(Places)
  BY EffectsAssumption
<1>3. \A c \in Outfits : \A t \in Places : SpeedOf(c[t]) \in Int
  BY SpeedIs DEF Outfits
<1>4. PICK f : f = [t \in Places |-> SpeedOf(a[t])]
  OBVIOUS
<1>5. PICK h : h = [t \in Places |-> SpeedOf(b[t])]
  OBVIOUS
<1>6. /\ \A t \in Places : f[t] \in Int
      /\ \A t \in Places : t # s => h[t] = f[t]
      /\ h[s] = SpeedOf(v) /\ h[s] \in Int /\ f[s] = SpeedOf(a[s])
  <2>1. \A t \in Places : f[t] = SpeedOf(a[t]) /\ h[t] = SpeedOf(b[t])
    BY ONLY <1>4, <1>5
  <2>2. \A t \in Places : SpeedOf(a[t]) \in Int /\ SpeedOf(b[t]) \in Int
    BY <1>1, <1>3
  <2> QED BY <1>1, <2>1, <2>2
<1>7. SumFunctionOnSet(h, Places) = SumFunctionOnSet(f, Places) - f[s] + h[s]
  BY <1>2, <1>6, SumChanged
<1>8. SumFunctionOnSet(f, Places) \in Int
  BY <1>2, <1>6, SumType
<1>9. SpeedSum(a) \in Int /\ SpeedSum(b) = SpeedSum(a) - SpeedOf(a[s]) + SpeedOf(v)
  BY <1>4, <1>5, <1>6, <1>7, <1>8 DEF SpeedSum
<1>10. Hiding(b) = (Hiding(a) \ {s}) \union (IF v # Bare /\ GearData[v].invisible THEN {s} ELSE {})
  BY <1>1 DEF Hiding
<1>11. Raising(b) = (Raising(a) \ {s}) \union (IF v # Bare /\ GearData[v].percent THEN {s} ELSE {})
  BY <1>1 DEF Raising
<1>12. Quelling(b) = (Quelling(a) \ {s}) \union (IF v # Bare /\ GearData[v].suppresses THEN {s} ELSE {})
  BY <1>1 DEF Quelling
<1> QED BY <1>1, <1>9, <1>10, <1>11, <1>12

LEMMA RaisingFinite ==
    ASSUME NEW a
    PROVE  /\ IsFiniteSet(Raising(a)) /\ Cardinality(Raising(a)) \in Nat
           /\ \A s : s \notin Raising(a) => Cardinality(Raising(a) \union {s}) = Cardinality(Raising(a)) + 1
           /\ \A s \in Raising(a) : Cardinality(Raising(a) \ {s}) = Cardinality(Raising(a)) - 1
<1>1. IsFiniteSet(Raising(a))
  BY EffectsAssumption, FS_Subset DEF Raising
<1> HIDE DEF Raising
<1> QED BY <1>1, FS_CardinalityType, FS_AddElement, FS_RemoveElement

LEMMA GearIs ==
    ASSUME NEW g \in Gear
    PROVE  /\ GearData[g].speed \in Int /\ GearData[g].invisible \in BOOLEAN
           /\ GearData[g].percent \in BOOLEAN /\ GearData[g].suppresses \in BOOLEAN
           /\ GearData[g].worn \in Types /\ GearData[g].off \in Types
           /\ SpeedOf(g) = GearData[g].speed /\ g # Bare /\ g \in Types
BY EffectsAssumption DEF SpeedOf, Types

\* The same player with other abilities.
Alters(k, i, v, w, b, c) ==
    /\ k \in Heroes /\ k.speed = v /\ k.stats = w /\ k.suppressed = b /\ k.shared = c
    /\ k.conditions = i.conditions /\ k.hidden = i.hidden /\ k.reborn = i.reborn /\ k.grown = i.grown
    /\ k.base = i.base /\ k.worn = i.worn /\ k.enabled = i.enabled

LEMMA SomeHide ==
    ASSUME NEW h, Sound(h), NotBoth(h), NEW a, Granted(h, a), NEW s \in Places, NEW yes \in BOOLEAN, a[s] = Bare,
           NEW i, i = IF yes THEN AddCondition(h, ItemCondition(s)) ELSE h
    PROVE  /\ Sound(i) /\ NotBoth(i) /\ SameGear(i, h)
           /\ IdsOf(i.conditions) = Hiding(a) \union (IF yes THEN {s} ELSE {})
<1>1. s # Combat
  BY EffectsAssumption
<1>2. Fresh(ItemCondition(s))
  BY DEF Fresh, ItemCondition, Conditions, Lefts, EffectKinds, Forever
<1>3. ItemCondition(s).id = s
  BY DEF ItemCondition
<1>4. IdsOf(h.conditions) = Hiding(a)
  BY DEF Granted
<1>5. SameGear(h, h)
  BY DEF SameGear
<1>6. CASE yes
  <2>1. PICK c : c = ItemCondition(s)
    OBVIOUS
  <2>2. /\ Sound(AddCondition(h, c)) /\ NotBoth(AddCondition(h, c)) /\ SameGear(AddCondition(h, c), h)
        /\ IdsOf(AddCondition(h, c).conditions) = IdsOf(h.conditions) \union ({c.id} \ {Combat})
    BY <1>2, <2>1, AddSound
  <2> QED BY <1>1, <1>3, <1>4, <1>6, <2>1, <2>2
<1> QED BY <1>4, <1>5, <1>6

LEMMA Grant ==
    ASSUME NEW h, Sound(h), NotBoth(h), NEW a, Granted(h, a), NEW s \in Places, NEW g \in Gear, a[s] = Bare,
           NEW k, k = GrantAbilities(h, s, g)
    PROVE  /\ Sound(k) /\ NotBoth(k) /\ Granted(k, Wears(a, s, g))
           /\ k.worn = h.worn /\ k.enabled = h.enabled /\ k.base = h.base
<1>1. PICK d : d = GearData[g]
  OBVIOUS
<1>2. /\ d.speed \in Int /\ d.invisible \in BOOLEAN /\ d.percent \in BOOLEAN /\ d.suppresses \in BOOLEAN
      /\ SpeedOf(g) = d.speed /\ g # Bare /\ g \in Types
  BY <1>1, GearIs
<1>3. PICK i : i = IF d.invisible THEN AddCondition(h, ItemCondition(s)) ELSE h
  OBVIOUS
<1>4. /\ Sound(i) /\ NotBoth(i) /\ SameGear(i, h)
      /\ IdsOf(i.conditions) = Hiding(a) \union (IF d.invisible THEN {s} ELSE {})
  BY <1>2, <1>3, SomeHide
<1>5. PICK b : b = Wears(a, s, g)
  OBVIOUS
<1>6. /\ b \in Outfits
      /\ SpeedSum(a) \in Int /\ SpeedSum(b) = SpeedSum(a) - SpeedOf(a[s]) + SpeedOf(g)
      /\ Hiding(b) = (Hiding(a) \ {s}) \union (IF g # Bare /\ GearData[g].invisible THEN {s} ELSE {})
      /\ Raising(b) = (Raising(a) \ {s}) \union (IF g # Bare /\ GearData[g].percent THEN {s} ELSE {})
      /\ Quelling(b) = (Quelling(a) \ {s}) \union (IF g # Bare /\ GearData[g].suppresses THEN {s} ELSE {})
  <2>1. a \in Outfits
    BY DEF Granted
  <2>2. s \in Places /\ g \in Types
    BY <1>2
  <2> QED BY ONLY <1>5, <2>1, <2>2, OutfitChanged
<1>7. s \notin Hiding(a) /\ s \notin Raising(a) /\ s \notin Quelling(a) /\ SpeedOf(a[s]) = 0
  BY DEF Hiding, Raising, Quelling, SpeedOf
<1>8. /\ h \in Heroes /\ h.base \in Nat /\ i \in Heroes /\ i.speed \in Int /\ i.stats \in Int
      /\ i.suppressed \in BOOLEAN /\ i.shared \in BOOLEAN /\ h.suppressed \in BOOLEAN
  BY <1>4, EffectsAssumption DEF Sound, Heroes
<1>9. PICK v : v = i.speed + d.speed
  OBVIOUS
<1>10. PICK w : w = i.stats + IF d.percent THEN h.base ELSE 0
  OBVIOUS
<1>11. PICK p : p = (i.suppressed \/ d.suppresses)
  OBVIOUS
<1>12. PICK q : q = (i.shared \/ (d.suppresses /\ h.suppressed))
  OBVIOUS
<1>13. v \in Int /\ w \in Int /\ p \in BOOLEAN /\ q \in BOOLEAN
  BY <1>2, <1>8, <1>9, <1>10, <1>11, <1>12
<1>14. k = [i EXCEPT !.speed = v, !.stats = w, !.suppressed = p, !.shared = q]
  <2>1. k = [i EXCEPT !.speed = i.speed + d.speed, !.stats = i.stats + IF d.percent THEN h.base ELSE 0,
                  !.suppressed = i.suppressed \/ d.suppresses,
                  !.shared = i.shared \/ (d.suppresses /\ h.suppressed)]
    BY <1>1, <1>3, <1>8 DEF GrantAbilities, Heroes
  <2> QED BY ONLY <2>1, <1>8, <1>9, <1>10, <1>11, <1>12
<1>15. Alters(k, i, v, w, p, q)
  BY ONLY <1>8, <1>13, <1>14 DEF Alters, Heroes
<1>16. Sound(k) /\ NotBoth(k)
  BY <1>4, <1>15 DEF Sound, SeenSo, NotBoth, Alters
<1>17. k.worn = h.worn /\ k.enabled = h.enabled /\ k.base = h.base /\ k.grown = h.grown
  BY <1>4, <1>15 DEF Alters, SameGear
<1>18. RestSpeed(h) \in Int /\ RestStats(h) \in Int /\ RestSpeed(i) = RestSpeed(h) /\ RestStats(i) = RestStats(h)
  <2>1. /\ Part(h.conditions, "haste") \in Int /\ Part(h.conditions, "paralyze") \in Int
        /\ Part(h.conditions, "attributes") \in Int /\ h.speed \in Int /\ h.stats \in Int
    BY <1>8, PartIs DEF Sound, Heroes
  <2> QED BY <1>4, <2>1 DEF RestSpeed, RestStats, SameGear
<1>19. /\ RestSpeed(k) = RestSpeed(i) + d.speed
       /\ RestStats(k) = RestStats(i) + IF d.percent THEN h.base ELSE 0
  <2>1. /\ Part(i.conditions, "haste") \in Int /\ Part(i.conditions, "paralyze") \in Int
        /\ Part(i.conditions, "attributes") \in Int
    BY <1>4, PartIs DEF Sound
  <2>2. k.conditions = i.conditions /\ k.speed = v /\ k.stats = w
    BY <1>15 DEF Alters
  <2>3. /\ RestSpeed(k) = v - Part(i.conditions, "haste") - Part(i.conditions, "paralyze")
        /\ RestStats(k) = w - Part(i.conditions, "attributes")
    BY <2>2 DEF RestSpeed, RestStats
  <2>4. /\ RestSpeed(i) = i.speed - Part(i.conditions, "haste") - Part(i.conditions, "paralyze")
        /\ RestStats(i) = i.stats - Part(i.conditions, "attributes")
    BY DEF RestSpeed, RestStats
  <2> QED BY ONLY <1>2, <1>8, <1>9, <1>10, <2>1, <2>3, <2>4
<1>20. RestSpeed(k) = SpeedSum(b)
  <2>1. RestSpeed(h) = SpeedSum(a)
    BY DEF Granted
  <2> QED BY ONLY <1>2, <1>6, <1>7, <1>18, <1>19, <2>1
<1>21. k.grown \/ RestStats(k) = k.base * Cardinality(Raising(b))
  <2>1. h.grown \/ RestStats(h) = h.base * Cardinality(Raising(a))
    BY DEF Granted
  <2>2. PICK n : n = Cardinality(Raising(a))
    OBVIOUS
  <2>3. n \in Nat /\ Cardinality(Raising(b)) = n + IF d.percent THEN 1 ELSE 0
    <3>1. n \in Nat /\ Cardinality(Raising(a) \union {s}) = n + 1
      BY <1>7, <2>2, RaisingFinite
    <3>2. Raising(b) = IF d.percent THEN Raising(a) \union {s} ELSE Raising(a)
      BY <1>1, <1>2, <1>6, <1>7
    <3> QED BY <2>2, <3>1, <3>2
  <2>4. h.base * (n + 1) = h.base * n + h.base
    BY ONLY <1>8, <2>3
  <2>5. h.base * (n + 0) = h.base * n
    BY ONLY <1>8, <2>3
  <2> QED BY ONLY <1>2, <1>8, <1>17, <1>18, <1>19, <2>1, <2>2, <2>3, <2>4, <2>5
<1>22. IdsOf(k.conditions) = Hiding(b)
  BY <1>1, <1>2, <1>4, <1>6, <1>7, <1>15 DEF Alters
<1>23. Quelled(k, Quelling(b))
  <2>1. /\ k.suppressed = (h.suppressed \/ d.suppresses)
        /\ k.shared = (h.shared \/ (d.suppresses /\ h.suppressed))
    BY <1>4, <1>11, <1>12, <1>15 DEF Alters, SameGear
  <2>2. Quelling(b) = Quelling(a) \union (IF d.suppresses THEN {s} ELSE {})
    BY <1>1, <1>2, <1>6, <1>7
  <2>3. Quelled(h, Quelling(a))
    BY DEF Granted
  <2> QED BY ONLY <2>1, <2>2, <2>3, <1>2 DEF Quelled
<1> QED BY <1>5, <1>6, <1>16, <1>17, <1>20, <1>21, <1>22, <1>23 DEF Granted

LEMMA SomeEnd ==
    ASSUME NEW h, Sound(h), NotBoth(h), NEW cs \in SUBSET h.conditions,
           NEW i, i = EraseConditions(h, cs)
    PROVE  Sound(i) /\ NotBoth(i) /\ SameGear(i, h) /\ i.conditions = h.conditions \ cs /\ i.reborn = h.reborn
<1>1. Sound(i) /\ SameGear(i, h) /\ i.conditions = h.conditions \ cs /\ i.reborn = h.reborn
  BY ErasedSound
<1>2. NotBoth(i)
  BY <1>1 DEF NotBoth, Active
<1> QED BY <1>1, <1>2

LEMMA SomeShow ==
    ASSUME NEW h, Sound(h), NotBoth(h), NEW a, Granted(h, a), NEW s \in Places, NEW yes \in BOOLEAN,
           NEW i, i = IF yes THEN EraseConditions(h, {c \in OfKind(h, "invisible") : c.id = s}) ELSE h
    PROVE  /\ Sound(i) /\ NotBoth(i) /\ SameGear(i, h)
           /\ IdsOf(i.conditions) = Hiding(a) \ (IF yes THEN {s} ELSE {})
<1>1. s # Combat
  BY EffectsAssumption
<1>2. IdsOf(h.conditions) = Hiding(a) /\ SameGear(h, h)
  BY DEF Granted, SameGear
<1>3. CASE yes
  <2>1. PICK cs : cs = {c \in OfKind(h, "invisible") : c.id = s}
    OBVIOUS
  <2>2. cs \in SUBSET h.conditions /\ i = EraseConditions(h, cs)
    BY <1>3, <2>1 DEF OfKind
  <2>3. Sound(i) /\ NotBoth(i) /\ SameGear(i, h) /\ i.conditions = h.conditions \ cs
    <3>1. Sound(h) /\ NotBoth(h)
      OBVIOUS
    <3> QED BY ONLY <2>2, <3>1, SomeEnd
  <2>4. cs = {c \in h.conditions : c.id = s}
    BY <1>1, <2>1 DEF OfKind, Sound, Distinct
  <2>5. IdsOf(i.conditions) = IdsOf(h.conditions) \ {s}
    BY <2>3, <2>4 DEF IdsOf
  <2> QED BY <1>2, <1>3, <2>3, <2>5
<1> QED BY <1>2, <1>3

LEMMA Withdraw ==
    ASSUME NEW h, Sound(h), NotBoth(h), NEW a, Granted(h, a), NEW s \in Places, NEW g \in Gear, a[s] = g,
           NEW k, k = WithdrawAbilities(h, s, g)
    PROVE  /\ Sound(k) /\ NotBoth(k) /\ Granted(k, Wears(a, s, Bare))
           /\ k.worn = h.worn /\ k.enabled = h.enabled /\ k.base = h.base
<1>1. PICK d : d = GearData[g]
  OBVIOUS
<1>2. /\ d.speed \in Int /\ d.invisible \in BOOLEAN /\ d.percent \in BOOLEAN /\ d.suppresses \in BOOLEAN
      /\ SpeedOf(g) = d.speed /\ g # Bare /\ Bare \in Types
  BY <1>1, GearIs DEF Types
<1>3. PICK i : i = IF d.invisible THEN EraseConditions(h, {c \in OfKind(h, "invisible") : c.id = s}) ELSE h
  OBVIOUS
<1>4. /\ Sound(i) /\ NotBoth(i) /\ SameGear(i, h)
      /\ IdsOf(i.conditions) = Hiding(a) \ (IF d.invisible THEN {s} ELSE {})
  BY <1>2, <1>3, SomeShow
<1>5. PICK b : b = Wears(a, s, Bare)
  OBVIOUS
<1>6. /\ b \in Outfits
      /\ SpeedSum(a) \in Int /\ SpeedSum(b) = SpeedSum(a) - SpeedOf(a[s]) + SpeedOf(Bare)
      /\ Hiding(b) = Hiding(a) \ {s} /\ Raising(b) = Raising(a) \ {s} /\ Quelling(b) = Quelling(a) \ {s}
  <2>1. a \in Outfits
    BY DEF Granted
  <2> QED BY <1>2, <1>5, <2>1, OutfitChanged
<1>7. /\ s \in Hiding(a) <=> d.invisible
      /\ s \in Raising(a) <=> d.percent
      /\ s \in Quelling(a) <=> d.suppresses
      /\ SpeedOf(a[s]) = d.speed /\ SpeedOf(Bare) = 0
  BY <1>1, <1>2 DEF Hiding, Raising, Quelling, SpeedOf
<1>8. /\ h \in Heroes /\ h.base \in Nat /\ i \in Heroes /\ i.speed \in Int /\ i.stats \in Int
      /\ i.suppressed \in BOOLEAN /\ i.shared \in BOOLEAN /\ h.suppressed \in BOOLEAN
  BY <1>4, EffectsAssumption DEF Sound, Heroes
<1>9. PICK v : v = i.speed - d.speed
  OBVIOUS
<1>10. PICK w : w = i.stats - IF d.percent THEN h.base ELSE 0
  OBVIOUS
<1>11. PICK p : p = (i.suppressed /\ ~d.suppresses)
  OBVIOUS
<1>12. v \in Int /\ w \in Int /\ p \in BOOLEAN
  BY <1>2, <1>8, <1>9, <1>10, <1>11
<1>13. k = [i EXCEPT !.speed = v, !.stats = w, !.suppressed = p, !.shared = i.shared]
  <2>1. k = [i EXCEPT !.speed = i.speed - d.speed, !.stats = i.stats - IF d.percent THEN h.base ELSE 0,
                  !.suppressed = i.suppressed /\ ~d.suppresses]
    BY <1>1, <1>3, <1>8 DEF WithdrawAbilities, Heroes
  <2>2. k = [i EXCEPT !.speed = v, !.stats = w, !.suppressed = p]
    BY ONLY <2>1, <1>8, <1>9, <1>10, <1>11
  <2> QED BY ONLY <2>2, <1>8 DEF Heroes
<1>14. Alters(k, i, v, w, p, i.shared)
  BY ONLY <1>8, <1>12, <1>13 DEF Alters, Heroes
<1>15. Sound(k) /\ NotBoth(k)
  BY <1>4, <1>14 DEF Sound, SeenSo, NotBoth, Alters
<1>16. k.worn = h.worn /\ k.enabled = h.enabled /\ k.base = h.base /\ k.grown = h.grown
  BY <1>4, <1>14 DEF Alters, SameGear
<1>17. RestSpeed(h) \in Int /\ RestStats(h) \in Int /\ RestSpeed(i) = RestSpeed(h) /\ RestStats(i) = RestStats(h)
  <2>1. /\ Part(h.conditions, "haste") \in Int /\ Part(h.conditions, "paralyze") \in Int
        /\ Part(h.conditions, "attributes") \in Int /\ h.speed \in Int /\ h.stats \in Int
    BY <1>8, PartIs DEF Sound, Heroes
  <2> QED BY <1>4, <2>1 DEF RestSpeed, RestStats, SameGear
<1>18. /\ RestSpeed(k) = RestSpeed(i) - d.speed
       /\ RestStats(k) = RestStats(i) - IF d.percent THEN h.base ELSE 0
  <2>1. /\ Part(i.conditions, "haste") \in Int /\ Part(i.conditions, "paralyze") \in Int
        /\ Part(i.conditions, "attributes") \in Int
    BY <1>4, PartIs DEF Sound
  <2>2. k.conditions = i.conditions /\ k.speed = v /\ k.stats = w
    BY <1>14 DEF Alters
  <2>3. /\ RestSpeed(k) = v - Part(i.conditions, "haste") - Part(i.conditions, "paralyze")
        /\ RestStats(k) = w - Part(i.conditions, "attributes")
    BY <2>2 DEF RestSpeed, RestStats
  <2>4. /\ RestSpeed(i) = i.speed - Part(i.conditions, "haste") - Part(i.conditions, "paralyze")
        /\ RestStats(i) = i.stats - Part(i.conditions, "attributes")
    BY DEF RestSpeed, RestStats
  <2> QED BY ONLY <1>2, <1>8, <1>9, <1>10, <2>1, <2>3, <2>4
<1>19. RestSpeed(k) = SpeedSum(b)
  <2>1. RestSpeed(h) = SpeedSum(a)
    BY DEF Granted
  <2> QED BY ONLY <1>2, <1>6, <1>7, <1>17, <1>18, <2>1
<1>20. k.grown \/ RestStats(k) = k.base * Cardinality(Raising(b))
  <2>1. h.grown \/ RestStats(h) = h.base * Cardinality(Raising(a))
    BY DEF Granted
  <2>2. PICK n : n = Cardinality(Raising(b))
    OBVIOUS
  <2>3. n \in Nat /\ Cardinality(Raising(a)) = n + IF d.percent THEN 1 ELSE 0
    <3>1. Raising(b) = IF d.percent THEN Raising(a) \ {s} ELSE Raising(a)
      BY <1>6, <1>7
    <3>2. /\ Cardinality(Raising(a)) \in Nat /\ n \in Nat
          /\ s \in Raising(a) => Cardinality(Raising(a) \ {s}) = Cardinality(Raising(a)) - 1
      BY <2>2, RaisingFinite
    <3> QED BY <1>7, <2>2, <3>1, <3>2
  <2>4. h.base * (n + 1) = h.base * n + h.base
    BY ONLY <1>8, <2>3
  <2>5. h.base * n \in Int
    BY ONLY <1>8, <2>3
  <2>6. CASE d.percent
    BY ONLY <1>8, <1>16, <1>17, <1>18, <2>1, <2>2, <2>3, <2>4, <2>5, <2>6
  <2>7. CASE ~d.percent
    BY ONLY <1>8, <1>16, <1>17, <1>18, <2>1, <2>2, <2>3, <2>5, <2>7
  <2> QED BY <1>2, <2>6, <2>7
<1>21. IdsOf(k.conditions) = Hiding(b)
  BY <1>4, <1>6, <1>7, <1>14 DEF Alters
<1>22. Quelled(k, Quelling(b))
  <2>1. k.suppressed = (h.suppressed /\ ~d.suppresses) /\ k.shared = h.shared
    BY <1>4, <1>11, <1>14 DEF Alters, SameGear
  <2>2. Quelled(h, Quelling(a))
    BY DEF Granted
  <2> QED BY ONLY <2>1, <2>2, <1>2, <1>6, <1>7 DEF Quelled
<1> QED BY <1>5, <1>6, <1>15, <1>16, <1>19, <1>20, <1>21, <1>22 DEF Granted
-----------------------------------------------------------------------------
\* The types whose abilities a player has: those of the enabled items.
GearOf(h) == [s \in Places |-> IF h.enabled[s] THEN h.worn[s] ELSE Bare]

Clad(h, s) == h.enabled[s] => h.worn[s] # Bare

HeroInv(h) == Sound(h) /\ NotBoth(h) /\ (\A s \in Places : Clad(h, s)) /\ Granted(h, GearOf(h))

Redressed(h, w, e) == [h EXCEPT !.worn = w, !.enabled = e]

LEMMA RedressedGives ==
    ASSUME NEW h, Sound(h), NotBoth(h), NEW a, Granted(h, a), NEW w \in Outfits, NEW e \in [Places -> BOOLEAN],
           NEW k, k = Redressed(h, w, e)
    PROVE  /\ Sound(k) /\ NotBoth(k) /\ Granted(k, a)
           /\ k.worn = w /\ k.enabled = e /\ k.base = h.base
<1>1. h \in Heroes
  BY DEF Sound
<1>2. /\ k \in Heroes /\ k.worn = w /\ k.enabled = e
      /\ k.speed = h.speed /\ k.stats = h.stats /\ k.suppressed = h.suppressed /\ k.shared = h.shared
      /\ k.conditions = h.conditions /\ k.hidden = h.hidden /\ k.reborn = h.reborn /\ k.grown = h.grown
      /\ k.base = h.base
  BY <1>1 DEF Redressed, Heroes, Outfits, Types
<1>3. Sound(k) /\ NotBoth(k)
  BY <1>2 DEF Sound, SeenSo, NotBoth
<1>4. RestSpeed(k) = RestSpeed(h) /\ RestStats(k) = RestStats(h)
  BY <1>2 DEF RestSpeed, RestStats
<1>5. Granted(k, a)
  BY <1>2, <1>4 DEF Granted, Quelled
<1> QED BY <1>2, <1>3, <1>5

LEMMA WearsAgain ==
    ASSUME NEW S, NEW w \in [Places -> S], NEW s \in Places, NEW v \in [Places -> S],
           \A t \in Places \ {s} : v[t] = w[t]
    PROVE  Wears(w, s, v[s]) = v
BY DEF Wears

LEMMA HeroIs ==
    ASSUME NEW h, Sound(h)
    PROVE  /\ h \in Heroes /\ h.worn \in Outfits /\ h.enabled \in [Places -> BOOLEAN]
           /\ h.base \in Nat /\ GearOf(h) \in Outfits
           /\ \A s \in Places : GearOf(h)[s] = IF h.enabled[s] THEN h.worn[s] ELSE Bare
<1>1. /\ h \in Heroes /\ h.worn \in Outfits /\ h.enabled \in [Places -> BOOLEAN] /\ h.base \in Nat
  BY EffectsAssumption DEF Sound, Heroes, Outfits, Types
<1> QED BY <1>1 DEF GearOf, Outfits, Types

LEMMA EquipGives ==
    ASSUME NEW h, Sound(h), NotBoth(h), NEW a, Granted(h, a), NEW s \in Places,
           a[s] = GearOf(h)[s], Clad(h, s), NEW k, k = EquipItem(h, s)
    PROVE  /\ Sound(k) /\ NotBoth(k) /\ k.base = h.base /\ Clad(k, s)
           /\ Granted(k, Wears(a, s, GearOf(k)[s]))
           /\ \A t \in Places \ {s} : k.worn[t] = h.worn[t] /\ k.enabled[t] = h.enabled[t]
<1>1. /\ h \in Heroes /\ h.worn \in Outfits /\ h.enabled \in [Places -> BOOLEAN] /\ h.base \in Nat
      /\ GearOf(h)[s] = IF h.enabled[s] THEN h.worn[s] ELSE Bare
  BY HeroIs
<1>2. a \in Outfits
  BY DEF Granted
<1>3. Wears(a, s, a[s]) = a
  BY <1>2, WearsAgain DEF Outfits
<1>4. PICK g : g = h.worn[s]
  OBVIOUS
<1>5. g \in Types
  BY <1>1, <1>4 DEF Outfits
<1>6. CASE g = Bare \/ h.enabled[s] \/ ~MayWear(h, g)
  <2>1. k = h
    BY <1>4, <1>6 DEF EquipItem
  <2> QED BY <1>3, <2>1
<1>7. CASE ~(g = Bare \/ h.enabled[s] \/ ~MayWear(h, g))
  <2>1. g \in Gear /\ ~h.enabled[s] /\ a[s] = Bare
    BY <1>1, <1>5, <1>7 DEF Types
  <2>2. PICK x : x = IF GearData[g].worn = Bare THEN g ELSE GearData[g].worn
    OBVIOUS
  <2>3. x \in Gear /\ x \in Types
    BY <2>1, <2>2, GearIs DEF Types
  <2>4. PICK w : w = Wears(h.worn, s, x)
    OBVIOUS
  <2>5. w \in Outfits /\ w[s] = x /\ \A t \in Places \ {s} : w[t] = h.worn[t]
    BY ONLY <1>1, <2>3, <2>4 DEF Wears, Outfits
  <2>6. CASE ~MayWear(h, x)
    <3>1. k = [h EXCEPT !.worn[s] = x]
      BY <1>4, <1>7, <2>2, <2>6 DEF EquipItem
    <3>2. k = Redressed(h, w, h.enabled)
      BY <1>1, <2>4, <3>1 DEF Redressed, Wears, Heroes
    <3>3. /\ Sound(k) /\ NotBoth(k) /\ Granted(k, a) /\ k.worn = w /\ k.enabled = h.enabled /\ k.base = h.base
      BY <1>1, <2>5, <3>2, RedressedGives
    <3>4. GearOf(k)[s] = Bare
      BY <2>1, <3>3, HeroIs
    <3> QED BY <1>3, <2>1, <2>5, <3>3, <3>4 DEF Clad
  <2>7. CASE MayWear(h, x)
    <3>1. PICK e : e = Wears(h.enabled, s, TRUE)
      OBVIOUS
    <3>2. e \in [Places -> BOOLEAN] /\ e[s] = TRUE /\ \A t \in Places \ {s} : e[t] = h.enabled[t]
      BY ONLY <1>1, <3>1 DEF Wears
    <3>3. PICK i : i = Redressed(h, w, e)
      OBVIOUS
    <3>4. i = [h EXCEPT !.worn[s] = x, !.enabled[s] = TRUE]
      BY <1>1, <2>4, <3>1, <3>3 DEF Redressed, Wears, Heroes
    <3>5. k = GrantAbilities(i, s, x)
      BY <1>4, <1>7, <2>2, <2>7, <3>4 DEF EquipItem
    <3>6. /\ Sound(i) /\ NotBoth(i) /\ Granted(i, a) /\ i.worn = w /\ i.enabled = e /\ i.base = h.base
      BY <2>5, <3>2, <3>3, RedressedGives
    <3>7. /\ Sound(k) /\ NotBoth(k) /\ Granted(k, Wears(a, s, x))
          /\ k.worn = w /\ k.enabled = e /\ k.base = h.base
      BY <2>1, <2>3, <3>5, <3>6, Grant
    <3>8. GearOf(k)[s] = x /\ x # Bare
      BY <2>3, <2>5, <3>2, <3>7, HeroIs, GearIs
    <3> QED BY <2>5, <3>2, <3>7, <3>8 DEF Clad
  <2> QED BY <2>6, <2>7
<1> QED BY <1>6, <1>7

LEMMA EquipKeeps ==
    ASSUME NEW h, HeroInv(h), NEW s \in Places, NEW k, k = EquipItem(h, s)
    PROVE  HeroInv(k) /\ k.base = h.base
<1>1. Sound(h) /\ NotBoth(h) /\ Granted(h, GearOf(h)) /\ \A t \in Places : Clad(h, t)
  BY DEF HeroInv
<1>2. /\ Sound(k) /\ NotBoth(k) /\ k.base = h.base /\ Clad(k, s)
      /\ Granted(k, Wears(GearOf(h), s, GearOf(k)[s]))
      /\ \A t \in Places \ {s} : k.worn[t] = h.worn[t] /\ k.enabled[t] = h.enabled[t]
  BY <1>1, EquipGives
<1>3. /\ GearOf(h) \in Outfits /\ GearOf(k) \in Outfits
      /\ \A t \in Places \ {s} : GearOf(k)[t] = GearOf(h)[t]
  BY <1>1, <1>2, HeroIs
<1>4. Wears(GearOf(h), s, GearOf(k)[s]) = GearOf(k)
  BY <1>3, WearsAgain DEF Outfits
<1>5. \A t \in Places : Clad(k, t)
  BY <1>1, <1>2 DEF Clad
<1> QED BY <1>2, <1>4, <1>5 DEF HeroInv

LEMMA RewearKeeps ==
    ASSUME NEW h, HeroInv(h), NEW s \in Places, ~h.enabled[s], NEW x \in Types, NEW k, k = [h EXCEPT !.worn[s] = x]
    PROVE  HeroInv(k) /\ k.base = h.base
<1>1. Sound(h) /\ NotBoth(h) /\ Granted(h, GearOf(h)) /\ \A t \in Places : Clad(h, t)
  BY DEF HeroInv
<1>2. /\ h \in Heroes /\ h.worn \in Outfits /\ h.enabled \in [Places -> BOOLEAN]
  BY <1>1, HeroIs
<1>3. PICK w : w = Wears(h.worn, s, x)
  OBVIOUS
<1>4. w \in Outfits /\ \A t \in Places \ {s} : w[t] = h.worn[t]
  BY ONLY <1>2, <1>3 DEF Wears, Outfits
<1>5. k = Redressed(h, w, h.enabled)
  BY <1>2, <1>3 DEF Redressed, Wears, Heroes
<1>6. /\ Sound(k) /\ NotBoth(k) /\ Granted(k, GearOf(h)) /\ k.worn = w /\ k.enabled = h.enabled /\ k.base = h.base
  BY ONLY <1>1, <1>2, <1>4, <1>5, RedressedGives
<1>7. GearOf(k) = GearOf(h)
  BY <1>4, <1>6 DEF GearOf
<1>8. \A t \in Places : Clad(k, t)
  BY <1>1, <1>4, <1>6 DEF Clad
<1> QED BY <1>6, <1>7, <1>8 DEF HeroInv

LEMMA DeEquipGives ==
    ASSUME NEW h, Sound(h), NotBoth(h), NEW a, Granted(h, a), NEW s \in Places, NEW g \in Gear,
           a[s] = IF h.enabled[s] THEN g ELSE Bare, h.worn[s] = Bare,
           \A t \in Places \ {s} : a[t] = GearOf(h)[t] /\ Clad(h, t),
           NEW to, to \subseteq Places \ {s}, \A t \in to : ~h.enabled[t],
           NEW k, k = DeEquipItem(h, s, g, to)
    PROVE  HeroInv(k) /\ k.base = h.base /\ ~k.enabled[s]
<1>1. /\ h \in Heroes /\ h.worn \in Outfits /\ h.enabled \in [Places -> BOOLEAN] /\ a \in Outfits
      /\ GearOf(h) \in Outfits
  BY HeroIs DEF Granted
<1>2. CASE ~h.enabled[s]
  <2>1. k = h
    BY <1>2 DEF DeEquipItem
  <2>2. \A t \in Places : a[t] = GearOf(h)[t] /\ Clad(h, t)
    BY <1>2, HeroIs DEF Clad
  <2>3. a = GearOf(h)
    BY <1>1, <2>2 DEF Outfits
  <2> QED BY <1>2, <2>1, <2>2, <2>3 DEF HeroInv
<1>3. CASE h.enabled[s]
  <2>1. PICK e : e = Wears(h.enabled, s, FALSE)
    OBVIOUS
  <2>2. e \in [Places -> BOOLEAN] /\ ~e[s] /\ \A t \in Places \ {s} : e[t] = h.enabled[t]
    BY ONLY <1>1, <2>1 DEF Wears
  <2>3. PICK i : i = Redressed(h, h.worn, e)
    OBVIOUS
  <2>4. i = [h EXCEPT !.enabled[s] = FALSE]
    BY <1>1, <2>1, <2>3 DEF Redressed, Wears, Heroes
  <2>5. Sound(i) /\ NotBoth(i) /\ Granted(i, a) /\ i.worn = h.worn /\ i.enabled = e /\ i.base = h.base
    BY ONLY <1>1, <2>2, <2>3, RedressedGives, Sound(h), NotBoth(h), Granted(h, a)
  <2>6. \A t \in Places \ {s} : a[t] = GearOf(i)[t] /\ Clad(i, t)
    <3>1. \A t \in Places \ {s} : GearOf(i)[t] = GearOf(h)[t]
      BY <2>2, <2>5, HeroIs
    <3> QED BY <2>2, <2>5, <3>1 DEF Clad
  <2>7. PICK j : j = IF GearData[g].off = Bare \/ to = {} THEN i
                     ELSE LET t == CHOOSE x \in to : TRUE
                          IN  EquipItem([i EXCEPT !.worn[t] = GearData[g].off], t)
    OBVIOUS
  <2>8. k = WithdrawAbilities(j, s, g)
    BY <1>3, <2>4, <2>7 DEF DeEquipItem
  <2>9. PICK b : /\ Sound(j) /\ NotBoth(j) /\ Granted(j, b) /\ j.base = h.base /\ ~j.enabled[s]
                 /\ b[s] = g /\ \A t \in Places \ {s} : b[t] = GearOf(j)[t] /\ Clad(j, t)
    <3>1. CASE GearData[g].off = Bare \/ to = {}
      BY <1>3, <2>2, <2>5, <2>6, <2>7, <3>1
    <3>2. CASE ~(GearData[g].off = Bare \/ to = {})
      <4>1. PICK t : t = CHOOSE x \in to : TRUE
        OBVIOUS
      <4>2. t \in to /\ t \in Places /\ t # s /\ ~h.enabled[t]
        BY <3>2, <4>1
      <4>3. PICK off : off = GearData[g].off
        OBVIOUS
      <4>4. off \in Types
        BY <4>3, GearIs
      <4>5. PICK w : w = Wears(h.worn, t, off)
        OBVIOUS
      <4>6. w \in Outfits /\ \A x \in Places \ {t} : w[x] = h.worn[x]
        BY ONLY <1>1, <4>2, <4>4, <4>5 DEF Wears, Outfits
      <4>7. PICK l : l = Redressed(i, w, e)
        OBVIOUS
      <4>8. /\ Sound(l) /\ NotBoth(l) /\ Granted(l, a) /\ l.worn = w /\ l.enabled = e /\ l.base = h.base
        BY ONLY <2>2, <2>5, <4>6, <4>7, RedressedGives
      <4>9. l = [i EXCEPT !.worn[t] = off]
        <5>1. i \in Heroes
          BY <2>5 DEF Sound
        <5> QED BY ONLY <2>5, <4>5, <4>7, <5>1 DEF Redressed, Wears, Heroes
      <4>10. j = EquipItem(l, t)
        BY <2>7, <3>2, <4>1, <4>3, <4>9
      <4>11. ~l.enabled[t] /\ GearOf(l)[t] = Bare /\ Clad(l, t) /\ a[t] = Bare
        <5>1. ~l.enabled[t]
          BY <2>2, <4>2, <4>8
        <5>2. GearOf(l)[t] = Bare /\ GearOf(h)[t] = Bare
          BY <4>2, <4>8, <5>1, HeroIs
        <5> QED BY <4>2, <5>1, <5>2 DEF Clad
      <4>12. /\ Sound(j) /\ NotBoth(j) /\ j.base = l.base /\ Clad(j, t)
             /\ Granted(j, Wears(a, t, GearOf(j)[t]))
             /\ \A x \in Places \ {t} : j.worn[x] = l.worn[x] /\ j.enabled[x] = l.enabled[x]
        BY ONLY <4>2, <4>8, <4>10, <4>11, EquipGives
      <4>13. PICK b : b = Wears(a, t, GearOf(j)[t])
        OBVIOUS
      <4>14. b[t] = GearOf(j)[t] /\ \A x \in Places \ {t} : b[x] = a[x]
        BY ONLY <1>1, <4>2, <4>13 DEF Wears, Outfits
      <4>15. b[s] = g /\ ~j.enabled[s] /\ j.base = h.base
        BY <1>3, <2>2, <4>2, <4>8, <4>12, <4>14
      <4>16. ASSUME NEW x \in Places \ {s, t} PROVE b[x] = GearOf(j)[x] /\ Clad(j, x)
        <5>1. j.worn[x] = h.worn[x] /\ j.enabled[x] = h.enabled[x]
          BY <2>2, <4>6, <4>8, <4>12, <4>16
        <5>2. GearOf(j)[x] = GearOf(h)[x]
          BY <4>12, <5>1, HeroIs
        <5> QED BY <4>14, <5>1, <5>2 DEF Clad
      <4>17. \A x \in Places \ {s} : b[x] = GearOf(j)[x] /\ Clad(j, x)
        BY <4>12, <4>14, <4>16
      <4> QED BY <4>12, <4>13, <4>15, <4>17
    <3> QED BY <3>1, <3>2
  <2>10. /\ Sound(k) /\ NotBoth(k) /\ Granted(k, Wears(b, s, Bare))
         /\ k.worn = j.worn /\ k.enabled = j.enabled /\ k.base = j.base
    BY <2>8, <2>9, Withdraw
  <2>11. b \in Outfits /\ GearOf(k) \in Outfits
         /\ \A x \in Places : GearOf(k)[x] = IF k.enabled[x] THEN k.worn[x] ELSE Bare
    BY <2>9, <2>10, HeroIs DEF Granted
  <2>12. \A x \in Places \ {s} : GearOf(k)[x] = b[x]
    <3>1. GearOf(k) = GearOf(j)
      BY <2>10 DEF GearOf
    <3> QED BY <2>9, <3>1
  <2>13. GearOf(k)[s] = Bare
    BY <2>9, <2>10, <2>11
  <2>14. Wears(b, s, Bare) = GearOf(k)
    BY ONLY <2>11, <2>12, <2>13 DEF Wears, Outfits
  <2>15. \A t \in Places : Clad(k, t)
    BY <2>9, <2>10 DEF Clad
  <2> QED BY <2>9, <2>10, <2>14, <2>15 DEF HeroInv
<1> QED BY <1>1, <1>2, <1>3

Leaves(h, s, x) == [h EXCEPT !.worn[s] = x]

\* An item leaves slot s: it is no longer there, but its abilities are.
LEMMA LeavesSlot ==
    ASSUME NEW h, HeroInv(h), NEW s \in Places, NEW x \in Types, NEW k, k = Leaves(h, s, x)
    PROVE  /\ Sound(k) /\ NotBoth(k) /\ Granted(k, GearOf(h))
           /\ k.worn[s] = x /\ k.enabled = h.enabled /\ k.base = h.base
           /\ \A t \in Places \ {s} : k.worn[t] = h.worn[t] /\ GearOf(k)[t] = GearOf(h)[t] /\ Clad(k, t)
<1>1. Sound(h) /\ NotBoth(h) /\ Granted(h, GearOf(h)) /\ \A t \in Places : Clad(h, t)
  BY DEF HeroInv
<1>2. /\ h \in Heroes /\ h.worn \in Outfits /\ h.enabled \in [Places -> BOOLEAN]
  BY <1>1, HeroIs
<1>3. PICK w : w = Wears(h.worn, s, x)
  OBVIOUS
<1>4. w \in Outfits /\ w[s] = x /\ \A t \in Places \ {s} : w[t] = h.worn[t]
  BY ONLY <1>2, <1>3 DEF Wears, Outfits
<1>5. k = Redressed(h, w, h.enabled)
  BY <1>2, <1>3 DEF Leaves, Redressed, Wears, Heroes
<1>6. /\ Sound(k) /\ NotBoth(k) /\ Granted(k, GearOf(h)) /\ k.worn = w /\ k.enabled = h.enabled /\ k.base = h.base
  BY ONLY <1>1, <1>2, <1>4, <1>5, RedressedGives
<1>7. \A t \in Places \ {s} : GearOf(k)[t] = GearOf(h)[t]
  <2>1. \A t \in Places : GearOf(h)[t] = IF h.enabled[t] THEN h.worn[t] ELSE Bare
    BY <1>1, HeroIs
  <2>2. \A t \in Places : GearOf(k)[t] = IF k.enabled[t] THEN k.worn[t] ELSE Bare
    BY <1>6, HeroIs
  <2> QED BY <1>4, <1>6, <2>1, <2>2
<1>8. \A t \in Places \ {s} : Clad(k, t)
  BY <1>1, <1>4, <1>6 DEF Clad
<1> QED BY <1>4, <1>6, <1>7, <1>8

LEMMA TakeOffKeeps ==
    ASSUME NEW h, HeroInv(h), NEW s \in Places, NEW k, k = TakeOff(h, s)
    PROVE  HeroInv(k) /\ k.base = h.base /\ ~k.enabled[s]
<1>1. Sound(h) /\ \A t \in Places : Clad(h, t)
  BY DEF HeroInv
<1>2. CASE h.worn[s] = Bare
  BY <1>1, <1>2 DEF TakeOff, Clad
<1>3. CASE h.worn[s] # Bare
  <2>1. PICK i : i = [h EXCEPT !.worn[s] = Bare]
    OBVIOUS
  <2>2. PICK g : g = h.worn[s]
    OBVIOUS
  <2>3. g \in Gear
    BY <1>1, <1>3, <2>2, HeroIs DEF Outfits, Types
  <2>4. /\ Sound(i) /\ NotBoth(i) /\ Granted(i, GearOf(h))
        /\ i.worn[s] = Bare /\ i.enabled = h.enabled /\ i.base = h.base
        /\ \A t \in Places \ {s} : GearOf(i)[t] = GearOf(h)[t] /\ Clad(i, t)
    <3>1. Bare \in Types /\ HeroInv(h)
      BY DEF Types
    <3>2. i = Leaves(h, s, Bare)
      BY <2>1 DEF Leaves
    <3> QED BY ONLY <3>1, <3>2, LeavesSlot
  <2>5. PICK a : a = GearOf(h)
    OBVIOUS
  <2>6. a[s] = IF i.enabled[s] THEN g ELSE Bare
    BY <1>1, <2>2, <2>4, <2>5, HeroIs
  <2>7. k = DeEquipItem(i, s, g, {})
    BY <1>3, <2>1, <2>2 DEF TakeOff
  <2>8. HeroInv(k) /\ k.base = i.base /\ ~k.enabled[s]
    <3>1. Granted(i, a) /\ \A t \in Places \ {s} : a[t] = GearOf(i)[t] /\ Clad(i, t)
      BY <2>4, <2>5
    <3>2. PICK to : to = {}
      OBVIOUS
    <3>3. to \subseteq Places \ {s} /\ (\A t \in to : ~i.enabled[t]) /\ k = DeEquipItem(i, s, g, to)
      BY <2>7, <3>2
    <3> QED BY ONLY <2>3, <2>4, <2>6, <3>1, <3>3, DeEquipGives
  <2> QED BY <2>4, <2>8
<1> QED BY <1>2, <1>3

LEMMA PutOnKeeps ==
    ASSUME HeroInv(hero), NEW s \in Places, NEW g \in Gear, PutOn(s, g)
    PROVE  HeroInv(hero')
<1>1. PICK h : h = TakeOff(hero, s)
  OBVIOUS
<1>2. HeroInv(h) /\ ~h.enabled[s]
  BY <1>1, TakeOffKeeps
<1>3. PICK k : k = [h EXCEPT !.worn[s] = g]
  OBVIOUS
<1>4. HeroInv(k)
  <2>1. g \in Types
    BY DEF Types
  <2> QED BY ONLY <1>2, <1>3, <2>1, RewearKeeps
<1>5. HeroInv(EquipItem(k, s))
  BY <1>4, EquipKeeps
<1>6. hero' = IF MayWear(hero, g) THEN EquipItem(k, s) ELSE h
  BY <1>1, <1>3 DEF PutOn
<1> QED BY <1>2, <1>5, <1>6

LEMMA UndressKeeps ==
    ASSUME HeroInv(hero), NEW s \in Places, Undress(s)
    PROVE  HeroInv(hero')
BY TakeOffKeeps DEF Undress

LEMMA ChangeHandsKeeps ==
    ASSUME HeroInv(hero), NEW s \in Places, NEW t \in Places, ChangeHands(s, t)
    PROVE  HeroInv(hero')
<1>1. PICK g : g = hero.worn[s]
  OBVIOUS
<1>2. Sound(hero) /\ \A x \in Places : Clad(hero, x)
  BY DEF HeroInv
<1>3. /\ hero \in Heroes /\ hero.worn \in Outfits /\ hero.enabled \in [Places -> BOOLEAN]
  BY <1>2, HeroIs
<1>4. g \in Gear /\ g \in Types /\ hero.worn[t] = Bare /\ s # t /\ ~hero.enabled[t]
  BY <1>1, <1>2, <1>3 DEF ChangeHands, Clad, Outfits, Types
<1>5. PICK i : i = [hero EXCEPT !.worn[t] = g]
  OBVIOUS
<1>6. HeroInv(i) /\ i.worn[s] = g /\ i.enabled = hero.enabled
  <2>1. HeroInv(i)
    BY <1>4, <1>5, RewearKeeps
  <2> QED BY <1>1, <1>3, <1>4, <1>5, <2>1 DEF Heroes
<1>7. PICK h : h = [i EXCEPT !.worn[s] = Bare]
  OBVIOUS
<1>8. h = [hero EXCEPT !.worn[s] = Bare, !.worn[t] = g]
  <2>1. PICK v : v = [hero.worn EXCEPT ![t] = g]
    OBVIOUS
  <2>2. PICK u : u = [hero.worn EXCEPT ![s] = Bare]
    OBVIOUS
  <2>3. [v EXCEPT ![s] = Bare] = [u EXCEPT ![t] = g]
    BY ONLY <1>3, <1>4, <2>1, <2>2 DEF Outfits
  <2>4. i = [hero EXCEPT !.worn = v] /\ h = [i EXCEPT !.worn = [v EXCEPT ![s] = Bare]]
    <3>1. i = [hero EXCEPT !.worn = v]
      BY <1>5, <2>1
    <3>2. i.worn = v
      BY <1>3, <3>1 DEF Heroes
    <3> QED BY <1>7, <3>1, <3>2
  <2>5. [hero EXCEPT !.worn[s] = Bare, !.worn[t] = g] = [hero EXCEPT !.worn = [u EXCEPT ![t] = g]]
    BY ONLY <1>3, <2>2 DEF Heroes
  <2>6. PICK w : w = [u EXCEPT ![t] = g]
    OBVIOUS
  <2>7. h = [[hero EXCEPT !.worn = v] EXCEPT !.worn = w]
    BY ONLY <2>3, <2>4, <2>6
  <2>8. h = [hero EXCEPT !.worn = w]
    BY ONLY <1>3, <2>7 DEF Heroes
  <2> QED BY ONLY <2>5, <2>6, <2>8
<1>9. PICK a : a = GearOf(i)
  OBVIOUS
<1>10. /\ Sound(h) /\ NotBoth(h) /\ Granted(h, a) /\ h.worn[s] = Bare /\ h.enabled = i.enabled
       /\ \A x \in Places \ {s} : a[x] = GearOf(h)[x] /\ Clad(h, x)
  <2>1. Bare \in Types
    BY DEF Types
  <2>2. h = Leaves(i, s, Bare)
    BY <1>7 DEF Leaves
  <2> QED BY ONLY <1>6, <1>9, <2>1, <2>2, LeavesSlot
<1>11. a[s] = IF h.enabled[s] THEN g ELSE Bare
  <2>1. Sound(i)
    BY <1>6 DEF HeroInv
  <2> QED BY <1>6, <1>9, <1>10, <2>1, HeroIs
<1>12. PICK to : to = {t}
  OBVIOUS
<1>13. to \subseteq Places \ {s} /\ \A x \in to : ~h.enabled[x]
  BY <1>4, <1>6, <1>10, <1>12
<1>14. PICK k : k = DeEquipItem(h, s, g, to)
  OBVIOUS
<1>15. HeroInv(k)
  BY ONLY <1>4, <1>10, <1>11, <1>13, <1>14, DeEquipGives
<1>16. hero' = EquipItem(k, t)
  BY <1>1, <1>8, <1>12, <1>14 DEF ChangeHands
<1> QED BY <1>15, <1>16, EquipKeeps

LEMMA TransformWornKeeps ==
    ASSUME HeroInv(hero), NEW s \in Places, NEW g \in Gear, TransformWorn(s, g)
    PROVE  HeroInv(hero')
<1>1. PICK old : old = hero.worn[s]
  OBVIOUS
<1>2. /\ Sound(hero) /\ NotBoth(hero) /\ (\A x \in Places : Clad(hero, x)) /\ Granted(hero, GearOf(hero))
  BY DEF HeroInv
<1>3. /\ hero \in Heroes /\ hero.worn \in Outfits /\ hero.enabled \in [Places -> BOOLEAN]
      /\ \A x \in Places : GearOf(hero)[x] = IF hero.enabled[x] THEN hero.worn[x] ELSE Bare
      /\ GearOf(hero) \in Outfits
  BY <1>2, HeroIs
<1>4. old \in Gear
  BY <1>1, <1>3 DEF TransformWorn, Outfits, Types
<1>5. PICK e : e = Wears(hero.enabled, s, FALSE)
  OBVIOUS
<1>6. e \in [Places -> BOOLEAN] /\ ~e[s] /\ \A x \in Places \ {s} : e[x] = hero.enabled[x]
  BY ONLY <1>3, <1>5 DEF Wears
<1>7. PICK i : i = Redressed(hero, hero.worn, e)
  OBVIOUS
<1>8. i = [hero EXCEPT !.enabled[s] = FALSE]
  BY <1>3, <1>5, <1>7 DEF Redressed, Wears, Heroes
<1>9. PICK a : a = GearOf(hero)
  OBVIOUS
<1>10. Sound(i) /\ NotBoth(i) /\ Granted(i, a) /\ i.worn = hero.worn /\ i.enabled = e
  BY ONLY <1>2, <1>3, <1>6, <1>7, <1>9, RedressedGives
<1>11. PICK h : h = IF hero.enabled[s] THEN WithdrawAbilities(i, s, old) ELSE hero
  OBVIOUS
<1>12. HeroInv(h) /\ ~h.enabled[s]
  <2>1. CASE hero.enabled[s]
    <3>1. a[s] = old
      BY <1>1, <1>3, <1>9, <2>1
    <3>2. /\ Sound(h) /\ NotBoth(h) /\ Granted(h, Wears(a, s, Bare)) /\ h.worn = i.worn /\ h.enabled = i.enabled
      BY <1>4, <1>10, <1>11, <2>1, <3>1, Withdraw
    <3>3. GearOf(h) \in Outfits /\ GearOf(h)[s] = Bare /\ \A x \in Places \ {s} : GearOf(h)[x] = a[x]
      BY <1>3, <1>6, <1>9, <1>10, <3>2, HeroIs
    <3>4. a \in Outfits
      BY <1>3, <1>9
    <3>5. Wears(a, s, Bare) = GearOf(h)
      BY ONLY <3>3, <3>4 DEF Wears, Outfits
    <3>6. \A x \in Places : Clad(h, x)
      BY <1>2, <1>6, <1>10, <3>2 DEF Clad
    <3> QED BY <1>6, <1>10, <3>2, <3>5, <3>6 DEF HeroInv
  <2>2. CASE ~hero.enabled[s]
    BY <1>11, <2>2
  <2> QED BY <2>1, <2>2
<1>13. PICK k : k = [h EXCEPT !.worn[s] = g]
  OBVIOUS
<1>14. HeroInv(k)
  <2>1. g \in Types
    BY DEF Types
  <2> QED BY ONLY <1>12, <1>13, <2>1, RewearKeeps
<1>15. hero' = EquipItem(k, s)
  BY <1>1, <1>8, <1>11, <1>13 DEF TransformWorn
<1> QED BY <1>14, <1>15, EquipKeeps
-----------------------------------------------------------------------------
LEMMA SameGives ==
    ASSUME NEW h, HeroInv(h), NEW k, Sound(k), NotBoth(k), SameGear(k, h),
           IdsOf(k.conditions) = IdsOf(h.conditions)
    PROVE  HeroInv(k) /\ k.base = h.base
<1>1. GearOf(k) = GearOf(h)
  BY DEF GearOf, SameGear
<1>2. \A s \in Places : Clad(k, s)
  BY DEF HeroInv, Clad, SameGear
<1>3. Granted(k, GearOf(h))
  BY DEF HeroInv, Granted, Quelled, SameGear
<1> QED BY <1>1, <1>2, <1>3 DEF HeroInv, SameGear

LEMMA GainKeeps ==
    ASSUME NEW h, HeroInv(h), NEW c, Fresh(c), c.id = Combat, NEW k, k = AddCondition(h, c)
    PROVE  HeroInv(k) /\ k.base = h.base
<1>1. Sound(h) /\ NotBoth(h)
  BY DEF HeroInv
<1>2. /\ Sound(k) /\ NotBoth(k) /\ SameGear(k, h)
      /\ IdsOf(k.conditions) = IdsOf(h.conditions) \union ({c.id} \ {Combat})
  BY <1>1, AddSound
<1>3. IdsOf(k.conditions) = IdsOf(h.conditions)
  BY <1>2
<1> QED BY <1>2, <1>3, SameGives

LEMMA EndKeeps ==
    ASSUME NEW h, HeroInv(h), NEW cs \in SUBSET h.conditions, \A c \in cs : c.id = Combat,
           NEW k, k = EraseConditions(h, cs)
    PROVE  HeroInv(k)
<1>1. Sound(h) /\ NotBoth(h)
  BY DEF HeroInv
<1>2. Sound(k) /\ NotBoth(k) /\ SameGear(k, h) /\ k.conditions = h.conditions \ cs
  BY <1>1, SomeEnd
<1>3. IdsOf(k.conditions) = IdsOf(h.conditions)
  BY <1>2 DEF IdsOf
<1> QED BY <1>2, <1>3, SameGives

\* The conditions with other times: none of them lasts that did not, unless it is renewed.
LEMMA RetimedKeeps ==
    ASSUME NEW h, HeroInv(h), NEW M \in [h.conditions -> Conditions],
           \A c \in h.conditions :
             /\ M[c].kind = c.kind /\ M[c].id = c.id /\ M[c].delta = c.delta
             /\ M[c].id # Combat => M[c].left < 0,
           NEW z \in BOOLEAN, h.reborn => z,
           \A c \in h.conditions : Lasts(M[c]) => Lasts(c) \/ z,
           NEW k, k = [h EXCEPT !.conditions = {M[c] : c \in h.conditions}, !.reborn = z]
    PROVE  HeroInv(k)
<1>1. PICK cs : cs = {M[c] : c \in h.conditions}
  OBVIOUS
<1>2. Sound(h) /\ NotBoth(h) /\ h \in Heroes /\ Distinct(h.conditions) /\ SeenSo(h)
  BY DEF HeroInv, Sound
<1>3. Distinct(cs)
  <2>1. IsFiniteSet(cs)
    <3>1. M \in Surjection(h.conditions, cs)
      BY <1>1 DEF Surjection
    <3> QED BY <1>2, <3>1, FS_Surjection DEF Distinct
  <2>2. \A d \in cs : \E c \in h.conditions : d = M[c]
    BY <1>1
  <2>3. cs \subseteq Conditions
    BY <2>2
  <2>4. \A d \in cs : d.id # Combat => d.kind = "invisible" /\ d.left < 0
    BY <1>2, <2>2 DEF Distinct
  <2>5. ASSUME NEW d \in cs, NEW e \in cs, d.kind = e.kind, d.id = e.id PROVE d = e
    <3>1. PICK c \in h.conditions : d = M[c]
      BY <2>2
    <3>2. PICK b \in h.conditions : e = M[b]
      BY <2>2
    <3>3. c.kind = b.kind /\ c.id = b.id
      BY <2>5, <3>1, <3>2
    <3> QED BY <1>2, <3>1, <3>2, <3>3 DEF Distinct
  <2> QED BY <2>1, <2>3, <2>4, <2>5 DEF Distinct
<1>4. \A kind : Some(cs, kind) <=> Some(h.conditions, kind)
  BY <1>1 DEF Some
<1>5. ASSUME NEW kind, kind # "invisible" PROVE Part(cs, kind) = Part(h.conditions, kind)
  <2>1. CASE Some(h.conditions, kind)
    <3>1. PICK c \in h.conditions : c.kind = kind
      BY <2>1 DEF Some
    <3>2. M[c] \in cs /\ M[c].kind = kind /\ M[c].delta = c.delta
      BY <1>1, <3>1
    <3>3. Part(h.conditions, kind) = c.delta
      BY <1>2, <1>5, <3>1, PartIs
    <3>4. Part(cs, kind) = M[c].delta
      BY <1>3, <1>5, <3>2, PartIs
    <3> QED BY <3>2, <3>3, <3>4
  <2>2. CASE ~Some(h.conditions, kind)
    BY <1>4, <2>2 DEF Part
  <2> QED BY <2>1, <2>2
<1>6. \A kind : Active(cs, kind) => Active(h.conditions, kind) \/ z
  BY <1>1 DEF Active
<1>7. IdsOf(cs) = IdsOf(h.conditions)
  BY <1>1 DEF IdsOf
<1>8. Differs(k, h, cs, h.speed, h.stats, h.hidden, z)
  <2>1. cs \in SUBSET Conditions
    BY <1>3 DEF Distinct
  <2>2. k = [h EXCEPT !.conditions = cs, !.reborn = z]
    BY <1>1
  <2>3. z \in BOOLEAN
    OBVIOUS
  <2> QED BY ONLY <1>2, <2>1, <2>2, <2>3 DEF Differs, Heroes
<1>9. SameGear(k, h)
  <2>1. RestSpeed(k) = RestSpeed(h) /\ RestStats(k) = RestStats(h)
    BY <1>5, <1>8 DEF RestSpeed, RestStats, Differs
  <2> QED BY <1>8, <2>1 DEF SameGear, Differs
<1>10. SeenSo(k) /\ NotBoth(k)
  BY <1>2, <1>4, <1>6, <1>8 DEF SeenSo, NotBoth, Differs
<1>11. Sound(k)
  BY <1>3, <1>8, <1>10 DEF Sound, Differs
<1> QED BY <1>7, <1>8, <1>9, <1>10, <1>11, SameGives DEF Differs

LEMMA TimePassesKeeps ==
    ASSUME HeroInv(hero), TimePasses
    PROVE  HeroInv(hero')
<1>1. hero \in Heroes /\ Distinct(hero.conditions)
  BY DEF HeroInv, Sound
<1>2. PICK M : M = [c \in hero.conditions |-> Older(c)]
  OBVIOUS
<1>3. \A c \in hero.conditions :
        /\ Older(c) \in Conditions /\ Older(c).kind = c.kind /\ Older(c).id = c.id /\ Older(c).delta = c.delta
        /\ Older(c).id # Combat => Older(c).left < 0
        /\ Lasts(Older(c)) => Lasts(c)
  <2>1. ASSUME NEW c \in hero.conditions
        PROVE /\ Older(c) \in Conditions /\ Older(c).kind = c.kind /\ Older(c).id = c.id /\ Older(c).delta = c.delta
              /\ Older(c).id # Combat => Older(c).left < 0
              /\ Lasts(Older(c)) => Lasts(c)
    <3>1. c \in Conditions /\ (c.id # Combat => c.left < 0)
      BY <1>1 DEF Distinct
    <3>2. PICK n : n = IF c.left > 0 THEN c.left - 1 ELSE c.left
      OBVIOUS
    <3>3. n \in Lefts /\ (c.left < 0 => n < 0) /\ (n = Forever \/ n > 0 => c.left = Forever \/ c.left > 0)
      BY <3>1, <3>2 DEF Conditions, Lefts, Forever, Lapsed
    <3>4. Older(c) = [c EXCEPT !.left = n]
      BY <3>2 DEF Older
    <3>5. /\ Older(c) \in Conditions /\ Older(c).kind = c.kind /\ Older(c).id = c.id
          /\ Older(c).delta = c.delta /\ Older(c).left = n
      BY ONLY <3>1, <3>3, <3>4 DEF Conditions
    <3> QED BY <3>1, <3>3, <3>5 DEF Lasts
  <2> QED BY <2>1
<1>4. /\ M \in [hero.conditions -> Conditions]
      /\ \A c \in hero.conditions :
             /\ M[c].kind = c.kind /\ M[c].id = c.id /\ M[c].delta = c.delta
             /\ M[c].id # Combat => M[c].left < 0
      /\ \A c \in hero.conditions : Lasts(M[c]) => Lasts(c) \/ hero.reborn
  BY <1>2, <1>3
<1>5. {M[c] : c \in hero.conditions} = {Older(c) : c \in hero.conditions}
  BY <1>2
<1>6. hero' = [hero EXCEPT !.conditions = {M[c] : c \in hero.conditions}, !.reborn = hero.reborn]
  BY <1>1, <1>5 DEF TimePasses, Heroes
<1>7. hero.reborn \in BOOLEAN
  BY <1>1 DEF Heroes
<1> QED BY <1>4, <1>6, <1>7, RetimedKeeps

LEMMA ExecuteKeeps == ASSUME HeroInv(hero), ExecuteConditions PROVE HeroInv(hero')
<1>1. PICK cs : cs = {c \in hero.conditions : c.left = 0}
  OBVIOUS
<1>2. cs \in SUBSET hero.conditions /\ \A c \in cs : c.id = Combat
  BY <1>1 DEF HeroInv, Sound, Distinct
<1> QED BY <1>1, <1>2, EndKeeps DEF ExecuteConditions

LEMMA RemoveKeeps == ASSUME HeroInv(hero), NEW kind, RemoveByScript(kind) PROVE HeroInv(hero')
<1>1. PICK cs : cs = {c \in OfKind(hero, kind) : c.id = Combat}
  OBVIOUS
<1>2. cs \in SUBSET hero.conditions /\ \A c \in cs : c.id = Combat
  BY <1>1 DEF OfKind
<1> QED BY <1>1, <1>2, EndKeeps DEF RemoveByScript

LEMMA DispelKeeps ==
    ASSUME HeroInv(hero), NEW kind \in EffectKinds, NEW delay \in 0..MaxDelay, Dispel(kind, delay)
    PROVE  HeroInv(hero')
<1>1. PICK cs : cs = {c \in OfKind(hero, kind) : c.id = Combat}
  OBVIOUS
<1>2. cs \in SUBSET hero.conditions /\ \A c \in cs : c.id = Combat
  BY <1>1 DEF OfKind
<1>3. CASE delay = 0
  <2>1. hero' = EraseConditions(hero, cs)
    BY <1>1, <1>3 DEF Dispel
  <2> QED BY <1>2, <2>1, EndKeeps
<1>4. CASE delay # 0
  <2>1. hero \in Heroes /\ Distinct(hero.conditions)
    BY DEF HeroInv, Sound
  <2>2. delay \in Nat /\ delay > 0
    BY <1>4, EffectsAssumption
  <2>3. PICK M : M = [c \in hero.conditions |-> IF c \in cs THEN [c EXCEPT !.left = delay] ELSE c]
    OBVIOUS
  <2>4. PICK z : z = (hero.reborn \/ \E c \in cs : c.left \in {0, Lapsed})
    OBVIOUS
  <2>5. z \in BOOLEAN /\ (hero.reborn => z)
    BY <2>1, <2>4 DEF Heroes
  <2>6. ASSUME NEW c \in hero.conditions
        PROVE /\ M[c] \in Conditions /\ M[c].kind = c.kind /\ M[c].id = c.id /\ M[c].delta = c.delta
              /\ M[c].id # Combat => M[c].left < 0
              /\ Lasts(M[c]) => Lasts(c) \/ z
    <3>1. c \in Conditions /\ (c.id # Combat => c.left < 0)
      BY <2>1 DEF Distinct
    <3>2. CASE c \in cs
      <4>1. M[c] = [c EXCEPT !.left = delay]
        BY <2>3, <3>2
      <4>2. M[c] \in Conditions /\ M[c].kind = c.kind /\ M[c].id = c.id /\ M[c].delta = c.delta
        BY ONLY <2>2, <3>1, <4>1 DEF Conditions, Lefts
      <4>3. Lasts(c) \/ z
        <5>1. c.left \in Lefts
          BY <3>1 DEF Conditions
        <5>2. c.left \in {0, Lapsed} \/ Lasts(c)
          BY ONLY <5>1 DEF Lasts, Lefts
        <5> QED BY ONLY <2>4, <3>2, <5>2
      <4> QED BY <1>2, <3>2, <4>2, <4>3
    <3>3. CASE c \notin cs
      BY <2>3, <3>1, <3>3
    <3> QED BY <3>2, <3>3
  <2>7. M \in [hero.conditions -> Conditions]
    BY <2>3, <2>6
  <2>8. {M[c] : c \in hero.conditions} = (hero.conditions \ cs) \union {[c EXCEPT !.left = delay] : c \in cs}
    <3>1. \A c \in cs : M[c] = [c EXCEPT !.left = delay]
      BY <1>2, <2>3
    <3>2. \A c \in hero.conditions \ cs : M[c] = c
      BY <2>3
    <3>3. {M[c] : c \in cs} = {[c EXCEPT !.left = delay] : c \in cs}
      BY ONLY <3>1
    <3>4. {M[c] : c \in hero.conditions \ cs} = hero.conditions \ cs
      BY ONLY <3>2
    <3>5. {M[c] : c \in hero.conditions} = {M[c] : c \in hero.conditions \ cs} \union {M[c] : c \in cs}
      BY ONLY <1>2
    <3> QED BY ONLY <3>3, <3>4, <3>5
  <2>9. hero' = [hero EXCEPT !.conditions = {M[c] : c \in hero.conditions}, !.reborn = z]
    <3>1. hero' = [hero EXCEPT !.conditions = (hero.conditions \ cs) \union {[c EXCEPT !.left = delay] : c \in cs},
                               !.reborn = hero.reborn \/ \E c \in cs : c.left \in {0, Lapsed}]
      BY <1>1, <1>4 DEF Dispel
    <3> QED BY ONLY <2>4, <2>8, <3>1
  <2>10. /\ \A c \in hero.conditions :
             /\ M[c].kind = c.kind /\ M[c].id = c.id /\ M[c].delta = c.delta
             /\ M[c].id # Combat => M[c].left < 0
         /\ \A c \in hero.conditions : Lasts(M[c]) => Lasts(c) \/ z
    BY <2>6
  <2> QED BY <2>5, <2>7, <2>9, <2>10, RetimedKeeps
<1> QED BY <1>3, <1>4

LEMMA GainConditionKeeps == ASSUME HeroInv(hero), NEW c \in Spells, GainCondition(c) PROVE HeroInv(hero')
<1>1. Fresh(c) /\ c.id = Combat
  BY EffectsAssumption DEF Fresh, Conditions, Lefts, Forever
<1> QED BY <1>1, GainKeeps DEF GainCondition

LEMMA ChangeLevelKeeps ==
    ASSUME HeroInv(hero), NEW base \in 1..MaxBase, ChangeLevel(base)
    PROVE  HeroInv(hero')
<1>1. PICK grows : grows = \E s \in Places : hero.enabled[s] /\ GearData[hero.worn[s]].percent
  OBVIOUS
<1>2. PICK k : k = hero'
  OBVIOUS
<1>3. k = [hero EXCEPT !.base = base, !.grown = hero.grown \/ grows]
  BY <1>1, <1>2 DEF ChangeLevel
<1>4. /\ Sound(hero) /\ NotBoth(hero) /\ (\A x \in Places : Clad(hero, x)) /\ Granted(hero, GearOf(hero))
      /\ hero \in Heroes /\ hero.grown \in BOOLEAN
  BY DEF HeroInv, Sound, Heroes
<1>5. grows \in BOOLEAN
  BY <1>1
<1>6. /\ k \in Heroes /\ k.worn = hero.worn /\ k.enabled = hero.enabled
      /\ k.speed = hero.speed /\ k.stats = hero.stats /\ k.suppressed = hero.suppressed /\ k.shared = hero.shared
      /\ k.conditions = hero.conditions /\ k.hidden = hero.hidden /\ k.reborn = hero.reborn
      /\ k.grown = (hero.grown \/ grows) /\ k.base = base
  BY ONLY <1>3, <1>4, <1>5, base \in 1..MaxBase DEF Heroes
<1>7. Sound(k) /\ NotBoth(k) /\ \A x \in Places : Clad(k, x)
  BY <1>4, <1>6 DEF Sound, SeenSo, NotBoth, Clad
<1>8. PICK a : a = GearOf(hero)
  OBVIOUS
<1>9. GearOf(k) = a
  BY <1>6, <1>8 DEF GearOf
<1>10. RestSpeed(k) = RestSpeed(hero) /\ RestStats(k) = RestStats(hero)
  BY <1>6 DEF RestSpeed, RestStats
<1>11. k.grown \/ RestStats(k) = k.base * Cardinality(Raising(a))
  <2>1. SUFFICES ASSUME ~k.grown PROVE RestStats(k) = k.base * Cardinality(Raising(a))
    OBVIOUS
  <2>2. ~grows /\ RestStats(hero) = hero.base * Cardinality(Raising(a))
    BY <1>4, <1>6, <1>8, <2>1 DEF Granted
  <2>3. Raising(a) = {}
    BY <1>1, <1>4, <1>8, <2>2, HeroIs DEF Raising
  <2>4. Cardinality(Raising(a)) = 0
    BY <2>3, FS_EmptySet
  <2>5. hero.base \in Nat /\ k.base \in Nat
    BY <1>4, <1>6, EffectsAssumption DEF Heroes
  <2>6. RestStats(k) = hero.base * 0
    BY ONLY <1>10, <2>2, <2>4
  <2>7. hero.base * 0 = 0 /\ k.base * 0 = 0
    BY ONLY <2>5
  <2> QED BY ONLY <2>4, <2>6, <2>7
<1>12. Granted(k, a)
  BY <1>4, <1>6, <1>8, <1>10, <1>11 DEF Granted, Quelled
<1> QED BY <1>2, <1>7, <1>9, <1>12 DEF HeroInv

LEMMA NewHeroIs ==
    ASSUME NEW base \in 1..MaxBase, NEW worn \in Outfits, NEW k, k = NewHero(base, worn)
    PROVE  HeroInv(k) /\ k.base = base
<1>1. /\ k \in Heroes /\ k.conditions = {} /\ k.speed = 0 /\ k.stats = 0 /\ k.base = base /\ ~k.hidden
      /\ ~k.suppressed /\ k.worn = worn /\ k.enabled = [s \in Places |-> FALSE] /\ ~k.shared
  BY DEF NewHero, Heroes, Outfits, Types
<1>2. PICK no : no = {}
  OBVIOUS
<1>3. k.conditions = no /\ ~(\E c \in no : TRUE) /\ no = {}
  BY <1>1, <1>2
<1>4. Distinct(no) /\ IdsOf(no) = {} /\ \A kind : ~Some(no, kind) /\ ~Active(no, kind)
  BY <1>3, FS_EmptySet DEF Distinct, IdsOf, Some, Active
<1>5. Sound(k) /\ NotBoth(k)
  BY <1>1, <1>3, <1>4 DEF Sound, SeenSo, NotBoth
<1>6. RestSpeed(k) = 0 /\ RestStats(k) = 0
  BY <1>1, <1>3, <1>4 DEF RestSpeed, RestStats, Part
<1>7. PICK a : a = GearOf(k)
  OBVIOUS
<1>8. a \in Outfits /\ \A t \in Places : a[t] = Bare
  BY <1>1, <1>5, <1>7, HeroIs
<1>9. Hiding(a) = {} /\ Raising(a) = {} /\ Quelling(a) = {} /\ Cardinality(Raising(a)) = 0
  BY <1>8, FS_EmptySet DEF Hiding, Raising, Quelling
<1>10. SpeedSum(a) = 0
  <2>1. IsFiniteSet(Places)
    BY EffectsAssumption
  <2>2. \A t \in Places : [x \in Places |-> SpeedOf(a[x])][t] = 0
    BY <1>8 DEF SpeedOf
  <2>3. PICK f : f = [x \in Places |-> SpeedOf(a[x])]
    OBVIOUS
  <2>4. \A t \in Places : f[t] = 0
    BY <2>2, <2>3
  <2>5. SumFunctionOnSet(f, Places) = 0
    BY <2>1, <2>4, SumNothing
  <2> QED BY <2>3, <2>5 DEF SpeedSum
<1>11. k.base * 0 = 0
  BY <1>1, EffectsAssumption
<1>12. Granted(k, a)
  BY <1>1, <1>3, <1>4, <1>6, <1>8, <1>9, <1>10, <1>11 DEF Granted, Quelled
<1>13. \A t \in Places : Clad(k, t)
  BY <1>1 DEF Clad
<1> QED BY <1>1, <1>5, <1>7, <1>12, <1>13 DEF HeroInv

\* A new object puts on what is worn, one slot after another.
LEMMA DressedKeeps ==
    ASSUME NEW h, HeroInv(h), 
           NEW k, k = FoldSet(LAMBDA s, i : EquipItem(i, s), h, Places)
    PROVE  HeroInv(k)
<1> DEFINE P(g) == g = [s \in SUBSET Places |-> IF s = {} THEN h ELSE EquipItem(g[s \ {Picked(s)}], Picked(s))]
           step == [x \in Places \X Heroes |-> EquipItem(x[2], x[1])]
           W == [s \in SUBSET Places |-> {i \in Heroes : HeroInv(i)}]
<1>0. IsFiniteSet(Places)
  BY EffectsAssumption
<1>1. k = (CHOOSE g : P(g))[Places]
  BY DEF FoldSet, MapThenFoldSet, Picked
<1>2. PICK f : IsFold(f, Places, h, step)
  <2> HIDE DEF step
  <2> QED BY <1>0, FoldExists
<1>3. \A s \in SUBSET Places : f[s] \in W[s]
  <2>1. h \in W[{}]
    BY DEF HeroInv, Sound
  <2>2. ASSUME NEW s \in SUBSET Places, s # {}, NEW v \in W[s \ {Picked(s)}]
        PROVE  step[<<Picked(s), v>>] \in W[s]
    <3>1. PICK c : c = Picked(s)
      OBVIOUS
    <3>2. c \in Places /\ s \ {c} \in SUBSET Places
      BY <1>0, <2>2, <3>1, FirstOut
    <3>3. v \in Heroes /\ HeroInv(v)
      BY <2>2, <3>1, <3>2
    <3>4. PICK w : w = EquipItem(v, c)
      OBVIOUS
    <3>5. HeroInv(w) /\ w \in Heroes
      BY <3>2, <3>3, <3>4, EquipKeeps DEF HeroInv, Sound
    <3>6. step[<<c, v>>] = w
      BY <3>2, <3>3, <3>4
    <3>7. w \in W[s]
      BY <3>5
    <3> QED BY <3>1, <3>6, <3>7
  <2> HIDE DEF W, step
  <2> QED BY <1>0, <1>2, <2>1, <2>2, FoldRuns
<1>4. \A s \in SUBSET Places : s # {} => Picked(s) \in Places /\ s \ {Picked(s)} \in SUBSET Places
  BY <1>0, FirstOut
<1>5. \A s \in SUBSET Places : f[s] = IF s = {} THEN h ELSE EquipItem(f[s \ {Picked(s)}], Picked(s))
  <2>1. ASSUME NEW s \in SUBSET Places, s # {}, NEW v \in Heroes PROVE step[<<Picked(s), v>>] = EquipItem(v, Picked(s))
    BY <1>4, <2>1
  <2>2. \A s \in SUBSET Places : s # {} => f[s \ {Picked(s)}] \in Heroes
    BY <1>3, <1>4
  <2> HIDE DEF step, W
  <2> QED BY <1>2, <2>1, <2>2 DEF IsFold
<1>6. P(f)
  <2> HIDE DEF W, step
  <2> QED BY <1>2, <1>5 DEF IsFold
<1>7. PICK g : P(g) /\ g = CHOOSE j : P(j)
  BY <1>6
<1>8. \A s \in SUBSET Places : g[s] = IF s = {} THEN h ELSE EquipItem(g[s \ {Picked(s)}], Picked(s))
  BY <1>7
<1>9. g[Places] = f[Places]
  <2>1. g[{}] = f[{}]
    BY <1>5, <1>8
  <2>2. \A s \in SUBSET Places : s # {} /\ g[s \ {Picked(s)}] = f[s \ {Picked(s)}] => g[s] = f[s]
    BY <1>5, <1>8
  <2> QED BY ONLY <1>0, <2>1, <2>2, LoopsAgree
<1>10. f[Places] \in W[Places]
  BY <1>3
<1>11. HeroInv(f[Places])
  BY <1>10
<1> QED BY <1>1, <1>7, <1>9, <1>11

\* It gets the conditions that were saved, one after another.
LEMMA RestoredKeeps ==
    ASSUME NEW h, HeroInv(h), NEW cs, IsFiniteSet(cs), \A c \in cs : Fresh(c) /\ c.id = Combat,
          
           NEW k, k = FoldSet(LAMBDA c, i : AddCondition(i, c), h, cs)
    PROVE  HeroInv(k)
<1> DEFINE P(g) == g = [s \in SUBSET cs |-> IF s = {} THEN h ELSE AddCondition(g[s \ {Picked(s)}], Picked(s))]
           step == [x \in cs \X Heroes |-> AddCondition(x[2], x[1])]
           W == [s \in SUBSET cs |-> {i \in Heroes : HeroInv(i)}]
<1>0. IsFiniteSet(cs)
  OBVIOUS
<1>1. k = (CHOOSE g : P(g))[cs]
  BY DEF FoldSet, MapThenFoldSet, Picked
<1>2. PICK f : IsFold(f, cs, h, step)
  <2> HIDE DEF step
  <2> QED BY <1>0, FoldExists
<1>3. \A s \in SUBSET cs : f[s] \in W[s]
  <2>1. h \in W[{}]
    BY DEF HeroInv, Sound
  <2>2. ASSUME NEW s \in SUBSET cs, s # {}, NEW v \in W[s \ {Picked(s)}]
        PROVE  step[<<Picked(s), v>>] \in W[s]
    <3>1. PICK c : c = Picked(s)
      OBVIOUS
    <3>2. c \in cs /\ s \ {c} \in SUBSET cs
      BY <1>0, <2>2, <3>1, FirstOut
    <3>3. v \in Heroes /\ HeroInv(v)
      BY <2>2, <3>1, <3>2
    <3>4. PICK w : w = AddCondition(v, c)
      OBVIOUS
    <3>5. HeroInv(w) /\ w \in Heroes
      BY <3>2, <3>3, <3>4, GainKeeps DEF HeroInv, Sound
    <3>6. step[<<c, v>>] = w
      BY <3>2, <3>3, <3>4
    <3>7. w \in W[s]
      BY <3>5
    <3> QED BY <3>1, <3>6, <3>7
  <2> HIDE DEF W, step
  <2> QED BY <1>0, <1>2, <2>1, <2>2, FoldRuns
<1>4. \A s \in SUBSET cs : s # {} => Picked(s) \in cs /\ s \ {Picked(s)} \in SUBSET cs
  BY <1>0, FirstOut
<1>5. \A s \in SUBSET cs : f[s] = IF s = {} THEN h ELSE AddCondition(f[s \ {Picked(s)}], Picked(s))
  <2>1. ASSUME NEW s \in SUBSET cs, s # {}, NEW v \in Heroes PROVE step[<<Picked(s), v>>] = AddCondition(v, Picked(s))
    BY <1>4, <2>1
  <2>2. \A s \in SUBSET cs : s # {} => f[s \ {Picked(s)}] \in Heroes
    BY <1>3, <1>4
  <2> HIDE DEF step, W
  <2> QED BY <1>2, <2>1, <2>2 DEF IsFold
<1>6. P(f)
  <2> HIDE DEF W, step
  <2> QED BY <1>2, <1>5 DEF IsFold
<1>7. PICK g : P(g) /\ g = CHOOSE j : P(j)
  BY <1>6
<1>8. \A s \in SUBSET cs : g[s] = IF s = {} THEN h ELSE AddCondition(g[s \ {Picked(s)}], Picked(s))
  BY <1>7
<1>9. g[cs] = f[cs]
  <2>1. g[{}] = f[{}]
    BY <1>5, <1>8
  <2>2. \A s \in SUBSET cs : s # {} /\ g[s \ {Picked(s)}] = f[s \ {Picked(s)}] => g[s] = f[s]
    BY <1>5, <1>8
  <2> QED BY ONLY <1>0, <2>1, <2>2, LoopsAgree
<1>10. f[cs] \in W[cs]
  BY <1>3
<1>11. HeroInv(f[cs])
  BY <1>10
<1> QED BY <1>1, <1>7, <1>9, <1>11

LEMMA RelogKeeps == ASSUME HeroInv(hero), NEW dies \in BOOLEAN, Relog(dies) PROVE HeroInv(hero')
<1>1. hero \in Heroes /\ Distinct(hero.conditions) /\ hero.worn \in Outfits /\ hero.base \in 1..MaxBase
  BY HeroIs DEF HeroInv, Sound, Heroes
<1>2. PICK h : h = NewHero(hero.base, hero.worn)
  OBVIOUS
<1>3. HeroInv(h)
  BY <1>1, <1>2, NewHeroIs
<1>4. PICK k : k = FoldSet(LAMBDA s, i : EquipItem(i, s), h, Places)
  OBVIOUS
<1>5. HeroInv(k)
  BY <1>3, <1>4, DressedKeeps
<1>6. PICK cs : cs = {c \in hero.conditions : c.id = Combat /\ c.left > 0}
  OBVIOUS
<1>7. IsFiniteSet(cs) /\ \A c \in cs : Fresh(c) /\ c.id = Combat
  <2>1. cs \subseteq hero.conditions
    BY <1>6
  <2>2. IsFiniteSet(cs)
    BY <1>1, <2>1, FS_Subset DEF Distinct
  <2> QED BY <1>1, <1>6, <2>2 DEF Fresh, Distinct
<1>8. PICK j : j = FoldSet(LAMBDA c, i : AddCondition(i, c), k, cs)
  OBVIOUS
<1>9. HeroInv(j)
  BY <1>5, <1>7, <1>8, RestoredKeeps
<1>10. hero' = IF dies THEN k ELSE j
  BY <1>2, <1>4, <1>6, <1>8 DEF Relog
<1> QED BY <1>5, <1>9, <1>10

LEMMA EffectsStart == EffectsInit => HeroInv(hero)
<1>1. ASSUME EffectsInit PROVE HeroInv(hero)
  <2>1. PICK w : w = [s \in Places |-> Bare]
    OBVIOUS
  <2>2. w \in Outfits /\ 1 \in 1..MaxBase
    BY <2>1, EffectsAssumption DEF Outfits, Types
  <2>3. hero = NewHero(1, w)
    BY <1>1, <2>1 DEF EffectsInit
  <2> QED BY <2>2, <2>3, NewHeroIs
<1> QED BY <1>1

LEMMA EffectsStep == HeroInv(hero) /\ [EffectsNext]_effectVars => HeroInv(hero')
<1> SUFFICES ASSUME HeroInv(hero), [EffectsNext]_effectVars PROVE HeroInv(hero')
  OBVIOUS
<1>1. ASSUME NEW c \in Spells, GainCondition(c) PROVE HeroInv(hero')
  BY <1>1, GainConditionKeeps
<1>2. CASE ExecuteConditions
  BY <1>2, ExecuteKeeps
<1>3. CASE TimePasses
  BY <1>3, TimePassesKeeps
<1>4. ASSUME NEW kind \in EffectKinds, NEW delay \in 0..MaxDelay, Dispel(kind, delay) PROVE HeroInv(hero')
  BY <1>4, DispelKeeps
<1>5. ASSUME NEW kind \in EffectKinds, RemoveByScript(kind) PROVE HeroInv(hero')
  BY <1>5, RemoveKeeps
<1>6. ASSUME NEW s \in Places, NEW g \in Gear, PutOn(s, g) PROVE HeroInv(hero')
  BY <1>6, PutOnKeeps
<1>7. ASSUME NEW s \in Places, NEW g \in Gear, TransformWorn(s, g) PROVE HeroInv(hero')
  BY <1>7, TransformWornKeeps
<1>8. ASSUME NEW s \in Places, Undress(s) PROVE HeroInv(hero')
  BY <1>8, UndressKeeps
<1>9. ASSUME NEW s \in Places, NEW t \in Places, ChangeHands(s, t) PROVE HeroInv(hero')
  BY <1>9, ChangeHandsKeeps
<1>10. ASSUME NEW base \in 1..MaxBase, ChangeLevel(base) PROVE HeroInv(hero')
  BY <1>10, ChangeLevelKeeps
<1>11. ASSUME NEW dies \in BOOLEAN, Relog(dies) PROVE HeroInv(hero')
  BY <1>11, RelogKeeps
<1>12. CASE UNCHANGED effectVars
  BY <1>12 DEF effectVars
<1> QED
  BY <1>1, <1>2, <1>3, <1>4, <1>5, <1>6, <1>7, <1>8, <1>9, <1>10, <1>11, <1>12 DEF EffectsNext

\* The sum over the conditions of a kind is what the one of them adds.
LEMMA DeltasOfKind ==
    ASSUME NEW cs, Distinct(cs), NEW kind, kind # "invisible"
    PROVE  Deltas({c \in cs : c.kind = kind}) = Part(cs, kind)
<1>1. PICK ds : ds = {c \in cs : c.kind = kind}
  OBVIOUS
<1>2. PICK f : f = [c \in ds |-> c.delta]
  OBVIOUS
<1>3. IsFiniteSet(ds) /\ \A c \in ds : f[c] = Part(cs, kind) /\ f[c] \in Int
  <2>1. IsFiniteSet(ds)
    BY <1>1, FS_Subset DEF Distinct
  <2> QED BY <1>1, <1>2, <2>1, PartIs
<1>4. CASE Some(cs, kind)
  <2>1. PICK c \in cs : c.kind = kind
    BY <1>4 DEF Some
  <2>2. c \in ds /\ ds \ {c} = {}
    BY <1>1, <2>1 DEF Distinct
  <2>3. SumFunctionOnSet(f, ds) = f[c] + SumFunctionOnSet(f, {})
    <3>1. SumFunctionOnSet(f, ds) = f[c] + SumFunctionOnSet(f, ds \ {c})
      BY <1>3, <2>2, SumWithout
    <3> QED BY <2>2, <3>1
  <2>4. SumFunctionOnSet(f, {}) = 0
    BY SumEmpty
  <2> QED BY <1>1, <1>2, <1>3, <2>2, <2>3, <2>4 DEF Deltas
<1>5. CASE ~Some(cs, kind)
  <2>1. ds = {}
    BY <1>1, <1>5 DEF Some
  <2> QED BY <1>1, <1>2, <1>5, <2>1, PartIs, SumEmpty DEF Deltas
<1> QED BY <1>4, <1>5

LEMMA DeltasOfSpeed ==
    ASSUME NEW cs, Distinct(cs), NEW hs, hs = {c \in cs : c.kind = "haste"},
           NEW ps, ps = {c \in cs : c.kind = "paralyze"}
    PROVE  Deltas(hs \union ps) = Part(cs, "haste") + Part(cs, "paralyze")
<1>1. Deltas(ps) = Part(cs, "paralyze") /\ Part(cs, "paralyze") \in Int /\ Part(cs, "haste") \in Int
  BY DeltasOfKind, PartIs
<1>2. PICK ds : ds = hs \union ps
  OBVIOUS
<1>3. CASE Some(cs, "haste")
  <2>1. PICK c \in cs : c.kind = "haste"
    BY <1>3 DEF Some
  <2>2. c \in ds /\ ds \ {c} = ps
    <3>1. \A d \in hs : d = c
      BY <2>1 DEF Distinct
    <3>2. c \in hs /\ c \notin ps
      BY <2>1
    <3> QED BY ONLY <1>2, <3>1, <3>2
  <2>3. PICK f : f = [d \in ds |-> d.delta]
    OBVIOUS
  <2>4. IsFiniteSet(ds) /\ IsFiniteSet(ps) /\ ds \subseteq cs /\ ps \subseteq ds
    <3>1. ds \subseteq cs /\ ps \subseteq ds
      BY <1>2
    <3> QED BY <3>1, FS_Subset DEF Distinct
  <2>5. \A d \in ds : f[d] \in Int /\ f[d] = d.delta
    BY <2>3, <2>4 DEF Distinct, Conditions
  <2>6. SumFunctionOnSet(f, ds) = f[c] + SumFunctionOnSet(f, ds \ {c})
    BY <2>2, <2>4, <2>5, SumWithout
  <2>7. PICK e : e = [d \in ps |-> d.delta]
    OBVIOUS
  <2>8. SumFunctionOnSet(f, ps) = SumFunctionOnSet(e, ps)
    <3>1. \A d \in ps : f[d] = e[d]
      BY <2>4, <2>5, <2>7
    <3> QED BY ONLY <2>4, <3>1, SumSame
  <2>9. Deltas(ds) = SumFunctionOnSet(f, ds) /\ Deltas(ps) = SumFunctionOnSet(e, ps)
    BY <2>3, <2>7 DEF Deltas
  <2>10. f[c] = Part(cs, "haste")
    BY <2>1, <2>2, <2>5, PartIs
  <2> QED BY ONLY <1>1, <1>2, <2>2, <2>6, <2>8, <2>9, <2>10
<1>4. CASE ~Some(cs, "haste")
  <2>1. ds = ps
    BY <1>2, <1>4 DEF Some
  <2>2. Part(cs, "haste") = 0
    BY <1>4, PartIs
  <2>3. Deltas(hs \union ps) = Deltas(ps)
    BY ONLY <1>2, <2>1
  <2>4. PICK n : n = Part(cs, "paralyze")
    OBVIOUS
  <2>5. n \in Int /\ 0 + n = n
    BY ONLY <1>1, <2>4
  <2>6. Deltas(hs \union ps) = n
    BY ONLY <1>1, <2>3, <2>4
  <2> QED BY ONLY <2>2, <2>4, <2>5, <2>6
<1> QED BY <1>3, <1>4

LEMMA HeroAddsUp == HeroInv(hero) => EffectsAddUp
<1> SUFFICES ASSUME HeroInv(hero) PROVE EffectsAddUp
  OBVIOUS
<1>1. /\ Sound(hero) /\ NotBoth(hero) /\ (\A x \in Places : Clad(hero, x)) /\ Granted(hero, GearOf(hero))
      /\ hero \in Heroes /\ Distinct(hero.conditions) /\ SeenSo(hero)
  BY DEF HeroInv, Sound
<1>2. PICK a : a = GearOf(hero)
  OBVIOUS
<1>3. PICK cs : cs = hero.conditions
  OBVIOUS
<1>4. /\ hero.worn \in Outfits /\ hero.enabled \in [Places -> BOOLEAN] /\ a \in Outfits
      /\ \A s \in Places : a[s] = IF hero.enabled[s] THEN hero.worn[s] ELSE Bare
  BY <1>1, <1>2, HeroIs
<1>5. \A kind : OfKind(hero, kind) = {c \in cs : c.kind = kind}
  BY <1>3 DEF OfKind
<1>6. EffectsTypeOK
  <2>1. cs \subseteq [kind : EffectKinds, id : Places \union {Combat}, left : Int, delta : Int]
    BY <1>1, <1>3 DEF Distinct, Conditions, Lefts, Forever, Lapsed
  <2> QED BY <1>1, <1>3, <2>1 DEF EffectsTypeOK, Heroes
<1>7. /\ \A s \in Places : hero.enabled[s] => hero.worn[s] # Bare
      /\ {s \in Enabled : GearData[hero.worn[s]].percent} = Raising(a)
      /\ {s \in Enabled : GearData[hero.worn[s]].invisible} = Hiding(a)
      /\ {s \in Enabled : GearData[hero.worn[s]].suppresses} = Quelling(a)
  <2>1. \A s \in Places : hero.enabled[s] => hero.worn[s] # Bare
    BY <1>1 DEF Clad
  <2>2. \A s : s \in Enabled <=> s \in Places /\ hero.enabled[s]
    BY DEF Enabled
  <2>3. {s \in Enabled : GearData[hero.worn[s]].percent} = Raising(a)
    BY <1>4, <2>1, <2>2 DEF Raising
  <2>4. {s \in Enabled : GearData[hero.worn[s]].invisible} = Hiding(a)
    BY <1>4, <2>1, <2>2 DEF Hiding
  <2>5. {s \in Enabled : GearData[hero.worn[s]].suppresses} = Quelling(a)
    BY <1>4, <2>1, <2>2 DEF Quelling
  <2> QED BY <2>1, <2>3, <2>4, <2>5
<1>8. /\ hero.speed \in Int /\ hero.stats \in Int
      /\ Part(cs, "haste") \in Int /\ Part(cs, "paralyze") \in Int /\ Part(cs, "attributes") \in Int
  BY <1>1, <1>3, PartIs DEF Heroes
<1>9. SpeedAddsUp
  <2>1. Deltas(OfKind(hero, "haste") \union OfKind(hero, "paralyze")) = Part(cs, "haste") + Part(cs, "paralyze")
    <3>1. PICK hs : hs = {c \in cs : c.kind = "haste"}
      OBVIOUS
    <3>2. PICK ps : ps = {c \in cs : c.kind = "paralyze"}
      OBVIOUS
    <3>3. Deltas(hs \union ps) = Part(cs, "haste") + Part(cs, "paralyze")
      BY <1>1, <1>3, <3>1, <3>2, DeltasOfSpeed
    <3> QED BY <1>5, <3>1, <3>2, <3>3
  <2>2. PICK f : f = [s \in Places |-> IF hero.enabled[s] THEN SpeedOf(hero.worn[s]) ELSE 0]
    OBVIOUS
  <2>3. PICK h : h = [s \in Places |-> SpeedOf(a[s])]
    OBVIOUS
  <2>4. \A s \in Places : f[s] = h[s]
    BY <1>4, <2>2, <2>3 DEF SpeedOf
  <2>5. SumFunctionOnSet(f, Places) = SumFunctionOnSet(h, Places)
    <3>1. IsFiniteSet(Places)
      BY EffectsAssumption
    <3> QED BY ONLY <2>4, <3>1, SumSame
  <2>6. SumFunctionOnSet(h, Places) = hero.speed - Part(cs, "haste") - Part(cs, "paralyze")
    BY <1>1, <1>2, <1>3, <2>3 DEF Granted, SpeedSum, RestSpeed
  <2>7. PICK n : n = SumFunctionOnSet(f, Places)
    OBVIOUS
  <2>8. hero.speed = Part(cs, "haste") + Part(cs, "paralyze") + n
    BY ONLY <1>8, <2>5, <2>6, <2>7
  <2> QED BY <2>1, <2>2, <2>7, <2>8 DEF SpeedAddsUp
<1>10. StatsAddUp
  <2>1. Deltas(OfKind(hero, "attributes")) = Part(cs, "attributes")
    BY <1>1, <1>3, <1>5, DeltasOfKind
  <2>2. hero.grown \/ RestStats(hero) = hero.base * Cardinality(Raising(a))
    BY <1>1, <1>2 DEF Granted
  <2>3. RestStats(hero) = hero.stats - Part(cs, "attributes")
    BY <1>3 DEF RestStats
  <2>4. PICK n : n = hero.base * Cardinality(Raising(a))
    OBVIOUS
  <2>5. hero.grown \/ hero.stats = Part(cs, "attributes") + n
    BY ONLY <1>8, <2>2, <2>3, <2>4
  <2> QED BY <1>7, <2>1, <2>4, <2>5 DEF StatsAddUp
<1>11. SeenAsHeIs
  BY <1>1, <1>3, <1>5, HasIsActive DEF SeenAsHeIs, SeenSo, Some
<1>12. ItemsAreBehind
  <2>1. IdsOf(hero.conditions) = Hiding(a)
    BY <1>1, <1>2 DEF Granted
  <2>2. \A c, d \in hero.conditions : c.kind = d.kind /\ c.id = d.id => c = d
    BY <1>1 DEF Distinct
  <2> QED BY <1>7, <2>1, <2>2 DEF ItemsAreBehind, IdsOf
<1>13. OneSpell
  BY <1>1, HasIsActive DEF OneSpell, NotBoth
<1>14. SuppressionIsWorn
  BY <1>1, <1>2, <1>7 DEF SuppressionIsWorn, Granted, Quelled
<1> QED BY <1>6, <1>9, <1>10, <1>11, <1>12, <1>13, <1>14 DEF EffectsAddUp

\* What a player has of conditions and worn items (Creature::addCondition, EquipItem,
\* DeEquipItem and whoever calls them): the abilities that were granted are those of
\* the enabled items, and what there is besides is what the conditions add.
THEOREM EffectsInductive == EffectsSpec => []HeroInv(hero)
<1>1. EffectsInit => HeroInv(hero)
  BY EffectsStart
<1>2. HeroInv(hero) /\ [EffectsNext]_effectVars => HeroInv(hero)'
  BY EffectsStep
<1> QED BY <1>1, <1>2, PTL DEF EffectsSpec

\* What the player has of conditions and items is what is there to give it.
THEOREM EffectsKept == EffectsSpec => []EffectsAddUp
<1>1. HeroInv(hero) => EffectsAddUp
  BY HeroAddsUp
<1> QED BY <1>1, EffectsInductive, PTL
-----------------------------------------------------------------------------
(* The life of the server.                                                 *)

\* Until the world is loaded the loader's task is the first of the list, or has not
\* been added, and nothing lets anybody in.
LoaderFirst ==
    /\ mpc = "start" => tasks = <<>> /\ ~loaded /\ dpc = "idle"
    /\ passed # NoPlayer => mpc = "serving"
    /\ ~loaded => /\ dstate = "RUNNING" /\ online = {} /\ gameState # "SHUTDOWN"
                  /\ dpc \in {"idle", "started"}
                  /\ mpc # "start" => tasks # <<>> /\ Head(tasks).kind = "loader"

\* The task that runs over several steps is the first of the list.
TaskRuns == dpc \in {"started", "startup", "notify", "kicked"} => tasks # <<>>

\* From the kick on nobody comes in but by the logins that wait when the threads are
\* stopped; Game::shutdown runs once the state is SHUTDOWN.
GoingDown ==
    /\ dpc \in {"kicked", "queued", "stopped"} => online = {}
    /\ Task("shutdown") \in Range(tasks) /\ dpc \notin {"queued", "stopped"} => gameState = "SHUTDOWN"
    /\ dpc \in {"flushing", "clean", "exited", "blocked"} => gameState = "SHUTDOWN"
    /\ dpc = "stopped" \/ gameState = "SHUTDOWN" =>
          /\ dstate # "RUNNING"
          /\ \A p \in Players : PlayerTask("login", p) \in Range(tasks) => p \in late
    /\ gameState = "SHUTDOWN" => online \subseteq late

LifeInv == TypeOK /\ LoaderFirst /\ TaskRuns /\ GoingDown

\* A task goes to the end of the list while the dispatcher takes tasks.
LEMMA AddedLast ==
    ASSUME TypeOK, NEW t \in Tasks, AddTask(t)
    PROVE  /\ tasks' \in Seq(Tasks)
           /\ dstate # "RUNNING" => tasks' = tasks
           /\ dstate = "RUNNING" => tasks' = Append(tasks, t)
           /\ tasks # <<>> => tasks' # <<>> /\ Head(tasks') = Head(tasks)
           /\ \A s : s \in Range(tasks') => s \in Range(tasks) \/ s = t
<1>1. tasks \in Seq(Tasks)
  BY DEF TypeOK
<1>2. CASE dstate = "RUNNING"
  <2>1. tasks' = Append(tasks, t)
    BY <1>2 DEF AddTask
  <2>2. \A s : s \in Range(tasks') => s \in Range(tasks) \/ s = t
    BY <1>1, <2>1 DEF Range
  <2> QED BY <1>1, <1>2, <2>1, <2>2
<1>3. CASE dstate # "RUNNING"
  BY <1>1, <1>3 DEF AddTask
<1> QED BY <1>2, <1>3

LEMMA FirstTask ==
    ASSUME TypeOK, tasks # <<>>
    PROVE  /\ Head(tasks) \in Tasks /\ Head(tasks) \in Range(tasks)
           /\ Tail(tasks) \in Seq(Tasks)
           /\ \A s : s \in Range(Tail(tasks)) => s \in Range(tasks)
<1>1. tasks \in Seq(Tasks)
  BY DEF TypeOK
<1>2. Head(tasks) \in Tasks /\ Tail(tasks) \in Seq(Tasks)
  BY <1>1
<1>3. Head(tasks) \in Range(tasks)
  BY <1>1 DEF Range
<1>4. \A s : s \in Range(Tail(tasks)) => s \in Range(tasks)
  BY <1>1 DEF Range
<1> QED BY <1>2, <1>3, <1>4

LEMMA TaskKinds ==
    /\ \A k \in Settable \union {"loader", "shutdown"} : Task(k) \in Tasks /\ Task(k).kind = k
    /\ \A k \in {"login", "close", "open"}, p \in Players :
          PlayerTask(k, p) \in Tasks /\ PlayerTask(k, p).kind = k /\ PlayerTask(k, p).player = p
    /\ \A t \in Tasks : t.kind = "shutdown" => t = Task("shutdown")
    /\ \A t \in Tasks : t.kind = "login" => t.player \in Players /\ t = PlayerTask("login", t.player)
<1>1. \A k \in Settable \union {"loader", "shutdown"} : Task(k) \in Tasks /\ Task(k).kind = k
  BY DEF Task, Tasks
<1>2. \A k \in {"login", "close", "open"}, p \in Players :
        PlayerTask(k, p) \in Tasks /\ PlayerTask(k, p).kind = k /\ PlayerTask(k, p).player = p
  BY DEF PlayerTask, Tasks
<1>3. ASSUME NEW t \in Tasks, t.kind = "shutdown" PROVE t = Task("shutdown")
  <2>1. t \in [kind : {"loader", "shutdown"} \union Settable, player : {NoPlayer}]
    BY <1>3 DEF Tasks
  <2> QED BY <1>3, <2>1 DEF Task
<1>4. ASSUME NEW t \in Tasks, t.kind = "login" PROVE t.player \in Players /\ t = PlayerTask("login", t.player)
  <2>1. t \in [kind : {"login", "close", "open"}, player : Players]
    BY <1>4 DEF Tasks, Settable
  <2> QED BY <1>4, <2>1 DEF PlayerTask
<1> QED BY <1>1, <1>2, <1>3, <1>4

\* A task that is no login and not the shutdown may be added at any time; a login, by
\* the io thread.
LEMMA AddedKeeps ==
    ASSUME LifeInv, NEW t \in Tasks, AddTask(t), t.kind \notin {"shutdown"}, mpc # "start",
           UNCHANGED <<gameState, online, dstate, dpc, mpc, loaded, m_isOpen, late>>,
           passed' = passed \/ passed' = NoPlayer
    PROVE  LifeInv'
<1> USE DEF LifeInv
<1>1. /\ tasks' \in Seq(Tasks) /\ (dstate # "RUNNING" => tasks' = tasks)
      /\ tasks # <<>> => tasks' # <<>> /\ Head(tasks') = Head(tasks)
      /\ \A s : s \in Range(tasks') => s \in Range(tasks) \/ s = t
  BY AddedLast
<1>2. Task("shutdown") # t
  BY TaskKinds
<1>3. TypeOK'
  BY <1>1 DEF TypeOK
<1>4. LoaderFirst'
  BY <1>1 DEF LoaderFirst
<1>5. TaskRuns'
  BY <1>1 DEF TaskRuns
<1>6. GoingDown'
  BY <1>1, <1>2 DEF GoingDown
<1> QED BY <1>3, <1>4, <1>5, <1>6

\* The first task of the list has run in one step.
LEMMA RanKeeps ==
    ASSUME LifeInv, dpc = "idle" \/ dpc = "flushing", tasks # <<>>, tasks' = Tail(tasks), loaded,
           UNCHANGED <<dstate, mpc, loaded, m_isOpen, passed, late>>,
           dpc' = dpc \/ (dpc = "flushing" /\ dpc' = "blocked"),
           gameState' \in GameState, (gameState' = "SHUTDOWN") <=> (gameState = "SHUTDOWN"),
           online' \subseteq Players,
           gameState = "SHUTDOWN" => \A p \in online' : p \in online \/ PlayerTask("login", p) \in Range(tasks)
    PROVE  LifeInv'
<1> USE DEF LifeInv
<1>1. tasks' \in Seq(Tasks) /\ \A s : s \in Range(tasks') => s \in Range(tasks)
  BY FirstTask
<1>2. TypeOK'
  BY <1>1 DEF TypeOK
<1>3. LoaderFirst' /\ TaskRuns'
  BY DEF LoaderFirst, TaskRuns
<1>4. GoingDown'
  BY <1>1 DEF GoingDown, TypeOK
<1> QED BY <1>2, <1>3, <1>4

LEMMA Justified ==
    ASSUME LifeInv, Next
    PROVE  LifeInv' /\ (gameState \in {"CLOSING", "CLOSED"} => (online' \ online) \subseteq Always)
<1> USE ConstantsAssumption DEF LifeInv
\* Running(k) says that the loader has run before any other task does.
<1>a. ASSUME NEW k, Running(k), k # "loader"
      PROVE  loaded /\ tasks # <<>> /\ dpc = "idle" /\ Next1.kind = k /\ Next1 = Head(tasks)
  BY <1>a DEF Running, LoaderFirst, Next1
<1>b. ASSUME NEW s, s \in GameState, s # "SHUTDOWN"
      PROVE  AfterSet(s) \in GameState /\ (AfterSet(s) = "SHUTDOWN" <=> gameState = "SHUTDOWN")
  BY <1>b DEF AfterSet, TypeOK
<1>1. CASE Start
  <2>1. Task("loader") \in Tasks /\ Task("loader").kind = "loader"
    BY TaskKinds
  <2>2. tasks = <<>> /\ ~loaded /\ dpc = "idle" /\ dstate = "RUNNING"
    BY <1>1 DEF Start, LoaderFirst
  <2>3. /\ tasks' \in Seq(Tasks) /\ tasks' = Append(tasks, Task("loader"))
        /\ \A s : s \in Range(tasks') => s \in Range(tasks) \/ s = Task("loader")
    BY <1>1, <2>1, <2>2, AddedLast DEF Start
  <2>4. tasks' # <<>> /\ Head(tasks') = Task("loader")
    BY <2>2, <2>3
  <2>5. mpc' = "added" /\ UNCHANGED <<gameState, online, dstate, dpc, loaded, m_isOpen, passed, late>>
    BY <1>1 DEF Start
  <2>6. TypeOK'
    BY <2>3, <2>5 DEF TypeOK
  <2>7. LoaderFirst' /\ TaskRuns'
    BY <1>1, <2>1, <2>2, <2>4, <2>5 DEF LoaderFirst, TaskRuns, Start
  <2>8. GoingDown'
    <3>1. Task("shutdown") \notin Range(tasks')
      BY <2>1, <2>2, <2>3, TaskKinds DEF Range
    <3> QED BY <2>2, <2>5, <3>1 DEF GoingDown, LoaderFirst
  <2> QED BY <2>5, <2>6, <2>7, <2>8
<1>2. CASE Wait \/ SpuriousWakeup \/ Serve
  BY <1>2, ZenonT(30) DEF Wait, SpuriousWakeup, Serve, TypeOK, LoaderFirst, TaskRuns, GoingDown
<1>3. ASSUME NEW p \in Players, ParseFirstPacket(p) PROVE LifeInv' /\ online' = online
  BY <1>3 DEF ParseFirstPacket, TypeOK, LoaderFirst, TaskRuns, GoingDown
<1>4. CASE QueueLogin
  <2>1. passed \in Players /\ mpc = "serving"
    BY <1>4 DEF QueueLogin, TypeOK, LoaderFirst
  <2>2. PlayerTask("login", passed) \in Tasks /\ PlayerTask("login", passed).kind = "login"
    BY <2>1, TaskKinds
  <2>3. LifeInv'
    BY <1>4, <2>1, <2>2, AddedKeeps DEF QueueLogin
  <2> QED BY <1>4, <2>3 DEF QueueLogin
<1>5. ASSUME NEW k \in {"close", "open"}, NEW p \in Players, Command(k, p) PROVE LifeInv' /\ online' = online
  <2>1. PlayerTask(k, p) \in Tasks /\ PlayerTask(k, p).kind = k
    BY TaskKinds
  <2>2. LifeInv'
    BY <1>5, <2>1, AddedKeeps DEF Command
  <2> QED BY <1>5, <2>2 DEF Command
<1>6. ASSUME NEW k \in Settable, ScriptDue(k) PROVE LifeInv' /\ online' = online
  <2>1. Task(k) \in Tasks /\ Task(k).kind = k /\ k # "shutdown"
    BY TaskKinds DEF Settable
  <2>2. mpc # "start"
    BY <1>6 DEF ScriptDue, LoaderFirst
  <2>3. LifeInv'
    BY <1>6, <2>1, <2>2, AddedKeeps DEF ScriptDue
  <2> QED BY <1>6, <2>3 DEF ScriptDue
<1>7. CASE LoadStart
  <2>1. /\ dpc = "idle" /\ tasks # <<>> /\ dpc' = "started" /\ gameState' = AfterSet("STARTUP")
        /\ UNCHANGED <<online, dstate, tasks, mpc, loaded, m_isOpen, passed, late>>
    BY <1>7 DEF LoadStart, Running
  <2>2. gameState' \in GameState /\ (gameState' = "SHUTDOWN" <=> gameState = "SHUTDOWN")
    BY <1>b, <2>1 DEF GameState
  <2> QED BY <2>1, <2>2 DEF TypeOK, LoaderFirst, TaskRuns, GoingDown
<1>8. CASE LoadWorld
  <2>1. /\ dpc = "started" /\ dpc' = "startup" /\ loaded' = TRUE /\ gameState' = AfterSet("INIT")
        /\ UNCHANGED <<online, dstate, tasks, mpc, m_isOpen, passed, late>>
    BY <1>8 DEF LoadWorld
  <2>2. gameState' \in GameState /\ (gameState' = "SHUTDOWN" <=> gameState = "SHUTDOWN")
    BY <1>b, <2>1 DEF GameState
  <2> QED BY <2>1, <2>2 DEF TypeOK, LoaderFirst, TaskRuns, GoingDown
<1>9. CASE LoadDone
  <2>1. /\ dpc = "startup" /\ dpc' = "notify" /\ gameState' = AfterSet("NORMAL")
        /\ UNCHANGED <<online, dstate, tasks, mpc, loaded, m_isOpen, passed, late>>
    BY <1>9 DEF LoadDone
  <2>2. gameState' \in GameState /\ (gameState' = "SHUTDOWN" <=> gameState = "SHUTDOWN")
    BY <1>b, <2>1 DEF GameState
  <2> QED BY <2>1, <2>2 DEF TypeOK, LoaderFirst, TaskRuns, GoingDown
<1>10. CASE NotifyLoaded
  <2>1. /\ dpc = "notify" /\ dpc' = "idle" /\ tasks' = Tail(tasks)
        /\ UNCHANGED <<gameState, online, dstate, loaded, passed, late>>
        /\ mpc' \in {mpc, "created"} /\ m_isOpen' \in {m_isOpen, TRUE}
        /\ (mpc' # mpc => mpc = "waiting")
    BY <1>10 DEF NotifyLoaded
  <2>2. loaded /\ tasks # <<>>
    BY <2>1 DEF LoaderFirst, TaskRuns
  <2>3. tasks' \in Seq(Tasks) /\ \A s : s \in Range(tasks') => s \in Range(tasks)
    BY <2>1, <2>2, FirstTask
  <2>4. TypeOK'
    BY <2>1, <2>3 DEF TypeOK
  <2>5. LoaderFirst' /\ TaskRuns'
    BY <2>1, <2>2 DEF LoaderFirst, TaskRuns
  <2>6. GoingDown'
    BY <2>1, <2>3 DEF GoingDown
  <2> QED BY <2>1, <2>4, <2>5, <2>6
<1>11. CASE LoginTask
  <2>1. loaded /\ tasks # <<>> /\ dpc = "idle" /\ Next1 = Head(tasks) /\ Next1.kind = "login"
    BY <1>a, <1>11 DEF LoginTask
  <2>2. Next1.player \in Players /\ PlayerTask("login", Next1.player) \in Range(tasks)
    BY <2>1, FirstTask, TaskKinds
  <2>3. /\ tasks' = Tail(tasks) /\ UNCHANGED <<gameState, dstate, dpc, mpc, loaded, m_isOpen, passed, late>>
        /\ online' = online \/ (Allowed(Next1.player) /\ online' = online \union {Next1.player})
    BY <1>11 DEF LoginTask
  <2>4. /\ online' \subseteq Players /\ gameState \in GameState
        /\ \A p \in online' : p \in online \/ PlayerTask("login", p) \in Range(tasks)
    BY <2>2, <2>3 DEF TypeOK
  <2>5. LifeInv'
    BY <2>1, <2>3, <2>4, RanKeeps
  <2> QED BY <2>3, <2>5 DEF Allowed
<1>12. CASE CloseServer
  <2>1. loaded /\ tasks # <<>> /\ dpc = "idle"
    BY <1>a, <1>12 DEF CloseServer
  <2>2. /\ tasks' = Tail(tasks) /\ UNCHANGED <<dstate, dpc, mpc, loaded, m_isOpen, passed, late>>
        /\ online' \subseteq online /\ gameState' \in {gameState, AfterSet("CLOSED")}
    BY <1>12 DEF CloseServer, KickUnflagged
  <2>3. gameState' \in GameState /\ (gameState' = "SHUTDOWN" <=> gameState = "SHUTDOWN") /\ online' \subseteq Players
    BY <1>b, <2>2 DEF GameState, TypeOK
  <2>4. LifeInv'
    BY <2>1, <2>2, <2>3, RanKeeps
  <2> QED BY <2>2, <2>4
<1>13. CASE OpenServer
  <2>1. loaded /\ tasks # <<>> /\ dpc = "idle"
    BY <1>a, <1>13 DEF OpenServer
  <2>2. /\ tasks' = Tail(tasks) /\ UNCHANGED <<online, dstate, dpc, mpc, loaded, m_isOpen, passed, late>>
        /\ gameState' \in {gameState, AfterSet("NORMAL")}
    BY <1>13 DEF OpenServer
  <2>3. gameState' \in GameState /\ (gameState' = "SHUTDOWN" <=> gameState = "SHUTDOWN") /\ online' \subseteq Players
    BY <1>b, <2>2 DEF GameState, TypeOK
  <2>4. LifeInv'
    BY <2>1, <2>2, <2>3, RanKeeps
  <2> QED BY <2>2, <2>4
<1>14. CASE SetGameState
  <2>1. PICK s \in Settable \ {"SHUTDOWN"} : Running(s) /\ gameState' = AfterSet(s)
    BY <1>14 DEF SetGameState
  <2>2. loaded /\ tasks # <<>> /\ dpc = "idle"
    BY <1>a, <2>1 DEF Settable
  <2>3. tasks' = Tail(tasks) /\ UNCHANGED <<online, dstate, dpc, mpc, loaded, m_isOpen, passed, late>>
    BY <1>14 DEF SetGameState
  <2>4. gameState' \in GameState /\ (gameState' = "SHUTDOWN" <=> gameState = "SHUTDOWN") /\ online' \subseteq Players
    BY <1>b, <2>1, <2>3 DEF Settable, GameState, TypeOK
  <2>5. LifeInv'
    BY <2>2, <2>3, <2>4, RanKeeps
  <2> QED BY <2>3, <2>5
<1>15. CASE ShutdownAgain
  <2>1. loaded /\ tasks # <<>> /\ dpc = "idle"
    BY <1>a, <1>15 DEF ShutdownAgain
  <2>2. tasks' = Tail(tasks) /\ UNCHANGED <<gameState, online, dstate, dpc, mpc, loaded, m_isOpen, passed, late>>
    BY <1>15 DEF ShutdownAgain
  <2>3. LifeInv'
    BY <2>1, <2>2, RanKeeps DEF TypeOK
  <2> QED BY <2>2, <2>3
<1>16. CASE KickAll
  <2>1. loaded /\ tasks # <<>> /\ dpc = "idle"
    BY <1>a, <1>16 DEF KickAll
  <2> QED BY <1>16, <2>1 DEF KickAll, TypeOK, LoaderFirst, TaskRuns, GoingDown
<1>17. CASE QueueShutdown
  <2>1. /\ dpc = "kicked" /\ dpc' = "queued" /\ tasks' = Append(Tail(tasks), Task("shutdown"))
        /\ UNCHANGED <<gameState, online, dstate, mpc, loaded, m_isOpen, passed, late>>
    BY <1>17 DEF QueueShutdown
  <2>2. loaded /\ tasks # <<>>
    BY <2>1 DEF LoaderFirst, TaskRuns
  <2>3. Tail(tasks) \in Seq(Tasks) /\ \A s : s \in Range(Tail(tasks)) => s \in Range(tasks)
    BY <2>2, FirstTask
  <2>4. PICK rest : rest = Tail(tasks)
    OBVIOUS
  <2>5. Task("shutdown") \in Tasks /\ \A p \in Players : Task("shutdown") # PlayerTask("login", p)
    BY TaskKinds
  <2>6. /\ tasks' \in Seq(Tasks)
        /\ \A s : s \in Range(tasks') => s \in Range(rest) \/ s = Task("shutdown")
    BY <2>1, <2>3, <2>4, <2>5 DEF Range
  <2>7. TypeOK'
    BY <2>1, <2>6 DEF TypeOK
  <2>8. LoaderFirst' /\ TaskRuns'
    BY <2>1, <2>2 DEF LoaderFirst, TaskRuns
  <2>9. GoingDown'
    BY <2>1, <2>3, <2>4, <2>5, <2>6 DEF GoingDown
  <2> QED BY <2>1, <2>7, <2>8, <2>9
<1>18. CASE StopThreads
  <2>1. StopState \in {"CLOSING", "TERMINATED"}
    BY DEF StopState, TypeOK
  <2>2. /\ dpc = "queued" /\ dpc' = "stopped" /\ dstate' = StopState
        /\ late' = {p \in Players : PlayerTask("login", p) \in Range(tasks)}
        /\ UNCHANGED <<gameState, online, tasks, mpc, loaded, m_isOpen, passed>>
    BY <1>18 DEF StopThreads
  <2>3. online = {} /\ loaded
    BY <2>2 DEF GoingDown, LoaderFirst
  <2> QED BY <2>1, <2>2, <2>3 DEF TypeOK, LoaderFirst, TaskRuns, GoingDown
<1>19. CASE StateShutdown
  <2>1. /\ dpc = "stopped" /\ dpc' = "idle" /\ gameState' = "SHUTDOWN"
        /\ UNCHANGED <<online, dstate, tasks, mpc, loaded, m_isOpen, passed, late>>
    BY <1>19 DEF StateShutdown
  <2>2. loaded
    BY <2>1 DEF LoaderFirst
  <2> QED BY <2>1, <2>2 DEF TypeOK, GameState, LoaderFirst, TaskRuns, GoingDown
<1>20. CASE Shutdown
  <2>1. loaded /\ tasks # <<>> /\ dpc = "idle" /\ Next1 = Head(tasks) /\ Next1.kind = "shutdown"
    BY <1>a, <1>20 DEF Shutdown
  <2>2. gameState = "SHUTDOWN"
    BY <2>1, FirstTask, TaskKinds DEF GoingDown
  <2>3. tasks' \in Seq(Tasks) /\ \A s : s \in Range(tasks') => s \in Range(tasks)
    BY <1>20, <2>1, FirstTask DEF Shutdown
  <2>4. dpc' = "flushing" /\ dstate' = "TERMINATED" /\ UNCHANGED <<gameState, online, mpc, loaded, m_isOpen, passed, late>>
    BY <1>20 DEF Shutdown
  <2> QED BY <2>1, <2>2, <2>3, <2>4 DEF TypeOK, LoaderFirst, TaskRuns, GoingDown
<1>21. CASE FlushTask
  <2>1. /\ dpc = "flushing" /\ tasks # <<>> /\ tasks' = Tail(tasks)
        /\ UNCHANGED <<gameState, dstate, mpc, loaded, m_isOpen, passed, late>>
        /\ dpc' \in {dpc, "blocked"}
        /\ online' = online \/ (Next1.kind = "login" /\ online' = online \union {Next1.player})
    BY <1>21 DEF FlushTask
  <2>2. gameState = "SHUTDOWN" /\ loaded
    BY <2>1 DEF GoingDown, LoaderFirst
  <2>3. Next1.kind = "login" => Next1.player \in Players /\ PlayerTask("login", Next1.player) \in Range(tasks)
    BY <2>1, FirstTask, TaskKinds DEF Next1
  <2>4. /\ online' \subseteq Players /\ gameState \in GameState
        /\ \A p \in online' : p \in online \/ PlayerTask("login", p) \in Range(tasks)
    BY <2>1, <2>3 DEF TypeOK
  <2>5. LifeInv'
    BY <2>1, <2>2, <2>4, RanKeeps
  <2> QED BY <2>2, <2>5
<1>22. CASE FlushEnd \/ StopServer
  BY <1>22 DEF FlushEnd, StopServer, OpenAfterShutdown, TypeOK, LoaderFirst, TaskRuns, GoingDown
<1> QED
  BY <1>1, <1>2, <1>3, <1>4, <1>5, <1>6, <1>7, <1>8, <1>9, <1>10, <1>11, <1>12, <1>13, <1>14, <1>15, <1>16,
     <1>17, <1>18, <1>19, <1>20, <1>21, <1>22
  DEF Next, MainNext, IONext, DispatcherNext, LoaderNext, Wait, SpuriousWakeup, Serve, FlushEnd, StopServer

\* The loader's task, the kick and the stop of the threads come in the order that lets
\* nobody in too early or too late: otserv.cpp, game.cpp.
THEOREM LifeInductive == Spec => []LifeInv
<1>1. Init => LifeInv
  <2> SUFFICES ASSUME Init PROVE LifeInv
    OBVIOUS
  <2>1. TypeOK
    <3>1. tasks \in Seq(Tasks)
      BY DEF Init
    <3>2. gameState \in GameState /\ passed \in Players \union {NoPlayer}
      BY DEF Init, GameState
    <3> QED BY <3>1, <3>2 DEF Init, TypeOK
  <2>2. Task("shutdown") \notin Range(tasks)
    BY DEF Init, Range
  <2>3. LoaderFirst /\ TaskRuns /\ GoingDown
    BY <2>2 DEF Init, LoaderFirst, TaskRuns, GoingDown
  <2> QED BY <2>1, <2>3 DEF LifeInv
<1>2. LifeInv /\ [Next]_vars => LifeInv'
  <2>1. LifeInv /\ UNCHANGED vars => LifeInv'
    BY DEF vars, LifeInv, TypeOK, LoaderFirst, TaskRuns, GoingDown
  <2> QED BY <2>1, Justified
<1> QED BY <1>1, <1>2, PTL DEF Spec

\* Nobody is in the world before it is loaded, only flagged players enter while it is
\* closed, and after the shutdown only those whose login waited: protocolgame.cpp.
THEOREM OnlineJustified == Spec => OnlineIsJustified
<1>1. LifeInv => TypeOK /\ NobodyEntersBeforeLoaded /\ OnlyLateLoginsOnline
  BY DEF LifeInv, LoaderFirst, GoingDown, NobodyEntersBeforeLoaded, OnlyLateLoginsOnline
<1>2. LifeInv /\ [Next]_vars =>
        [(gameState \in {"CLOSING", "CLOSED"}) => (online' \ online) \subseteq Always]_vars
  BY Justified
<1> QED BY <1>1, <1>2, LifeInductive, PTL DEF Spec, OnlineIsJustified, OnlyFlaggedEnterClosed
-----------------------------------------------------------------------------
(* Houses.                                                                 *)

\* A list of a house without an owner was written by somebody who no longer might.
StrayLists ==
    \A h \in Cottages : houses[h].owner = Unowned =>
        h \in stale \/ (houses[h].guests = {} /\ houses[h].subowners = {})

Tenures == [Cottages -> [Lists -> Dwellers \union {Unowned}]]

\* The inductive invariant behind HousesHold.
HInv == HousesHold /\ StrayLists /\ tenure \in Tenures

HouseData == [owner : Dwellers \union {Unowned}, guests : SUBSET Dwellers, subowners : SUBSET Dwellers]
Towns == [houses : [Cottages -> HouseData], where : [Dwellers -> Cottages \union {Street}]]
Guest(house, p) == house.owner = p \/ p \in house.subowners \/ p \in house.guests

-----------------------------------------------------------------------------
(* What the operators of the model do.                                     *)

LEMMA TownIsTown == ASSUME HousesTypeOK PROVE Town \in Towns
BY DEF HousesTypeOK, Town, Towns, HouseData

LEMMA InvitedIsGuest ==
    ASSUME NEW t, NEW h, NEW p
    PROVE  Invited(t, h, p) <=> Guest(t.houses[h], p)
BY DEF Invited, AccessLevel, Guest

\* Who is sent to the entry leaves a house he is invited to, and no other.
LEMMA ToEntryIs ==
    ASSUME NEW t \in Towns, NEW ps
    PROVE  /\ ToEntry(t, ps) \in Towns
           /\ ToEntry(t, ps).houses = t.houses
           /\ \A p \in Dwellers : ToEntry(t, ps).where[p] =
                 IF p \in ps /\ (t.where[p] \in Cottages => Invited(t, t.where[p], p))
                 THEN Street ELSE t.where[p]
<1> DEFINE w == [p \in Dwellers |->
                   IF p \in ps /\ (t.where[p] \in Cottages => Invited(t, t.where[p], p))
                   THEN Street ELSE t.where[p]]
<1>1. ToEntry(t, ps) = [t EXCEPT !.where = w]
  BY DEF ToEntry
<1>2. w \in [Dwellers -> Cottages \union {Street}]
  BY DEF Towns
<1>3. \A p \in Dwellers : w[p] =
          IF p \in ps /\ (t.where[p] \in Cottages => Invited(t, t.where[p], p))
          THEN Street ELSE t.where[p]
  OBVIOUS
<1> HIDE DEF w
<1>4. [t EXCEPT !.where = w] = [houses |-> t.houses, where |-> w]
  BY DEF Towns
<1> QED BY <1>1, <1>2, <1>3, <1>4 DEF Towns

\* A list that is written changes nothing else: those it leaves out stay where they are,
\* as the test of internalTeleport is made of the house they are in.
LEMMA SetAccessListIs ==
    ASSUME NEW t \in Towns, NEW h \in Cottages, NEW list \in Lists, NEW names \in SUBSET Dwellers
    PROVE  /\ SetAccessList(t, h, list, names) \in Towns
           /\ SetAccessList(t, h, list, names).where = t.where
           /\ \A g \in Cottages : g # h =>
                 SetAccessList(t, h, list, names).houses[g] = t.houses[g]
           /\ SetAccessList(t, h, list, names).houses[h].owner = t.houses[h].owner
           /\ SetAccessList(t, h, list, names).houses[h].guests =
                 IF list = "guests" THEN names ELSE t.houses[h].guests
           /\ SetAccessList(t, h, list, names).houses[h].subowners =
                 IF list = "subowners" THEN names ELSE t.houses[h].subowners
<1> DEFINE house == IF list = "guests"
                    THEN [owner |-> t.houses[h].owner, guests |-> names,
                          subowners |-> t.houses[h].subowners]
                    ELSE [owner |-> t.houses[h].owner, guests |-> t.houses[h].guests,
                          subowners |-> names]
           hs == [t.houses EXCEPT ![h] = house]
           s == [houses |-> hs, where |-> t.where]
           outs == {p \in Inside(s, h) : ~Invited(s, h, p)}
<1>1. house \in HouseData /\ [t.houses[h] EXCEPT ![list] = names] = house
  BY DEF Towns, HouseData, Lists
<1>2. hs = [t.houses EXCEPT ![h] = [@ EXCEPT ![list] = names]]
  BY <1>1
<1> HIDE DEF house
<1>3. hs \in [Cottages -> HouseData]
  BY <1>1 DEF Towns
<1>4. [t EXCEPT !.houses[h] = [@ EXCEPT ![list] = names]] = s
  <2>1. [t EXCEPT !.houses[h] = [@ EXCEPT ![list] = names]] = [t EXCEPT !.houses = hs]
    BY <1>1, <1>2 DEF Towns
  <2> HIDE DEF hs
  <2>2. [t EXCEPT !.houses = hs] = [houses |-> hs, where |-> t.where]
    BY DEF Towns
  <2> QED BY <2>1, <2>2
<1>5. SetAccessList(t, h, list, names) = ToEntry(s, outs)
  BY <1>4 DEF SetAccessList
<1>6. s \in Towns /\ s.where = t.where /\ s.houses = hs
  BY <1>3 DEF Towns
<1>7. \A p \in outs : s.where[p] = h /\ ~Invited(s, h, p)
  BY DEF Inside
<1> HIDE DEF hs, s, outs
<1>8. \A p \in Dwellers : ToEntry(s, outs).where[p] = s.where[p]
  BY <1>6, <1>7, ToEntryIs
<1>9. ToEntry(s, outs).where = s.where
  BY <1>6, <1>8, ToEntryIs DEF Towns
<1>10. /\ \A g \in Cottages : g # h => hs[g] = t.houses[g]
       /\ hs[h].owner = t.houses[h].owner
       /\ hs[h].guests = IF list = "guests" THEN names ELSE t.houses[h].guests
       /\ hs[h].subowners = IF list = "subowners" THEN names ELSE t.houses[h].subowners
  BY DEF hs, house, Lists, Towns
<1> QED BY <1>5, <1>6, <1>9, <1>10, ToEntryIs

LEMMA ListsClearedIs ==
    ASSUME NEW t \in Towns, NEW h \in Cottages
    PROVE  /\ ListsCleared(t, h) \in Towns
           /\ ListsCleared(t, h).where = t.where
           /\ \A g \in Cottages : g # h => ListsCleared(t, h).houses[g] = t.houses[g]
           /\ ListsCleared(t, h).houses[h].owner = Unowned
           /\ ListsCleared(t, h).houses[h].guests = {}
           /\ ListsCleared(t, h).houses[h].subowners = {}
<1> DEFINE house == [t.houses[h] EXCEPT !.owner = Unowned]
           hs == [t.houses EXCEPT ![h] = house]
           s == [houses |-> hs, where |-> t.where]
           u == SetAccessList(s, h, "subowners", {})
           v == SetAccessList(u, h, "guests", {})
<1>1. house \in HouseData /\ house.owner = Unowned
  BY DEF Towns, HouseData
<1>2. hs = [t.houses EXCEPT ![h].owner = Unowned]
  OBVIOUS
<1> HIDE DEF house
<1>3. hs \in [Cottages -> HouseData] /\ hs[h] = house
  BY <1>1 DEF Towns
<1>4. [t EXCEPT !.houses[h].owner = Unowned] = s
  <2>1. [t EXCEPT !.houses[h].owner = Unowned] = [t EXCEPT !.houses = hs]
    BY <1>2 DEF Towns
  <2> HIDE DEF hs
  <2> QED BY <2>1 DEF Towns
<1>5. ListsCleared(t, h) = v
  BY <1>4 DEF ListsCleared
<1>6. s \in Towns /\ s.where = t.where /\ s.houses = hs
  BY <1>3 DEF Towns
<1>7. \A g \in Cottages : g # h => hs[g] = t.houses[g]
  BY DEF Towns
<1>8. {} \in SUBSET Dwellers /\ "subowners" \in Lists /\ "guests" \in Lists
  BY DEF Lists
<1> HIDE DEF hs, s
<1>9. /\ u \in Towns /\ u.where = s.where
      /\ \A g \in Cottages : g # h => u.houses[g] = s.houses[g]
      /\ u.houses[h].owner = s.houses[h].owner /\ u.houses[h].subowners = {}
  BY <1>6, <1>8, SetAccessListIs
<1> HIDE DEF u
<1>10. /\ v \in Towns /\ v.where = u.where
       /\ \A g \in Cottages : g # h => v.houses[g] = u.houses[g]
       /\ v.houses[h].owner = u.houses[h].owner
       /\ v.houses[h].guests = {} /\ v.houses[h].subowners = u.houses[h].subowners
  BY <1>8, <1>9, SetAccessListIs
<1> HIDE DEF v
<1> QED BY <1>1, <1>3, <1>5, <1>6, <1>7, <1>9, <1>10

\* A new owner finds the lists as an owner of nothing left them, and otherwise empty and
\* nobody inside whom the old one had invited.
LEMMA SetHouseOwnerIs ==
    ASSUME NEW t \in Towns, NEW h \in Cottages, NEW guid \in Dwellers \union {Unowned},
           t.houses[h].owner # guid
    PROVE  /\ SetHouseOwner(t, h, guid) \in Towns
           /\ \A g \in Cottages : g # h => SetHouseOwner(t, h, guid).houses[g] = t.houses[g]
           /\ SetHouseOwner(t, h, guid).houses[h].owner = guid
           /\ t.houses[h].owner = Unowned =>
                 /\ SetHouseOwner(t, h, guid).houses[h].guests = t.houses[h].guests
                 /\ SetHouseOwner(t, h, guid).houses[h].subowners = t.houses[h].subowners
                 /\ SetHouseOwner(t, h, guid).where = t.where
           /\ t.houses[h].owner # Unowned =>
                 /\ SetHouseOwner(t, h, guid).houses[h].guests = {}
                 /\ SetHouseOwner(t, h, guid).houses[h].subowners = {}
                 /\ \A p \in Dwellers : SetHouseOwner(t, h, guid).where[p] =
                        IF p \in Inside(t, h) /\ Invited(t, h, p) THEN Street ELSE t.where[p]
<1> DEFINE s == IF t.houses[h].owner = Unowned THEN t
                ELSE ListsCleared(ToEntry(t, Inside(t, h)), h)
           house == [s.houses[h] EXCEPT !.owner = guid]
           hs == [s.houses EXCEPT ![h] = house]
           r == [houses |-> hs, where |-> s.where]
<1>1. SetHouseOwner(t, h, guid) = [s EXCEPT !.houses[h].owner = guid]
  BY DEF SetHouseOwner
<1>2. /\ s \in Towns
      /\ \A g \in Cottages : g # h => s.houses[g] = t.houses[g]
      /\ t.houses[h].owner = Unowned => s = t
      /\ t.houses[h].owner # Unowned =>
            /\ s.houses[h].guests = {} /\ s.houses[h].subowners = {}
            /\ \A p \in Dwellers : s.where[p] =
                   IF p \in Inside(t, h) /\ Invited(t, h, p) THEN Street ELSE t.where[p]
  <2>1. CASE t.houses[h].owner = Unowned
    BY <2>1
  <2>2. CASE t.houses[h].owner # Unowned
    <3> DEFINE e == ToEntry(t, Inside(t, h))
    <3>1. s = ListsCleared(e, h)
      BY <2>2
    <3>2. /\ e \in Towns /\ e.houses = t.houses
          /\ \A p \in Dwellers : e.where[p] =
                IF p \in Inside(t, h) /\ (t.where[p] \in Cottages => Invited(t, t.where[p], p))
                THEN Street ELSE t.where[p]
      BY ToEntryIs
    <3>3. \A p \in Inside(t, h) : t.where[p] = h
      BY DEF Inside
    <3> HIDE DEF e, s
    <3>4. \A p \in Dwellers : e.where[p] =
              IF p \in Inside(t, h) /\ Invited(t, h, p) THEN Street ELSE t.where[p]
      BY <3>2, <3>3
    <3>5. /\ s \in Towns /\ s.where = e.where
          /\ \A g \in Cottages : g # h => s.houses[g] = t.houses[g]
          /\ s.houses[h].guests = {} /\ s.houses[h].subowners = {}
      BY <3>1, <3>2, ListsClearedIs
    <3> QED BY <2>2, <3>4, <3>5 DEF Towns
  <2> QED BY <2>1, <2>2
<1> HIDE DEF s
<1>3. /\ house \in HouseData /\ house.owner = guid
      /\ house.guests = s.houses[h].guests /\ house.subowners = s.houses[h].subowners
  BY <1>2 DEF Towns, HouseData
<1>4. hs = [s.houses EXCEPT ![h].owner = guid]
  OBVIOUS
<1> HIDE DEF house
<1>5. hs \in [Cottages -> HouseData] /\ hs[h] = house /\ \A g \in Cottages : g # h => hs[g] = s.houses[g]
  BY <1>2, <1>3 DEF Towns
<1>6. [s EXCEPT !.houses[h].owner = guid] = r
  <2>1. [s EXCEPT !.houses[h].owner = guid] = [s EXCEPT !.houses = hs]
    BY <1>2, <1>4 DEF Towns
  <2> HIDE DEF hs
  <2> QED BY <1>2, <2>1 DEF Towns
<1>7. r \in Towns /\ r.houses = hs /\ r.where = s.where
  BY <1>2, <1>5 DEF Towns
<1> HIDE DEF hs, r
<1>8. SetHouseOwner(t, h, guid) = r
  BY <1>1, <1>6
<1>9. r.where = s.where /\ r.houses[h] = house
      /\ \A g \in Cottages : g # h => r.houses[g] = t.houses[g]
  BY <1>2, <1>5, <1>7
<1>10. t.houses[h].owner = Unowned => house.guests = t.houses[h].guests
                                      /\ house.subowners = t.houses[h].subowners /\ r.where = t.where
  BY <1>2, <1>3, <1>9
<1>11. t.houses[h].owner # Unowned =>
          /\ house.guests = {} /\ house.subowners = {}
          /\ \A p \in Dwellers : r.where[p] =
                 IF p \in Inside(t, h) /\ Invited(t, h, p) THEN Street ELSE t.where[p]
  BY <1>2, <1>3, <1>9
<1> QED BY <1>3, <1>7, <1>8, <1>9, <1>10, <1>11

LEMMA SameOwner ==
    ASSUME NEW t, NEW h, NEW guid, t.houses[h].owner = guid
    PROVE  SetHouseOwner(t, h, guid) = t
BY DEF SetHouseOwner

-----------------------------------------------------------------------------
(* What the steps do.                                                      *)

GuestsInside ==
    \A p \in present : where[p] \in Cottages =>
        Guest(houses[where[p]], p) \/ <<p, where[p]>> \in overruled

Seats ==
    /\ HousesTypeOK /\ tenure \in Tenures
    /\ GuestsInside /\ ListsOfOwner /\ SellerOwns /\ OneHouseEach /\ StrayLists

LEMMA HInvIsSeats == (HInv <=> Seats) /\ (HInv' <=> Seats')
<1>1. InsideInvited <=> GuestsInside
  BY DEF InsideInvited, GuestsInside, Invited, AccessLevel, Guest, Town
<1>2. InsideInvited' <=> GuestsInside'
  BY DEF InsideInvited, GuestsInside, Invited, AccessLevel, Guest, Town
<1> QED BY <1>1, <1>2 DEF HInv, Seats, HousesHold

\* While nobody writes a list or changes an owner, what matters is who moves where and
\* what becomes of the sales.
LEMMA SameHousesKeep ==
    ASSUME Seats, houses' = houses, UNCHANGED <<tenure, stale, lucky>>,
           where' \in [Dwellers -> Cottages \union {Street}], present' \subseteq Dwellers,
           editing' \in [Dwellers -> [house : Cottages, list : Lists] \union {NoWindow}],
           sale' \in [Cottages -> [seller : Dwellers, buyer : Dwellers] \union {NoSale}],
           SellerOwns',
           \A p \in present' : where'[p] \in Cottages =>
               \/ Guest(houses[where'[p]], p)
               \/ p \in present /\ where'[p] = where[p],
           \A p \in present' : <<p, where'[p]>> \in overruled => <<p, where'[p]>> \in overruled'
    PROVE  Seats'
<1>1. HousesTypeOK'
  BY DEF Seats, HousesTypeOK
<1>2. GuestsInside'
  BY DEF Seats, GuestsInside
<1>3. ListsOfOwner' /\ StrayLists'
  BY DEF Seats, ListsOfOwner, StrayLists
<1>4. OneHouseEach'
  BY DEF Seats, OneHouseEach, HousesOf
<1> QED BY <1>1, <1>2, <1>3, <1>4 DEF Seats

LEMMA SameSales ==
    ASSUME Seats, houses' = houses, UNCHANGED <<present, sale, seized>>
    PROVE  SellerOwns' /\ sale' \in [Cottages -> [seller : Dwellers, buyer : Dwellers] \union {NoSale}]
BY DEF Seats, SellerOwns, HousesTypeOK

LEMMA WalkKeeps ==
    ASSUME Seats, NEW p \in Dwellers, NEW to \in Visited \union {Street}, Walk(p, to)
    PROVE  Seats'
<1> DEFINE w == [where EXCEPT ![p] = to]
           t == [houses |-> houses, where |-> w]
<1>1. [Town EXCEPT !.where[p] = to] = t
  BY DEF Town
<1>2. houses' = houses /\ where' = w /\ overruled' = Remaining(t)
  BY <1>1 DEF Walk, Becomes
<1>3. to \in Cottages => Guest(houses[to], p)
  BY InvitedIsGuest DEF Walk, Town
<1>4. w \in [Dwellers -> Cottages \union {Street}]
      /\ \A q \in Dwellers : w[q] = IF q = p THEN to ELSE where[q]
  BY HousesAssumption DEF Seats, HousesTypeOK
<1>5. \A q \in present : <<q, w[q]>> \in overruled => <<q, w[q]>> \in overruled'
  BY <1>2 DEF Remaining
<1> HIDE DEF w
<1>6. UNCHANGED <<present, editing, sale, tenure, stale, seized, lucky>>
  BY DEF Walk
<1>7. \A q \in present' : where'[q] \in Cottages =>
          Guest(houses[where'[q]], q) \/ (q \in present /\ where'[q] = where[q])
  BY <1>2, <1>3, <1>4, <1>6 DEF Seats, HousesTypeOK
<1>8. present' \subseteq Dwellers
      /\ editing' \in [Dwellers -> [house : Cottages, list : Lists] \union {NoWindow}]
  BY <1>6 DEF Seats, HousesTypeOK
<1> QED BY <1>2, <1>4, <1>5, <1>6, <1>7, <1>8, SameSales, SameHousesKeep

LEMMA LogoutKeeps ==
    ASSUME Seats, NEW p \in Dwellers, Logout(p)
    PROVE  Seats'
<1>1. /\ present' = present \ {p} /\ editing' = [editing EXCEPT ![p] = NoWindow]
      /\ overruled' = {x \in overruled : x[1] # p}
      /\ sale' = [h \in Cottages |-> IF h \in Selling(p) THEN NoSale ELSE sale[h]]
      /\ seized' = seized \ Selling(p)
      /\ UNCHANGED <<houses, where, tenure, stale, lucky>>
  BY DEF Logout
<1>2. SellerOwns'
  BY <1>1 DEF Seats, SellerOwns, Selling, HousesTypeOK
<1>3. sale' \in [Cottages -> [seller : Dwellers, buyer : Dwellers] \union {NoSale}]
  BY <1>1 DEF Seats, HousesTypeOK
<1>4. \A q \in present' : <<q, where'[q]>> \in overruled => <<q, where'[q]>> \in overruled'
  BY <1>1
<1>5. /\ where' \in [Dwellers -> Cottages \union {Street}] /\ present' \subseteq Dwellers
      /\ editing' \in [Dwellers -> [house : Cottages, list : Lists] \union {NoWindow}]
  BY <1>1 DEF Seats, HousesTypeOK
<1>6. \A q \in present' : where'[q] \in Cottages =>
          Guest(houses[where'[q]], q) \/ (q \in present /\ where'[q] = where[q])
  BY <1>1
<1> QED BY <1>1, <1>2, <1>3, <1>4, <1>5, <1>6, SameHousesKeep

LEMMA LoginKeeps ==
    ASSUME Seats, NEW p \in Dwellers, Login(p)
    PROVE  Seats'
<1>1. /\ present' = present \union {p}
      /\ where' = IF where[p] \in Cottages /\ ~Guest(houses[where[p]], p)
                  THEN [where EXCEPT ![p] = Street] ELSE where
      /\ UNCHANGED <<houses, editing, sale, tenure, overruled, stale, seized, lucky>>
  BY InvitedIsGuest DEF Login, Town
<1>2. SellerOwns'
  BY <1>1 DEF Seats, SellerOwns
<1>3. /\ where' \in [Dwellers -> Cottages \union {Street}] /\ present' \subseteq Dwellers
      /\ editing' \in [Dwellers -> [house : Cottages, list : Lists] \union {NoWindow}]
      /\ sale' \in [Cottages -> [seller : Dwellers, buyer : Dwellers] \union {NoSale}]
  BY <1>1 DEF Seats, HousesTypeOK
<1>4. \A q \in present' : where'[q] \in Cottages =>
          Guest(houses[where'[q]], q) \/ (q \in present /\ where'[q] = where[q])
  BY <1>1, HousesAssumption DEF Seats, HousesTypeOK
<1> QED BY <1>1, <1>2, <1>3, <1>4, SameHousesKeep

LEMMA HouseKickKeeps ==
    ASSUME Seats, NEW p \in Dwellers, NEW q \in Dwellers, HouseKick(p, q)
    PROVE  Seats'
<1>1. PICK t : t = Kicked(Town, where[p], {p}, q)
  OBVIOUS
<1>2. t \in Towns /\ t.houses = houses
      /\ \A r \in Dwellers : t.where[r] = where[r] \/ t.where[r] = Street
  BY <1>1, TownIsTown, ToEntryIs DEF Seats, Kicked, Town
<1>3. /\ houses' = houses /\ where' = t.where /\ overruled' = Remaining(t)
      /\ UNCHANGED <<present, editing, sale, tenure, stale, seized, lucky>>
  BY <1>1, <1>2 DEF HouseKick, Becomes
<1>4. /\ where' \in [Dwellers -> Cottages \union {Street}] /\ present' \subseteq Dwellers
      /\ editing' \in [Dwellers -> [house : Cottages, list : Lists] \union {NoWindow}]
  BY <1>2, <1>3 DEF Seats, HousesTypeOK, Towns
<1>5. \A r \in present' : <<r, where'[r]>> \in overruled => <<r, where'[r]>> \in overruled'
  BY <1>3 DEF Remaining
<1>6. \A r \in present' : where'[r] \in Cottages =>
          Guest(houses[where'[r]], r) \/ (r \in present /\ where'[r] = where[r])
  BY <1>2, <1>3, HousesAssumption DEF Seats, HousesTypeOK
<1> QED BY <1>3, <1>4, <1>5, <1>6, SameSales, SameHousesKeep

LEMMA OpenWindowKeeps ==
    ASSUME Seats, NEW p \in Dwellers, NEW list \in Lists, OpenWindow(p, list)
    PROVE  Seats'
<1>1. /\ where[p] \in Cottages
      /\ editing' = [editing EXCEPT ![p] = [house |-> where[p], list |-> list]]
      /\ UNCHANGED <<houses, where, present, sale, tenure, overruled, stale, seized, lucky>>
  BY DEF OpenWindow
<1>2. /\ editing' \in [Dwellers -> [house : Cottages, list : Lists] \union {NoWindow}]
      /\ where' \in [Dwellers -> Cottages \union {Street}] /\ present' \subseteq Dwellers
  BY <1>1 DEF Seats, HousesTypeOK
<1> QED BY <1>1, <1>2, SameSales, SameHousesKeep

\* getHouseByPlayerId finds a house if there is one.
LEMMA HouseOfIsHis ==
    ASSUME NEW p, HousesOf(p) # {}
    PROVE  HouseOf(p) \in HousesOf(p)
<1>1. HousesOf(p) \subseteq Nat
  BY HousesAssumption DEF HousesOf
<1>2. PICK h \in HousesOf(p) : \A g \in HousesOf(p) : ~(<<g, h>> \in OpToRel(<, Nat))
  BY <1>1, NatLessThanWellFounded, WFMin
<1>3. \A g \in HousesOf(p) : h <= g
  <2> TAKE g \in HousesOf(p)
  <2>1. g \in Nat /\ h \in Nat
    BY <1>1
  <2>2. ~(g < h)
    BY <1>2, <2>1 DEF OpToRel
  <2> QED BY <2>1, <2>2
<1> QED BY <1>2, <1>3 DEF HouseOf

LEMMA SellHouseKeeps ==
    ASSUME Seats, NEW p \in Dwellers, NEW q \in Dwellers, SellHouse(p, q)
    PROVE  Seats'
<1>1. PICK h \in Cottages : h = HouseOf(p) /\ houses[h].owner = p
  BY HouseOfIsHis DEF SellHouse, HousesOf
<1>2. /\ sale' = [sale EXCEPT ![h] = [seller |-> p, buyer |-> q]]
      /\ {p, q} \subseteq present
      /\ UNCHANGED <<houses, where, present, editing, tenure, overruled, stale, seized, lucky>>
  BY <1>1 DEF SellHouse
<1>3. sale' \in [Cottages -> [seller : Dwellers, buyer : Dwellers] \union {NoSale}]
  BY <1>2 DEF Seats, HousesTypeOK
<1>4. SellerOwns'
  <2>1. \A g \in Cottages : g # h => sale'[g] = sale[g]
    BY <1>2 DEF Seats, HousesTypeOK
  <2>2. sale'[h].seller = p /\ sale'[h].buyer = q
    BY <1>2 DEF Seats, HousesTypeOK
  <2> QED BY <1>1, <1>2, <2>1, <2>2 DEF Seats, SellerOwns
<1>5. /\ editing' \in [Dwellers -> [house : Cottages, list : Lists] \union {NoWindow}]
      /\ where' \in [Dwellers -> Cottages \union {Street}] /\ present' \subseteq Dwellers
  BY <1>2 DEF Seats, HousesTypeOK
<1> QED BY <1>2, <1>3, <1>4, <1>5, SameHousesKeep

LEMMA CancelSaleKeeps ==
    ASSUME Seats, NEW h \in Cottages, CancelSale(h)
    PROVE  Seats'
<1>1. /\ sale' = [sale EXCEPT ![h] = NoSale] /\ seized' = seized \ {h}
      /\ UNCHANGED <<houses, where, present, editing, tenure, overruled, stale, lucky>>
  BY DEF CancelSale
<1>2. sale' \in [Cottages -> [seller : Dwellers, buyer : Dwellers] \union {NoSale}]
      /\ sale'[h] = NoSale /\ \A g \in Cottages : g # h => sale'[g] = sale[g]
  BY <1>1 DEF Seats, HousesTypeOK
<1>3. SellerOwns'
  BY <1>1, <1>2 DEF Seats, SellerOwns
<1>4. /\ editing' \in [Dwellers -> [house : Cottages, list : Lists] \union {NoWindow}]
      /\ where' \in [Dwellers -> Cottages \union {Street}] /\ present' \subseteq Dwellers
  BY <1>1 DEF Seats, HousesTypeOK
<1> QED BY <1>1, <1>2, <1>3, <1>4, SameHousesKeep

\* A list is written: who is left out of it while he is inside is overruled, and the house
\* is stale if the writer may no longer edit it.
LEMMA UpdateHouseWindowKeeps ==
    ASSUME Seats, NEW p \in Dwellers, NEW names \in Texts, UpdateHouseWindow(p, names)
    PROVE  Seats'
<1>1. PICK h \in Cottages, list \in Lists : h = editing[p].house /\ list = editing[p].list
  BY DEF UpdateHouseWindow, Seats, HousesTypeOK
<1>2. names \in SUBSET Dwellers
  BY HousesAssumption
<1>3. PICK t : t = SetAccessList(Town, h, list, names)
  OBVIOUS
<1>4. /\ t \in Towns /\ t.where = where
      /\ \A g \in Cottages : g # h => t.houses[g] = houses[g]
      /\ t.houses[h].owner = houses[h].owner
      /\ t.houses[h].guests = IF list = "guests" THEN names ELSE houses[h].guests
      /\ t.houses[h].subowners = IF list = "subowners" THEN names ELSE houses[h].subowners
  BY <1>2, <1>3, TownIsTown, SetAccessListIs DEF Town, Seats
<1>5. /\ houses' = t.houses /\ where' = where
      /\ overruled' = Remaining(t) \union {<<q, h>> : q \in {r \in Inside(t, h) : ~Invited(t, h, r)}}
      /\ tenure' = [tenure EXCEPT ![h][list] = houses[h].owner]
      /\ stale' = IF MayEdit(h, list, p) THEN stale ELSE stale \union {h}
      /\ editing' = [editing EXCEPT ![p] = NoWindow]
      /\ UNCHANGED <<present, sale, seized, lucky>>
  BY <1>1, <1>3, <1>4 DEF UpdateHouseWindow, Becomes
<1>6. HousesTypeOK'
  BY <1>4, <1>5 DEF Seats, HousesTypeOK, Towns, HouseData
<1>7. GuestsInside'
  <2>1. \A q \in present : where[q] = h => Guest(t.houses[h], q) \/ <<q, h>> \in overruled'
    BY <1>4, <1>5, InvitedIsGuest DEF Inside
  <2>2. \A q \in present : <<q, where[q]>> \in overruled => <<q, where[q]>> \in overruled'
    BY <1>4, <1>5 DEF Remaining
  <2> QED BY <1>4, <1>5, <2>1, <2>2 DEF Seats, GuestsInside
<1>8. ListsOfOwner'
  <2>1. \A g \in Cottages : houses'[g].owner = houses[g].owner
    BY <1>4, <1>5
  <2>2. \A g \in Cottages, l \in Lists : g # h \/ l # list =>
            tenure'[g][l] = tenure[g][l] /\ houses'[g][l] = houses[g][l]
    BY <1>4, <1>5 DEF Lists, Seats, Tenures
  <2>3. tenure'[h][list] = houses[h].owner
    BY <1>5 DEF Seats, Tenures
  <2> QED BY <1>5, <2>1, <2>2, <2>3 DEF Seats, ListsOfOwner
<1>9. SellerOwns'
  BY <1>4, <1>5 DEF Seats, SellerOwns
<1>10. OneHouseEach'
  <2>1. \A q \in Dwellers : HousesOf(q)' = HousesOf(q)
    BY <1>4, <1>5 DEF HousesOf
  <2> QED BY <1>5, <2>1 DEF Seats, OneHouseEach
<1>11. StrayLists'
  <2>1. houses[h].owner = Unowned /\ houses[h].subowners = {} => ~MayEdit(h, list, p)
    BY HousesAssumption DEF MayEdit, AccessLevel, Town
  <2> QED BY <1>4, <1>5, <2>1 DEF Seats, StrayLists
<1>12. tenure' \in Tenures
  BY <1>5 DEF Seats, HousesTypeOK, Tenures, HouseData
<1> QED BY <1>6, <1>7, <1>8, <1>9, <1>10, <1>11, <1>12 DEF Seats

\* A change of owner keeps all but SellerOwns, which is the matter of what called for it.
LEMMA ChangesOwnerKeeps ==
    ASSUME Seats, NEW h \in Cottages, NEW guid \in Dwellers \union {Unowned}, NEW gain,
           ChangesOwner(h, guid, gain),
           guid \in Dwellers => \/ houses[h].owner = guid
                                \/ HousesOf(guid) = {} \/ guid \in gain
    PROVE  /\ houses' \in [Cottages -> HouseData]
           /\ where' \in [Dwellers -> Cottages \union {Street}]
           /\ tenure' \in Tenures
           /\ \A g \in Cottages : g # h => houses'[g] = houses[g]
           /\ GuestsInside' /\ ListsOfOwner' /\ OneHouseEach' /\ StrayLists'
<1>1. PICK t : t = SetHouseOwner(Town, h, guid)
  OBVIOUS
<1>2. /\ houses' = t.houses /\ where' = t.where /\ overruled' = Remaining(t)
      /\ stale' = IF t.houses[h].guests = {} /\ t.houses[h].subowners = {} THEN stale \ {h} ELSE stale
      /\ lucky' = {p \in lucky \union gain : Cardinality({g \in Cottages : t.houses[g].owner = p}) > 1}
      /\ tenure' = [g \in Cottages |-> IF g = h /\ t # Town THEN [list \in Lists |-> Unowned] ELSE tenure[g]]
      /\ UNCHANGED <<present, editing>>
  BY <1>1 DEF ChangesOwner, Becomes
<1>3. HousesTypeOK /\ tenure \in Tenures /\ Town \in Towns /\ Town.houses = houses /\ Town.where = where
  BY TownIsTown DEF Seats, Town
<1>4. tenure' \in Tenures
  BY <1>2, <1>3 DEF Tenures
<1>5. CASE houses[h].owner = guid
  <2>1. t = Town
    BY <1>1, <1>3, <1>5, SameOwner
  <2>2. houses' = houses /\ where' = where /\ tenure' = tenure
    BY <1>2, <1>3, <2>1 DEF Tenures
  <2>3. GuestsInside'
    BY <1>2, <1>3, <2>1, <2>2 DEF Seats, GuestsInside, Remaining
  <2>4. ListsOfOwner' /\ StrayLists'
    BY <1>2, <1>3, <2>1, <2>2 DEF Seats, ListsOfOwner, StrayLists, Lists
  <2>5. OneHouseEach'
    <3> SUFFICES ASSUME NEW p \in Dwellers, p \notin lucky' PROVE Cardinality(HousesOf(p)') <= 1
      BY DEF OneHouseEach
    <3>1. HousesOf(p)' = HousesOf(p) /\ HousesOf(p) = {g \in Cottages : t.houses[g].owner = p}
      BY <1>3, <2>1, <2>2 DEF HousesOf
    <3>2. IsFiniteSet(HousesOf(p))
      BY FS_Subset, HousesAssumption DEF HousesOf
    <3>3. Cardinality(HousesOf(p)) \in Nat
      BY <3>2, FS_CardinalityType
    <3>4. CASE p \in lucky
      BY <1>2, <3>1, <3>3, <3>4
    <3>5. CASE p \notin lucky
      BY <3>1, <3>5 DEF Seats, OneHouseEach
    <3> QED BY <3>4, <3>5
  <2> QED BY <1>3, <1>4, <2>2, <2>3, <2>4, <2>5 DEF HousesTypeOK, HouseData
<1>6. CASE houses[h].owner # guid
  <2>1. /\ t \in Towns
        /\ \A g \in Cottages : g # h => t.houses[g] = houses[g]
        /\ t.houses[h].owner = guid
        /\ houses[h].owner = Unowned =>
              /\ t.houses[h].guests = houses[h].guests
              /\ t.houses[h].subowners = houses[h].subowners
              /\ t.where = where
        /\ houses[h].owner # Unowned =>
              /\ t.houses[h].guests = {} /\ t.houses[h].subowners = {}
              /\ \A p \in Dwellers : t.where[p] =
                    IF p \in Inside(Town, h) /\ Invited(Town, h, p) THEN Street ELSE where[p]
    BY <1>1, <1>3, <1>6, SetHouseOwnerIs
  <2>2. t # Town
    BY <1>3, <1>6, <2>1
  <2>3. /\ houses' \in [Cottages -> HouseData] /\ where' \in [Dwellers -> Cottages \union {Street}]
        /\ \A g \in Cottages : g # h => houses'[g] = houses[g]
    BY <1>2, <2>1 DEF Towns
  <2>4. \A p \in Dwellers : where'[p] \in Cottages => where'[p] = where[p]
    BY <1>2, <2>1, HousesAssumption
  <2>5. \A p \in Dwellers : <<p, where'[p]>> \in overruled => <<p, where'[p]>> \in overruled'
    BY <1>2 DEF Remaining
  <2>6. GuestsInside'
    <3> SUFFICES ASSUME NEW p \in present, where'[p] \in Cottages,
                        <<p, where'[p]>> \notin overruled
                 PROVE  Guest(houses'[where'[p]], p)
      BY <1>2, <1>3, <2>5 DEF GuestsInside, HousesTypeOK
    <3>1. p \in Dwellers /\ where'[p] = where[p] /\ Guest(houses[where[p]], p)
      BY <1>3, <2>4 DEF Seats, GuestsInside, HousesTypeOK
    <3>2. CASE where[p] # h
      BY <2>3, <3>1, <3>2
    <3>3. CASE where[p] = h /\ houses[h].owner = Unowned
      BY <1>2, <2>1, <3>1, <3>3, HousesAssumption DEF Guest
    <3>4. CASE where[p] = h /\ houses[h].owner # Unowned
      <4>1. p \in Inside(Town, h) /\ Invited(Town, h, p)
        BY <1>3, <3>1, <3>4, InvitedIsGuest DEF Inside
      <4> QED BY <1>2, <2>1, <3>1, <3>4, <4>1, HousesAssumption
    <3> QED BY <3>2, <3>3, <3>4
  <2>7. ListsOfOwner' /\ StrayLists'
    <3>1. houses[h].owner = Unowned =>
              h \in stale \/ (t.houses[h].guests = {} /\ t.houses[h].subowners = {})
      BY <2>1 DEF Seats, StrayLists
    <3>2. \/ t.houses[h].guests = {} /\ t.houses[h].subowners = {}
          \/ h \in stale'
      BY <1>2, <2>1, <3>1
    <3>3. \A g \in Cottages : g # h => (g \in stale <=> g \in stale') /\ tenure'[g] = tenure[g]
      BY <1>2
    <3>4. \A list \in Lists : houses'[h][list] # {} => h \in stale'
      BY <1>2, <3>2 DEF Lists
    <3>5. ListsOfOwner'
      BY <2>3, <3>3, <3>4 DEF Seats, ListsOfOwner
    <3>6. StrayLists'
      BY <1>2, <2>3, <3>2, <3>3 DEF Seats, StrayLists
    <3> QED BY <3>5, <3>6
  <2>8. OneHouseEach'
    <3> SUFFICES ASSUME NEW p \in Dwellers, p \notin lucky' PROVE Cardinality(HousesOf(p)') <= 1
      BY DEF OneHouseEach
    <3>1. PICK S : S = HousesOf(p)
      OBVIOUS
    <3>2. PICK T : T = {g \in Cottages : t.houses[g].owner = p}
      OBVIOUS
    <3>3. T = HousesOf(p)'
      BY <1>2, <3>2 DEF HousesOf
    <3>4. IsFiniteSet(S) /\ IsFiniteSet(T) /\ Cardinality(S) \in Nat /\ Cardinality(T) \in Nat
      BY <3>1, <3>2, FS_Subset, FS_CardinalityType, HousesAssumption DEF HousesOf
    <3>5. p \in lucky \/ p \in gain => Cardinality(T) <= 1
      BY <1>2, <3>2, <3>4
    <3>6. p \notin lucky => Cardinality(S) <= 1
      BY <3>1 DEF Seats, OneHouseEach
    <3>7. CASE p = guid
      <4>1. CASE S = {}
        <5>1. T = {h}
          BY <2>1, <3>1, <3>2, <3>7, <4>1 DEF HousesOf
        <5> QED BY <3>3, <5>1, FS_Singleton
      <4>2. CASE S # {}
        BY <1>6, <3>1, <3>3, <3>5, <3>7, <4>2
      <4> QED BY <4>1, <4>2
    <3>8. CASE p # guid
      <4>1. T \subseteq S
        BY <2>1, <3>1, <3>2, <3>8 DEF HousesOf
      <4>2. Cardinality(T) <= Cardinality(S)
        BY <3>4, <4>1, FS_Subset
      <4> QED BY <3>3, <3>4, <3>5, <3>6, <4>2
    <3> QED BY <3>7, <3>8
  <2> QED BY <1>4, <2>3, <2>6, <2>7, <2>8
<1> QED BY <1>5, <1>6

\* An owner that changes while the house is for sale is remembered in seized.
LEMMA DecreeKeeps ==
    ASSUME Seats, NEW h \in Cottages, NEW guid \in Dwellers \union {Unowned},
           \/ Decree(h, guid)
           \/ guid \in Dwellers /\ BuyHouse(guid, h)
    PROVE  Seats'
<1>1. PICK gain :
        /\ ChangesOwner(h, guid, gain)
        /\ guid \in Dwellers => \/ houses[h].owner = guid
                                \/ HousesOf(guid) = {} \/ guid \in gain
  BY HousesAssumption DEF Decree, BuyHouse
<1>2. /\ seized' = IF sale[h] # NoSale THEN seized \union {h} ELSE seized
      /\ UNCHANGED <<sale, present, editing>>
  <2>1. present' = present /\ editing' = editing
    BY <1>1 DEF ChangesOwner
  <2>2. /\ seized' = IF sale[h] # NoSale THEN seized \union {h} ELSE seized
        /\ sale' = sale
    BY DEF Decree, BuyHouse
  <2> QED BY <2>1, <2>2
<1>3. /\ houses' \in [Cottages -> HouseData]
      /\ where' \in [Dwellers -> Cottages \union {Street}]
      /\ tenure' \in Tenures
      /\ \A g \in Cottages : g # h => houses'[g] = houses[g]
      /\ GuestsInside' /\ ListsOfOwner' /\ OneHouseEach' /\ StrayLists'
  BY <1>1, ChangesOwnerKeeps
<1>4. HousesTypeOK'
  BY <1>2, <1>3 DEF Seats, HousesTypeOK, HouseData
<1>5. SellerOwns'
  <2>1. \A g \in Cottages : sale[g] # NoSale => houses'[g].owner = houses[g].owner \/ g \in seized'
    BY <1>2, <1>3
  <2>2. seized \subseteq seized'
    BY <1>2
  <2> QED BY <1>2, <2>1, <2>2 DEF Seats, SellerOwns
<1> QED BY <1>3, <1>4, <1>5 DEF Seats

LEMMA AcceptSaleKeeps ==
    ASSUME Seats, NEW h \in Cottages, AcceptSale(h)
    PROVE  Seats'
<1>1. PICK guid \in Dwellers : guid = sale[h].buyer
  BY DEF AcceptSale, Seats, HousesTypeOK
<1>2. PICK gain : gain = IF h \in seized \/ HousesOf(guid) # {} THEN {guid} ELSE {}
  OBVIOUS
<1>3. ChangesOwner(h, guid, gain) /\ sale' = [sale EXCEPT ![h] = NoSale] /\ seized' = seized \ {h}
  BY <1>1, <1>2 DEF AcceptSale
<1>4. HousesOf(guid) = {} \/ guid \in gain
  BY <1>2
<1>5. /\ houses' \in [Cottages -> HouseData]
      /\ where' \in [Dwellers -> Cottages \union {Street}]
      /\ tenure' \in Tenures
      /\ \A g \in Cottages : g # h => houses'[g] = houses[g]
      /\ GuestsInside' /\ ListsOfOwner' /\ OneHouseEach' /\ StrayLists'
  BY <1>3, <1>4, ChangesOwnerKeeps
<1>6. UNCHANGED <<present, editing>>
  BY <1>3 DEF ChangesOwner
<1>7. /\ sale' \in [Cottages -> [seller : Dwellers, buyer : Dwellers] \union {NoSale}]
      /\ sale'[h] = NoSale /\ \A g \in Cottages : g # h => sale'[g] = sale[g]
  BY <1>3 DEF Seats, HousesTypeOK
<1>8. HousesTypeOK'
  BY <1>5, <1>6, <1>7 DEF Seats, HousesTypeOK, HouseData
<1>9. SellerOwns'
  BY <1>3, <1>5, <1>6, <1>7 DEF Seats, SellerOwns
<1> QED BY <1>5, <1>8, <1>9 DEF Seats

-----------------------------------------------------------------------------
\* The invariant behind HousesHold: no list of a house without an owner is written but by
\* somebody who no longer may.
THEOREM HousesInductive == HousesSpec => []HInv
<1>1. HousesInit => HInv
  <2> SUFFICES ASSUME HousesInit PROVE Seats
    BY HInvIsSeats
  <2>1. HousesTypeOK /\ tenure \in Tenures
    BY DEF HousesInit, HousesTypeOK, Tenures
  <2>2. GuestsInside /\ ListsOfOwner /\ SellerOwns /\ StrayLists
    BY DEF HousesInit, GuestsInside, ListsOfOwner, SellerOwns, StrayLists, Lists
  <2>3. \A p \in Dwellers : HousesOf(p) = {}
    BY HousesAssumption DEF HousesInit, HousesOf
  <2>4. OneHouseEach
    BY <2>3, FS_EmptySet DEF OneHouseEach
  <2> QED BY <2>1, <2>2, <2>4 DEF Seats
<1>2. HInv /\ [HousesNext]_houseVars => HInv'
  <2> SUFFICES ASSUME Seats, [HousesNext]_houseVars PROVE Seats'
    BY HInvIsSeats
  <2>1. ASSUME NEW p \in Dwellers, NEW to \in Visited \union {Street}, Walk(p, to) PROVE Seats'
    BY <2>1, WalkKeeps
  <2>2. ASSUME NEW p \in Dwellers, Logout(p) \/ Login(p) PROVE Seats'
    BY <2>2, LogoutKeeps, LoginKeeps
  <2>3. ASSUME NEW p \in Dwellers, NEW list \in Lists, OpenWindow(p, list) PROVE Seats'
    BY <2>3, OpenWindowKeeps
  <2>4. ASSUME NEW p \in Dwellers, NEW names \in Texts, UpdateHouseWindow(p, names) PROVE Seats'
    BY <2>4, UpdateHouseWindowKeeps
  <2>5. ASSUME NEW p \in Dwellers, NEW q \in Dwellers, HouseKick(p, q) \/ SellHouse(p, q)
        PROVE  Seats'
    BY <2>5, HouseKickKeeps, SellHouseKeeps
  <2>6. ASSUME NEW p \in Dwellers, NEW h \in Cottages, BuyHouse(p, h) PROVE Seats'
    BY <2>6, DecreeKeeps
  <2>7. ASSUME NEW h \in Cottages, NEW guid \in Dwellers \union {Unowned}, Decree(h, guid)
        PROVE  Seats'
    BY <2>7, DecreeKeeps
  <2>8. ASSUME NEW h \in Cottages, AcceptSale(h) \/ CancelSale(h) PROVE Seats'
    BY <2>8, AcceptSaleKeeps, CancelSaleKeeps
  <2>9. CASE UNCHANGED houseVars
    <3>1. HousesTypeOK' /\ (tenure \in Tenures)'
      BY <2>9 DEF houseVars, Seats, HousesTypeOK
    <3>2. GuestsInside' /\ ListsOfOwner' /\ SellerOwns' /\ StrayLists'
      BY <2>9 DEF houseVars, Seats, GuestsInside, ListsOfOwner, SellerOwns, StrayLists
    <3>3. OneHouseEach'
      BY <2>9 DEF houseVars, Seats, OneHouseEach, HousesOf
    <3> QED BY <3>1, <3>2, <3>3 DEF Seats
  <2> QED
    BY <2>1, <2>2, <2>3, <2>4, <2>5, <2>6, <2>7, <2>8, <2>9 DEF HousesNext
<1> QED BY <1>1, <1>2, PTL DEF HousesSpec

\* Who is inside a house is invited, but for those a list overruled while they were inside
\* (house.cpp setAccessList, whose kicks fail); nobody inherits another's lists, but for
\* those written through a window that was left open; a house for sale is the seller's
\* unless it changed hands meanwhile, and who buys has one house unless he bought two at a
\* time.
THEOREM HousesKept == HousesSpec => []HousesHold
<1>1. HInv => HousesHold
  BY DEF HInv
<1> QED BY <1>1, HousesInductive, PTL
=============================================================================
