# Zutria server: formal models

Zutria is a game server in C++ (`src/font`), an OpenTibia descendant, with its
data and scripts in `src/app`. This directory holds TLA+ models of what its
threads, protocols, players, creatures and items do to each other over time, the TLC
instances that check them, and TLAPS proofs for any number of threads, events,
messages, players, parties, items and houses. Paths below are relative to `src/font`.

Contents

1. The system: threads, components, what is hard in each
2. The modules and how they correspond to the code
3. The runs: what each checks, its bounds, the fairness
4. What is proved, from which assumptions, and along which argument
5. Where the code does not do what it says or means
6. What is only model-checked, and what is not modelled
7. The plan

## 1. The system

### Threads

| thread | started in | runs |
|---|---|---|
| io (`main`) | `otserv.cpp` | waits for the loader, then boost::asio: accepts, reads, writes, first packets |
| dispatcher | `tasks.cpp` | the tasks of one list, one after the other: all game logic; `sendAll` after each task |
| scheduler | `scheduler.cpp` | sleeps until the earliest event is due, appends it to the dispatcher's list |

Game state is touched by the dispatcher thread only, so most of the game needs
no lock. What has to be right is (a) the two monitors, (b) the objects two
threads reach (connection, protocol, messages, `gameState`), and (c) whatever is
remembered from one task, call or script to a later one: ids, plain pointers, use
counts, cached values, lists of each other, tests whose outcome is relied on later.
Most of the hazards in `PROJECT.json` are of kind (c), and most of the modules are
about them.

### Components and their models

| component | state it keeps | what makes it correct | module |
|---|---|---|---|
| Dispatcher (`tasks.*`) | `m_taskList`, `m_threadState`, lock, condition | no lost wakeup; a task runs once; shutdown ends | Dispatcher |
| Scheduler (`scheduler.*`) | queue by cycle, valid ids, `m_lastEventId` | never early, never overslept, a stopped event does not run | Scheduler, TimerService |
| Connection, Protocol, OutputMessagePool | close state, pending operations, reference counts, buffers | nothing is deleted in use, all is deleted in the end, no lock cycle | Connection |
| Server life cycle (`otserv.cpp`, `game.cpp`, `server.cpp`) | `gameState`, the loader's signal, the acceptor | nobody plays an unloaded, closed or shut down world; shutdown completes | GameLifecycle |
| Player sessions (`protocolgame.cpp`, `player.cpp`) | who plays which Player, use counts, `ToReleaseThings` | one session per player, one player per character, counts balance | Session |
| Open containers (`player.cpp`, `container.cpp`) | `containerVec`, plain pointers by window id | no window outlives its container; the client shows what there is | Windows |
| Waiting list (`waitlist.*`) | the list with timeouts | one place each, premium first, promised places are kept | WaitingList |
| Party (`party.*`) | leader, members, invitations, pointers back | nobody points to a deleted party; invitations name each other | Party |
| Trading (`game.cpp`, `player.cpp`) | trade state, partner and item of two players, `tradeItems` | a trade never outlives its item or partner; an exchange exchanges | Trade |
| Chat (`chat.*`) | listeners, owners and invitations of channels | no channel keeps who left | Chat |
| Walks and orders (`creature.cpp`, `player.cpp`, `game.cpp`) | `listWalkDir`, `walkTask`, ids of four events | no order is lost or carried out twice | Errands |
| Conditions and worn items (`condition.cpp`, `movement.cpp`) | conditions, `varSpeed`, `varStats`, equipped slots | what is added is taken back once | Effects |
| Houses (`house.*`) | owners, lists, edit windows, documents of sale | who is inside may be; lists are the owner's; one house each | Houses |
| Rent and bank (`house.cpp`, `player.cpp`) | balances, `paidUntil`, warnings, furniture | no money or furniture is lost or doubled | Estates |
| Creature checks and spawns (`game.cpp`, `spawn.cpp`) | check vectors, spawn maps, use counts, summons | counts are owners; a spawn that is short is being checked | Creatures |
| Decay (`game.cpp`, `item.cpp`) | `decayItems`, `toDecayItems`, use counts | uses are list entries; a decaying item is listed and ends | Decay |
| Stacks and money (`game.cpp`, `container.cpp`) | items in containers and tiles | nothing is lost or made by moving, joining, paying | Coins |
| What a client sees (`protocolgame.cpp`, `tile.cpp`) | the client's tiles, `knownCreatureList` | the client's picture and list agree with the server's | Sight |
| Pursuit (`creature.cpp`, `monster.cpp`) | `attackedCreature`, `followCreature`, target and friend lists | no pointer to who left or is out of sight | Pursuit |
| Walk cache and tile flags (`creature.cpp`, `tile.cpp`) | `localMapCache`, `m_flags` | both say what the items and creatures say | WalkMap |
| Fights between players (`player.cpp`) | fight conditions, `attackedSet`, skulls, `redSkullTicks` | peace clears; red only by kills | Skulls |
| Script environments (`luascript.cpp`) | the stack of environments, created items, unique ids, timer events | an item is released once; a timer runs what was booked | Scripts |
| Wounds and deaths (`creature.cpp`, `combat.cpp`, `condition.cpp`) | damage map, conditions that strike, death events | damage is credited once, a death told and charged once | Deaths |

### How they interact

* The io thread hands each game packet to the dispatcher (`addTask`), except the
  first packet of a connection, which it parses itself, and the kick for an
  unknown header (finding `protocolgame.cpp:810`).
* The scheduler hands due events to the dispatcher in the same way. `addEvent` and
  `stopEvent` are called on the dispatcher thread, but for `Game`'s constructor,
  which runs before `main`, and that kick.
* After every task the dispatcher calls `OutputMessagePool::sendAll`, which takes
  the pool's lock and then locks of connections, and `Game::cleanup`, which releases
  what `FreeThing` was told of.
* Closing a connection is a task, releasing its protocol another, and each retries
  by a scheduler event while it is referenced.
* `login` looks the name up among the players online and takes that Player over; if
  there is none it creates one and asks the bans, the game state and the waiting
  list in this order before it places it.
* A player that leaves (`Player::onRemoveCreature`) leaves its party, its channels and
  its trade, and closes its windows, in that order; those in sight are told and drop
  their pointers to it.
* An item that is moved, changed or removed raises callbacks of the players who carry
  it or have it open, which close trades and windows and start or stop effects; scripts
  that run inside them may move it again.
* `setGameState(GAME_STATE_SHUTDOWN)` runs in one task, queues `Game::shutdown`
  and stops scheduler and dispatcher; `Game::shutdown` ends the three threads.

### What is hard here

`PROJECT.json` lists the hazards at their lines, each with the properties
that watch it. In groups:

* *Signals*: `addTask` and `addEvent` signal only in some cases and after the
  unlock; a sleeper may wake spuriously or time out meanwhile.
* *Shutdown*: the dispatcher's lock is not recursive and is held while `flush`
  runs tasks; tasks accepted late run after the world was closed.
* *Ownership*: connections, protocols, parties, creatures and items are plain
  pointers with hand-kept counts and lists pointing back; several places may be
  the last to notice that something is over.
* *Identity over time*: `connect` runs a second after `login` decided it; an event
  id may wrap; memory may be given to another Player; an event that has been handed
  over can no longer be stopped.
* *Partial failure*: a takeover that fails, an exchange whose first move changes what
  the test of the second relied on, a rent that meets two copies of a player.
* *Never computed anew*: speeds, stats, caches, flags and the client's pictures are
  changed step by step, so that one step too many or too few stays.
* *Re-entrance*: a script runs inside another, a creature is removed while the loop
  that checks creatures goes over the vector it was in.

## 2. The modules

Each module states in its head what it models and what it leaves out; each
operation, handler or task is one action or operator with the name it has in the
code. Critical sections that do not block inside are one step. `PROJECT.json` maps
each definition to its lines. A definition marked `mutant:` in a comment is a
plausible mistake in the definition after it: no specification uses it, and
replacing the definition by it makes the property named with it in `PROJECT.json`
fail. Variables marked `history` record what happened for the properties' sake only;
most of them name exactly the situations of section 5 in which the code breaks the
rule, so that a property says what holds everywhere else.

### Composition

```
MCDispatcher     Dispatcher | Creatures | Decay           (liveness of all three)
MCScheduler      Scheduler == implements ==> TimerService
MCConnection     Connection
MCGameLifecycle  GameLifecycle | Errands | Effects | Houses | Estates
MCSession        Session | Windows
MCPlayers        Party | Trade | Chat | WaitingList | Errands
MCWorld          Creatures | Decay | Coins | Sight
MCCombat         Pursuit | WalkMap | Skulls
MCRules          Scripts | Deaths
```

The modules of one line have no variable in common and no action of one calls an
operation of another (where the code does, the called part is inside the calling
module's action, or the callee's effect is one of its own actions). A state of the
server is a state of each of them, and each moves whatever the others do; so
their properties can be checked while the others stand still, and the variable
`subject` names the one that moves. The product would show nothing more and
could not be enumerated.

The modules meet at the dispatcher's queue: Dispatcher shows that accepted tasks
run once and in order; all others take one task of the dispatcher thread as one
step and rely on it. Scheduler hands over to an environment that Dispatcher
describes, and what every other module assumes of an event it has booked is what
TimerService says. Session relies on Connection for the lifetime of a protocol.

### The concurrent core

**Dispatcher** (`tasks.cpp`). `m_taskList`, `m_taskLock`, `m_threadState` are
variables; `toSignal` holds the threads between unlock and `notify_one`; `dpc`
is the dispatcher's position (`test`, `waiting`, `woken`, `running`, `flushing`,
`flushRun`, `exited`). The body of a task is the set of tasks it adds, `Spawn`.
`StopTask` is the task in which `setGameState(SHUTDOWN)` runs: it adds
`ShutdownTask` and calls `Dispatcher::stop`; `ShutdownTask` calls
`Dispatcher::shutdown`, which keeps the lock while `flush` runs what is left.

**Scheduler** (`scheduler.*`) and **TimerService**. The priority
queue is the set `m_eventList` with the cycles; `Tops` are the events it may
return first. Sleep, timeout and the section after the timeout are three steps, since
the lock has to be taken again; the id is read back from the object
after the unlock (`Return`). Ids wrap at `IdMax`. TimerService is what callers
rely on: a booked call is given out once, not before its time, not after a
`stopEvent` that answered true. `Service` is the refinement mapping.

**Connection** (`connection.cpp`, `protocol.cpp`, `outputmessage.cpp` and the parts
of the protocols that create, answer, close and release). One connection with
its protocol and pool of messages. The io thread's handlers, the tasks of the
dispatcher and `sendAll`, message by message, interleave. `m_connectionLock` is
held by a handler that waits for the pool (`iopc` `reply`, `kick`),
`m_outputPoolLock` during `sendAll`. What the packets mean to the game is a game
task that may write to the player, disconnect it or do neither. `old` messages are those
above ten seconds, `fresh` those below ten milliseconds.

**GameLifecycle** (`otserv.cpp`, `game.cpp`, `commands.cpp`, `server.cpp`). `mpc` is
main's position up to the io service, `dpc` the dispatcher's in the tasks that take
several steps: the loader, `setGameState(SHUTDOWN)` (kick everybody, queue
the shutdown task, stop the threads, and only then the state) and `Game::shutdown`.
`passed` separates the test of the state on the io thread from the queueing of the login.

**Session** (`protocolgame.cpp`, `player.cpp`, `game.cpp`, `thing.h`). `prot` has a
record for each ProtocolGame, `obj` for each Player, `online` is
`Player::listPlayer`, `pending` counts `ToReleaseThings`. The outcomes of `login`
are actions: refused, placed, kicked by its own login script, second login
kicked, takeover booked, reconnected. Objects that were deleted may be created
again, at the same address.

### Players with each other

**Party** (`party.cpp`, the party commands of `game.cpp`). `parties` holds the objects,
`partyOf` and `invitations` the pointers back. `Disband` runs inside `Leave` and
`RemoveInvite` as in the code, as an operator on a record of all pointers
(`Pointers`), so that what a caller does after the party is gone is in the action.

**Trade** (`game.cpp`, `player.cpp`). `parent` says what each item lies in; `Around` is
`isHoldingItem` upwards. The six callbacks of Player that close a trade are in
`Concerned` and `RemovalTouches`; `AcceptSecond` tests both destinations and then
moves twice, and the second move sees what the first did (`half`).

**Chat** (`chat.cpp`). A listener is a character and its visit, since a Player that
comes back is another object. `ChannelList` is what `removeUserFromAllChannels` goes by.

**WaitingList** (`waitlist.cpp`, `login`). An entry keeps the time it has left;
`promised` is history: the time for which the last answer kept the client's place.

**Errands** (`creature.cpp`, `player.cpp`, `game.cpp`). The walk event, `walkTask`
and the three events a player remembers by id; orders are copies of a packet in
one of these, and `lane` is the player's tasks in the dispatcher's list, among which
events stand that were handed over before they could be stopped.

**Houses** and **Estates** (`house.cpp`, `housetile.cpp`, `commands.cpp`, `ioplayer.cpp`). Houses has
owners, lists, windows and sales; Estates the money and the furniture, with the
copies of a player in the game, on disk, and loaded for a moment.

**Windows** (`player.cpp`, `container.cpp`, `actions.cpp`). `windows` is `containerVec`,
`shown` what the client has; `ToldOf` are those whom a move tells.

### The world

**Creatures** (`game.cpp`, `spawn.cpp`, `monster.cpp`). A pass of `checkCreatures` goes
creature by creature over a vector that what they do changes (swap and pop). `uses` is
`useCount`; `spawned`, `master` and `toRelease` are its owners.

**Decay** (`game.cpp`, `item.cpp`). The one bucket of this build, the items waiting
for the end of the task, and `ToReleaseThings`, each with its uses.

**Coins** (`game.cpp`, `container.cpp`, `tile.cpp`). A container with room and the
ground, both sequences with the newest first; `ledger` is the worth that ought to be there.

**Sight** (`protocolgame.cpp`, `tile.cpp`). The client's picture is changed by the
messages as the client applies them, by place on the tile, while the server counts
places on its own.

**Pursuit** (`creature.cpp`, `monster.cpp`). Every step, arrival, leave and change of
sides tells those in sight, in an order of `Rolls`.

**WalkMap** (`creature.cpp`, `tile.cpp`, `monster.cpp`). `cache` is shifted row by row
and column by column as a step does it; `flags` are set and reset item by item.

**Skulls** (`player.cpp`). A turn is a pass of `checkCreatures`; `frags` is history.

**Effects** (`creature.cpp`, `condition.cpp`, `movement.cpp`). One player (`hero`) with conditions
and worn items; an operation is a function from record to record, in the code's order.

**Scripts** (`luascript.cpp`). The stack of environments; `doubled`, `spoiled`, `lost`,
`clashed`, `halved` and `cut` are histories of the findings. A script that comes across an item
names it by its unique id on a tile and by counting inside a container, which is a choice of
`Look`; removing a part of a stack erases its number like removing all of it.

**Deaths** (`creature.cpp`, `combat.cpp`, `condition.cpp`, `player.cpp`). One victim; `body` is its health
with the damage map, and a pass of `executeConditions` a fold over the conditions.

## 3. The runs

All bounds are CONSTANTS of the cfg files. No run uses symmetry or a state
constraint.

| run | module | checks | question |
|---|---|---|---|
| `dispatcher` | MCDispatcher | `NoLostWakeup`, `TaskFates`, `AcceptedTasksRun`, `DeadLeave`, `DecayEnds` | is a task lost, run twice, run under the lock; do closing, dying and decaying end? |
| `scheduler` | MCScheduler | `SleepsRight`, `IdsSound`, `ImplementsService`, `EventsExpire` | is it punctual, never early, and a TimerService? |
| `connection` | MCConnection | `ObjectsOutliveUse`, `BuffersPrivate` | is anything deleted while pointed at, or written while sent? |
| `connection_live` | MCConnection | `NoLockCycle`, `Reclaimed` | lock cycles; is everything deleted in the end? |
| `lifecycle` | MCGameLifecycle | `OnlineIsJustified`, `ShutdownCompletes`, `EffectsAddUp`, `HousesHold`, `EstatesHold`, `ErrandsEnd` | who can be online in which state; what players own and owe |
| `session` | MCSession | `ClientPlaysPlayer`, `UsesBalance`, `NoSecondSession`, `LeftIsDeleted`, `WindowsHold` | sessions, characters, use counts, open containers |
| `players` | MCPlayers | `PartyLinks`, `TradesHold`, `ChatLinks`, `PlacesHold`, `ErrandsKept`, `NoOvertaking` | the links between players, and the orders of one |
| `world` | MCWorld | `CreatureLinks`, `DecayLinks`, `DecayingIsListed`, `MoneyKept`, `SightTrue` | creatures, items, coins, and what a client sees of them |
| `combat` | MCCombat | `PursuitHolds`, `WalkHolds`, `SkullsHold` | who pursues whom, what a monster believes of the map, skulls |
| `rules` | MCRules | `ScriptsHold`, `DeathsHold` | scripts inside scripts; wounds, deaths and who has them |
| `session_xlog` | MCSession | `XLogLeaves` | a counterexample, see section 5 |
| `trade_swap` | MCPlayers | `ExchangesSwap` | a counterexample, see section 5 |

### What the properties say

*dispatcher.* `NoLostWakeup`: the thread does not sleep on a non-empty list unless a
`notify_one` is on its way. `TaskFates`: a task is listed once or not at all and never
both listed and held, and the only tasks run under the lock are those another thread
slipped in between `addTask(shutdown)` and `stop`. `AcceptedTasksRun`: with these as the only
excuse, every accepted task is run and the thread ends. `DeadLeave`: a creature without
health that is being checked leaves the game, though the loop skips the one that takes
the place of one removed. `DecayEnds`: a decaying item comes to the end of its type.

*scheduler.* `SleepsRight`: never asleep past the earliest event, never early, and
`top()` is not called on an empty queue. `IdsSound`: valid ids are ids of queued events,
and `addEvent` reads the id of an object that still exists, although it reads after
the unlock. `ImplementsService` is the refinement. `EventsExpire`: a booked event is
given out or stopped, unless the scheduler is shut down first.

*connection.* `ObjectsOutliveUse`: once deleted, no operation, task, event, message,
protocol or player points at the object, and it is not released twice; `login` uses
`getConnection()` untested, and the order of the queue keeps that sound; the counts are the
references there are. `BuffersPrivate`: a message being written is nobody's buffer, and a
list used without its lock is used by one thread. `NoLockCycle`, `Reclaimed`: no deadlock,
and nothing leaks while the server runs.

*lifecycle.* `OnlineIsJustified`: nobody enters before the world is loaded, although the
state is NORMAL at first and a spurious wakeup opens the port; only flagged players
enter while it is closed, logins queued earlier included; after the shutdown only those
are online whose login was in the list when the threads were stopped.
`ShutdownCompletes`: a shutdown with nothing accepted behind it closes the acceptor and ends.
`EffectsAddUp`: speed and stats are what conditions and items add, onlookers are told
right, conditions of items are there while worn. `HousesHold`: who is inside is invited,
lists are written under the present owner, a seller owns what he sells, one house each.
`EstatesHold`: money and furniture are neither lost nor doubled, whichever copy of a player
is current. `ErrandsEnd`: each order comes to an end.

*session.* `ClientPlaysPlayer`: `Player::client` never dangles or points
at another player's protocol. `UsesBalance`: a use count is the number of users,
`ToReleaseThings` included. `NoSecondSession`: no character twice, no two open sessions of
a player. `LeftIsDeleted`: a Player that left and is held by closing protocols only is
deleted. `WindowsHold`: a window is open to a container that exists and is in reach, and
the client shows what it holds.

*players.* `PartyLinks`, `ChatLinks`, `TradesHold`: lists and pointers back agree, nobody keeps who
left, what is offered exists, is in reach and in no other offer, and plain items are
exchanged. `PlacesHold`: one place each, premium first, and a client that comes back when
told, or within the grace, is still in the list. `NoOvertaking`: who stays keeps its order.
`ErrandsKept`: an order waits in exactly one place until it is over, each event that is not
a step can still be stopped, and a walk that an order waits for goes on.

*world.* `CreatureLinks`: use counts are owners, pointers live, check vectors and indices
agree, a short spawn is watched. `DecayLinks`: use counts are list entries, no list names
freed memory. `DecayingIsListed`: an item marked as decaying is in a list, or it would never decay. `MoneyKept`: no coin is lost or made, stacks fit.
`SightTrue`: each tile in the client is the server's first ten things, and the list of
known creatures is what the client knows.

*combat.* `PursuitHolds`: whom a creature attacks or follows is in the game and in sight,
none in a protection zone, wild monsters know every enemy in sight. `WalkHolds`: cache and
flags say what items and creatures say. `SkullsHold`: of two players at most one is the
aggressor, peace clears locks and white skulls, red skulls need kills.

*rules.* `ScriptsHold`: every item without a place is released once and no other is,
an item of the world is found by its unique id unless two have had it (`clashed`) or a script
removed a part of it by the id (`halved`), a timer runs what it was booked for. `DeathsHold`: every
point of damage is credited once, a death is told once, to who did most, worth at most
what it is worth, and charged once.

The type invariant of each module is a conjunct of its property; most also relate its variables
(program counter and held task, counters and sets, queue and close state).

### Bounds, and why they are enough

* `dispatcher`: the monitor's cases are an empty list, one task, more than one; a
  signal pending from none, one or two threads; both positions of a task
  relative to the shutdown task. Five tasks, added at either end, reach them all. Two
  creatures in two check vectors give the swap and pop under the loop, two items of four
  types a list that changes while it is gone over.
* `scheduler`: three events are a top, one before it and one after it; delays 1,
  2, 3 with `MinTicks` 2 give equal and different cycles; `IdMax` 5 exceeds the events, so no two
  queued events share an id. With the code's 2^32 - 1 ids that takes an event queued
  while four billion others are booked. `MaxTime` 3 lets the last event be booked after the first is due.
* `connection`: three messages are one on the wire, one queued behind it and one
  being filled. `connection_live` takes two (one on the wire, one buffered) and leaves out
  the unknown header, with which `NoLockCycle` would fail (finding `protocolgame.cpp:810`).
* `lifecycle`: a flagged and an unflagged character; `MaxQueue` 3 is
  asked only of arrivals from other threads, so the loader and shutdown tasks
  are always accepted. Two tenants, two houses and one piece of furniture: one to lose
  and one to gain each. Six event ids: four remembered, one more outstanding for each of two stale ticks.
* `session`: two protocols are a player's client and the one that takes over;
  a third connection comes as the first, deleted and created
  anew. Each protocol holds at most one Player, one may be in the game without a
  client and one wait for cleanup: four. `MaxPending` 0: a new client
  comes when cleanup has run, which it does after each task of the game.
  Two containers, one in the other, and a coin; two watchers, one with two windows.
* `players`: a party needs a leader, a member and a guest: three players; two parties so that
  one can be formed while another is dissolved. A pack in the only slot, a bag in it, a pouch in
  that: the depth at which an exchange can put one item into the other. One time unit of the
  waiting list is five seconds; `RetryTime` grows at the second slot, as in the code at
  the fifth; `Grace` 1 stands for the code's 15 seconds: the smallest, so that timeouts and
  retries meet often.
* `world`: three creatures are a spawn's, another, and a summon, in two spawn blocks and one check vector (`dispatcher` has
  two vectors and one block); two items with four entries, so that both are listed twice; coins worth up to 11 with stacks of
  three reach all three kinds with change; two shown and two known things stand for ten and 150.
* `combat`: a player, two monsters, three spots of which one is a protection zone; a map of
  three by three with range one, so that a step leaves and enters rows and columns; two
  fighters with a red skull at three kills and a ban at four.
* `rules`: two items, one unique id, scripts two deep; a player and two monsters against one
  victim with two points of health.

### Fairness

* Dispatcher: the dispatcher thread advances when it can, and a thread past the
  unlock reaches its `notify_one`. Nobody has to add a task.
* Scheduler: time passes, the thread runs, and `TimeOut` is strongly fair: spurious wakeups
  may recur but `timed_wait` returns at its deadline.
* Connection: both threads run; waiting for a lock that is free again and again
  ends; operations on a closed socket are aborted; writes end, by the peer or
  by TCP; periodic game tasks go on until the shutdown (they are booked by
  `Game`'s constructor and book themselves), and with them `sendAll`. A client need not send.
* GameLifecycle: main and dispatcher run; packets, commands and scripts need not come.
* Session: queued tasks, due events, pings and cleanup run; clients, kicks and
  deaths need not come.
* Creatures and Decay: `checkCreatures` and `checkDecay` book themselves, so they recur; a
  death event is due some time. They are stated as "if it is this component's turn again
  and again, the step is taken again and again", which is weak fairness of the step of a
  component that is never disabled.
* Errands: the dispatcher's next task runs, events are handed over, the player is ready in the end.
* The rest is safety only.

Where several components share a run, the fairness of one is conditioned on `subject`.

`session` and `session_xlog` check for deadlock. The other runs do not: a server that was shut down
stops, a player who has given all his orders and is at rest does nothing, an item that has
gone does not come back, and the bounds on visits, packets, reloads and kills end the others. A
thread that blocks itself is covered by the liveness properties.

## 4. What is proved

The proofs hold for any values of the constants that satisfy the `ASSUME` of the
module, which TLC evaluates in the runs. They say no more than that NULL values differ
from objects, that limits and delays are numbers (at least one where the code's are),
that names meant for different things differ, and that a task is created by one other.
The hypotheses beyond these are named below. Each invariant that had to be strengthened was
checked by TLC on the instance of its run before it was proved.

A theorem named `...Inductive` is about the inductive invariant, the one named after it
about the property that the run checks. The invariants with all their conjuncts are at the
head of each proof module or of its part; here is why they are needed.

**DispatcherProofs** (`LostWakeupFree`, `FatesInductive`, `FatesCorrect`). `NoLostWakeup` is
inductive given the types: the list becomes non-empty only in `addTask`, which adds its thread
to `toSignal`; a thread leaves `toSignal` only by waking the sleeper; the sleeper falls asleep
only on an empty list. `TaskFates` needs `FateInv`: the list is an injective
sequence, `fate` agrees with where a task is (`TasksRunOnce`, `RunningIsKnown`), the
shutdown task is there only after the stop task took its place (`ShutdownAfterStop`), and
whoever stands behind it came late (`BehindIsLate`). That is what makes the tasks
`flush` runs under the lock exactly those slipped in before `stop`.
*Decay* (`DecayUsesKept`, `DecayMarksKept`; any items and types). The first is `DecayLinks`: an item's uses are
its place in the game, its entries in the lists and what is still to be released. An item may be listed twice (finding
`item.cpp:207`), so entries are counted and not only named, and a pass over the bucket is followed position
by position, with what the entries it has not reached still count for. The second is `DecayingIsListed`, and needs
`CleanTypes`: an item that decays into one of its own group starts anew there or never decays. That is a
rule of `items.xml`, which the code takes for granted; TLC evaluates the property for types that keep it.
*Creatures* (`CreaturesInductive`, `CreaturesKept`; `Creatures` finite, any number of blocks and check vectors).
`WorldFine(w, S)` says of a world in the middle of a step, in which the creatures of `S` have uses still to be
released, that uses are holders, that masters and summons name each other, that a vector lists a creature once and at the index it remembers, and that
entries of a spawn are creatures of it. `removeCreature` takes its summons with it and each of these its own, so the
proof follows the waves of releases and the passes over a vector that shrinks under the loop as
functions of the turn. The attempt found a case the history did not name: `unwatched` has to record the
entries of strays too (finding `monster.cpp:1408`).

**SchedulerProofs** (`SleepCorrect`, `Inductive`, `IdsInductive`, `IdsCorrect`, `Refines`).
`NeverEarly` is not inductive alone: after the timeout the top may be another event than the
one slept for; it is `Tops` being earliest, with a queued event whose cycle is at most the deadline
passed (`DeadlineBacked`), that makes it due. `IdInv` says that ids grow in the order of the
calls and tell what became of an event. It needs `Cardinality(Events) <= IdMax`: with more events than ids
two queued events may share one, and the property is false (the code has 2^32 - 1). `Refines`
maps each step to a step of TimerService or to a stutter: the append after the unlock is the
service's `Give`, a signal, a sleep or a wakeup is nothing. It needs both invariants, since the service's `stop`
answers by whether the call is pending, the code's by whether the id is known.
*Coins* (`CoinsInductive`, `CoinsKept`; any size of a stack, any room, any sums). `MoneyInv`: all stacks fit, their worth is
the ledger, and the ledger is a number in its bound. Worth is a sum over the positions of a
sequence; lemmas say what it is of two sequences joined, of one without a stack, and of one with a stack changed, and
that the order of the sum does not matter. A move needs more: how many fit in (`MaxCount`) is computed before
stacks are taken away, from the same container or another, and positions shift in between. `addMoney` and
`removeMoney` are loops, followed turn by turn: what is kept and the change are worth what there was less
what was paid, and no stack is left while something is unpaid.

**ConnectionProofs** (`OwnershipInductive`, `UseEndsBeforeDelete`, `BuffersStayPrivate`,
`LocksInOrder`). `CInv` has four parts. Owners: a message is in one of the pool's lists, in the
task that releases it or on the wire (`OwnersInv`), the list of tasks names each once (`QueueOK`). Counts: `connRef`
is the number of messages allocated, `protoRef` that and the connects under way, as long as
the acceptor runs (`RefsInv`). Closing: who may have asked for it, and that a release
is queued or booked at most once, when the last operation is over (`ClosingInv`, `ReleasedOnce`).
Beginning: until the first packet was answered a connection has no message, no player and no login
(`NothingYet`). This is what lets the io thread, which holds the connection's lock, wait for
the pool's: no `sendAll` that holds the pool's can want this connection. An
unknown packet breaks exactly that, so `LocksInOrder` assumes none; it is the finding
`protocolgame.cpp:810`. `BuffersStayPrivate` is an action property and follows from `OwnersInv` step by step.

**SessionProofs** (`ClientsLive`, `UsesCounted`, `OneSessionOnly`). `IInv` joins the types,
`ProtocolShape` (a protocol holds a player only when open and without a pending connect),
`ClientPlaysPlayer`, `HolderIsClient` (a protocol that plays and is not closing is the client
of its player: the converse, and what makes sessions unique), `DeadIsReset`, `OnlineIsIn`,
`CharacterOnce` and `UsesBalance`. The parts need each other: a Player's memory
may be reused only when nothing points at it, which is `DeadIsReset` with `UsesBalance`;
`cleanup` deletes only players whose balance is zero, which keeps `ClientPlaysPlayer`;
`connect` takes a player only without client, which by `HolderIsClient` leaves no other open holder.

**CombatProofs**, skulls (`SkullsInductive`, `SkullsKept`). `Fair` relates the attacked lists, fight
conditions, skulls and their ticks of two players at a time, with what a logout saves:
ticks of a skull are owed to kills (`Owed`). *Walk cache* (`WalkInductive`, `WalkKept`; any map and range).
`ObjectsInPlace` is all that is added. The work is in the lemmas: a step shifts the cache and
fills one row and one column (two when it is diagonal), and each entry is then true of the tile it has come to stand for;
a change of one tile updates its entry if it is in range, and the flags of the
others are untouched.
*Deaths* (`DeathsInductive`, `DeathsKept`). That the damage booked is the health lost is a history of the whole run;
the invariant says it of each body a step goes through (`Passes`): a pass of `executeConditions`
strikes several times and may kill in the middle. `PaidUp` (who has paid is alive again or has died) is what keeps a death from being charged
twice. Each share of the experience is rounded down from damage times worth, so the sum of the shares is
bounded by the sum of the products; those who are told are chosen so that a foe hears once, as killer or as master.

**RulesProofs** (`ScriptsInductive`, `ScriptsKept`; any items, ids, timers, depth of the stack).
`ScriptsInv` adds what each environment of the stack lists and numbers: the names of an inner script are apart from
those of the outer (`Apart`, `Enclosed`), what is listed without a place is owned
once or in the history of a finding (`Placed`, `Histories`, `ItemsOwned`), and a timer that
is registered has one event (`Booked`). `Erasable` says why a script may erase a unique id it knows
an item by: the item has it, two have had it, or it is erased already. So `UniqueTrue` loses no
other item by an erasure (`NoneHidden`), and the item itself only by a removed part, which `halved` names.
*Life cycle* (`LifeInductive`, `OnlineJustified`). `LifeInv` adds that the loader's task heads the list
until the world is loaded (`LoaderFirst`), that the dispatcher's position has its task (`TaskRuns`),
and that from the kick on nobody is online until the state is SHUTDOWN and then only by
logins that waited (`GoingDown`). The second conjunct of `OnlineIsJustified` is an action
property. *Houses* (`HousesInductive`, `HousesKept`; `Cottages` finite). `HInv` adds what is left of an owner: a list without
an owner behind it was written by an overruled one (`StrayLists`). A change of owner sends out
one inhabitant after the other; the proof is that the operator for one
keeps those the earlier ones left.
*Estates* (`EstatesInductive`, `EstatesKept`; `Tenants` and `Estate` finite). `SoundBooks` says of all copies of players and houses
that each piece of furniture is in one place (`Settled`), counting the copy that is current; money is a sum of
balances. Both are kept by each turn of the loop over the houses (`payHouses`), so they hold at its end for any
number of houses; what a change of one account does to the sum is proved by a least counterexample.
*Effects* (`EffectsInductive`, `EffectsKept`; any items, spells and times). `HeroInv(h)`: what is left of speed and stats
without the conditions is what the enabled items add (`Granted`, a sum over the slots), nobody is hasted and paralysed at once, and
only a slot with an item is enabled. `Granted` is said of a record and of any outfit, since the code takes effects back
item by item, runs scripts between, and the outfit that counts is then neither the old nor the new. Two
facts had to be added: a condition that an item gives lasts as long as it is worn, and at most
one item suppresses a condition unless the history `shared` says so.

**PlayersProofs**, chat (`ListenersInductive`, `ChatLinked`). `ListenersFindIt`: whoever listens to a channel would be offered it
now, or came in uninvited; so `removeUserFromAllChannels`, which asks what would be offered, finds
it. `OwnersListen` and `SoleOwners` keep that when an owner leaves and the channel is deleted.
*Party* (`PartyInductive`, `PartyLinked`). `Sound` is stated for a record of all pointers
and with an exception: the party that is being left or disbanded, so that it can be said between two
calls in the middle of `leaveParty`. The lemmas say what each method does to a
sound record; an action is a composition of them. *Trade* (`TradeInductive`, `TradesKept`; initial
places without a cycle). `Acyclic`, that no item is inside itself, is an invariant of the
moves only together with the test that an item is not moved into itself; it is
what makes the induction up the parents (`Around`) end. `NothingYet`: who has not offered
is registered for nothing.
*Orders* (`ErrandsInductive`, `OrdersKept`; `EventIds` finite). `Whole` says that an order lies in one place only
(waiting for the player, in the task that takes it up, in a walk, in a swing or done), that the player's ids
(`walkTask`, the two of the next action, `eventWalk`) are booked with the scheduler for what they stand for, or are
remembered only as handed over, and that whoever waits for a walk has one. The task that runs holds its order
in hand, which is why the invariant is stated between tasks; an action is a task as a whole.
A task books at most two events, so two free ids are required, as in the action's guard; the code has 2^32 - 1.
*Waiting list* (`PlacesInductive`, `PlacesKept`, `NobodyOvertakes`). `PlacesInv` turns the promise into an
entry that lasts as long (`Assured`); its lemmas say in what order the entries are that `cleanUpList`
leaves (`CleanedIs`) and what an insertion or a removal does to a list without repeats. `NoOvertaking` is an action property: the
old list and the new one are each part of the other's order.

**Loops** holds what these proofs share. A sum, a fold and a loop over a sequence are functions
chosen by their recursion, and induction over data is out of reach of the prover: an operator cannot be passed to
the library's induction theorem. What can be proved is that such a function exists (as the union of its finite parts), that two of
them agree (by the least argument at which they would not), and that a property which each turn keeps
holds at the end (by the first turn after which it would not). The models are written with such
functions, or with the folds of the community modules, and declare no operator recursive.

## 5. Where the code does not do what it says or means

Two runs end in a counterexample:

1. `session_xlog`, `XLogLeaves`: "//Occurs when the player closes the game without logging out
   (x-logging)" (`player.cpp:1125`). A takeover that fails leaves `isConnecting` set
   (`protocolgame.cpp:363`): the player may not log out, and stays in the game without a client.
2. `trade_swap`, `ExchangesSwap`: with no free slot the item a player is to receive is put into a
   bag inside the one he gives (`player.cpp:2757`); the second move takes it along, and the trade reports
   success (`game.cpp:2911`).

The others are in `PROJECT.json` under `findings`, with the lines. Where one breaks a rule of a model,
a history variable names exactly the objects it has touched, and the property is stated,
checked and proved for all others:

| part | findings (line; history variable) |
|---|---|
| io thread, life cycle | kick by the io thread (`protocolgame.cpp:810`); a login between kick and shutdown (`game.cpp:151`) |
| waiting list, windows | a premium client that gets no place (`waitlist.cpp:118`); windows closed for the client only (`actions.cpp:357`, `protocolgame.cpp:392`; `strayed`) |
| party, chat | an invitation that outlives its party (`party.cpp:211`; `leftInvited`); a private channel opened without an invitation (`chat.cpp:319`; `uninvited`) |
| orders of a player | walk events that nobody can stop (`creature.cpp:429`); a spell that waits for no walk (`game.cpp:2216`); an order lost to a swing (`player.cpp:250`) |
| effects | `creature.cpp:1733` (`reborn`), `condition.cpp:132`, `player.cpp:374` (`shared`), `movement.cpp:947` (`grown`) |
| houses | `game.cpp:1912` (`overruled`), `game.cpp:2697` (`stale`), `house.cpp:507` (`seized`), `commands.cpp:834` (`lucky`) |
| money | `player.cpp:3912` (`wrapped`), `house.cpp:992`, `player.cpp:3906`, `game.cpp:187` |
| creatures, decay | `game.cpp:3992`, `monster.cpp:1408` (`unwatched`), `item.cpp:207`, `game.cpp:5073` |
| fights | `creature.cpp:608`, `tile.cpp:1368`, `player.cpp:3355` (`afterRed`), `player.cpp:3764`, `monster.cpp:356` |
| wounds and deaths | `condition.cpp:1249`, `condition.cpp:1190`, `creature.cpp:1717`, `creature.cpp:1011`, `game.cpp:5363`, `combat.cpp:1007`, `game.cpp:4747` |
| scripts | `luascript.cpp:105` (`spoiled`), `luascript.cpp:3278` (`doubled`, `lost`), `luascript.cpp:2698` (`halved`), `game.cpp:1811` (`clashed`), `luascript.cpp:7663` (`cut`), `luascript.cpp:2905` |
| the client's picture | `protocolgame.cpp:957` (`crowded`), `protocolgame.cpp:2897` |

## 6. What is only model-checked, and what is not modelled

*Only model-checked.* Liveness under fairness, and ENABLED, which the prover cannot do:
`AcceptedTasksRun`, `DeadLeave`, `DecayEnds`, `EventsExpire`, `Reclaimed`, `ShutdownCompletes`,
`ErrandsEnd`, `LeftIsDeleted`. And of the safety properties:

* `SightTrue`: the client's tiles, the server's, and the list of known creatures, each changed by position, and the
  messages that are made from a tile between two changes of it. Not proved.
* `WindowsHold`: windows and what they show are changed by all whom a move tells, one after the
  other, with containers in each other to any depth. Not proved.
* `PursuitHolds`: each step tells those in sight, in any order, and what one does when told is seen
  by the next; the invariant of the middle of such a round was not found. Not proved.

*Not modelled.*

* Raids: dead code in this build; the calls that load and start them are commented out
  (`game.cpp:138`, `commands.cpp:527`).
* Login and status protocols: one answer and a close, which are `Reply` and
  `CloseConnection` of Connection; the text of the answer is not modelled.
* Bans, accounts, players and map on disk, database, configuration, support code: input and
  output, tables and formats; the models have a choice of outcomes in their place.
* Map, tiles and path search, things and cylinders, most combat, the commands of players, the packets of ProtocolGame and
  the scripts: data and rules of the game. What other parts rely on of them is in Coins,
  Sight, WalkMap, Deaths, Errands and Scripts.

What the modelled parts leave out:

* Dispatcher: what task bodies do besides adding tasks. Scheduler: the calls that are booked are opaque.
* Connection: several connections (they share only the pool's lock and the
  dispatcher's queue), contents and encryption; `ConnectionManager::closeAll`, which nobody
  calls. Reference counts are atomic in the model though `m_refCount` is a plain integer.
* GameLifecycle: errors of `mainLoader` that end the process; the accept loop's error counter.
* Session: ALLOW_CLONES and CHECK_ACCOUNTS are off; a death is one step.
* WaitingList: a client is one value for (account, address, name), the identity the code compares.
* Trade: stackable items, which are merged and divided; Coins has these.
* Decay: one bucket of the decay list instead of the wheel. Creatures: one spawn; positions and
  intervals are reduced to a block being ready or not.
* What `PROJECT.json` says at each component that is `partly` modelled.

## 7. The plan

What is left is proofs of the three invariants named in section 6, in this order: Windows, with the list
of windows as a function from number to container; Pursuit, with the invariant of a round in which some have been
told; Sight, tile by tile. Then the parts of the code listed as `partly` in `PROJECT.json`.
