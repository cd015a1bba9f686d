------------------------------- MODULE Errands -------------------------------
(***************************************************************************)
(* What a player is on its way to do: the walk, and the commands that wait *)
(* for its end or for the player to be able to act again.                  *)
(*                                                                         *)
(* A command (Game::playerMoveItem, playerUseItem, playerRotateItem, ...)  *)
(* that finds its thing out of reach queues playerAutoWalk and leaves a    *)
(* copy of itself in walkTask, which the end of the walk gives to the      *)
(* scheduler; one that comes before the player may act again gives a copy  *)
(* to the scheduler at once.  The player remembers one event of a kind by  *)
(* its id; stopEvent takes an event back only until the scheduler has      *)
(* handed it to the dispatcher (TimerService says so for every event).     *)
(*                                                                         *)
(* The map is a row of places and a path the steps between two of them.    *)
(* Durations are two flags: the last step is over (rested), the player may *)
(* act (ready).  An item that is gone and a way that is closed end an      *)
(* order alike.                                                            *)
(***************************************************************************)
EXTENDS Integers, Sequences, FiniteSets

CONSTANTS
    Orders,         \* commands of the player, each given once
    KindOf,         \* move, use or plain: the order in which a handler tests
    PlaceOf,        \* where the thing lies
    Nobody,         \* no order
    LastPlace,      \* the row ends here
    EventIds,       \* bound: ids of events outstanding or remembered
    MaxPackets      \* bound: other packets, and steps that go wrong

ASSUME ErrandsAssumption ==
    /\ KindOf \in [Orders -> {"move", "use", "plain"}]
    /\ LastPlace \in Nat /\ PlaceOf \in [Orders -> 0 .. LastPlace]
    /\ Nobody \notin Orders
    /\ EventIds \subseteq Nat \ {0} /\ IsFiniteSet(EventIds) /\ MaxPackets \in Nat

VARIABLES
    place, listWalkDir,
    eventWalk, walkTaskEvent, actionTaskEvent, nextStepEvent,   \* ids, or 0
    walkTask,       \* the order in it, or Nobody
    timers,         \* events the scheduler holds: id and task
    lane,           \* the player's tasks in the dispatcher's list
    rested, ready,
    given, dropped, ended,  \* history of the orders
    packets         \* how many other packets and mishaps there were

errandVars == <<place, listWalkDir, eventWalk, walkTaskEvent, actionTaskEvent, nextStepEvent,
                walkTask, timers, lane, rested, ready, given, dropped, ended, packets>>

Directions == {-1, 1}

WalkTick == [what |-> "walk"]
AttackTask == [what |-> "attack"]
StopTaskWalk == [what |-> "stop"]
Errand(o) == [what |-> "errand", order |-> o]
StepTask(d) == [what |-> "step", dir |-> d]
AutoWalk(l) == [what |-> "auto", path |-> l]

Paths == {[i \in 1 .. n |-> d] : n \in 1 .. LastPlace, d \in Directions}

EventTasks ==
    {WalkTick, AttackTask} \cup {Errand(o) : o \in Orders} \cup {StepTask(d) : d \in Directions}

LaneTasks == EventTasks \cup {StopTaskWalk} \cup {AutoWalk(l) : l \in Paths}

ErrandsTypeOK ==
    /\ place \in 0 .. LastPlace /\ listWalkDir \in Seq(Directions)
    /\ {eventWalk, walkTaskEvent, actionTaskEvent, nextStepEvent} \subseteq EventIds \cup {0}
    /\ walkTask \in Orders \cup {Nobody}
    /\ timers \subseteq [id : EventIds, task : EventTasks]
    /\ lane \in Seq(LaneTasks)
    /\ rested \in BOOLEAN /\ ready \in BOOLEAN
    /\ given \subseteq Orders /\ dropped \subseteq given /\ ended \subseteq given
    /\ packets \in 0 .. MaxPackets

ErrandsInit ==
    /\ place = 0 /\ listWalkDir = <<>>
    /\ eventWalk = 0 /\ walkTaskEvent = 0 /\ actionTaskEvent = 0 /\ nextStepEvent = 0
    /\ walkTask = Nobody /\ timers = {} /\ lane = <<>>
    /\ rested = TRUE /\ ready = TRUE
    /\ given = {} /\ dropped = {} /\ ended = {} /\ packets = 0

-----------------------------------------------------------------------------
Player ==
    [place |-> place, dirs |-> listWalkDir, walk |-> eventWalk, errand |-> walkTaskEvent,
     action |-> actionTaskEvent, step |-> nextStepEvent, task |-> walkTask,
     timers |-> timers, lane |-> lane, rested |-> rested, ready |-> ready,
     dropped |-> dropped, ended |-> ended]

SetPlayer(w) ==
    /\ place' = w.place /\ listWalkDir' = w.dirs
    /\ eventWalk' = w.walk /\ walkTaskEvent' = w.errand
    /\ actionTaskEvent' = w.action /\ nextStepEvent' = w.step
    /\ walkTask' = w.task /\ timers' = w.timers /\ lane' = w.lane
    /\ rested' = w.rested /\ ready' = w.ready
    /\ dropped' = w.dropped /\ ended' = w.ended

FreeIds(w) ==
    EventIds \ ({e.id : e \in w.timers} \cup {w.walk, w.errand, w.action, w.step})

\* Scheduler::addEvent: an id that nobody has.
FreeId(w) == CHOOSE i \in FreeIds(w) : TRUE

Booked(w, task) == w.timers \cup {[id |-> FreeId(w), task |-> task]}

\* Scheduler::stopEvent: an event handed over already is not found any more.
Unbooked(w, id) ==
    LET gone == {e \in w.timers : e.id = id}
    IN [w EXCEPT !.timers = @ \ gone,
                 !.dropped = @ \cup {e.task.order : e \in {x \in gone : x.task.what = "errand"}}]

\* mutant: the event of the errand before is not stopped.
SetNextWalkActionOnly(w, o) ==
    [w EXCEPT !.errand = 0, !.task = o, !.dropped = @ \cup ({w.task} \ {Nobody})]

\* Player::setNextWalkActionTask.
SetNextWalkAction(w, o) ==
    [Unbooked(w, w.errand) EXCEPT !.errand = 0, !.task = o, !.dropped = @ \cup ({w.task} \ {Nobody})]

\* Player::setNextActionTask, and with NULL.
NoNextAction(w) == [Unbooked(w, w.action) EXCEPT !.action = 0]

SetNextAction(w, task) ==
    LET v == NoNextAction(w)
    IN [v EXCEPT !.action = FreeId(v), !.timers = Booked(v, task)]

\* Player::setNextWalkTask, and with NULL.
NoNextStep(w) == [Unbooked(w, w.step) EXCEPT !.step = 0]

SetNextStep(w, task) ==
    LET v == NoNextStep(w)
    IN [v EXCEPT !.step = FreeId(v), !.timers = Booked(v, task)]

\* Creature::addEventWalk.
AddEventWalk(w) ==
    IF w.walk # 0 THEN w
    ELSE [w EXCEPT !.walk = FreeId(w), !.timers = Booked(w, WalkTick)]

\* Creature::stopEventWalk with Player::onWalkAborted.
StopEventWalk(w) ==
    LET v == [Unbooked(w, w.walk) EXCEPT !.walk = 0]
    IN IF w.walk = 0 THEN w
       ELSE IF w.dirs = <<>> THEN v ELSE SetNextWalkAction([v EXCEPT !.dirs = <<>>], Nobody)

\* Player::stopWalk.
StopWalk(w) == IF w.dirs = <<>> THEN w ELSE StopEventWalk(w)

\* Player::onWalkComplete.
OnWalkComplete(w) ==
    IF w.task = Nobody THEN w
    ELSE [w EXCEPT !.errand = FreeId(w), !.timers = Booked(w, Errand(w.task)),
                   !.task = Nobody]

-----------------------------------------------------------------------------
Outcomes == {"moved", "blocked", "teleported"}

\* internalMoveCreature and onCreatureMove: a teleport leads back to the first
\* place and stops the walk.
Moved(w, d, outcome) ==
    LET to == w.place + d
    IN IF outcome = "blocked" \/ to \notin 0 .. LastPlace THEN w
       ELSE IF outcome = "moved" THEN [w EXCEPT !.place = to, !.rested = FALSE]
       ELSE StopEventWalk([w EXCEPT !.place = 0, !.rested = FALSE])

\* Player::onWalk(dir): a step puts off what the player would do next.
Stepped(w, d, outcome) == Moved([NoNextAction(w) EXCEPT !.ready = FALSE], d, outcome)

\* mutant: a walk that is over is not completed in the same tick.
OnWalkLate(w, outcome) ==
    LET stepped == IF ~w.rested \/ w.dirs = <<>> THEN OnWalkComplete(w)
                   ELSE Stepped([w EXCEPT !.dirs = Tail(@)], Head(w.dirs), outcome)
    IN IF stepped.walk = 0 \/ stepped.dirs = <<>> THEN [stepped EXCEPT !.walk = 0]
       ELSE AddEventWalk([stepped EXCEPT !.walk = 0])

\* Creature::onWalk of checkCreatureWalk: the event renews itself, with nowhere to
\* go too.
OnWalk(w, outcome) ==
    LET stepped == IF ~w.rested \/ w.dirs = <<>> THEN w
                   ELSE Stepped([w EXCEPT !.dirs = Tail(@)], Head(w.dirs), outcome)
        completed == IF stepped.dirs = <<>> THEN OnWalkComplete(stepped) ELSE stepped
    IN IF completed.walk = 0 THEN completed ELSE AddEventWalk([completed EXCEPT !.walk = 0])

\* playerMove: a key.
PlayerMove(w, d, outcome) ==
    LET v == StopWalk(w)
    IN IF v.rested THEN Stepped(v, d, outcome)
       ELSE SetNextStep([v EXCEPT !.ready = FALSE], StepTask(d))

\* playerAutoWalk.
PlayerAutoWalk(w, l) == AddEventWalk([NoNextStep(w) EXCEPT !.dirs = l])

Ended(w, o) == [w EXCEPT !.ended = @ \cup {o}]

PathTo(w, o) ==
    LET way == PlaceOf[o] - w.place
    IN [i \in 1 .. (IF way < 0 THEN -way ELSE way) |-> IF way < 0 THEN -1 ELSE 1]

\* The player needs to walk to the thing first.
WalkFirst(w, o) ==
    SetNextWalkAction([w EXCEPT !.lane = Append(@, AutoWalk(PathTo(w, o)))], o)

\* playerMoveItem, playerMoveCreature: first whether the player may act, then the
\* thing and where it is.
PlayerMoveItem(w, o, possible) ==
    LET v == NoNextAction(w)
    IN IF ~w.ready THEN SetNextAction(w, Errand(o))
       ELSE IF possible /\ w.place # PlaceOf[o] THEN WalkFirst(v, o)
       ELSE Ended(v, o)

\* playerUseItem, playerUseItemEx: the other way round; Actions::useItem stops the
\* walk.
PlayerUseItem(w, o, possible) ==
    IF ~possible THEN Ended(w, o)
    ELSE IF w.place # PlaceOf[o] THEN WalkFirst(w, o)
    ELSE IF ~w.ready THEN SetNextAction(w, Errand(o))
    ELSE Ended([StopWalk(NoNextAction(w)) EXCEPT !.ready = FALSE], o)

\* playerRotateItem, playerRequestTrade: no delay between actions.
PlayerRotateItem(w, o, possible) ==
    IF possible /\ w.place # PlaceOf[o] THEN WalkFirst(w, o) ELSE Ended(w, o)

Carry(w, o, possible) ==
    CASE KindOf[o] = "move" -> PlayerMoveItem(w, o, possible)
      [] KindOf[o] = "use" -> PlayerUseItem(w, o, possible)
      [] OTHER -> PlayerRotateItem(w, o, possible)

\* checkCreatureAttack with a weapon that interrupts its swing: the attack takes the
\* place of what the player was about to do.
PlayerAttack(w) == IF w.ready THEN w ELSE SetNextAction(w, AttackTask)

\* One task of the dispatcher.
RunTask(w, task, outcome, possible) ==
    CASE task.what = "walk" -> OnWalk(w, outcome)
      [] task.what = "errand" -> Carry(w, task.order, possible)
      [] task.what = "step" -> PlayerMove(w, task.dir, outcome)
      [] task.what = "auto" -> PlayerAutoWalk(w, task.path)
      [] task.what = "attack" -> PlayerAttack(w)
      [] OTHER -> StopWalk(w)

-----------------------------------------------------------------------------
\* The client sends a command ...
Give(o) ==
    /\ o \notin given
    /\ given' = given \cup {o}
    /\ lane' = Append(lane, Errand(o))
    /\ UNCHANGED <<place, listWalkDir, eventWalk, walkTaskEvent, actionTaskEvent, nextStepEvent,
                   walkTask, timers, rested, ready, dropped, ended, packets>>

\* ... or a key, a click on the map, a stop, an attack.
Packet(task) ==
    /\ packets < MaxPackets
    /\ packets' = packets + 1
    /\ lane' = Append(lane, task)
    /\ UNCHANGED <<place, listWalkDir, eventWalk, walkTaskEvent, actionTaskEvent, nextStepEvent,
                   walkTask, timers, rested, ready, given, dropped, ended>>

\* The scheduler hands an event over.
Fire(e) ==
    /\ e \in timers
    /\ timers' = timers \ {e}
    /\ lane' = Append(lane, e.task)
    /\ UNCHANGED <<place, listWalkDir, eventWalk, walkTaskEvent, actionTaskEvent, nextStepEvent,
                   walkTask, rested, ready, given, dropped, ended, packets>>

Smooth(outcome, possible) == outcome = "moved" /\ possible

\* The dispatcher runs the next task; a step that goes wrong and an order that is
\* refused count with the packets.
Run(outcome, possible) ==
    /\ lane # <<>> /\ Cardinality(FreeIds(Player)) > 1
    /\ Smooth(outcome, possible) \/ packets < MaxPackets
    /\ packets' = IF Smooth(outcome, possible) THEN packets ELSE packets + 1
    /\ \E w \in {RunTask([Player EXCEPT !.lane = Tail(@)], Head(lane), outcome, possible)} :
          SetPlayer(w)
    /\ UNCHANGED given

\* Time passes.
Rest ==
    /\ ~rested /\ rested' = TRUE
    /\ UNCHANGED <<place, listWalkDir, eventWalk, walkTaskEvent, actionTaskEvent, nextStepEvent,
                   walkTask, timers, lane, ready, given, dropped, ended, packets>>

BeReady ==
    /\ ~ready /\ ready' = TRUE
    /\ UNCHANGED <<place, listWalkDir, eventWalk, walkTaskEvent, actionTaskEvent, nextStepEvent,
                   walkTask, timers, lane, rested, given, dropped, ended, packets>>

ErrandsNext ==
    \/ \E o \in Orders : Give(o)
    \/ \E d \in Directions : Packet(StepTask(d))
    \/ \E l \in Paths : Packet(AutoWalk(l))
    \/ Packet(StopTaskWalk) \/ Packet(AttackTask)
    \/ \E e \in timers : Fire(e)
    \/ \E outcome \in Outcomes, possible \in BOOLEAN : Run(outcome, possible)
    \/ Rest \/ BeReady

\* The dispatcher and the scheduler go on, and time does.
ErrandsFairness ==
    /\ WF_errandVars(\E outcome \in Outcomes, possible \in BOOLEAN : Run(outcome, possible))
    /\ \A i \in EventIds : WF_errandVars(\E e \in timers : e.id = i /\ Fire(e))
    /\ WF_errandVars(Rest) /\ WF_errandVars(BeReady)

ErrandsSpec == ErrandsInit /\ [][ErrandsNext]_errandVars /\ ErrandsFairness

-----------------------------------------------------------------------------
CopiesOf(o) ==
    (IF walkTask = o THEN 1 ELSE 0)
    + Cardinality({e \in timers : e.task = Errand(o)})
    + Cardinality({k \in DOMAIN lane : lane[k] = Errand(o)})

\* An order is waiting in one place, or it is over and waits nowhere.
OneCopy ==
    \A o \in given : CopiesOf(o) = (IF o \in ended \cup dropped THEN 0 ELSE 1)

\* An event that is not a step of the walk can still be stopped: the player knows it.
EventsRemembered ==
    \A e \in timers :
        /\ e.task.what = "errand" => e.id \in {walkTaskEvent, actionTaskEvent}
        /\ e.task.what = "attack" => e.id = actionTaskEvent
        /\ e.task.what = "step" => e.id = nextStepEvent

\* A walk that an order waits for has an event to go on with, or is about to start.
WalkGoesOn ==
    walkTask # Nobody =>
        \/ \E e \in timers : e.task = WalkTick
        \/ \E k \in DOMAIN lane : lane[k].what \in {"walk", "auto"}

\* No order of the player is lost or carried out twice, whatever it does meanwhile.
ErrandsKept == ErrandsTypeOK /\ OneCopy /\ EventsRemembered /\ WalkGoesOn

\* A player that asks for nothing else comes to the end of each order.
ErrandsEnd ==
    \A o \in Orders : (o \in given) ~> (o \in ended \cup dropped)
=============================================================================
