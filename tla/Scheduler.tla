------------------------------ MODULE Scheduler ------------------------------
(***************************************************************************)
(* The scheduler of font/scheduler.cpp: a thread that sleeps until the     *)
(* earliest event of m_eventList is due and hands it to the dispatcher.    *)
(*                                                                         *)
(* Every critical section of m_eventLock is one step: none blocks inside.  *)
(* Sleeping on m_eventSignal releases the lock, and a sleeper whose time   *)
(* ran out must take it again, so the timeout and the section after it are *)
(* two steps.  The dispatcher appears as the environment that runs and     *)
(* deletes what it was handed.                                             *)
(***************************************************************************)
EXTENDS Naturals, FiniteSets

CONSTANTS
    Threads,        \* the threads that call addEvent and stopEvent
    DThread,        \* the dispatcher thread, one of them
    Events,         \* the SchedulerTask objects
    Delay,          \* Delay[e]: the delay e is created with
    MinTicks,       \* SCHEDULER_MINTICKS, in ticks of the model's clock
    IdMax,          \* 0xFFFFFFFF, where m_lastEventId starts over
    MaxTime,        \* bound on the model's clock
    NoEvent         \* the NULL SchedulerTask

ASSUME ConstantsAssumption ==
    /\ DThread \in Threads
    /\ NoEvent \notin Events
    /\ MinTicks \in Nat \ {0}
    /\ IdMax \in Nat \ {0}
    /\ MaxTime \in Nat
    /\ Delay \in [Events -> Nat \ {0}]      \* createSchedulerTask's assert

VARIABLES
    m_threadState,  \* Scheduler::m_threadState
    m_lastEventId,  \* Scheduler::m_lastEventId
    m_eventList,    \* the events of the priority queue m_eventList
    m_eventIds,     \* Scheduler::m_eventIds, the ids not stopped
    m_eventid,      \* m_eventid[e]: SchedulerTask::m_eventid
    m_cycle,        \* m_cycle[e]: SchedulerTask::m_cycle
    now,            \* the system time
    spc,            \* where the scheduler thread stands
    deadline,       \* the time its timed_wait ends
    task,           \* the event it took from the queue
    returning,      \* returning[p]: the event whose addEvent p has not left
    toSignal,       \* the threads in addEvent that will call notify_one
    handed,         \* events given to the dispatcher and not yet run
    deleted,        \* events whose object was deleted
    stopTrue,       \* history: events for which stopEvent answered true
    given           \* history: events given to the dispatcher

vars == <<m_threadState, m_lastEventId, m_eventList, m_eventIds, m_eventid,
          m_cycle, now, spc, deadline, task, returning, toSignal, handed,
          deleted, stopTrue, given>>

\* What only the scheduler thread and its lock protect.
queueVars == <<m_lastEventId, m_eventList, m_eventIds, m_eventid, m_cycle>>
callVars == <<returning, toSignal>>
objVars == <<handed, deleted, stopTrue, given>>
threadVars == <<spc, deadline, task>>

ThreadState == {"RUNNING", "CLOSING", "TERMINATED"}

Location == {"test", "locking", "waiting", "timed", "timedout", "handing",
             "exited"}

TypeOK ==
    /\ m_threadState \in ThreadState
    /\ m_lastEventId \in 0..IdMax
    /\ m_eventList \subseteq Events
    /\ m_eventIds \subseteq 1..IdMax
    /\ m_eventid \in [Events -> 0..IdMax]
    /\ \A e \in m_eventList : m_eventid[e] # 0
    /\ m_cycle \in [Events -> Nat]
    /\ now \in Nat
    /\ spc \in Location
    /\ deadline \in Nat
    /\ task \in Events \cup {NoEvent}
    /\ spc = "handing" => task \in Events
    /\ returning \in [Threads -> Events \cup {NoEvent}]
    /\ toSignal \subseteq {p \in Threads : returning[p] # NoEvent}
    /\ handed \subseteq Events
    /\ deleted \subseteq Events
    /\ stopTrue \subseteq Events
    /\ given \subseteq Events

Init ==
    /\ m_threadState = "RUNNING"
    /\ m_lastEventId = 0
    /\ m_eventList = {}
    /\ m_eventIds = {}
    /\ m_eventid = [e \in Events |-> 0]
    /\ m_cycle = [e \in Events |-> 0]
    /\ now = 0
    /\ spc = "test"
    /\ deadline = 0
    /\ task = NoEvent
    /\ returning = [p \in Threads |-> NoEvent]
    /\ toSignal = {}
    /\ handed = {}
    /\ deleted = {}
    /\ stopTrue = {}
    /\ given = {}

-----------------------------------------------------------------------------
(* createSchedulerTask, addEvent, stopEvent.                               *)

\* The threads that can make a call: the dispatcher thread when it is not in
\* addEvent already.
Free(p) == returning[p] = NoEvent

Larger(a, b) == IF a > b THEN a ELSE b

\* SchedulerTask's constructor: not sooner than SCHEDULER_MINTICKS from now.
Cycle(e) == now + Larger(Delay[e], MinTicks)

\* Events that were never given to addEvent.
Unused(e) == m_cycle[e] = 0

NextId == (IF m_lastEventId >= IdMax THEN 0 ELSE m_lastEventId) + 1

SignalIfFirst(e) == m_eventList = {}    \* mutant: only for an empty list

SignalIfBefore(e) ==                    \* mutant: not for an empty list
    \E f \in m_eventList : Cycle(e) < m_cycle[f]

\* push leaves an equal event on top, so the new one is the top only when it
\* is strictly the earliest.
IsNewTop(e) == \A f \in m_eventList : Cycle(e) < m_cycle[f]

\* addEvent up to the unlock.
AddEvent(p, e) ==
    /\ Free(p)
    /\ Unused(e)
    /\ Cycle(e) <= MaxTime
    /\ m_cycle' = [m_cycle EXCEPT ![e] = Cycle(e)]
    /\ returning' = [returning EXCEPT ![p] = e]
    /\ \/ /\ m_threadState = "RUNNING"
          /\ m_lastEventId' = NextId
          /\ m_eventid' = [m_eventid EXCEPT ![e] = NextId]
          /\ m_eventIds' = m_eventIds \cup {NextId}
          /\ m_eventList' = m_eventList \cup {e}
          /\ toSignal' = IF IsNewTop(e) THEN toSignal \cup {p} ELSE toSignal
       \/ /\ m_threadState # "RUNNING"
          /\ UNCHANGED <<m_lastEventId, m_eventid, m_eventIds, m_eventList,
                         toSignal>>
    /\ UNCHANGED <<m_threadState, now, threadVars, objVars>>

\* notify_one: the sleeper, if there is one, finds ret true and starts over.
Notify(p) ==
    /\ p \in toSignal
    /\ toSignal' = toSignal \ {p}
    /\ spc' = IF spc \in {"waiting", "timed"} THEN "test" ELSE spc
    /\ UNCHANGED <<m_threadState, queueVars, now, deadline, task, returning,
                   objVars>>

\* addEvent's last line reads the id from the object, outside the lock.
Return(p) ==
    /\ ~Free(p)
    /\ p \notin toSignal
    /\ returning' = [returning EXCEPT ![p] = NoEvent]
    /\ UNCHANGED <<m_threadState, queueVars, now, threadVars, toSignal, objVars>>

StopAndErase(p, e) ==                   \* mutant: takes it off the queue as well
    /\ Free(p)
    /\ m_eventid[e] # 0
    /\ \A q \in Threads : returning[q] # e
    /\ m_eventid[e] \in m_eventIds
    /\ m_eventIds' = m_eventIds \ {m_eventid[e]}
    /\ m_eventList' = m_eventList \ {e}
    /\ stopTrue' = stopTrue \cup {e}
    /\ UNCHANGED <<m_threadState, m_lastEventId, m_eventid, m_cycle,
                   now, threadVars, callVars, handed, deleted, given>>

\* A caller that holds the id addEvent returned for e stops it.
StopEvent(p, e) ==
    /\ Free(p)
    /\ m_eventid[e] # 0
    /\ \A q \in Threads : returning[q] # e
    /\ m_eventid[e] \in m_eventIds
    /\ m_eventIds' = m_eventIds \ {m_eventid[e]}
    /\ stopTrue' = stopTrue \cup {e}
    /\ UNCHANGED <<m_threadState, m_lastEventId, m_eventList, m_eventid, m_cycle,
                   now, threadVars, callVars, handed, deleted, given>>

-----------------------------------------------------------------------------
(* Scheduler::schedulerThread.                                             *)

LatestFirst ==                          \* mutant: operator< the other way round
    {e \in m_eventList : \A f \in m_eventList : m_cycle[e] >= m_cycle[f]}

Tops == {e \in m_eventList : \A f \in m_eventList : m_cycle[e] <= m_cycle[f]}

\* The loop condition reads m_threadState without the lock, so Scheduler::shutdown
\* may come between it and the section that sleeps.
LoopTest ==
    /\ spc = "test"
    /\ m_threadState # "TERMINATED"
    /\ spc' = "locking"
    /\ UNCHANGED <<m_threadState, queueVars, now, deadline, task, callVars,
                   objVars>>

Sleep ==
    /\ spc = "locking"
    /\ \/ /\ m_eventList = {}
          /\ spc' = "waiting"
          /\ UNCHANGED deadline
       \/ /\ \E e \in Tops : deadline' = m_cycle[e]
          /\ spc' = "timed"
    /\ UNCHANGED <<m_threadState, queueVars, now, task, callVars, objVars>>

SpuriousWakeup ==
    /\ spc \in {"waiting", "timed"}
    /\ spc' = "test"
    /\ UNCHANGED <<m_threadState, queueVars, now, deadline, task, callVars,
                   objVars>>

TimeOut ==
    /\ spc = "timed"
    /\ now >= deadline
    /\ spc' = "timedout"
    /\ UNCHANGED <<m_threadState, queueVars, now, deadline, task, callVars,
                   objVars>>

KeptId(e) == m_eventIds         \* mutant: the id of a popped event stays

WithoutId(e) == m_eventIds \ {m_eventid[e]}

RunsAlways(e) == TRUE           \* mutant: a stopped event is run as well

RunsStopped(e) == m_eventid[e] \notin m_eventIds    \* mutant: test inverted

RunTask(e) == m_eventid[e] \in m_eventIds

\* The section after the timeout: take the top and look its id up.
PopTop ==
    /\ spc = "timedout"
    /\ \/ /\ m_threadState # "TERMINATED"
          /\ \E e \in Tops :
                /\ m_eventList' = m_eventList \ {e}
                /\ \/ /\ RunTask(e)
                      /\ m_eventIds' = WithoutId(e)
                      /\ task' = e
                      /\ spc' = "handing"
                      /\ given' = given \cup {e}
                      /\ UNCHANGED deleted
                   \/ /\ ~RunTask(e)    \* was stopped, is deleted here
                      /\ deleted' = deleted \cup {e}
                      /\ spc' = "test"
                      /\ UNCHANGED <<m_eventIds, task, given>>
       \/ /\ m_threadState = "TERMINATED"
          /\ spc' = "test"
          /\ UNCHANGED <<m_eventList, m_eventIds, task, given, deleted>>
    /\ UNCHANGED <<m_threadState, m_lastEventId, m_eventid, m_cycle, now,
                   deadline, callVars, handed, stopTrue>>

\* Dispatcher::addTask(task), outside m_eventLock.
HandOver ==
    /\ spc = "handing"
    /\ handed' = handed \cup {task}
    /\ task' = NoEvent
    /\ spc' = "test"
    /\ UNCHANGED <<m_threadState, queueVars, now, deadline, callVars, deleted,
                   stopTrue, given>>

Exit ==
    /\ spc = "test"
    /\ m_threadState = "TERMINATED"
    /\ spc' = "exited"
    /\ UNCHANGED <<m_threadState, queueVars, now, deadline, task, callVars,
                   objVars>>

-----------------------------------------------------------------------------
(* Shutting down; the environment.                                         *)

\* Scheduler::stop, by setGameState on the dispatcher thread.
Stop ==
    /\ Free(DThread)
    /\ m_threadState = "RUNNING"
    /\ m_threadState' = "CLOSING"
    /\ UNCHANGED <<queueVars, now, threadVars, callVars, objVars>>

\* Scheduler::shutdown, by Game::shutdown on the dispatcher thread.  The
\* objects of the events left are not deleted, and nobody is signalled.
Shutdown ==
    /\ Free(DThread)
    /\ m_threadState = "CLOSING"
    /\ m_threadState' = "TERMINATED"
    /\ m_eventList' = {}
    /\ m_eventIds' = {}
    /\ UNCHANGED <<m_lastEventId, m_eventid, m_cycle, now, threadVars, callVars,
                   objVars>>

\* The dispatcher thread runs a task it was handed and deletes it: never in
\* the middle of an addEvent of its own.
RunHanded(e) ==
    /\ Free(DThread)
    /\ e \in handed
    /\ handed' = handed \ {e}
    /\ deleted' = deleted \cup {e}
    /\ UNCHANGED <<m_threadState, queueVars, now, threadVars, callVars, stopTrue,
                   given>>

Tick ==
    /\ now < MaxTime
    /\ now' = now + 1
    /\ UNCHANGED <<m_threadState, queueVars, threadVars, callVars, objVars>>

SchedulerStep == LoopTest \/ Sleep \/ TimeOut \/ PopTop \/ HandOver \/ Exit

Next ==
    \/ \E p \in Threads, e \in Events : AddEvent(p, e) \/ StopEvent(p, e)
    \/ \E p \in Threads : Notify(p) \/ Return(p)
    \/ SpuriousWakeup
    \/ SchedulerStep
    \/ Stop
    \/ Shutdown
    \/ \E e \in Events : RunHanded(e)
    \/ Tick

Spec == Init /\ [][Next]_vars

\* Time passes and the scheduler thread runs.  Spurious wakeups may recur, but
\* the thread times out on every sleep that lasts to its deadline: TimeOut is
\* enabled again after each of them, hence strong fairness for it.
FairSpec ==
    /\ Spec
    /\ WF_vars(Tick)
    /\ WF_vars(SchedulerStep)
    /\ SF_vars(TimeOut)
    /\ \A p \in Threads : WF_vars(Notify(p)) /\ WF_vars(Return(p))

-----------------------------------------------------------------------------
(* Properties.                                                             *)

\* addEvent signals only for a new top.  Still, while no signal is on its way,
\* the thread never sleeps past the cycle of a queued event.
NoOversleep ==
    toSignal = {} =>
        /\ spc = "waiting" => m_eventList = {}
        /\ spc = "timed" => \A e \in m_eventList : deadline <= m_cycle[e]

\* No event leaves the queue before its cycle, whatever became the top while
\* the thread slept on another event's cycle.
NeverEarly ==
    \A e \in given : m_cycle[e] <= now

\* The thread finds an event on the queue after every timeout: nobody but
\* shutdown empties it, and shutdown is seen in m_threadState.
TimeoutFindsEvent ==
    spc = "timedout" /\ m_threadState # "TERMINATED" => m_eventList # {}

\* The three together: the thread wakes in time, for an event that is there,
\* and never hands over an event before its time (schedulerThread's sleep).
SleepsRight == NoOversleep /\ NeverEarly /\ TimeoutFindsEvent

\* addEvent of the dispatcher thread reads the id of an object nobody has
\* deleted: the thread that deletes an event after running it is itself.
NoReadAfterDelete == returning[DThread] \notin deleted

\* The ids of m_eventIds belong to queued events: the set does not outgrow the
\* queue, and stopEvent answers true only when an event is left to be dropped.
IdsBacked ==
    m_eventIds \subseteq {m_eventid[e] : e \in m_eventList}

\* What the callers of addEvent and stopEvent hold is good: an id read from a
\* live object, which names an event as long as it is in m_eventIds.
IdsSound == IdsBacked /\ NoReadAfterDelete

\* An event accepted is eventually handed over or stopped, unless the
\* scheduler is shut down first.
EventsExpire ==
    \A e \in Events :
        e \in m_eventList ~> \/ e \in given
                             \/ e \in stopTrue
                             \/ m_threadState = "TERMINATED"

\* The scheduler implements the timer service.
Service == INSTANCE TimerService WITH
    due <- m_cycle,
    clock <- now,
    status <- [e \in Events |->
                 IF Unused(e) THEN "none"
                 ELSE IF e \in given THEN "given"
                 ELSE IF e \in stopTrue THEN "stopped"
                 ELSE IF e \in m_eventList THEN "booked"
                 ELSE "dropped"]

ImplementsService == Service!TSpec
=============================================================================
