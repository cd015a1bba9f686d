----------------------------- MODULE Dispatcher -----------------------------
(***************************************************************************)
(* The dispatcher of font/tasks.cpp: one thread that runs, one at a time,  *)
(* the tasks every thread appends to m_taskList, with its monitor          *)
(* (m_taskLock, m_taskSignal) and its shutdown.                            *)
(*                                                                         *)
(* A critical section that does not block inside is one step.  The lock is *)
(* a variable only because Dispatcher::shutdown keeps it while flush runs  *)
(* the tasks left.  What a task does matters here only through the calls   *)
(* of the dispatcher it makes: Spawn[t] are the tasks t (or the sendAll of *)
(* its execution frame) adds, StopTask is the task in which                *)
(* Game::setGameState(GAME_STATE_SHUTDOWN) runs, ShutdownTask the one it   *)
(* enqueues, whose body is Game::shutdown.                                 *)
(***************************************************************************)
EXTENDS Naturals, Sequences, FiniteSets

CONSTANTS
    Threads,        \* the threads other than the dispatcher that add tasks
    DThread,        \* the dispatcher thread
    NoThread,       \* the owner of a free lock
    Tasks,          \* the Task objects, each created for one addTask
    StopTask,       \* runs Game::setGameState(GAME_STATE_SHUTDOWN)
    ShutdownTask,   \* runs Game::shutdown
    NoTask,         \* the NULL task
    Spawn           \* Spawn[t]: the tasks added while t runs

ASSUME ConstantsAssumption ==
    /\ DThread \notin Threads
    /\ NoThread \notin Threads \cup {DThread}
    /\ NoTask \notin Tasks
    /\ {StopTask, ShutdownTask} \subseteq Tasks
    /\ StopTask # ShutdownTask
    /\ Spawn \in [Tasks -> SUBSET (Tasks \ {StopTask})]
    /\ Spawn[StopTask] = {ShutdownTask}
    /\ Spawn[ShutdownTask] = {}
    \* a task object is handed to addTask once, by the task that created it
    /\ \A t, u \in Tasks : t # u => Spawn[t] \cap Spawn[u] = {}

VARIABLES
    m_threadState,  \* Dispatcher::m_threadState
    m_taskList,     \* Dispatcher::m_taskList
    m_taskLock,     \* the thread that holds m_taskLock, NoThread if it is free
    toSignal,       \* threads past the unlock of addTask, before its notify_one
    dpc,            \* where the dispatcher thread stands
    task,           \* the task it runs, NoTask between two tasks
    todo,           \* the tasks the running task has not added yet
    fate,           \* what became of each Task object
    late            \* history: tasks accepted behind a queued ShutdownTask

vars == <<m_threadState, m_taskList, m_taskLock, toSignal, dpc, task, todo,
          fate, late>>

AllThreads == Threads \cup {DThread}

ThreadState == {"RUNNING", "CLOSING", "TERMINATED"}

Location == {"test", "waiting", "woken", "running", "flushing", "flushRun",
             "exited"}

Fate == {"new", "queued", "running", "done", "dropped"}

\* Tasks no other task creates: network packets, expired timer events, the
\* command or global event that shuts the server down.
External == Tasks \ UNION {Spawn[t] : t \in Tasks}

TypeOK ==
    /\ m_threadState \in ThreadState
    /\ m_taskList \in Seq(Tasks)
    /\ m_taskLock \in AllThreads \cup {NoThread}
    /\ toSignal \subseteq AllThreads
    /\ dpc \in Location
    /\ task \in Tasks \cup {NoTask}
    /\ dpc \in {"running", "flushRun"} => task \in Tasks
    /\ dpc \in {"test", "waiting", "woken"} => task = NoTask
    /\ todo \subseteq Tasks
    /\ fate \in [Tasks -> Fate]
    /\ late \subseteq Tasks

Init ==
    /\ m_threadState = "RUNNING"
    /\ m_taskList = <<>>
    /\ m_taskLock = NoThread
    /\ toSignal = {}
    /\ dpc = "test"
    /\ task = NoTask
    /\ todo = {}
    /\ fate = [t \in Tasks |-> "new"]
    /\ late = {}

-----------------------------------------------------------------------------
(* Dispatcher::addTask: the critical section, then the signal.             *)

EnqueuedSwapped(t, push_front) ==       \* mutant: the two ends swapped
    IF push_front THEN Append(m_taskList, t) ELSE <<t>> \o m_taskList

Enqueued(t, push_front) ==
    IF push_front THEN <<t>> \o m_taskList ELSE Append(m_taskList, t)

SignalAfterPush == Len(m_taskList) = 1  \* mutant: size tested before the push

DoSignal == m_taskList = <<>>

Accepts == m_threadState = "RUNNING"

AddTask(self, t, push_front) ==
    /\ m_taskLock = NoThread
    /\ fate[t] = "new"
    /\ \/ /\ Accepts
          /\ m_taskList' = Enqueued(t, push_front)
          /\ toSignal' = IF DoSignal THEN toSignal \cup {self} ELSE toSignal
          /\ fate' = [fate EXCEPT ![t] = "queued"]
          /\ late' = IF fate[ShutdownTask] = "queued" THEN late \cup {t}
                                                      ELSE late
       \/ /\ ~Accepts                      \* the Task object leaks
          /\ fate' = [fate EXCEPT ![t] = "dropped"]
          /\ UNCHANGED <<m_taskList, toSignal, late>>
    /\ UNCHANGED <<m_threadState, m_taskLock>>

Notify(self) ==
    /\ self \in toSignal
    /\ toSignal' = toSignal \ {self}
    /\ dpc' = IF dpc = "waiting" THEN "woken" ELSE dpc
    /\ UNCHANGED <<m_threadState, m_taskList, m_taskLock, task, todo, fate, late>>

\* A thread other than the dispatcher adds a task: the network thread for a
\* packet, the scheduler thread for an event that is due.
ThreadAdds(self, t) ==
    /\ self \notin toSignal
    /\ t \in External
    /\ \E push_front \in BOOLEAN : AddTask(self, t, push_front)
    /\ UNCHANGED <<dpc, task, todo>>

-----------------------------------------------------------------------------
(* Dispatcher::dispatcherThread.                                           *)

NothingPopped == m_taskList             \* mutant: front() without pop_front()

Remaining == Tail(m_taskList)

StartFirst(where) ==
    /\ task' = Head(m_taskList)
    /\ m_taskList' = Remaining
    /\ todo' = Spawn[Head(m_taskList)]
    /\ fate' = [fate EXCEPT ![Head(m_taskList)] = "running"]
    /\ dpc' = where

\* Only the dispatcher thread itself sets STATE_TERMINATED, so the loop
\* condition, read without the lock, and the section after it are one step.
TestList ==
    /\ dpc = "test"
    /\ m_threadState # "TERMINATED"
    /\ m_taskLock = NoThread
    /\ \/ /\ m_taskList = <<>>
          /\ dpc' = "waiting"
          /\ UNCHANGED <<m_taskList, task, todo, fate>>
       \/ /\ m_taskList # <<>>
          /\ StartFirst("running")
    /\ UNCHANGED <<m_threadState, m_taskLock, toSignal, late>>

\* boost::condition_variable may wake without a signal.
SpuriousWakeup ==
    /\ dpc = "waiting"
    /\ dpc' = "woken"
    /\ UNCHANGED <<m_threadState, m_taskList, m_taskLock, toSignal, task, todo,
                   fate, late>>

Resume ==
    /\ dpc = "woken"
    /\ m_taskLock = NoThread
    /\ \/ /\ m_taskList # <<>>
          /\ m_threadState # "TERMINATED"
          /\ StartFirst("running")
       \/ /\ m_taskList = <<>> \/ m_threadState = "TERMINATED"
          /\ dpc' = "test"
          /\ UNCHANGED <<m_taskList, task, todo, fate>>
    /\ UNCHANGED <<m_threadState, m_taskLock, toSignal, late>>

Exit ==
    /\ dpc = "test"
    /\ m_threadState = "TERMINATED"
    /\ dpc' = "exited"
    /\ UNCHANGED <<m_threadState, m_taskList, m_taskLock, toSignal, task, todo,
                   fate, late>>

-----------------------------------------------------------------------------
(* The body of the running task, as far as it uses the dispatcher.         *)

Executing == dpc \in {"running", "flushRun"} /\ DThread \notin toSignal

\* In flushRun the thread already holds m_taskLock, a non-recursive mutex:
\* the guard of AddTask never becomes true and the thread blocks on itself.
TaskAdds ==
    /\ Executing
    /\ \E t \in todo :
          /\ \E push_front \in BOOLEAN :
                /\ t = ShutdownTask => ~push_front
                /\ AddTask(DThread, t, push_front)
          /\ todo' = todo \ {t}
    /\ UNCHANGED <<dpc, task>>

StopBeforeEnqueue ==                    \* mutant: stop() precedes addTask()
    /\ Executing
    /\ task = StopTask
    /\ m_threadState = "RUNNING"
    /\ m_taskLock = NoThread
    /\ m_threadState' = "CLOSING"
    /\ UNCHANGED <<m_taskList, m_taskLock, toSignal, dpc, task, todo, fate, late>>

\* Dispatcher::stop, called by setGameState after it enqueued ShutdownTask.
Stop ==
    /\ Executing
    /\ task = StopTask
    /\ todo = {}
    /\ m_threadState = "RUNNING"
    /\ m_taskLock = NoThread
    /\ m_threadState' = "CLOSING"
    /\ UNCHANGED <<m_taskList, m_taskLock, toSignal, dpc, task, todo, fate, late>>

\* Dispatcher::shutdown up to its call of flush.
Shutdown ==
    /\ Executing
    /\ task = ShutdownTask
    /\ m_threadState # "TERMINATED"
    /\ m_taskLock = NoThread
    /\ m_taskLock' = DThread
    /\ m_threadState' = "TERMINATED"
    /\ dpc' = "flushing"
    /\ UNCHANGED <<m_taskList, toSignal, task, todo, fate, late>>

Flush ==
    /\ dpc = "flushing"
    /\ \/ /\ m_taskList # <<>>
          /\ StartFirst("flushRun")
          /\ UNCHANGED m_taskLock
       \/ /\ m_taskList = <<>>          \* flush and shutdown return
          /\ m_taskLock' = NoThread
          /\ dpc' = "running"
          /\ task' = ShutdownTask
          /\ UNCHANGED <<m_taskList, todo, fate>>
    /\ UNCHANGED <<m_threadState, toSignal, late>>

\* the loop starts over with Task* task = NULL
NextTask == NoTask

\* The task returns and is deleted.
Finish ==
    /\ Executing
    /\ todo = {}
    /\ task = StopTask => m_threadState # "RUNNING"
    /\ task = ShutdownTask => m_threadState = "TERMINATED"
    /\ fate' = [fate EXCEPT ![task] = "done"]
    /\ dpc' = IF dpc = "running" THEN "test" ELSE "flushing"
    /\ task' = NextTask
    /\ UNCHANGED <<m_threadState, m_taskList, m_taskLock, toSignal, todo, late>>

-----------------------------------------------------------------------------

DispatcherStep ==
    TestList \/ Resume \/ Exit \/ TaskAdds \/ Stop \/ Shutdown \/ Flush \/ Finish

Next ==
    \/ \E self \in Threads, t \in Tasks : ThreadAdds(self, t)
    \/ \E self \in AllThreads : Notify(self)
    \/ SpuriousWakeup
    \/ DispatcherStep

Spec == Init /\ [][Next]_vars

\* The operating system runs every thread that can run: the dispatcher thread
\* advances and a thread past addTask's unlock reaches its notify_one.  No
\* thread has to add a task, and no spurious wakeup has to happen.
FairSpec ==
    /\ Spec
    /\ WF_vars(DispatcherStep)
    /\ \A self \in AllThreads : WF_vars(Notify(self))

-----------------------------------------------------------------------------
(* Properties.                                                             *)

\* addTask signals only when it found the list empty.  Still, the dispatcher
\* thread never sleeps on a non-empty list unless a signal is on its way.
NoLostWakeup ==
    dpc = "waiting" /\ m_taskList # <<>> => toSignal # {}

\* A Task object is in the list once or not at all, and the dispatcher holds
\* no task that is still listed: every task is deleted once (tasks.cpp, the
\* deletes of dispatcherThread and flush).
TasksRunOnce ==
    /\ \A i, j \in DOMAIN m_taskList :
          m_taskList[i] = m_taskList[j] => i = j
    /\ \A t \in Tasks :
          fate[t] = "queued" <=> \E i \in DOMAIN m_taskList : m_taskList[i] = t

\* The only tasks run under the lock by flush, where a call of addTask would
\* block the thread on itself, are those another thread slipped in between
\* setGameState's addTask(shutdown) and its Dispatcher::stop.
FlushRunsOnlyLateTasks ==
    dpc = "flushRun" => task \in late

\* The fate of a task: listed once or held or deleted, and run by flush under
\* the lock only if it was late.
TaskFates == TasksRunOnce /\ FlushRunsOnlyLateTasks

\* The state in which the thread waits for the mutex it holds.
SelfBlocked == dpc = "flushRun" /\ todo # {}

\* Once setGameState has closed the dispatcher its thread ends.
ClosingTerminates ==
    m_threadState = "CLOSING" ~> (dpc = "exited" \/ SelfBlocked)

\* Every task the dispatcher accepted is eventually run to its end, shutdown
\* included, unless flush blocks on a late task that adds a task.
\* And once setGameState has closed the dispatcher its thread ends.
AcceptedTasksRun ==
    /\ \A t \in Tasks : fate[t] = "queued" ~> (fate[t] = "done" \/ SelfBlocked)
    /\ ClosingTerminates
=============================================================================
