-------------------------- MODULE DispatcherProofs --------------------------
(***************************************************************************)
(* Proofs about the dispatcher, for any set of threads and tasks, and      *)
(* about what its tasks do to the world: the items that decay, for any     *)
(* types of items, and the creatures that are checked, spawned, summoned   *)
(* and released, for any number of creatures, blocks and vectors.          *)
(***************************************************************************)
EXTENDS Dispatcher, Decay, Creatures, Loops

\* Type correctness of the dispatcher's state.
THEOREM TypeCorrect == Spec => []TypeOK
<1>1. Init => TypeOK
  BY ConstantsAssumption DEF Init, TypeOK, ThreadState, AllThreads, Location, Fate
<1>2. TypeOK /\ [Next]_vars => TypeOK'
  <2> SUFFICES ASSUME TypeOK, [Next]_vars PROVE TypeOK'
    OBVIOUS
  <2> USE ConstantsAssumption DEF TypeOK, ThreadState, AllThreads, Location, Fate
  <2>1. ASSUME NEW self \in AllThreads, NEW t \in Tasks, NEW f \in BOOLEAN,
               AddTask(self, t, f)
        PROVE  /\ m_threadState' \in ThreadState
               /\ m_taskList' \in Seq(Tasks)
               /\ m_taskLock' \in AllThreads \cup {NoThread}
               /\ toSignal' \subseteq AllThreads
               /\ fate' \in [Tasks -> Fate]
               /\ late' \subseteq Tasks
    <3>1. <<t>> \o m_taskList \in Seq(Tasks)
      <4>1. <<t>> \in Seq(Tasks)
        OBVIOUS
      <4> QED BY <4>1
    <3>2. Append(m_taskList, t) \in Seq(Tasks)
      OBVIOUS
    <3>3. Enqueued(t, f) \in Seq(Tasks)
      BY <3>1, <3>2 DEF Enqueued
    <3> QED BY <2>1, <3>3 DEF AddTask, Accepts, DoSignal
  <2>2. ASSUME NEW where \in {"running", "flushRun"}, StartFirst(where),
               m_taskList # <<>>
        PROVE  /\ task' \in Tasks
               /\ m_taskList' \in Seq(Tasks)
               /\ todo' \subseteq Tasks
               /\ fate' \in [Tasks -> Fate]
               /\ dpc' = where
    <3>1. Head(m_taskList) \in Tasks /\ Tail(m_taskList) \in Seq(Tasks)
      BY <2>2
    <3> QED BY <3>1, <2>2 DEF StartFirst, Remaining
  <2>3. ASSUME NEW self \in Threads, NEW t \in Tasks, ThreadAdds(self, t)
        PROVE  TypeOK'
    <3>1. PICK f \in BOOLEAN : AddTask(self, t, f)
      BY <2>3 DEF ThreadAdds
    <3> QED BY <3>1, <2>1, <2>3 DEF ThreadAdds
  <2>4. ASSUME NEW self \in AllThreads, Notify(self) PROVE TypeOK'
    BY <2>4 DEF Notify
  <2>5. CASE SpuriousWakeup
    BY <2>5 DEF SpuriousWakeup
  <2>6. CASE TestList
    BY <2>6, <2>2 DEF TestList
  <2>7. CASE Resume
    BY <2>7, <2>2 DEF Resume
  <2>8. CASE Exit
    BY <2>8 DEF Exit
  <2>9. CASE TaskAdds
    <3>1. PICK t \in todo : /\ \E f \in BOOLEAN : AddTask(DThread, t, f)
                            /\ todo' = todo \ {t}
      BY <2>9 DEF TaskAdds
    <3>2. PICK f \in BOOLEAN : AddTask(DThread, t, f)
      BY <3>1
    <3> QED BY <3>1, <3>2, <2>1, <2>9 DEF TaskAdds
  <2>10. CASE Stop
    BY <2>10 DEF Stop
  <2>11. CASE Shutdown
    BY <2>11 DEF Shutdown
  <2>12. CASE Flush
    BY <2>12, <2>2 DEF Flush
  <2>13. CASE Finish
    BY <2>13 DEF Finish, NextTask, Executing
  <2>14. CASE UNCHANGED vars
    BY <2>14 DEF vars
  <2> QED
    BY <2>3, <2>4, <2>5, <2>6, <2>7, <2>8, <2>9, <2>10, <2>11, <2>12, <2>13,
       <2>14 DEF Next, DispatcherStep
<1>3. QED BY <1>1, <1>2, PTL DEF Spec

\* addTask's signal rule loses no wakeup: the dispatcher thread never sleeps on
\* a non-empty list with no thread on its way to notify_one.  The invariant is
\* inductive given the types.
THEOREM LostWakeupFree == Spec => []NoLostWakeup
<1>1. Init => NoLostWakeup
  BY DEF Init, NoLostWakeup
<1>2. TypeOK /\ NoLostWakeup /\ [Next]_vars => NoLostWakeup'
  <2> SUFFICES ASSUME TypeOK, NoLostWakeup, [Next]_vars PROVE NoLostWakeup'
    OBVIOUS
  <2> USE DEF NoLostWakeup
  <2>1. ASSUME NEW self \in Threads, NEW t \in Tasks, ThreadAdds(self, t)
        PROVE  NoLostWakeup'
    BY <2>1 DEF ThreadAdds, AddTask, DoSignal
  <2>2. ASSUME NEW self \in AllThreads, Notify(self) PROVE NoLostWakeup'
    BY <2>2 DEF Notify
  <2>3. CASE SpuriousWakeup
    BY <2>3 DEF SpuriousWakeup
  <2>4. CASE TestList
    BY <2>4 DEF TestList, StartFirst
  <2>5. CASE Resume
    BY <2>5 DEF Resume, StartFirst
  <2>6. CASE Exit
    BY <2>6 DEF Exit
  <2>7. CASE TaskAdds
    BY <2>7 DEF TaskAdds, Executing
  <2>8. CASE Stop
    BY <2>8 DEF Stop
  <2>9. CASE Shutdown
    BY <2>9 DEF Shutdown
  <2>10. CASE Flush
    BY <2>10 DEF Flush, StartFirst
  <2>11. CASE Finish
    BY <2>11 DEF Finish
  <2>12. CASE UNCHANGED vars
    BY <2>12 DEF vars
  <2> QED
    BY <2>1, <2>2, <2>3, <2>4, <2>5, <2>6, <2>7, <2>8, <2>9, <2>10, <2>11, <2>12
       DEF Next, DispatcherStep
<1>3. QED BY <1>1, <1>2, TypeCorrect, PTL DEF Spec
-----------------------------------------------------------------------------

\* Only a running task adds tasks, and only its own; fate says "running" of the task
\* the dispatcher runs, and of Game::shutdown while its flush runs others.
RunningIsKnown ==
    /\ todo # {} => dpc \in {"running", "flushRun"} /\ todo \subseteq Spawn[task]
    /\ dpc \in {"running", "flushRun"} => fate[task] = "running"
    /\ dpc \in {"flushing", "flushRun"} =>
          m_threadState = "TERMINATED" /\ fate[ShutdownTask] = "running"
    /\ dpc = "flushRun" => task # ShutdownTask

\* setGameState enqueues the shutdown before it closes the dispatcher, and nothing is
\* accepted once the shutdown runs.
ShutdownAfterStop ==
    /\ fate[ShutdownTask] = "queued" /\ m_threadState = "RUNNING" => task = StopTask
    /\ task = ShutdownTask => m_threadState # "RUNNING"

\* Whatever is listed behind the shutdown was accepted after it.
BehindIsLate ==
    /\ \A i, k \in DOMAIN m_taskList :
          m_taskList[k] = ShutdownTask /\ k < i => m_taskList[i] \in late
    /\ task = ShutdownTask \/ dpc \in {"flushing", "flushRun"} =>
          \A i \in DOMAIN m_taskList : m_taskList[i] \in late

\* The inductive invariant behind TaskFates.
FateInv ==
    TasksRunOnce /\ RunningIsKnown /\ ShutdownAfterStop /\ BehindIsLate
    /\ FlushRunsOnlyLateTasks

\* The list after push_front.
LEMMA PushFront ==
    ASSUME NEW S, NEW s \in Seq(S), NEW t \in S
    PROVE  /\ <<t>> \o s \in Seq(S)
           /\ Len(<<t>> \o s) = Len(s) + 1
           /\ (<<t>> \o s)[1] = t
           /\ \A i \in 2 .. Len(s) + 1 : (<<t>> \o s)[i] = s[i - 1]
<1>1. <<t>> \in Seq(S) /\ Len(<<t>>) = 1 /\ <<t>>[1] = t
  OBVIOUS
<1>2. Len(<<t>> \o s) = 1 + Len(s)
  BY <1>1
<1>3. \A i \in 1 .. 1 + Len(s) :
        (<<t>> \o s)[i] = IF i <= 1 THEN <<t>>[i] ELSE s[i - 1]
  BY <1>1
<1> QED BY <1>1, <1>2, <1>3

\* addTask lists a new task once, and whatever it puts behind the shutdown is late.
LEMMA AddTaskKeeps ==
    ASSUME TypeOK, FateInv, NEW self, NEW t \in Tasks, NEW push_front \in BOOLEAN,
           AddTask(self, t, push_front),
           t = ShutdownTask => ~push_front
    PROVE  /\ TasksRunOnce'
           /\ \A i, k \in DOMAIN m_taskList' :
                 m_taskList'[k] = ShutdownTask /\ k < i => m_taskList'[i] \in late'
           /\ late \subseteq late'
           /\ \A u \in Tasks : u # t => fate'[u] = fate[u]
           /\ fate[t] = "new"
           /\ m_threadState # "RUNNING" => m_taskList' = m_taskList
           /\ m_threadState' = m_threadState
           /\ m_threadState # "RUNNING" => fate'[t] = "dropped"
<1> USE DEF TypeOK
<1>1. /\ fate[t] = "new"
      /\ m_threadState' = m_threadState
      /\ late \subseteq late'
      /\ fate' = [fate EXCEPT ![t] = fate'[t]]
      /\ fate'[t] \in {"queued", "dropped"}
  BY DEF AddTask
<1>2. \A i \in DOMAIN m_taskList : m_taskList[i] # t
  BY <1>1 DEF FateInv, TasksRunOnce
<1>3. CASE ~Accepts
  <2>1. m_taskList' = m_taskList /\ late' = late /\ fate'[t] = "dropped"
    BY <1>3 DEF AddTask
  <2>2. TasksRunOnce'
    BY <1>1, <1>2, <2>1 DEF FateInv, TasksRunOnce
  <2> QED BY <1>1, <1>2, <2>1, <2>2 DEF FateInv, BehindIsLate
<1>4. CASE Accepts
  <2>1. /\ m_taskList' = Enqueued(t, push_front)
        /\ fate'[t] = "queued"
        /\ fate[ShutdownTask] = "queued" => t \in late'
        /\ m_threadState = "RUNNING"
    BY <1>4 DEF AddTask, Accepts
  <2>2. \A i \in DOMAIN m_taskList : m_taskList[i] = ShutdownTask =>
            fate[ShutdownTask] = "queued"
    BY ConstantsAssumption DEF FateInv, TasksRunOnce
  <2>3. CASE push_front
    <3>1. m_taskList' = <<t>> \o m_taskList
      BY <2>1, <2>3 DEF Enqueued
    <3>2. /\ Len(m_taskList') = Len(m_taskList) + 1
          /\ m_taskList'[1] = t
          /\ \A i \in 2 .. Len(m_taskList) + 1 : m_taskList'[i] = m_taskList[i - 1]
          /\ DOMAIN m_taskList' = 1 .. Len(m_taskList) + 1
      BY <3>1, PushFront
    <3>3. \A i \in 1 .. Len(m_taskList) : m_taskList'[i + 1] = m_taskList[i]
      BY <3>2
    <3>4. TasksRunOnce'
      <4>1. \A i, j \in DOMAIN m_taskList' : m_taskList'[i] = m_taskList'[j] => i = j
        <5> SUFFICES ASSUME NEW i \in DOMAIN m_taskList', NEW j \in DOMAIN m_taskList',
                            m_taskList'[i] = m_taskList'[j]
                     PROVE  i = j
          OBVIOUS
        <5>1. CASE i = 1 \/ j = 1
          BY <5>1, <3>2, <1>2
        <5>2. CASE i # 1 /\ j # 1
          <6>1. i - 1 \in DOMAIN m_taskList /\ j - 1 \in DOMAIN m_taskList
            BY <5>2, <3>2
          <6>2. m_taskList[i - 1] = m_taskList[j - 1]
            BY <5>2, <3>2
          <6>3. i - 1 = j - 1
            BY <6>1, <6>2 DEF FateInv, TasksRunOnce
          <6> QED BY <6>3, <3>2
        <5> QED BY <5>1, <5>2
      <4>2. ASSUME NEW u \in Tasks
            PROVE  fate'[u] = "queued" <=> \E i \in DOMAIN m_taskList' : m_taskList'[i] = u
        <5>1. CASE u = t
          <6>1. fate'[u] = "queued"
            BY ONLY <2>1, <5>1
          <6>2. Len(m_taskList) \in Nat
            OBVIOUS
          <6>3. 1 \in DOMAIN m_taskList' /\ m_taskList'[1] = u
            BY ONLY <3>2, <5>1, <6>2
          <6> QED BY ONLY <6>1, <6>3
        <5>2. CASE u # t
          <6>1. fate'[u] = fate[u]
            BY <1>1, <5>2
          <6>2. (\E i \in DOMAIN m_taskList' : m_taskList'[i] = u)
                  => \E i \in DOMAIN m_taskList : m_taskList[i] = u
            BY <3>2, <5>2
          <6>3. (\E i \in DOMAIN m_taskList : m_taskList[i] = u)
                  => \E i \in DOMAIN m_taskList' : m_taskList'[i] = u
            <7>1. ASSUME NEW i \in DOMAIN m_taskList, m_taskList[i] = u
                  PROVE  i + 1 \in DOMAIN m_taskList' /\ m_taskList'[i + 1] = u
              BY <7>1, <3>2, <3>3
            <7> QED BY <7>1
          <6> QED BY <6>1, <6>2, <6>3 DEF FateInv, TasksRunOnce
        <5> QED BY <5>1, <5>2
      <4> QED BY <4>1, <4>2 DEF TasksRunOnce
    <3>5. ASSUME NEW i \in DOMAIN m_taskList', NEW k \in DOMAIN m_taskList',
                 m_taskList'[k] = ShutdownTask, k < i
          PROVE  m_taskList'[i] \in late'
      <4>1. k # 1 /\ i # 1
        BY <2>3, <3>2, <3>5
      <4>2. i - 1 \in DOMAIN m_taskList /\ k - 1 \in DOMAIN m_taskList /\ k - 1 < i - 1
        BY <4>1, <3>2, <3>5
      <4>3. m_taskList[k - 1] = ShutdownTask /\ m_taskList[i - 1] = m_taskList'[i]
        BY <4>1, <3>2, <3>5
      <4> QED BY <4>2, <4>3, <1>1 DEF FateInv, BehindIsLate
    <3> QED BY <1>1, <2>1, <3>4, <3>5
  <2>4. CASE ~push_front
    <3>1. m_taskList' = Append(m_taskList, t)
      BY <2>1, <2>4 DEF Enqueued
    <3>2. /\ Len(m_taskList') = Len(m_taskList) + 1
          /\ m_taskList'[Len(m_taskList) + 1] = t
          /\ \A i \in 1 .. Len(m_taskList) : m_taskList'[i] = m_taskList[i]
          /\ DOMAIN m_taskList' = 1 .. Len(m_taskList) + 1
          /\ DOMAIN m_taskList = 1 .. Len(m_taskList)
          /\ Len(m_taskList) \in Nat
      BY <3>1
    <3>3. TasksRunOnce'
      <4>1. \A i, j \in DOMAIN m_taskList' : m_taskList'[i] = m_taskList'[j] => i = j
        <5> SUFFICES ASSUME NEW i \in DOMAIN m_taskList', NEW j \in DOMAIN m_taskList',
                            m_taskList'[i] = m_taskList'[j]
                     PROVE  i = j
          OBVIOUS
        <5>1. CASE i = Len(m_taskList) + 1 \/ j = Len(m_taskList) + 1
          BY <5>1, <3>2, <1>2
        <5>2. CASE i \in DOMAIN m_taskList /\ j \in DOMAIN m_taskList
          BY <5>2, <3>2 DEF FateInv, TasksRunOnce
        <5> QED BY <5>1, <5>2, <3>2
      <4>2. ASSUME NEW u \in Tasks
            PROVE  fate'[u] = "queued" <=> \E i \in DOMAIN m_taskList' : m_taskList'[i] = u
        <5>1. CASE u = t
          BY <5>1, <2>1, <3>2
        <5>2. CASE u # t
          <6>1. fate'[u] = fate[u]
            BY <1>1, <5>2
          <6>2. (\E i \in DOMAIN m_taskList' : m_taskList'[i] = u)
                  <=> \E i \in DOMAIN m_taskList : m_taskList[i] = u
            BY <3>2, <5>2
          <6> QED BY <6>1, <6>2 DEF FateInv, TasksRunOnce
        <5> QED BY <5>1, <5>2
      <4> QED BY <4>1, <4>2 DEF TasksRunOnce
    <3>4. ASSUME NEW i \in DOMAIN m_taskList', NEW k \in DOMAIN m_taskList',
                 m_taskList'[k] = ShutdownTask, k < i
          PROVE  m_taskList'[i] \in late'
      <4>1. k \in DOMAIN m_taskList /\ m_taskList[k] = ShutdownTask
        BY <3>2, <3>4
      <4>2. CASE i = Len(m_taskList) + 1
        BY <4>1, <4>2, <3>2, <2>1, <2>2
      <4>3. CASE i \in DOMAIN m_taskList
        BY <4>1, <4>3, <3>2, <3>4, <1>1 DEF FateInv, BehindIsLate
      <4> QED BY <4>2, <4>3, <3>2
    <3> QED BY <1>1, <2>1, <3>3, <3>4
  <2> QED BY <2>3, <2>4
<1> QED BY <1>3, <1>4

\* Taking the first task off the list leaves the others listed once, behind the
\* shutdown as before.
LEMMA StartFirstKeeps ==
    ASSUME TypeOK, FateInv, NEW where, m_taskList # <<>>, StartFirst(where)
    PROVE  /\ TasksRunOnce'
           /\ \A i, k \in DOMAIN m_taskList' :
                 m_taskList'[k] = ShutdownTask /\ k < i => m_taskList'[i] \in late
           /\ task' \in Tasks /\ fate[task'] = "queued" /\ fate'[task'] = "running"
           /\ \A u \in Tasks : u # task' => fate'[u] = fate[u]
           /\ todo' = Spawn[task']
           /\ dpc' = where
           /\ \A i \in DOMAIN m_taskList' : \E j \in DOMAIN m_taskList :
                 m_taskList'[i] = m_taskList[j]
           /\ \E j \in DOMAIN m_taskList : task' = m_taskList[j]
           /\ task' = ShutdownTask => \A i \in DOMAIN m_taskList' : m_taskList'[i] \in late
<1> USE DEF TypeOK
<1>1. /\ Head(m_taskList) = m_taskList[1]
      /\ Len(m_taskList) \in Nat \ {0}
      /\ DOMAIN m_taskList = 1 .. Len(m_taskList)
      /\ m_taskList[1] \in Tasks
  OBVIOUS
<1>2. /\ DOMAIN m_taskList' = 1 .. Len(m_taskList) - 1
      /\ \A i \in 1 .. Len(m_taskList) - 1 : m_taskList'[i] = m_taskList[i + 1]
  BY <1>1 DEF StartFirst, Remaining
<1>3. /\ task' = m_taskList[1]
      /\ todo' = Spawn[task']
      /\ fate' = [fate EXCEPT ![task'] = "running"]
      /\ dpc' = where
  BY <1>1 DEF StartFirst
<1>4. fate[task'] = "queued"
  BY <1>1, <1>3 DEF FateInv, TasksRunOnce
<1>5. \A i \in DOMAIN m_taskList' : i + 1 \in DOMAIN m_taskList /\ i + 1 # 1
  BY <1>1, <1>2
<1>6. \A i \in DOMAIN m_taskList' : m_taskList'[i] # task'
  BY <1>1, <1>2, <1>3, <1>5 DEF FateInv, TasksRunOnce
<1>7. TasksRunOnce'
  <2>1. ASSUME NEW i \in DOMAIN m_taskList', NEW j \in DOMAIN m_taskList',
               m_taskList'[i] = m_taskList'[j]
        PROVE  i = j
    <3>1. i + 1 = j + 1
      BY <2>1, <1>2, <1>5 DEF FateInv, TasksRunOnce
    <3> QED BY <3>1, <1>2
  <2>2. ASSUME NEW u \in Tasks
        PROVE  fate'[u] = "queued" <=> \E i \in DOMAIN m_taskList' : m_taskList'[i] = u
    <3>1. CASE u = task'
      BY <3>1, <1>3, <1>6
    <3>2. CASE u # task'
      <4>1. fate'[u] = fate[u]
        BY <3>2, <1>3
      <4>2. ASSUME NEW i \in DOMAIN m_taskList, m_taskList[i] = u
            PROVE  \E j \in DOMAIN m_taskList' : m_taskList'[j] = u
        <5>1. i # 1 /\ i \in 1 .. Len(m_taskList)
          BY <4>2, <3>2, <1>1, <1>3
        <5>2. i - 1 \in 1 .. Len(m_taskList) - 1 /\ i - 1 + 1 = i
          BY <5>1, <1>1
        <5>3. m_taskList'[i - 1] = u
          BY <5>2, <1>2, <4>2
        <5> QED BY <5>2, <5>3, <1>2
      <4>3. (\E j \in DOMAIN m_taskList' : m_taskList'[j] = u)
              => \E i \in DOMAIN m_taskList : m_taskList[i] = u
        BY <1>2, <1>5
      <4> QED BY <4>1, <4>2, <4>3 DEF FateInv, TasksRunOnce
    <3> QED BY <3>1, <3>2
  <2> QED BY <2>1, <2>2 DEF TasksRunOnce
<1>8. ASSUME NEW i \in DOMAIN m_taskList', NEW k \in DOMAIN m_taskList',
             m_taskList'[k] = ShutdownTask, k < i
      PROVE  m_taskList'[i] \in late
  <2>1. m_taskList[k + 1] = ShutdownTask /\ k + 1 < i + 1 /\ m_taskList[i + 1] = m_taskList'[i]
    BY <1>2, <1>8
  <2> QED BY <2>1, <1>5 DEF FateInv, BehindIsLate
<1>9. ASSUME task' = ShutdownTask, NEW i \in DOMAIN m_taskList'
      PROVE  m_taskList'[i] \in late
  <2>1. m_taskList[1] = ShutdownTask /\ 1 < i + 1 /\ m_taskList[i + 1] = m_taskList'[i]
    BY <1>2, <1>3, <1>9
  <2> QED BY <2>1, <1>1, <1>5 DEF FateInv, BehindIsLate
<1>10. \A i \in DOMAIN m_taskList' : m_taskList'[i] = m_taskList[i + 1]
  BY <1>2
<1> QED BY <1>1, <1>3, <1>4, <1>5, <1>7, <1>8, <1>9, <1>10

\* The inductive invariant of the tasks' fates holds initially and every step
\* preserves it.
THEOREM FatesInductive == Spec => []FateInv
<1> USE DEF RunningIsKnown, ShutdownAfterStop, FlushRunsOnlyLateTasks
<1>1. Init => FateInv
  BY ConstantsAssumption DEF Init, FateInv, TasksRunOnce, BehindIsLate
<1>2. TypeOK /\ FateInv /\ [Next]_vars => FateInv'
  <2> SUFFICES ASSUME TypeOK, FateInv, [Next]_vars PROVE FateInv'
    OBVIOUS
  <2>1. TasksRunOnce /\ RunningIsKnown /\ ShutdownAfterStop /\ BehindIsLate
    BY DEF FateInv
  <2>2. ShutdownTask \in Tasks /\ StopTask \in Tasks /\ StopTask # ShutdownTask
        /\ ShutdownTask # NoTask /\ StopTask # NoTask
    BY ConstantsAssumption
  <2>3. ASSUME NEW self \in Threads, NEW t \in Tasks, ThreadAdds(self, t)
        PROVE  FateInv'
    <3>1. PICK f \in BOOLEAN : AddTask(self, t, f)
      BY <2>3 DEF ThreadAdds
    <3>2. t # ShutdownTask
      BY <2>3, ConstantsAssumption DEF ThreadAdds, External
    <3>3. UNCHANGED <<dpc, task, todo>>
      BY <2>3 DEF ThreadAdds
    <3>4. TasksRunOnce' /\ \A u \in Tasks : u # t => fate'[u] = fate[u]
      BY <3>1, <3>2, AddTaskKeeps
    <3>5. fate[t] = "new" /\ m_threadState' = m_threadState
      BY <3>1, <3>2, AddTaskKeeps
    <3>6. RunningIsKnown'
      BY <2>1, <2>2, <3>2, <3>3, <3>4, <3>5 DEF TypeOK
    <3>7. ShutdownAfterStop'
      BY <2>1, <2>2, <3>2, <3>3, <3>4, <3>5
    <3>8. BehindIsLate'
      <4>1. task = ShutdownTask \/ dpc \in {"flushing", "flushRun"} => m_taskList' = m_taskList
        BY <2>1, <3>1, <3>2, AddTaskKeeps
      <4>2. late \subseteq late'
        BY <3>1, <3>2, AddTaskKeeps
      <4>3. task = ShutdownTask \/ dpc \in {"flushing", "flushRun"} =>
               \A i \in DOMAIN m_taskList' : m_taskList'[i] \in late'
        BY <2>1, <4>1, <4>2 DEF BehindIsLate
      <4> QED BY <3>1, <3>2, <3>3, <4>3, AddTaskKeeps DEF BehindIsLate
    <3>9. FlushRunsOnlyLateTasks'
      BY <3>1, <3>2, <3>3, AddTaskKeeps DEF FateInv
    <3> QED BY <3>4, <3>6, <3>7, <3>8, <3>9 DEF FateInv
  <2>4. CASE TaskAdds
    <3>1. PICK t \in todo, f \in BOOLEAN :
            /\ t = ShutdownTask => ~f
            /\ AddTask(DThread, t, f)
            /\ todo' = todo \ {t}
      BY <2>4 DEF TaskAdds
    <3>2. t \in Tasks /\ t \in Spawn[task] /\ task \in Tasks
      BY <2>1, <2>4, <3>1 DEF TaskAdds, Executing, TypeOK
    <3>3. UNCHANGED <<dpc, task>>
      BY <2>4 DEF TaskAdds
    <3>4. TasksRunOnce' /\ \A u \in Tasks : u # t => fate'[u] = fate[u]
      BY <3>1, <3>2, AddTaskKeeps
    <3>5. fate[t] = "new" /\ m_threadState' = m_threadState
      BY <3>1, <3>2, AddTaskKeeps
    <3>6. RunningIsKnown'
      BY <2>1, <2>2, <3>1, <3>2, <3>3, <3>4, <3>5 DEF TypeOK
    <3>7. t = ShutdownTask => task = StopTask
      BY <3>2, <2>2, ConstantsAssumption
    <3>8. ShutdownAfterStop'
      BY <2>1, <2>2, <3>3, <3>4, <3>5, <3>7
    <3>9. BehindIsLate'
      <4>1. task = ShutdownTask \/ dpc \in {"flushing", "flushRun"} => m_taskList' = m_taskList
        BY <2>1, <3>1, <3>2, AddTaskKeeps
      <4>2. late \subseteq late'
        BY <3>1, <3>2, AddTaskKeeps
      <4>3. task = ShutdownTask \/ dpc \in {"flushing", "flushRun"} =>
               \A i \in DOMAIN m_taskList' : m_taskList'[i] \in late'
        BY <2>1, <4>1, <4>2 DEF BehindIsLate
      <4> QED BY <3>1, <3>2, <3>3, <4>3, AddTaskKeeps DEF BehindIsLate
    <3>10. FlushRunsOnlyLateTasks'
      BY <3>1, <3>2, <3>3, AddTaskKeeps DEF FateInv
    <3> QED BY <3>4, <3>6, <3>8, <3>9, <3>10 DEF FateInv
  <2>5. ASSUME NEW where \in {"running"}, m_taskList # <<>>, StartFirst(where),
               task = NoTask, dpc \in {"test", "woken"},
               UNCHANGED <<m_threadState, late>>
        PROVE  FateInv'
    <3>1. TasksRunOnce' /\ dpc' = "running" /\ task' \in Tasks
          /\ fate[task'] = "queued" /\ fate'[task'] = "running" /\ todo' = Spawn[task']
      BY <2>5, StartFirstKeeps
    <3>2. \A u \in Tasks : u # task' => fate'[u] = fate[u]
      BY <2>5, StartFirstKeeps
    <3>3. RunningIsKnown'
      BY <3>1
    <3>4. ~(fate[ShutdownTask] = "queued" /\ m_threadState = "RUNNING")
      BY <2>1, <2>2, <2>5
    <3>5. ShutdownAfterStop'
      BY <2>1, <2>2, <2>5, <3>1, <3>2, <3>4
    <3>6. BehindIsLate'
      BY <2>5, <3>1, StartFirstKeeps DEF BehindIsLate
    <3> QED BY <3>1, <3>3, <3>5, <3>6 DEF FateInv
  <2>6. ASSUME UNCHANGED <<m_taskList, fate, late, todo, task>>,
               m_threadState' = m_threadState \/ m_threadState' = "CLOSING",
               dpc' \notin {"flushing", "flushRun"} \/ (dpc' = dpc /\ m_threadState' = m_threadState),
               dpc' = dpc \/ (todo = {} /\ dpc' # "running")
        PROVE  FateInv'
    BY <2>1, <2>6 DEF FateInv, TasksRunOnce, BehindIsLate
  <2>7. ASSUME NEW self \in AllThreads, Notify(self) PROVE FateInv'
    BY <2>7, <2>6, <2>1 DEF Notify
  <2>8. CASE SpuriousWakeup
    BY <2>8, <2>6, <2>1 DEF SpuriousWakeup
  <2>9. CASE TestList
    <3>1. CASE m_taskList = <<>>
      BY <3>1, <2>9, <2>6, <2>1 DEF TestList
    <3>2. CASE m_taskList # <<>>
      BY <3>2, <2>9, <2>5 DEF TestList, TypeOK
    <3> QED BY <3>1, <3>2
  <2>10. CASE Resume
    <3>1. CASE dpc' = "test"
      BY <3>1, <2>10, <2>6, <2>1 DEF Resume, StartFirst
    <3>2. CASE dpc' # "test"
      BY <3>2, <2>10, <2>5 DEF Resume, TypeOK
    <3> QED BY <3>1, <3>2
  <2>11. CASE Exit
    BY <2>11, <2>6, <2>1 DEF Exit
  <2>12. CASE Stop
    <3>1. dpc # "flushRun"
      BY <2>12, <2>1 DEF Stop
    <3> QED BY <3>1, <2>12, <2>6 DEF Stop, Executing
  <2>13. CASE Shutdown
    <3>1. dpc = "running" /\ task = ShutdownTask /\ dpc' = "flushing"
          /\ m_threadState' = "TERMINATED"
          /\ UNCHANGED <<m_taskList, task, todo, fate, late>>
      BY <2>13, <2>1 DEF Shutdown, Executing
    <3>2. todo = {}
      BY <3>1, <2>1, ConstantsAssumption
    <3> QED BY <3>1, <3>2, <2>1 DEF FateInv, TasksRunOnce, BehindIsLate
  <2>14. CASE Flush
    <3>1. CASE m_taskList # <<>>
      <4>1. StartFirst("flushRun") /\ UNCHANGED <<m_threadState, late>> /\ dpc = "flushing"
        BY <3>1, <2>14 DEF Flush
      <4>2. TasksRunOnce' /\ dpc' = "flushRun" /\ task' \in Tasks
            /\ fate[task'] = "queued" /\ fate'[task'] = "running" /\ todo' = Spawn[task']
        BY <3>1, <4>1, StartFirstKeeps
      <4>3. \A u \in Tasks : u # task' => fate'[u] = fate[u]
        BY <3>1, <4>1, StartFirstKeeps
      <4>4. RunningIsKnown'
        BY <2>1, <2>2, <4>1, <4>2, <4>3
      <4>5. ShutdownAfterStop'
        BY <2>1, <2>2, <4>1, <4>2, <4>3
      <4>6. \A i \in DOMAIN m_taskList' : m_taskList'[i] \in late'
        BY <2>1, <3>1, <4>1, StartFirstKeeps DEF BehindIsLate
      <4>7. task' \in late'
        BY <2>1, <3>1, <4>1, StartFirstKeeps DEF BehindIsLate
      <4> QED BY <4>2, <4>4, <4>5, <4>6, <4>7 DEF FateInv, BehindIsLate
    <3>2. CASE m_taskList = <<>>
      <4>1. dpc = "flushing" /\ dpc' = "running" /\ task' = ShutdownTask
            /\ UNCHANGED <<m_taskList, todo, fate, m_threadState, late>>
        BY <3>2, <2>14 DEF Flush
      <4> QED BY <3>2, <4>1, <2>1, <2>2 DEF FateInv, TasksRunOnce, BehindIsLate
    <3> QED BY <3>1, <3>2
  <2>15. CASE Finish
    <3>1. /\ dpc \in {"running", "flushRun"} /\ todo = {}
          /\ fate' = [fate EXCEPT ![task] = "done"]
          /\ dpc' = IF dpc = "running" THEN "test" ELSE "flushing"
          /\ task' = NoTask
          /\ UNCHANGED <<m_threadState, m_taskList, todo, late>>
          /\ task = StopTask => m_threadState # "RUNNING"
      BY <2>15 DEF Finish, Executing, NextTask
    <3>2. task \in Tasks /\ fate[task] = "running"
      BY <3>1, <2>1 DEF TypeOK
    <3>3. TasksRunOnce'
      <4>1. \A u \in Tasks : fate'[u] = "queued" <=> fate[u] = "queued"
        BY <3>1, <3>2 DEF TypeOK
      <4> QED BY <4>1, <3>1, <2>1 DEF TasksRunOnce
    <3>4. RunningIsKnown'
      BY <3>1, <3>2, <2>1, <2>2 DEF TypeOK
    <3>5. ShutdownAfterStop'
      BY <3>1, <3>2, <2>1, <2>2 DEF TypeOK
    <3>6. BehindIsLate'
      BY <3>1, <2>1, <2>2 DEF BehindIsLate
    <3> QED BY <3>1, <3>3, <3>4, <3>5, <3>6 DEF FateInv
  <2>16. CASE UNCHANGED vars
    BY <2>16, <2>6 DEF vars
  <2> QED
    BY <2>3, <2>4, <2>7, <2>8, <2>9, <2>10, <2>11, <2>12, <2>13, <2>14, <2>15,
       <2>16 DEF Next, DispatcherStep
<1>3. QED BY <1>1, <1>2, TypeCorrect, PTL DEF Spec

\* A task is listed once or held or deleted, and flush runs only tasks accepted behind
\* the shutdown; for any threads, tasks and tasks they add.
THEOREM FatesCorrect == Spec => []TaskFates
<1>1. FateInv => TaskFates
  BY DEF FateInv, TaskFates
<1> QED BY <1>1, FatesInductive, PTL

-----------------------------------------------------------------------------
(* Entries of an item in a list.                                           *)

Entries(s, i) == {k \in DOMAIN s : s[k] = i}

\* The entries after the first n.
EntriesAfter(s, n, i) == {k \in n + 1 .. Len(s) : s[k] = i}

LEMMA FiniteEntries ==
    ASSUME NEW s \in Seq(Objects), NEW i, NEW n \in Nat
    PROVE  /\ IsFiniteSet(Entries(s, i)) /\ CountIn(s, i) = Cardinality(Entries(s, i))
           /\ CountIn(s, i) \in Nat
           /\ IsFiniteSet(EntriesAfter(s, n, i)) /\ Cardinality(EntriesAfter(s, n, i)) \in Nat
           /\ Len(s) \in Nat /\ DOMAIN s = 1 .. Len(s)
<1>1. Len(s) \in Nat /\ DOMAIN s = 1 .. Len(s)
  OBVIOUS
<1>2. IsFiniteSet(1 .. Len(s)) /\ IsFiniteSet(n + 1 .. Len(s))
  BY <1>1, FS_Interval
<1>3. Entries(s, i) \subseteq 1 .. Len(s)
  BY <1>1 DEF Entries
<1>4. EntriesAfter(s, n, i) \subseteq n + 1 .. Len(s)
  BY DEF EntriesAfter
<1>5. IsFiniteSet(Entries(s, i)) /\ IsFiniteSet(EntriesAfter(s, n, i))
  BY <1>2, <1>3, <1>4, FS_Subset
<1>6. Cardinality(Entries(s, i)) \in Nat /\ Cardinality(EntriesAfter(s, n, i)) \in Nat
  BY <1>5, FS_CardinalityType
<1>7. CountIn(s, i) = Cardinality(Entries(s, i))
  BY DEF CountIn, Entries
<1> QED BY <1>1, <1>5, <1>6, <1>7

LEMMA NoEntries ==
    ASSUME NEW s \in Seq(Objects), NEW i
    PROVE  CountIn(s, i) = 0 <=> i \notin ToSet(s)
<1>1. IsFiniteSet(Entries(s, i)) /\ CountIn(s, i) = Cardinality(Entries(s, i))
  BY FiniteEntries
<1>2. CountIn(s, i) = 0 <=> Entries(s, i) = {}
  BY <1>1, FS_EmptySet
<1>3. Entries(s, i) = {} <=> i \notin ToSet(s)
  BY DEF Entries, ToSet
<1> QED BY <1>2, <1>3

LEMMA EmptyCount == \A i : CountIn(<<>>, i) = 0
<1>1. ASSUME NEW i PROVE CountIn(<<>>, i) = 0
  <2>1. Entries(<<>>, i) = {}
    BY DEF Entries
  <2>2. CountIn(<<>>, i) = Cardinality({})
    BY <2>1 DEF CountIn, Entries
  <2> QED BY <2>2, FS_EmptySet
<1> QED BY <1>1

LEMMA CountAppended ==
    ASSUME NEW s \in Seq(Objects), NEW j \in Objects, NEW i
    PROVE  CountIn(Append(s, j), i) = CountIn(s, i) + (IF i = j THEN 1 ELSE 0)
<1> DEFINE r == Append(s, j)
<1>1. /\ Len(s) \in Nat /\ DOMAIN s = 1 .. Len(s) /\ DOMAIN r = 1 .. Len(s) + 1
      /\ r[Len(s) + 1] = j /\ \A k \in 1 .. Len(s) : r[k] = s[k]
  OBVIOUS
<1> HIDE DEF r
<1>2. r \in Seq(Objects)
  BY DEF r
<1>3. IsFiniteSet(Entries(s, i)) /\ CountIn(s, i) = Cardinality(Entries(s, i)) /\ CountIn(s, i) \in Nat
  BY FiniteEntries
<1>4. CountIn(r, i) = Cardinality(Entries(r, i))
  BY DEF CountIn, Entries
<1>5. CASE i = j
  <2>1. Entries(r, i) = Entries(s, i) \cup {Len(s) + 1}
    BY <1>1, <1>5 DEF Entries
  <2>2. Len(s) + 1 \notin Entries(s, i)
    BY <1>1 DEF Entries
  <2>3. Cardinality(Entries(r, i)) = Cardinality(Entries(s, i)) + 1
    BY <1>3, <2>1, <2>2, FS_AddElement
  <2> QED BY <1>3, <1>4, <1>5, <2>3 DEF r
<1>6. CASE i # j
  <2>1. Entries(r, i) = Entries(s, i)
    BY <1>1, <1>6 DEF Entries
  <2> QED BY <1>3, <1>4, <1>6, <2>1 DEF r
<1> QED BY <1>5, <1>6

LEMMA CountJoined ==
    ASSUME NEW s \in Seq(Objects), NEW t \in Seq(Objects), NEW i
    PROVE  CountIn(s \o t, i) = CountIn(s, i) + CountIn(t, i)
<1> DEFINE r == s \o t
           far == {k \in Len(s) + 1 .. Len(s) + Len(t) : t[k - Len(s)] = i}
           f == [k \in Entries(t, i) |-> k + Len(s)]
<1>1. /\ Len(s) \in Nat /\ DOMAIN s = 1 .. Len(s) /\ Len(t) \in Nat /\ DOMAIN t = 1 .. Len(t)
      /\ DOMAIN r = 1 .. Len(s) + Len(t)
      /\ \A k \in 1 .. Len(s) : r[k] = s[k]
      /\ \A k \in Len(s) + 1 .. Len(s) + Len(t) : r[k] = t[k - Len(s)]
  OBVIOUS
<1> HIDE DEF r
<1>2. /\ IsFiniteSet(Entries(s, i)) /\ CountIn(s, i) = Cardinality(Entries(s, i))
      /\ IsFiniteSet(Entries(t, i)) /\ CountIn(t, i) = Cardinality(Entries(t, i))
      /\ CountIn(s, i) \in Nat /\ CountIn(t, i) \in Nat
  BY FiniteEntries
<1>3. CountIn(r, i) = Cardinality(Entries(r, i))
  BY DEF CountIn, Entries
<1>4. Entries(r, i) = Entries(s, i) \cup far
  BY <1>1 DEF Entries
<1>5. Entries(s, i) \cap far = {}
  BY <1>1 DEF Entries
<1>6. IsFiniteSet(far) /\ Cardinality(far) = Cardinality(Entries(t, i))
  <2>1. \A k \in Entries(t, i) : k \in 1 .. Len(t) /\ t[k] = i /\ f[k] = k + Len(s)
    BY <1>1 DEF Entries
  <2>2. \A k \in Entries(t, i) : k + Len(s) \in far
    <3> SUFFICES ASSUME NEW k \in Entries(t, i) PROVE k + Len(s) \in far
      OBVIOUS
    <3>1. k \in 1 .. Len(t) /\ t[k] = i /\ (k + Len(s)) - Len(s) = k
      BY <1>1, <2>1
    <3> QED BY <1>1, <3>1
  <2>3. f \in [Entries(t, i) -> far]
    BY <2>2
  <2>4. \A a, b \in Entries(t, i) : f[a] = f[b] => a = b
    BY <1>1, <2>1
  <2>5. \A k \in far : k - Len(s) \in Entries(t, i) /\ f[k - Len(s)] = k
    <3> SUFFICES ASSUME NEW k \in far PROVE k - Len(s) \in Entries(t, i) /\ f[k - Len(s)] = k
      OBVIOUS
    <3>1. k - Len(s) \in 1 .. Len(t) /\ t[k - Len(s)] = i
      BY <1>1
    <3>2. k - Len(s) \in Entries(t, i)
      BY <1>1, <3>1 DEF Entries
    <3> QED BY <1>1, <2>1, <3>2
  <2>6. \A k \in far : \E a \in Entries(t, i) : f[a] = k
    BY <2>5
  <2> HIDE DEF f, far
  <2>7. f \in Bijection(Entries(t, i), far)
    BY <2>3, <2>4, <2>6 DEF Bijection, Injection, Surjection, IsInjective
  <2>8. ExistsBijection(Entries(t, i), far)
    BY <2>7 DEF ExistsBijection
  <2> QED BY <1>2, <2>8, FS_Bijection
<1> HIDE DEF far
<1>7. Cardinality(Entries(s, i) \cup far)
        = Cardinality(Entries(s, i)) + Cardinality(far) - Cardinality(Entries(s, i) \cap far)
  BY <1>2, <1>6, FS_Union
<1>8. Cardinality(Entries(s, i) \cap far) = 0
  BY <1>5, FS_EmptySet
<1> QED BY <1>2, <1>3, <1>4, <1>6, <1>7, <1>8 DEF r

\* What is left to go over of a list.
LEMMA EntriesLeft ==
    ASSUME NEW s \in Seq(Objects), NEW i
    PROVE  /\ Cardinality(EntriesAfter(s, 0, i)) = CountIn(s, i)
           /\ Cardinality(EntriesAfter(s, Len(s), i)) = 0
           /\ \A n \in 1 .. Len(s) :
                 Cardinality(EntriesAfter(s, n - 1, i))
                    = Cardinality(EntriesAfter(s, n, i)) + (IF s[n] = i THEN 1 ELSE 0)
<1>1. Len(s) \in Nat /\ DOMAIN s = 1 .. Len(s)
  OBVIOUS
<1>2. EntriesAfter(s, 0, i) = Entries(s, i) /\ EntriesAfter(s, Len(s), i) = {}
  BY <1>1 DEF EntriesAfter, Entries
<1>3. ASSUME NEW n \in 1 .. Len(s)
      PROVE  Cardinality(EntriesAfter(s, n - 1, i))
                = Cardinality(EntriesAfter(s, n, i)) + (IF s[n] = i THEN 1 ELSE 0)
  <2>1. IsFiniteSet(EntriesAfter(s, n, i)) /\ Cardinality(EntriesAfter(s, n, i)) \in Nat
    BY FiniteEntries
  <2>2. CASE s[n] = i
    <3>1. EntriesAfter(s, n - 1, i) = EntriesAfter(s, n, i) \cup {n}
      BY <1>1, <2>2 DEF EntriesAfter
    <3>2. n \notin EntriesAfter(s, n, i)
      BY <1>1 DEF EntriesAfter
    <3>3. Cardinality(EntriesAfter(s, n - 1, i)) = Cardinality(EntriesAfter(s, n, i)) + 1
      BY <2>1, <3>1, <3>2, FS_AddElement
    <3> QED BY <2>2, <3>3
  <2>3. CASE s[n] # i
    <3>1. EntriesAfter(s, n - 1, i) = EntriesAfter(s, n, i)
      <4>1. \A k \in Int : k \in n - 1 + 1 .. Len(s) <=> k = n \/ k \in n + 1 .. Len(s)
        BY <1>1
      <4> QED BY <1>1, <2>3, <4>1 DEF EntriesAfter
    <3> QED BY <2>1, <2>3, <3>1
  <2> QED BY <2>2, <2>3
<1> QED BY <1>2, <1>3, FiniteEntries, FS_EmptySet

-----------------------------------------------------------------------------
(* The world of the decay lists in the middle of a task.                   *)

WorldState ==
    [item : [Objects -> ItemState], list : Seq(Objects), waiting : Seq(Objects),
     freed : Seq(Objects), texts : [Objects -> Nat], room : BOOLEAN]

Tally == [Objects -> Nat]

HeldUse(x) == IF x.st = "held" THEN 1 ELSE 0

Counted(w, i) == CountIn(w.list, i) + CountIn(w.waiting, i) + CountIn(w.freed, i)

Marked(x) == x.st = "held" /\ x.decaying /\ ~TypeData[x.type].combat

\* The marks are kept where the data are clean, in a task the memory is enough for.
Minded(w) == CleanTypes /\ w.room

\* due: the uses of item i for entries that checkDecay has still to go over; heed:
\* those of them that will be there when the call that is running ends.
UsesSound(w, due, i) ==
    IF w.item[i].st = "free" THEN Counted(w, i) + due[i] = 0
    ELSE w.item[i].uses = HeldUse(w.item[i]) + Counted(w, i) + due[i]

MarkSound(w, heed, i) ==
    Minded(w) /\ Marked(w.item[i]) => CountIn(w.list, i) + CountIn(w.waiting, i) + heed[i] > 0

Sound(w, due, heed) ==
    /\ w \in WorldState /\ due \in Tally /\ heed \in Tally
    /\ \A i \in Objects : UsesSound(w, due, i) /\ MarkSound(w, heed, i)

SetItem(w, i, x) == [w EXCEPT !.item[i] = x]

AddOne(f, i) == [f EXCEPT ![i] = @ + 1]

LessOne(f, i) == [f EXCEPT ![i] = @ - 1]

LEMMA ListCounts ==
    ASSUME NEW w \in WorldState, NEW i \in Objects
    PROVE  /\ CountIn(w.list, i) \in Nat /\ CountIn(w.waiting, i) \in Nat /\ CountIn(w.freed, i) \in Nat
           /\ Counted(w, i) \in Nat
<1>1. CountIn(w.list, i) \in Nat /\ CountIn(w.waiting, i) \in Nat /\ CountIn(w.freed, i) \in Nat
  BY FiniteEntries DEF WorldState
<1> QED BY <1>1 DEF Counted

LEMMA WorldFields ==
    ASSUME NEW w \in WorldState, NEW i \in Objects
    PROVE  /\ w.list \in Seq(Objects) /\ w.waiting \in Seq(Objects) /\ w.freed \in Seq(Objects)
           /\ Append(w.list, i) \in Seq(Objects) /\ Append(w.waiting, i) \in Seq(Objects)
           /\ Append(w.freed, i) \in Seq(Objects)
           /\ w.item \in [Objects -> ItemState] /\ w.item[i] \in ItemState
           /\ w.texts \in [Objects -> Nat] /\ w.texts[i] \in Nat /\ w.room \in BOOLEAN
<1>1. /\ w.list \in Seq(Objects) /\ w.waiting \in Seq(Objects) /\ w.freed \in Seq(Objects)
      /\ w.item \in [Objects -> ItemState] /\ w.texts \in [Objects -> Nat] /\ w.room \in BOOLEAN
  BY DEF WorldState
<1>2. \A l \in Seq(Objects) : Append(l, i) \in Seq(Objects)
  OBVIOUS
<1> QED BY <1>1, <1>2

\* Only the item changes, and not in its place or its uses.
LEMMA ItemChanged ==
    ASSUME NEW w, NEW due, NEW heed, Sound(w, due, heed), NEW i \in Objects,
           NEW x \in ItemState, x.st = w.item[i].st, x.uses = w.item[i].uses,
           NEW mind \in Tally, \A j \in Objects : j # i => mind[j] = heed[j],
           Minded(w) /\ Marked(x) => CountIn(w.list, i) + CountIn(w.waiting, i) + mind[i] > 0
    PROVE  Sound(SetItem(w, i, x), due, mind) /\ SetItem(w, i, x).item[i] = x
<1>1. PICK v : v = SetItem(w, i, x)
  OBVIOUS
<1>2. w \in WorldState /\ due \in Tally
  BY DEF Sound
<1>3. /\ v \in WorldState /\ v.item[i] = x /\ \A j \in Objects : j # i => v.item[j] = w.item[j]
      /\ v.list = w.list /\ v.waiting = w.waiting /\ v.freed = w.freed /\ v.room = w.room
  BY <1>1, <1>2 DEF SetItem, WorldState
<1>4. ASSUME NEW j \in Objects PROVE UsesSound(v, due, j) /\ MarkSound(v, mind, j)
  <2>1. UsesSound(w, due, j) /\ MarkSound(w, heed, j)
    BY DEF Sound
  <2>2. CASE j = i
    BY <1>3, <2>1, <2>2 DEF UsesSound, MarkSound, Counted, HeldUse, Minded
  <2>3. CASE j # i
    BY <1>3, <2>1, <2>3 DEF UsesSound, MarkSound, Counted, HeldUse, Minded
  <2> QED BY <2>2, <2>3
<1> QED BY <1>1, <1>2, <1>3, <1>4 DEF Sound

\* A use of i that was due is in the list of releases.
LEMMA ItemFreed ==
    ASSUME NEW w, NEW due, NEW heed, Sound(w, due, heed), NEW i \in Objects, due[i] > 0
    PROVE  Sound(FreeItem(w, i), LessOne(due, i), heed)
<1>1. PICK v : v = FreeItem(w, i)
  OBVIOUS
<1>2. PICK d : d = LessOne(due, i)
  OBVIOUS
<1>3. w \in WorldState /\ due \in Tally /\ heed \in Tally
  BY DEF Sound
<1>4. d \in Tally /\ d[i] = due[i] - 1 /\ \A j \in Objects : j # i => d[j] = due[j]
  BY <1>2, <1>3 DEF LessOne, Tally
<1>5. /\ v \in WorldState /\ v.item = w.item /\ v.list = w.list /\ v.waiting = w.waiting
      /\ v.room = w.room /\ v.freed = Append(w.freed, i) /\ w.freed \in Seq(Objects)
  <2>1. Append(w.freed, i) \in Seq(Objects) /\ w.freed \in Seq(Objects)
    BY <1>3, WorldFields
  <2>2. v = [w EXCEPT !.freed = Append(w.freed, i)]
    BY <1>1 DEF FreeItem
  <2> QED BY <1>3, <2>1, <2>2 DEF WorldState
<1>6. ASSUME NEW j \in Objects PROVE UsesSound(v, d, j) /\ MarkSound(v, heed, j)
  <2>1. UsesSound(w, due, j) /\ MarkSound(w, heed, j)
    BY DEF Sound
  <2>2. CountIn(v.freed, j) = CountIn(w.freed, j) + (IF j = i THEN 1 ELSE 0)
    BY <1>5, CountAppended
  <2>3. Counted(v, j) + d[j] = Counted(w, j) + due[j]
    <3>1. due[j] \in Nat /\ d[j] = due[j] - (IF j = i THEN 1 ELSE 0)
      BY <1>3, <1>4 DEF Tally
    <3>2. Counted(w, j) = CountIn(w.list, j) + CountIn(w.waiting, j) + CountIn(w.freed, j)
      BY DEF Counted
    <3>3. Counted(v, j) = CountIn(w.list, j) + CountIn(w.waiting, j) + CountIn(v.freed, j)
      BY <1>5 DEF Counted
    <3> QED BY <1>3, <2>2, <3>1, <3>2, <3>3, ListCounts
  <2>4. HeldUse(v.item[j]) + Counted(v, j) + d[j] = HeldUse(w.item[j]) + Counted(w, j) + due[j]
    <3>1. HeldUse(w.item[j]) \in Nat /\ HeldUse(v.item[j]) = HeldUse(w.item[j])
      BY <1>5 DEF HeldUse
    <3>2. Counted(w, j) \in Nat /\ Counted(v, j) \in Nat
      BY <1>3, <1>5, ListCounts
    <3>3. due[j] \in Nat /\ d[j] \in Nat
      BY <1>3, <1>4 DEF Tally
    <3> QED BY <2>3, <3>1, <3>2, <3>3
  <2>5. UsesSound(v, d, j)
    BY <1>5, <2>1, <2>3, <2>4 DEF UsesSound
  <2> QED BY <1>5, <2>1, <2>5 DEF MarkSound, Minded
<1> QED BY <1>1, <1>2, <1>3, <1>4, <1>5, <1>6 DEF Sound

\* The place on the map, or the place that was due, is changed for one in a list.
LEMMA ItemRemoved ==
    ASSUME NEW w, NEW due, NEW heed, Sound(w, due, heed), NEW i \in Objects
    PROVE  /\ Sound(RemoveItem(w, i), due, heed) /\ RemoveItem(w, i).room = w.room
           /\ RemoveItem(w, i).item[i].st # "held"
           /\ \A j \in Objects : j # i => RemoveItem(w, i).item[j] = w.item[j]
<1>1. CASE w.item[i].st # "held"
  BY <1>1 DEF RemoveItem
<1>2. CASE w.item[i].st = "held"
  <2>1. PICK v : v = RemoveItem(w, i)
    OBVIOUS
  <2>2. w \in WorldState /\ due \in Tally /\ heed \in Tally
    BY DEF Sound
  <2>3. /\ v \in WorldState /\ v.list = w.list /\ v.waiting = w.waiting /\ v.room = w.room
        /\ v.freed = Append(w.freed, i) /\ w.freed \in Seq(Objects)
        /\ v.item[i].st = "removed" /\ v.item[i].uses = w.item[i].uses
        /\ \A j \in Objects : j # i => v.item[j] = w.item[j]
    <3>1. Append(w.freed, i) \in Seq(Objects) /\ w.freed \in Seq(Objects) /\ w.item[i] \in ItemState
      BY <2>2, WorldFields
    <3>2. PICK y : y = [w.item[i] EXCEPT !.st = "removed"]
      OBVIOUS
    <3>3. y \in ItemState /\ y.st = "removed" /\ y.uses = w.item[i].uses
      BY <3>1, <3>2 DEF ItemState
    <3>4. v = [w EXCEPT !.item = [@ EXCEPT ![i] = y], !.freed = Append(w.freed, i)]
      BY <1>2, <2>1, <3>2 DEF RemoveItem, FreeItem
    <3> QED BY <2>2, <3>1, <3>3, <3>4 DEF WorldState
  <2>4. ASSUME NEW j \in Objects PROVE UsesSound(v, due, j) /\ MarkSound(v, heed, j)
    <3>1. UsesSound(w, due, j) /\ MarkSound(w, heed, j)
      BY DEF Sound
    <3>2. CountIn(v.freed, j) = CountIn(w.freed, j) + (IF j = i THEN 1 ELSE 0)
      BY <2>3, CountAppended
    <3>3. Counted(v, j) = Counted(w, j) + (IF j = i THEN 1 ELSE 0) /\ Counted(w, j) \in Nat
      <4>1. /\ CountIn(w.list, j) \in Nat /\ CountIn(w.waiting, j) \in Nat
            /\ CountIn(w.freed, j) \in Nat
        BY <2>2, ListCounts
      <4>2. /\ Counted(w, j) = CountIn(w.list, j) + CountIn(w.waiting, j) + CountIn(w.freed, j)
            /\ Counted(v, j) = CountIn(w.list, j) + CountIn(w.waiting, j) + CountIn(v.freed, j)
        BY <2>3 DEF Counted
      <4> QED BY <3>2, <4>1, <4>2
    <3>4. due[j] \in Nat
      BY <2>2 DEF Tally
    <3>5. CASE j = i
      <4>1. w.item[j].uses = 1 + Counted(w, j) + due[j]
        BY <1>2, <3>1, <3>5 DEF UsesSound, HeldUse
      <4>2. UsesSound(v, due, j)
        BY <2>3, <3>3, <3>4, <3>5, <4>1 DEF UsesSound, HeldUse
      <4> QED BY <2>3, <3>5, <4>2 DEF MarkSound, Marked
    <3>6. CASE j # i
      <4>1. v.item[j] = w.item[j] /\ Counted(v, j) = Counted(w, j)
        BY <2>3, <3>3, <3>6
      <4> QED BY <2>3, <3>1, <4>1 DEF UsesSound, MarkSound, Minded
    <3> QED BY <3>5, <3>6
  <2> QED BY <2>1, <2>2, <2>3, <2>4 DEF Sound
<1> QED BY <1>1, <1>2

\* What the data say of a type.
LEMMA TypeOf ==
    ASSUME NEW t \in Types
    PROVE  /\ TypeData[t].decayTime \in Nat /\ TypeData[t].decayTime \in Durations /\ 0 \in Durations
           /\ TypeData[t].stopTime \in BOOLEAN /\ TypeData[t].combat \in BOOLEAN
           /\ TypeData[t].decayTo \in Types \cup {Never, Vanish}
           /\ Durations \subseteq Nat
<1>1. TypeData[t] \in [decayTo : Types \cup {Never, Vanish}, decayTime : Nat,
                       stopTime : BOOLEAN, combat : BOOLEAN, group : Nat]
  BY DecayAssumption
<1>2. TypeData[t].decayTime \in 0 .. TypeData[t].decayTime /\ 0 \in 0 .. TypeData[t].decayTime
  BY <1>1
<1>3. Durations \subseteq Nat
  BY DEF Durations
<1> QED BY <1>1, <1>2, <1>3 DEF Durations

LEMMA ShorterDuration ==
    ASSUME NEW d \in Durations, NEW n \in Nat PROVE Decreased(d, n) \in Durations
<1>1. PICK t \in Types : d \in 0 .. TypeData[t].decayTime
  BY DEF Durations
<1>2. TypeData[t].decayTime \in Nat
  BY TypeOf
<1>3. Decreased(d, n) \in 0 .. TypeData[t].decayTime
  BY <1>1, <1>2 DEF Decreased
<1> QED BY <1>3 DEF Durations

\* Memory that nothing uses gets a new item.
LEMMA ItemCreated ==
    ASSUME NEW w, NEW due, NEW heed, Sound(w, due, heed), Unused(w) # {}, NEW t \in Types
    PROVE  /\ Fresh(w) \in Objects /\ w.item[Fresh(w)].st = "free"
           /\ Sound(SetItem(w, Fresh(w), NewItem(t)), due, heed)
<1>1. PICK n : n = Fresh(w)
  OBVIOUS
<1>2. n \in Objects /\ w.item[n].st = "free"
  BY <1>1 DEF Fresh, Unused
<1>3. PICK v : v = SetItem(w, n, NewItem(t))
  OBVIOUS
<1>4. w \in WorldState /\ due \in Tally /\ heed \in Tally
  BY DEF Sound
<1>5. NewItem(t) \in ItemState
  BY TypeOf DEF NewItem, ItemState
<1>6. /\ v \in WorldState /\ v.list = w.list /\ v.waiting = w.waiting /\ v.freed = w.freed
      /\ v.room = w.room /\ v.item[n] = NewItem(t)
      /\ \A j \in Objects : j # n => v.item[j] = w.item[j]
  BY <1>2, <1>3, <1>4, <1>5 DEF SetItem, WorldState
<1>7. ASSUME NEW j \in Objects PROVE UsesSound(v, due, j) /\ MarkSound(v, heed, j)
  <2>1. UsesSound(w, due, j) /\ MarkSound(w, heed, j)
    BY DEF Sound
  <2>2. Counted(v, j) = Counted(w, j) /\ Counted(w, j) \in Nat /\ due[j] \in Nat
    BY <1>4, <1>6, ListCounts DEF Counted, Tally
  <2>3. CASE j = n
    <3>1. Counted(w, j) + due[j] = 0
      BY <1>2, <2>1, <2>3 DEF UsesSound
    <3>2. v.item[j].st = "held" /\ v.item[j].uses = 1 /\ v.item[j].decaying = FALSE
      BY <1>6, <2>3 DEF NewItem
    <3> QED BY <2>2, <3>1, <3>2 DEF UsesSound, MarkSound, HeldUse, Marked
  <2>4. CASE j # n
    BY <1>6, <2>1, <2>2, <2>4 DEF UsesSound, MarkSound, Minded
  <2> QED BY <2>3, <2>4
<1> QED BY <1>1, <1>2, <1>3, <1>4, <1>6, <1>7 DEF Sound

\* startDecay counts a use for the place in toDecayItems.
LEMMA ListedSound ==
    ASSUME NEW w, NEW due, NEW heed, Sound(w, due, heed), NEW i \in Objects, w.item[i].st # "free"
    PROVE  Sound(Listed(w, i), due, heed) /\ Listed(w, i).room = w.room
<1>1. PICK v : v = Listed(w, i)
  OBVIOUS
<1>2. w \in WorldState /\ due \in Tally /\ heed \in Tally
  BY DEF Sound
<1>3. /\ v.list = w.list /\ v.freed = w.freed /\ v.room = w.room
      /\ v.waiting = Append(w.waiting, i) /\ w.waiting \in Seq(Objects)
      /\ v.item[i].st = w.item[i].st /\ v.item[i].uses = w.item[i].uses + 1 /\ w.item[i].uses \in Nat
      /\ \A j \in Objects : j # i => v.item[j] = w.item[j]
      /\ v \in WorldState
  <2>1. /\ Append(w.waiting, i) \in Seq(Objects) /\ w.waiting \in Seq(Objects)
        /\ w.item[i] \in ItemState /\ w.texts[i] \in Nat
    BY <1>2, WorldFields
  <2> DEFINE y == [w.item[i] EXCEPT !.uses = @ + 1, !.decaying = TRUE]
             k == w.texts[i] + (IF TypeData[w.item[i].type].combat THEN 1 ELSE 0)
  <2>2. v = [w EXCEPT !.item[i] = y, !.waiting = Append(@, i), !.texts[i] = k]
    BY <1>1 DEF Listed
  <2>3. y \in ItemState /\ y.st = w.item[i].st /\ y.uses = w.item[i].uses + 1 /\ w.item[i].uses \in Nat
    <3>1. w.item[i].uses \in Nat /\ w.item[i].uses + 1 \in Nat
      BY <2>1 DEF ItemState
    <3> QED BY <2>1, <3>1 DEF ItemState
  <2>4. k \in Nat
    BY <2>1
  <2> HIDE DEF y, k
  <2> QED BY <1>2, <2>1, <2>2, <2>3, <2>4 DEF WorldState
<1>4. ASSUME NEW j \in Objects PROVE UsesSound(v, due, j) /\ MarkSound(v, heed, j)
  <2>1. UsesSound(w, due, j) /\ MarkSound(w, heed, j)
    BY DEF Sound
  <2>2. CountIn(v.waiting, j) = CountIn(w.waiting, j) + (IF j = i THEN 1 ELSE 0)
    BY <1>3, CountAppended
  <2>3. Counted(v, j) = Counted(w, j) + (IF j = i THEN 1 ELSE 0) /\ Counted(w, j) \in Nat
    <3>1. CountIn(w.list, j) \in Nat /\ CountIn(w.waiting, j) \in Nat /\ CountIn(w.freed, j) \in Nat
      BY <1>2, ListCounts
    <3>2. /\ Counted(w, j) = CountIn(w.list, j) + CountIn(w.waiting, j) + CountIn(w.freed, j)
          /\ Counted(v, j) = CountIn(w.list, j) + CountIn(v.waiting, j) + CountIn(w.freed, j)
      BY <1>3 DEF Counted
    <3> QED BY <2>2, <3>1, <3>2
  <2>4. /\ due[j] \in Nat /\ heed[j] \in Nat /\ HeldUse(w.item[j]) \in Nat
        /\ CountIn(w.list, j) \in Nat /\ CountIn(w.waiting, j) \in Nat
    BY <1>2, ListCounts DEF Tally, HeldUse
  <2>5. CASE j = i
    <3>1. UsesSound(v, due, j)
      <4>1. w.item[j].uses = HeldUse(w.item[j]) + Counted(w, j) + due[j]
        BY <2>1, <2>5 DEF UsesSound
      <4>2. HeldUse(v.item[j]) = HeldUse(w.item[j])
        BY <1>3, <2>5 DEF HeldUse
      <4>3. v.item[j].uses = HeldUse(v.item[j]) + Counted(v, j) + due[j]
        BY <1>3, <2>3, <2>4, <2>5, <4>1, <4>2
      <4> QED BY <1>3, <2>5, <4>3 DEF UsesSound
    <3>2. CountIn(v.list, j) + CountIn(v.waiting, j) + heed[j] > 0
      BY <1>3, <2>2, <2>4, <2>5
    <3> QED BY <3>1, <3>2 DEF MarkSound
  <2>6. CASE j # i
    <3>1. v.item[j] = w.item[j] /\ Counted(v, j) = Counted(w, j) /\ v.room = w.room
      BY <1>3, <2>3, <2>6
    <3>2. CountIn(v.list, j) + CountIn(v.waiting, j) = CountIn(w.list, j) + CountIn(w.waiting, j)
      BY <1>3, <2>2, <2>4, <2>6
    <3> QED BY <2>1, <3>1, <3>2 DEF UsesSound, MarkSound, Minded
  <2> QED BY <2>5, <2>6
<1> QED BY <1>1, <1>2, <1>3, <1>4 DEF Sound

LEMMA SetIDState ==
    ASSUME NEW x \in ItemState, NEW t \in Types
    PROVE  /\ SetID(x, t) \in ItemState /\ SetID(x, t).st = x.st /\ SetID(x, t).uses = x.uses
           /\ SetID(x, t).type = t /\ (SetID(x, t).decaying => x.decaying)
<1> QED BY TypeOf DEF SetID, ItemState

\* What a clean type decays to in its group starts without the mark.
LEMMA SetIDClean ==
    ASSUME CleanTypes, NEW x \in ItemState, NEW t \in Types,
           TypeData[x.type].group = TypeData[t].group
    PROVE  /\ TypeData[x.type].combat = TypeData[t].combat
           /\ TypeData[x.type].decayTo = t /\ ~TypeData[x.type].combat =>
                 x.type # t /\ ~SetID(x, t).decaying
<1>1. x.type \in Types /\ x.duration \in Nat
  BY TypeOf DEF ItemState
<1>2. TypeData[t].decayTime \in Nat
  BY TypeOf
<1>3. /\ TypeData[x.type].combat = TypeData[t].combat
      /\ TypeData[x.type].decayTo = t /\ ~TypeData[x.type].combat =>
            /\ x.type # t /\ ~TypeData[x.type].stopTime
            /\ TypeData[t].decayTime > 0 \/ (TypeData[t].decayTo = Never /\ ~TypeData[t].stopTime)
  BY <1>1 DEF CleanTypes
<1> QED BY <1>2, <1>3 DEF SetID, ItemState

\* mind may pass over an entry of i when i decays by it.
Passes(w, i, heed, mind) ==
    /\ mind \in Tally /\ \A j \in Objects : j # i => mind[j] = heed[j]
    /\ \/ mind = heed
       \/ CanDecay(w.item[i]) /\ ~TypeData[w.item[i].type].combat

LEMMA ItemTransformed ==
    ASSUME NEW w, NEW due, NEW heed, Sound(w, due, heed), NEW i \in Objects, NEW t \in Types,
           NEW mind, Passes(w, i, heed, mind),
           mind = heed \/ TypeData[w.item[i].type].decayTo = t
    PROVE  /\ TransformItem(w, i, t).i \in Objects
           /\ Sound(TransformItem(w, i, t).w, due, mind)
<1>1. PICK x : x = w.item[i]
  OBVIOUS
<1>2. w \in WorldState /\ x \in ItemState /\ heed \in Tally /\ mind \in Tally /\ due \in Tally
  BY <1>1 DEF Sound, WorldState, Passes
<1>3. UsesSound(w, due, i) /\ MarkSound(w, heed, i)
  BY DEF Sound
<1>4. CASE x.st # "held"
  <2>1. TransformItem(w, i, t) = [w |-> w, i |-> i]
    BY <1>1, <1>4 DEF TransformItem
  <2>2. mind = heed
    BY <1>1, <1>4 DEF Passes, CanDecay
  <2> QED BY <2>1, <2>2
<1>5. ASSUME x.st = "held", x.type # t, TypeData[x.type].group # TypeData[t].group, Unused(w) = {}
      PROVE  TransformItem(w, i, t).i \in Objects /\ Sound(TransformItem(w, i, t).w, due, mind)
  <2>1. PICK v : v = [w EXCEPT !.room = FALSE]
    OBVIOUS
  <2>2. TransformItem(w, i, t) = [w |-> v, i |-> i]
    BY <1>1, <1>5, <2>1 DEF TransformItem
  <2>3. /\ v \in WorldState /\ v.item = w.item /\ v.list = w.list /\ v.waiting = w.waiting
        /\ v.freed = w.freed /\ v.room = FALSE
    BY <1>2, <2>1 DEF WorldState
  <2>4. Sound(v, due, mind)
    BY <1>2, <2>3 DEF Sound, UsesSound, MarkSound, Minded, Counted
  <2> QED BY <2>2, <2>4
<1>6. ASSUME x.st = "held", x.type # t, TypeData[x.type].group # TypeData[t].group, Unused(w) # {}
      PROVE  TransformItem(w, i, t).i \in Objects /\ Sound(TransformItem(w, i, t).w, due, mind)
  <2>1. PICK n : n = Fresh(w)
    OBVIOUS
  <2>2. PICK v : v = SetItem(w, n, NewItem(t))
    OBVIOUS
  <2>3. n \in Objects /\ w.item[n].st = "free" /\ Sound(v, due, heed)
    BY <1>6, <2>1, <2>2, ItemCreated
  <2>4. n # i /\ v.item[i] = x
    BY <1>1, <1>2, <1>6, <2>2, <2>3 DEF SetItem, WorldState
  <2>5. PICK u : u = RemoveItem(v, i)
    OBVIOUS
  <2>6. Sound(u, due, heed) /\ u.item[i].st # "held"
    BY <2>3, <2>5, ItemRemoved
  <2>7. Sound(u, due, mind)
    <3>1. u \in WorldState
      BY <2>6 DEF Sound
    <3>2. ASSUME NEW j \in Objects PROVE UsesSound(u, due, j) /\ MarkSound(u, mind, j)
      <4>1. UsesSound(u, due, j) /\ MarkSound(u, heed, j)
        BY <2>6 DEF Sound
      <4>2. CASE j = i
        BY <2>6, <4>1, <4>2 DEF MarkSound, Marked
      <4>3. CASE j # i
        <5>1. mind[j] = heed[j]
          BY <4>3 DEF Passes
        <5> QED BY <4>1, <5>1 DEF MarkSound
      <4> QED BY <4>2, <4>3
    <3> QED BY <1>2, <3>1, <3>2 DEF Sound
  <2>8. TransformItem(w, i, t) = [w |-> u, i |-> n]
    BY <1>1, <1>6, <2>1, <2>2, <2>5 DEF TransformItem, SetItem
  <2> QED BY <2>3, <2>7, <2>8
<1>7. ASSUME x.st = "held", x.type # t, TypeData[x.type].group = TypeData[t].group
      PROVE  TransformItem(w, i, t).i \in Objects /\ Sound(TransformItem(w, i, t).w, due, mind)
  <2>1. PICK y : y = SetID(x, t)
    OBVIOUS
  <2>2. TransformItem(w, i, t) = [w |-> SetItem(w, i, y), i |-> i]
    BY <1>1, <1>7, <2>1 DEF TransformItem, SetItem
  <2>3. /\ y \in ItemState /\ y.st = w.item[i].st /\ y.uses = w.item[i].uses
        /\ y.type = t /\ (y.decaying => x.decaying)
    BY <1>1, <1>2, <2>1, SetIDState
  <2>4. CleanTypes => /\ TypeData[x.type].combat = TypeData[t].combat
                      /\ TypeData[x.type].decayTo = t /\ ~TypeData[x.type].combat => ~y.decaying
    BY <1>2, <1>7, <2>1, SetIDClean
  <2>5. Minded(w) /\ Marked(y) => CountIn(w.list, i) + CountIn(w.waiting, i) + mind[i] > 0
    <3>1. CASE mind = heed
      <4>1. Minded(w) /\ Marked(y) => Marked(w.item[i])
        BY <1>1, <2>3, <2>4 DEF Marked, Minded
      <4> QED BY <1>3, <3>1, <4>1 DEF MarkSound
    <3>2. CASE mind # heed
      <4>1. ~TypeData[x.type].combat /\ TypeData[x.type].decayTo = t
        BY <1>1, <3>2 DEF Passes
      <4>2. CleanTypes => ~y.decaying
        BY <2>4, <4>1
      <4> QED BY <4>2 DEF Minded, Marked
    <3> QED BY <3>1, <3>2
  <2>6. \A j \in Objects : j # i => mind[j] = heed[j]
    BY DEF Passes
  <2>7. Sound(SetItem(w, i, y), due, mind)
    BY <1>2, <2>3, <2>5, <2>6, ItemChanged
  <2> QED BY <2>2, <2>7
<1>8. CASE x.st = "held" /\ x.type = t
  <2>1. TransformItem(w, i, t) = [w |-> w, i |-> i]
    BY <1>1, <1>8 DEF TransformItem
  <2>2. CASE mind = heed
    BY <2>1, <2>2
  <2>3. CASE mind # heed
    <3>1. ~TypeData[x.type].combat /\ TypeData[x.type].decayTo = t
      BY <1>1, <2>3 DEF Passes
    <3>2. ~CleanTypes
      BY <1>2, <1>8, <3>1, SetIDClean
    <3>3. \A j \in Objects : UsesSound(w, due, j) /\ MarkSound(w, mind, j)
      BY <3>2 DEF Sound, MarkSound, Minded
    <3> QED BY <1>2, <2>1, <3>3 DEF Sound
  <2> QED BY <2>2, <2>3
<1> QED BY <1>4, <1>5, <1>6, <1>7, <1>8

LEMMA BegunSound ==
    ASSUME NEW r, NEW due, NEW heed, Sound(r.w, due, heed), r.i \in Objects
    PROVE  /\ Begun(r).i \in Objects /\ Begun(r).i = r.i /\ Sound(Begun(r).w, due, heed)
           /\ Begun(r).more \in BOOLEAN /\ (Begun(r).more => Begun(r).w = r.w)
<1>1. CASE ~CanDecay(r.w.item[r.i]) \/ r.w.item[r.i].decaying
  BY <1>1 DEF Begun
<1>2. ASSUME CanDecay(r.w.item[r.i]), ~r.w.item[r.i].decaying, r.w.item[r.i].duration > 0
      PROVE  Begun(r) = [w |-> Listed(r.w, r.i), i |-> r.i, more |-> FALSE]
  BY <1>2 DEF Begun
<1>3. CanDecay(r.w.item[r.i]) => Sound(Listed(r.w, r.i), due, heed)
  BY ListedSound DEF CanDecay
<1>4. CASE CanDecay(r.w.item[r.i]) /\ ~r.w.item[r.i].decaying /\ r.w.item[r.i].duration > 0
  <2>1. PICK v : v = Listed(r.w, r.i)
    OBVIOUS
  <2>2. Begun(r) = [w |-> v, i |-> r.i, more |-> FALSE]
    BY <1>2, <1>4, <2>1
  <2>3. Begun(r).w = v /\ Begun(r).i = r.i /\ Begun(r).more = FALSE
    BY <2>2
  <2> QED BY <1>3, <1>4, <2>1, <2>3
<1>5. CASE CanDecay(r.w.item[r.i]) /\ ~r.w.item[r.i].decaying /\ ~(r.w.item[r.i].duration > 0)
  BY <1>5 DEF Begun
<1> QED BY <1>1, <1>4, <1>5

LEMMA DecayOnceSound ==
    ASSUME NEW r, NEW due, NEW heed, Sound(r.w, due, heed), r.i \in Objects,
           NEW mind, Passes(r.w, r.i, heed, mind)
    PROVE  DecayOnce(r).i \in Objects /\ Sound(DecayOnce(r).w, due, mind)
<1>1. PICK w : w = r.w
  OBVIOUS
<1>2. PICK i : i = r.i
  OBVIOUS
<1>3. PICK x : x = w.item[i]
  OBVIOUS
<1>4. i \in Objects /\ Sound(w, due, heed) /\ w \in WorldState /\ x \in ItemState /\ mind \in Tally
      /\ heed \in Tally /\ due \in Tally
  BY <1>1, <1>2, <1>3 DEF Sound, WorldState, Passes
<1>5. PICK to : to = TypeData[x.type].decayTo
  OBVIOUS
<1>6. to \in Types \cup {Never, Vanish} /\ Never \notin Types /\ Vanish \notin Types /\ Never # Vanish
  BY <1>4, <1>5, TypeOf, DecayAssumption DEF ItemState
<1>7. CASE to \in Types
  <2>1. PICK q : q = TransformItem(w, i, to)
    OBVIOUS
  <2>2. q.i \in Objects /\ Sound(q.w, due, mind)
    BY <1>1, <1>2, <1>3, <1>4, <1>5, <1>7, <2>1, ItemTransformed
  <2>3. DecayOnce(r) = Begun(q)
    BY <1>1, <1>2, <1>3, <1>5, <1>7, <2>1 DEF DecayOnce
  <2> QED BY <2>2, <2>3, BegunSound
<1>8. CASE to = Never /\ x.st = "held"
  <2>1. PICK y : y = [x EXCEPT !.decaying = FALSE, !.duration = 0]
    OBVIOUS
  <2>2. y \in ItemState /\ y.st = x.st /\ y.uses = x.uses /\ ~Marked(y)
    <3>1. 0 \in Durations
      BY <1>4, TypeOf DEF ItemState
    <3> QED BY <1>4, <2>1, <3>1 DEF ItemState, Marked
  <2>3. DecayOnce(r) = [w |-> SetItem(w, i, y), i |-> i, more |-> FALSE]
    <3>1. SetItem(w, i, y) = [w EXCEPT !.item[i] = [@ EXCEPT !.decaying = FALSE, !.duration = 0]]
      BY <1>3, <1>4, <2>1 DEF SetItem, WorldState, ItemState
    <3> QED BY <1>1, <1>2, <1>3, <1>5, <1>6, <1>8, <3>1 DEF DecayOnce
  <2>4. \A j \in Objects : j # i => mind[j] = heed[j]
    BY <1>2 DEF Passes
  <2>5. Sound(SetItem(w, i, y), due, mind)
    BY <1>3, <1>4, <2>2, <2>4, ItemChanged
  <2> QED BY <1>4, <2>3, <2>5
<1>9. CASE to = Never /\ x.st # "held"
  <2>1. mind = heed
    BY <1>1, <1>2, <1>3, <1>9 DEF Passes, CanDecay
  <2>2. DecayOnce(r).i = r.i /\ DecayOnce(r).w = r.w
    BY <1>1, <1>2, <1>3, <1>5, <1>6, <1>9 DEF DecayOnce
  <2> QED BY <1>2, <1>4, <2>1, <2>2
<1>10. CASE to = Vanish /\ TypeData[x.type].combat
  <2>1. mind = heed
    BY <1>1, <1>2, <1>3, <1>10 DEF Passes
  <2>2. DecayOnce(r).i = r.i /\ DecayOnce(r).w = r.w
    BY <1>1, <1>2, <1>3, <1>5, <1>6, <1>10 DEF DecayOnce
  <2> QED BY <1>2, <1>4, <2>1, <2>2
<1>11. CASE to = Vanish /\ ~TypeData[x.type].combat
  <2>1. PICK u : u = RemoveItem(w, i)
    OBVIOUS
  <2>2. Sound(u, due, heed) /\ u.item[i].st # "held"
    BY <1>4, <2>1, ItemRemoved
  <2>3. DecayOnce(r) = [w |-> u, i |-> i, more |-> FALSE]
    BY <1>1, <1>2, <1>3, <1>5, <1>6, <1>11, <2>1 DEF DecayOnce
  <2>4. ASSUME NEW j \in Objects PROVE UsesSound(u, due, j) /\ MarkSound(u, mind, j)
    <3>1. UsesSound(u, due, j) /\ MarkSound(u, heed, j)
      BY <2>2 DEF Sound
    <3>2. CASE j = i
      BY <2>2, <3>1, <3>2 DEF MarkSound, Marked
    <3>3. CASE j # i
      <4>1. mind[j] = heed[j]
        BY <1>2, <3>3 DEF Passes
      <4> QED BY <3>1, <4>1 DEF MarkSound
    <3> QED BY <3>2, <3>3
  <2>5. Sound(u, due, mind)
    BY <1>4, <2>2, <2>4 DEF Sound
  <2> QED BY <1>4, <2>3, <2>5
<1> QED BY <1>6, <1>7, <1>8, <1>9, <1>10, <1>11

-----------------------------------------------------------------------------
(* The two recursions: what holds of every n is shown by the least n that  *)
(* it does not hold of.                                                    *)

NextDecay(r) == IF r.more THEN DecayOnce(r) ELSE r

LEMMA ChainOfDecays ==
    ASSUME NEW a, NEW N \in Nat
    PROVE  \E f : f = [n \in 0 .. N |-> IF n = 0 THEN a ELSE NextDecay(f[n - 1])]
<1> DEFINE Has(k, f) == f = [n \in 0 .. k |-> IF n = 0 THEN a ELSE NextDecay(f[n - 1])]
           S == {k \in Nat : ~\E f : Has(k, f)}
<1>1. 0 \notin S
  <2>1. PICK f : f = [n \in 0 .. 0 |-> a]
    OBVIOUS
  <2>2. Has(0, f)
    BY <2>1
  <2> QED BY <2>2
<1>2. ASSUME NEW k \in Nat, k \notin S PROVE k + 1 \notin S
  <2>1. PICK f : Has(k, f)
    BY <1>2
  <2>2. PICK g : g = [n \in 0 .. k + 1 |-> IF n <= k THEN f[n] ELSE NextDecay(f[k])]
    OBVIOUS
  <2>3. ASSUME NEW n \in 0 .. k + 1 PROVE g[n] = IF n = 0 THEN a ELSE NextDecay(g[n - 1])
    <3>1. CASE n = 0
      BY <2>1, <2>2, <3>1
    <3>2. CASE n \in 1 .. k
      <4>1. n - 1 \in 0 .. k /\ n - 1 \in 0 .. k + 1 /\ n \in 0 .. k
        BY <3>2
      <4>2. g[n] = f[n] /\ g[n - 1] = f[n - 1]
        BY <2>2, <4>1
      <4>3. f[n] = NextDecay(f[n - 1])
        BY <2>1, <3>2, <4>1
      <4> QED BY <3>2, <4>2, <4>3
    <3>3. CASE n = k + 1
      <4>1. n - 1 = k /\ k \in 0 .. k + 1 /\ n \in 0 .. k + 1 /\ ~(n <= k) /\ n # 0
        BY <3>3
      <4>2. g[n] = NextDecay(f[k]) /\ g[n - 1] = f[k]
        BY <2>2, <4>1
      <4> QED BY <4>1, <4>2
    <3> QED BY <3>1, <3>2, <3>3
  <2>4. g = [n \in 0 .. k + 1 |-> IF n = 0 THEN a ELSE NextDecay(g[n - 1])]
    BY <2>2, <2>3
  <2> QED BY <2>4
<1>3. S \in SUBSET Nat
  OBVIOUS
<1>4. \A k \in Nat : k + 1 \in S => k \in S
  BY <1>2
<1> HIDE DEF S
<1>5. S = {}
  BY <1>1, <1>3, <1>4, NoLeast
<1> QED BY <1>5 DEF S

\* The chain is sound; when mind passes over an entry, the first decay sees to it.
LEMMA InternalDecaySound ==
    ASSUME NEW w, NEW due, NEW heed, Sound(w, due, heed), NEW i \in Objects,
           NEW mind, Passes(w, i, heed, mind)
    PROVE  Sound(InternalDecayItem(w, i), due, mind)
<1> DEFINE a == [w |-> w, i |-> i, more |-> TRUE]
           N == Cardinality(Types)
           Chain(f) == f = [n \in 0 .. N |-> IF n = 0 THEN a ELSE NextDecay(f[n - 1])]
           f == CHOOSE g : Chain(g)
<1>1. N \in Nat /\ N # 0
  BY DecayAssumption, FS_CardinalityType, FS_EmptySet
<1>2. Chain(f)
  <2>1. \E g : Chain(g)
    BY <1>1, ChainOfDecays
  <2> QED BY <2>1
<1>3. InternalDecayItem(w, i) = f[N].w
  BY DEF InternalDecayItem, NextDecay
<1>4. f[0] = a /\ \A n \in 1 .. N : f[n] = NextDecay(f[n - 1])
  <2>1. 0 \in 0 .. N /\ \A n \in 1 .. N : n \in 0 .. N /\ n # 0
    BY <1>1
  <2> HIDE DEF f, a
  <2> QED BY <1>2, <2>1
<1> HIDE DEF f, N
<1> DEFINE Good(n) == f[n].i \in Objects /\ Sound(f[n].w, due, mind)
           S == {n \in Nat : n + 1 \in 1 .. N /\ ~Good(n + 1)}
<1>5. mind \in Tally /\ Passes(w, i, heed, mind)
  BY DEF Passes
<1>6. 0 \notin S
  <2>1. 1 \in 1 .. N /\ 1 - 1 = 0
    BY <1>1
  <2>2. f[1] = DecayOnce(a)
    BY <1>4, <2>1 DEF NextDecay
  <2>3. Good(1)
    BY <2>2, DecayOnceSound
  <2> QED BY <2>3
<1>7. ASSUME NEW n \in Nat, n + 1 \in S PROVE n \in S
  <2>1. n + 2 \in 1 .. N /\ ~Good(n + 2) /\ n + 1 \in 1 .. N /\ (n + 2) - 1 = n + 1
    <3>1. n + 1 + 1 = n + 2
      OBVIOUS
    <3> QED BY <1>1, <1>7, <3>1
  <2>2. PICK r : r = f[n + 1]
    OBVIOUS
  <2>3. f[n + 2] = NextDecay(r)
    BY <1>4, <2>1, <2>2
  <2>4. ASSUME Good(n + 1) PROVE FALSE
    <3>1. r.i \in Objects /\ Sound(r.w, due, mind)
      BY <2>2, <2>4
    <3>2. Passes(r.w, r.i, mind, mind)
      BY <1>5 DEF Passes
    <3>3. DecayOnce(r).i \in Objects /\ Sound(DecayOnce(r).w, due, mind)
      BY <3>1, <3>2, DecayOnceSound
    <3>4. Good(n + 2)
      BY <2>3, <3>1, <3>3 DEF NextDecay
    <3> QED BY <2>1, <3>4
  <2> QED BY <2>1, <2>4
<1>8. S = {}
  <2>1. S \in SUBSET Nat
    OBVIOUS
  <2> HIDE DEF S
  <2> QED BY <1>6, <1>7, <2>1, NoLeast
<1>9. N - 1 \in Nat /\ N - 1 + 1 = N /\ N \in 1 .. N
  BY <1>1
<1>10. Good(N)
  BY <1>8, <1>9
<1> QED BY <1>3, <1>10

LEMMA StartDecaySound ==
    ASSUME NEW w, NEW due, NEW heed, Sound(w, due, heed), NEW i \in Objects
    PROVE  Sound(StartDecay(w, i), due, heed)
<1>1. PICK r : r = [w |-> w, i |-> i]
  OBVIOUS
<1>2. r.w = w /\ r.i = i
  BY <1>1
<1>3. Sound(Begun(r).w, due, heed)
  BY <1>2, BegunSound
<1>4. Passes(w, i, heed, heed)
  BY DEF Passes, Sound
<1>5. Sound(InternalDecayItem(w, i), due, heed)
  BY <1>4, InternalDecaySound
<1> QED BY <1>1, <1>3, <1>5 DEF StartDecay

\* An entry that checkDecay keeps.
LEMMA EntryKept ==
    ASSUME NEW w, NEW due, NEW heed, Sound(w, due, heed), NEW i \in Objects, due[i] > 0, heed[i] > 0
    PROVE  Sound([w EXCEPT !.list = Append(@, i)], LessOne(due, i), LessOne(heed, i))
<1>1. PICK v : v = [w EXCEPT !.list = Append(@, i)]
  OBVIOUS
<1>2. PICK d : d = LessOne(due, i)
  OBVIOUS
<1>3. PICK h : h = LessOne(heed, i)
  OBVIOUS
<1>4. w \in WorldState /\ due \in Tally /\ heed \in Tally
  BY DEF Sound
<1>5. /\ d \in Tally /\ d[i] = due[i] - 1 /\ \A j \in Objects : j # i => d[j] = due[j]
      /\ h \in Tally /\ h[i] = heed[i] - 1 /\ \A j \in Objects : j # i => h[j] = heed[j]
  BY <1>2, <1>3, <1>4 DEF LessOne, Tally
<1>6. /\ v \in WorldState /\ v.item = w.item /\ v.freed = w.freed /\ v.waiting = w.waiting
      /\ v.room = w.room /\ v.list = Append(w.list, i) /\ w.list \in Seq(Objects)
  <2>1. Append(w.list, i) \in Seq(Objects) /\ w.list \in Seq(Objects)
    BY <1>4, WorldFields
  <2>2. v = [w EXCEPT !.list = Append(w.list, i)]
    BY <1>1
  <2> QED BY <1>4, <2>1, <2>2 DEF WorldState
<1>7. ASSUME NEW j \in Objects PROVE UsesSound(v, d, j) /\ MarkSound(v, h, j)
  <2>1. UsesSound(w, due, j) /\ MarkSound(w, heed, j)
    BY DEF Sound
  <2>2. CountIn(v.list, j) = CountIn(w.list, j) + (IF j = i THEN 1 ELSE 0)
    BY <1>6, CountAppended
  <2>3. /\ due[j] \in Nat /\ d[j] = due[j] - (IF j = i THEN 1 ELSE 0) /\ d[j] \in Nat
        /\ heed[j] \in Nat /\ h[j] = heed[j] - (IF j = i THEN 1 ELSE 0) /\ h[j] \in Nat
    BY <1>4, <1>5 DEF Tally
  <2>4. Counted(v, j) = Counted(w, j) + (IF j = i THEN 1 ELSE 0) /\ Counted(w, j) \in Nat
    <3>1. CountIn(w.list, j) \in Nat /\ CountIn(w.waiting, j) \in Nat /\ CountIn(w.freed, j) \in Nat
      BY <1>4, ListCounts
    <3>2. /\ Counted(w, j) = CountIn(w.list, j) + CountIn(w.waiting, j) + CountIn(w.freed, j)
          /\ Counted(v, j) = CountIn(v.list, j) + CountIn(w.waiting, j) + CountIn(w.freed, j)
      BY <1>6 DEF Counted
    <3> QED BY <2>2, <3>1, <3>2
  <2>5. Counted(v, j) + d[j] = Counted(w, j) + due[j]
    BY <2>3, <2>4
  <2>6. CountIn(v.list, j) + CountIn(v.waiting, j) + h[j]
          = CountIn(w.list, j) + CountIn(w.waiting, j) + heed[j]
    <3>1. CountIn(w.list, j) \in Nat /\ CountIn(w.waiting, j) \in Nat
      BY <1>4, ListCounts
    <3>2. v.waiting = w.waiting
      BY <1>6
    <3> QED BY <2>2, <2>3, <3>1, <3>2
  <2>7. HeldUse(v.item[j]) \in Nat /\ HeldUse(v.item[j]) = HeldUse(w.item[j])
    BY <1>6 DEF HeldUse
  <2>8. HeldUse(v.item[j]) + Counted(v, j) + d[j] = HeldUse(w.item[j]) + Counted(w, j) + due[j]
    BY <2>3, <2>4, <2>7
  <2>9. UsesSound(v, d, j)
    BY <1>6, <2>1, <2>5, <2>8 DEF UsesSound
  <2>10. MarkSound(v, h, j)
    BY <1>6, <2>1, <2>6 DEF MarkSound, Minded
  <2> QED BY <2>9, <2>10
<1> QED BY <1>1, <1>2, <1>3, <1>5, <1>6, <1>7 DEF Sound

\* One entry is gone over: it was due, and is now listed, or released.
LEMMA CheckOneSound ==
    ASSUME NEW w, NEW due, NEW heed, Sound(w, due, heed), NEW i \in Objects, due[i] > 0, heed[i] > 0
    PROVE  Sound(CheckOne(w, i), LessOne(due, i), LessOne(heed, i))
<1>1. PICK x : x = w.item[i]
  OBVIOUS
<1>2. PICK mind : mind = LessOne(heed, i)
  OBVIOUS
<1>3. w \in WorldState /\ x \in ItemState /\ heed \in Tally
  BY <1>1 DEF Sound, WorldState
<1>4. mind \in Tally /\ \A j \in Objects : j # i => mind[j] = heed[j]
  BY <1>2, <1>3 DEF LessOne, Tally
<1>5. PICK left : left = IF TypeData[x.type].combat THEN x.duration ELSE Decreased(x.duration, Interval)
  OBVIOUS
<1>6. left \in Durations
  BY <1>3, <1>5, ShorterDuration, DecayAssumption DEF ItemState
<1>7. PICK y : y = [x EXCEPT !.duration = left]
  OBVIOUS
<1>8. PICK v : v = SetItem(w, i, y)
  OBVIOUS
<1>9. /\ y \in ItemState /\ y.st = x.st /\ y.uses = x.uses /\ y.type = x.type
      /\ y.decaying = x.decaying
  BY <1>3, <1>6, <1>7 DEF ItemState
<1>10. v = [w EXCEPT !.item[i].duration = left]
  BY <1>1, <1>3, <1>7, <1>8 DEF SetItem, WorldState, ItemState
<1>11. UsesSound(w, due, i) /\ MarkSound(w, heed, i)
  BY DEF Sound
<1>12. Sound(v, due, heed) /\ v.item[i] = y
  <2>1. Minded(w) /\ Marked(y) => CountIn(w.list, i) + CountIn(w.waiting, i) + heed[i] > 0
    BY <1>1, <1>9, <1>11 DEF MarkSound, Marked
  <2> QED BY <1>1, <1>3, <1>8, <1>9, <2>1, ItemChanged
<1>13. CASE ~CanDecay(x)
  <2>1. PICK z : z = [y EXCEPT !.decaying = FALSE]
    OBVIOUS
  <2>2. z \in ItemState /\ z.st = y.st /\ z.uses = y.uses /\ ~Marked(z)
    BY <1>9, <2>1 DEF ItemState, Marked
  <2>3. Sound(SetItem(v, i, z), due, mind)
    BY <1>4, <1>12, <2>2, ItemChanged
  <2>4. v \in WorldState
    BY <1>12 DEF Sound
  <2>5. SetItem(v, i, z) = [v EXCEPT !.item[i].decaying = FALSE]
    BY <1>12, <2>1, <2>4 DEF SetItem, WorldState, ItemState
  <2>6. CheckOne(w, i) = FreeItem(SetItem(v, i, z), i)
    BY <1>1, <1>5, <1>10, <1>13, <2>5 DEF CheckOne
  <2> QED BY <1>2, <2>3, <2>6, ItemFreed
<1>14. CASE CanDecay(x) /\ left < Interval /\ TypeData[x.type].combat
  <2>1. ~Marked(y)
    BY <1>9, <1>14 DEF Marked
  <2>2. Sound(v, due, mind)
    BY <1>1, <1>4, <1>8, <1>9, <2>1, ItemChanged
  <2>3. CheckOne(w, i) = FreeItem(v, i)
    BY <1>1, <1>5, <1>10, <1>14 DEF CheckOne
  <2> QED BY <1>2, <2>2, <2>3, ItemFreed
<1>15. CASE CanDecay(x) /\ left < Interval /\ ~TypeData[x.type].combat
  <2>1. Passes(v, i, heed, mind)
    BY <1>4, <1>9, <1>12, <1>15 DEF Passes, CanDecay
  <2>2. Sound(InternalDecayItem(v, i), due, mind)
    BY <1>12, <2>1, InternalDecaySound
  <2>3. CheckOne(w, i) = FreeItem(InternalDecayItem(v, i), i)
    BY <1>1, <1>5, <1>10, <1>15 DEF CheckOne
  <2> QED BY <1>2, <2>2, <2>3, ItemFreed
<1>16. CASE CanDecay(x) /\ ~(left < Interval)
  <2>1. CheckOne(w, i) = [v EXCEPT !.list = Append(@, i)]
    BY <1>1, <1>5, <1>10, <1>16 DEF CheckOne
  <2> QED BY <1>12, <2>1, EntryKept
<1> QED BY <1>13, <1>14, <1>15, <1>16

IsLoop(f, N, a, l) == f = [n \in 0 .. N |-> IF n = 0 THEN a ELSE CheckOne(f[n - 1], l[n])]

LEMMA ChecksOfAList ==
    ASSUME NEW a, NEW l, NEW N \in Nat
    PROVE  \E f : IsLoop(f, N, a, l)
<1> DEFINE Has(k, f) == f = [n \in 0 .. k |-> IF n = 0 THEN a ELSE CheckOne(f[n - 1], l[n])]
           S == {k \in Nat : ~\E f : Has(k, f)}
<1>1. 0 \notin S
  <2>1. PICK f : f = [n \in 0 .. 0 |-> a]
    OBVIOUS
  <2>2. Has(0, f)
    BY <2>1
  <2> QED BY <2>2
<1>2. ASSUME NEW k \in Nat, k \notin S PROVE k + 1 \notin S
  <2>1. PICK f : Has(k, f)
    BY <1>2
  <2>2. PICK g : g = [n \in 0 .. k + 1 |-> IF n <= k THEN f[n] ELSE CheckOne(f[k], l[k + 1])]
    OBVIOUS
  <2>3. ASSUME NEW n \in 0 .. k + 1 PROVE g[n] = IF n = 0 THEN a ELSE CheckOne(g[n - 1], l[n])
    <3>1. CASE n = 0
      BY <2>1, <2>2, <3>1
    <3>2. CASE n \in 1 .. k
      <4>1. n - 1 \in 0 .. k /\ n - 1 \in 0 .. k + 1 /\ n \in 0 .. k
        BY <3>2
      <4>2. g[n] = f[n] /\ g[n - 1] = f[n - 1]
        BY <2>2, <4>1
      <4>3. f[n] = CheckOne(f[n - 1], l[n])
        BY <2>1, <3>2, <4>1
      <4> QED BY <3>2, <4>2, <4>3
    <3>3. CASE n = k + 1
      <4>1. n - 1 = k /\ k \in 0 .. k + 1 /\ n \in 0 .. k + 1 /\ ~(n <= k) /\ n # 0
        BY <3>3
      <4>2. g[n] = CheckOne(f[k], l[k + 1]) /\ g[n - 1] = f[k]
        BY <2>2, <4>1
      <4> QED BY <3>3, <4>1, <4>2
    <3> QED BY <3>1, <3>2, <3>3
  <2>4. g = [n \in 0 .. k + 1 |-> IF n = 0 THEN a ELSE CheckOne(g[n - 1], l[n])]
    BY <2>2, <2>3
  <2> QED BY <2>4
<1>3. S \in SUBSET Nat
  OBVIOUS
<1>4. \A k \in Nat : k + 1 \in S => k \in S
  BY <1>2
<1> HIDE DEF S
<1>5. S = {}
  BY <1>1, <1>3, <1>4, NoLeast
<1> QED BY <1>5 DEF S, IsLoop

Zero == [i \in Objects |-> 0]

DueAfter(l, n) == [i \in Objects |-> Cardinality(EntriesAfter(l, n, i))]

LEMMA DueTallies ==
    ASSUME NEW l \in Seq(Objects)
    PROVE  /\ \A n \in Nat : DueAfter(l, n) \in Tally
           /\ \A i \in Objects : DueAfter(l, 0)[i] = CountIn(l, i)
           /\ DueAfter(l, Len(l)) = Zero
           /\ \A n \in 1 .. Len(l) :
                 /\ DueAfter(l, n - 1)[l[n]] > 0
                 /\ DueAfter(l, n) = LessOne(DueAfter(l, n - 1), l[n])
<1>1. \A n \in Nat, i \in Objects : Cardinality(EntriesAfter(l, n, i)) \in Nat
  BY FiniteEntries
<1>2. \A n \in Nat : DueAfter(l, n) \in Tally
  BY <1>1 DEF DueAfter, Tally
<1>3. ASSUME NEW n \in 1 .. Len(l)
      PROVE  /\ DueAfter(l, n - 1)[l[n]] > 0
             /\ DueAfter(l, n) = LessOne(DueAfter(l, n - 1), l[n])
  <2>1. Len(l) \in Nat /\ n \in Nat /\ n - 1 \in Nat /\ l[n] \in Objects
    OBVIOUS
  <2>2. PICK d : d = DueAfter(l, n - 1)
    OBVIOUS
  <2>3. PICK e : e = DueAfter(l, n)
    OBVIOUS
  <2>4. \A i \in Objects : d[i] \in Nat /\ e[i] \in Nat /\ d[i] = e[i] + (IF l[n] = i THEN 1 ELSE 0)
    BY <1>1, <2>1, <2>2, <2>3, EntriesLeft DEF DueAfter
  <2>5. d \in [Objects -> Nat] /\ e \in [Objects -> Nat]
    BY <1>2, <2>1, <2>2, <2>3 DEF Tally
  <2>6. d[l[n]] > 0
    BY <2>1, <2>4
  <2>7. e = LessOne(d, l[n])
    <3>1. PICK m : m = LessOne(d, l[n])
      OBVIOUS
    <3>2. /\ m \in [Objects -> Int] /\ m[l[n]] = d[l[n]] - 1
          /\ \A i \in Objects : i # l[n] => m[i] = d[i]
      BY <2>1, <2>5, <3>1 DEF LessOne
    <3>3. \A i \in Objects : m[i] = e[i]
      <4>1. ASSUME NEW i \in Objects, i # l[n] PROVE m[i] = e[i]
        BY ONLY <2>4, <3>2, <4>1
      <4>2. m[l[n]] = e[l[n]]
        BY ONLY <2>1, <2>4, <3>2
      <4> QED BY ONLY <4>1, <4>2
    <3>4. m = e
      BY <2>5, <3>2, <3>3
    <3> QED BY <3>1, <3>4
  <2> QED BY <2>2, <2>3, <2>6, <2>7
<1>4. DueAfter(l, Len(l)) = Zero
  BY EntriesLeft DEF DueAfter, Zero
<1>5. \A i \in Objects : DueAfter(l, 0)[i] = CountIn(l, i)
  BY EntriesLeft DEF DueAfter
<1> QED BY <1>2, <1>3, <1>4, <1>5

LEMMA CheckedSound ==
    ASSUME NEW w, Sound(w, Zero, Zero) PROVE Sound(Checked(w), Zero, Zero)
<1> DEFINE l == w.list
           a == [w EXCEPT !.list = <<>>]
           N == Len(l)
           Loop(f) == f = [n \in 0 .. N |-> IF n = 0 THEN a ELSE CheckOne(f[n - 1], l[n])]
           f == CHOOSE g : Loop(g)
<1>1. w \in WorldState /\ l \in Seq(Objects) /\ N \in Nat
  BY DEF Sound, WorldState
<1>2. Loop(f)
  <2>1. \E g : IsLoop(g, N, a, l)
    <3> HIDE DEF a, l, N
    <3> QED BY <1>1, ChecksOfAList
  <2>2. \A g : IsLoop(g, N, a, l) => Loop(g)
    BY DEF IsLoop
  <2>3. \E g : Loop(g)
    <3> HIDE DEF Loop
    <3> QED BY <2>1, <2>2
  <2> QED BY <2>3
<1>3. Checked(w) = f[N]
  BY DEF Checked
<1>4. f[0] = a /\ \A n \in 1 .. N : f[n] = CheckOne(f[n - 1], l[n])
  <2>1. 0 \in 0 .. N /\ \A n \in 1 .. N : n \in 0 .. N /\ n # 0
    BY <1>1
  <2> HIDE DEF f, a, l
  <2> QED BY <1>2, <2>1
<1> HIDE DEF f, l, N
<1>5. Sound(a, DueAfter(l, 0), DueAfter(l, 0))
  <2>1. PICK d : d = DueAfter(l, 0)
    OBVIOUS
  <2>2. d \in Tally /\ \A i \in Objects : d[i] = CountIn(w.list, i)
    BY <1>1, <2>1, DueTallies DEF l
  <2>3. /\ a \in WorldState /\ a.list = <<>> /\ a.item = w.item /\ a.waiting = w.waiting
        /\ a.freed = w.freed /\ a.room = w.room
    <3>1. <<>> \in Seq(Objects)
      OBVIOUS
    <3> QED BY <1>1, <3>1 DEF WorldState
  <2> HIDE DEF a
  <2>4. ASSUME NEW i \in Objects PROVE UsesSound(a, d, i) /\ MarkSound(a, d, i)
    <3>1. UsesSound(w, Zero, i) /\ MarkSound(w, Zero, i) /\ Zero[i] = 0
      BY DEF Sound, Zero
    <3>2. CountIn(a.list, i) = 0
      BY <2>3, EmptyCount
    <3>3. Counted(a, i) + d[i] = Counted(w, i) + Zero[i] /\ Counted(a, i) \in Nat /\ d[i] \in Nat
          /\ Counted(w, i) \in Nat
      BY <1>1, <2>2, <2>3, <3>1, <3>2, ListCounts DEF Counted
    <3>4. HeldUse(a.item[i]) \in Nat /\ HeldUse(a.item[i]) = HeldUse(w.item[i])
      BY <2>3 DEF HeldUse
    <3>5. UsesSound(a, d, i)
      BY <2>3, <3>1, <3>3, <3>4 DEF UsesSound
    <3>6. MarkSound(a, d, i)
      BY <1>1, <2>2, <2>3, <3>1, <3>2, ListCounts DEF MarkSound, Minded
    <3> QED BY <3>5, <3>6
  <2> QED BY <2>1, <2>2, <2>3, <2>4 DEF Sound
<1> HIDE DEF a
<1> DEFINE S == {n \in Nat : n <= N /\ ~Sound(f[n], DueAfter(l, n), DueAfter(l, n))}
<1>6. 0 \notin S
  BY <1>4, <1>5
<1>7. ASSUME NEW n \in Nat, n + 1 \in S PROVE n \in S
  <2>1. n + 1 \in 1 .. N /\ n + 1 - 1 = n /\ n <= N
    BY <1>1, <1>7
  <2>2. f[n + 1] = CheckOne(f[n], l[n + 1])
    BY <1>4, <2>1
  <2>3. PICK d : d = DueAfter(l, n)
    OBVIOUS
  <2>4. d[l[n + 1]] > 0 /\ DueAfter(l, n + 1) = LessOne(d, l[n + 1])
    <3>1. \A m \in 1 .. Len(l) : /\ DueAfter(l, m - 1)[l[m]] > 0
                                 /\ DueAfter(l, m) = LessOne(DueAfter(l, m - 1), l[m])
      BY <1>1, DueTallies
    <3>2. n + 1 \in 1 .. Len(l)
      BY <2>1 DEF N
    <3> QED BY <2>1, <2>3, <3>1, <3>2
  <2>5. l[n + 1] \in Objects
    BY <1>1, <2>1 DEF N
  <2>6. ~Sound(f[n + 1], DueAfter(l, n + 1), DueAfter(l, n + 1))
    BY <1>7
  <2>7. ~Sound(f[n], d, d)
    BY <2>2, <2>4, <2>5, <2>6, CheckOneSound
  <2> QED BY <2>1, <2>3, <2>7
<1>8. S = {}
  <2>1. S \in SUBSET Nat
    OBVIOUS
  <2> HIDE DEF S
  <2> QED BY <1>6, <1>7, <2>1, NoLeast
<1>9. Sound(f[N], DueAfter(l, N), DueAfter(l, N))
  BY <1>1, <1>8
<1>10. DueAfter(l, N) = Zero
  BY <1>1, DueTallies DEF N
<1> QED BY <1>3, <1>9, <1>10

\* cleanup gives back what the releases were due for, and lists what waited.
LEMMA CleanedUpSound ==
    ASSUME NEW w, Sound(w, Zero, Zero) PROVE Sound(CleanedUpItems(w), Zero, Zero)
<1>1. PICK v : v = CleanedUpItems(w)
  OBVIOUS
<1>2. w \in WorldState /\ Zero \in Tally
  BY DEF Sound
<1>3. /\ v.list = w.list \o w.waiting /\ v.waiting = <<>> /\ v.freed = <<>> /\ v.room = w.room
      /\ v.texts = w.texts
      /\ v.item = [i \in Objects |-> ReleaseItem(w.item[i], CountIn(w.freed, i))]
      /\ v = [item |-> v.item, list |-> v.list, waiting |-> v.waiting, freed |-> v.freed,
              texts |-> v.texts, room |-> v.room]
      /\ w.list \in Seq(Objects) /\ w.waiting \in Seq(Objects) /\ w.item \in [Objects -> ItemState]
      /\ w.texts \in [Objects -> Nat] /\ w.room \in BOOLEAN
  BY <1>1, <1>2 DEF CleanedUpItems, WorldState
<1>4. ASSUME NEW i \in Objects
      PROVE  v.item[i] \in ItemState /\ UsesSound(v, Zero, i) /\ MarkSound(v, Zero, i)
  <2>1. UsesSound(w, Zero, i) /\ MarkSound(w, Zero, i) /\ Zero[i] = 0
    BY DEF Sound, Zero
  <2>2. PICK x : x = w.item[i]
    OBVIOUS
  <2>3. PICK n : n = CountIn(w.freed, i)
    OBVIOUS
  <2>4. PICK k : k = CountIn(w.list, i) + CountIn(w.waiting, i)
    OBVIOUS
  <2>5. n \in Nat /\ k \in Nat /\ Counted(w, i) = k + n
    BY <1>2, <2>3, <2>4, ListCounts DEF Counted
  <2>6. CountIn(v.list, i) = k /\ CountIn(v.waiting, i) = 0 /\ CountIn(v.freed, i) = 0
    BY <1>3, <2>4, CountJoined, EmptyCount
  <2>7. Counted(v, i) = k
    BY <2>5, <2>6 DEF Counted
  <2>8. v.item[i] = ReleaseItem(x, n) /\ x \in ItemState /\ x.uses \in Nat /\ HeldUse(x) \in Nat
    BY <1>3, <2>2, <2>3 DEF ItemState, HeldUse
  <2>9. Nothing \in ItemState /\ Nothing.st = "free"
    <3>1. AnyType \in Types
      BY DecayAssumption DEF AnyType
    <3> QED BY <3>1, TypeOf DEF Nothing, ItemState
  <2>10. CASE x.st = "free"
    <3>1. n = 0 /\ k = 0
      BY <2>1, <2>2, <2>5, <2>10 DEF UsesSound
    <3>2. v.item[i] = x
      BY <2>8, <3>1 DEF ReleaseItem
    <3> QED BY <2>1, <2>7, <2>8, <2>10, <3>1, <3>2 DEF UsesSound, MarkSound, Marked
  <2>11. ASSUME x.st # "free", n # 0, x.uses <= n
         PROVE  v.item[i] \in ItemState /\ UsesSound(v, Zero, i) /\ MarkSound(v, Zero, i)
    <3>1. x.uses = HeldUse(x) + (k + n)
      BY <2>1, <2>2, <2>5, <2>8, <2>11 DEF UsesSound
    <3>2. k = 0
      BY <2>5, <2>8, <2>11, <3>1
    <3>3. v.item[i] = Nothing
      BY <2>8, <2>11 DEF ReleaseItem
    <3> QED BY <2>1, <2>7, <2>9, <3>2, <3>3 DEF UsesSound, MarkSound, Marked
  <2>12. ASSUME x.st # "free", n = 0 \/ ~(x.uses <= n)
         PROVE  v.item[i] \in ItemState /\ UsesSound(v, Zero, i) /\ MarkSound(v, Zero, i)
    <3>1. x.uses = HeldUse(x) + (k + n)
      BY <2>1, <2>2, <2>5, <2>8, <2>12 DEF UsesSound
    <3>2. PICK y : y = v.item[i]
      OBVIOUS
    <3>3. /\ y \in ItemState /\ y.st = x.st /\ y.uses = x.uses - n /\ y.decaying = x.decaying
          /\ y.type = x.type
      BY <2>5, <2>8, <2>12, <3>1, <3>2 DEF ReleaseItem, ItemState
    <3>4. y.uses = HeldUse(y) + k
      BY <2>5, <2>8, <3>1, <3>3 DEF HeldUse
    <3>5. UsesSound(v, Zero, i)
      <4>1. HeldUse(y) \in Nat
        BY DEF HeldUse
      <4>2. HeldUse(y) + Counted(v, i) + Zero[i] = HeldUse(y) + k
        BY <2>1, <2>5, <2>7, <4>1
      <4> QED BY <2>12, <3>2, <3>3, <3>4, <4>2 DEF UsesSound
    <3>6. Marked(y) => Marked(x)
      BY <3>3 DEF Marked
    <3>7. MarkSound(v, Zero, i)
      BY <1>3, <2>1, <2>2, <2>4, <2>5, <2>6, <3>2, <3>6 DEF MarkSound, Minded
    <3> QED BY <3>2, <3>3, <3>5, <3>7
  <2> QED BY <2>10, <2>11, <2>12
<1>5. v \in WorldState
  <2>1. w.list \o w.waiting \in Seq(Objects) /\ <<>> \in Seq(Objects)
    BY <1>3
  <2>2. v.item \in [Objects -> ItemState]
    BY <1>3, <1>4
  <2> QED BY <1>3, <2>1, <2>2 DEF WorldState
<1> QED BY <1>1, <1>2, <1>4, <1>5 DEF Sound

-----------------------------------------------------------------------------
(* The invariant.                                                          *)

DecaySound == DecayLinks /\ (CleanTypes => DecayingIsListed)

LEMMA SoundNow == ASSUME DecaySound PROVE Sound(Things, Zero, Zero)
<1>1. PICK w : w = Things
  OBVIOUS
<1>2. /\ w.item = item /\ w.list = decayItems /\ w.waiting = toDecayItems /\ w.freed = toFree
      /\ w.room = TRUE
  BY <1>1 DEF Things
<1>3. w \in WorldState /\ Zero \in Tally
  BY <1>1 DEF DecaySound, DecayLinks, DecayTypeOK, Things, WorldState, Zero, Tally
<1>4. ASSUME NEW i \in Objects PROVE UsesSound(w, Zero, i) /\ MarkSound(w, Zero, i)
  <2>1. /\ CountIn(w.list, i) \in Nat /\ CountIn(w.waiting, i) \in Nat /\ CountIn(w.freed, i) \in Nat
    BY <1>3, ListCounts
  <2>2. /\ CountIn(decayItems, i) = 0 <=> i \notin ToSet(decayItems)
        /\ CountIn(toDecayItems, i) = 0 <=> i \notin ToSet(toDecayItems)
        /\ CountIn(toFree, i) = 0 <=> i \notin ToSet(toFree)
    BY NoEntries DEF DecaySound, DecayLinks, DecayTypeOK
  <2>3. Zero[i] = 0
    BY DEF Zero
  <2>4. UsesSound(w, Zero, i)
    <3>1. CASE item[i].st = "free"
      <4>1. CountIn(w.list, i) = 0 /\ CountIn(w.waiting, i) = 0 /\ CountIn(w.freed, i) = 0
        BY <1>2, <2>2, <3>1 DEF DecaySound, DecayLinks, ListsLive
      <4> QED BY <1>2, <2>3, <3>1, <4>1 DEF UsesSound, Counted
    <3>2. CASE item[i].st # "free"
      <4>1. item[i].uses = HeldUse(item[i])
              + CountIn(decayItems, i) + CountIn(toDecayItems, i) + CountIn(toFree, i)
        BY <3>2 DEF DecaySound, DecayLinks, ItemUsesCounted, HeldUse
      <4>2. HeldUse(item[i]) \in Nat
        BY DEF HeldUse
      <4> QED BY <1>2, <2>1, <2>3, <3>2, <4>1, <4>2 DEF UsesSound, Counted
    <3> QED BY <3>1, <3>2
  <2>5. MarkSound(w, Zero, i)
    BY <1>2, <2>1, <2>2, <2>3 DEF MarkSound, Minded, Marked, DecaySound, DecayingIsListed
  <2> QED BY <2>4, <2>5
<1> QED BY <1>1, <1>3, <1>4 DEF Sound

LEMMA SoundThen == ASSUME NEW w, Sound(w, Zero, Zero), SetThings(w) PROVE DecaySound'
<1>1. w \in WorldState
  BY DEF Sound
<1>2. /\ item' = w.item /\ decayItems' = w.list /\ toDecayItems' = w.waiting /\ toFree' = w.freed
      /\ texts' = w.texts /\ w.room
  BY DEF SetThings
<1>3. DecayTypeOK'
  BY <1>1, <1>2 DEF DecayTypeOK, WorldState
<1>4. ASSUME NEW i \in Objects
      PROVE  /\ UsesSound(w, Zero, i) /\ MarkSound(w, Zero, i) /\ Zero[i] = 0
             /\ CountIn(w.list, i) \in Nat /\ CountIn(w.waiting, i) \in Nat
             /\ CountIn(w.freed, i) \in Nat
             /\ CountIn(w.list, i) = 0 <=> i \notin ToSet(w.list)
             /\ CountIn(w.waiting, i) = 0 <=> i \notin ToSet(w.waiting)
             /\ CountIn(w.freed, i) = 0 <=> i \notin ToSet(w.freed)
  <2>1. w.list \in Seq(Objects) /\ w.waiting \in Seq(Objects) /\ w.freed \in Seq(Objects)
    BY <1>1 DEF WorldState
  <2> QED BY <1>1, <2>1, ListCounts, NoEntries DEF Sound, Zero
<1>5. ItemUsesCounted'
  <2>1. ASSUME NEW i \in Objects, w.item[i].st # "free"
        PROVE  w.item[i].uses = (IF w.item[i].st = "held" THEN 1 ELSE 0)
                   + CountIn(w.list, i) + CountIn(w.waiting, i) + CountIn(w.freed, i)
    BY <1>4, <2>1 DEF UsesSound, Counted, HeldUse
  <2> QED BY <1>2, <2>1 DEF ItemUsesCounted
<1>6. ListsLive'
  <2>1. ASSUME NEW i \in ToSet(w.list) \cup ToSet(w.waiting) \cup ToSet(w.freed)
        PROVE  w.item[i].st # "free"
    <3>1. i \in Objects
      <4>1. w.list \in Seq(Objects) /\ w.waiting \in Seq(Objects) /\ w.freed \in Seq(Objects)
        BY <1>1 DEF WorldState
      <4> QED BY <4>1 DEF ToSet
    <3>2. Counted(w, i) + Zero[i] # 0
      BY <1>4, <3>1 DEF Counted
    <3>3. UsesSound(w, Zero, i)
      BY <1>4, <3>1
    <3> QED BY <3>2, <3>3 DEF UsesSound
  <2> QED BY <1>2, <2>1 DEF ListsLive
<1>7. ASSUME CleanTypes PROVE DecayingIsListed'
  <2>1. ASSUME NEW i \in Objects, w.item[i].st = "held", w.item[i].decaying,
               ~TypeData[w.item[i].type].combat
        PROVE  i \in ToSet(w.list) \cup ToSet(w.waiting)
    <3>1. CountIn(w.list, i) + CountIn(w.waiting, i) + Zero[i] > 0
      BY <1>2, <1>4, <1>7, <2>1 DEF MarkSound, Minded, Marked
    <3> QED BY <1>4, <3>1
  <2> QED BY <1>2, <2>1 DEF DecayingIsListed
<1> QED BY <1>3, <1>5, <1>6, <1>7 DEF DecaySound, DecayLinks

LEMMA SoundAtFirst == ASSUME DecayInit PROVE DecaySound
<1>1. Nothing \in ItemState /\ Nothing.st = "free"
  <2>1. AnyType \in Types
    BY DecayAssumption DEF AnyType
  <2> QED BY <2>1, TypeOf DEF Nothing, ItemState
<1>2. ToSet(<<>>) = {}
  BY DEF ToSet
<1> QED BY <1>1, <1>2 DEF DecayInit, DecaySound, DecayLinks, DecayTypeOK, ItemUsesCounted, ListsLive,
                          DecayingIsListed

LEMMA UpdateTextKeeps == ASSUME DecaySound, NEW i \in Objects, UpdateText(i) PROVE DecaySound'
<1>1. Sound(Things, Zero, Zero)
  BY SoundNow
<1>2. PICK w : w = Things
  OBVIOUS
<1>3. PICK x : x = w.item[i]
  OBVIOUS
<1>4. w \in WorldState /\ x \in ItemState /\ Zero \in Tally /\ x = item[i] /\ texts[i] > 0
  BY <1>1, <1>2, <1>3 DEF Sound, WorldState, Things, UpdateText
<1>5. PICK ended : ended = [w EXCEPT !.texts[i] = @ - 1]
  OBVIOUS
<1>6. Sound(ended, Zero, Zero)
  <2>1. w.texts[i] > 0
    BY <1>2, <1>4 DEF Things
  <2>2. /\ ended \in WorldState /\ ended.item = w.item /\ ended.list = w.list
        /\ ended.waiting = w.waiting /\ ended.freed = w.freed /\ ended.room = w.room
    <3>1. w.texts[i] - 1 \in Nat
      BY <1>4, <2>1, WorldFields
    <3>2. ended = [w EXCEPT !.texts = [@ EXCEPT ![i] = w.texts[i] - 1]]
      BY <1>5
    <3> QED BY <1>4, <3>1, <3>2 DEF WorldState
  <2>3. \A j \in Objects : UsesSound(w, Zero, j) /\ MarkSound(w, Zero, j)
    BY <1>1, <1>2 DEF Sound
  <2> QED BY <1>4, <2>2, <2>3 DEF Sound, UsesSound, MarkSound, Counted, Minded
<1>7. PICK y : y = [x EXCEPT !.duration = Decreased(x.duration, TextInterval)]
  OBVIOUS
<1>8. Sound(SetItem(w, i, y), Zero, Zero)
  <2>1. /\ y \in ItemState /\ y.st = x.st /\ y.uses = x.uses /\ y.type = x.type
        /\ y.decaying = x.decaying
    BY <1>4, <1>7, ShorterDuration, DecayAssumption DEF ItemState
  <2>2. MarkSound(w, Zero, i)
    BY <1>1, <1>2 DEF Sound
  <2>3. Minded(w) /\ Marked(y) => CountIn(w.list, i) + CountIn(w.waiting, i) + Zero[i] > 0
    BY <1>3, <2>1, <2>2 DEF MarkSound, Marked
  <2> QED BY <1>1, <1>2, <1>3, <1>4, <2>1, <2>3, ItemChanged
<1>9. SetItem(w, i, y) = [w EXCEPT !.item[i].duration = Decreased(x.duration, TextInterval)]
  BY <1>3, <1>4, <1>7 DEF SetItem, WorldState, ItemState
<1>10. Passes(ended, i, Zero, Zero)
  BY <1>4 DEF Passes
<1>11. Sound(InternalDecayItem(ended, i), Zero, Zero)
  BY <1>6, <1>10, InternalDecaySound
<1>12. SetThings(IF x.st = "free" THEN ended
                 ELSE IF x.duration > 0 THEN SetItem(w, i, y) ELSE InternalDecayItem(ended, i))
  BY <1>2, <1>4, <1>5, <1>9 DEF UpdateText
<1>13. PICK v : v = IF x.st = "free" THEN ended
                    ELSE IF x.duration > 0 THEN SetItem(w, i, y) ELSE InternalDecayItem(ended, i)
  OBVIOUS
<1>14. Sound(v, Zero, Zero) /\ SetThings(v)
  BY <1>6, <1>8, <1>11, <1>12, <1>13
<1> QED BY <1>14, SoundThen

LEMMA DecayStep == ASSUME DecaySound, [DecayNext]_decayVars PROVE DecaySound'
<1>1. Sound(Things, Zero, Zero)
  BY SoundNow
<1>2. CASE CheckDecay
  <2>1. Sound(CleanedUpItems(Checked(Things)), Zero, Zero)
    BY <1>1, CheckedSound, CleanedUpSound
  <2> QED BY <1>2, <2>1, SoundThen DEF CheckDecay
<1>3. CASE CleanupItems
  <2>1. Sound(CleanedUpItems(Things), Zero, Zero)
    BY <1>1, CleanedUpSound
  <2> QED BY <1>3, <2>1, SoundThen DEF CleanupItems
<1>4. ASSUME NEW t \in Types, DropItem(t) PROVE DecaySound'
  <2>1. PICK i : i = Fresh(Things)
    OBVIOUS
  <2>2. i \in Objects /\ Sound(SetItem(Things, i, NewItem(t)), Zero, Zero)
    BY <1>1, <1>4, <2>1, ItemCreated DEF DropItem
  <2>3. Sound(StartDecay(SetItem(Things, i, NewItem(t)), i), Zero, Zero)
    BY <2>2, StartDecaySound
  <2>4. SetThings(StartDecay(SetItem(Things, i, NewItem(t)), i))
    BY <1>4, <2>1 DEF DropItem, SetItem
  <2> QED BY <2>3, <2>4, SoundThen
<1>5. ASSUME NEW i \in Objects, TakeAway(i) PROVE DecaySound'
  <2>1. Sound(RemoveItem(Things, i), Zero, Zero)
    BY <1>1, ItemRemoved
  <2> QED BY <1>5, <2>1, SoundThen DEF TakeAway
<1>6. ASSUME NEW i \in Objects, UpdateText(i) PROVE DecaySound'
  BY <1>6, UpdateTextKeeps
<1>7. ASSUME NEW i \in Objects, NEW t \in Types, Transform(i, t) PROVE DecaySound'
  <2>1. PICK r : r = TransformItem(Things, i, t)
    OBVIOUS
  <2>2. Passes(Things, i, Zero, Zero)
    BY <1>1 DEF Passes, Sound
  <2>3. r.i \in Objects /\ Sound(r.w, Zero, Zero)
    BY <1>1, <2>1, <2>2, ItemTransformed
  <2>4. Sound(StartDecay(r.w, r.i), Zero, Zero)
    BY <2>3, StartDecaySound
  <2>5. SetThings(StartDecay(r.w, r.i))
    BY <1>7, <2>1 DEF Transform
  <2> QED BY <2>4, <2>5, SoundThen
<1>8. CASE UNCHANGED decayVars
  BY <1>8 DEF DecaySound, DecayLinks, DecayTypeOK, ItemUsesCounted, ListsLive, DecayingIsListed, decayVars
<1> QED BY <1>2, <1>3, <1>4, <1>5, <1>6, <1>7, <1>8 DEF DecayNext

\* The memory of an item in the decay lists is counted: the uses of every item are
\* its place, its entries and its due releases, and no list names memory that was
\* given back, whatever the types of items and the order of startDecay, checkDecay,
\* transformItem, removals and cleanup.
THEOREM DecayUsesKept == DecaySpec => []DecayLinks
<1>1. DecayInit => DecaySound
  BY SoundAtFirst
<1>2. DecaySound /\ [DecayNext]_decayVars => DecaySound'
  BY DecayStep
<1>3. DecaySound => DecayLinks
  BY DEF DecaySound
<1> QED BY <1>1, <1>2, <1>3, PTL DEF DecaySpec

\* When the types are clean, an item with the mark of decaying is in a list, so
\* that the early return of startDecay never leaves it to decay no more.
THEOREM DecayMarksKept == ASSUME CleanTypes PROVE DecaySpec => []DecayingIsListed
<1>1. DecayInit => DecaySound
  BY SoundAtFirst
<1>2. DecaySound /\ [DecayNext]_decayVars => DecaySound'
  BY DecayStep
<1>3. DecaySound => DecayingIsListed
  BY DEF DecaySound
<1> QED BY <1>1, <1>2, <1>3, PTL DEF DecaySpec

-----------------------------------------------------------------------------
(* The parts of the invariant, of a world, so that they can be said of one *)
(* in mid-step.                                                            *)

Worlds ==
    [state : [Creatures -> {"free", "placed", "removed"}],
     kind : [Creatures -> {"monster", "player"}],
     uses : [Creatures -> Nat], healthy : [Creatures -> BOOLEAN],
     vectorOf : [Creatures -> 0 .. Vectors], hasSpawn : [Creatures -> BOOLEAN],
     master : [Creatures -> Creatures \cup {NoMaster}],
     summons : [Creatures -> SUBSET Creatures],
     vectors : [1 .. Vectors -> Seq(Creatures)],
     toRelease : SUBSET Creatures,
     spawned : SUBSET ((Slots \cup {0}) \X Creatures),
     checkEvent : BOOLEAN]

OneIf(b) == IF b THEN 1 ELSE 0
Homes(w) == {e[2] : e \in w.spawned}

\* The uses that the game, the spawn and the master hold.
HeldUses(w, c) ==
    OneIf(c \in Homes(w)) + OneIf(w.master[c] # NoMaster)
      + OneIf(w.state[c] = "placed" \/ c \in w.toRelease)

\* S are those a use of whom is still to be released.
UsesCounted(w, S) ==
    \A c \in Creatures : w.state[c] # "free" =>
        w.uses[c] = HeldUses(w, c) + OneIf(c \in S)

MastersKnow(w) == \A c, d \in Creatures : d \in w.summons[c] <=> w.master[d] = c

FreeIsForgotten(w) ==
    \A c \in Creatures : w.state[c] = "free" =>
        /\ c \notin Homes(w) /\ c \notin w.toRelease
        /\ w.master[c] = NoMaster /\ w.summons[c] = {} /\ w.uses[c] = 0

ReleasedIsRemoved(w) == \A c \in w.toRelease : w.state[c] = "removed"

SpawnKnows(w) ==
    \A c \in Creatures : w.hasSpawn[c] <=> w.state[c] = "placed" /\ c \in Homes(w)

OneEntryEach(w) == \A e, f \in w.spawned : e[2] = f[2] => e = f

VectorsKnow(w) ==
    /\ \A i \in 1 .. Vectors : \A j, k \in 1 .. Len(w.vectors[i]) :
            w.vectors[i][j] = w.vectors[i][k] => j = k
    /\ \A i \in 1 .. Vectors : \A j \in 1 .. Len(w.vectors[i]) :
            w.vectorOf[w.vectors[i][j]] = i
    /\ \A c \in Creatures : w.vectorOf[c] # 0 =>
            /\ w.state[c] = "placed"
            /\ \E j \in 1 .. Len(w.vectors[w.vectorOf[c]]) : w.vectors[w.vectorOf[c]][j] = c

WorldFine(w, S) ==
    /\ w \in Worlds
    /\ S \subseteq Creatures /\ \A c \in S : w.state[c] # "free"
    /\ UsesCounted(w, S) /\ MastersKnow(w) /\ FreeIsForgotten(w) /\ ReleasedIsRemoved(w)
    /\ SpawnKnows(w) /\ OneEntryEach(w) /\ VectorsKnow(w)

\* What a release leaves as it was.
Follows(w, v) ==
    /\ \A c \in Creatures :
          /\ w.state[c] = "placed" <=> v.state[c] = "placed"
          /\ w.master[c] = NoMaster => v.master[c] = NoMaster
          /\ w.state[c] = "removed" /\ c \in w.toRelease => v.state[c] = "removed"
    /\ v.kind = w.kind /\ v.vectorOf = w.vectorOf /\ v.hasSpawn = w.hasSpawn
    /\ v.vectors = w.vectors /\ v.toRelease = w.toRelease
    /\ v.spawned = w.spawned /\ v.checkEvent = w.checkEvent

LEMMA FollowsBoth ==
    ASSUME NEW u, NEW v, NEW w, Follows(u, v), Follows(v, w)
    PROVE  Follows(u, w)
BY DEF Follows

-----------------------------------------------------------------------------
LEMMA DropKeeps ==
    ASSUME NEW w, NEW S, WorldFine(w, S)
    PROVE  WorldFine(DropOne(w, S), {}) /\ Follows(w, DropOne(w, S))
<1> DEFINE v == DropOne(w, S)
<1>1. w \in Worlds /\ S \subseteq Creatures /\ \A c \in S : w.state[c] # "free"
  BY DEF WorldFine
<1>2. ASSUME NEW c \in S PROVE w.uses[c] \in Nat /\ w.uses[c] - 1 \in Nat
  <2>1. w.uses[c] = HeldUses(w, c) + OneIf(c \in S) /\ w.uses[c] \in Nat
    BY <1>1 DEF WorldFine, UsesCounted, Worlds
  <2>2. HeldUses(w, c) \in Nat /\ OneIf(c \in S) = 1
    BY DEF HeldUses, OneIf
  <2> QED BY <2>1, <2>2
<1>3. /\ v.uses = [c \in Creatures |-> IF c \in S THEN w.uses[c] - 1 ELSE w.uses[c]]
      /\ v.state = w.state /\ v.kind = w.kind /\ v.healthy = w.healthy /\ v.vectorOf = w.vectorOf
      /\ v.hasSpawn = w.hasSpawn /\ v.master = w.master /\ v.summons = w.summons
      /\ v.vectors = w.vectors /\ v.toRelease = w.toRelease /\ v.spawned = w.spawned
      /\ v.checkEvent = w.checkEvent
  BY <1>1 DEF DropOne, Worlds
<1>4. v \in Worlds
  BY <1>1, <1>2 DEF DropOne, Worlds
<1> HIDE DEF v
<1>5. UsesCounted(v, {})
  <2>1. ASSUME NEW c \in Creatures, v.state[c] # "free"
        PROVE  v.uses[c] = HeldUses(v, c) + OneIf(c \in {})
    <3>1. w.uses[c] = HeldUses(w, c) + OneIf(c \in S) /\ w.uses[c] \in Nat
      BY <1>1, <1>3, <2>1 DEF WorldFine, UsesCounted, Worlds
    <3>2. HeldUses(v, c) = HeldUses(w, c) /\ HeldUses(w, c) \in Nat
      BY <1>3 DEF HeldUses, Homes, OneIf
    <3>3. v.uses[c] = IF c \in S THEN w.uses[c] - 1 ELSE w.uses[c]
      BY <1>3
    <3> QED BY <3>1, <3>2, <3>3 DEF OneIf
  <2> QED BY <2>1 DEF UsesCounted
<1>6. /\ MastersKnow(v) /\ ReleasedIsRemoved(v)
      /\ SpawnKnows(v) /\ OneEntryEach(v) /\ VectorsKnow(v)
  BY <1>3 DEF WorldFine, MastersKnow, ReleasedIsRemoved, SpawnKnows,
     OneEntryEach, VectorsKnow, Homes
<1>7. FreeIsForgotten(v)
  BY <1>1, <1>3 DEF WorldFine, FreeIsForgotten, Homes
<1>8. Follows(w, v)
  BY <1>3 DEF Follows
<1> QED BY <1>4, <1>5, <1>6, <1>7, <1>8 DEF v, WorldFine

LEMMA DestroyKeeps ==
    ASSUME NEW w, WorldFine(w, {})
    PROVE  WorldFine(Destroy(w), {}) /\ Follows(w, Destroy(w))
<1> DEFINE gone == {c \in Creatures : w.state[c] # "free" /\ w.uses[c] = 0}
           orphans == UNION {w.summons[c] : c \in gone}
           v == [w EXCEPT !.state = Of(gone, "free", @),
                          !.master = Of(orphans \cup gone, NoMaster, @),
                          !.summons = Of(gone, {}, @)]
<1>1. w \in Worlds /\ MastersKnow(w) /\ FreeIsForgotten(w)
  BY DEF WorldFine
<1>2. orphans \subseteq Creatures /\ \A d \in orphans : \E c \in gone : w.master[d] = c
  BY <1>1 DEF Worlds, MastersKnow
<1>3. /\ v.state = [c \in Creatures |-> IF c \in gone THEN "free" ELSE w.state[c]]
      /\ v.master = [c \in Creatures |-> IF c \in orphans \cup gone THEN NoMaster ELSE w.master[c]]
      /\ v.summons = [c \in Creatures |-> IF c \in gone THEN {} ELSE w.summons[c]]
      /\ v.uses = w.uses /\ v.kind = w.kind /\ v.healthy = w.healthy /\ v.vectorOf = w.vectorOf
      /\ v.hasSpawn = w.hasSpawn
      /\ v.vectors = w.vectors /\ v.toRelease = w.toRelease /\ v.spawned = w.spawned
      /\ v.checkEvent = w.checkEvent
  BY <1>1 DEF Worlds, Of
<1>4. v \in Worlds
  BY <1>1 DEF Worlds, Of
<1>5. Destroy(w) = DropOne(v, orphans)
  BY DEF Destroy
<1>6. ASSUME NEW c \in gone
      PROVE  /\ w.state[c] # "placed" /\ c \notin Homes(w) /\ w.master[c] = NoMaster /\ c \notin w.toRelease
             /\ w.uses[c] = 0
  <2>1. w.uses[c] = HeldUses(w, c) + OneIf(c \in {}) /\ w.uses[c] = 0
    BY DEF WorldFine, UsesCounted
  <2> QED BY <2>1 DEF HeldUses, OneIf
<1>7. gone \subseteq Creatures /\ \A c \in gone : w.state[c] # "free"
  OBVIOUS
<1>8. \A d \in orphans : d \notin gone /\ w.master[d] # NoMaster /\ w.state[d] # "free"
  <2>1. ASSUME NEW d \in orphans
        PROVE  d \notin gone /\ w.master[d] # NoMaster /\ w.state[d] # "free"
    <3>1. PICK c \in gone : w.master[d] = c
      BY <1>2
    <3> HIDE DEF gone, orphans, v
    <3>2. w.master[d] # NoMaster /\ d \in Creatures
      BY <1>2, <1>7, <3>1, CreaturesAssumption
    <3>3. d \notin gone
      BY <1>6, <3>2
    <3> QED BY <1>1, <3>2, <3>3 DEF FreeIsForgotten
  <2> QED BY <2>1
<1> HIDE DEF gone, orphans, v
<1>9. UsesCounted(v, orphans)
  <2>1. ASSUME NEW c \in Creatures, v.state[c] # "free"
        PROVE  v.uses[c] = HeldUses(v, c) + OneIf(c \in orphans)
    <3>1. c \notin gone /\ w.state[c] # "free" /\ v.state[c] = w.state[c]
      BY <1>3, <2>1
    <3>2. w.uses[c] = HeldUses(w, c) + OneIf(c \in {})
      BY <3>1 DEF WorldFine, UsesCounted
    <3>3. v.master[c] = IF c \in orphans THEN NoMaster ELSE w.master[c]
      BY <1>3, <3>1
    <3>4. (c \in Homes(v) <=> c \in Homes(w)) /\ (c \in v.toRelease <=> c \in w.toRelease)
          /\ v.uses[c] = w.uses[c]
      BY <1>3 DEF Homes
    <3> QED BY <1>8, <3>1, <3>2, <3>3, <3>4 DEF HeldUses, OneIf
  <2> QED BY <2>1 DEF UsesCounted
<1>10. MastersKnow(v)
  <2>1. ASSUME NEW c \in Creatures, NEW d \in Creatures
        PROVE  d \in v.summons[c] <=> v.master[d] = c
    <3>1. d \in w.summons[c] <=> w.master[d] = c
      BY <1>1 DEF MastersKnow
    <3>2. v.summons[c] = IF c \in gone THEN {} ELSE w.summons[c]
      BY <1>3
    <3>3. v.master[d] = IF d \in orphans \cup gone THEN NoMaster ELSE w.master[d]
      BY <1>3
    <3>4. CASE c \in gone
      <4>1. w.master[d] = c => d \in orphans
        BY <3>1, <3>4 DEF orphans
      <4> QED BY <3>2, <3>3, <3>4, <4>1, CreaturesAssumption
    <3>5. CASE c \notin gone
      <4>1. w.master[d] = c => d \notin orphans
        BY <1>2, <3>5
      <4>2. w.master[d] = c => d \notin gone
        BY <1>6, CreaturesAssumption
      <4> QED BY <3>1, <3>2, <3>3, <3>5, <4>1, <4>2, CreaturesAssumption
    <3> QED BY <3>4, <3>5
  <2> QED BY <2>1 DEF MastersKnow
<1>11. FreeIsForgotten(v)
  <2>1. ASSUME NEW c \in Creatures, v.state[c] = "free"
        PROVE  /\ c \notin Homes(v) /\ c \notin v.toRelease
               /\ v.master[c] = NoMaster /\ v.summons[c] = {} /\ v.uses[c] = 0
    <3>1. CASE c \in gone
      BY <1>3, <1>6, <3>1 DEF Homes
    <3>2. CASE c \notin gone
      <4>1. w.state[c] = "free"
        BY <1>3, <2>1, <3>2
      <4> QED BY <1>1, <1>3, <3>2, <4>1 DEF FreeIsForgotten, Homes
    <3> QED BY <3>1, <3>2
  <2> QED BY <2>1 DEF FreeIsForgotten
<1>12. ReleasedIsRemoved(v)
  BY <1>3, <1>4, <1>6 DEF WorldFine, ReleasedIsRemoved, Worlds
<1>13. SpawnKnows(v)
  BY <1>3, <1>6 DEF WorldFine, SpawnKnows, Homes
<1>14. OneEntryEach(v)
  BY <1>3 DEF WorldFine, OneEntryEach
<1>15. VectorsKnow(v)
  <2>1. VectorsKnow(w)
    BY DEF WorldFine
  <2>2. \A c \in Creatures : w.state[c] = "placed" => v.state[c] = "placed"
    BY <1>3, <1>6
  <2> QED BY <1>3, <2>1, <2>2 DEF VectorsKnow
<1>16. \A c \in orphans : v.state[c] # "free"
  BY <1>2, <1>3, <1>8
<1>17. WorldFine(v, orphans)
  BY <1>2, <1>4, <1>9, <1>10, <1>11, <1>12, <1>13, <1>14, <1>15, <1>16 DEF WorldFine
<1>18. Follows(w, v)
  <2>1. ASSUME NEW c \in Creatures
        PROVE  /\ w.state[c] = "placed" <=> v.state[c] = "placed"
               /\ w.master[c] = NoMaster => v.master[c] = NoMaster
               /\ w.state[c] = "removed" /\ c \in w.toRelease => v.state[c] = "removed"
    BY <1>3, <1>6
  <2> QED BY <1>3, <2>1 DEF Follows
<1>19. WorldFine(DropOne(v, orphans), {}) /\ Follows(v, DropOne(v, orphans))
  BY <1>17, DropKeeps
<1> QED BY <1>5, <1>18, <1>19, FollowsBoth

\* Waves of releases keep a world fine.
LEMMA ReleaseKeeps ==
    ASSUME NEW w, NEW S, WorldFine(w, S)
    PROVE  WorldFine(Release(w, S), {}) /\ Follows(w, Release(w, S))
<1> DEFINE N == Cardinality(Creatures)
           V == {v \in Worlds : WorldFine(v, {}) /\ Follows(w, v)}
           base == DropOne(w, S)
           step == [x \in V \X (1..N) |-> Destroy(x[1])]
           f == CHOOSE f : f = [n \in 0..N |-> IF n = 0 THEN DropOne(w, S)
                                                ELSE LET v == f[n - 1] IN Destroy(v)]
<1>1. N \in Nat
  BY CreaturesAssumption, FS_CardinalityType
<1>2. base \in V
  BY DropKeeps DEF WorldFine
<1>3. \A v \in V : Destroy(v) \in V
  <2>1. ASSUME NEW v \in V PROVE Destroy(v) \in V
    <3>1. WorldFine(Destroy(v), {}) /\ Follows(v, Destroy(v))
      BY DestroyKeeps
    <3>2. Follows(w, Destroy(v))
      BY <3>1, FollowsBoth
    <3> QED BY <3>1, <3>2 DEF WorldFine
  <2> QED BY <2>1
<1> HIDE DEF N, V, base
<1>4. IsStep(step, N, V)
  BY <1>3 DEF IsStep
<1>5. PICK h : IsTurns(h, N, V, base, step)
  BY <1>1, <1>2, <1>4, TurnsExist
<1>6. h \in [0..N -> V] /\ h[0] = base /\ \A n \in 1..N : h[n] = Destroy(h[n - 1])
  <2>1. h \in [0..N -> V] /\ h[0] = base /\ \A n \in 1..N : h[n] = step[<<h[n - 1], n>>]
    BY <1>5 DEF IsTurns
  <2>2. \A n \in 1..N : n - 1 \in 0..N
    BY <1>1
  <2> QED BY <2>1, <2>2
<1>7. h = [n \in 0..N |-> IF n = 0 THEN DropOne(w, S) ELSE LET v == h[n - 1] IN Destroy(v)]
  <2>1. \A n \in 0..N : n # 0 => n \in 1..N
    BY <1>1
  <2> QED BY <1>6, <2>1 DEF base
<1>8. f = [n \in 0..N |-> IF n = 0 THEN DropOne(w, S) ELSE LET v == f[n - 1] IN Destroy(v)]
  BY <1>7
<1>9. Release(w, S) = f[N]
  BY DEF Release, N
<1> HIDE DEF f
<1>10. GoAlong(f, h, N)
  <2>1. 0 \in 0..N /\ \A n \in 1..N : n \in 0..N /\ n # 0
    BY <1>1
  <2>2. f[0] = h[0]
    BY <1>7, <1>8, <2>1
  <2>3. ASSUME NEW n \in 1..N, f[n - 1] = h[n - 1] PROVE f[n] = h[n]
    BY <1>6, <1>8, <2>1, <2>3
  <2> QED BY <2>2, <2>3 DEF GoAlong
<1>11. f[N] = h[N]
  BY <1>1, <1>10, TurnsAgree
<1>12. h[N] \in V
  BY <1>1, <1>6
<1> QED BY <1>9, <1>11, <1>12 DEF V

-----------------------------------------------------------------------------
(* The vectors of checkCreatures.                                          *)

\* Nothing but the vectors and the indexes differs.
OnlyVectorsDiffer(w, v) ==
    /\ v.state = w.state /\ v.kind = w.kind /\ v.uses = w.uses /\ v.healthy = w.healthy
    /\ v.hasSpawn = w.hasSpawn /\ v.master = w.master /\ v.summons = w.summons
    /\ v.toRelease = w.toRelease /\ v.spawned = w.spawned /\ v.checkEvent = w.checkEvent

LEMMA OtherVectorsKeep ==
    ASSUME NEW w, NEW v \in Worlds, WorldFine(w, {}), OnlyVectorsDiffer(w, v), VectorsKnow(v)
    PROVE  WorldFine(v, {})
<1>1. /\ MastersKnow(v) /\ FreeIsForgotten(v) /\ ReleasedIsRemoved(v)
      /\ SpawnKnows(v) /\ OneEntryEach(v)
  BY DEF OnlyVectorsDiffer, WorldFine, MastersKnow, FreeIsForgotten, ReleasedIsRemoved,
     SpawnKnows, OneEntryEach, Homes
<1>2. UsesCounted(v, {})
  <2>1. \A c \in Creatures : HeldUses(v, c) = HeldUses(w, c)
    BY DEF OnlyVectorsDiffer, HeldUses, Homes
  <2> QED BY <2>1 DEF OnlyVectorsDiffer, WorldFine, UsesCounted
<1> QED BY <1>1, <1>2 DEF WorldFine

LEMMA VectorMembers ==
    ASSUME NEW w \in Worlds
    PROVE  \A i \in 1..Vectors : /\ w.vectors[i] \in Seq(Creatures) /\ Len(w.vectors[i]) \in Nat
                                 /\ \A j \in 1..Len(w.vectors[i]) : w.vectors[i][j] \in Creatures
<1>1. ASSUME NEW i \in 1..Vectors
      PROVE  /\ w.vectors[i] \in Seq(Creatures) /\ Len(w.vectors[i]) \in Nat
             /\ \A j \in 1..Len(w.vectors[i]) : w.vectors[i][j] \in Creatures
  <2>1. w.vectors[i] \in Seq(Creatures)
    BY DEF Worlds
  <2> QED BY <2>1
<1> QED BY <1>1

LEMMA AddCheckKeeps ==
    ASSUME NEW w, WorldFine(w, {}), lastIndex \in 1 .. Vectors,
           NEW c \in Creatures, w.state[c] = "placed"
    PROVE  WorldFine(AddCheck(w, c), {}) /\ OnlyVectorsDiffer(w, AddCheck(w, c))
<1>1. w \in Worlds /\ VectorsKnow(w)
  BY DEF WorldFine
<1>2. CASE w.vectorOf[c] # 0
  BY <1>2 DEF AddCheck, OnlyVectorsDiffer
<1>3. CASE w.vectorOf[c] = 0
  <2>1. NextVector \in 1 .. Vectors
    BY CreaturesAssumption DEF NextVector
  <2> DEFINE n == NextVector
             v == [w EXCEPT !.vectors[NextVector] = Append(@, c), !.vectorOf[c] = NextVector]
             s == w.vectors[n]
             t == v.vectors[n]
  <2>2. AddCheck(w, c) = v
    BY <1>3 DEF AddCheck
  <2>3. /\ v.vectors = [w.vectors EXCEPT ![n] = Append(@, c)]
        /\ v.vectorOf = [w.vectorOf EXCEPT ![c] = n]
        /\ OnlyVectorsDiffer(w, v)
    BY <1>1 DEF Worlds, OnlyVectorsDiffer
  <2>4. s \in Seq(Creatures) /\ n \in 1..Vectors
    BY <1>1, <2>1 DEF Worlds
  <2>5. v \in Worlds
    <3>1. Append(s, c) \in Seq(Creatures) /\ n \in 0..Vectors
      BY <2>4
    <3> HIDE DEF n
    <3> QED BY <1>1, <2>3, <2>4, <3>1 DEF Worlds
  <2>6. t = Append(s, c) /\ Len(t) = Len(s) + 1 /\ t[Len(s) + 1] = c
        /\ Len(s) \in Nat
        /\ \A j \in 1..Len(s) : t[j] = s[j]
    <3>1. t = Append(s, c)
      BY <1>1, <2>3, <2>4 DEF Worlds
    <3> HIDE DEF s, t
    <3> QED BY <2>4, <3>1
  <2>7. \A i \in 1..Vectors : i # n => v.vectors[i] = w.vectors[i]
    BY <1>1, <2>3 DEF Worlds
  <2>8. \A d \in Creatures : v.vectorOf[d] = IF d = c THEN n ELSE w.vectorOf[d]
    BY <1>1, <2>3 DEF Worlds
  <2>9. \A i \in 1..Vectors : \A j \in 1..Len(w.vectors[i]) :
            /\ w.vectors[i][j] \in Creatures /\ w.vectors[i][j] # c /\ w.vectorOf[w.vectors[i][j]] = i
    <3>1. \A i \in 1..Vectors : \A j \in 1..Len(w.vectors[i]) : w.vectors[i][j] \in Creatures
      BY <1>1, VectorMembers
    <3> QED BY <1>1, <1>3, <3>1 DEF VectorsKnow
  <2>10. VectorsKnow(v)
    <3> HIDE DEF v
    <3>1. ASSUME NEW i \in 1..Vectors, NEW j \in 1..Len(v.vectors[i])
          PROVE  /\ v.vectorOf[v.vectors[i][j]] = i
                 /\ \A k \in 1..Len(v.vectors[i]) : v.vectors[i][j] = v.vectors[i][k] => j = k
      <4>1. CASE i # n
        BY <1>1, <2>7, <2>8, <2>9, <3>1, <4>1 DEF VectorsKnow
      <4>2. CASE i = n
        <5>1. \A k \in 1..Len(t) : k \in 1..Len(s) \/ k = Len(s) + 1
          BY <2>6
        <5>2. \A k \in 1..Len(s) : t[k] = s[k] /\ s[k] # c /\ s[k] \in Creatures /\ w.vectorOf[s[k]] = n
          BY <2>4, <2>6, <2>9
        <5>3. \A k, l \in 1..Len(s) : s[k] = s[l] => k = l
          BY <1>1, <2>4 DEF VectorsKnow
        <5>4. j \in 1..Len(t) /\ v.vectors[i] = t
          BY <3>1, <4>2
        <5> HIDE DEF s, t, n
        <5>5. v.vectorOf[t[j]] = n
          BY <2>6, <2>8, <5>1, <5>2, <5>4
        <5>6. ASSUME NEW k \in 1..Len(t), t[j] = t[k] PROVE j = k
          BY <2>6, <5>1, <5>2, <5>3, <5>4, <5>6
        <5> QED BY <4>2, <5>4, <5>5, <5>6
      <4> QED BY <4>1, <4>2
    <3>2. ASSUME NEW d \in Creatures, v.vectorOf[d] # 0
          PROVE  /\ v.state[d] = "placed"
                 /\ \E j \in 1 .. Len(v.vectors[v.vectorOf[d]]) : v.vectors[v.vectorOf[d]][j] = d
      <4>0. v.state = w.state
        BY <2>3 DEF OnlyVectorsDiffer
      <4>1. CASE d = c
        <5>1. Len(s) + 1 \in 1..Len(t)
          BY <2>6
        <5> QED BY <2>6, <2>8, <4>0, <4>1, <5>1
      <4>2. CASE d # c
        <5>1. w.vectorOf[d] # 0 /\ v.vectorOf[d] = w.vectorOf[d]
          BY <2>8, <3>2, <4>2
        <5>2. w.state[d] = "placed" /\ w.vectorOf[d] \in 1..Vectors
          BY <1>1, <5>1 DEF VectorsKnow, Worlds
        <5>3. PICK j \in 1 .. Len(w.vectors[w.vectorOf[d]]) : w.vectors[w.vectorOf[d]][j] = d
          BY <1>1, <5>1 DEF VectorsKnow
        <5>4. CASE w.vectorOf[d] = n
          <6>1. j \in 1..Len(t) /\ t[j] = d
            BY <2>6, <5>3, <5>4
          <6> QED BY <4>0, <5>1, <5>2, <5>4, <6>1
        <5>5. CASE w.vectorOf[d] # n
          BY <2>7, <4>0, <5>1, <5>2, <5>3, <5>5
        <5> QED BY <5>4, <5>5
      <4> QED BY <4>1, <4>2
    <3> QED BY <3>1, <3>2 DEF VectorsKnow
  <2> QED BY <2>2, <2>3, <2>5, <2>10, OtherVectorsKeep
<1> QED BY <1>2, <1>3

\* The last one of a vector takes the place of the one that goes.
NoneTwice(s) == \A j, k \in 1..Len(s) : s[j] = s[k] => j = k
Popped(s, t, i) ==
    /\ t \in Seq(Creatures) /\ Len(t) = Len(s) - 1
    /\ \A j \in 1..Len(t) : \E k \in 1..Len(s) : t[j] = s[k] /\ k # i
    /\ \A j, k \in 1..Len(t) : t[j] = t[k] => j = k
    /\ \A k \in 1..Len(s) : k # i => \E j \in 1..Len(t) : t[j] = s[k]

LEMMA SwapPopIs ==
    ASSUME NEW s \in Seq(Creatures), NoneTwice(s), NEW c, NEW i \in 1..Len(s), s[i] = c
    PROVE  Popped(s, SwapPop(s, c), i)
<1> USE DEF NoneTwice
<1> DEFINE t == SwapPop(s, c)
<1>1. (CHOOSE j \in 1 .. Len(s) : s[j] = c) = i
  OBVIOUS
<1>2. t = [j \in 1 .. Len(s) - 1 |-> IF j = i THEN s[Len(s)] ELSE s[j]]
  BY <1>1 DEF SwapPop
<1>3. Len(s) \in Nat /\ Len(s) >= 1 /\ Len(s) \in 1..Len(s) /\ Len(s) - 1 \in Nat
  OBVIOUS
<1>4. \A j \in 1 .. Len(s) - 1 : j \in 1..Len(s) /\ t[j] = (IF j = i THEN s[Len(s)] ELSE s[j]) /\ t[j] \in Creatures
  BY <1>2, <1>3
<1>5. t \in Seq(Creatures) /\ Len(t) = Len(s) - 1
  <2>1. t \in [1 .. Len(s) - 1 -> Creatures]
    BY <1>2, <1>4
  <2> HIDE DEF t
  <2> QED BY <1>3, <2>1
<1> HIDE DEF t
<1>6. ASSUME NEW j \in 1..Len(t) PROVE \E k \in 1..Len(s) : t[j] = s[k] /\ k # i
  <2>1. j \in 1 .. Len(s) - 1
    BY <1>5
  <2>2. CASE j = i
    BY <1>3, <1>4, <2>1, <2>2
  <2>3. CASE j # i
    BY <1>3, <1>4, <2>1, <2>3
  <2> QED BY <2>2, <2>3
<1>7. ASSUME NEW j \in 1..Len(t), NEW k \in 1..Len(t), t[j] = t[k] PROVE j = k
  <2>1. j \in 1 .. Len(s) - 1 /\ k \in 1 .. Len(s) - 1
    BY <1>5
  <2>2. j # Len(s) /\ k # Len(s)
    BY <1>3, <2>1
  <2> QED BY <1>3, <1>4, <1>7, <2>1, <2>2
<1>8. ASSUME NEW k \in 1..Len(s), k # i PROVE \E j \in 1..Len(t) : t[j] = s[k]
  <2>1. CASE k = Len(s)
    <3>1. i \in 1..Len(s) - 1
      BY <1>3, <1>8, <2>1
    <3> QED BY <1>4, <1>5, <2>1, <3>1
  <2>2. CASE k # Len(s)
    <3>1. k \in 1..Len(s) - 1
      BY <1>3, <2>2
    <3> QED BY <1>4, <1>5, <1>8, <3>1
  <2> QED BY <2>1, <2>2
<1> QED BY <1>5, <1>6, <1>7, <1>8 DEF t, Popped

LEMMA RemoveCheckKeeps ==
    ASSUME NEW w, WorldFine(w, {}), NEW c \in Creatures
    PROVE  /\ WorldFine(RemoveCheck(w, c), {}) /\ OnlyVectorsDiffer(w, RemoveCheck(w, c))
           /\ RemoveCheck(w, c).vectorOf[c] = 0
           /\ \A d \in Creatures : w.vectorOf[d] = 0 => RemoveCheck(w, c).vectorOf[d] = 0
<1>1. w \in Worlds /\ VectorsKnow(w)
  BY DEF WorldFine
<1>2. CASE w.vectorOf[c] = 0
  BY <1>2 DEF RemoveCheck, OnlyVectorsDiffer
<1>3. CASE w.vectorOf[c] # 0
  <2> DEFINE n == w.vectorOf[c]
             v == [w EXCEPT !.vectors[w.vectorOf[c]] = SwapPop(@, c), !.vectorOf[c] = 0]
             s == w.vectors[n]
             t == v.vectors[n]
  <2>1. n \in 1..Vectors
    BY <1>1, <1>3 DEF Worlds
  <2>2. RemoveCheck(w, c) = v
    BY <1>3 DEF RemoveCheck
  <2>3. /\ v.vectors = [w.vectors EXCEPT ![n] = SwapPop(@, c)]
        /\ v.vectorOf = [w.vectorOf EXCEPT ![c] = 0]
        /\ OnlyVectorsDiffer(w, v)
    BY <1>1 DEF Worlds, OnlyVectorsDiffer
  <2>4. s \in Seq(Creatures)
    BY <1>1, <2>1, VectorMembers
  <2>5. PICK m \in 1..Len(s) : s[m] = c
    BY <1>1, <1>3 DEF VectorsKnow
  <2>6. \A j, k \in 1..Len(s) : s[j] = s[k] => j = k
    BY <1>1, <2>1 DEF VectorsKnow
  <2>7. t = SwapPop(s, c)
    BY <1>1, <2>1, <2>3 DEF Worlds
  <2>8. /\ t \in Seq(Creatures) /\ Len(t) = Len(s) - 1
        /\ \A j \in 1..Len(t) : \E k \in 1..Len(s) : t[j] = s[k] /\ k # m
        /\ \A j, k \in 1..Len(t) : t[j] = t[k] => j = k
        /\ \A k \in 1..Len(s) : k # m => \E j \in 1..Len(t) : t[j] = s[k]
    <3> HIDE DEF s, t
    <3>1. NoneTwice(s)
      BY <2>6 DEF NoneTwice
    <3>2. Popped(s, SwapPop(s, c), m)
      BY <2>4, <2>5, <3>1, SwapPopIs
    <3> QED BY <2>7, <3>2 DEF Popped
  <2>9. \A i \in 1..Vectors : i # n => v.vectors[i] = w.vectors[i]
    BY <1>1, <2>3 DEF Worlds
  <2>10. \A d \in Creatures : v.vectorOf[d] = IF d = c THEN 0 ELSE w.vectorOf[d]
    BY <1>1, <2>3 DEF Worlds
  <2>11. v \in Worlds
    <3>1. SwapPop(w.vectors[n], c) \in Seq(Creatures)
      BY <2>7, <2>8
    <3>2. [w.vectors EXCEPT ![n] = SwapPop(@, c)] \in [1..Vectors -> Seq(Creatures)]
      BY <1>1, <2>1, <3>1 DEF Worlds
    <3>3. [w.vectorOf EXCEPT ![c] = 0] \in [Creatures -> 0..Vectors]
      BY <1>1, CreaturesAssumption DEF Worlds
    <3> QED BY <1>1, <3>2, <3>3 DEF Worlds
  <2>12. VectorsKnow(v)
    <3> HIDE DEF v
    <3>1. ASSUME NEW i \in 1..Vectors
          PROVE  \A j \in 1..Len(v.vectors[i]) :
                    /\ v.vectorOf[v.vectors[i][j]] = i
                    /\ \A k \in 1..Len(v.vectors[i]) : v.vectors[i][j] = v.vectors[i][k] => j = k
      <4>1. CASE i # n
        <5>1. \A j \in 1..Len(w.vectors[i]) : w.vectors[i][j] \in Creatures /\ w.vectorOf[w.vectors[i][j]] = i
          BY <1>1, VectorMembers DEF VectorsKnow
        <5>2. \A j \in 1..Len(w.vectors[i]) : w.vectors[i][j] # c
          BY <4>1, <5>1
        <5>3. \A j, k \in 1..Len(w.vectors[i]) : w.vectors[i][j] = w.vectors[i][k] => j = k
          BY <1>1 DEF VectorsKnow
        <5>4. v.vectors[i] = w.vectors[i]
          BY <2>9, <4>1
        <5> QED BY <2>10, <5>1, <5>2, <5>3, <5>4
      <4>2. CASE i = n
        <5>1. \A k \in 1..Len(s) : s[k] \in Creatures /\ w.vectorOf[s[k]] = n
          BY <1>1, <2>1, VectorMembers DEF VectorsKnow
        <5> HIDE DEF s, n, t
        <5>2. ASSUME NEW j \in 1..Len(t) PROVE v.vectorOf[t[j]] = n
          <6>1. PICK k \in 1..Len(s) : t[j] = s[k] /\ k # m
            BY <2>8
          <6>2. s[k] # c
            BY <2>5, <2>6, <6>1
          <6> QED BY <2>10, <5>1, <6>1, <6>2
        <5>3. v.vectors[i] = t
          BY <4>2 DEF t
        <5> QED BY <2>8, <4>2, <5>2, <5>3
      <4> QED BY <4>1, <4>2
    <3>2. ASSUME NEW d \in Creatures, v.vectorOf[d] # 0
          PROVE  /\ v.state[d] = "placed"
                 /\ \E j \in 1 .. Len(v.vectors[v.vectorOf[d]]) : v.vectors[v.vectorOf[d]][j] = d
      <4>0. v.state = w.state
        BY <2>3 DEF OnlyVectorsDiffer
      <4>1. d # c /\ w.vectorOf[d] # 0 /\ v.vectorOf[d] = w.vectorOf[d]
        BY <2>10, <3>2
      <4>2. w.state[d] = "placed" /\ w.vectorOf[d] \in 1..Vectors
        BY <1>1, <4>1 DEF VectorsKnow, Worlds
      <4>3. PICK j \in 1 .. Len(w.vectors[w.vectorOf[d]]) : w.vectors[w.vectorOf[d]][j] = d
        BY <1>1, <4>1 DEF VectorsKnow
      <4>4. CASE w.vectorOf[d] = n
        <5>1. j \in 1..Len(s) /\ s[j] = d /\ j # m
          BY <2>5, <4>1, <4>3, <4>4
        <5>2. \E k \in 1..Len(t) : t[k] = d
          BY <2>8, <5>1
        <5> QED BY <4>0, <4>1, <4>2, <4>4, <5>2
      <4>5. CASE w.vectorOf[d] # n
        BY <2>9, <4>0, <4>1, <4>2, <4>3, <4>5
      <4> QED BY <4>4, <4>5
    <3> QED BY <3>1, <3>2 DEF VectorsKnow
  <2>13. WorldFine(v, {})
    BY <2>3, <2>11, <2>12, OtherVectorsKeep
  <2> QED BY <2>2, <2>3, <2>10, <2>13
<1> QED BY <1>2, <1>3

-----------------------------------------------------------------------------
(* Masters and summons.                                                    *)

LEMMA RemoveSummonKeeps ==
    ASSUME NEW w, WorldFine(w, {}), NEW m \in Creatures \cup {NoMaster}, NEW c \in Creatures
    PROVE  /\ WorldFine(RemoveSummon(w, m, c), {}) /\ Follows(w, RemoveSummon(w, m, c))
           /\ m = w.master[c] => RemoveSummon(w, m, c).master[c] = NoMaster
<1>1. w \in Worlds /\ MastersKnow(w) /\ FreeIsForgotten(w)
  BY DEF WorldFine
<1>2. CASE m = NoMaster \/ c \notin w.summons[m]
  <2>1. RemoveSummon(w, m, c) = w
    BY <1>2 DEF RemoveSummon
  <2>2. m = w.master[c] => m = NoMaster
    BY <1>1, <1>2 DEF MastersKnow
  <2> QED BY <2>1, <2>2 DEF Follows
<1>3. CASE m # NoMaster /\ c \in w.summons[m]
  <2> DEFINE v == [w EXCEPT !.summons[m] = @ \ {c}, !.master[c] = NoMaster]
  <2>1. RemoveSummon(w, m, c) = Release(v, {c})
    BY <1>3 DEF RemoveSummon
  <2>2. w.master[c] = m /\ m \in Creatures /\ w.state[c] # "free"
    BY <1>1, <1>3 DEF MastersKnow, FreeIsForgotten
  <2>3. /\ v.summons = [w.summons EXCEPT ![m] = @ \ {c}]
        /\ v.master = [w.master EXCEPT ![c] = NoMaster]
        /\ v.uses = w.uses /\ v.kind = w.kind /\ v.healthy = w.healthy /\ v.vectorOf = w.vectorOf
        /\ v.hasSpawn = w.hasSpawn /\ v.state = w.state
        /\ v.vectors = w.vectors /\ v.toRelease = w.toRelease /\ v.spawned = w.spawned
        /\ v.checkEvent = w.checkEvent
    BY <1>1 DEF Worlds
  <2>4. v \in Worlds
    BY <1>1, <2>2 DEF Worlds
  <2>5. /\ \A d \in Creatures : v.master[d] = IF d = c THEN NoMaster ELSE w.master[d]
        /\ \A d \in Creatures : v.summons[d] = IF d = m THEN w.summons[d] \ {c} ELSE w.summons[d]
    BY <1>1, <2>2, <2>3 DEF Worlds
  <2> HIDE DEF v
  <2>6. UsesCounted(v, {c})
    <3>1. ASSUME NEW d \in Creatures, v.state[d] # "free"
          PROVE  v.uses[d] = HeldUses(v, d) + OneIf(d \in {c})
      <4>1. w.uses[d] = HeldUses(w, d) + OneIf(d \in {})
        BY <2>3, <3>1 DEF WorldFine, UsesCounted
      <4>2. (d \in Homes(v) <=> d \in Homes(w)) /\ v.uses[d] = w.uses[d]
        BY <2>3 DEF Homes
      <4> QED BY <1>3, <2>2, <2>3, <2>5, <4>1, <4>2 DEF HeldUses, OneIf
    <3> QED BY <3>1 DEF UsesCounted
  <2>7. MastersKnow(v)
    <3>1. ASSUME NEW a \in Creatures, NEW d \in Creatures PROVE d \in v.summons[a] <=> v.master[d] = a
      <4>1. d \in w.summons[a] <=> w.master[d] = a
        BY <1>1 DEF MastersKnow
      <4>2. v.summons[a] = (IF a = m THEN w.summons[a] \ {c} ELSE w.summons[a])
            /\ v.master[d] = (IF d = c THEN NoMaster ELSE w.master[d])
        BY <2>5
      <4> QED BY <2>2, <4>1, <4>2, CreaturesAssumption
    <3> QED BY <3>1 DEF MastersKnow
  <2>8. FreeIsForgotten(v)
    BY <1>1, <2>2, <2>3, <2>5 DEF FreeIsForgotten, Homes
  <2>9. ReleasedIsRemoved(v) /\ SpawnKnows(v) /\ OneEntryEach(v) /\ VectorsKnow(v)
    BY <2>3 DEF WorldFine, ReleasedIsRemoved, SpawnKnows, OneEntryEach, VectorsKnow, Homes
  <2>10. WorldFine(v, {c})
    BY <2>2, <2>3, <2>4, <2>6, <2>7, <2>8, <2>9 DEF WorldFine
  <2>11. Follows(w, v)
    BY <2>3, <2>5 DEF Follows
  <2>12. WorldFine(Release(v, {c}), {}) /\ Follows(v, Release(v, {c}))
    BY <2>10, ReleaseKeeps
  <2>13. Release(v, {c}).master[c] = NoMaster
    BY <2>5, <2>12 DEF Follows
  <2> QED BY <2>1, <2>11, <2>12, <2>13, FollowsBoth
<1> QED BY <1>2, <1>3

LEMMA LoseSummonsKeeps ==
    ASSUME NEW w, WorldFine(w, {}), NEW m \in Creatures
    PROVE  WorldFine(LoseSummons(w, m), {}) /\ Follows(w, LoseSummons(w, m))
<1>1. w \in Worlds /\ MastersKnow(w) /\ FreeIsForgotten(w)
  BY DEF WorldFine
<1> DEFINE lost == w.summons[m]
           v == [w EXCEPT !.healthy = Of(lost, FALSE, @), !.master = Of(lost, NoMaster, @),
                          !.summons[m] = {}]
<1>2. LoseSummons(w, m) = Release(v, lost)
  BY DEF LoseSummons
<1>3. /\ lost \subseteq Creatures
      /\ \A d \in Creatures : d \in lost <=> w.master[d] = m
      /\ \A d \in lost : w.master[d] = m /\ w.state[d] # "free"
  BY <1>1, CreaturesAssumption DEF MastersKnow, FreeIsForgotten, Worlds
<1>4. /\ v.summons = [w.summons EXCEPT ![m] = {}]
      /\ v.master = [d \in Creatures |-> IF d \in lost THEN NoMaster ELSE w.master[d]]
      /\ v.uses = w.uses /\ v.kind = w.kind /\ v.vectorOf = w.vectorOf
      /\ v.hasSpawn = w.hasSpawn /\ v.state = w.state
      /\ v.vectors = w.vectors /\ v.toRelease = w.toRelease /\ v.spawned = w.spawned
      /\ v.checkEvent = w.checkEvent
  BY <1>1 DEF Worlds, Of
<1>5. v \in Worlds
  BY <1>1 DEF Worlds, Of
<1>6. /\ \A d \in Creatures : v.master[d] = IF d \in lost THEN NoMaster ELSE w.master[d]
      /\ \A d \in Creatures : v.summons[d] = IF d = m THEN {} ELSE w.summons[d]
  BY <1>1, <1>4 DEF Worlds
<1> HIDE DEF v, lost
<1>7. UsesCounted(v, lost)
  <2>1. ASSUME NEW d \in Creatures, v.state[d] # "free"
        PROVE  v.uses[d] = HeldUses(v, d) + OneIf(d \in lost)
    <3>1. w.uses[d] = HeldUses(w, d) + OneIf(d \in {})
      BY <1>4, <2>1 DEF WorldFine, UsesCounted
    <3>2. (d \in Homes(v) <=> d \in Homes(w)) /\ v.uses[d] = w.uses[d]
      BY <1>4 DEF Homes
    <3>3. d \in lost => w.master[d] # NoMaster
      BY <1>3, CreaturesAssumption
    <3> QED BY <1>4, <1>6, <3>1, <3>2, <3>3 DEF HeldUses, OneIf
  <2> QED BY <2>1 DEF UsesCounted
<1>8. MastersKnow(v)
  BY <1>1, <1>3, <1>6, CreaturesAssumption DEF MastersKnow
<1>9. FreeIsForgotten(v)
  BY <1>1, <1>4, <1>6 DEF FreeIsForgotten, Homes
<1>10. ReleasedIsRemoved(v) /\ SpawnKnows(v) /\ OneEntryEach(v) /\ VectorsKnow(v)
  BY <1>4 DEF WorldFine, ReleasedIsRemoved, SpawnKnows, OneEntryEach, VectorsKnow, Homes
<1>11. WorldFine(v, lost)
  BY <1>3, <1>4, <1>5, <1>7, <1>8, <1>9, <1>10 DEF WorldFine
<1>12. Follows(w, v)
  BY <1>4, <1>6 DEF Follows
<1>13. WorldFine(Release(v, lost), {}) /\ Follows(v, Release(v, lost))
  BY <1>11, ReleaseKeeps
<1> QED BY <1>2, <1>12, <1>13, FollowsBoth

LEMMA AddSummonKeeps ==
    ASSUME NEW w, WorldFine(w, {}), NEW m \in Creatures, w.state[m] # "free",
           NEW c \in Creatures, w.state[c] # "free", w.master[c] = NoMaster
    PROVE  /\ WorldFine(AddSummon(w, m, c), {})
           /\ AddSummon(w, m, c).state = w.state /\ AddSummon(w, m, c).spawned = w.spawned
           /\ AddSummon(w, m, c).checkEvent = w.checkEvent
           /\ AddSummon(w, m, c).hasSpawn = w.hasSpawn /\ AddSummon(w, m, c).kind = w.kind
<1>1. w \in Worlds /\ MastersKnow(w) /\ FreeIsForgotten(w)
  BY DEF WorldFine
<1> DEFINE v == [w EXCEPT !.summons[m] = @ \cup {c}, !.master[c] = m, !.uses[c] = @ + 1]
<1>2. AddSummon(w, m, c) = v
  BY DEF AddSummon
<1>3. /\ v.kind = w.kind /\ v.vectorOf = w.vectorOf
      /\ v.hasSpawn = w.hasSpawn /\ v.state = w.state
      /\ v.vectors = w.vectors /\ v.toRelease = w.toRelease /\ v.spawned = w.spawned
      /\ v.checkEvent = w.checkEvent
  BY <1>1 DEF Worlds
<1>4. v \in Worlds
  <2>1. /\ w.uses[c] \in Nat /\ w.summons[m] \in SUBSET Creatures
        /\ w.uses \in [Creatures -> Nat] /\ w.summons \in [Creatures -> SUBSET Creatures]
    BY <1>1 DEF Worlds
  <2>2. [w.uses EXCEPT ![c] = @ + 1] \in [Creatures -> Nat]
    BY <2>1
  <2>3. [w.summons EXCEPT ![m] = @ \cup {c}] \in [Creatures -> SUBSET Creatures]
    BY <2>1
  <2>4. [w.master EXCEPT ![c] = m] \in [Creatures -> Creatures \cup {NoMaster}]
    BY <1>1 DEF Worlds
  <2> QED BY <1>1, <2>2, <2>3, <2>4 DEF Worlds
<1>5. /\ \A d \in Creatures : v.master[d] = IF d = c THEN m ELSE w.master[d]
      /\ \A d \in Creatures : v.summons[d] = IF d = m THEN w.summons[d] \cup {c} ELSE w.summons[d]
      /\ \A d \in Creatures : v.uses[d] = IF d = c THEN w.uses[d] + 1 ELSE w.uses[d]
  BY <1>1 DEF Worlds
<1> HIDE DEF v
<1>6. UsesCounted(v, {})
  <2>1. ASSUME NEW d \in Creatures, v.state[d] # "free"
        PROVE  v.uses[d] = HeldUses(v, d) + OneIf(d \in {})
    <3>1. w.uses[d] = HeldUses(w, d) + OneIf(d \in {})
      BY <1>3, <2>1 DEF WorldFine, UsesCounted
    <3>2. d \in Homes(v) <=> d \in Homes(w)
      BY <1>3 DEF Homes
    <3>3. m # NoMaster
      BY CreaturesAssumption
    <3> QED BY <1>3, <1>5, <3>1, <3>2, <3>3 DEF HeldUses, OneIf
  <2> QED BY <2>1 DEF UsesCounted
<1>7. MastersKnow(v)
  <2>1. ASSUME NEW a \in Creatures, NEW d \in Creatures PROVE d \in v.summons[a] <=> v.master[d] = a
    <3>1. (d \in w.summons[a] <=> w.master[d] = a) /\ c \notin w.summons[a]
      BY <1>1, CreaturesAssumption DEF MastersKnow
    <3>2. v.summons[a] = (IF a = m THEN w.summons[a] \cup {c} ELSE w.summons[a])
          /\ v.master[d] = (IF d = c THEN m ELSE w.master[d])
      BY <1>5
    <3> QED BY <3>1, <3>2, CreaturesAssumption
  <2> QED BY <2>1 DEF MastersKnow
<1>8. FreeIsForgotten(v)
  BY <1>1, <1>3, <1>5 DEF FreeIsForgotten, Homes
<1>9. ReleasedIsRemoved(v) /\ SpawnKnows(v) /\ OneEntryEach(v) /\ VectorsKnow(v)
  BY <1>3 DEF WorldFine, ReleasedIsRemoved, SpawnKnows, OneEntryEach, VectorsKnow, Homes
<1>10. WorldFine(v, {})
  BY <1>4, <1>6, <1>7, <1>8, <1>9 DEF WorldFine
<1> QED BY <1>2, <1>3, <1>10

-----------------------------------------------------------------------------
(* New creatures.                                                          *)

PlaceFacts(w, v, c, k, n) ==
    /\ v \in Worlds
    /\ \A d \in Creatures :
          /\ v.state[d] = (IF d = c THEN "placed" ELSE w.state[d])
          /\ v.uses[d] = (IF d = c THEN n ELSE w.uses[d])
          /\ v.kind[d] = (IF d = c THEN k ELSE w.kind[d])
    /\ v.master = w.master /\ v.summons = w.summons /\ v.vectorOf = w.vectorOf
    /\ v.hasSpawn = w.hasSpawn /\ v.vectors = w.vectors /\ v.toRelease = w.toRelease
    /\ v.spawned = w.spawned /\ v.checkEvent = w.checkEvent
    /\ v.master[c] = NoMaster /\ v.summons[c] = {} /\ c \notin Homes(v) /\ c \notin v.toRelease

LEMMA PlaceIs ==
    ASSUME NEW w, WorldFine(w, {}), NEW c \in Creatures, w.state[c] = "free",
           NEW k \in {"monster", "player"}, NEW n \in Nat
    PROVE  PlaceFacts(w, Place(w, c, k, n), c, k, n)
<1>1. /\ w \in Worlds /\ VectorsKnow(w) /\ SpawnKnows(w)
      /\ c \notin Homes(w) /\ c \notin w.toRelease
      /\ w.master[c] = NoMaster /\ w.summons[c] = {}
  BY DEF WorldFine, FreeIsForgotten
<1> DEFINE v == Place(w, c, k, n)
<1>2. w.vectorOf[c] = 0 /\ w.hasSpawn[c] = FALSE
  BY <1>1 DEF VectorsKnow, SpawnKnows, Worlds
<1>3. /\ v.state = [w.state EXCEPT ![c] = "placed"] /\ v.kind = [w.kind EXCEPT ![c] = k]
      /\ v.uses = [w.uses EXCEPT ![c] = n] /\ v.healthy = [w.healthy EXCEPT ![c] = TRUE]
      /\ v.vectorOf = [w.vectorOf EXCEPT ![c] = 0] /\ v.hasSpawn = [w.hasSpawn EXCEPT ![c] = FALSE]
      /\ v.master = [w.master EXCEPT ![c] = NoMaster] /\ v.summons = [w.summons EXCEPT ![c] = {}]
      /\ v.vectors = w.vectors /\ v.toRelease = w.toRelease /\ v.spawned = w.spawned
      /\ v.checkEvent = w.checkEvent
  BY <1>1 DEF Place, Worlds
<1>4. /\ v.vectorOf = w.vectorOf /\ v.hasSpawn = w.hasSpawn /\ v.master = w.master
      /\ v.summons = w.summons
  BY <1>1, <1>2, <1>3 DEF Worlds
<1>5. v \in Worlds
  <2>1. /\ v.state \in [Creatures -> {"free", "placed", "removed"}]
        /\ v.kind \in [Creatures -> {"monster", "player"}]
        /\ v.uses \in [Creatures -> Nat] /\ v.healthy \in [Creatures -> BOOLEAN]
    BY <1>1, <1>3 DEF Worlds
  <2>2. /\ v.vectorOf \in [Creatures -> 0..Vectors] /\ v.hasSpawn \in [Creatures -> BOOLEAN]
        /\ v.master \in [Creatures -> Creatures \cup {NoMaster}]
        /\ v.summons \in [Creatures -> SUBSET Creatures]
    BY <1>1, <1>4 DEF Worlds
  <2>3. v = [w EXCEPT !.state = v.state, !.kind = v.kind, !.uses = v.uses, !.healthy = v.healthy,
                      !.vectorOf = v.vectorOf, !.hasSpawn = v.hasSpawn, !.master = v.master,
                      !.summons = v.summons]
    BY <1>1, <1>3 DEF Place, Worlds
  <2> HIDE DEF v
  <2> QED BY <1>1, <2>1, <2>2, <2>3 DEF Worlds
<1>6. \A d \in Creatures :
          /\ v.state[d] = (IF d = c THEN "placed" ELSE w.state[d])
          /\ v.uses[d] = (IF d = c THEN n ELSE w.uses[d])
          /\ v.kind[d] = (IF d = c THEN k ELSE w.kind[d])
  BY <1>1, <1>3 DEF Worlds
<1> HIDE DEF v
<1>7. v.master[c] = NoMaster /\ v.summons[c] = {} /\ c \notin Homes(v) /\ c \notin v.toRelease
  BY <1>1, <1>3, <1>4 DEF Homes
<1> QED BY <1>3, <1>4, <1>5, <1>6, <1>7 DEF PlaceFacts, v

LEMMA PlaceKeeps ==
    ASSUME NEW w, WorldFine(w, {}), NEW c \in Creatures, w.state[c] = "free",
           NEW k \in {"monster", "player"}, NEW v, PlaceFacts(w, v, c, k, 1)
    PROVE  WorldFine(v, {})
<1> USE DEF PlaceFacts
<1>1. UsesCounted(v, {})
  <2>1. ASSUME NEW d \in Creatures, v.state[d] # "free"
        PROVE  v.uses[d] = HeldUses(v, d) + OneIf(d \in {})
    <3>1. CASE d = c
      BY <3>1 DEF HeldUses, OneIf
    <3>2. CASE d # c
      <4>1. w.uses[d] = HeldUses(w, d) + OneIf(d \in {})
        BY <2>1, <3>2 DEF WorldFine, UsesCounted
      <4> QED BY <3>2, <4>1 DEF HeldUses, OneIf, Homes
    <3> QED BY <3>1, <3>2
  <2> QED BY <2>1 DEF UsesCounted
<1>2. MastersKnow(v) /\ OneEntryEach(v)
  BY DEF WorldFine, MastersKnow, OneEntryEach
<1>3. FreeIsForgotten(v)
  BY DEF WorldFine, FreeIsForgotten, Homes
<1>4. ReleasedIsRemoved(v)
  <2>1. ASSUME NEW d \in v.toRelease PROVE v.state[d] = "removed"
    <3>1. d \in Creatures /\ d \in w.toRelease /\ d # c
      BY DEF Worlds
    <3>2. w.state[d] = "removed"
      BY <3>1 DEF WorldFine, ReleasedIsRemoved
    <3> QED BY <3>1, <3>2
  <2> QED BY <2>1 DEF ReleasedIsRemoved
<1>5. SpawnKnows(v)
  BY DEF WorldFine, SpawnKnows, Homes
<1>6. VectorsKnow(v)
  BY DEF WorldFine, VectorsKnow
<1> QED BY <1>1, <1>2, <1>3, <1>4, <1>5, <1>6 DEF WorldFine

LEMMA SpawnMonsterKeeps ==
    ASSUME NEW w, WorldFine(w, {}), NEW c \in Creatures, w.state[c] = "free", NEW s \in Slots
    PROVE  /\ WorldFine(SpawnMonster(w, s, c), {})
           /\ SpawnMonster(w, s, c).spawned = w.spawned \cup {<<s, c>>}
           /\ \A d \in Creatures : SpawnMonster(w, s, c).state[d] = IF d = c THEN "placed" ELSE w.state[d]
<1> DEFINE u == Place(w, c, "monster", 2)
           v == SpawnMonster(w, s, c)
<1>1. PlaceFacts(w, u, c, "monster", 2)
  BY PlaceIs
<1> HIDE DEF u
<1> USE DEF PlaceFacts
<1>2. /\ v.state = u.state /\ v.kind = u.kind /\ v.uses = u.uses /\ v.healthy = u.healthy
      /\ v.vectorOf = u.vectorOf /\ v.hasSpawn = [u.hasSpawn EXCEPT ![c] = TRUE]
      /\ v.master = u.master /\ v.summons = u.summons
      /\ v.vectors = u.vectors /\ v.toRelease = u.toRelease
      /\ v.spawned = u.spawned \cup {<<s, c>>}
      /\ v.checkEvent = u.checkEvent
  BY <1>1 DEF SpawnMonster, Worlds, u
<1>3. v \in Worlds
  <2>1. u.spawned \cup {<<s, c>>} \in SUBSET ((Slots \cup {0}) \X Creatures)
    BY <1>1 DEF Worlds
  <2> QED BY <1>1, <2>1 DEF SpawnMonster, Worlds, u
<1> HIDE DEF v
<1>4. \A d \in Creatures : v.hasSpawn[d] = IF d = c THEN TRUE ELSE w.hasSpawn[d]
  <2>1. u.hasSpawn \in [Creatures -> BOOLEAN] /\ u.hasSpawn = w.hasSpawn
    BY <1>1 DEF Worlds
  <2> QED BY <1>2, <2>1
<1>5. \A d \in Creatures : d \in Homes(v) <=> d = c \/ d \in Homes(w)
  <2>1. v.spawned = w.spawned \cup {<<s, c>>} /\ <<s, c>>[2] = c
    BY <1>1, <1>2
  <2> QED BY <2>1 DEF Homes
<1>6. c \notin Homes(w)
  BY DEF WorldFine, FreeIsForgotten
<1>7. UsesCounted(v, {})
  <2>1. ASSUME NEW d \in Creatures, v.state[d] # "free"
        PROVE  v.uses[d] = HeldUses(v, d) + OneIf(d \in {})
    <3>1. CASE d = c
      BY <1>1, <1>2, <1>5, <3>1 DEF HeldUses, OneIf
    <3>2. CASE d # c
      <4>1. w.uses[d] = HeldUses(w, d) + OneIf(d \in {})
        BY <1>1, <1>2, <2>1, <3>2 DEF WorldFine, UsesCounted
      <4> QED BY <1>1, <1>2, <1>5, <3>2, <4>1 DEF HeldUses, OneIf
    <3> QED BY <3>1, <3>2
  <2> QED BY <2>1 DEF UsesCounted
<1>8. MastersKnow(v)
  BY <1>1, <1>2 DEF WorldFine, MastersKnow
<1>9. OneEntryEach(v)
  <2>1. \A e \in w.spawned : e[2] # c
    BY <1>6 DEF Homes
  <2>2. OneEntryEach(w) /\ v.spawned = w.spawned \cup {<<s, c>>}
    BY <1>1, <1>2 DEF WorldFine
  <2> QED BY <2>1, <2>2 DEF OneEntryEach
<1>10. FreeIsForgotten(v)
  BY <1>1, <1>2, <1>5 DEF WorldFine, FreeIsForgotten
<1>11. ReleasedIsRemoved(v)
  <2>1. ASSUME NEW d \in v.toRelease PROVE v.state[d] = "removed"
    <3>1. d \in Creatures /\ d \in w.toRelease /\ d # c
      BY <1>1, <1>2 DEF Worlds
    <3>2. w.state[d] = "removed"
      BY <3>1 DEF WorldFine, ReleasedIsRemoved
    <3> QED BY <1>1, <1>2, <3>1, <3>2
  <2> QED BY <2>1 DEF ReleasedIsRemoved
<1>12. SpawnKnows(v)
  <2>1. ASSUME NEW d \in Creatures PROVE v.hasSpawn[d] <=> v.state[d] = "placed" /\ d \in Homes(v)
    <3>1. CASE d = c
      BY <1>1, <1>2, <1>4, <1>5, <3>1
    <3>2. CASE d # c
      <4>1. w.hasSpawn[d] <=> w.state[d] = "placed" /\ d \in Homes(w)
        BY DEF WorldFine, SpawnKnows
      <4>2. v.hasSpawn[d] = w.hasSpawn[d] /\ v.state[d] = w.state[d] /\ (d \in Homes(v) <=> d \in Homes(w))
        BY <1>1, <1>2, <1>4, <1>5, <3>2
      <4> QED BY <4>1, <4>2
    <3> QED BY <3>1, <3>2
  <2> QED BY <2>1 DEF SpawnKnows
<1>13. VectorsKnow(v)
  BY <1>1, <1>2 DEF WorldFine, VectorsKnow
<1>14. WorldFine(v, {})
  BY <1>3, <1>7, <1>8, <1>9, <1>10, <1>11, <1>12, <1>13 DEF WorldFine
<1> QED BY <1>1, <1>2, <1>14 DEF v

-----------------------------------------------------------------------------
(* Smaller changes.                                                        *)

LEMMA HealthKeeps ==
    ASSUME NEW w, WorldFine(w, {}), NEW d \in Creatures
    PROVE  /\ WorldFine([w EXCEPT !.healthy[d] = FALSE], {})
           /\ Follows(w, [w EXCEPT !.healthy[d] = FALSE])
<1> DEFINE v == [w EXCEPT !.healthy[d] = FALSE]
<1>1. w \in Worlds
  BY DEF WorldFine
<1>2. /\ v \in Worlds
      /\ v.kind = w.kind /\ v.vectorOf = w.vectorOf /\ v.uses = w.uses
      /\ v.hasSpawn = w.hasSpawn /\ v.state = w.state /\ v.master = w.master /\ v.summons = w.summons
      /\ v.vectors = w.vectors /\ v.toRelease = w.toRelease /\ v.spawned = w.spawned
      /\ v.checkEvent = w.checkEvent
  BY <1>1 DEF Worlds
<1> HIDE DEF v
<1>3. UsesCounted(v, {})
  <2>1. \A c \in Creatures : HeldUses(v, c) = HeldUses(w, c)
    BY <1>2 DEF HeldUses, Homes
  <2> QED BY <1>2, <2>1 DEF WorldFine, UsesCounted
<1>4. /\ MastersKnow(v) /\ FreeIsForgotten(v) /\ ReleasedIsRemoved(v)
      /\ SpawnKnows(v) /\ OneEntryEach(v) /\ VectorsKnow(v)
  BY <1>2 DEF WorldFine, MastersKnow, FreeIsForgotten, ReleasedIsRemoved, SpawnKnows,
     OneEntryEach, VectorsKnow, Homes
<1>5. Follows(w, v)
  BY <1>2 DEF Follows
<1> QED BY <1>2, <1>3, <1>4, <1>5 DEF WorldFine, v

\* The entries of the spawn that are in the game.
HereIn(w) == {e \in w.spawned : w.state[e[2]] = "placed"}

\* None of them goes without the spawn being going to be checked.
Calm(w, v) ==
    /\ w.checkEvent => v.checkEvent
    /\ ~v.checkEvent => HereIn(v) = HereIn(w)

LEMMA CalmBoth == ASSUME NEW u, NEW v, NEW w, Calm(u, v), Calm(v, w) PROVE Calm(u, w)
BY DEF Calm

LEMMA FollowsCalm == ASSUME NEW w \in Worlds, NEW v, Follows(w, v) PROVE Calm(w, v)
<1>1. \A e \in w.spawned : e[2] \in Creatures
  BY DEF Worlds
<1>2. HereIn(v) = HereIn(w)
  BY <1>1 DEF Follows, HereIn
<1> QED BY <1>2 DEF Calm, Follows

LEMMA CleanedUpKeeps ==
    ASSUME NEW w, WorldFine(w, {})
    PROVE  WorldFine(CleanedUp(w), {}) /\ Calm(w, CleanedUp(w))
<1> DEFINE v == [w EXCEPT !.toRelease = {}]
           S == w.toRelease
<1>1. w \in Worlds /\ ReleasedIsRemoved(w)
  BY DEF WorldFine
<1>2. /\ v \in Worlds /\ v.toRelease = {}
      /\ v.kind = w.kind /\ v.vectorOf = w.vectorOf /\ v.uses = w.uses
      /\ v.hasSpawn = w.hasSpawn /\ v.state = w.state /\ v.master = w.master /\ v.summons = w.summons
      /\ v.vectors = w.vectors /\ v.spawned = w.spawned /\ v.checkEvent = w.checkEvent
  BY <1>1 DEF Worlds
<1>3. S \subseteq Creatures /\ (\A c \in S : w.state[c] # "free" /\ w.state[c] # "placed")
  BY <1>1 DEF Worlds, ReleasedIsRemoved
<1>4. CleanedUp(w) = Release(v, S)
  BY DEF CleanedUp
<1> HIDE DEF v, S
<1>5. UsesCounted(v, S)
  <2>1. ASSUME NEW c \in Creatures, v.state[c] # "free"
        PROVE  v.uses[c] = HeldUses(v, c) + OneIf(c \in S)
    <3>1. w.uses[c] = HeldUses(w, c) + OneIf(c \in {})
      BY <1>2, <2>1 DEF WorldFine, UsesCounted
    <3>2. c \in Homes(v) <=> c \in Homes(w)
      BY <1>2 DEF Homes
    <3> QED BY <1>2, <1>3, <3>1, <3>2 DEF HeldUses, OneIf, S
  <2> QED BY <2>1 DEF UsesCounted
<1>6. /\ MastersKnow(v) /\ FreeIsForgotten(v) /\ ReleasedIsRemoved(v)
      /\ SpawnKnows(v) /\ OneEntryEach(v) /\ VectorsKnow(v)
  BY <1>2 DEF WorldFine, MastersKnow, FreeIsForgotten, ReleasedIsRemoved, SpawnKnows,
     OneEntryEach, VectorsKnow, Homes
<1>7. WorldFine(v, S)
  BY <1>2, <1>3, <1>5, <1>6 DEF WorldFine
<1>8. WorldFine(Release(v, S), {}) /\ Calm(v, Release(v, S))
  BY <1>2, <1>7, ReleaseKeeps, FollowsCalm
<1>9. Calm(w, v)
  BY <1>2 DEF Calm, HereIn
<1> QED BY <1>4, <1>8, <1>9, CalmBoth

-----------------------------------------------------------------------------
(* removeCreature.                                                         *)

LEMMA RetinueIn ==
    ASSUME NEW w \in Worlds, NEW c \in Creatures
    PROVE  Retinue(w, c) \subseteq Creatures
<1> DEFINE N == Cardinality(Creatures)
           V == SUBSET Creatures
           step == [x \in V \X (1..N) |-> x[1] \cup UNION {w.summons[d] : d \in x[1]}]
           f == CHOOSE f : f = [n \in 0..N |-> IF n = 0 THEN {c}
                                  ELSE LET r == f[n - 1] IN r \cup UNION {w.summons[d] : d \in r}]
<1>1. N \in Nat
  BY CreaturesAssumption, FS_CardinalityType
<1>2. {c} \in V
  OBVIOUS
<1>3. \A r \in V : r \cup UNION {w.summons[d] : d \in r} \in V
  BY DEF Worlds
<1> HIDE DEF N, V
<1>4. IsStep(step, N, V)
  BY <1>3 DEF IsStep
<1>5. PICK h : IsTurns(h, N, V, {c}, step)
  BY <1>1, <1>2, <1>4, TurnsExist
<1>6. h \in [0..N -> V] /\ h[0] = {c} /\ \A n \in 1..N : h[n] = h[n - 1] \cup UNION {w.summons[d] : d \in h[n - 1]}
  <2>1. h \in [0..N -> V] /\ h[0] = {c} /\ \A n \in 1..N : h[n] = step[<<h[n - 1], n>>]
    BY <1>5 DEF IsTurns
  <2>2. \A n \in 1..N : n - 1 \in 0..N
    BY <1>1
  <2> QED BY <2>1, <2>2
<1>7. h = [n \in 0..N |-> IF n = 0 THEN {c}
                           ELSE LET r == h[n - 1] IN r \cup UNION {w.summons[d] : d \in r}]
  <2>1. \A n \in 0..N : n # 0 => n \in 1..N
    BY <1>1
  <2> QED BY <1>6, <2>1
<1>8. f = [n \in 0..N |-> IF n = 0 THEN {c}
                           ELSE LET r == f[n - 1] IN r \cup UNION {w.summons[d] : d \in r}]
  BY <1>7
<1>9. Retinue(w, c) = f[N]
  BY DEF Retinue, N
<1> HIDE DEF f
<1>10. GoAlong(f, h, N)
  <2>1. 0 \in 0..N /\ \A n \in 1..N : n \in 0..N /\ n # 0
    BY <1>1
  <2>2. f[0] = h[0]
    BY <1>7, <1>8, <2>1
  <2>3. ASSUME NEW n \in 1..N, f[n - 1] = h[n - 1] PROVE f[n] = h[n]
    BY <1>6, <1>8, <2>1, <2>3
  <2> QED BY <2>2, <2>3 DEF GoAlong
<1>11. f[N] = h[N]
  BY <1>1, <1>10, TurnsAgree
<1>12. h[N] \in V
  BY <1>1, <1>6
<1> QED BY <1>9, <1>11, <1>12 DEF V

UncheckedAll(w, S) == FoldSet(LAMBDA d, v : RemoveCheck(v, d), w, S)

LEMMA UncheckedAllKeeps ==
    ASSUME NEW w, WorldFine(w, {}), NEW S \in SUBSET Creatures
    PROVE  /\ WorldFine(UncheckedAll(w, S), {}) /\ OnlyVectorsDiffer(w, UncheckedAll(w, S))
           /\ \A d \in S : UncheckedAll(w, S).vectorOf[d] = 0
<1> DEFINE V == {v \in Worlds : WorldFine(v, {}) /\ OnlyVectorsDiffer(w, v)}
           step == [x \in S \X V |-> RemoveCheck(x[2], x[1])]
           W == [s \in SUBSET S |-> {v \in V : \A d \in s : v.vectorOf[d] = 0}]
           g == CHOOSE g : g = [s \in SUBSET S |-> IF s = {} THEN w
                                 ELSE LET x == CHOOSE x \in s : TRUE IN RemoveCheck(g[s \ {x}], x)]
<1>1. IsFiniteSet(S)
  BY CreaturesAssumption, FS_Subset
<1>2. w \in V
  BY DEF WorldFine, OnlyVectorsDiffer
<1>3. ASSUME NEW v \in V, NEW d \in S
      PROVE  /\ RemoveCheck(v, d) \in V /\ RemoveCheck(v, d).vectorOf[d] = 0
             /\ \A e \in Creatures : v.vectorOf[e] = 0 => RemoveCheck(v, d).vectorOf[e] = 0
  <2>1. /\ WorldFine(RemoveCheck(v, d), {}) /\ OnlyVectorsDiffer(v, RemoveCheck(v, d))
        /\ RemoveCheck(v, d).vectorOf[d] = 0
        /\ \A e \in Creatures : v.vectorOf[e] = 0 => RemoveCheck(v, d).vectorOf[e] = 0
    BY RemoveCheckKeeps
  <2>2. OnlyVectorsDiffer(w, RemoveCheck(v, d))
    BY <2>1 DEF OnlyVectorsDiffer
  <2> QED BY <2>1, <2>2 DEF WorldFine
<1> HIDE DEF V
<1>4. w \in W[{}]
  BY <1>2
<1>5. ASSUME NEW s \in SUBSET S, s # {}, NEW v \in W[s \ {Picked(s)}]
      PROVE  step[<<Picked(s), v>>] \in W[s]
  <2>1. Picked(s) \in s
    BY <1>5 DEF Picked
  <2>2. v \in V /\ \A d \in s \ {Picked(s)} : v.vectorOf[d] = 0
    OBVIOUS
  <2>3. step[<<Picked(s), v>>] = RemoveCheck(v, Picked(s))
    BY <2>1, <2>2
  <2> QED BY <1>3, <2>1, <2>2, <2>3
<1> HIDE DEF W
<1>6. PICK h : IsFold(h, S, w, step)
  BY <1>1, FoldExists
<1>7. \A s \in SUBSET S : h[s] \in W[s]
  BY <1>1, <1>4, <1>5, <1>6, FoldRuns
<1>8. h = [s \in SUBSET S |-> IF s = {} THEN w
            ELSE LET x == CHOOSE x \in s : TRUE IN RemoveCheck(h[s \ {x}], x)]
  <2>1. h = [s \in SUBSET S |-> IF s = {} THEN w ELSE step[<<Picked(s), h[s \ {Picked(s)}]>>]]
    BY <1>6 DEF IsFold
  <2>2. ASSUME NEW s \in SUBSET S, s # {}
        PROVE  step[<<Picked(s), h[s \ {Picked(s)}]>>] = RemoveCheck(h[s \ {Picked(s)}], Picked(s))
    <3>1. Picked(s) \in S /\ s \ {Picked(s)} \in SUBSET S
      BY <2>2 DEF Picked
    <3>2. h[s \ {Picked(s)}] \in V
      BY <1>7, <3>1 DEF W
    <3> QED BY <3>1, <3>2
  <2> HIDE DEF step
  <2> QED BY <2>1, <2>2 DEF Picked
<1>9. g = [s \in SUBSET S |-> IF s = {} THEN w
            ELSE LET x == CHOOSE x \in s : TRUE IN RemoveCheck(g[s \ {x}], x)]
  BY <1>8
<1>10. UncheckedAll(w, S) = g[S]
  BY DEF UncheckedAll, FoldSet, MapThenFoldSet
<1> HIDE DEF g, step
<1>11. g[{}] = h[{}]
  BY <1>8, <1>9
<1>12. \A s \in SUBSET S : s # {} /\ g[s \ {Picked(s)}] = h[s \ {Picked(s)}] => g[s] = h[s]
  BY <1>8, <1>9 DEF Picked
<1>13. g[S] = h[S]
  BY <1>1, <1>11, <1>12, LoopsAgree
<1>14. h[S] \in W[S]
  BY <1>7
<1> QED BY <1>10, <1>13, <1>14 DEF W, V

LEMMA RemoveCreatureKeeps ==
    ASSUME NEW w, WorldFine(w, {}), NEW c \in Creatures
    PROVE  WorldFine(RemoveCreature(w, c), {}) /\ Calm(w, RemoveCreature(w, c))
<1> DEFINE S == {d \in Retinue(w, c) : w.state[d] = "placed"}
           u == UncheckedAll(w, S)
           v == [u EXCEPT !.state = Of(S, "removed", @), !.toRelease = @ \cup S,
                          !.kind = Of(S, "monster", @), !.healthy = Of(S, TRUE, @),
                          !.hasSpawn = Of(S, FALSE, @),
                          !.checkEvent = @ \/ \E d \in S : w.hasSpawn[d]]
<1>1. w \in Worlds
  BY DEF WorldFine
<1>2. S \subseteq Creatures /\ \A d \in S : w.state[d] = "placed"
  BY <1>1, RetinueIn
<1>3. RemoveCreature(w, c) = RemoveSummon(v, w.master[c], c)
  BY DEF RemoveCreature, UncheckedAll
<1> HIDE DEF S
<1>4. WorldFine(u, {}) /\ OnlyVectorsDiffer(w, u) /\ \A d \in S : u.vectorOf[d] = 0
  BY <1>2, UncheckedAllKeeps
<1>5. u \in Worlds
  BY <1>4 DEF WorldFine
<1> HIDE DEF u
<1>6. /\ v.state = [d \in Creatures |-> IF d \in S THEN "removed" ELSE u.state[d]]
      /\ v.toRelease = u.toRelease \cup S
      /\ v.hasSpawn = [d \in Creatures |-> IF d \in S THEN FALSE ELSE u.hasSpawn[d]]
      /\ v.uses = u.uses /\ v.master = u.master /\ v.summons = u.summons
      /\ v.vectorOf = u.vectorOf /\ v.vectors = u.vectors /\ v.spawned = u.spawned
      /\ v.checkEvent = (u.checkEvent \/ \E d \in S : w.hasSpawn[d])
  BY <1>5 DEF Worlds, Of
<1>7. v \in Worlds
  BY <1>2, <1>5 DEF Worlds, Of
<1> HIDE DEF v
<1>8. \A d \in S : u.state[d] = "placed" /\ (u.hasSpawn[d] <=> d \in Homes(u)) /\ u.hasSpawn[d] = w.hasSpawn[d]
  BY <1>2, <1>4 DEF OnlyVectorsDiffer, WorldFine, SpawnKnows
<1>9. UsesCounted(v, {})
  <2>1. ASSUME NEW d \in Creatures, v.state[d] # "free"
        PROVE  v.uses[d] = HeldUses(v, d) + OneIf(d \in {})
    <3>1. u.state[d] # "free"
      BY <1>6, <1>8, <2>1
    <3>2. u.uses[d] = HeldUses(u, d) + OneIf(d \in {})
      BY <1>4, <3>1 DEF WorldFine, UsesCounted
    <3>3. (d \in Homes(v) <=> d \in Homes(u)) /\ v.uses[d] = u.uses[d] /\ v.master[d] = u.master[d]
      BY <1>6 DEF Homes
    <3>4. (v.state[d] = "placed" \/ d \in v.toRelease) <=> (u.state[d] = "placed" \/ d \in u.toRelease)
      BY <1>6, <1>8
    <3> QED BY <3>2, <3>3, <3>4 DEF HeldUses, OneIf
  <2> QED BY <2>1 DEF UsesCounted
<1>10. MastersKnow(v) /\ OneEntryEach(v)
  BY <1>4, <1>6 DEF WorldFine, MastersKnow, OneEntryEach
<1>11. FreeIsForgotten(v)
  <2>1. ASSUME NEW d \in Creatures, v.state[d] = "free"
        PROVE  d \notin Homes(v) /\ d \notin v.toRelease /\ v.master[d] = NoMaster
               /\ v.summons[d] = {} /\ v.uses[d] = 0
    <3>1. d \notin S /\ u.state[d] = "free"
      BY <1>6, <2>1
    <3> QED BY <1>4, <1>6, <3>1 DEF WorldFine, FreeIsForgotten, Homes
  <2> QED BY <2>1 DEF FreeIsForgotten
<1>12. ReleasedIsRemoved(v)
  <2>1. ASSUME NEW d \in v.toRelease PROVE v.state[d] = "removed"
    <3>1. d \in Creatures
      BY <1>7 DEF Worlds
    <3> QED BY <1>4, <1>6, <3>1 DEF WorldFine, ReleasedIsRemoved
  <2> QED BY <2>1 DEF ReleasedIsRemoved
<1>13. SpawnKnows(v)
  <2>1. ASSUME NEW d \in Creatures PROVE v.hasSpawn[d] <=> v.state[d] = "placed" /\ d \in Homes(v)
    <3>1. u.hasSpawn[d] <=> u.state[d] = "placed" /\ d \in Homes(u)
      BY <1>4 DEF WorldFine, SpawnKnows
    <3>2. Homes(v) = Homes(u)
      BY <1>6 DEF Homes
    <3> QED BY <1>6, <3>1, <3>2
  <2> QED BY <2>1 DEF SpawnKnows
<1>14. VectorsKnow(v)
  <2>1. \A d \in Creatures : v.vectorOf[d] # 0 => d \notin S
    BY <1>4, <1>6
  <2> QED BY <1>4, <1>6, <2>1 DEF WorldFine, VectorsKnow
<1>15. WorldFine(v, {})
  BY <1>7, <1>9, <1>10, <1>11, <1>12, <1>13, <1>14 DEF WorldFine
<1>16. Calm(w, v)
  <2>1. (w.checkEvent => v.checkEvent)
    BY <1>4, <1>6 DEF OnlyVectorsDiffer
  <2>2. ASSUME ~v.checkEvent PROVE HereIn(v) = HereIn(w)
    <3>1. \A d \in S : d \notin Homes(u)
      BY <1>6, <1>8, <2>2
    <3>2. \A e \in u.spawned : e[2] \in Creatures /\ e[2] \notin S
      BY <1>5, <3>1 DEF Worlds, Homes
    <3> QED BY <1>4, <1>6, <3>2 DEF HereIn, OnlyVectorsDiffer
  <2> QED BY <2>1, <2>2 DEF Calm
<1>17. w.master[c] \in Creatures \cup {NoMaster}
  BY <1>1 DEF Worlds
<1>18. WorldFine(RemoveSummon(v, w.master[c], c), {}) /\ Calm(v, RemoveSummon(v, w.master[c], c))
  BY <1>7, <1>15, <1>17, RemoveSummonKeeps, FollowsCalm
<1> QED BY <1>3, <1>16, <1>18, CalmBoth

-----------------------------------------------------------------------------
(* checkSpawn.                                                             *)

EntriesHere(w) == \A e \in w.spawned : w.state[e[2]] = "placed"

LEMMA CheckEventKeeps ==
    ASSUME NEW w, WorldFine(w, {}), NEW b \in BOOLEAN
    PROVE  /\ WorldFine([w EXCEPT !.checkEvent = b], {})
           /\ [w EXCEPT !.checkEvent = b].spawned = w.spawned
           /\ [w EXCEPT !.checkEvent = b].state = w.state
           /\ [w EXCEPT !.checkEvent = b].checkEvent = b
<1> DEFINE v == [w EXCEPT !.checkEvent = b]
<1>1. w \in Worlds
  BY DEF WorldFine
<1>2. /\ v \in Worlds
      /\ v.kind = w.kind /\ v.vectorOf = w.vectorOf /\ v.uses = w.uses /\ v.healthy = w.healthy
      /\ v.hasSpawn = w.hasSpawn /\ v.state = w.state /\ v.master = w.master /\ v.summons = w.summons
      /\ v.vectors = w.vectors /\ v.toRelease = w.toRelease /\ v.spawned = w.spawned
      /\ v.checkEvent = b
  BY <1>1 DEF Worlds
<1> HIDE DEF v
<1>3. UsesCounted(v, {})
  <2>1. \A c \in Creatures : HeldUses(v, c) = HeldUses(w, c)
    BY <1>2 DEF HeldUses, Homes
  <2> QED BY <1>2, <2>1 DEF WorldFine, UsesCounted
<1>4. /\ MastersKnow(v) /\ FreeIsForgotten(v) /\ ReleasedIsRemoved(v)
      /\ SpawnKnows(v) /\ OneEntryEach(v) /\ VectorsKnow(v)
  BY <1>2 DEF WorldFine, MastersKnow, FreeIsForgotten, ReleasedIsRemoved, SpawnKnows,
     OneEntryEach, VectorsKnow, Homes
<1> QED BY <1>2, <1>3, <1>4 DEF WorldFine, v

LEMMA SweptKeeps ==
    ASSUME NEW w, WorldFine(w, {}), NEW strays
    PROVE  WorldFine(Swept(w, strays), {}) /\ EntriesHere(Swept(w, strays))
<1> DEFINE gone == {e \in w.spawned : w.state[e[2]] = "removed"}
           kept == w.spawned \ gone
           left == {IF e[2] \in strays THEN <<0, e[2]>> ELSE e : e \in kept}
           S == {e[2] : e \in gone}
           v == [w EXCEPT !.spawned = left]
<1>1. w \in Worlds /\ OneEntryEach(w)
  BY DEF WorldFine
<1>2. Swept(w, strays) = Release(v, S)
  BY DEF Swept
<1>3. \A e \in w.spawned : e \in (Slots \cup {0}) \X Creatures /\ e[2] \in Creatures
  BY <1>1 DEF Worlds
<1>4. left \in SUBSET ((Slots \cup {0}) \X Creatures)
  <2>1. ASSUME NEW e \in kept
        PROVE  (IF e[2] \in strays THEN <<0, e[2]>> ELSE e) \in (Slots \cup {0}) \X Creatures
    BY <1>3
  <2> QED BY <2>1
<1>5. /\ v.kind = w.kind /\ v.vectorOf = w.vectorOf /\ v.uses = w.uses /\ v.healthy = w.healthy
      /\ v.hasSpawn = w.hasSpawn /\ v.state = w.state /\ v.master = w.master /\ v.summons = w.summons
      /\ v.vectors = w.vectors /\ v.toRelease = w.toRelease /\ v.spawned = left
      /\ v.checkEvent = w.checkEvent
  BY <1>1 DEF Worlds
<1>6. v \in Worlds
  BY <1>1, <1>4 DEF Worlds
<1>7. \A f \in left : \E e \in kept : f[2] = e[2] /\ f = (IF e[2] \in strays THEN <<0, e[2]>> ELSE e)
  <2>1. ASSUME NEW e \in kept PROVE (IF e[2] \in strays THEN <<0, e[2]>> ELSE e)[2] = e[2]
    OBVIOUS
  <2> QED BY <2>1
<1>8. \A e \in kept : \E f \in left : f[2] = e[2]
  <2>1. ASSUME NEW e \in kept PROVE \E f \in left : f[2] = e[2]
    <3>1. (IF e[2] \in strays THEN <<0, e[2]>> ELSE e) \in left
      OBVIOUS
    <3>2. (IF e[2] \in strays THEN <<0, e[2]>> ELSE e)[2] = e[2]
      OBVIOUS
    <3> QED BY <3>1, <3>2
  <2> QED BY <2>1
<1>9. S \subseteq Creatures /\ \A c \in S : w.state[c] = "removed" /\ c \in Homes(w)
  BY <1>3 DEF Homes
<1>10. \A c : c \in Homes(v) <=> c \in Homes(w) /\ c \notin S
  <2> HIDE DEF v, left
  <2>1. \A c : c \in Homes(v) <=> \E e \in left : e[2] = c
    BY <1>5 DEF Homes
  <2>2. \A c : c \in Homes(w) <=> \E e \in w.spawned : e[2] = c
    BY DEF Homes
  <2>3. \A c : c \in S <=> \E e \in gone : e[2] = c
    OBVIOUS
  <2>4. ASSUME NEW c, c \in Homes(v) PROVE c \in Homes(w) /\ c \notin S
    <3>1. PICK f \in left : f[2] = c
      BY <2>1, <2>4
    <3>2. PICK e \in kept : e[2] = c
      BY <1>7, <3>1
    <3>3. e \in w.spawned /\ w.state[c] # "removed"
      BY <3>2
    <3> QED BY <1>9, <2>2, <3>2, <3>3
  <2>5. ASSUME NEW c, c \in Homes(w), c \notin S PROVE c \in Homes(v)
    <3>1. PICK e \in w.spawned : e[2] = c
      BY <2>2, <2>5
    <3>2. e \in kept
      BY <2>3, <2>5, <3>1
    <3> QED BY <1>8, <2>1, <3>1, <3>2
  <2> QED BY <2>4, <2>5
<1>11. OneEntryEach(v)
  <2>1. ASSUME NEW f \in v.spawned, NEW g \in v.spawned, f[2] = g[2] PROVE f = g
    <3> HIDE DEF left, kept, v
    <3>1. PICK e \in kept : f[2] = e[2] /\ f = (IF e[2] \in strays THEN <<0, e[2]>> ELSE e)
      BY <1>5, <1>7
    <3>2. PICK d \in kept : g[2] = d[2] /\ g = (IF d[2] \in strays THEN <<0, d[2]>> ELSE d)
      BY <1>5, <1>7
    <3>3. d = e
      BY <1>1, <2>1, <3>1, <3>2 DEF OneEntryEach, kept
    <3> QED BY <3>1, <3>2, <3>3
  <2> QED BY <2>1 DEF OneEntryEach
<1>12. \A e \in left : w.state[e[2]] = "placed"
  <2>1. ASSUME NEW f \in left PROVE w.state[f[2]] = "placed"
    <3>1. PICK e \in kept : f[2] = e[2]
      BY <1>7
    <3>2. e \in w.spawned /\ e[2] \in Creatures /\ e[2] \in Homes(w) /\ w.state[e[2]] # "removed"
      BY <1>3 DEF Homes
    <3>3. w.state[e[2]] # "free"
      BY <3>2 DEF WorldFine, FreeIsForgotten
    <3> QED BY <1>1, <3>1, <3>2, <3>3 DEF Worlds
  <2> QED BY <2>1
<1> HIDE DEF gone, kept, left, S, v
<1>13. UsesCounted(v, S)
  <2>1. ASSUME NEW c \in Creatures, v.state[c] # "free"
        PROVE  v.uses[c] = HeldUses(v, c) + OneIf(c \in S)
    <3>1. w.uses[c] = HeldUses(w, c) + OneIf(c \in {})
      BY <1>5, <2>1 DEF WorldFine, UsesCounted
    <3>2. (c \in Homes(v) <=> c \in Homes(w) /\ c \notin S) /\ (c \in S => c \in Homes(w))
      BY <1>9, <1>10
    <3> QED BY <1>5, <3>1, <3>2 DEF HeldUses, OneIf
  <2> QED BY <2>1 DEF UsesCounted
<1>14. MastersKnow(v) /\ VectorsKnow(v) /\ ReleasedIsRemoved(v)
  BY <1>5 DEF WorldFine, MastersKnow, VectorsKnow, ReleasedIsRemoved
<1>15. FreeIsForgotten(v)
  BY <1>5, <1>10 DEF WorldFine, FreeIsForgotten
<1>16. SpawnKnows(v)
  <2>1. ASSUME NEW c \in Creatures PROVE v.hasSpawn[c] <=> v.state[c] = "placed" /\ c \in Homes(v)
    <3>1. w.hasSpawn[c] <=> w.state[c] = "placed" /\ c \in Homes(w)
      BY DEF WorldFine, SpawnKnows
    <3> QED BY <1>5, <1>9, <1>10, <3>1
  <2> QED BY <2>1 DEF SpawnKnows
<1>17. WorldFine(v, S)
  BY <1>5, <1>6, <1>9, <1>11, <1>13, <1>14, <1>15, <1>16 DEF WorldFine
<1>18. WorldFine(Release(v, S), {}) /\ Follows(v, Release(v, S))
  BY <1>17, ReleaseKeeps
<1>19. EntriesHere(Release(v, S))
  <2>1. \A e \in left : e[2] \in Creatures
    BY <1>4
  <2> QED BY <1>5, <1>12, <1>18, <2>1 DEF Follows, EntriesHere
<1> QED BY <1>2, <1>18, <1>19

LEMMA LeastIn ==
    ASSUME NEW T \in SUBSET Nat, T # {}
    PROVE  Min(T) \in T
<1> DEFINE Bad == {n \in Nat : \E m \in T : m <= n /\ ~ \E x \in T : \A y \in T : x <= y}
<1>1. 0 \notin Bad
  <2>1. ASSUME 0 \in T PROVE \E x \in T : \A y \in T : x <= y
    BY <2>1
  <2>2. \A m \in T : m <= 0 => m = 0
    OBVIOUS
  <2> QED BY <2>1, <2>2
<1>2. ASSUME NEW n \in Nat, n + 1 \in Bad PROVE n \in Bad
  <2>1. PICK m \in T : m <= n + 1
    BY <1>2
  <2>2. ~ \E x \in T : \A y \in T : x <= y
    BY <1>2
  <2>3. PICK y \in T : ~(m <= y)
    BY <2>2
  <2>4. y <= n
    BY <2>1, <2>3
  <2> QED BY <2>2, <2>4
<1>3. Bad = {}
  BY <1>1, <1>2, NoLeast
<1>4. PICK m \in T : TRUE
  OBVIOUS
<1>5. \E x \in T : \A y \in T : x <= y
  BY <1>3, <1>4
<1> QED BY <1>5 DEF Min

\* What is so after each block of checkSpawn: room for the attempts that are left.
Rounds ==
    {r \in [w : Worlds, tries : Nat] :
        /\ WorldFine(r.w, {}) /\ EntriesHere(r.w)
        /\ r.tries <= RateSpawn /\ RateSpawn <= r.tries + Cardinality(FreeIn(r.w))}

LEMMA FreeInIs ==
    ASSUME NEW w
    PROVE  /\ IsFiniteSet(FreeIn(w)) /\ Cardinality(FreeIn(w)) \in Nat
           /\ FreeIn(w) \subseteq Creatures
<1>1. FreeIn(w) \subseteq Creatures
  BY DEF FreeIn
<1>2. IsFiniteSet(FreeIn(w))
  BY <1>1, CreaturesAssumption, FS_Subset
<1> QED BY <1>1, <1>2, FS_CardinalityType

LEMMA TryBlockKeeps ==
    ASSUME lastIndex \in 1 .. Vectors, NEW r \in Rounds, NEW s \in Slots, NEW ready, NEW failed
    PROVE  TryBlock(r, s, ready, failed) \in Rounds
<1>1. /\ r.w \in Worlds /\ r.tries \in Nat /\ WorldFine(r.w, {}) /\ EntriesHere(r.w)
      /\ r.tries <= RateSpawn /\ RateSpawn <= r.tries + Cardinality(FreeIn(r.w))
      /\ r \in [w : Worlds, tries : Nat] /\ RateSpawn \in Nat
  BY CreaturesAssumption DEF Rounds
<1>2. CASE s \in Filled(r.w) \/ s \notin ready \/ r.tries = RateSpawn
  BY <1>2 DEF TryBlock
<1>3. CASE ~(s \in Filled(r.w) \/ s \notin ready \/ r.tries = RateSpawn) /\ s \in failed
  <2>1. TryBlock(r, s, ready, failed) = [r EXCEPT !.tries = @ + 1]
    BY <1>3 DEF TryBlock
  <2> DEFINE t == [r EXCEPT !.tries = @ + 1]
  <2>2. t \in [w : Worlds, tries : Nat] /\ t.w = r.w /\ t.tries = r.tries + 1
    BY <1>1
  <2>3. Cardinality(FreeIn(r.w)) \in Nat
    BY FreeInIs
  <2> HIDE DEF t
  <2>4. t.tries <= RateSpawn /\ RateSpawn <= t.tries + Cardinality(FreeIn(t.w))
    BY <1>1, <1>3, <2>2, <2>3
  <2> QED BY <1>1, <2>1, <2>2, <2>4 DEF Rounds, t
<1>4. CASE ~(s \in Filled(r.w) \/ s \notin ready \/ r.tries = RateSpawn) /\ s \notin failed
  <2> DEFINE c == Min(FreeIn(r.w))
             u == SpawnMonster(r.w, s, c)
             v == AddCheck(u, c)
             t == [w |-> v, tries |-> r.tries + 1]
  <2>1. TryBlock(r, s, ready, failed) = t
    BY <1>4 DEF TryBlock
  <2>2. IsFiniteSet(FreeIn(r.w)) /\ Cardinality(FreeIn(r.w)) \in Nat
        /\ FreeIn(r.w) \subseteq Creatures /\ FreeIn(r.w) \in SUBSET Nat
    BY FreeInIs, CreaturesAssumption
  <2>3. FreeIn(r.w) # {}
    <3>1. Cardinality(FreeIn(r.w)) # 0
      BY <1>1, <1>4, <2>2
    <3> QED BY <3>1, FS_EmptySet
  <2>4. c \in FreeIn(r.w)
    BY <2>2, <2>3, LeastIn
  <2> HIDE DEF c
  <2>5. c \in Creatures /\ r.w.state[c] = "free"
    BY <2>4 DEF FreeIn
  <2>6. /\ WorldFine(u, {}) /\ u.spawned = r.w.spawned \cup {<<s, c>>}
        /\ \A d \in Creatures : u.state[d] = IF d = c THEN "placed" ELSE r.w.state[d]
    BY <1>1, <2>5, SpawnMonsterKeeps
  <2> HIDE DEF u
  <2>7. WorldFine(v, {}) /\ OnlyVectorsDiffer(u, v)
    BY <2>5, <2>6, AddCheckKeeps
  <2> HIDE DEF v
  <2>8. v.state = u.state /\ v.spawned = u.spawned
    BY <2>7 DEF OnlyVectorsDiffer
  <2>9. EntriesHere(v)
    <3>1. \A e \in r.w.spawned : e[2] \in Creatures /\ r.w.state[e[2]] = "placed"
      BY <1>1 DEF EntriesHere, Worlds
    <3>2. <<s, c>>[2] = c
      OBVIOUS
    <3> QED BY <2>5, <2>6, <2>8, <3>1, <3>2 DEF EntriesHere
  <2>10. FreeIn(v) = FreeIn(r.w) \ {c}
    BY <2>4, <2>6, <2>8 DEF FreeIn
  <2>11. Cardinality(FreeIn(v)) = Cardinality(FreeIn(r.w)) - 1
    <3>1. PICK T : T = FreeIn(r.w)
      OBVIOUS
    <3>2. IsFiniteSet(T) /\ c \in T
      BY <2>2, <2>4, <3>1
    <3>3. Cardinality(T \ {c}) = Cardinality(T) - 1
      BY ONLY <3>2, FS_RemoveElement
    <3> QED BY <2>10, <3>1, <3>3
  <2>12. t.w = v /\ t.tries = r.tries + 1 /\ t \in [w : Worlds, tries : Nat]
    BY <1>1, <2>7 DEF WorldFine
  <2> HIDE DEF t
  <2>13. t.tries <= RateSpawn /\ RateSpawn <= t.tries + Cardinality(FreeIn(t.w))
    BY <1>1, <1>4, <2>2, <2>11, <2>12
  <2> QED BY <2>1, <2>7, <2>9, <2>12, <2>13 DEF Rounds
<1> QED BY <1>2, <1>3, <1>4

LEMMA RespawnedKeeps ==
    ASSUME lastIndex \in 1 .. Vectors, NEW w, WorldFine(w, {}), EntriesHere(w),
           Cardinality(FreeIn(w)) >= RateSpawn, NEW ready, NEW failed
    PROVE  WorldFine(Respawned(w, ready, failed), {}) /\ EntriesHere(Respawned(w, ready, failed))
<1> DEFINE base == [w |-> w, tries |-> 0]
           step == [x \in Rounds \X (1..Blocks) |-> TryBlock(x[1], x[2], ready, failed)]
           f == CHOOSE f : f = [s \in 0..Blocks |-> IF s = 0 THEN [w |-> w, tries |-> 0]
                                  ELSE LET r == f[s - 1] IN TryBlock(r, s, ready, failed)]
<1>1. Blocks \in Nat /\ RateSpawn \in Nat /\ Cardinality(FreeIn(w)) \in Nat
  BY CreaturesAssumption, FreeInIs
<1>2. base \in Rounds
  <2>1. base.w = w /\ base.tries = 0 /\ base \in [w : Worlds, tries : Nat]
    BY DEF WorldFine
  <2> HIDE DEF base
  <2>2. base.tries <= RateSpawn /\ RateSpawn <= base.tries + Cardinality(FreeIn(base.w))
    BY <1>1, <2>1
  <2> QED BY <2>1, <2>2 DEF Rounds
<1>3. \A r \in Rounds, s \in 1..Blocks : TryBlock(r, s, ready, failed) \in Rounds
  BY TryBlockKeeps DEF Slots
<1>4. IsStep(step, Blocks, Rounds)
  BY <1>3 DEF IsStep
<1>5. PICK h : IsTurns(h, Blocks, Rounds, base, step)
  BY <1>1, <1>2, <1>4, TurnsExist
<1>6. h \in [0..Blocks -> Rounds] /\ h[0] = base
      /\ \A s \in 1..Blocks : h[s] = TryBlock(h[s - 1], s, ready, failed)
  <2>1. h \in [0..Blocks -> Rounds] /\ h[0] = base /\ \A s \in 1..Blocks : h[s] = step[<<h[s - 1], s>>]
    BY <1>5 DEF IsTurns
  <2>2. \A s \in 1..Blocks : s - 1 \in 0..Blocks
    BY <1>1
  <2> QED BY <2>1, <2>2
<1>7. h = [s \in 0..Blocks |-> IF s = 0 THEN [w |-> w, tries |-> 0]
                  ELSE LET r == h[s - 1] IN TryBlock(r, s, ready, failed)]
  <2>1. \A s \in 0..Blocks : s # 0 => s \in 1..Blocks
    BY <1>1
  <2> QED BY <1>6, <2>1
<1>8. f = [s \in 0..Blocks |-> IF s = 0 THEN [w |-> w, tries |-> 0]
                  ELSE LET r == f[s - 1] IN TryBlock(r, s, ready, failed)]
  BY <1>7
<1>9. Respawned(w, ready, failed) = f[Blocks].w
  BY DEF Respawned
<1> HIDE DEF f
<1>10. GoAlong(f, h, Blocks)
  <2>1. 0 \in 0..Blocks /\ \A s \in 1..Blocks : s \in 0..Blocks /\ s # 0
    BY <1>1
  <2>2. f[0] = h[0]
    BY <1>7, <1>8, <2>1
  <2>3. ASSUME NEW s \in 1..Blocks, f[s - 1] = h[s - 1] PROVE f[s] = h[s]
    BY <1>6, <1>8, <2>1, <2>3
  <2> QED BY <2>2, <2>3 DEF GoAlong
<1>11. f[Blocks] = h[Blocks]
  BY <1>1, <1>10, TurnsAgree
<1>12. h[Blocks] \in Rounds
  BY <1>1, <1>6
<1> QED BY <1>9, <1>11, <1>12 DEF Rounds

-----------------------------------------------------------------------------
(* The steps.                                                              *)

SpawnSeen == Cardinality(HereIn(World)) < Blocks => checkEvent \/ unwatched

\* The inductive invariant.
CreaturesInv ==
    /\ WorldFine(World, {})
    /\ lastIndex \in 1 .. Vectors /\ position \in Nat /\ deaths \subseteq Creatures
    /\ unwatched \in BOOLEAN /\ SpawnSeen

LEMMA WorldSet ==
    ASSUME NEW w \in Worlds, SetWorld(w)
    PROVE  World' = w
BY DEF SetWorld, World, Worlds

\* A step that leaves a fine world, in which no entry of the spawn was lost unheard.
LEMMA WorldStep ==
    ASSUME CreaturesInv, NEW w, WorldFine(w, {}), SetWorld(w),
           unwatched' \in BOOLEAN, unwatched => unwatched', unwatched' \/ Calm(World, w),
           lastIndex' \in 1 .. Vectors, position' \in Nat, deaths' \subseteq Creatures
    PROVE  CreaturesInv'
<1>1. World' = w
  BY WorldSet DEF WorldFine
<1>2. WorldFine(World, {})'
  BY <1>1
<1>3. World.checkEvent = checkEvent /\ checkEvent' = w.checkEvent
  BY DEF World, SetWorld
<1>4. SpawnSeen'
  <2>1. HereIn(World)' = HereIn(w)
    BY <1>1
  <2>2. CASE ~unwatched' /\ ~checkEvent'
    <3>1. HereIn(w) = HereIn(World) /\ ~checkEvent
      BY <1>3, <2>2 DEF Calm
    <3> QED BY <2>1, <2>2, <3>1 DEF CreaturesInv, SpawnSeen
  <2> QED BY <2>2 DEF SpawnSeen
<1> QED BY <1>2, <1>4 DEF CreaturesInv

LEMMA CreaturesStart == CreaturesInit => CreaturesInv
<1> SUFFICES ASSUME CreaturesInit PROVE CreaturesInv
  OBVIOUS
<1>1. PICK placed \in SUBSET Slots :
        LET home == [c \in Creatures |-> c \in placed]
        IN /\ placed \subseteq Creatures
           /\ state = [c \in Creatures |-> IF home[c] THEN "placed" ELSE "free"]
           /\ kind = [c \in Creatures |-> "monster"]
           /\ uses = [c \in Creatures |-> IF home[c] THEN 2 ELSE 0]
           /\ healthy = [c \in Creatures |-> TRUE]
           /\ vectorOf = [c \in Creatures |-> 0]
           /\ hasSpawn = home
           /\ master = [c \in Creatures |-> NoMaster]
           /\ summons = [c \in Creatures |-> {}]
           /\ vectors = [i \in 1 .. Vectors |-> <<>>] /\ lastIndex = 1 /\ position = 0
           /\ toRelease = {} /\ deaths = {}
           /\ spawned = {<<s, s>> : s \in placed}
           /\ checkEvent = FALSE
           /\ unwatched = (placed # Slots)
  BY DEF CreaturesInit
<1>2. /\ placed \subseteq Creatures
      /\ state = [c \in Creatures |-> IF c \in placed THEN "placed" ELSE "free"]
      /\ kind = [c \in Creatures |-> "monster"]
      /\ uses = [c \in Creatures |-> IF c \in placed THEN 2 ELSE 0]
      /\ hasSpawn = [c \in Creatures |-> c \in placed]
  BY <1>1
<1> DEFINE w == World
<1>3. /\ w.state = state /\ w.kind = kind /\ w.uses = uses /\ w.healthy = healthy
      /\ w.vectorOf = vectorOf /\ w.hasSpawn = hasSpawn /\ w.master = master
      /\ w.summons = summons /\ w.vectors = vectors /\ w.toRelease = toRelease
      /\ w.spawned = spawned /\ w.checkEvent = checkEvent
  BY DEF World
<1>4. spawned \in SUBSET ((Slots \cup {0}) \X Creatures)
  BY <1>1, <1>2
<1>5. w \in Worlds
  <2>1. [i \in 1 .. Vectors |-> <<>>] \in [1..Vectors -> Seq(Creatures)]
    OBVIOUS
  <2>2. 0 \in 0 .. Vectors /\ {} \in SUBSET Creatures
    BY CreaturesAssumption
  <2>3. /\ state \in [Creatures -> {"free", "placed", "removed"}]
        /\ kind \in [Creatures -> {"monster", "player"}]
        /\ uses \in [Creatures -> Nat] /\ healthy \in [Creatures -> BOOLEAN]
        /\ hasSpawn \in [Creatures -> BOOLEAN]
    BY <1>1, <1>2
  <2>4. /\ vectorOf \in [Creatures -> 0 .. Vectors]
        /\ master \in [Creatures -> Creatures \cup {NoMaster}]
        /\ summons \in [Creatures -> SUBSET Creatures]
        /\ vectors \in [1 .. Vectors -> Seq(Creatures)]
        /\ toRelease \in SUBSET Creatures /\ checkEvent \in BOOLEAN
    BY <1>1, <2>1, <2>2
  <2> QED BY <1>4, <2>3, <2>4 DEF World, Worlds
<1> HIDE DEF w
<1>6. \A c \in Creatures : c \in Homes(w) <=> c \in placed
  <2>1. \A s \in placed : <<s, s>>[2] = s /\ <<s, s>> \in spawned
    BY <1>1
  <2>2. \A e \in spawned : e[2] \in placed
    BY <1>1
  <2> QED BY <1>3, <2>1, <2>2 DEF Homes
<1>7. UsesCounted(w, {})
  BY <1>1, <1>2, <1>3, <1>6 DEF UsesCounted, HeldUses, OneIf
<1>8. MastersKnow(w)
  BY <1>1, <1>3, CreaturesAssumption DEF MastersKnow
<1>9. FreeIsForgotten(w) /\ SpawnKnows(w) /\ ReleasedIsRemoved(w)
  BY <1>1, <1>2, <1>3, <1>6 DEF FreeIsForgotten, SpawnKnows, ReleasedIsRemoved
<1>10. OneEntryEach(w)
  BY <1>1, <1>3 DEF OneEntryEach
<1>11. VectorsKnow(w)
  BY <1>1, <1>3 DEF VectorsKnow
<1>12. WorldFine(w, {})
  BY <1>5, <1>7, <1>8, <1>9, <1>10, <1>11 DEF WorldFine
<1>13. ASSUME placed = Slots PROVE Cardinality(HereIn(w)) = Blocks
  <2>1. HereIn(w) = spawned
    BY <1>1, <1>2, <1>3 DEF HereIn
  <2> DEFINE T == {<<s, s>> : s \in Slots}
             f == [s \in Slots |-> <<s, s>>]
  <2>2. f \in Bijection(Slots, T)
    BY DEF Bijection, Injection, Surjection, IsInjective
  <2>3. ExistsBijection(Slots, T)
    BY <2>2 DEF ExistsBijection
  <2>4. IsFiniteSet(Slots) /\ Cardinality(Slots) = Blocks
    BY CreaturesAssumption, FS_Interval DEF Slots
  <2>5. Cardinality(T) = Blocks
    BY <2>3, <2>4, FS_Bijection
  <2> QED BY <1>1, <1>13, <2>1, <2>5
<1>14. SpawnSeen
  <2>1. placed = Slots \/ unwatched
    BY <1>1
  <2>2. CASE placed = Slots
    <3>1. Cardinality(HereIn(World)) = Blocks /\ Blocks \in Nat
      BY <1>13, <2>2, CreaturesAssumption DEF w
    <3> QED BY <3>1 DEF SpawnSeen
  <2> QED BY <2>1, <2>2 DEF SpawnSeen
<1>15. lastIndex \in 1 .. Vectors /\ position \in Nat /\ deaths \subseteq Creatures /\ unwatched \in BOOLEAN
  BY <1>1, CreaturesAssumption
<1> QED BY <1>12, <1>14, <1>15 DEF CreaturesInv, w

LEMMA CheckSpawnKeeps ==
    ASSUME CreaturesInv, NEW strays, NEW ready, NEW failed, CheckSpawn(strays, ready, failed)
    PROVE  CreaturesInv'
<1> DEFINE w == [World EXCEPT !.checkEvent = FALSE]
           swept == Swept(w, strays)
           vacated == {e[1] : e \in {x \in spawned : state[x[2]] = "removed"}}
           after == Respawned(swept, ready \ vacated, failed)
           v == [after EXCEPT !.checkEvent = Missing(after)]
<1>1. /\ Cardinality(FreeIn(swept)) >= RateSpawn
      /\ SetWorld(v) /\ unwatched' = FALSE /\ UNCHANGED <<lastIndex, position, deaths>>
  BY DEF CheckSpawn
<1>2. WorldFine(w, {})
  BY CheckEventKeeps DEF CreaturesInv
<1> HIDE DEF w
<1>3. WorldFine(swept, {}) /\ EntriesHere(swept)
  BY <1>2, SweptKeeps
<1> HIDE DEF swept, vacated
<1>4. WorldFine(after, {}) /\ EntriesHere(after)
  BY <1>1, <1>3, RespawnedKeeps DEF CreaturesInv
<1> HIDE DEF after
<1>5. WorldFine(v, {}) /\ v.spawned = after.spawned /\ v.state = after.state /\ v.checkEvent = Missing(after)
  <2>1. Missing(after) \in BOOLEAN
    BY DEF Missing
  <2> QED BY <1>4, <2>1, CheckEventKeeps
<1>6. v \in Worlds
  BY <1>5 DEF WorldFine
<1> HIDE DEF v
<1>7. World' = v /\ checkEvent' = v.checkEvent
  BY <1>1, <1>6, WorldSet DEF SetWorld
<1>8. HereIn(v) = v.spawned
  BY <1>4, <1>5 DEF HereIn, EntriesHere
<1>9. SpawnSeen'
  <2>1. HereIn(World)' = HereIn(v)
    BY <1>7
  <2>2. Missing(after) <=> Cardinality(v.spawned) < Blocks
    BY <1>5 DEF Missing
  <2> QED BY <1>5, <1>7, <1>8, <2>1, <2>2 DEF SpawnSeen
<1>10. WorldFine(World, {})'
  BY <1>5, <1>7
<1> QED BY <1>1, <1>9, <1>10 DEF CreaturesInv

LEMMA NewCreatureIs ==
    ASSUME Free # {}
    PROVE  Min(Free) \in Creatures /\ state[Min(Free)] = "free"
<1>1. Free \subseteq Creatures /\ Free \in SUBSET Nat
  BY FreeInIs, CreaturesAssumption DEF Free
<1>2. Min(Free) \in Free
  BY <1>1, LeastIn
<1> QED BY <1>2 DEF Free, FreeIn, World

\* A new creature c: placed, perhaps with a master, and checked.
LEMMA PlacedIsCalm ==
    ASSUME NEW w, WorldFine(w, {}), NEW c \in Creatures, w.state[c] = "free",
           NEW k \in {"monster", "player"}, NEW n \in Nat
    PROVE  Calm(w, Place(w, c, k, n))
<1>1. PlaceFacts(w, Place(w, c, k, n), c, k, n)
  BY PlaceIs
<1>2. \A e \in w.spawned : e[2] \in Creatures /\ e[2] # c
  BY DEF WorldFine, FreeIsForgotten, Homes, Worlds
<1>3. HereIn(Place(w, c, k, n)) = HereIn(w)
  BY <1>1, <1>2 DEF HereIn, PlaceFacts
<1> QED BY <1>1, <1>3 DEF Calm, PlaceFacts

LEMMA ChecksAreCalm ==
    ASSUME NEW w, NEW v, OnlyVectorsDiffer(w, v)
    PROVE  Calm(w, v)
BY DEF OnlyVectorsDiffer, Calm, HereIn

LEMMA NewOneKeeps ==
    ASSUME lastIndex \in 1 .. Vectors, NEW w, WorldFine(w, {}), NEW c \in Creatures,
           w.state[c] = "free", NEW k \in {"monster", "player"}
    PROVE  /\ WorldFine(AddCheck(Place(w, c, k, 1), c), {})
           /\ Calm(w, AddCheck(Place(w, c, k, 1), c))
<1> DEFINE u == Place(w, c, k, 1)
<1>1. PlaceFacts(w, u, c, k, 1) /\ Calm(w, u)
  BY PlaceIs, PlacedIsCalm
<1> HIDE DEF u
<1>2. WorldFine(u, {}) /\ u.state[c] = "placed"
  BY <1>1, PlaceKeeps DEF PlaceFacts
<1>3. WorldFine(AddCheck(u, c), {}) /\ Calm(u, AddCheck(u, c))
  BY <1>2, AddCheckKeeps, ChecksAreCalm
<1>4. Calm(w, AddCheck(u, c))
  BY <1>1, <1>3, CalmBoth
<1> QED BY <1>3, <1>4 DEF u

LEMMA NewSummonKeeps ==
    ASSUME lastIndex \in 1 .. Vectors, NEW w, WorldFine(w, {}), NEW c \in Creatures,
           w.state[c] = "free", NEW m \in Creatures, w.state[m] = "placed"
    PROVE  /\ WorldFine(AddCheck(AddSummon(Place(w, c, "monster", 1), m, c), c), {})
           /\ Calm(w, AddCheck(AddSummon(Place(w, c, "monster", 1), m, c), c))
<1> DEFINE u == Place(w, c, "monster", 1)
           v == AddSummon(u, m, c)
<1>1. PlaceFacts(w, u, c, "monster", 1) /\ Calm(w, u)
  BY PlaceIs, PlacedIsCalm
<1> HIDE DEF u
<1>2. /\ WorldFine(u, {}) /\ u.state[c] = "placed" /\ u.state[m] = "placed"
      /\ u.master[c] = NoMaster
  BY <1>1, PlaceKeeps DEF PlaceFacts
<1>3. /\ WorldFine(v, {}) /\ v.state = u.state /\ v.spawned = u.spawned
      /\ v.checkEvent = u.checkEvent
  BY <1>2, AddSummonKeeps
<1> HIDE DEF v
<1>4. Calm(u, v)
  BY <1>3 DEF Calm, HereIn
<1>5. WorldFine(AddCheck(v, c), {}) /\ Calm(v, AddCheck(v, c))
  BY <1>2, <1>3, AddCheckKeeps, ChecksAreCalm
<1>6. Calm(w, AddCheck(v, c))
  BY <1>1, <1>4, <1>5, CalmBoth
<1> QED BY <1>5, <1>6 DEF u, v

LEMMA ConvincedKeeps ==
    ASSUME CreaturesInv, NEW c \in Creatures, NEW p \in Creatures, Convinced(c, p)
    PROVE  CreaturesInv'
<1> DEFINE freed == RemoveSummon(World, master[c], c)
           mine == AddSummon(freed, p, c)
           lone == LoseSummons(mine, c)
           alone == AddCheck(lone, c)
           left == {e \in alone.spawned : e[2] = c}
           gone == [alone EXCEPT !.spawned = @ \ left, !.hasSpawn[c] = FALSE]
           v == IF hasSpawn[c] THEN Release(gone, {c}) ELSE alone
<1>1. /\ state[c] = "placed" /\ state[p] = "placed"
      /\ SetWorld(v) /\ unwatched' = (unwatched \/ left # {})
      /\ UNCHANGED <<lastIndex, position, deaths>>
  BY DEF Convinced
<1>2. /\ WorldFine(World, {}) /\ World \in Worlds
      /\ World.state = state /\ World.master = master /\ World.hasSpawn = hasSpawn
  BY DEF CreaturesInv, WorldFine, World
<1>3. /\ WorldFine(freed, {}) /\ Follows(World, freed) /\ freed.master[c] = NoMaster
  <2>1. master[c] \in Creatures \cup {NoMaster} /\ master[c] = World.master[c]
    BY <1>2 DEF Worlds
  <2> QED BY <1>2, <2>1, RemoveSummonKeeps
<1>4. freed.state[c] = "placed" /\ freed.state[p] = "placed"
  BY <1>1, <1>2, <1>3 DEF Follows
<1> HIDE DEF freed
<1>5. /\ WorldFine(mine, {}) /\ mine.state = freed.state /\ mine.spawned = freed.spawned
      /\ mine.checkEvent = freed.checkEvent /\ mine.hasSpawn = freed.hasSpawn
  BY <1>3, <1>4, AddSummonKeeps
<1> HIDE DEF mine
<1>6. WorldFine(lone, {}) /\ Follows(mine, lone) /\ lone.state[c] = "placed"
  <2>1. WorldFine(lone, {}) /\ Follows(mine, lone)
    BY <1>5, LoseSummonsKeeps
  <2>2. mine.state[c] = "placed"
    BY <1>4, <1>5
  <2> HIDE DEF lone
  <2> QED BY <2>1, <2>2 DEF Follows
<1> HIDE DEF lone
<1>7. WorldFine(alone, {}) /\ OnlyVectorsDiffer(lone, alone)
  BY <1>6, AddCheckKeeps DEF CreaturesInv
<1>8. Calm(World, alone)
  <2>1. Calm(World, freed)
    BY <1>2, <1>3, FollowsCalm
  <2>2. Calm(freed, mine)
    BY <1>5 DEF Calm, HereIn
  <2>3. Calm(mine, lone)
    BY <1>5, <1>6, FollowsCalm DEF WorldFine
  <2>4. Calm(lone, alone)
    BY <1>7, ChecksAreCalm
  <2> QED BY <2>1, <2>2, <2>3, <2>4, CalmBoth
<1>9. /\ alone.state[c] = "placed" /\ alone.hasSpawn = hasSpawn
  BY <1>2, <1>3, <1>5, <1>6, <1>7 DEF OnlyVectorsDiffer, Follows
<1>10. alone \in Worlds
  BY <1>7 DEF WorldFine
<1> HIDE DEF alone
<1>11. CASE hasSpawn[c]
  <2>1. v = Release(gone, {c})
    BY <1>11
  <2>2. c \in Homes(alone)
    BY <1>7, <1>9, <1>11 DEF WorldFine, SpawnKnows
  <2>3. left # {}
    BY <2>2 DEF Homes
  <2>4. /\ gone.spawned = alone.spawned \ left /\ gone.hasSpawn = [alone.hasSpawn EXCEPT ![c] = FALSE]
        /\ gone.kind = alone.kind /\ gone.vectorOf = alone.vectorOf /\ gone.uses = alone.uses
        /\ gone.state = alone.state /\ gone.master = alone.master /\ gone.summons = alone.summons
        /\ gone.vectors = alone.vectors /\ gone.toRelease = alone.toRelease
        /\ gone.checkEvent = alone.checkEvent
    BY <1>10 DEF Worlds
  <2>5. gone \in Worlds
    <3>1. alone.spawned \ left \in SUBSET ((Slots \cup {0}) \X Creatures)
      BY <1>10 DEF Worlds
    <3> HIDE DEF left
    <3> QED BY <1>10, <3>1 DEF Worlds
  <2>6. \A d \in Creatures : d \in Homes(gone) <=> d \in Homes(alone) /\ d # c
    BY <2>4 DEF Homes
  <2>7. \A d \in Creatures : gone.hasSpawn[d] = IF d = c THEN FALSE ELSE alone.hasSpawn[d]
    BY <1>10, <2>4 DEF Worlds
  <2> HIDE DEF gone
  <2>8. UsesCounted(gone, {c})
    <3>1. ASSUME NEW d \in Creatures, gone.state[d] # "free"
          PROVE  gone.uses[d] = HeldUses(gone, d) + OneIf(d \in {c})
      <4>1. alone.uses[d] = HeldUses(alone, d) + OneIf(d \in {})
        BY <1>7, <2>4, <3>1 DEF WorldFine, UsesCounted
      <4>2. d \in Homes(gone) <=> d \in Homes(alone) /\ d # c
        BY <2>6
      <4> QED BY <2>2, <2>4, <4>1, <4>2 DEF HeldUses, OneIf
    <3> QED BY <3>1 DEF UsesCounted
  <2>9. MastersKnow(gone) /\ VectorsKnow(gone) /\ ReleasedIsRemoved(gone) /\ OneEntryEach(gone)
    BY <1>7, <2>4 DEF WorldFine, MastersKnow, VectorsKnow, ReleasedIsRemoved, OneEntryEach
  <2>10. FreeIsForgotten(gone)
    BY <1>7, <2>4, <2>6 DEF WorldFine, FreeIsForgotten
  <2>11. SpawnKnows(gone)
    <3>1. ASSUME NEW d \in Creatures
          PROVE  gone.hasSpawn[d] <=> gone.state[d] = "placed" /\ d \in Homes(gone)
      <4>1. alone.hasSpawn[d] <=> alone.state[d] = "placed" /\ d \in Homes(alone)
        BY <1>7 DEF WorldFine, SpawnKnows
      <4> QED BY <2>4, <2>6, <2>7, <4>1
    <3> QED BY <3>1 DEF SpawnKnows
  <2>12. WorldFine(gone, {c})
    BY <1>9, <2>4, <2>5, <2>8, <2>9, <2>10, <2>11 DEF WorldFine
  <2>13. WorldFine(v, {})
    BY <2>1, <2>12, ReleaseKeeps
  <2>14. unwatched' = TRUE
    BY <1>1, <2>3
  <2> HIDE DEF v
  <2> QED BY <1>1, <2>13, <2>14, WorldStep DEF CreaturesInv
<1>12. CASE ~hasSpawn[c]
  <2>1. v = alone
    BY <1>12
  <2>2. unwatched' \in BOOLEAN /\ (unwatched => unwatched')
    BY <1>1 DEF CreaturesInv
  <2> HIDE DEF v
  <2> QED BY <1>1, <1>7, <1>8, <2>1, <2>2, WorldStep DEF CreaturesInv
<1> QED BY <1>11, <1>12, <1>2 DEF Worlds

LEMMA TasksKeep ==
    ASSUME CreaturesInv,
           \/ PlayerEnters \/ Cleanup
           \/ \E c \in Creatures : Removed(c) \/ Killed(c) \/ Wakes(c) \/ Summons(c) \/ DeathDelay(c)
    PROVE  CreaturesInv'
<1>1. /\ WorldFine(World, {}) /\ World \in Worlds /\ World.state = state /\ World.kind = kind
      /\ lastIndex \in 1 .. Vectors /\ position \in Nat /\ deaths \subseteq Creatures
      /\ unwatched \in BOOLEAN
  BY DEF CreaturesInv, WorldFine, World
<1>2. ASSUME NEW w, WorldFine(w, {}), Calm(World, w), SetWorld(w), unwatched' = unwatched,
             lastIndex' = lastIndex, position' = position, deaths' \subseteq deaths
      PROVE  CreaturesInv'
  BY <1>1, <1>2, WorldStep
<1>3. CASE PlayerEnters
  <2> DEFINE c == Min(Free)
             w == AddCheck(Place(World, c, "player", 1), c)
  <2>1. Free # {} /\ SetWorld(w) /\ UNCHANGED <<lastIndex, position, deaths, unwatched>>
    BY <1>3 DEF PlayerEnters
  <2>2. c \in Creatures /\ state[c] = "free"
    BY <2>1, NewCreatureIs
  <2> HIDE DEF c
  <2>3. WorldFine(w, {}) /\ Calm(World, w)
    BY <1>1, <2>2, NewOneKeeps
  <2> HIDE DEF w
  <2> QED BY <1>2, <2>1, <2>3
<1>4. CASE Cleanup
  <2> DEFINE w == CleanedUp(World)
  <2>1. SetWorld(w) /\ UNCHANGED <<lastIndex, position, deaths, unwatched>>
    BY <1>4 DEF Cleanup
  <2>2. WorldFine(w, {}) /\ Calm(World, w)
    BY <1>1, CleanedUpKeeps
  <2> HIDE DEF w
  <2> QED BY <1>2, <2>1, <2>2
<1>5. ASSUME NEW c \in Creatures, Removed(c) PROVE CreaturesInv'
  <2> DEFINE w == RemoveCreature(World, c)
  <2>1. SetWorld(w) /\ UNCHANGED <<lastIndex, position, deaths, unwatched>>
    BY <1>5 DEF Removed
  <2>2. WorldFine(w, {}) /\ Calm(World, w)
    BY <1>1, RemoveCreatureKeeps
  <2> HIDE DEF w
  <2> QED BY <1>2, <2>1, <2>2
<1>6. ASSUME NEW c \in Creatures, Killed(c) PROVE CreaturesInv'
  <2> DEFINE w == [World EXCEPT !.healthy[c] = FALSE]
  <2>1. SetWorld(w) /\ UNCHANGED <<lastIndex, position, deaths, unwatched>>
    BY <1>6 DEF Killed, SetWorld, World
  <2>2. WorldFine(w, {}) /\ Calm(World, w)
    BY <1>1, HealthKeeps, FollowsCalm
  <2> HIDE DEF w
  <2> QED BY <1>2, <2>1, <2>2
<1>7. ASSUME NEW c \in Creatures, Wakes(c) PROVE CreaturesInv'
  <2> DEFINE w == AddCheck(World, c)
  <2>1. SetWorld(w) /\ UNCHANGED <<lastIndex, position, deaths, unwatched>> /\ state[c] = "placed"
    BY <1>7 DEF Wakes
  <2>2. WorldFine(w, {}) /\ Calm(World, w)
    BY <1>1, <2>1, AddCheckKeeps, ChecksAreCalm
  <2> HIDE DEF w
  <2> QED BY <1>2, <2>1, <2>2
<1>8. ASSUME NEW m \in Creatures, Summons(m) PROVE CreaturesInv'
  <2> DEFINE c == Min(Free)
             w == AddCheck(AddSummon(Place(World, c, "monster", 1), m, c), c)
  <2>1. /\ Free # {} /\ state[m] = "placed"
        /\ SetWorld(w) /\ UNCHANGED <<lastIndex, position, deaths, unwatched>>
    BY <1>8 DEF Summons
  <2>2. c \in Creatures /\ state[c] = "free"
    BY <2>1, NewCreatureIs
  <2> HIDE DEF c
  <2>3. WorldFine(w, {}) /\ Calm(World, w)
    BY <1>1, <2>1, <2>2, NewSummonKeeps
  <2> HIDE DEF w
  <2> QED BY <1>2, <2>1, <2>3
<1>9. ASSUME NEW c \in Creatures, DeathDelay(c) PROVE CreaturesInv'
  <2> DEFINE lone == LoseSummons(World, c)
             quiet == RemoveCheck(lone, c)
             u == IF kind[c] = "monster" THEN quiet ELSE World
             w == IF state[c] # "placed" THEN World ELSE RemoveCreature(u, c)
  <2>1. /\ deaths' = deaths \ {c}
        /\ SetWorld(w) /\ UNCHANGED <<lastIndex, position, unwatched>>
    BY <1>9 DEF DeathDelay
  <2>2. WorldFine(lone, {}) /\ Calm(World, lone)
    BY <1>1, LoseSummonsKeeps, FollowsCalm
  <2> HIDE DEF lone
  <2>3. WorldFine(quiet, {}) /\ Calm(lone, quiet)
    BY <2>2, RemoveCheckKeeps, ChecksAreCalm
  <2> HIDE DEF quiet
  <2>4. WorldFine(u, {}) /\ Calm(World, u)
    <3>1. Calm(World, quiet)
      BY <2>2, <2>3, CalmBoth
    <3>2. Calm(World, World)
      BY DEF Calm
    <3> QED BY <1>1, <2>3, <3>1, <3>2
  <2> HIDE DEF u
  <2>5. WorldFine(RemoveCreature(u, c), {}) /\ Calm(u, RemoveCreature(u, c))
    BY <2>4, RemoveCreatureKeeps
  <2>6. WorldFine(w, {}) /\ Calm(World, w)
    <3>1. Calm(World, RemoveCreature(u, c))
      BY <2>4, <2>5, CalmBoth
    <3>2. Calm(World, World)
      BY DEF Calm
    <3> QED BY <1>1, <2>5, <3>1, <3>2
  <2> HIDE DEF w
  <2>7. deaths' \subseteq deaths
    BY <2>1
  <2> QED BY <1>2, <2>1, <2>6, <2>7
<1> QED BY <1>3, <1>4, <1>5, <1>6, <1>7, <1>8, <1>9

LEMMA ChecksKeep == ASSUME CreaturesInv, CheckCreatures PROVE CreaturesInv'
<1>1. /\ WorldFine(World, {}) /\ World \in Worlds
      /\ World.state = state /\ World.kind = kind /\ World.vectors = vectors
      /\ lastIndex \in 1 .. Vectors /\ position \in Nat /\ deaths \subseteq Creatures
      /\ unwatched \in BOOLEAN
  BY DEF CreaturesInv, WorldFine, World
<1>2. ASSUME NEW w, WorldFine(w, {}), Calm(World, w), SetWorld(w), unwatched' = unwatched,
             lastIndex' \in 1 .. Vectors, position' \in Nat, deaths' \subseteq Creatures
      PROVE  CreaturesInv'
  BY <1>1, <1>2, WorldStep
<1>3. Calm(World, World)
  BY DEF Calm
<1>4. CASE BeginPass
  <2>1. NextVector \in 1 .. Vectors
    BY <1>1, CreaturesAssumption DEF NextVector
  <2>2. SetWorld(World)
    BY <1>4 DEF BeginPass, SetWorld, World
  <2> QED BY <1>1, <1>2, <1>3, <1>4, <2>1, <2>2 DEF BeginPass
<1>5. InPass => Current \in Creatures /\ state[Current] = "placed"
  <2>1. SUFFICES ASSUME InPass PROVE Current \in Creatures /\ state[Current] = "placed"
    OBVIOUS
  <2>2. vectors[lastIndex] \in Seq(Creatures)
    BY <1>1, VectorMembers
  <2>3. position \in 1 .. Len(vectors[lastIndex])
    BY <1>1, <2>1, <2>2 DEF InPass
  <2>4. Current \in Creatures
    BY <2>2, <2>3 DEF Current
  <2>5. World.vectorOf[Current] = lastIndex
    BY <1>1, <2>3 DEF WorldFine, VectorsKnow, Current
  <2>6. World.vectorOf[Current] # 0
    BY <1>1, <2>5
  <2> QED BY <1>1, <2>4, <2>6 DEF WorldFine, VectorsKnow
<1>6. CASE Think
  <2>1. PICK w \in Thinks(World, Current) : SetWorld(w)
    BY <1>6 DEF Think
  <2>2. InPass /\ position' = position + 1 /\ UNCHANGED <<lastIndex, deaths, unwatched>>
    BY <1>6 DEF Think
  <2> DEFINE c == Current
             d == Min(Free)
             called == AddCheck(AddSummon(Place(World, d, "monster", 1), c, d), d)
  <2>3. \/ w = World \/ w = RemoveCreature(World, c) \/ w = RemoveCheck(World, c)
        \/ Free # {} /\ w = called
        \/ \E e \in Creatures : w = [World EXCEPT !.healthy[e] = FALSE]
    BY <2>1 DEF Thinks
  <2>4. c \in Creatures /\ state[c] = "placed"
    BY <1>5, <2>2
  <2> HIDE DEF c
  <2>5. WorldFine(w, {}) /\ Calm(World, w)
    <3>1. CASE w = World
      BY <1>1, <1>3, <3>1
    <3>2. CASE w = RemoveCreature(World, c)
      BY <1>1, <2>4, <3>2, RemoveCreatureKeeps
    <3>3. CASE w = RemoveCheck(World, c)
      BY <1>1, <2>4, <3>3, RemoveCheckKeeps, ChecksAreCalm
    <3>4. CASE Free # {} /\ w = called
      <4>1. d \in Creatures /\ state[d] = "free"
        BY <3>4, NewCreatureIs
      <4> HIDE DEF d
      <4> QED BY <1>1, <2>4, <3>4, <4>1, NewSummonKeeps
    <3>5. ASSUME NEW e \in Creatures, w = [World EXCEPT !.healthy[e] = FALSE]
          PROVE  WorldFine(w, {}) /\ Calm(World, w)
      BY <1>1, <3>5, HealthKeeps, FollowsCalm
    <3> QED BY <2>3, <3>1, <3>2, <3>3, <3>4, <3>5
  <2>6. position' \in Nat /\ lastIndex' \in 1 .. Vectors /\ deaths' \subseteq Creatures
    BY <1>1, <2>2
  <2> QED BY <1>2, <2>1, <2>2, <2>5, <2>6
<1>7. CASE StartsDying
  <2>1. SetWorld(World) /\ InPass
    BY <1>7 DEF StartsDying, SetWorld, World
  <2>2. deaths' \subseteq Creatures
    BY <1>1, <1>5, <1>7, <2>1 DEF StartsDying
  <2> QED BY <1>1, <1>2, <1>3, <1>7, <2>1, <2>2 DEF StartsDying
<1>8. CASE EndPass
  <2> DEFINE w == CleanedUp(World)
  <2>1. SetWorld(w) /\ position' = 0 /\ UNCHANGED <<lastIndex, deaths, unwatched>>
    BY <1>8 DEF EndPass
  <2>2. WorldFine(w, {}) /\ Calm(World, w)
    BY <1>1, CleanedUpKeeps
  <2> HIDE DEF w
  <2> QED BY <1>1, <1>2, <2>1, <2>2
<1> QED BY <1>4, <1>6, <1>7, <1>8 DEF CheckCreatures

LEMMA CreaturesStay ==
    ASSUME CreaturesInv, UNCHANGED creatureVars
    PROVE  CreaturesInv'
<1>1. World' = World
  BY DEF creatureVars, World
<1> QED BY <1>1 DEF CreaturesInv, SpawnSeen, creatureVars

\* The uses, vectors and masters of creatures agree in every state, for any number of
\* creatures, blocks and vectors.
THEOREM CreaturesInductive == CreaturesSpec => []CreaturesInv
<1>1. CreaturesInit => CreaturesInv
  BY CreaturesStart
<1>2. CreaturesInv /\ [CreaturesNext]_creatureVars => CreaturesInv'
  <2> SUFFICES ASSUME CreaturesInv, [CreaturesNext]_creatureVars PROVE CreaturesInv'
    OBVIOUS
  <2>1. CASE UNCHANGED creatureVars
    BY <2>1, CreaturesStay
  <2>2. CASE \E strays \in SUBSET Creatures, ready \in SUBSET Slots : \E failed \in SUBSET ready :
                CheckSpawn(strays, ready, failed)
    BY <2>2, CheckSpawnKeeps
  <2>3. CASE CheckCreatures
    BY <2>3, ChecksKeep
  <2>4. CASE \E c \in Creatures, p \in Creatures : Convinced(c, p)
    BY <2>4, ConvincedKeeps
  <2>5. CASE \/ PlayerEnters \/ Cleanup
             \/ \E c \in Creatures : Removed(c) \/ Killed(c) \/ Wakes(c) \/ Summons(c) \/ DeathDelay(c)
    BY <2>5, TasksKeep
  <2> QED BY <2>1, <2>2, <2>3, <2>4, <2>5 DEF CreaturesNext
<1> QED BY <1>1, <1>2, PTL DEF CreaturesSpec

LEMMA CreaturesInvLinks == ASSUME CreaturesInv PROVE CreatureLinks
<1>1. /\ WorldFine(World, {}) /\ World \in Worlds
      /\ World.state = state /\ World.kind = kind /\ World.uses = uses /\ World.healthy = healthy
      /\ World.vectorOf = vectorOf /\ World.hasSpawn = hasSpawn /\ World.master = master
      /\ World.summons = summons /\ World.vectors = vectors /\ World.toRelease = toRelease
      /\ World.spawned = spawned /\ World.checkEvent = checkEvent
  BY DEF CreaturesInv, WorldFine, World
<1>2. /\ state \in [Creatures -> {"free", "placed", "removed"}]
      /\ kind \in [Creatures -> {"monster", "player"}]
      /\ uses \in [Creatures -> Nat] /\ healthy \in [Creatures -> BOOLEAN]
      /\ vectorOf \in [Creatures -> 0 .. Vectors] /\ hasSpawn \in [Creatures -> BOOLEAN]
      /\ master \in [Creatures -> Creatures \cup {NoMaster}]
      /\ summons \in [Creatures -> SUBSET Creatures]
      /\ vectors \in [1 .. Vectors -> Seq(Creatures)]
      /\ toRelease \in SUBSET Creatures
      /\ spawned \in SUBSET ((Slots \cup {0}) \X Creatures)
      /\ checkEvent \in BOOLEAN
  BY <1>1 DEF Worlds
<1>3. \A c \in Creatures : state[c] # "free" => uses[c] = HeldUses(World, c)
  BY <1>1, <1>2 DEF WorldFine, UsesCounted, OneIf, HeldUses
<1>4. ASSUME NEW c \in Creatures
      PROVE  Cardinality({e \in spawned : e[2] = c}) = OneIf(c \in Homes(World))
  <2>1. CASE c \in Homes(World)
    <3>1. PICK e \in spawned : e[2] = c
      BY <1>1, <2>1 DEF Homes
    <3>2. {f \in spawned : f[2] = c} = {e}
      BY <1>1, <3>1 DEF WorldFine, OneEntryEach
    <3> QED BY <2>1, <3>2, FS_Singleton DEF OneIf
  <2>2. CASE c \notin Homes(World)
    <3>1. {f \in spawned : f[2] = c} = {}
      BY <1>1, <2>2 DEF Homes
    <3> QED BY <2>2, <3>1, FS_EmptySet DEF OneIf
  <2> QED BY <2>1, <2>2
<1>5. UsesAreOwners
  BY <1>1, <1>3, <1>4 DEF UsesAreOwners, HeldUses, OneIf
<1>6. CreatureTypeOK
  <2>1. uses \in [Creatures -> 0 .. 3]
      <3>1. ASSUME NEW c \in Creatures PROVE uses[c] \in 0 .. 3
      <4>1. CASE state[c] = "free"
        BY <1>1, <4>1 DEF WorldFine, FreeIsForgotten
      <4>2. CASE state[c] # "free"
        BY <1>3, <4>2 DEF HeldUses, OneIf
      <4> QED BY <4>1, <4>2
    <3> QED BY <1>2, <3>1
  <2> QED BY <1>2, <2>1 DEF CreatureTypeOK, CreaturesInv
<1>7. CreaturePointersLive
  <2> DEFINE live == {c \in Creatures : state[c] # "free"}
  <2>1. ASSUME NEW e \in spawned PROVE e[2] \in live
    <3>1. e[2] \in Creatures /\ e[2] \in Homes(World)
      BY <1>1, <1>2 DEF Homes
    <3> QED BY <1>1, <3>1 DEF WorldFine, FreeIsForgotten
  <2>2. toRelease \subseteq live
    BY <1>1, <1>2 DEF WorldFine, ReleasedIsRemoved
  <2>3. ASSUME NEW c \in live
        PROVE  /\ summons[c] \subseteq live /\ master[c] \in live \cup {NoMaster}
               /\ \A d \in summons[c] : master[d] = c
    <3>1. \A d \in summons[c] : d \in Creatures /\ master[d] = c /\ c # NoMaster
      BY <1>1, <1>2, CreaturesAssumption DEF WorldFine, MastersKnow
    <3>2. \A d \in summons[c] : state[d] # "free"
      BY <1>1, <3>1 DEF WorldFine, FreeIsForgotten
    <3>3. master[c] \in Creatures => c \in summons[master[c]]
      BY <1>1 DEF WorldFine, MastersKnow
    <3>4. master[c] \in Creatures => state[master[c]] # "free"
      BY <1>1, <3>3 DEF WorldFine, FreeIsForgotten
    <3>5. master[c] \in Creatures \cup {NoMaster}
      BY <1>2
    <3> QED BY <3>1, <3>2, <3>4, <3>5
  <2>4. {e[2] : e \in spawned} \cup toRelease \subseteq live
    BY <2>1, <2>2
  <2> QED BY <2>3, <2>4 DEF CreaturePointersLive
<1>8. ChecksRight
  <2>1. \A i \in 1 .. Vectors : \A j \in 1 .. Len(vectors[i]) :
            /\ vectors[i][j] \in Creatures /\ vectorOf[vectors[i][j]] = i
            /\ state[vectors[i][j]] = "placed"
    <3>1. \A i \in 1 .. Vectors : \A j \in 1 .. Len(vectors[i]) :
            /\ vectors[i][j] \in Creatures /\ vectorOf[vectors[i][j]] = i
      BY <1>1, VectorMembers DEF WorldFine, VectorsKnow
    <3>2. \A i \in 1 .. Vectors : i # 0
      OBVIOUS
    <3> QED BY <1>1, <3>1, <3>2 DEF WorldFine, VectorsKnow
  <2>2. ASSUME NEW i \in 1 .. Vectors
        PROVE  /\ IsInjective(vectors[i])
               /\ \A c \in ToSet(vectors[i]) : state[c] = "placed" /\ vectorOf[c] = i
    <3>1. vectors[i] \in Seq(Creatures)
      BY <1>2
    <3>2. DOMAIN vectors[i] = 1 .. Len(vectors[i])
      BY <3>1
    <3>3. \A j, k \in 1 .. Len(vectors[i]) : vectors[i][j] = vectors[i][k] => j = k
      BY <1>1 DEF WorldFine, VectorsKnow
    <3> QED BY <2>1, <3>2, <3>3 DEF IsInjective, ToSet
  <2>3. ASSUME NEW c \in Creatures, state[c] = "placed", vectorOf[c] # 0
        PROVE  c \in ToSet(vectors[vectorOf[c]])
    <3>1. PICK j \in 1 .. Len(vectors[vectorOf[c]]) : vectors[vectorOf[c]][j] = c
      BY <1>1, <2>3 DEF WorldFine, VectorsKnow
    <3>2. vectors[vectorOf[c]] \in Seq(Creatures)
      BY <1>2, <2>3
    <3>3. j \in DOMAIN vectors[vectorOf[c]]
      BY <3>1, <3>2
    <3> QED BY <3>1, <3>3 DEF ToSet
  <2> QED BY <2>2, <2>3 DEF ChecksRight
<1>9. SpawnWatched
  BY <1>1 DEF CreaturesInv, SpawnSeen, SpawnWatched, HereIn
<1> QED BY <1>5, <1>6, <1>7, <1>8, <1>9 DEF CreatureLinks

\* CreatureLinks (uses are owners, no pointer to a freed creature, the vectors of checkCreatures
\* and the watch of the spawn) for any number of creatures, blocks and vectors.
THEOREM CreaturesKept == CreaturesSpec => []CreatureLinks
<1>1. CreaturesInv => CreatureLinks
  BY CreaturesInvLinks
<1> QED BY <1>1, CreaturesInductive, PTL

=============================================================================
