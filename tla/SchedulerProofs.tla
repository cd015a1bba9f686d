--------------------------- MODULE SchedulerProofs ---------------------------
(* Proofs about the scheduler, for any threads, events, delays and id width, *)
(* and about the coins of a container, for any size of a stack, any room and *)
(* any sums.                                                                 *)
EXTENDS Scheduler, Coins, Loops

\* The cycle an event is created with is in the future.
LEMMA CyclePositive ==
    ASSUME NEW e \in Events, now \in Nat
    PROVE  Cycle(e) \in Nat /\ Cycle(e) > now
BY ConstantsAssumption DEF Cycle, Larger

\* Type correctness of the scheduler's state.
THEOREM TypeCorrect == Spec => []TypeOK
<1>1. Init => TypeOK
  BY ConstantsAssumption DEF Init, TypeOK, ThreadState, Location
<1>2. TypeOK /\ [Next]_vars => TypeOK'
  <2> SUFFICES ASSUME TypeOK, [Next]_vars PROVE TypeOK'
    OBVIOUS
  <2> USE ConstantsAssumption
      DEF TypeOK, ThreadState, Location, queueVars, callVars, objVars, threadVars
  <2>1. ASSUME NEW p \in Threads, NEW e \in Events, AddEvent(p, e) PROVE TypeOK'
    <3>1. Cycle(e) \in Nat
      BY CyclePositive
    <3>2. NextId \in 1..IdMax
      BY DEF NextId
    <3>3. /\ m_cycle' \in [Events -> Nat]
          /\ returning' \in [Threads -> Events \cup {NoEvent}]
      BY <2>1, <3>1 DEF AddEvent
    <3>4. /\ m_lastEventId' \in 0..IdMax
          /\ m_eventid' \in [Events -> 0..IdMax]
          /\ m_eventIds' \subseteq 1..IdMax
          /\ m_eventList' \subseteq Events
          /\ \A f \in m_eventList' : m_eventid'[f] # 0
      <4>1. CASE m_threadState = "RUNNING"
        <5>1. /\ m_lastEventId' = NextId
              /\ m_eventid' = [m_eventid EXCEPT ![e] = NextId]
              /\ m_eventIds' = m_eventIds \cup {NextId}
              /\ m_eventList' = m_eventList \cup {e}
          BY <4>1, <2>1 DEF AddEvent
        <5> QED BY <5>1, <3>2
      <4>2. CASE m_threadState # "RUNNING"
        BY <4>2, <2>1 DEF AddEvent
      <4> QED BY <4>1, <4>2
    <3>5. toSignal' \subseteq {q \in Threads : returning'[q] # NoEvent}
      <4>1. p \notin toSignal /\ returning' = [returning EXCEPT ![p] = e]
        BY <2>1 DEF AddEvent, Free
      <4>2. toSignal' \subseteq toSignal \cup {p}
        BY <2>1 DEF AddEvent
      <4>3. e # NoEvent
        OBVIOUS
      <4> QED BY <4>1, <4>2, <4>3
    <3>6. UNCHANGED <<m_threadState, now, spc, deadline, task, handed, deleted,
                      stopTrue, given>>
      BY <2>1 DEF AddEvent
    <3> QED BY <3>3, <3>4, <3>5, <3>6
  <2>2. ASSUME NEW p \in Threads, NEW e \in Events, StopEvent(p, e) PROVE TypeOK'
    BY <2>2 DEF StopEvent
  <2>3. ASSUME NEW p \in Threads, Notify(p) PROVE TypeOK'
    BY <2>3 DEF Notify
  <2>4. ASSUME NEW p \in Threads, Return(p) PROVE TypeOK'
    BY <2>4 DEF Return, Free
  <2>5. CASE SpuriousWakeup
    BY <2>5 DEF SpuriousWakeup
  <2>6. CASE LoopTest
    BY <2>6 DEF LoopTest
  <2>7. CASE Sleep
    BY <2>7 DEF Sleep, Tops
  <2>8. CASE TimeOut
    BY <2>8 DEF TimeOut
  <2>9. CASE PopTop
    BY <2>9 DEF PopTop, Tops, WithoutId
  <2>10. CASE HandOver
    BY <2>10 DEF HandOver
  <2>11. CASE Exit
    BY <2>11 DEF Exit
  <2>12. CASE Stop
    BY <2>12 DEF Stop
  <2>13. CASE Shutdown
    BY <2>13 DEF Shutdown
  <2>14. ASSUME NEW e \in Events, RunHanded(e) PROVE TypeOK'
    BY <2>14 DEF RunHanded
  <2>15. CASE Tick
    BY <2>15 DEF Tick
  <2>16. CASE UNCHANGED vars
    BY <2>16 DEF vars
  <2> QED
    BY <2>1, <2>2, <2>3, <2>4, <2>5, <2>6, <2>7, <2>8, <2>9, <2>10, <2>11,
       <2>12, <2>13, <2>14, <2>15, <2>16 DEF Next, SchedulerStep
<1> QED BY <1>1, <1>2, PTL DEF Spec

-----------------------------------------------------------------------------

\* What was queued or given out has been through addEvent, so a later addEvent
\* does not change its cycle.
Booked == \A e \in m_eventList \cup given : ~Unused(e)

\* The sleep of timed_wait ends no sooner than the cycle of some queued event,
\* and a timeout comes no sooner than the end of the sleep.
DeadlineBacked ==
    /\ spc \in {"timed", "timedout"} /\ m_threadState # "TERMINATED" =>
          \E e \in m_eventList : m_cycle[e] <= deadline
    /\ spc = "timedout" => deadline <= now

\* The inductive invariant: NeverEarly alone is not inductive, because PopTop
\* takes the top, not the event whose cycle it slept for.
IInv == Booked /\ DeadlineBacked /\ NoOversleep /\ NeverEarly

\* The inductive invariant holds initially and every step preserves it.
THEOREM Inductive == Spec => []IInv
<1>1. Init => IInv
  BY DEF Init, IInv, Booked, DeadlineBacked, NoOversleep, NeverEarly
<1>2. TypeOK /\ IInv /\ [Next]_vars => IInv'
  <2> SUFFICES ASSUME TypeOK, IInv, [Next]_vars PROVE IInv'
    OBVIOUS
  <2> USE DEF IInv, Booked, DeadlineBacked, NoOversleep, NeverEarly, Unused,
              TypeOK, queueVars, callVars, objVars, threadVars
  <2>1. ASSUME NEW p \in Threads, NEW e \in Events, AddEvent(p, e) PROVE IInv'
    <3>1. Cycle(e) \in Nat /\ Cycle(e) # 0
      BY CyclePositive
    <3>2. e \notin m_eventList /\ e \notin given
      BY <2>1 DEF AddEvent
    <3>3. /\ m_cycle' = [m_cycle EXCEPT ![e] = Cycle(e)]
          /\ UNCHANGED <<m_threadState, now, spc, deadline, given>>
          /\ m_eventList \subseteq m_eventList'
          /\ m_eventList' \subseteq m_eventList \cup {e}
      BY <2>1 DEF AddEvent
    <3>4. \A f \in m_eventList \cup given : m_cycle'[f] = m_cycle[f]
      BY <3>2, <3>3
    <3>5. Booked' /\ NeverEarly'
      BY <3>1, <3>3, <3>4
    <3>6. DeadlineBacked'
      BY <3>3, <3>4
    <3>7. NoOversleep'
      <4> SUFFICES ASSUME toSignal' = {} PROVE NoOversleep'
        OBVIOUS
      <4>1. CASE m_threadState # "RUNNING"
        BY <4>1, <3>3, <3>4, <2>1 DEF AddEvent
      <4>2. CASE m_threadState = "RUNNING"
        <5>1. toSignal = {} /\ ~IsNewTop(e)
          BY <4>2, <2>1 DEF AddEvent
        <5>2. PICK f \in m_eventList : m_cycle[f] <= Cycle(e)
          BY <5>1, <3>1 DEF IsNewTop
        <5>3. \A g \in m_eventList' : \E h \in m_eventList : m_cycle[h] <= m_cycle'[g]
          BY <5>2, <3>1, <3>3, <3>4
        <5>4. m_eventList # {}
          BY <5>2
        <5>5. /\ spc' = "waiting" => m_eventList' = {}
              /\ spc' = "timed" => \A h \in m_eventList : deadline' <= m_cycle[h]
          BY <5>1, <5>4, <3>3
        <5>6. ASSUME spc' = "timed", NEW g \in m_eventList'
              PROVE  deadline' <= m_cycle'[g]
          <6>1. PICK h \in m_eventList : m_cycle[h] <= m_cycle'[g]
            BY <5>3
          <6>2. /\ deadline' \in Nat
                /\ m_cycle[h] \in Nat
                /\ m_cycle'[g] \in Nat
            BY <3>1, <3>3
          <6> QED BY <5>5, <5>6, <6>1, <6>2
        <5> QED BY <5>5, <5>6
      <4> QED BY <4>1, <4>2
    <3> QED BY <3>5, <3>6, <3>7
  <2>2. ASSUME NEW p \in Threads, NEW e \in Events, StopEvent(p, e) PROVE IInv'
    BY <2>2 DEF StopEvent
  <2>3. ASSUME NEW p \in Threads, Notify(p) PROVE IInv'
    BY <2>3 DEF Notify
  <2>4. ASSUME NEW p \in Threads, Return(p) PROVE IInv'
    BY <2>4 DEF Return
  <2>5. CASE SpuriousWakeup
    BY <2>5 DEF SpuriousWakeup
  <2>6. CASE LoopTest
    BY <2>6 DEF LoopTest
  <2>7. CASE Sleep
    <3>1. CASE m_eventList = {} /\ spc' = "waiting" /\ UNCHANGED deadline
      BY <2>7, <3>1 DEF Sleep
    <3>2. CASE spc' = "timed" /\ \E e \in Tops : deadline' = m_cycle[e]
      BY <2>7, <3>2 DEF Sleep, Tops
    <3> QED BY <2>7, <3>1, <3>2 DEF Sleep
  <2>8. CASE TimeOut
    BY <2>8 DEF TimeOut
  <2>9. CASE PopTop
    <3>1. CASE m_threadState = "TERMINATED"
      BY <2>9, <3>1 DEF PopTop
    <3>2. CASE m_threadState # "TERMINATED"
      <4>1. PICK e \in Tops :
                /\ m_eventList' = m_eventList \ {e}
                /\ given' \in {given, given \cup {e}}
                /\ spc' \in {"handing", "test"}
        BY <2>9, <3>2 DEF PopTop
      <4>2. e \in m_eventList /\ m_cycle[e] <= now
        BY <2>9, <3>2, <4>1 DEF PopTop, Tops
      <4> QED BY <2>9, <4>1, <4>2 DEF PopTop
    <3> QED BY <3>1, <3>2
  <2>10. CASE HandOver
    BY <2>10 DEF HandOver
  <2>11. CASE Exit
    BY <2>11 DEF Exit
  <2>12. CASE Stop
    BY <2>12 DEF Stop
  <2>13. CASE Shutdown
    BY <2>13 DEF Shutdown
  <2>14. ASSUME NEW e \in Events, RunHanded(e) PROVE IInv'
    BY <2>14 DEF RunHanded
  <2>15. CASE Tick
    BY <2>15 DEF Tick
  <2>16. CASE UNCHANGED vars
    BY <2>16 DEF vars
  <2> QED
    BY <2>1, <2>2, <2>3, <2>4, <2>5, <2>6, <2>7, <2>8, <2>9, <2>10, <2>11,
       <2>12, <2>13, <2>14, <2>15, <2>16 DEF Next, SchedulerStep
<1> QED BY <1>1, <1>2, TypeCorrect, PTL DEF Spec

\* The thread never sleeps past the cycle of a queued event unless a thread is
\* on its way to notify_one: addEvent's test for a new top is enough.
THEOREM Punctual == Spec => []NoOversleep
<1>1. IInv => NoOversleep
  BY DEF IInv
<1> QED BY <1>1, Inductive, PTL

\* No event is given to the dispatcher before its cycle.
THEOREM NotEarly == Spec => []NeverEarly
<1>1. IInv => NeverEarly
  BY DEF IInv
<1> QED BY <1>1, Inductive, PTL

\* After a timeout top() is never called on an empty queue.
THEOREM TimeoutBacked == Spec => []TimeoutFindsEvent
<1>1. IInv => TimeoutFindsEvent
  BY DEF IInv, DeadlineBacked, TimeoutFindsEvent
<1> QED BY <1>1, Inductive, PTL

\* The sleep of the scheduler thread is right: never too long, never too short,
\* and never ended by a timeout for an event that is gone.
THEOREM SleepCorrect == Spec => []SleepsRight
<1>1. NoOversleep /\ NeverEarly /\ TimeoutFindsEvent => SleepsRight
  BY DEF SleepsRight
<1> QED BY <1>1, Punctual, NotEarly, TimeoutBacked, PTL
-----------------------------------------------------------------------------

\* The events that were given an id.
Numbered == {e \in Events : m_eventid[e] # 0}

\* What any part of the scheduler knows of has been through addEvent.
OnlyBooked ==
    /\ \A e \in Numbered \cup m_eventList \cup given \cup stopTrue \cup deleted \cup handed :
          ~Unused(e)
    /\ spc = "handing" => ~Unused(task)

\* While addEvent has not come to the end of its ids they are 1, 2, ... in the
\* order of the calls.
IdsInOrder ==
    /\ m_lastEventId = Cardinality(Numbered)
    /\ \A e \in Numbered : m_eventid[e] <= m_lastEventId
    /\ \A e, f \in Numbered : m_eventid[e] = m_eventid[f] => e = f

\* m_eventIds holds the ids of the queued events that were not stopped, and of no
\* others.
IdsTellFate ==
    /\ m_eventList \subseteq Numbered
    /\ \A e \in m_eventList : m_eventid[e] \in m_eventIds \/ e \in stopTrue
    /\ \A e \in given \cup stopTrue : m_eventid[e] # 0 /\ m_eventid[e] \notin m_eventIds
    /\ m_eventList \cap given = {}

\* An event whose addEvent has not returned cannot have been stopped: nobody has
\* its id yet.
UnknownNotStopped == \A p \in Threads : returning[p] \notin stopTrue

\* The inductive invariant behind IdsSound.
IdInv == OnlyBooked /\ IdsInOrder /\ IdsTellFate /\ UnknownNotStopped /\ IdsSound

\* With fewer events than ids addEvent gives an event an id no other event has.
LEMMA FreshId ==
    ASSUME IsFiniteSet(Events), Cardinality(Events) <= IdMax,
           TypeOK, IdsInOrder, OnlyBooked,
           NEW e \in Events, Unused(e)
    PROVE  /\ NextId = m_lastEventId + 1
           /\ e \notin Numbered
           /\ IsFiniteSet(Numbered)
           /\ \A f \in Numbered : m_eventid[f] # NextId
<1>1. e \notin Numbered
  BY DEF OnlyBooked
<1>2. IsFiniteSet(Numbered)
  BY FS_Subset DEF Numbered
<1>3. Cardinality(Numbered) # Cardinality(Events)
  BY <1>1, FS_Subset DEF Numbered
<1>4. /\ Cardinality(Numbered) \in Nat
      /\ Cardinality(Events) \in Nat
      /\ Cardinality(Numbered) <= Cardinality(Events)
  BY <1>2, FS_CardinalityType, FS_Subset DEF Numbered
<1>5. m_lastEventId < IdMax
  BY <1>3, <1>4, ConstantsAssumption DEF IdsInOrder
<1>6. NextId = m_lastEventId + 1
  BY <1>5, ConstantsAssumption DEF NextId, TypeOK
<1>7. \A f \in Numbered : m_eventid[f] # NextId
  BY <1>6 DEF IdsInOrder, TypeOK, Numbered
<1> QED BY <1>1, <1>2, <1>6, <1>7

\* Ids that are dropped leave the others with their events.
LEMMA StillBacked ==
    ASSUME NEW ids, NEW left, NEW list, NEW kept, NEW id, left \subseteq ids,
           \A i \in ids : \E f \in list : id[f] = i,
           \A f \in list : id[f] \in left => f \in kept
    PROVE  \A i \in left : \E f \in kept : id[f] = i
OBVIOUS

\* While there are no more events than ids, stopEvent answers true only when there
\* is an event to drop, and addEvent reads the id of an object that is alive.
THEOREM IdsInductive ==
    ASSUME IsFiniteSet(Events), Cardinality(Events) <= IdMax
    PROVE  Spec => []IdInv
<1> USE DEF IdInv, OnlyBooked, IdsInOrder, IdsTellFate, UnknownNotStopped, IdsSound,
            IdsBacked, NoReadAfterDelete
<1>1. Init => IdInv
  <2> SUFFICES ASSUME Init PROVE IdInv
    OBVIOUS
  <2>1. Numbered = {}
    BY DEF Init, Numbered
  <2>2. Cardinality(Numbered) = 0
    BY <2>1, FS_EmptySet
  <2> QED BY <2>1, <2>2, ConstantsAssumption DEF Init, Numbered
<1>2. TypeOK /\ IdInv /\ [Next]_vars => IdInv'
  <2> SUFFICES ASSUME TypeOK, IdInv, [Next]_vars PROVE IdInv'
    OBVIOUS
  <2> USE DEF TypeOK, queueVars, callVars, objVars, threadVars
  <2>1. ASSUME NEW p \in Threads, NEW e \in Events, AddEvent(p, e) PROVE IdInv'
    <3>1. /\ m_cycle' = [m_cycle EXCEPT ![e] = Cycle(e)]
          /\ returning' = [returning EXCEPT ![p] = e]
          /\ UNCHANGED <<given, stopTrue, deleted, handed, spc, task>>
      BY <2>1 DEF AddEvent
    <3>2. Unused(e) /\ Cycle(e) # 0 /\ Cycle(e) \in Nat
      BY <2>1, CyclePositive DEF AddEvent
    <3>3. e \notin Numbered \cup m_eventList \cup given \cup stopTrue \cup deleted \cup handed
      BY <3>2
    <3>4. \A f \in Events : ~Unused(f) => ~Unused(f)'
      BY <3>1, <3>2 DEF Unused
    <3>5. ~Unused(e)'
      BY <3>1, <3>2 DEF Unused
    <3>6. UnknownNotStopped' /\ NoReadAfterDelete'
      BY <3>1, <3>3, ConstantsAssumption
    <3>7. CASE m_threadState = "RUNNING"
      <4>1. /\ m_lastEventId' = NextId
            /\ m_eventid' = [m_eventid EXCEPT ![e] = NextId]
            /\ m_eventIds' = m_eventIds \cup {NextId}
            /\ m_eventList' = m_eventList \cup {e}
        BY <3>7, <2>1 DEF AddEvent
      <4>2. /\ NextId = m_lastEventId + 1
            /\ IsFiniteSet(Numbered)
            /\ \A f \in Numbered : m_eventid[f] # NextId
        BY <3>2, FreshId
      <4>3. Numbered' = Numbered \cup {e}
        BY <4>1, <4>2, SMTT(30) DEF Numbered
      <4>4. Cardinality(Numbered') = Cardinality(Numbered) + 1
        BY <4>2, <4>3, <3>3, FS_AddElement
      <4>5. \A f \in Numbered : m_eventid'[f] = m_eventid[f] /\ f # e
        BY <4>1, <3>3 DEF Numbered
      <4>6. m_eventid'[e] = m_lastEventId + 1
        BY <4>1, <4>2
      <4>7. \A f \in Numbered : m_eventid[f] \in Nat /\ m_lastEventId \in Nat
        BY ConstantsAssumption DEF Numbered
      <4>8. OnlyBooked'
        BY <4>1, <4>3, <3>1, <3>4, <3>5 DEF Numbered
      <4>9. IdsInOrder'
        <5>1. m_lastEventId' = Cardinality(Numbered')
          BY <4>1, <4>2, <4>4
        <5>2. \A f \in Numbered' : m_eventid'[f] <= m_lastEventId'
          BY <4>1, <4>2, <4>3, <4>5, <4>6, <4>7
        <5>3. \A f, g \in Numbered' : m_eventid'[f] = m_eventid'[g] => f = g
          BY <4>2, <4>3, <4>5, <4>6
        <5> QED BY <5>1, <5>2, <5>3
      <4>10. IdsTellFate'
        <5>1. \A f \in given \cup stopTrue : f \in Numbered
          BY DEF Numbered
        <5> QED BY <4>1, <4>2, <4>3, <4>5, <4>6, <3>1, <3>3, <5>1
      <4>11. IdsBacked'
        <5>1. \A i \in m_eventIds' : \E f \in m_eventList' : m_eventid'[f] = i
          <6> SUFFICES ASSUME NEW i \in m_eventIds'
                       PROVE  \E f \in m_eventList' : m_eventid'[f] = i
            OBVIOUS
          <6>1. CASE i = NextId
            BY <6>1, <4>1, <4>2, <4>6
          <6>2. CASE i \in m_eventIds
            <7>1. PICK f \in m_eventList : m_eventid[f] = i
              BY <6>2
            <7> QED BY <7>1, <4>1, <4>5
          <6> QED BY <6>1, <6>2, <4>1
        <5> QED BY <5>1
      <4> QED BY <3>6, <4>8, <4>9, <4>10, <4>11
    <3>8. CASE m_threadState # "RUNNING"
      <4>1. UNCHANGED <<m_lastEventId, m_eventid, m_eventIds, m_eventList>>
        BY <3>8, <2>1 DEF AddEvent
      <4>2. Numbered' = Numbered
        BY <4>1 DEF Numbered
      <4> QED BY <3>1, <3>4, <3>6, <4>1, <4>2 DEF Numbered
    <3> QED BY <3>7, <3>8
  <2>2. ASSUME NEW p \in Threads, NEW e \in Events, StopEvent(p, e) PROVE IdInv'
    <3>1. /\ m_eventIds' = m_eventIds \ {m_eventid[e]}
          /\ stopTrue' = stopTrue \cup {e}
          /\ m_eventid[e] # 0 /\ m_eventid[e] \in m_eventIds
          /\ \A q \in Threads : returning[q] # e
          /\ UNCHANGED <<m_lastEventId, m_eventList, m_eventid, m_cycle, returning,
                         handed, deleted, given, spc, task>>
      BY <2>2 DEF StopEvent
    <3>2. Numbered' = Numbered /\ e \in Numbered
      BY <3>1 DEF Numbered
    <3>3. OnlyBooked' /\ IdsInOrder' /\ UnknownNotStopped' /\ NoReadAfterDelete'
      BY <3>1, <3>2 DEF Unused
    <3>4. \A f \in Numbered : m_eventid[f] = m_eventid[e] => f = e
      BY <3>2
    <3>5. \A f \in m_eventList : m_eventid[f] = m_eventid[e] => f = e
      BY <3>4
    <3>6. PICK g \in m_eventList : m_eventid[g] = m_eventid[e]
      BY <3>1
    <3>7. e \in m_eventList
      BY <3>5, <3>6
    <3>8. IdsTellFate'
      <4>1. \A f \in m_eventList' : m_eventid'[f] \in m_eventIds' \/ f \in stopTrue'
        BY <3>1, <3>5
      <4> QED BY <4>1, <3>1, <3>2
    <3>9. IdsBacked'
      <4>0. IdsBacked
        OBVIOUS
      <4>1. \A i \in m_eventIds : \E f \in m_eventList : m_eventid[f] = i
        BY ONLY <4>0 DEF IdsBacked
      <4>2. m_eventIds' \subseteq m_eventIds /\ m_eventList' = m_eventList /\ m_eventid' = m_eventid
        BY <3>1
      <4>3. \A i \in m_eventIds' : \E f \in m_eventList' : m_eventid'[f] = i
        BY ONLY <4>1, <4>2, StillBacked
      <4> QED BY <4>3
    <3> QED BY <3>3, <3>8, <3>9
  <2>3. ASSUME NEW p \in Threads, Notify(p) PROVE IdInv'
    BY <2>3, ConstantsAssumption DEF Notify, Numbered, Unused
  <2>4. ASSUME NEW p \in Threads, Return(p) PROVE IdInv'
    BY <2>4, ConstantsAssumption DEF Return, Numbered, Unused
  <2>5. CASE SpuriousWakeup
    BY <2>5 DEF SpuriousWakeup, Numbered, Unused
  <2>6. CASE LoopTest
    BY <2>6 DEF LoopTest, Numbered, Unused
  <2>7. CASE Sleep
    BY <2>7 DEF Sleep, Numbered, Unused
  <2>8. CASE TimeOut
    BY <2>8 DEF TimeOut, Numbered, Unused
  <2>9. CASE PopTop
    <3>1. /\ UNCHANGED <<m_lastEventId, m_eventid, m_cycle, returning, handed, stopTrue>>
          /\ Numbered' = Numbered
      BY <2>9 DEF PopTop, Numbered
    <3>2. CASE m_threadState = "TERMINATED"
      <4>1. UNCHANGED <<m_eventList, m_eventIds, task, given, deleted>> /\ spc' = "test"
        BY <2>9, <3>2 DEF PopTop
      <4>2. OnlyBooked' /\ IdsInOrder' /\ UnknownNotStopped' /\ NoReadAfterDelete'
        BY <3>1, <4>1 DEF Unused
      <4>3. IdsTellFate' /\ IdsBacked'
        BY <3>1, <4>1
      <4> QED BY <4>2, <4>3
    <3>3. CASE m_threadState # "TERMINATED"
      <4>1. PICK e \in m_eventList :
                /\ m_eventList' = m_eventList \ {e}
                /\ \/ /\ RunTask(e)
                      /\ m_eventIds' = WithoutId(e)
                      /\ task' = e
                      /\ spc' = "handing"
                      /\ given' = given \cup {e}
                      /\ UNCHANGED deleted
                   \/ /\ ~RunTask(e)
                      /\ deleted' = deleted \cup {e}
                      /\ spc' = "test"
                      /\ UNCHANGED <<m_eventIds, task, given>>
        BY <2>9, <3>3 DEF PopTop, Tops
      <4>2. e \in Numbered /\ \A f \in Numbered : m_eventid[f] = m_eventid[e] => f = e
        OBVIOUS
      <4>3. IdsInOrder' /\ UnknownNotStopped'
        BY <3>1
      <4>4. CASE RunTask(e)
        <5>1. OnlyBooked' /\ NoReadAfterDelete'
          BY <3>1, <4>1, <4>2, <4>4 DEF Unused
        <5>2. /\ m_eventIds' = m_eventIds \ {m_eventid[e]}
              /\ m_eventList' = m_eventList \ {e}
              /\ given' = given \cup {e}
          BY <4>1, <4>4 DEF WithoutId
        <5>3. \A f \in m_eventList' : m_eventid[f] # m_eventid[e]
          BY <4>2, <5>2
        <5>4. IdsTellFate'
          BY <3>1, <5>2, <5>3
        <5>0. IdsBacked
          OBVIOUS
        <5>7. \A i \in m_eventIds : \E f \in m_eventList : m_eventid[f] = i
          BY ONLY <5>0 DEF IdsBacked
        <5>8. \A f \in m_eventList : m_eventid[f] \in m_eventIds' => f \in m_eventList'
          BY <5>2
        <5>9. m_eventIds' \subseteq m_eventIds /\ m_eventid' = m_eventid
          BY <5>2, <3>1
        <5>5. \A i \in m_eventIds' : \E f \in m_eventList' : m_eventid'[f] = i
          BY ONLY <5>7, <5>8, <5>9, StillBacked
        <5>6. IdsBacked'
          BY <5>5
        <5> QED BY <4>3, <5>1, <5>4, <5>6
      <4>5. CASE ~RunTask(e)
        <5>1. e \in stopTrue
          BY <4>5 DEF RunTask
        <5>2. OnlyBooked' /\ NoReadAfterDelete'
          BY <3>1, <4>1, <4>2, <4>5, <5>1, ConstantsAssumption DEF Unused
        <5>3. /\ m_eventIds' = m_eventIds /\ m_eventid[e] \notin m_eventIds
              /\ m_eventList' = m_eventList \ {e}
              /\ given' = given
          BY <4>1, <4>5 DEF RunTask
        <5>4. IdsTellFate'
          BY <3>1, <5>3
        <5>0. IdsBacked
          OBVIOUS
        <5>7. \A i \in m_eventIds : \E f \in m_eventList : m_eventid[f] = i
          BY ONLY <5>0 DEF IdsBacked
        <5>8. \A f \in m_eventList : m_eventid[f] \in m_eventIds' => f \in m_eventList'
          BY <5>3
        <5>9. m_eventIds' \subseteq m_eventIds /\ m_eventid' = m_eventid
          BY <5>3, <3>1
        <5>5. \A i \in m_eventIds' : \E f \in m_eventList' : m_eventid'[f] = i
          BY ONLY <5>7, <5>8, <5>9, StillBacked
        <5>6. IdsBacked'
          BY <5>5
        <5> QED BY <4>3, <5>2, <5>4, <5>6
      <4> QED BY <4>4, <4>5
    <3> QED BY <3>2, <3>3
  <2>10. CASE HandOver
    BY <2>10, ConstantsAssumption DEF HandOver, Numbered, Unused
  <2>11. CASE Exit
    BY <2>11 DEF Exit, Numbered, Unused
  <2>12. CASE Stop
    BY <2>12 DEF Stop, Numbered, Unused
  <2>13. CASE Shutdown
    BY <2>13 DEF Shutdown, Numbered, Unused
  <2>14. ASSUME NEW e \in Events, RunHanded(e) PROVE IdInv'
    BY <2>14, ConstantsAssumption DEF RunHanded, Numbered, Unused, Free
  <2>15. CASE Tick
    BY <2>15 DEF Tick, Numbered, Unused
  <2>16. CASE UNCHANGED vars
    BY <2>16 DEF vars, Numbered, Unused
  <2> QED
    BY <2>1, <2>2, <2>3, <2>4, <2>5, <2>6, <2>7, <2>8, <2>9, <2>10, <2>11,
       <2>12, <2>13, <2>14, <2>15, <2>16 DEF Next, SchedulerStep
<1>3. QED BY <1>1, <1>2, TypeCorrect, PTL DEF Spec

\* What the callers of addEvent and stopEvent hold is good, as long as addEvent does
\* not come to the end of its ids.
THEOREM IdsCorrect ==
    ASSUME IsFiniteSet(Events), Cardinality(Events) <= IdMax
    PROVE  Spec => []IdsSound
<1>1. IdInv => IdsSound
  BY DEF IdInv
<1> QED BY <1>1, IdsInductive, PTL

-----------------------------------------------------------------------------

\* A step of the scheduler is a step of the timer service, or does not touch it.
LEMMA StepRefines ==
    ASSUME TypeOK, IInv, IdInv, [Next]_vars
    PROVE  [Service!TNext]_Service!tvars
<1> DEFINE st == [e \in Events |->
                 IF Unused(e) THEN "none"
                 ELSE IF e \in given THEN "given"
                 ELSE IF e \in stopTrue THEN "stopped"
                 ELSE IF e \in m_eventList THEN "booked"
                 ELSE "dropped"]
<1> USE DEF IdInv, OnlyBooked, IdsTellFate, TypeOK, queueVars, callVars, objVars, threadVars
<1>1. ASSUME NEW p \in Threads, NEW e \in Events, AddEvent(p, e)
      PROVE  Service!Book(e) \/ Service!Refuse(e)
  <2>1. /\ m_cycle' = [m_cycle EXCEPT ![e] = Cycle(e)]
        /\ UNCHANGED <<now, given, stopTrue>>
        /\ Unused(e)
    BY <1>1 DEF AddEvent
  <2>2. Cycle(e) > now /\ Cycle(e) \in Nat
    BY CyclePositive
  <2>3. e \notin m_eventList /\ e \notin given /\ e \notin stopTrue
    BY <2>1
  <2>4. \A f \in Events : Unused(f)' <=> Unused(f) /\ f # e
    BY <2>1, <2>2 DEF Unused
  <2>5. CASE m_threadState = "RUNNING"
    <3>1. m_eventList' = m_eventList \cup {e}
      BY <2>5, <1>1 DEF AddEvent
    <3>2. st[e] = "none" /\ st' = [st EXCEPT ![e] = "booked"]
      BY <2>1, <2>3, <2>4, <3>1
    <3>3. m_cycle'[e] > now /\ m_cycle' = [m_cycle EXCEPT ![e] = m_cycle'[e]]
      BY <2>1, <2>2
    <3> QED BY <3>2, <3>3, <2>1 DEF Service!Book
  <2>6. CASE m_threadState # "RUNNING"
    <3>1. m_eventList' = m_eventList
      BY <2>6, <1>1 DEF AddEvent
    <3>2. st[e] = "none" /\ st' = [st EXCEPT ![e] = "dropped"]
      BY <2>1, <2>3, <2>4, <3>1
    <3>3. m_cycle' = [m_cycle EXCEPT ![e] = m_cycle'[e]]
      BY <2>1, <2>2
    <3> QED BY <3>2, <3>3, <2>1 DEF Service!Refuse
  <2> QED BY <2>5, <2>6
<1>2. ASSUME NEW p \in Threads, NEW e \in Events, StopEvent(p, e)
      PROVE  Service!StopBooked(e)
  <2>1. /\ stopTrue' = stopTrue \cup {e}
        /\ UNCHANGED <<m_eventList, m_cycle, given, now>>
        /\ m_eventid[e] # 0 /\ m_eventid[e] \in m_eventIds
    BY <1>2 DEF StopEvent
  <2>2. e \notin given /\ e \notin stopTrue /\ ~Unused(e)
    BY <2>1 DEF Numbered
  <2>3. e \in m_eventList
    <3>1. PICK f \in m_eventList : m_eventid[f] = m_eventid[e]
      BY <2>1 DEF IdsSound, IdsBacked
    <3>2. f = e
      BY <3>1, <2>1 DEF IdsInOrder, Numbered
    <3> QED BY <3>1, <3>2
  <2>4. \A f \in Events : Unused(f)' <=> Unused(f)
    BY <2>1 DEF Unused
  <2>5. st[e] = "booked" /\ st' = [st EXCEPT ![e] = "stopped"]
    BY <2>1, <2>2, <2>3, <2>4
  <2> QED BY <2>1, <2>5 DEF Service!StopBooked
<1>3. CASE PopTop
  <2>1. UNCHANGED <<m_cycle, now, stopTrue>>
    BY <1>3 DEF PopTop
  <2>2. \A f \in Events : Unused(f)' <=> Unused(f)
    BY <2>1 DEF Unused
  <2>3. CASE m_threadState = "TERMINATED"
    <3>1. UNCHANGED <<m_eventList, given>>
      BY <1>3, <2>3 DEF PopTop
    <3>2. st' = st
      BY <2>1, <2>2, <3>1
    <3> QED BY <2>1, <3>2 DEF Service!tvars
  <2>4. CASE m_threadState # "TERMINATED"
    <3>1. PICK e \in Tops :
              /\ m_eventList' = m_eventList \ {e}
              /\ \/ RunTask(e) /\ given' = given \cup {e}
                 \/ ~RunTask(e) /\ given' = given
      BY <1>3, <2>4 DEF PopTop
    <3>2. e \in m_eventList /\ e \notin given /\ ~Unused(e)
      BY <3>1 DEF Tops
    <3>3. CASE RunTask(e)
      <4>1. m_cycle[e] <= now
        <5>1. PICK f \in m_eventList : m_cycle[f] <= now
          BY <1>3, <2>4 DEF PopTop, IInv, DeadlineBacked
        <5>2. m_cycle[e] <= m_cycle[f]
          BY <3>1, <5>1 DEF Tops
        <5>3. m_cycle[e] \in Nat /\ m_cycle[f] \in Nat /\ now \in Nat
          BY <3>2, <5>1
        <5> QED BY <5>1, <5>2, <5>3
      <4>2. e \notin stopTrue
        BY <3>3 DEF RunTask
      <4>3. given' = given \cup {e}
        BY <3>1, <3>3
      <4>4. st[e] = "booked" /\ st' = [st EXCEPT ![e] = "given"]
        BY <2>1, <2>2, <3>1, <3>2, <4>2, <4>3
      <4>5. Service!Give(e)
        BY <2>1, <4>1, <4>4 DEF Service!Give
      <4>6. e \in Events
        BY <3>2
      <4> QED BY <4>5, <4>6 DEF Service!TNext
    <3>4. CASE ~RunTask(e)
      <4>1. e \in stopTrue
        BY <3>2, <3>4 DEF RunTask
      <4>2. given' = given
        BY <3>1, <3>4
      <4>3. st' = st
        BY <2>1, <2>2, <3>1, <4>1, <4>2
      <4> QED BY <2>1, <4>3 DEF Service!tvars
    <3> QED BY <3>3, <3>4
  <2> QED BY <2>3, <2>4
<1>4. CASE Shutdown
  <2>1. /\ m_eventList' = {}
        /\ UNCHANGED <<m_cycle, now, stopTrue, given>>
    BY <1>4 DEF Shutdown
  <2>2. \A f \in Events : Unused(f)' <=> Unused(f)
    BY <2>1 DEF Unused
  <2>3. st' = [e \in Events |-> IF st[e] = "booked" THEN "dropped" ELSE st[e]]
    BY <2>1, <2>2
  <2>4. UNCHANGED <<m_cycle, now>>
    BY <2>1
  <2> HIDE DEF st
  <2>5. Service!DropAll
    BY <2>3, <2>4 DEF Service!DropAll, st
  <2> QED BY <2>5 DEF Service!TNext
<1>5. CASE Tick
  <2>1. /\ now' = now + 1
        /\ UNCHANGED <<m_eventList, m_cycle, stopTrue, given>>
    BY <1>5 DEF Tick
  <2>2. st' = st
    BY <2>1 DEF Unused
  <2>3. now' > now
    BY <2>1
  <2>4. Service!Advance
    BY <2>1, <2>2, <2>3 DEF Service!Advance
  <2> QED BY <2>4 DEF Service!TNext
<1>6. ASSUME UNCHANGED <<m_eventList, m_cycle, now, stopTrue, given>>
      PROVE  UNCHANGED Service!tvars
  <2>1. st' = st
    BY <1>6 DEF Unused
  <2> QED BY <1>6, <2>1 DEF Service!tvars
<1>7. \/ \E p \in Threads, e \in Events : AddEvent(p, e) \/ StopEvent(p, e)
      \/ PopTop \/ Shutdown \/ Tick
      \/ UNCHANGED <<m_eventList, m_cycle, now, stopTrue, given>>
  BY DEF Next, SchedulerStep, Notify, Return, SpuriousWakeup, LoopTest, Sleep, TimeOut,
         HandOver, Exit, Stop, RunHanded, vars
<1> QED BY <1>1, <1>2, <1>3, <1>4, <1>5, <1>6, <1>7 DEF Service!TNext

\* The scheduler implements the timer service: whatever its thread, the callers and the
\* dispatcher do, an event is booked, stopped, given and dropped as its callers expect,
\* as long as addEvent does not come to the end of its ids.
THEOREM Refines ==
    ASSUME IsFiniteSet(Events), Cardinality(Events) <= IdMax
    PROVE  Spec => ImplementsService
<1>1. Init => Service!TInit
  BY DEF Init, Service!TInit, Unused
<1>2. TypeOK /\ IInv /\ IdInv /\ [Next]_vars => [Service!TNext]_Service!tvars
  BY StepRefines
<1> QED
  BY <1>1, <1>2, TypeCorrect, Inductive, IdsInductive, PTL
     DEF Spec, ImplementsService, Service!TSpec

-----------------------------------------------------------------------------
(* Coins.  What a holder is worth is a sum over its positions; sums of two *)
(* sequences, of a sequence without one stack and of one with a stack that *)
(* is changed.                                                             *)

Stacks == [kind : Kinds, count : 1 .. Stack]
Values(s) == [i \in DOMAIN s |-> StackWorth(s[i])]

LEMMA WorthNat == \A k \in Kinds : Worth(k) \in Nat
<1>1. Stack \in Nat
  BY CoinsAssumption
<1>2. Stack * Stack \in Nat
  BY <1>1
<1> QED BY <1>1, <1>2 DEF Worth

LEMMA ProductNat == ASSUME NEW a \in Nat, NEW b \in Nat PROVE a * b \in Nat
OBVIOUS

LEMMA StackWorthNat ==
    ASSUME NEW x \in Stacks
    PROVE  StackWorth(x) \in Nat /\ x.count \in Nat /\ x.kind \in Kinds
<1>1. x.count \in Nat /\ Worth(x.kind) \in Nat /\ x.kind \in Kinds
  BY WorthNat, CoinsAssumption DEF Stacks
<1> QED BY <1>1, ProductNat DEF StackWorth

LEMMA ValuesNat ==
    ASSUME NEW s \in Seq(Stacks)
    PROVE  /\ DOMAIN s = 1 .. Len(s) /\ Len(s) \in Nat /\ IsFiniteSet(DOMAIN s)
           /\ \A i \in 1 .. Len(s) : s[i] \in Stacks /\ Values(s)[i] = StackWorth(s[i]) /\ Values(s)[i] \in Nat
<1>1. DOMAIN s = 1 .. Len(s) /\ Len(s) \in Nat /\ \A i \in 1 .. Len(s) : s[i] \in Stacks
  OBVIOUS
<1>2. IsFiniteSet(1 .. Len(s))
  BY <1>1, FS_Interval
<1> QED BY <1>1, <1>2, StackWorthNat DEF Values

LEMMA WorthIs == ASSUME NEW s \in Seq(Stacks) PROVE SumWorth(s) = SumFunctionOnSet(Values(s), 1 .. Len(s))
BY ValuesNat DEF SumWorth, Values

LEMMA PrefixSum ==
    ASSUME NEW n \in Nat, NEW f, \A i \in 1 .. n : f[i] \in Int, NEW k \in 1 .. n
    PROVE  /\ SumFunctionOnSet(f, 1 .. k) = SumFunctionOnSet(f, 1 .. (k - 1)) + f[k]
           /\ SumFunctionOnSet(f, 1 .. (k - 1)) \in Int
<1>1. /\ k \in 1 .. k /\ (1 .. k) \ {k} = 1 .. (k - 1) /\ 1 .. k \subseteq 1 .. n /\ k \in Nat
      /\ 1 .. (k - 1) \subseteq 1 .. n
  OBVIOUS
<1>2. IsFiniteSet(1 .. k) /\ IsFiniteSet(1 .. (k - 1))
  BY <1>1, FS_Interval
<1>3. /\ \A x \in 1 .. k : f[x] \in Int
      /\ \A x \in 1 .. (k - 1) : f[x] \in Int
  BY <1>1
<1>4. SumFunctionOnSet(f, 1 .. k) = f[k] + SumFunctionOnSet(f, (1 .. k) \ {k})
  BY <1>1, <1>2, <1>3, SumWithout
<1>5. SumFunctionOnSet(f, 1 .. (k - 1)) \in Int
  BY <1>2, <1>3, SumType
<1>6. f[k] \in Int
  BY <1>1, <1>3
<1>7. SumFunctionOnSet(f, (1 .. k) \ {k}) = SumFunctionOnSet(f, 1 .. (k - 1))
  BY <1>1
<1> QED BY <1>4, <1>5, <1>6, <1>7

\* The sum of two sequences of numbers, one behind the other.
IsBoth(f, a, n, b, m) ==
    /\ \A i \in 1 .. n : a[i] \in Int /\ f[i] = a[i]
    /\ \A i \in 1 .. m : b[i] \in Int /\ f[n + i] = b[i]

LEMMA SumOfBoth ==
    ASSUME NEW n \in Nat, NEW m \in Nat, NEW a, NEW b, NEW f, IsBoth(f, a, n, b, m)
    PROVE  SumFunctionOnSet(f, 1 .. (n + m)) = SumFunctionOnSet(a, 1 .. n) + SumFunctionOnSet(b, 1 .. m)
<1> DEFINE F(k) == SumFunctionOnSet(f, 1 .. (n + k))
           A == SumFunctionOnSet(a, 1 .. n)
           B(k) == SumFunctionOnSet(b, 1 .. k)
           Bad == {k \in Nat : k <= m /\ F(k) # A + B(k)}
<1> USE DEF IsBoth
<1>1. \A i \in 1 .. (n + m) : f[i] \in Int
  <2>1. ASSUME NEW i \in 1 .. (n + m), i > n PROVE f[i] \in Int
    <3>1. i - n \in 1 .. m /\ n + (i - n) = i
      BY <2>1
    <3>2. f[n + (i - n)] \in Int
      BY <3>1
    <3> QED BY <3>1, <3>2
  <2> QED BY <2>1
<1>2. A \in Int
  <2>1. IsFiniteSet(1 .. n)
    BY FS_Interval
  <2> QED BY <2>1, SumType
<1>3. 0 \notin Bad
  <2>1. IsFiniteSet(1 .. n)
    BY FS_Interval
  <2>2. SumFunctionOnSet(f, 1 .. n) = A
    BY <2>1, SumSame
  <2>3. B(0) = 0
    <3>1. 1 .. 0 = {}
      OBVIOUS
    <3> QED BY <3>1, SumEmpty
  <2>4. F(0) = A + B(0)
    <3>1. 1 .. (n + 0) = 1 .. n
      OBVIOUS
    <3> HIDE DEF A, B
    <3> QED BY <1>2, <2>2, <2>3, <3>1
  <2> QED BY <2>4
<1>4. ASSUME NEW k \in Nat, k + 1 \in Bad PROVE k \in Bad
  <2>1. k + 1 <= m /\ k + 1 \in 1 .. m /\ n + (k + 1) \in 1 .. (n + m) /\ n + m \in Nat /\ k <= m
    BY <1>4
  <2>2. F(k + 1) = F(k) + f[n + (k + 1)] /\ F(k) \in Int
    <3>1. (n + (k + 1)) - 1 = n + k
      OBVIOUS
    <3>2. SumFunctionOnSet(f, 1 .. (n + (k + 1)))
            = SumFunctionOnSet(f, 1 .. ((n + (k + 1)) - 1)) + f[n + (k + 1)]
          /\ SumFunctionOnSet(f, 1 .. ((n + (k + 1)) - 1)) \in Int
      BY <1>1, <2>1, PrefixSum
    <3> QED BY <3>1, <3>2
  <2>3. B(k + 1) = B(k) + b[k + 1] /\ B(k) \in Int
    <3>1. (k + 1) - 1 = k
      OBVIOUS
    <3>2. SumFunctionOnSet(b, 1 .. (k + 1)) = SumFunctionOnSet(b, 1 .. ((k + 1) - 1)) + b[k + 1]
          /\ SumFunctionOnSet(b, 1 .. ((k + 1) - 1)) \in Int
      BY <2>1, PrefixSum
    <3> QED BY <3>1, <3>2
  <2>4. f[n + (k + 1)] = b[k + 1] /\ b[k + 1] \in Int
    BY <2>1
  <2>5. F(k + 1) # A + B(k + 1)
    BY <1>4
  <2> HIDE DEF F, A, B
  <2>6. F(k) # A + B(k)
    BY <1>2, <2>2, <2>3, <2>4, <2>5
  <2> QED BY <2>1, <2>6
<1>5. Bad = {}
  <2> HIDE DEF Bad
  <2>1. Bad \in SUBSET Nat
    BY DEF Bad
  <2> QED BY <1>3, <1>4, <2>1, NoLeast
<1> QED BY <1>5

LEMMA WorthOfBoth ==
    ASSUME NEW s \in Seq(Stacks), NEW t \in Seq(Stacks)
    PROVE  SumWorth(s \o t) = SumWorth(s) + SumWorth(t)
<1> DEFINE u == s \o t
           n == Len(s)
           m == Len(t)
<1>1. /\ u \in Seq(Stacks) /\ Len(u) = n + m /\ n \in Nat /\ m \in Nat
      /\ \A i \in 1 .. n : u[i] = s[i] /\ i \in 1 .. Len(u)
      /\ \A i \in 1 .. m : u[n + i] = t[i] /\ n + i \in 1 .. Len(u)
  OBVIOUS
<1> HIDE DEF u
<1>2. \A i \in 1 .. Len(u) : Values(u)[i] = StackWorth(u[i])
  BY <1>1, ValuesNat
<1>3. \A i \in 1 .. n : Values(s)[i] = StackWorth(s[i]) /\ Values(s)[i] \in Nat
  BY ValuesNat
<1>4. \A i \in 1 .. m : Values(t)[i] = StackWorth(t[i]) /\ Values(t)[i] \in Nat
  BY ValuesNat
<1> HIDE DEF n, m
<1>5. IsBoth(Values(u), Values(s), n, Values(t), m)
  <2>1. \A i \in 1 .. n : Values(s)[i] \in Int /\ Values(u)[i] = Values(s)[i]
    BY <1>1, <1>2, <1>3
  <2>2. ASSUME NEW i \in 1 .. m PROVE Values(t)[i] \in Int /\ Values(u)[n + i] = Values(t)[i]
    <3>1. n + i \in 1 .. Len(u) /\ u[n + i] = t[i]
      BY <1>1
    <3>2. Values(u)[n + i] = StackWorth(u[n + i])
      BY <1>2, <3>1
    <3> QED BY <1>4, <3>1, <3>2
  <2> QED BY <2>1, <2>2 DEF IsBoth
<1>6. SumFunctionOnSet(Values(u), 1 .. (n + m))
        = SumFunctionOnSet(Values(s), 1 .. n) + SumFunctionOnSet(Values(t), 1 .. m)
  BY <1>1, <1>5, SumOfBoth
<1> QED BY <1>1, <1>6, WorthIs DEF u, n, m

LEMMA WorthType == ASSUME NEW s \in Seq(Stacks) PROVE SumWorth(s) \in Nat
<1>1. IsFiniteSet(1 .. Len(s))
  BY ValuesNat
<1>2. \A i \in 1 .. Len(s) : Values(s)[i] \in Nat
  BY ValuesNat
<1> QED BY <1>1, <1>2, SumNat, WorthIs

LEMMA WorthOfNone == <<>> \in Seq(Stacks) /\ SumWorth(<<>>) = 0
<1>1. <<>> \in Seq(Stacks) /\ 1 .. Len(<<>>) = {}
  OBVIOUS
<1> QED BY <1>1, WorthIs, SumEmpty

LEMMA WorthOfOne == ASSUME NEW x \in Stacks PROVE <<x>> \in Seq(Stacks) /\ SumWorth(<<x>>) = StackWorth(x)
<1> DEFINE t == <<x>>
<1>1. t \in Seq(Stacks) /\ Len(t) = 1 /\ t[1] = x
  OBVIOUS
<1> HIDE DEF t
<1>2. \A i \in 1 .. Len(t) : Values(t)[i] = StackWorth(t[i]) /\ Values(t)[i] \in Nat
  BY <1>1, ValuesNat
<1> DEFINE f == Values(t)
<1>3. f[1] = StackWorth(x) /\ f[1] \in Nat /\ \A i \in 1 .. 1 : f[i] \in Int
  BY <1>1, <1>2
<1> HIDE DEF f
<1>4. 1 \in 1 .. 1 /\ 1 \in Nat /\ 1 .. (1 - 1) = {}
  OBVIOUS
<1>5. SumFunctionOnSet(f, 1 .. 1) = SumFunctionOnSet(f, 1 .. (1 - 1)) + f[1]
  BY <1>3, <1>4, PrefixSum
<1>6. SumFunctionOnSet(f, 1 .. (1 - 1)) = 0
  BY <1>4, SumEmpty
<1>7. SumWorth(t) = SumFunctionOnSet(f, 1 .. 1)
  BY <1>1, WorthIs DEF f
<1>8. SumWorth(t) = StackWorth(x)
  BY <1>3, <1>5, <1>6, <1>7
<1> QED BY <1>1, <1>8 DEF t

LEMMA WorthAppend ==
    ASSUME NEW s \in Seq(Stacks), NEW x \in Stacks
    PROVE  Append(s, x) \in Seq(Stacks) /\ SumWorth(Append(s, x)) = SumWorth(s) + StackWorth(x)
<1>1. Append(s, x) = s \o <<x>> /\ Append(s, x) \in Seq(Stacks)
  OBVIOUS
<1> QED BY <1>1, WorthOfBoth, WorthOfOne

IsConcat(t, u, v, X) ==
    /\ t \in Seq(X) /\ Len(t) = Len(u) + Len(v)
    /\ \A j \in 1 .. Len(u) : t[j] = u[j]
    /\ \A j \in 1 .. Len(v) : t[Len(u) + j] = v[j]

LEMMA ConcatAt == ASSUME NEW X, NEW u \in Seq(X), NEW v \in Seq(X) PROVE IsConcat(u \o v, u, v, X)
BY DEF IsConcat

LEMMA SameSequence ==
    ASSUME NEW X, NEW u \in Seq(X), NEW v \in Seq(X), Len(u) = Len(v),
           \A j \in 1 .. Len(u) : u[j] = v[j]
    PROVE  u = v
OBVIOUS

LEMMA WorthRemoved ==
    ASSUME NEW s \in Seq(Stacks), NEW i \in 1 .. Len(s)
    PROVE  /\ RemoveAt(s, i) \in Seq(Stacks) /\ Len(RemoveAt(s, i)) = Len(s) - 1
           /\ SumWorth(RemoveAt(s, i)) = SumWorth(s) - StackWorth(s[i])
           /\ \A j \in 1 .. (i - 1) : RemoveAt(s, i)[j] = s[j]
           /\ \A j \in i .. (Len(s) - 1) : RemoveAt(s, i)[j] = s[j + 1]
<1> DEFINE a == SubSeq(s, 1, i - 1)
           b == SubSeq(s, i + 1, Len(s))
<1>1. /\ a \in Seq(Stacks) /\ b \in Seq(Stacks) /\ Len(a) = i - 1 /\ Len(b) = Len(s) - i
      /\ s[i] \in Stacks /\ Len(s) \in Nat
      /\ \A j \in 1 .. Len(a) : a[j] = s[j]
      /\ \A j \in 1 .. Len(b) : b[j] = s[i + j]
  OBVIOUS
<1> HIDE DEF a, b
<1> DEFINE u == a \o <<s[i]>>
<1>2. /\ u \in Seq(Stacks) /\ Len(u) = i
      /\ \A j \in 1 .. i : u[j] = s[j]
  BY <1>1
<1>3. SumWorth(u) = SumWorth(a) + StackWorth(s[i])
  <2>1. <<s[i]>> \in Seq(Stacks) /\ SumWorth(<<s[i]>>) = StackWorth(s[i])
    BY <1>1, WorthOfOne
  <2> QED BY <1>1, <2>1, WorthOfBoth
<1> HIDE DEF u
<1>a. u \o b = s
  <2> DEFINE t == u \o b
  <2>1. /\ t \in Seq(Stacks) /\ Len(t) = Len(u) + Len(b)
        /\ \A j \in 1 .. Len(u) : t[j] = u[j]
        /\ \A j \in 1 .. Len(b) : t[Len(u) + j] = b[j]
    <3>1. IsConcat(t, u, b, Stacks)
      BY <1>1, <1>2, ConcatAt
    <3> QED BY <3>1 DEF IsConcat
  <2> HIDE DEF t
  <2>2. ASSUME NEW j \in 1 .. Len(s) PROVE t[j] = s[j]
    <3>1. CASE j <= i
      <4>1. j \in 1 .. i /\ j \in 1 .. Len(u)
        BY <1>1, <1>2, <3>1
      <4>2. t[j] = u[j]
        BY <2>1, <4>1
      <4>3. u[j] = s[j]
        BY <1>2, <4>1
      <4> QED BY <4>2, <4>3
    <3>2. CASE j > i
      <4>1. j - i \in 1 .. Len(b) /\ i + (j - i) = j
        BY <1>1, <3>2
      <4>2. b[j - i] = s[i + (j - i)] /\ t[i + (j - i)] = b[j - i]
        BY <1>1, <1>2, <2>1, <4>1
      <4> QED BY <4>1, <4>2
    <3> QED BY <3>1, <3>2
  <2>3. Len(t) = Len(s)
    BY <1>1, <1>2, <2>1
  <2>4. t = s
    BY <2>1, <2>2, <2>3, SameSequence
  <2> QED BY <2>4 DEF t
<1>4. SumWorth(s) = SumWorth(a) + StackWorth(s[i]) + SumWorth(b)
  BY <1>1, <1>2, <1>3, <1>a, WorthOfBoth
<1>5. RemoveAt(s, i) = a \o b
  BY DEF RemoveAt, a, b
<1>6. SumWorth(RemoveAt(s, i)) = SumWorth(a) + SumWorth(b)
  BY <1>1, <1>5, WorthOfBoth
<1>7. SumWorth(a) \in Nat /\ SumWorth(b) \in Nat /\ StackWorth(s[i]) \in Nat
  BY <1>1, WorthType, StackWorthNat
<1> DEFINE v == a \o b
<1>b. /\ v \in Seq(Stacks) /\ Len(v) = Len(a) + Len(b)
      /\ \A j \in 1 .. Len(a) : v[j] = a[j]
      /\ \A j \in 1 .. Len(b) : v[Len(a) + j] = b[j]
  <2>1. IsConcat(v, a, b, Stacks)
    BY <1>1, ConcatAt
  <2> QED BY <2>1 DEF IsConcat
<1>c. RemoveAt(s, i) = v
  BY <1>5
<1> HIDE DEF v
<1>8. Len(v) = Len(s) - 1
  BY <1>1, <1>b
<1>9. ASSUME NEW j \in 1 .. (i - 1) PROVE v[j] = s[j]
  BY <1>1, <1>b
<1>10. ASSUME NEW j \in i .. (Len(s) - 1) PROVE v[j] = s[j + 1]
  <2>1. (j + 1) - i \in 1 .. Len(b) /\ i + ((j + 1) - i) = j + 1 /\ (i - 1) + ((j + 1) - i) = j
    BY <1>1
  <2>2. v[Len(a) + ((j + 1) - i)] = b[(j + 1) - i]
    BY <1>b, <2>1
  <2>3. b[(j + 1) - i] = s[i + ((j + 1) - i)]
    BY <1>1, <2>1
  <2> QED BY <1>1, <2>1, <2>2, <2>3
<1> QED BY <1>4, <1>6, <1>7, <1>8, <1>9, <1>10, <1>b, <1>c

\* Two functions that differ at q only.
DiffersAt(f, h, S, q) ==
    /\ \A x \in S : f[x] \in Int /\ (x # q => h[x] = f[x])
    /\ h[q] \in Int

LEMMA SumDiffers ==
    ASSUME NEW S, IsFiniteSet(S), NEW f, NEW h, NEW q \in S, DiffersAt(f, h, S, q)
    PROVE  SumFunctionOnSet(h, S) = SumFunctionOnSet(f, S) - f[q] + h[q]
<1>1. /\ \A x \in S : f[x] \in Int /\ h[x] \in Int
      /\ \A x \in S \ {q} : h[x] = f[x] /\ f[x] \in Int
  BY DEF DiffersAt
<1>2. SumFunctionOnSet(f, S) = f[q] + SumFunctionOnSet(f, S \ {q})
  BY <1>1, SumWithout
<1>3. SumFunctionOnSet(h, S) = h[q] + SumFunctionOnSet(h, S \ {q})
  BY <1>1, SumWithout
<1>4. IsFiniteSet(S \ {q})
  BY FS_Subset
<1>5. SumFunctionOnSet(h, S \ {q}) = SumFunctionOnSet(f, S \ {q})
  BY <1>1, <1>4, SumSame
<1>6. SumFunctionOnSet(f, S \ {q}) \in Int /\ f[q] \in Int /\ h[q] \in Int
  BY <1>1, <1>4, SumType
<1> QED BY <1>2, <1>3, <1>5, <1>6

\* One stack has c coins instead.
IsChanged(t, s, i, c) ==
    /\ t \in Seq(Stacks) /\ Len(t) = Len(s) /\ t[i].kind = s[i].kind /\ t[i].count = c
    /\ \A j \in 1 .. Len(s) : j # i => t[j] = s[j]
    /\ SumWorth(t) = SumWorth(s) - StackWorth(s[i]) + c * Worth(s[i].kind)

LEMMA WorthChanged ==
    ASSUME NEW s \in Seq(Stacks), NEW i \in 1 .. Len(s), NEW c \in 1 .. Stack
    PROVE  IsChanged([s EXCEPT ![i].count = c], s, i, c)
<1> DEFINE t == [s EXCEPT ![i].count = c]
<1>1. s[i] \in Stacks /\ DOMAIN s = 1 .. Len(s) /\ \A j \in 1 .. Len(s) : s[j] \in Stacks
  OBVIOUS
<1>2. t[i] = [s[i] EXCEPT !.count = c] /\ \A j \in 1 .. Len(s) : j # i => t[j] = s[j]
  BY <1>1
<1>3. t[i] \in Stacks /\ t[i].kind = s[i].kind /\ t[i].count = c
  BY <1>1, <1>2 DEF Stacks
<1>4. \A j \in 1 .. Len(s) : t[j] \in Stacks
  BY <1>1, <1>2, <1>3
<1>5. t \in Seq(Stacks) /\ Len(t) = Len(s)
  <2>0. DOMAIN t = 1 .. Len(s)
    BY <1>1
  <2>1. t = [j \in 1 .. Len(s) |-> t[j]] /\ Len(s) \in Nat
    <3>1. t = [j \in DOMAIN s |-> IF j = i THEN [s[i] EXCEPT !.count = c] ELSE s[j]]
      BY <1>1
    <3> QED BY <1>1, <3>1
  <2> HIDE DEF t
  <2>2. t \in [1 .. Len(s) -> Stacks]
    BY <1>4, <2>1
  <2> QED BY <2>1, <2>2
<1> HIDE DEF t
<1>6. \A j \in 1 .. Len(s) : Values(s)[j] \in Int /\ (j # i => Values(t)[j] = Values(s)[j])
  BY <1>2, <1>5, ValuesNat
<1>7. Values(t)[i] = c * Worth(s[i].kind) /\ Values(t)[i] \in Int /\ Values(s)[i] = StackWorth(s[i])
  BY <1>3, <1>5, ValuesNat DEF StackWorth
<1>8. IsFiniteSet(1 .. Len(s))
  BY ValuesNat
<1>9. SumFunctionOnSet(Values(t), 1 .. Len(s)) = SumFunctionOnSet(Values(s), 1 .. Len(s)) - Values(s)[i] + Values(t)[i]
  <2>1. DiffersAt(Values(s), Values(t), 1 .. Len(s), i)
    BY <1>6, <1>7 DEF DiffersAt
  <2> QED BY <1>8, <2>1, SumDiffers
<1>10. SumWorth(t) = SumWorth(s) - StackWorth(s[i]) + c * Worth(s[i].kind)
  BY <1>5, <1>7, <1>9, WorthIs
<1> QED BY <1>2, <1>3, <1>5, <1>10 DEF t, IsChanged

-----------------------------------------------------------------------------
(* The operations on holders.                                              *)

Pockets == [CoinHolders -> Seq(Stacks)]
Total(c) == SumWorth(c["purse"]) + SumWorth(c["ground"])

LEMMA TotalNat == ASSUME NEW c \in Pockets PROVE Total(c) \in Nat
<1>1. c["purse"] \in Seq(Stacks) /\ c["ground"] \in Seq(Stacks)
  BY DEF Pockets, CoinHolders
<1> QED BY <1>1, WorthType DEF Total

\* One holder gets other contents.
IsOther(e, c, h, s) ==
    /\ e \in Pockets /\ Total(e) = Total(c) - SumWorth(c[h]) + SumWorth(s)
    /\ e[h] = s /\ \A g \in CoinHolders : g # h => e[g] = c[g]

LEMMA TotalChanged ==
    ASSUME NEW c \in Pockets, NEW h \in CoinHolders, NEW s \in Seq(Stacks)
    PROVE  IsOther([c EXCEPT ![h] = s], c, h, s)
<1> DEFINE e == [c EXCEPT ![h] = s]
<1>1. e \in Pockets /\ e[h] = s /\ \A g \in CoinHolders : g # h => e[g] = c[g]
  BY DEF Pockets
<1>2. \A g \in CoinHolders : c[g] \in Seq(Stacks)
  BY DEF Pockets
<1>3. SumWorth(c["purse"]) \in Nat /\ SumWorth(c["ground"]) \in Nat /\ SumWorth(s) \in Nat
  BY <1>2, WorthType DEF CoinHolders
<1> HIDE DEF e
<1>4. Total(e) = Total(c) - SumWorth(c[h]) + SumWorth(s)
  <2>1. CASE h = "purse"
    BY <1>1, <1>3, <2>1 DEF Total, CoinHolders
  <2>2. CASE h = "ground"
    BY <1>1, <1>3, <2>2 DEF Total, CoinHolders
  <2> QED BY <2>1, <2>2 DEF CoinHolders
<1> QED BY <1>1, <1>4 DEF e, IsOther

LEMMA SplitProduct == ASSUME NEW a \in Int, NEW b \in Int, NEW k \in Nat PROVE (a + b) * k = a * k + b * k
OBVIOUS

LEMMA TakenIs ==
    ASSUME NEW s \in Seq(Stacks), NEW i \in 1 .. Len(s), NEW m \in 1 .. s[i].count
    PROVE  /\ Taken(s, i, m) \in Seq(Stacks)
           /\ SumWorth(Taken(s, i, m)) = SumWorth(s) - m * Worth(s[i].kind)
           /\ m # s[i].count => Len(Taken(s, i, m)) = Len(s)
                                /\ \A j \in 1 .. Len(s) : j # i => Taken(s, i, m)[j] = s[j]
           /\ m = s[i].count => /\ Len(Taken(s, i, m)) = Len(s) - 1
                                /\ \A j \in 1 .. (i - 1) : Taken(s, i, m)[j] = s[j]
                                /\ \A j \in i .. (Len(s) - 1) : Taken(s, i, m)[j] = s[j + 1]
<1>0. s[i] \in Stacks /\ SumWorth(s) \in Nat
  BY WorthType
<1>1. s[i] \in Stacks /\ s[i].count \in 1 .. Stack /\ Stack \in Nat /\ Worth(s[i].kind) \in Nat
      /\ SumWorth(s) \in Nat
  BY <1>0, CoinsAssumption, WorthNat DEF Stacks
<1>2. CASE m = s[i].count
  BY <1>2, WorthRemoved DEF Taken, StackWorth
<1>3. CASE m # s[i].count
  <2>1. s[i].count - m \in 1 .. Stack
    BY <1>1, <1>3
  <2>2. Taken(s, i, m) = [s EXCEPT ![i].count = s[i].count - m]
    BY <1>3 DEF Taken
  <2> DEFINE c == s[i].count - m
             W == Worth(s[i].kind)
  <2> DEFINE t == [s EXCEPT ![i].count = c]
  <2>3. IsChanged(t, s, i, c)
    BY <2>1, WorthChanged
  <2>4. StackWorth(s[i]) = s[i].count * W /\ s[i].count = c + m /\ c \in Nat /\ m \in Nat
    BY <1>1, <2>1 DEF StackWorth
  <2>5. Taken(s, i, m) = t
    BY <2>2
  <2>6. SumWorth(t) = SumWorth(s) - StackWorth(s[i]) + c * W
    BY <2>3 DEF IsChanged
  <2>7. t \in Seq(Stacks) /\ Len(t) = Len(s) /\ \A j \in 1 .. Len(s) : j # i => t[j] = s[j]
    BY <2>3 DEF IsChanged
  <2>8. W \in Nat
    BY <1>1
  <2> HIDE DEF c, W, t
  <2>9. (c + m) * W = c * W + m * W
    BY <2>4, <2>8, SplitProduct
  <2>10. c * W \in Nat /\ m * W \in Nat
    BY <2>4, <2>8, ProductNat
  <2>11. SumWorth(t) = SumWorth(s) - m * W
    BY <1>1, <2>4, <2>6, <2>9, <2>10
  <2> QED BY <1>3, <2>5, <2>7, <2>11 DEF W
<1> QED BY <1>2, <1>3

LEMMA LeastOf ==
    ASSUME NEW a \in Int, NEW b \in Int
    PROVE  Min({a, b}) = (IF a <= b THEN a ELSE b)
<1>1. \E x \in {a, b} : \A y \in {a, b} : x <= y
  OBVIOUS
<1>2. Min({a, b}) \in {a, b} /\ \A y \in {a, b} : Min({a, b}) <= y
  BY <1>1 DEF Min
<1> QED BY <1>2

\* What each operation, and each turn of their loops, keeps.
Fit(c) == c \in Pockets /\ Len(c["purse"]) <= PurseRoom

\* There is room for m more coins like x in h, on the stack at d or for another stack.
HasRoom(c, h, d, x, m) ==
    \/ h = "ground"
    \/ Len(c["purse"]) < PurseRoom
    \/ d # 0 /\ c[h][d].kind = x.kind /\ m <= Stack - c[h][d].count

LEMMA JoinedIs ==
    ASSUME NEW c \in Pockets, NEW h \in CoinHolders, NEW d \in 0 .. Len(c[h]), NEW x \in Stacks,
           NEW m \in 1 .. Stack
    PROVE  LET j == Joined(c, h, d, x, m)
           IN  /\ j.rest \in 0 .. Stack /\ j.c \in Pockets
               /\ Total(j.c) = Total(c) + (m - j.rest) * Worth(x.kind)
               /\ \A g \in CoinHolders : Len(j.c[g]) = Len(c[g])
               /\ d # 0 /\ c[h][d].kind = x.kind /\ m <= Stack - c[h][d].count => j.rest = 0
<1> DEFINE same == d # 0 /\ c[h][d].kind = x.kind
           n == IF same THEN Min({Stack - c[h][d].count, m}) ELSE 0
           j == Joined(c, h, d, x, m)
           W == Worth(x.kind)
<1>1. j.rest = m - n /\ j.c = IF n = 0 THEN c ELSE [c EXCEPT ![h][d].count = @ + n]
  BY DEF Joined
<1>2. /\ Stack \in Nat /\ c[h] \in Seq(Stacks) /\ Total(c) \in Nat /\ W \in Nat
      /\ \A g \in CoinHolders : Len(c[g]) \in Nat
  BY CoinsAssumption, TotalNat, StackWorthNat, WorthNat DEF Pockets
<1>3. same => c[h][d] \in Stacks /\ c[h][d].count \in 1 .. Stack
  <2>1. same => d \in 1 .. Len(c[h])
    BY <1>2
  <2>2. same => c[h][d] \in Stacks
    BY <1>2, <2>1
  <2> QED BY <1>2, <2>2 DEF Stacks
<1>4. n \in 0 .. m /\ (same => c[h][d].count + n <= Stack) /\ (n # 0 => same)
      /\ (same /\ m <= Stack - c[h][d].count => n = m)
  <2>1. CASE same
    <3> DEFINE k == c[h][d].count
    <3>1. k \in Nat /\ k <= Stack /\ Stack - k \in Int /\ m \in Nat /\ m \in Int
      BY <1>2, <1>3, <2>1
    <3>2. n = Min({Stack - k, m})
      BY <2>1
    <3> HIDE DEF k, n
    <3>3. n = IF Stack - k <= m THEN Stack - k ELSE m
      BY <3>1, <3>2, LeastOf
    <3> QED BY <1>2, <2>1, <3>1, <3>3 DEF k
  <2>2. CASE ~same
    BY <1>2, <2>2
  <2> QED BY <2>1, <2>2
<1> HIDE DEF n, j
<1>5. CASE n = 0
  <2>1. 0 * W = 0
    BY <1>2
  <2> QED BY <1>1, <1>2, <1>4, <1>5, <2>1 DEF j
<1>6. CASE n # 0
  <2> DEFINE k == c[h][d].count + n
             t == [c[h] EXCEPT ![d].count = k]
  <2>1. k \in 1 .. Stack /\ d \in 1 .. Len(c[h]) /\ same
    BY <1>2, <1>3, <1>4, <1>6
  <2>2. j.c = [c EXCEPT ![h] = t]
    BY <1>1, <1>2, <1>6 DEF Pockets
  <2>a. IsChanged(t, c[h], d, k)
    BY <1>2, <2>1, WorthChanged
  <2>3. t \in Seq(Stacks) /\ Len(t) = Len(c[h])
        /\ SumWorth(t) = SumWorth(c[h]) - StackWorth(c[h][d]) + k * W
    BY <2>1, <2>a DEF IsChanged
  <2>4. StackWorth(c[h][d]) = c[h][d].count * W
    BY <2>1 DEF StackWorth
  <2>5. k * W = c[h][d].count * W + n * W /\ c[h][d].count * W \in Nat /\ n * W \in Nat
    <3> DEFINE q == c[h][d].count
    <3>1. q \in Nat /\ n \in Nat /\ k = q + n /\ W \in Nat
      BY <1>2, <1>3, <1>4, <2>1
    <3> HIDE DEF q, k, W
    <3>2. (q + n) * W = q * W + n * W
      BY <3>1, SplitProduct
    <3>3. q * W \in Nat /\ n * W \in Nat
      BY <3>1, ProductNat
    <3>4. k * W = q * W + n * W /\ q * W \in Nat /\ n * W \in Nat
      BY <3>1, <3>2, <3>3
    <3> QED BY <3>4 DEF q
  <2>6. SumWorth(c[h]) \in Nat
    BY <1>2, WorthType
  <2> HIDE DEF t, k, W
  <2>7. SumWorth(t) = SumWorth(c[h]) + n * W
    BY <2>3, <2>4, <2>5, <2>6
  <2>8. /\ j.c \in Pockets /\ Total(j.c) = Total(c) - SumWorth(c[h]) + SumWorth(t)
        /\ j.c[h] = t /\ \A g \in CoinHolders : g # h => j.c[g] = c[g]
    <3>1. IsOther([c EXCEPT ![h] = t], c, h, t)
      BY <2>3, TotalChanged
    <3> QED BY <2>2, <3>1 DEF IsOther
  <2>9. Total(j.c) = Total(c) + n * W
    BY <1>2, <2>5, <2>6, <2>7, <2>8
  <2>10. m - j.rest = n /\ j.rest \in 0 .. Stack
    BY <1>1, <1>2, <1>4
  <2>11. \A g \in CoinHolders : Len(j.c[g]) = Len(c[g])
    BY <2>3, <2>8
  <2> QED BY <1>1, <1>4, <2>8, <2>9, <2>10, <2>11 DEF j, W
<1> QED BY <1>5, <1>6

LEMMA AddedIs ==
    ASSUME NEW c, Fit(c), NEW h \in CoinHolders, NEW d \in 0 .. Len(c[h]), NEW x \in Stacks,
           NEW m \in 1 .. Stack, HasRoom(c, h, d, x, m)
    PROVE  /\ Fit(Added(c, h, d, x, m))
           /\ Total(Added(c, h, d, x, m)) = Total(c) + m * Worth(x.kind)
<1> DEFINE j == Joined(c, h, d, x, m)
           v == Added(c, h, d, x, m)
           y == Item(x.kind, j.rest)
           W == Worth(x.kind)
<1>1. c \in Pockets /\ Len(c["purse"]) <= PurseRoom /\ PurseRoom \in Nat /\ Stack \in Nat
      /\ W \in Nat /\ Total(c) \in Nat
  BY CoinsAssumption, StackWorthNat, WorthNat, TotalNat DEF Fit
<1>2. /\ j.rest \in 0 .. Stack /\ j.c \in Pockets
      /\ Total(j.c) = Total(c) + (m - j.rest) * W
      /\ \A g \in CoinHolders : Len(j.c[g]) = Len(c[g])
      /\ d # 0 /\ c[h][d].kind = x.kind /\ m <= Stack - c[h][d].count => j.rest = 0
  BY <1>1, JoinedIs
<1>3. v = IF j.rest = 0 THEN j.c ELSE [j.c EXCEPT ![h] = <<y>> \o @]
  BY DEF Added
<1> HIDE DEF j, v, W
<1>4. CASE j.rest = 0
  <2>1. m - j.rest = m
    BY <1>4
  <2> QED BY <1>1, <1>2, <1>3, <1>4, <2>1 DEF Fit, CoinHolders, v, W
<1>5. CASE j.rest # 0
  <2>1. y \in Stacks /\ StackWorth(y) = j.rest * W
    BY <1>2, <1>5, StackWorthNat DEF Stacks, Item, StackWorth, W
  <2>2. j.c[h] \in Seq(Stacks) /\ <<y>> \in Seq(Stacks) /\ SumWorth(<<y>>) = StackWorth(y)
    BY <1>2, <2>1, WorthOfOne DEF Pockets
  <2> HIDE DEF y
  <2> DEFINE t == <<y>> \o j.c[h]
  <2>3. t \in Seq(Stacks) /\ Len(t) = Len(j.c[h]) + 1 /\ Len(j.c[h]) \in Nat
    BY <2>2
  <2>4. SumWorth(t) = j.rest * W + SumWorth(j.c[h]) /\ SumWorth(j.c[h]) \in Nat
    BY <2>1, <2>2, WorthOfBoth, WorthType
  <2>5. v = [j.c EXCEPT ![h] = t]
    BY <1>2, <1>3, <1>5 DEF Pockets
  <2> HIDE DEF t
  <2>6. /\ v \in Pockets /\ Total(v) = Total(j.c) - SumWorth(j.c[h]) + SumWorth(t)
        /\ v[h] = t /\ \A g \in CoinHolders : g # h => v[g] = j.c[g]
    <3>1. IsOther([j.c EXCEPT ![h] = t], j.c, h, t)
      BY <1>2, <2>3, TotalChanged
    <3> QED BY <2>5, <3>1 DEF IsOther
  <2>7. (m - j.rest) * W + j.rest * W = m * W /\ (m - j.rest) * W \in Int /\ j.rest * W \in Nat
    <3>1. (m - j.rest) + j.rest = m /\ m - j.rest \in Int /\ j.rest \in Nat
      BY <1>2
    <3>2. ((m - j.rest) + j.rest) * W = (m - j.rest) * W + j.rest * W
      BY <1>1, <3>1, SplitProduct
    <3>3. (m - j.rest) * W \in Int /\ j.rest * W \in Nat
      BY <1>1, <3>1, ProductNat
    <3> QED BY <3>1, <3>2, <3>3
  <2>8. Total(v) = Total(c) + m * W
    <3> DEFINE p == (m - j.rest) * W
               q == j.rest * W
               r == m * W
               a == SumWorth(j.c[h])
    <3>1. p + q = r /\ p \in Int /\ q \in Nat /\ Total(j.c) = Total(c) + p /\ a \in Nat
          /\ Total(v) = Total(j.c) - a + (q + a) /\ Total(c) \in Nat
      BY <1>1, <1>2, <2>4, <2>6, <2>7
    <3>2. Total(v) = Total(c) + r
      <4> HIDE DEF p, q, r, a
      <4> QED BY <3>1
    <3> QED BY <3>2
  <2>9. Len(v["purse"]) <= PurseRoom
    <3>1. CASE h = "ground"
      BY <1>1, <1>2, <2>6, <3>1 DEF CoinHolders
    <3>2. CASE h = "purse"
      <4>1. Len(c["purse"]) < PurseRoom
        BY <1>2, <1>5, <3>2 DEF HasRoom
      <4>2. Len(v["purse"]) = Len(c["purse"]) + 1 /\ Len(c["purse"]) \in Nat
        BY <1>1, <1>2, <2>3, <2>6, <3>2 DEF CoinHolders
      <4> QED BY <1>1, <4>1, <4>2
    <3> QED BY <3>1, <3>2 DEF CoinHolders
  <2> QED BY <2>6, <2>8, <2>9 DEF Fit, v, W
<1> QED BY <1>4, <1>5

-----------------------------------------------------------------------------
(* internalAddItem and the loop of addMoney.                               *)

LEMMA InternalAddItemIs ==
    ASSUME NEW c, Fit(c), NEW h \in CoinHolders, NEW x \in Stacks, NEW fits \in BOOLEAN
    PROVE  LET r == InternalAddItem(c, h, x, fits)
           IN  /\ r.ok \in BOOLEAN /\ (h = "ground" => r.ok)
               /\ r.ok => Fit(r.c) /\ Total(r.c) = Total(c) + StackWorth(x)
<1> DEFINE r == InternalAddItem(c, h, x, fits)
           d == DestIndex(c, h, 0)
<1>1. r.ok = (h = "ground" \/ (fits /\ FreeSlots(c) > 0)) /\ (r.ok => r.c = Added(c, h, d, x, x.count))
  BY DEF InternalAddItem
<1>2. c[h] \in Seq(Stacks) /\ Len(c["purse"]) \in Nat /\ PurseRoom \in Nat
  BY CoinsAssumption DEF Fit, Pockets, CoinHolders
<1>3. d \in 0 .. Len(c[h])
  BY <1>2 DEF DestIndex, CoinHolders
<1>4. r.ok => HasRoom(c, h, d, x, x.count)
  <2>1. FreeSlots(c) > 0 => Len(c["purse"]) < PurseRoom
    BY <1>2 DEF FreeSlots
  <2> QED BY <1>1, <2>1 DEF HasRoom
<1>5. x.count \in 1 .. Stack
  BY DEF Stacks
<1>6. r.ok \in BOOLEAN /\ (h = "ground" => r.ok)
  BY <1>1
<1> HIDE DEF r, d
<1>7. ASSUME r.ok PROVE Fit(r.c) /\ Total(r.c) = Total(c) + StackWorth(x)
  <2>1. HasRoom(c, h, d, x, x.count)
    BY <1>4, <1>7
  <2>2. /\ Fit(Added(c, h, d, x, x.count))
        /\ Total(Added(c, h, d, x, x.count)) = Total(c) + x.count * Worth(x.kind)
    BY <1>3, <1>5, <2>1, AddedIs
  <2> QED BY <1>1, <1>7, <2>2 DEF StackWorth
<1> QED BY <1>6, <1>7 DEF r

LEMMA AddOrDropIs ==
    ASSUME NEW c, Fit(c), NEW h \in CoinHolders, NEW x \in Stacks, NEW fits \in BOOLEAN
    PROVE  /\ Fit(AddOrDrop(c, h, x, fits))
           /\ Total(AddOrDrop(c, h, x, fits)) = Total(c) + StackWorth(x)
<1> DEFINE r == InternalAddItem(c, h, x, fits)
           g == InternalAddItem(c, "ground", x, TRUE)
<1>1. r.ok \in BOOLEAN /\ (r.ok => Fit(r.c) /\ Total(r.c) = Total(c) + StackWorth(x))
  BY InternalAddItemIs
<1>2. Fit(g.c) /\ Total(g.c) = Total(c) + StackWorth(x)
  <2>1. "ground" \in CoinHolders /\ TRUE \in BOOLEAN
    BY DEF CoinHolders
  <2> QED BY <2>1, InternalAddItemIs
<1>3. AddOrDrop(c, h, x, fits) = IF r.ok THEN r.c ELSE g.c
  BY DEF AddOrDrop
<1> HIDE DEF r, g
<1> QED BY <1>1, <1>2, <1>3

\* The fold of addMoney over the stacks s.
AddAll(c, h, s, fits) == FoldLeft(LAMBDA v, x : AddOrDrop(v, h, x, x.kind \in fits), c, s)

IsAdding(g, c, h, s, fits) ==
    g = [p \in SUBSET DOMAIN s |->
            IF p = {} THEN c
            ELSE LET i == Latest(p)
                 IN  AddOrDrop(g[p \ {i}], h, s[i], s[i].kind \in fits)]

LEMMA AddAllIsLoop ==
    ASSUME NEW c, NEW h, NEW s, NEW fits
    PROVE  AddAll(c, h, s, fits) = (CHOOSE g : IsAdding(g, c, h, s, fits))[DOMAIN s]
BY DEF AddAll, FoldLeft, MapThenFoldSet, Max, Latest, IsAdding

FitOnes == {v \in Pockets : Fit(v)}

\* The loop as a function of the number of turns.
IsAddTurns(g, c, h, s, fits) ==
    /\ g \in [0 .. Len(s) -> FitOnes] /\ g[0] = c
    /\ \A i \in 1 .. Len(s) : g[i] = AddOrDrop(g[i - 1], h, s[i], s[i].kind \in fits)
    /\ AddAll(c, h, s, fits) = g[Len(s)]

LEMMA AddTurns ==
    ASSUME NEW c \in FitOnes, NEW h \in CoinHolders, NEW s \in Seq(Stacks), NEW fits
    PROVE  \E g : IsAddTurns(g, c, h, s, fits)
<1> DEFINE n == Len(s)
           V == FitOnes
           E(v, i) == AddOrDrop(v, h, s[i], s[i].kind \in fits)
           step == [t \in V \X (1 .. n) |-> E(t[1], t[2])]
<1>1. n \in Nat /\ DOMAIN s = 1 .. n /\ \A i \in 1 .. n : s[i] \in Stacks
  OBVIOUS
<1>2. \A v \in V, i \in 1 .. n : E(v, i) \in V
  <2>1. SUFFICES ASSUME NEW v \in V, NEW i \in 1 .. n PROVE E(v, i) \in V
    OBVIOUS
  <2>2. Fit(v) /\ s[i] \in Stacks /\ (s[i].kind \in fits) \in BOOLEAN
    BY <1>1 DEF FitOnes
  <2>3. Fit(E(v, i))
    BY <2>2, AddOrDropIs
  <2> QED BY <2>3 DEF FitOnes, Fit
<1> HIDE DEF E, n
<1>3. \A v \in V, i \in 1 .. n : step[<<v, i>>] = E(v, i)
  OBVIOUS
<1>4. IsStep(step, n, V)
  BY <1>2 DEF IsStep
<1> HIDE DEF V, step
<1>5. PICK g : IsLeft(g, n, c, step)
  BY <1>1, LeftExists
<1>6. HasTurns(g, n, V, c, step)
  <2>1. c \in V
    BY DEF V
  <2> QED BY <1>1, <1>4, <1>5, <2>1, LeftTurns
<1>7. /\ \A p \in SUBSET (1 .. n) : g[p] \in V
      /\ \E k : IsTurns(k, n, V, c, step) /\ k[n] = g[1 .. n]
  BY <1>6 DEF HasTurns
<1>8. \A p \in SUBSET (1 .. n) : p # {} => Latest(p) \in 1 .. n /\ p \ {Latest(p)} \in SUBSET (1 .. n)
  BY <1>1, LatestOut
<1>9. IsAdding(g, c, h, s, fits)
  <2> DEFINE Body1(p) == IF p = {} THEN c ELSE step[<<g[p \ {Latest(p)}], Latest(p)>>]
             Body2(p) == IF p = {} THEN c ELSE E(g[p \ {Latest(p)}], Latest(p))
  <2>1. \A p \in SUBSET (1 .. n) : Body1(p) = Body2(p)
    BY <1>3, <1>7, <1>8
  <2>2. g = [p \in SUBSET (1 .. n) |-> Body1(p)]
    BY <1>5 DEF IsLeft
  <2>3. g = [p \in SUBSET DOMAIN s |-> Body2(p)]
    BY <1>1, <2>1, <2>2
  <2> QED BY <2>3 DEF IsAdding, E
<1> DEFINE q == CHOOSE k : IsAdding(k, c, h, s, fits)
<1>10. IsAdding(q, c, h, s, fits)
  BY <1>9
<1> HIDE DEF q
<1>11. /\ \A p \in SUBSET (1 .. n) : q[p] = IF p = {} THEN c ELSE E(q[p \ {Latest(p)}], Latest(p))
       /\ \A p \in SUBSET (1 .. n) : g[p] = IF p = {} THEN c ELSE E(g[p \ {Latest(p)}], Latest(p))
  BY <1>1, <1>9, <1>10 DEF IsAdding, E
<1>12. \A p \in SUBSET (1 .. n) : q[p] = g[p]
  <2>1. GoOnAlike(q, g, n)
    BY <1>11 DEF GoOnAlike
  <2> QED BY <1>1, <2>1, LeftsAgree DEF AreAlike
<1>13. AddAll(c, h, s, fits) = g[1 .. n]
  <2>1. 1 .. n \in SUBSET (1 .. n)
    OBVIOUS
  <2> QED BY <1>1, <1>12, <2>1, AddAllIsLoop DEF q
<1>14. PICK k : IsTurns(k, n, V, c, step) /\ k[n] = g[1 .. n]
  BY <1>7
<1>15. k \in [0 .. n -> V] /\ k[0] = c /\ \A i \in 1 .. n : k[i] = step[<<k[i - 1], i>>]
  BY <1>14 DEF IsTurns
<1>16. \A i \in 1 .. n : k[i] = E(k[i - 1], i)
  <2>1. \A i \in 1 .. n : k[i - 1] \in V
    BY <1>1, <1>15
  <2> QED BY <1>3, <1>15, <2>1
<1>17. IsAddTurns(k, c, h, s, fits)
  BY <1>13, <1>14, <1>15, <1>16 DEF IsAddTurns, E, V, n
<1> QED BY <1>17

\* The worth of the first i.
WorthUpTo(s, i) == SumFunctionOnSet(Values(s), 1 .. i)

LEMMA UpToIs ==
    ASSUME NEW s \in Seq(Stacks)
    PROVE  /\ WorthUpTo(s, 0) = 0 /\ WorthUpTo(s, Len(s)) = SumWorth(s)
           /\ \A i \in 1 .. Len(s) : WorthUpTo(s, i) = WorthUpTo(s, i - 1) + StackWorth(s[i])
                                     /\ WorthUpTo(s, i - 1) \in Int /\ StackWorth(s[i]) \in Int
<1>1. \A i \in 1 .. Len(s) : Values(s)[i] = StackWorth(s[i]) /\ Values(s)[i] \in Int
  BY ValuesNat
<1>2. Len(s) \in Nat
  OBVIOUS
<1>3. ASSUME NEW i \in 1 .. Len(s)
      PROVE  WorthUpTo(s, i) = WorthUpTo(s, i - 1) + StackWorth(s[i])
             /\ WorthUpTo(s, i - 1) \in Int /\ StackWorth(s[i]) \in Int
  <2>1. SumFunctionOnSet(Values(s), 1 .. i) = SumFunctionOnSet(Values(s), 1 .. (i - 1)) + Values(s)[i]
        /\ SumFunctionOnSet(Values(s), 1 .. (i - 1)) \in Int
    BY <1>1, <1>2, PrefixSum
  <2>2. Values(s)[i] = StackWorth(s[i]) /\ Values(s)[i] \in Int
    BY <1>1
  <2> QED BY <2>1, <2>2 DEF WorthUpTo
<1>4. WorthUpTo(s, 0) = 0
  <2>1. 1 .. 0 = {}
    OBVIOUS
  <2> QED BY <2>1, SumEmpty DEF WorthUpTo
<1> QED BY <1>3, <1>4, WorthIs DEF WorthUpTo

LEMMA AddAllIs ==
    ASSUME NEW c, Fit(c), NEW h \in CoinHolders, NEW s \in Seq(Stacks), NEW fits
    PROVE  /\ Fit(AddAll(c, h, s, fits))
           /\ Total(AddAll(c, h, s, fits)) = Total(c) + SumWorth(s)
<1>0. c \in FitOnes
  BY DEF Fit, FitOnes
<1>1. PICK g : IsAddTurns(g, c, h, s, fits)
  BY <1>0, AddTurns
<1>2. /\ g \in [0 .. Len(s) -> FitOnes] /\ g[0] = c
      /\ \A i \in 1 .. Len(s) : g[i] = AddOrDrop(g[i - 1], h, s[i], s[i].kind \in fits)
      /\ AddAll(c, h, s, fits) = g[Len(s)]
  BY <1>1 DEF IsAddTurns
<1>3. Len(s) \in Nat /\ \A i \in 1 .. Len(s) : s[i] \in Stacks
  OBVIOUS
<1>4. Total(c) \in Int
  <2>1. c \in Pockets
    BY DEF Fit
  <2> QED BY <2>1, TotalNat
<1> DEFINE Bad == {m \in Nat : m <= Len(s) /\ Total(g[m]) # Total(c) + WorthUpTo(s, m)}
<1>5. 0 \notin Bad
  BY <1>2, <1>4, UpToIs
<1>6. ASSUME NEW m \in Nat, m + 1 \in Bad PROVE m \in Bad
  <2>1. m + 1 \in 1 .. Len(s) /\ (m + 1) - 1 = m /\ m <= Len(s) /\ m \in 0 .. Len(s)
    BY <1>3, <1>6
  <2>2. g[m + 1] = AddOrDrop(g[m], h, s[m + 1], s[m + 1].kind \in fits)
    BY <1>2, <2>1
  <2>3. Fit(g[m]) /\ g[m] \in Pockets /\ s[m + 1] \in Stacks /\ (s[m + 1].kind \in fits) \in BOOLEAN
    BY <1>2, <1>3, <2>1 DEF FitOnes
  <2>4. Total(g[m + 1]) = Total(g[m]) + StackWorth(s[m + 1])
    <3>1. PICK v, x, b : v = g[m] /\ x = s[m + 1] /\ b = (s[m + 1].kind \in fits)
      OBVIOUS
    <3>2. Fit(v) /\ x \in Stacks /\ b \in BOOLEAN
      BY <2>3, <3>1
    <3>3. Total(AddOrDrop(v, h, x, b)) = Total(v) + StackWorth(x)
      BY <3>2, AddOrDropIs
    <3> QED BY <2>2, <3>1, <3>3
  <2>5. WorthUpTo(s, m + 1) = WorthUpTo(s, m) + StackWorth(s[m + 1]) /\ WorthUpTo(s, m) \in Int
        /\ StackWorth(s[m + 1]) \in Int
    BY <2>1, UpToIs
  <2>6. Total(g[m + 1]) # Total(c) + WorthUpTo(s, m + 1)
    BY <1>6
  <2>7. Total(g[m]) # Total(c) + WorthUpTo(s, m)
    BY <1>4, <2>4, <2>5, <2>6
  <2> QED BY <2>1, <2>7
<1>7. Bad = {}
  BY <1>5, <1>6, NoLeast
<1>8. Total(g[Len(s)]) = Total(c) + WorthUpTo(s, Len(s)) /\ g[Len(s)] \in FitOnes
  <2>1. Len(s) \in 0 .. Len(s)
    BY <1>3
  <2> QED BY <1>2, <1>3, <1>7, <2>1
<1> QED BY <1>2, <1>8, UpToIs DEF FitOnes

-----------------------------------------------------------------------------
(* The stacks of addMoney are worth the sum.                               *)

LEMMA DivMod ==
    ASSUME NEW m \in Nat, NEW d \in Nat \ {0}
    PROVE  /\ m \div d \in Nat /\ m % d \in 0 .. (d - 1) /\ m = d * (m \div d) + (m % d)
<1>1. m \div d \in Int
  OBVIOUS
<1>2. m % d \in 0 .. (d - 1)
  OBVIOUS
<1>3. m = d * (m \div d) + (m % d)
  OBVIOUS
<1>4. m \div d >= 0
  OBVIOUS
<1> QED BY <1>1, <1>2, <1>3, <1>4

LEMMA SameRest ==
    ASSUME NEW d \in Nat \ {0}, NEW q \in Int, NEW r \in 0 .. (d - 1), NEW p \in Int, NEW t \in 0 .. (d - 1),
           d * q + r = d * p + t
    PROVE  r = t
<1>1. d * (q - p) = t - r
  <2>1. d * (q - p) = d * q - d * p /\ d * q \in Int /\ d * p \in Int
    OBVIOUS
  <2> QED BY <2>1
<1> DEFINE e == q - p
<1>2. e \in Int /\ d * e = t - r
  BY <1>1
<1> HIDE DEF e
<1>3. CASE e >= 1
  <2>1. d * e >= d
    BY <1>2, <1>3
  <2> QED BY <1>2, <2>1
<1>4. CASE e <= -1
  <2>1. d * e <= -d
    <3>1. d * (-e) >= d
      BY <1>2, <1>4
    <3>2. d * (-e) = -(d * e) /\ d * e \in Int
      BY <1>2
    <3> QED BY <3>1, <3>2
  <2> QED BY <1>2, <2>1
<1>5. CASE e = 0
  <2>1. d * e = 0
    BY <1>5
  <2> QED BY <1>2, <2>1
<1> QED BY <1>2, <1>3, <1>4, <1>5

LEMMA SumConstant ==
    ASSUME NEW n \in Nat, NEW f, NEW w \in Nat, \A i \in 1 .. n : f[i] = w
    PROVE  SumFunctionOnSet(f, 1 .. n) = n * w
<1> DEFINE Bad == {m \in Nat : m <= n /\ SumFunctionOnSet(f, 1 .. m) # m * w}
<1>1. 0 \notin Bad
  <2>1. 1 .. 0 = {} /\ 0 * w = 0
    OBVIOUS
  <2> QED BY <2>1, SumEmpty
<1>2. ASSUME NEW m \in Nat, m + 1 \in Bad PROVE m \in Bad
  <2>1. m + 1 \in 1 .. n /\ (m + 1) - 1 = m /\ m <= n /\ m + 1 \in Int
    BY <1>2
  <2>2. \A i \in 1 .. n : f[i] \in Int
    OBVIOUS
  <2>3. SumFunctionOnSet(f, 1 .. (m + 1)) = SumFunctionOnSet(f, 1 .. ((m + 1) - 1)) + f[m + 1]
        /\ SumFunctionOnSet(f, 1 .. ((m + 1) - 1)) \in Int
    BY <2>1, <2>2, PrefixSum
  <2>4. f[m + 1] = w
    BY <2>1
  <2>5. (m + 1) * w = m * w + w /\ m * w \in Int
    OBVIOUS
  <2>6. SumFunctionOnSet(f, 1 .. (m + 1)) # (m + 1) * w
    BY <1>2
  <2>7. SumFunctionOnSet(f, 1 .. m) # m * w
    <3>1. PICK a, b, c : a = SumFunctionOnSet(f, 1 .. (m + 1)) /\ b = SumFunctionOnSet(f, 1 .. m) /\ c = m * w
      OBVIOUS
    <3>2. a = b + w /\ b \in Int /\ a # c + w /\ c \in Int
      BY <2>1, <2>3, <2>4, <2>5, <2>6, <3>1
    <3>3. b # c
      BY ONLY <3>2
    <3> QED BY <3>1, <3>3
  <2> QED BY <2>1, <2>7
<1>3. Bad = {}
  BY <1>1, <1>2, NoLeast
<1> QED BY <1>3

Copies(n, x) == [k \in 1 .. n |-> x]

LEMMA CopiesWorth ==
    ASSUME NEW n \in Nat, NEW x \in Stacks
    PROVE  Copies(n, x) \in Seq(Stacks) /\ SumWorth(Copies(n, x)) = n * StackWorth(x)
<1> DEFINE s == Copies(n, x)
<1>1. s \in Seq(Stacks) /\ Len(s) = n /\ \A i \in 1 .. n : s[i] = x
  <2>1. s \in [1 .. n -> Stacks] /\ DOMAIN s = 1 .. n
    BY DEF Copies
  <2>2. s \in Seq(Stacks)
    BY <2>1
  <2>3. Len(s) = n
    BY <2>1, <2>2
  <2> QED BY <2>2, <2>3 DEF Copies
<1> HIDE DEF s
<1>2. \A i \in 1 .. n : Values(s)[i] = StackWorth(x)
  BY <1>1, ValuesNat
<1>3. StackWorth(x) \in Nat
  BY StackWorthNat
<1>4. SumFunctionOnSet(Values(s), 1 .. n) = n * StackWorth(x)
  BY <1>2, <1>3, SumConstant
<1>5. SumWorth(s) = n * StackWorth(x)
  BY <1>1, <1>4, WorthIs
<1> QED BY <1>1, <1>5 DEF s

\* One more stack of the rest, when there is one.
RestOf(kind, count) == IF count > 0 THEN <<Item(kind, count)>> ELSE <<>>

LEMMA RestWorth ==
    ASSUME NEW kind \in Kinds, NEW n \in 0 .. (Stack - 1)
    PROVE  RestOf(kind, n) \in Seq(Stacks) /\ SumWorth(RestOf(kind, n)) = n * Worth(kind)
<1>0. Stack \in Nat /\ Worth(kind) \in Nat
  BY CoinsAssumption, WorthNat
<1>1. CASE n > 0
  <2>1. Item(kind, n) \in Stacks /\ StackWorth(Item(kind, n)) = n * Worth(kind)
    BY <1>0, <1>1 DEF Item, Stacks, StackWorth
  <2>2. RestOf(kind, n) = <<Item(kind, n)>>
    BY <1>1 DEF RestOf
  <2> QED BY <2>1, <2>2, WorthOfOne
<1>2. CASE n = 0
  <2>1. RestOf(kind, n) = <<>> /\ n * Worth(kind) = 0
    BY <1>0, <1>2 DEF RestOf
  <2> QED BY <2>1, WorthOfNone
<1> QED BY <1>0, <1>1, <1>2

LEMMA CoinsForWorth ==
    ASSUME NEW money \in Nat
    PROVE  CoinsFor(money) \in Seq(Stacks) /\ SumWorth(CoinsFor(money)) = money
<1> DEFINE S == Stack
           Q == Stack * Stack
           c == money \div Q
           r == money % Q
           p == r \div S
           g == money % S
           full == c \div S
           rest == c % S
<1>1. S \in Nat \ {0} /\ S \in Nat /\ Q \in Nat \ {0}
  BY CoinsAssumption
<1> DEFINE A == Copies(full, Item("crystal", Stack))
           B == RestOf("crystal", rest)
           C == RestOf("platinum", p)
           D == RestOf("gold", g)
<1>2. CoinsFor(money) = A \o B \o C \o D
  BY DEF CoinsFor, Copies, RestOf
<1>3. Worth("gold") = 1 /\ Worth("platinum") = S /\ Worth("crystal") = Q
  BY DEF Worth
<1>4. Item("crystal", Stack) \in Stacks /\ StackWorth(Item("crystal", Stack)) = S * Q
  BY <1>1, <1>3 DEF Item, Stacks, StackWorth, Kinds
<1> HIDE DEF Q, S
<1>5. c \in Nat /\ r \in 0 .. (Q - 1) /\ money = Q * c + r
  BY <1>1, DivMod
<1>6. full \in Nat /\ rest \in 0 .. (S - 1) /\ c = S * full + rest
  BY <1>1, <1>5, DivMod
<1> DEFINE t == r % S
<1>7. p \in Nat /\ t \in 0 .. (S - 1) /\ r = S * p + t
  <2>1. r \in Nat
    BY <1>1, <1>5
  <2> QED BY <1>1, <2>1, DivMod
<1> DEFINE u == money \div S
<1>8. u \in Nat /\ g \in 0 .. (S - 1) /\ money = S * u + g
  BY <1>1, DivMod
<1> HIDE DEF c, r, p, g, full, rest, t, u
<1>9. g = t
  <2>1. money = S * (S * c + p) + t
    <3>1. Q * c = S * (S * c)
      BY <1>1, <1>5 DEF Q, S
    <3>2. S * (S * c + p) = S * (S * c) + S * p /\ S * (S * c) \in Int /\ S * p \in Int
      BY <1>1, <1>5, <1>7
    <3> QED BY <1>5, <1>7, <3>1, <3>2
  <2>2. S * c + p \in Int
    BY <1>1, <1>5, <1>7
  <2> DEFINE e == S * c + p
  <2>3. e \in Int /\ S * e + t = S * u + g /\ u \in Int
    BY <1>8, <2>1, <2>2
  <2> HIDE DEF e
  <2>4. t = g
    BY <1>1, <1>7, <1>8, <2>3, SameRest
  <2> QED BY <2>4
<1>10. p \in 0 .. (S - 1)
  <2>1. S * p <= r /\ r < S * S
    BY <1>1, <1>5, <1>7 DEF Q, S
  <2>2. p < S
    <3>1. CASE p >= S
      <4>1. S * p >= S * S
        BY <1>1, <1>7, <3>1
      <4>2. S * p \in Int /\ S * S \in Int /\ r \in Int
        BY <1>1, <1>5, <1>7
      <4> QED BY <2>1, <4>1, <4>2
    <3> QED BY <1>1, <1>7, <3>1
  <2> QED BY <1>1, <1>7, <2>2
<1>11. A \in Seq(Stacks) /\ SumWorth(A) = full * (S * Q)
  BY <1>4, <1>6, CopiesWorth
<1>12. B \in Seq(Stacks) /\ SumWorth(B) = rest * Q
  <2>1. "crystal" \in Kinds /\ rest \in 0 .. (Stack - 1)
    BY <1>6 DEF Kinds, S
  <2> QED BY <1>3, <2>1, RestWorth
<1>13. C \in Seq(Stacks) /\ SumWorth(C) = p * S
  <2>1. "platinum" \in Kinds /\ p \in 0 .. (Stack - 1)
    BY <1>10 DEF Kinds, S
  <2> QED BY <1>3, <2>1, RestWorth
<1>14. D \in Seq(Stacks) /\ SumWorth(D) = g
  <2>1. "gold" \in Kinds /\ g \in 0 .. (Stack - 1)
    BY <1>8 DEF Kinds, S
  <2>2. D \in Seq(Stacks) /\ SumWorth(D) = g * 1
    BY <1>3, <2>1, RestWorth
  <2>3. g * 1 = g
    BY <1>1, <1>8
  <2> QED BY <2>2, <2>3
<1> HIDE DEF A, B, C, D
<1> DEFINE AB == A \o B
           ABC == AB \o C
<1>15. AB \in Seq(Stacks) /\ SumWorth(AB) = SumWorth(A) + SumWorth(B)
  BY <1>11, <1>12, WorthOfBoth
<1> HIDE DEF AB
<1>16. ABC \in Seq(Stacks) /\ SumWorth(ABC) = SumWorth(AB) + SumWorth(C)
  BY <1>13, <1>15, WorthOfBoth
<1> HIDE DEF ABC
<1>17. ABC \o D \in Seq(Stacks) /\ SumWorth(ABC \o D) = SumWorth(ABC) + SumWorth(D)
  BY <1>14, <1>16, WorthOfBoth
<1>18. money = full * (S * Q) + rest * Q + p * S + g
  <2>1. Q * c = full * (S * Q) + rest * Q
    <3>1. Q * (S * full + rest) = Q * (S * full) + Q * rest
      BY <1>1, <1>6
    <3>2. Q * (S * full) = full * (S * Q) /\ Q * rest = rest * Q
      BY <1>1, <1>6
    <3> QED BY <1>6, <3>1, <3>2
  <2>2. S * p = p * S
    BY <1>1, <1>7
  <2>3. full * (S * Q) \in Int /\ rest * Q \in Int /\ p * S \in Int /\ g \in Int
    BY <1>1, <1>6, <1>7, <1>8
  <2> QED BY <1>5, <1>7, <1>9, <2>1, <2>2, <2>3
<1>19. SumWorth(ABC \o D) = full * (S * Q) + rest * Q + p * S + g
  BY <1>11, <1>12, <1>13, <1>14, <1>15, <1>16, <1>17
<1> QED BY <1>2, <1>17, <1>18, <1>19 DEF AB, ABC

LEMMA AddMoneyIs ==
    ASSUME NEW c, Fit(c), NEW h \in CoinHolders, NEW money \in Nat, NEW fits
    PROVE  /\ Fit(AddMoney(c, h, money, fits))
           /\ Total(AddMoney(c, h, money, fits)) = Total(c) + money
<1>1. AddMoney(c, h, money, fits) = AddAll(c, h, CoinsFor(money), fits)
  BY DEF AddMoney, AddAll
<1>2. CoinsFor(money) \in Seq(Stacks) /\ SumWorth(CoinsFor(money)) = money
  BY CoinsForWorth
<1> QED BY <1>1, <1>2, AddAllIs

-----------------------------------------------------------------------------
(* removeMoney.                                                            *)

Before(s, i, j) == \/ StackWorth(s[i]) < StackWorth(s[j])
                   \/ StackWorth(s[i]) = StackWorth(s[j]) /\ i <= j

LEMMA CheapestIs ==
    ASSUME NEW s \in Seq(Stacks), NEW S \in SUBSET (1 .. Len(s)), S # {}
    PROVE  Cheapest(s, S) \in S
<1>1. /\ IsFiniteSet(S)
      /\ \A i \in S : StackWorth(s[i]) \in Int /\ i \in Int
  <2>1. IsFiniteSet(1 .. Len(s)) /\ \A i \in 1 .. Len(s) : s[i] \in Stacks
    BY ValuesNat
  <2>2. IsFiniteSet(S)
    BY <2>1, FS_Subset
  <2>3. ASSUME NEW i \in S PROVE StackWorth(s[i]) \in Int /\ i \in Int
    <3>1. s[i] \in Stacks
      BY <2>1
    <3> QED BY <3>1, StackWorthNat
  <2> QED BY <2>2, <2>3
<1> DEFINE Good == {T \in SUBSET S : T = {} \/ \E i \in T : \A j \in T : Before(s, i, j)}
<1>2. {} \in Good
  OBVIOUS
<1>3. ASSUME NEW T \in SUBSET S, NEW x \in S, x \notin T, T \in Good PROVE T \union {x} \in Good
  <2>1. CASE T = {}
    BY <2>1 DEF Before
  <2>2. CASE T # {}
    <3>1. PICK i \in T : \A j \in T : Before(s, i, j)
      BY <1>3, <2>2
    <3>2. CASE Before(s, i, x)
      BY <3>1, <3>2
    <3>3. CASE ~Before(s, i, x)
      <4>1. \A j \in T \union {x} : Before(s, x, j)
        BY <1>1, <3>1, <3>3 DEF Before
      <4> QED BY <4>1
    <3> QED BY <3>2, <3>3
  <2> QED BY <2>1, <2>2
<1> HIDE DEF Good
<1>4. S \in Good
  BY <1>1, <1>2, <1>3, SetGrows
<1>5. \E i \in S : \A j \in S : Before(s, i, j)
  BY <1>4 DEF Good
<1> QED BY <1>5 DEF Cheapest, Before

PayTurn(s, r) == IF r.left = 0 THEN r ELSE PayWith(s, r, Cheapest(s, r.kept))
PayBase(s, money) == [kept |-> DOMAIN s, left |-> money, change |-> 0]

IsPaying(f, s, money) ==
    f = [n \in 0 .. Len(s) |-> IF n = 0 THEN PayBase(s, money) ELSE PayTurn(s, f[n - 1])]

LEMMA PayIsLoop ==
    ASSUME NEW s, NEW money PROVE Pay(s, money) = (CHOOSE f : IsPaying(f, s, money))[Len(s)]
BY DEF Pay, IsPaying, PayTurn, PayBase

\* What the payment has come to: paid from the stacks that are gone.
Payments(s) == [kept : SUBSET (1 .. Len(s)), left : Nat, change : Nat]

KeptWorth(s, r) == SumFunctionOnSet(Values(s), r.kept)

\* After n turns.
PaidSoFar(s, money, n, r) ==
    /\ r \in Payments(s)
    /\ KeptWorth(s, r) + r.change = SumWorth(s) - money + r.left
    /\ r.left > 0 => r.change = 0 /\ Cardinality(r.kept) = Len(s) - n

LEMMA PayTurnKeeps ==
    ASSUME NEW s \in Seq(Stacks), NEW money \in Nat, SumWorth(s) >= money, NEW n \in 1 .. Len(s),
           NEW r, PaidSoFar(s, money, n - 1, r)
    PROVE  PaidSoFar(s, money, n, PayTurn(s, r))
<1>1. r \in Payments(s) /\ KeptWorth(s, r) + r.change = SumWorth(s) - money + r.left
      /\ (r.left > 0 => r.change = 0 /\ Cardinality(r.kept) = Len(s) - (n - 1))
  BY DEF PaidSoFar
<1>2. r.kept \in SUBSET (1 .. Len(s)) /\ r.left \in Nat /\ r.change \in Nat /\ Len(s) \in Nat
  BY <1>1 DEF Payments
<1>3. CASE r.left = 0
  BY <1>1, <1>3 DEF PaidSoFar, PayTurn
<1>4. CASE r.left # 0
  <2>1. r.left > 0 /\ r.change = 0 /\ Cardinality(r.kept) = Len(s) - (n - 1)
    BY <1>1, <1>2, <1>4
  <2>2. /\ IsFiniteSet(r.kept) /\ Cardinality(r.kept) \in Nat
        /\ \A i \in r.kept : Values(s)[i] = StackWorth(s[i]) /\ Values(s)[i] \in Nat
    <3>1. IsFiniteSet(1 .. Len(s))
          /\ \A i \in 1 .. Len(s) : Values(s)[i] = StackWorth(s[i]) /\ Values(s)[i] \in Nat
      BY ValuesNat
    <3> QED BY <1>2, <3>1, FS_Subset, FS_CardinalityType
  <2>3. r.kept # {}
    <3>1. Cardinality(r.kept) # 0
      BY <1>2, <2>1
    <3> QED BY <3>1, FS_EmptySet
  <2> DEFINE i == Cheapest(s, r.kept)
             w == StackWorth(s[i])
             e == PayWith(s, r, i)
             K == r.kept \ {i}
  <2>4. i \in r.kept
    BY <1>2, <2>3, CheapestIs
  <2>5. PayTurn(s, r) = e
    BY <1>4 DEF PayTurn
  <2>6. IF w <= r.left THEN e = [r EXCEPT !.kept = K, !.left = r.left - w]
        ELSE e = [kept |-> K, left |-> 0, change |-> w - r.left]
    BY DEF PayWith, Change
  <2>7. w \in Nat /\ Values(s)[i] = w
    BY <2>2, <2>4
  <2>8. Cardinality(K) = Cardinality(r.kept) - 1
    BY <2>2, <2>4, FS_RemoveElement
  <2>9. SumFunctionOnSet(Values(s), r.kept) = w + SumFunctionOnSet(Values(s), K)
    <3>1. \A x \in r.kept : Values(s)[x] \in Int
      BY <2>2
    <3>2. SumFunctionOnSet(Values(s), r.kept) = Values(s)[i] + SumFunctionOnSet(Values(s), r.kept \ {i})
      BY <2>2, <2>4, <3>1, SumWithout
    <3> QED BY <2>7, <3>2
  <2>10. SumFunctionOnSet(Values(s), K) \in Int /\ SumFunctionOnSet(Values(s), r.kept) \in Int
    <3>1. IsFiniteSet(K) /\ (\A x \in K : Values(s)[x] \in Int) /\ \A x \in r.kept : Values(s)[x] \in Int
      BY <2>2, FS_Subset
    <3>2. SumFunctionOnSet(Values(s), K) \in Int
      BY <3>1, SumType
    <3>3. SumFunctionOnSet(Values(s), r.kept) \in Int
      BY <2>2, <3>1, SumType
    <3> QED BY <3>2, <3>3
  <2>11. SumWorth(s) \in Nat
    BY WorthType
  <2>12. K \in SUBSET (1 .. Len(s))
    BY <1>2
  <2> HIDE DEF i, w, e, K
  <2>13. CASE w <= r.left
    <3>1. e = [r EXCEPT !.kept = K, !.left = r.left - w]
      BY <2>6, <2>13
    <3>2. e.kept = K /\ e.left = r.left - w /\ e.change = r.change /\ e \in Payments(s)
      <4>1. r.left - w \in Nat
        BY <1>2, <2>7, <2>13
      <4>2. r = [kept |-> r.kept, left |-> r.left, change |-> r.change]
        BY <1>1 DEF Payments
      <4>3. e = [kept |-> K, left |-> r.left - w, change |-> r.change]
        BY <3>1, <4>2
      <4> QED BY <1>2, <2>12, <4>1, <4>3 DEF Payments
    <3>3. KeptWorth(s, e) + e.change = SumWorth(s) - money + e.left
      <4>1. PICK a, b, q, z : /\ a = SumFunctionOnSet(Values(s), r.kept) /\ b = SumFunctionOnSet(Values(s), K)
                              /\ q = SumWorth(s) /\ z = r.left
        OBVIOUS
      <4>2. /\ a = w + b /\ a + 0 = q - money + z /\ a \in Int /\ b \in Int /\ q \in Int /\ z \in Int
            /\ w \in Int /\ money \in Int
        BY <1>1, <1>2, <2>1, <2>7, <2>9, <2>10, <2>11, <4>1 DEF KeptWorth
      <4>3. b + 0 = q - money + (z - w)
        BY ONLY <4>2
      <4> QED BY <2>1, <3>2, <4>1, <4>3 DEF KeptWorth
    <3>4. Cardinality(e.kept) = Len(s) - n /\ e.change = 0
      BY <1>2, <2>1, <2>2, <2>8, <3>2
    <3> QED BY <2>5, <3>2, <3>3, <3>4 DEF PaidSoFar
  <2>14. CASE ~(w <= r.left)
    <3>1. e = [kept |-> K, left |-> 0, change |-> w - r.left]
      BY <2>6, <2>14
    <3>2. e.kept = K /\ e.left = 0 /\ e.change = w - r.left /\ e \in Payments(s)
      BY <1>2, <2>7, <2>12, <2>14, <3>1 DEF Payments
    <3>3. KeptWorth(s, e) + e.change = SumWorth(s) - money + e.left
      BY <1>1, <1>2, <2>1, <2>7, <2>9, <2>10, <2>11, <3>2 DEF KeptWorth
    <3> QED BY <2>5, <3>2, <3>3 DEF PaidSoFar
  <2> QED BY <2>13, <2>14
<1> QED BY <1>3, <1>4

IsPayTurns(f, s, money) ==
    /\ f[0] = PayBase(s, money)
    /\ \A n \in 1 .. Len(s) : f[n] = PayTurn(s, f[n - 1])

\* PayTurn where it is defined, as a function of payments.
TurnOf(s, r) == IF PayTurn(s, r) \in Payments(s) THEN PayTurn(s, r) ELSE PayBase(s, 0)

LEMMA PayTurnsExist ==
    ASSUME NEW s \in Seq(Stacks), NEW money \in Nat, SumWorth(s) >= money
    PROVE  \E f : IsPaying(f, s, money) /\ IsPayTurns(f, s, money)
                  /\ \A n \in 0 .. Len(s) : PaidSoFar(s, money, n, f[n])
<1> DEFINE N == Len(s)
           V == Payments(s)
           step == [t \in V \X (1 .. N) |-> TurnOf(s, t[1])]
           base == PayBase(s, money)
<1>1. N \in Nat /\ DOMAIN s = 1 .. N
  OBVIOUS
<1>2. base \in V /\ PayBase(s, 0) \in V
  BY <1>1 DEF PayBase, Payments
<1>3. IsStep(step, N, V)
  BY <1>2 DEF IsStep, TurnOf
<1>4. \A r \in V, n \in 1 .. N : step[<<r, n>>] = TurnOf(s, r)
  OBVIOUS
<1> HIDE DEF N, V, step, base
<1>5. PICK h : IsTurns(h, N, V, base, step)
  BY <1>1, <1>2, <1>3, TurnsExist
<1>6. h \in [0 .. N -> V] /\ h[0] = base /\ \A i \in 1 .. N : h[i] = step[<<h[i - 1], i>>]
  BY <1>5 DEF IsTurns
<1>7. ASSUME NEW i \in 1 .. N PROVE h[i] = TurnOf(s, h[i - 1])
  <2>1. h[i - 1] \in V
    BY <1>1, <1>6
  <2> QED BY <1>4, <1>6, <2>1
<1> DEFINE Bad == {n \in Nat : n <= N /\ ~PaidSoFar(s, money, n, h[n])}
<1>8. 0 \notin Bad
  <2>1. PaidSoFar(s, money, 0, base)
    <3>1. base.kept = 1 .. Len(s) /\ base.left = money /\ base.change = 0 /\ base \in Payments(s)
      BY <1>1, <1>2 DEF PayBase, base, V, N
    <3>2. KeptWorth(s, base) = SumWorth(s) /\ SumWorth(s) \in Nat
      BY <3>1, WorthIs, WorthType DEF KeptWorth
    <3>3. Cardinality(1 .. Len(s)) = Len(s)
      <4>1. Len(s) \in Int /\ 1 \in Int /\ Len(s) \in Nat
        BY <1>1 DEF N
      <4>2. Cardinality(1 .. Len(s)) = IF 1 > Len(s) THEN 0 ELSE Len(s) - 1 + 1
        BY <4>1, FS_Interval
      <4> QED BY <4>1, <4>2
    <3> QED BY <1>1, <3>1, <3>2, <3>3 DEF PaidSoFar, N
  <2> QED BY <1>6, <2>1
<1>9. ASSUME NEW n \in Nat, n + 1 \in Bad PROVE n \in Bad
  <2>1. n + 1 \in 1 .. N /\ (n + 1) - 1 = n /\ n <= N
    BY <1>1, <1>9
  <2>2. SUFFICES ASSUME PaidSoFar(s, money, n, h[n]) PROVE FALSE
    BY <2>1
  <2>3. PaidSoFar(s, money, n + 1, PayTurn(s, h[n]))
    <3>1. PICK r, k : r = h[n] /\ k = n + 1
      OBVIOUS
    <3>2. k \in 1 .. Len(s) /\ PaidSoFar(s, money, k - 1, r)
      BY <2>1, <2>2, <3>1 DEF N
    <3>3. PaidSoFar(s, money, k, PayTurn(s, r))
      BY <3>2, PayTurnKeeps
    <3> QED BY <3>1, <3>3
  <2>4. h[n + 1] = PayTurn(s, h[n])
    <3>1. h[n + 1] = TurnOf(s, h[n])
      BY <1>7, <2>1
    <3>2. PayTurn(s, h[n]) \in Payments(s)
      BY <2>3 DEF PaidSoFar
    <3> QED BY <3>1, <3>2 DEF TurnOf
  <2> QED BY <1>9, <2>3, <2>4
<1>10. Bad = {}
  BY <1>8, <1>9, NoLeast
<1>11. \A n \in 0 .. N : PaidSoFar(s, money, n, h[n])
  BY <1>1, <1>10
<1>12. ASSUME NEW n \in 1 .. N PROVE h[n] = PayTurn(s, h[n - 1])
  <2>1. h[n] = TurnOf(s, h[n - 1])
    BY <1>7
  <2>2. PICK r : r = h[n - 1]
    OBVIOUS
  <2>3. PaidSoFar(s, money, n - 1, r)
    BY <1>1, <1>11, <2>2
  <2>4. PaidSoFar(s, money, n, PayTurn(s, r))
    <3>1. n \in 1 .. Len(s)
      BY DEF N
    <3> QED BY <2>3, <3>1, PayTurnKeeps
  <2>5. PayTurn(s, r) \in Payments(s)
    BY <2>4 DEF PaidSoFar
  <2> QED BY <2>1, <2>2, <2>5 DEF TurnOf
<1>13. IsPaying(h, s, money)
  <2>1. h = [n \in 0 .. N |-> h[n]]
    BY <1>6
  <2>2. \A n \in 0 .. N : h[n] = IF n = 0 THEN PayBase(s, money) ELSE PayTurn(s, h[n - 1])
    BY <1>1, <1>6, <1>12 DEF base
  <2> QED BY <2>1, <2>2 DEF IsPaying, N
<1>14. IsPayTurns(h, s, money)
  BY <1>6, <1>12 DEF IsPayTurns, base, N
<1> QED BY <1>11, <1>13, <1>14 DEF N

LEMMA PayIs ==
    ASSUME NEW s \in Seq(Stacks), NEW money \in Nat, SumWorth(s) >= money
    PROVE  /\ Pay(s, money) \in Payments(s)
           /\ KeptWorth(s, Pay(s, money)) + Pay(s, money).change = SumWorth(s) - money
<1>1. PICK h : IsPaying(h, s, money) /\ IsPayTurns(h, s, money)
               /\ \A n \in 0 .. Len(s) : PaidSoFar(s, money, n, h[n])
  BY PayTurnsExist
<1> DEFINE c == CHOOSE f : IsPaying(f, s, money)
<1>2. IsPaying(c, s, money)
  BY <1>1
<1> HIDE DEF c
<1>3. Len(s) \in Nat
  OBVIOUS
<1>4. GoAlong(c, h, Len(s))
  <2>1. c[0] = PayBase(s, money) /\ \A n \in 1 .. Len(s) : c[n] = PayTurn(s, c[n - 1])
    BY <1>2, <1>3 DEF IsPaying
  <2> QED BY <1>1, <2>1 DEF IsPayTurns, GoAlong
<1>5. Pay(s, money) = h[Len(s)]
  BY <1>3, <1>4, PayIsLoop, TurnsAgree DEF c
<1>6. PICK r : r = h[Len(s)]
  OBVIOUS
<1>7. PaidSoFar(s, money, Len(s), r)
  BY <1>1, <1>3, <1>6
<1>8. r \in Payments(s) /\ KeptWorth(s, r) + r.change = SumWorth(s) - money + r.left
      /\ (r.left > 0 => r.change = 0 /\ Cardinality(r.kept) = Len(s) - Len(s))
  BY <1>7 DEF PaidSoFar
<1>9. r.kept \in SUBSET (1 .. Len(s)) /\ r.left \in Nat /\ r.change \in Nat
  BY <1>8 DEF Payments
<1>10. SumWorth(s) \in Nat
  BY WorthType
<1>11. r.left = 0
  <2>1. SUFFICES ASSUME r.left > 0 PROVE FALSE
    BY <1>9
  <2>2. r.change = 0 /\ Cardinality(r.kept) = 0
    BY <1>3, <1>8, <2>1
  <2>3. r.kept = {}
    <3>1. IsFiniteSet(1 .. Len(s))
      BY ValuesNat
    <3> QED BY <1>9, <2>2, <3>1, FS_Subset, FS_EmptySet
  <2>4. KeptWorth(s, r) = 0
    BY <2>3, SumEmpty DEF KeptWorth
  <2> QED BY <1>8, <1>9, <1>10, <2>1, <2>2, <2>4
<1>12. SumWorth(s) - money + r.left = SumWorth(s) - money
  BY <1>10, <1>11
<1> QED BY <1>5, <1>6, <1>8, <1>12

\* The stacks that stay.
Keeping(t, s, S, i) == IF i \in S THEN Append(t, s[i]) ELSE t

IsKeeping(g, s, S) ==
    g = [p \in SUBSET DOMAIN [i \in DOMAIN s |-> i] |->
            IF p = {} THEN <<>> ELSE Keeping(g[p \ {Latest(p)}], s, S, [i \in DOMAIN s |-> i][Latest(p)])]

LEMMA StacksAtIsLoop ==
    ASSUME NEW s, NEW S
    PROVE  StacksAt(s, S) = (CHOOSE g : IsKeeping(g, s, S))[DOMAIN [i \in DOMAIN s |-> i]]
BY DEF StacksAt, FoldLeftDomain, FoldLeft, MapThenFoldSet, Max, Latest, IsKeeping, Keeping

IsKeepTurns(k, s, S) ==
    /\ k \in [0 .. Len(s) -> Seq(Stacks)] /\ k[0] = <<>>
    /\ \A i \in 1 .. Len(s) : k[i] = Keeping(k[i - 1], s, S, i)
    /\ StacksAt(s, S) = k[Len(s)]

LEMMA PositionsAre ==
    ASSUME NEW s \in Seq(Stacks)
    PROVE  /\ Len(s) \in Nat /\ DOMAIN [i \in DOMAIN s |-> i] = 1 .. Len(s)
           /\ \A x \in 1 .. Len(s) : [i \in DOMAIN s |-> i][x] = x /\ s[x] \in Stacks
OBVIOUS

LEMMA KeepTurns ==
    ASSUME NEW s \in Seq(Stacks), NEW S
    PROVE  \E k : IsKeepTurns(k, s, S)
<1> DEFINE n == Len(s)
           V == Seq(Stacks)
           E(v, i) == Keeping(v, s, S, i)
           step == [t \in V \X (1 .. n) |-> E(t[1], t[2])]
           at == [i \in DOMAIN s |-> i]
<1>1. n \in Nat /\ DOMAIN at = 1 .. n /\ \A x \in 1 .. n : at[x] = x /\ s[x] \in Stacks
  BY PositionsAre
<1>2. \A v \in V, i \in 1 .. n : E(v, i) \in V
  BY <1>1 DEF Keeping
<1> HIDE DEF E, n
<1>3. \A v \in V, i \in 1 .. n : step[<<v, i>>] = E(v, i)
  OBVIOUS
<1>4. IsStep(step, n, V)
  BY <1>2 DEF IsStep
<1>a. <<>> \in V
  OBVIOUS
<1>b. StacksAt(s, S) = (CHOOSE g : IsKeeping(g, s, S))[DOMAIN at]
  BY StacksAtIsLoop
<1>c. \A g : IsKeeping(g, s, S) <=>
            g = [p \in SUBSET DOMAIN at |-> IF p = {} THEN <<>> ELSE E(g[p \ {Latest(p)}], at[Latest(p)])]
  BY DEF IsKeeping, E
<1> HIDE DEF V, step, at
<1>5. PICK g : IsLeft(g, n, <<>>, step)
  BY <1>1, LeftExists
<1>6. HasTurns(g, n, V, <<>>, step)
  BY <1>1, <1>4, <1>5, <1>a, LeftTurns
<1>7. /\ \A p \in SUBSET (1 .. n) : g[p] \in V
      /\ \E k : IsTurns(k, n, V, <<>>, step) /\ k[n] = g[1 .. n]
  BY <1>6 DEF HasTurns
<1>8. \A p \in SUBSET (1 .. n) : p # {} => Latest(p) \in 1 .. n /\ p \ {Latest(p)} \in SUBSET (1 .. n)
  BY <1>1, LatestOut
<1>9. IsKeeping(g, s, S)
  <2> DEFINE Body1(p) == IF p = {} THEN <<>> ELSE step[<<g[p \ {Latest(p)}], Latest(p)>>]
             Body2(p) == IF p = {} THEN <<>> ELSE E(g[p \ {Latest(p)}], at[Latest(p)])
  <2>1. ASSUME NEW p \in SUBSET (1 .. n) PROVE Body1(p) = Body2(p)
    <3>1. CASE p = {}
      BY <3>1
    <3>2. CASE p # {}
      <4>1. Latest(p) \in 1 .. n /\ g[p \ {Latest(p)}] \in V
        BY <1>7, <1>8, <3>2
      <4>2. at[Latest(p)] = Latest(p)
        BY <1>1, <4>1
      <4>3. step[<<g[p \ {Latest(p)}], Latest(p)>>] = E(g[p \ {Latest(p)}], Latest(p))
        BY <1>3, <4>1
      <4> QED BY <3>2, <4>2, <4>3
    <3> QED BY <3>1, <3>2
  <2>2. g = [p \in SUBSET (1 .. n) |-> Body1(p)]
    BY <1>5 DEF IsLeft
  <2>3. g = [p \in SUBSET DOMAIN at |-> Body2(p)]
    BY <1>1, <2>1, <2>2
  <2> QED BY <1>c, <2>3
<1> DEFINE q == CHOOSE k : IsKeeping(k, s, S)
<1>10. IsKeeping(q, s, S)
  BY <1>9
<1>d. StacksAt(s, S) = q[1 .. n]
  BY <1>1, <1>b
<1> HIDE DEF q
<1>11. /\ \A p \in SUBSET (1 .. n) : q[p] = IF p = {} THEN <<>> ELSE E(q[p \ {Latest(p)}], at[Latest(p)])
       /\ \A p \in SUBSET (1 .. n) : g[p] = IF p = {} THEN <<>> ELSE E(g[p \ {Latest(p)}], at[Latest(p)])
  <2>1. q = [p \in SUBSET DOMAIN at |-> IF p = {} THEN <<>> ELSE E(q[p \ {Latest(p)}], at[Latest(p)])]
    BY <1>10, <1>c
  <2>2. g = [p \in SUBSET DOMAIN at |-> IF p = {} THEN <<>> ELSE E(g[p \ {Latest(p)}], at[Latest(p)])]
    BY <1>9, <1>c
  <2> QED BY <1>1, <2>1, <2>2
<1>12. \A p \in SUBSET (1 .. n) : q[p] = g[p]
  <2>1. GoOnAlike(q, g, n)
    BY <1>11 DEF GoOnAlike
  <2> QED BY <1>1, <2>1, LeftsAgree DEF AreAlike
<1>13. StacksAt(s, S) = g[1 .. n]
  <2>1. 1 .. n \in SUBSET (1 .. n)
    OBVIOUS
  <2> QED BY <1>12, <1>d, <2>1
<1>14. PICK k : IsTurns(k, n, V, <<>>, step) /\ k[n] = g[1 .. n]
  BY <1>7
<1>15. k \in [0 .. n -> V] /\ k[0] = <<>> /\ \A i \in 1 .. n : k[i] = step[<<k[i - 1], i>>]
  BY <1>14 DEF IsTurns
<1>16. \A i \in 1 .. n : k[i] = E(k[i - 1], i)
  <2>1. \A i \in 1 .. n : k[i - 1] \in V
    BY <1>1, <1>15
  <2> QED BY <1>3, <1>15, <2>1
<1>17. IsKeepTurns(k, s, S)
  BY <1>13, <1>14, <1>15, <1>16 DEF IsKeepTurns, E, V, n
<1> QED BY <1>17

\* The worth of those of the first i that are in S.
WorthIn(s, S, i) == SumFunctionOnSet(Values(s), S \intersect (1 .. i))

OneMoreIn(s, S, i) ==
    /\ i \in S => WorthIn(s, S, i) = WorthIn(s, S, i - 1) + StackWorth(s[i])
    /\ i \notin S => WorthIn(s, S, i) = WorthIn(s, S, i - 1)
    /\ WorthIn(s, S, i - 1) \in Int /\ StackWorth(s[i]) \in Int

LEMMA WorthInIs ==
    ASSUME NEW s \in Seq(Stacks), NEW S, NEW i \in 1 .. Len(s)
    PROVE  OneMoreIn(s, S, i)
<1> DEFINE T == S \intersect (1 .. (i - 1))
<1>1. Len(s) \in Nat /\ IsFiniteSet(1 .. Len(s))
      /\ \A j \in 1 .. Len(s) : Values(s)[j] = StackWorth(s[j]) /\ Values(s)[j] \in Int
  BY ValuesNat
<1>2. T \subseteq 1 .. Len(s) /\ i \notin T
      /\ S \intersect (1 .. i) = (IF i \in S THEN T \union {i} ELSE T)
  BY <1>1
<1>3. IsFiniteSet(T) /\ (\A x \in T : Values(s)[x] \in Int) /\ \A x \in T \union {i} : Values(s)[x] \in Int
  BY <1>1, <1>2, FS_Subset
<1> HIDE DEF T
<1>4. SumFunctionOnSet(Values(s), T) \in Int
  BY <1>3, SumType
<1>5. SumFunctionOnSet(Values(s), T \union {i}) = SumFunctionOnSet(Values(s), T) + Values(s)[i]
  BY <1>2, <1>3, SumOneMore
<1>6. Values(s)[i] = StackWorth(s[i]) /\ Values(s)[i] \in Int
  BY <1>1
<1>9. WorthIn(s, S, i - 1) = SumFunctionOnSet(Values(s), T)
  BY DEF WorthIn, T
<1>7. CASE i \in S
  <2>1. S \intersect (1 .. i) = T \union {i}
    BY <1>2, <1>7
  <2>2. WorthIn(s, S, i) = SumFunctionOnSet(Values(s), T) + Values(s)[i]
    BY <1>5, <2>1 DEF WorthIn
  <2> QED BY <1>4, <1>6, <1>7, <1>9, <2>2 DEF OneMoreIn
<1>8. CASE i \notin S
  <2>1. S \intersect (1 .. i) = T
    BY <1>2, <1>8
  <2>2. SumFunctionOnSet(Values(s), S \intersect (1 .. i)) = SumFunctionOnSet(Values(s), T)
    BY <2>1
  <2>3. WorthIn(s, S, i) = WorthIn(s, S, i - 1)
    BY <1>9, <2>2 DEF WorthIn
  <2> QED BY <1>4, <1>6, <1>8, <1>9, <2>3 DEF OneMoreIn
<1> QED BY <1>7, <1>8

LEMMA StacksAtIs ==
    ASSUME NEW s \in Seq(Stacks), NEW S \in SUBSET (1 .. Len(s))
    PROVE  /\ StacksAt(s, S) \in Seq(Stacks) /\ Len(StacksAt(s, S)) <= Len(s)
           /\ SumWorth(StacksAt(s, S)) = SumFunctionOnSet(Values(s), S)
<1>1. PICK k : IsKeepTurns(k, s, S)
  BY KeepTurns
<1>2. /\ k \in [0 .. Len(s) -> Seq(Stacks)] /\ k[0] = <<>>
      /\ \A i \in 1 .. Len(s) : k[i] = Keeping(k[i - 1], s, S, i)
      /\ StacksAt(s, S) = k[Len(s)]
  BY <1>1 DEF IsKeepTurns
<1>3. Len(s) \in Nat /\ \A i \in 1 .. Len(s) : s[i] \in Stacks
  OBVIOUS
<1> DEFINE Fine(m) == Len(k[m]) <= m /\ SumWorth(k[m]) = WorthIn(s, S, m)
           Bad == {m \in Nat : m <= Len(s) /\ ~Fine(m)}
<1>4. 0 \notin Bad
  <2>1. S \intersect (1 .. 0) = {} /\ Len(<<>>) = 0
    OBVIOUS
  <2> QED BY <1>2, <2>1, SumEmpty, WorthOfNone DEF WorthIn
<1>5. ASSUME NEW m \in Nat, m + 1 \in Bad PROVE m \in Bad
  <2>1. m + 1 \in 1 .. Len(s) /\ (m + 1) - 1 = m /\ m <= Len(s) /\ m \in 0 .. Len(s)
    BY <1>3, <1>5
  <2>2. SUFFICES ASSUME Fine(m) PROVE FALSE
    BY <2>1
  <2>3. PICK t, x, i : t = k[m] /\ x = s[m + 1] /\ i = m + 1
    OBVIOUS
  <2>4. t \in Seq(Stacks) /\ x \in Stacks /\ Len(t) <= m /\ Len(t) \in Nat /\ SumWorth(t) = WorthIn(s, S, m)
    BY <1>2, <1>3, <2>1, <2>2, <2>3
  <2>5. k[m + 1] = IF i \in S THEN Append(t, x) ELSE t
    BY <1>2, <2>1, <2>3 DEF Keeping
  <2>6. /\ i \in S => WorthIn(s, S, m + 1) = WorthIn(s, S, m) + StackWorth(x)
        /\ i \notin S => WorthIn(s, S, m + 1) = WorthIn(s, S, m)
        /\ WorthIn(s, S, m) \in Int
    <3>1. OneMoreIn(s, S, i)
      BY <2>1, <2>3, WorthInIs
    <3> QED BY <2>1, <2>3, <3>1 DEF OneMoreIn
  <2>7. Append(t, x) \in Seq(Stacks) /\ SumWorth(Append(t, x)) = SumWorth(t) + StackWorth(x)
        /\ Len(Append(t, x)) = Len(t) + 1
    BY <2>4, WorthAppend
  <2>8. CASE i \in S
    <3>1. k[m + 1] = Append(t, x)
      BY <2>5, <2>8
    <3>2. SumWorth(k[m + 1]) = WorthIn(s, S, m + 1)
      BY <2>4, <2>6, <2>7, <2>8, <3>1
    <3>3. Len(k[m + 1]) <= m + 1
      BY <2>4, <2>7, <3>1
    <3> QED BY <1>5, <3>2, <3>3
  <2>9. CASE i \notin S
    BY <1>5, <2>4, <2>5, <2>6, <2>9
  <2> QED BY <2>8, <2>9
<1>6. Bad = {}
  BY <1>4, <1>5, NoLeast
<1>7. Fine(Len(s)) /\ k[Len(s)] \in Seq(Stacks)
  <2>1. Len(s) \in 0 .. Len(s) /\ Len(s) <= Len(s)
    BY <1>3
  <2> QED BY <1>2, <1>3, <1>6, <2>1
<1>8. S \intersect (1 .. Len(s)) = S
  OBVIOUS
<1> QED BY <1>2, <1>7, <1>8 DEF WorthIn

LEMMA RemoveMoneyKeeps ==
    ASSUME NEW c, Fit(c), NEW money \in Nat, SumWorth(c["purse"]) >= money, NEW fits
    PROVE  LET r == Pay(c["purse"], money)
               e == AddMoney([c EXCEPT !["purse"] = StacksAt(@, r.kept)], "purse", r.change, fits)
           IN  Fit(e) /\ Total(e) = Total(c) - money
<1> DEFINE s == c["purse"]
           r == Pay(s, money)
           t == StacksAt(s, r.kept)
           paid == [c EXCEPT !["purse"] = t]
           e == AddMoney(paid, "purse", r.change, fits)
<1>1. c \in Pockets /\ s \in Seq(Stacks) /\ Len(s) <= PurseRoom /\ PurseRoom \in Nat /\ "purse" \in CoinHolders
  BY CoinsAssumption DEF Fit, Pockets, CoinHolders
<1>2. r \in Payments(s) /\ KeptWorth(s, r) + r.change = SumWorth(s) - money
  BY <1>1, PayIs
<1>3. r.kept \in SUBSET (1 .. Len(s)) /\ r.change \in Nat
  BY <1>2 DEF Payments
<1> HIDE DEF r
<1>4. t \in Seq(Stacks) /\ Len(t) <= Len(s) /\ SumWorth(t) = KeptWorth(s, r)
  BY <1>1, <1>3, StacksAtIs DEF KeptWorth
<1> HIDE DEF t
<1>5. IsOther(paid, c, "purse", t)
  BY <1>1, <1>4, TotalChanged
<1>6. paid \in Pockets /\ Total(paid) = Total(c) - SumWorth(s) + SumWorth(t) /\ paid["purse"] = t
  BY <1>5 DEF IsOther
<1>7. Fit(paid)
  <2>1. Len(t) \in Nat /\ Len(s) \in Nat
    BY <1>1, <1>4
  <2> QED BY <1>1, <1>4, <1>6, <2>1 DEF Fit
<1> HIDE DEF paid
<1>8. Fit(e) /\ Total(e) = Total(paid) + r.change
  BY <1>1, <1>3, <1>7, AddMoneyIs
<1>9. SumWorth(s) \in Nat /\ SumWorth(t) \in Nat /\ Total(c) \in Nat
  BY <1>1, <1>4, WorthType, TotalNat
<1> HIDE DEF s, e
<1>10. Total(e) = Total(c) - money
  BY <1>2, <1>3, <1>4, <1>6, <1>8, <1>9
<1>11. [c EXCEPT !["purse"] = StacksAt(@, r.kept)] = paid
  BY <1>1 DEF paid, t, s, Pockets
<1> QED BY <1>8, <1>10, <1>11 DEF e, r, s

-----------------------------------------------------------------------------
(* removeItemOfType.                                                       *)

Takings == [s : Seq(Stacks), left : Nat]

\* One turn of its loop.
TakesOne(r, v, x, kind) ==
    /\ r \in Takings /\ Len(r.s) <= Len(v.s) + 1
    /\ SumWorth(r.s) = SumWorth(v.s) + StackWorth(x) - (v.left - r.left) * Worth(kind)
    /\ r.left > 0 => v.left > 0 /\ v.left - r.left = (IF x.kind = kind THEN x.count ELSE 0)

LEMMA TakeOfTypeIs ==
    ASSUME NEW v \in Takings, NEW x \in Stacks, NEW kind \in Kinds
    PROVE  TakesOne(TakeOfType(v, x, kind), v, x, kind)
<1> DEFINE r == TakeOfType(v, x, kind)
           W == Worth(kind)
<1>1. /\ v = [s |-> v.s, left |-> v.left] /\ v.s \in Seq(Stacks) /\ v.left \in Nat
      /\ x.count \in 1 .. Stack /\ Stack \in Nat /\ x.kind \in Kinds
  BY CoinsAssumption DEF Takings, Stacks
<1>2. W \in Nat /\ SumWorth(v.s) \in Nat /\ StackWorth(x) \in Nat
  BY <1>1, WorthNat, WorthType, StackWorthNat
<1>3. /\ Append(v.s, x) \in Seq(Stacks) /\ SumWorth(Append(v.s, x)) = SumWorth(v.s) + StackWorth(x)
      /\ Len(Append(v.s, x)) = Len(v.s) + 1 /\ Len(v.s) \in Nat
  BY <1>1, WorthAppend
<1>4. CASE x.kind # kind \/ v.left = 0
  <2>1. r = [s |-> Append(v.s, x), left |-> v.left]
    BY <1>1, <1>4 DEF TakeOfType
  <2>2. (v.left - r.left) * W = 0
    <3>1. v.left - r.left = 0 /\ 0 * W = 0
      BY <1>1, <1>2, <2>1
    <3> QED BY <3>1
  <2> HIDE DEF r
  <2>3. r.s = Append(v.s, x) /\ r.left = v.left /\ r \in Takings
    BY <1>1, <1>3, <2>1 DEF Takings
  <2>4. r.left > 0 => v.left > 0 /\ v.left - r.left = (IF x.kind = kind THEN x.count ELSE 0)
    BY <1>1, <1>4, <2>3
  <2> HIDE DEF W
  <2>5. SumWorth(r.s) = SumWorth(v.s) + StackWorth(x) - (v.left - r.left) * W
    BY <1>2, <1>3, <2>2, <2>3
  <2> QED BY <1>3, <2>3, <2>4, <2>5 DEF TakesOne, W, r
<1>5. CASE x.kind = kind /\ v.left # 0 /\ x.count > v.left
  <2> DEFINE m == x.count - v.left
             y == Item(kind, m)
  <2>1. r = [s |-> Append(v.s, y), left |-> 0]
    BY <1>5 DEF TakeOfType
  <2>2. m \in 1 .. Stack /\ m \in Nat /\ x.count = m + v.left
    BY <1>1, <1>5
  <2>3. y \in Stacks /\ StackWorth(y) = m * W /\ StackWorth(x) = x.count * W
    BY <1>5, <2>2 DEF Item, Stacks, StackWorth
  <2> HIDE DEF m, y, r
  <2>4. Append(v.s, y) \in Seq(Stacks) /\ SumWorth(Append(v.s, y)) = SumWorth(v.s) + StackWorth(y)
        /\ Len(Append(v.s, y)) = Len(v.s) + 1
    BY <1>1, <2>3, WorthAppend
  <2>5. r.s = Append(v.s, y) /\ r.left = 0 /\ r \in Takings
    BY <2>1, <2>4 DEF Takings
  <2> HIDE DEF W
  <2>6. (m + v.left) * W = m * W + v.left * W /\ m * W \in Int /\ v.left * W \in Int
    <3>1. PICK a : a = v.left
      OBVIOUS
    <3>2. a \in Nat /\ m \in Nat /\ W \in Nat
      BY <1>1, <1>2, <2>2, <3>1
    <3>3. (m + a) * W = m * W + a * W
      BY <3>2, SplitProduct
    <3>4. m * W \in Int /\ a * W \in Int
      BY <3>2, ProductNat
    <3> QED BY <3>1, <3>3, <3>4
  <2>7. v.left - r.left = v.left
    BY <1>1, <2>5
  <2>8. SumWorth(r.s) = SumWorth(v.s) + StackWorth(x) - (v.left - r.left) * W
    BY <1>2, <2>2, <2>3, <2>4, <2>5, <2>6, <2>7
  <2> QED BY <1>3, <2>4, <2>5, <2>8 DEF TakesOne, W, r
<1>6. CASE x.kind = kind /\ v.left # 0 /\ ~(x.count > v.left)
  <2>1. r = [s |-> v.s, left |-> v.left - x.count]
    BY <1>1, <1>6 DEF TakeOfType
  <2>2. v.left - x.count \in Nat /\ v.left > 0
    BY <1>1, <1>6
  <2> HIDE DEF r
  <2>3. r.s = v.s /\ r.left = v.left - x.count /\ r \in Takings /\ v.left - r.left = x.count
    BY <1>1, <2>1, <2>2 DEF Takings
  <2>4. StackWorth(x) = x.count * W
    BY <1>6 DEF StackWorth
  <2> HIDE DEF W
  <2>5. SumWorth(r.s) = SumWorth(v.s) + StackWorth(x) - (v.left - r.left) * W
    BY <1>2, <2>3, <2>4
  <2> QED BY <1>3, <1>6, <2>2, <2>3, <2>5 DEF TakesOne, W, r
<1> QED BY <1>4, <1>5, <1>6

Taking(s, kind, count) ==
    FoldLeft(LAMBDA v, x : TakeOfType(v, x, kind), [s |-> <<>>, left |-> count], s)

IsTaking(g, s, kind, count) ==
    g = [p \in SUBSET DOMAIN s |->
            IF p = {} THEN [s |-> <<>>, left |-> count]
            ELSE TakeOfType(g[p \ {Latest(p)}], s[Latest(p)], kind)]

LEMMA TakingIsLoop ==
    ASSUME NEW s, NEW kind, NEW count
    PROVE  Taking(s, kind, count) = (CHOOSE g : IsTaking(g, s, kind, count))[DOMAIN s]
BY DEF Taking, FoldLeft, MapThenFoldSet, Max, Latest, IsTaking

IsTakeTurns(k, s, kind, count) ==
    /\ k \in [0 .. Len(s) -> Takings] /\ k[0] = [s |-> <<>>, left |-> count]
    /\ \A i \in 1 .. Len(s) : k[i] = TakeOfType(k[i - 1], s[i], kind)
    /\ Taking(s, kind, count) = k[Len(s)]

LEMMA TakeTurns ==
    ASSUME NEW s \in Seq(Stacks), NEW kind \in Kinds, NEW count \in Nat
    PROVE  \E k : IsTakeTurns(k, s, kind, count)
<1> DEFINE n == Len(s)
           V == Takings
           c == [s |-> <<>>, left |-> count]
           E(v, i) == TakeOfType(v, s[i], kind)
           step == [t \in V \X (1 .. n) |-> E(t[1], t[2])]
<1>1. n \in Nat /\ DOMAIN s = 1 .. n /\ \A i \in 1 .. n : s[i] \in Stacks
  OBVIOUS
<1>2. \A v \in V, i \in 1 .. n : E(v, i) \in V
  <2>1. SUFFICES ASSUME NEW v \in V, NEW i \in 1 .. n PROVE E(v, i) \in V
    OBVIOUS
  <2>2. TakesOne(TakeOfType(v, s[i], kind), v, s[i], kind)
    BY <1>1, TakeOfTypeIs
  <2> QED BY <2>2 DEF TakesOne
<1>a. c \in V
  BY DEF Takings
<1> HIDE DEF E, n, c
<1>3. \A v \in V, i \in 1 .. n : step[<<v, i>>] = E(v, i)
  OBVIOUS
<1>4. IsStep(step, n, V)
  BY <1>2 DEF IsStep
<1> HIDE DEF V, step
<1>5. PICK g : IsLeft(g, n, c, step)
  BY <1>1, LeftExists
<1>6. HasTurns(g, n, V, c, step)
  BY <1>1, <1>4, <1>5, <1>a, LeftTurns
<1>7. /\ \A p \in SUBSET (1 .. n) : g[p] \in V
      /\ \E k : IsTurns(k, n, V, c, step) /\ k[n] = g[1 .. n]
  BY <1>6 DEF HasTurns
<1>8. \A p \in SUBSET (1 .. n) : p # {} => Latest(p) \in 1 .. n /\ p \ {Latest(p)} \in SUBSET (1 .. n)
  BY <1>1, LatestOut
<1>9. IsTaking(g, s, kind, count)
  <2> DEFINE Body1(p) == IF p = {} THEN c ELSE step[<<g[p \ {Latest(p)}], Latest(p)>>]
             Body2(p) == IF p = {} THEN c ELSE E(g[p \ {Latest(p)}], Latest(p))
  <2>1. \A p \in SUBSET (1 .. n) : Body1(p) = Body2(p)
    BY <1>3, <1>7, <1>8
  <2>2. g = [p \in SUBSET (1 .. n) |-> Body1(p)]
    BY <1>5 DEF IsLeft
  <2>3. g = [p \in SUBSET DOMAIN s |-> Body2(p)]
    BY <1>1, <2>1, <2>2
  <2> QED BY <2>3 DEF IsTaking, E, c
<1> DEFINE q == CHOOSE k : IsTaking(k, s, kind, count)
<1>10. IsTaking(q, s, kind, count)
  BY <1>9
<1> HIDE DEF q
<1>11. /\ \A p \in SUBSET (1 .. n) : q[p] = IF p = {} THEN c ELSE E(q[p \ {Latest(p)}], Latest(p))
       /\ \A p \in SUBSET (1 .. n) : g[p] = IF p = {} THEN c ELSE E(g[p \ {Latest(p)}], Latest(p))
  BY <1>1, <1>9, <1>10 DEF IsTaking, E, c
<1>12. \A p \in SUBSET (1 .. n) : q[p] = g[p]
  <2>1. GoOnAlike(q, g, n)
    BY <1>11 DEF GoOnAlike
  <2> QED BY <1>1, <2>1, LeftsAgree DEF AreAlike
<1>13. Taking(s, kind, count) = g[1 .. n]
  <2>1. 1 .. n \in SUBSET (1 .. n)
    OBVIOUS
  <2> QED BY <1>1, <1>12, <2>1, TakingIsLoop DEF q
<1>14. PICK k : IsTurns(k, n, V, c, step) /\ k[n] = g[1 .. n]
  BY <1>7
<1>15. k \in [0 .. n -> V] /\ k[0] = c /\ \A i \in 1 .. n : k[i] = step[<<k[i - 1], i>>]
  BY <1>14 DEF IsTurns
<1>16. \A i \in 1 .. n : k[i] = E(k[i - 1], i)
  <2>1. \A i \in 1 .. n : k[i - 1] \in V
    BY <1>1, <1>15
  <2> QED BY <1>3, <1>15, <2>1
<1>17. IsTakeTurns(k, s, kind, count)
  BY <1>13, <1>14, <1>15, <1>16 DEF IsTakeTurns, E, V, n, c
<1> QED BY <1>17

Counts(s, kind) == [i \in DOMAIN s |-> IF s[i].kind = kind THEN s[i].count ELSE 0]
CountUpTo(s, kind, i) == SumFunctionOnSet(Counts(s, kind), 1 .. i)

LEMMA CountUpToIs ==
    ASSUME NEW s \in Seq(Stacks), NEW kind
    PROVE  /\ CountUpTo(s, kind, 0) = 0 /\ CountUpTo(s, kind, Len(s)) = CountOf(s, kind)
           /\ \A i \in 1 .. Len(s) :
                /\ CountUpTo(s, kind, i) = CountUpTo(s, kind, i - 1) + (IF s[i].kind = kind THEN s[i].count ELSE 0)
                /\ CountUpTo(s, kind, i - 1) \in Int /\ s[i].count \in Int
<1>1. \A i \in 1 .. Len(s) : /\ Counts(s, kind)[i] = (IF s[i].kind = kind THEN s[i].count ELSE 0)
                             /\ s[i].count \in Int /\ Counts(s, kind)[i] \in Int
  <2>1. SUFFICES ASSUME NEW i \in 1 .. Len(s)
                 PROVE  /\ Counts(s, kind)[i] = (IF s[i].kind = kind THEN s[i].count ELSE 0)
                        /\ s[i].count \in Int
    OBVIOUS
  <2>2. s[i] \in Stacks
    OBVIOUS
  <2>3. s[i].count \in Int
    BY <2>2, StackWorthNat
  <2> QED BY <2>3 DEF Counts
<1>2. Len(s) \in Nat /\ DOMAIN s = 1 .. Len(s)
  OBVIOUS
<1>3. ASSUME NEW i \in 1 .. Len(s)
      PROVE  /\ CountUpTo(s, kind, i) = CountUpTo(s, kind, i - 1) + (IF s[i].kind = kind THEN s[i].count ELSE 0)
             /\ CountUpTo(s, kind, i - 1) \in Int /\ s[i].count \in Int
  <2>1. SumFunctionOnSet(Counts(s, kind), 1 .. i) = SumFunctionOnSet(Counts(s, kind), 1 .. (i - 1)) + Counts(s, kind)[i]
        /\ SumFunctionOnSet(Counts(s, kind), 1 .. (i - 1)) \in Int
    BY <1>1, <1>2, PrefixSum
  <2> QED BY <1>1, <2>1 DEF CountUpTo
<1>4. CountUpTo(s, kind, 0) = 0
  <2>1. 1 .. 0 = {}
    OBVIOUS
  <2> QED BY <2>1, SumEmpty DEF CountUpTo
<1>5. CountUpTo(s, kind, Len(s)) = CountOf(s, kind)
  BY <1>2 DEF CountUpTo, CountOf, Counts
<1> QED BY <1>3, <1>4, <1>5

LEMMA TakingIs ==
    ASSUME NEW s \in Seq(Stacks), NEW kind \in Kinds, NEW count \in Nat, CountOf(s, kind) >= count
    PROVE  /\ Taking(s, kind, count).s \in Seq(Stacks) /\ Len(Taking(s, kind, count).s) <= Len(s)
           /\ SumWorth(Taking(s, kind, count).s) = SumWorth(s) - count * Worth(kind)
<1> DEFINE W == Worth(kind)
<1>1. PICK k : IsTakeTurns(k, s, kind, count)
  BY TakeTurns
<1>2. /\ k \in [0 .. Len(s) -> Takings] /\ k[0] = [s |-> <<>>, left |-> count]
      /\ \A i \in 1 .. Len(s) : k[i] = TakeOfType(k[i - 1], s[i], kind)
      /\ Taking(s, kind, count) = k[Len(s)]
  BY <1>1 DEF IsTakeTurns
<1>3. Len(s) \in Nat /\ (\A i \in 1 .. Len(s) : s[i] \in Stacks) /\ W \in Nat
  BY WorthNat
<1> DEFINE Fine(m) == /\ Len(k[m].s) <= m
                      /\ SumWorth(k[m].s) + (count - k[m].left) * W = WorthUpTo(s, m)
                      /\ k[m].left > 0 => count - k[m].left = CountUpTo(s, kind, m)
           Bad == {m \in Nat : m <= Len(s) /\ ~Fine(m)}
<1>4. 0 \notin Bad
  <2>1. k[0].s = <<>> /\ k[0].left = count /\ Len(<<>>) = 0
    BY <1>2
  <2>2. count - count = 0 /\ 0 * W = 0
    BY <1>3
  <2> QED BY <2>1, <2>2, UpToIs, CountUpToIs, WorthOfNone
<1>5. ASSUME NEW m \in Nat, m + 1 \in Bad PROVE m \in Bad
  <2>1. m + 1 \in 1 .. Len(s) /\ (m + 1) - 1 = m /\ m <= Len(s) /\ m \in 0 .. Len(s)
    BY <1>3, <1>5
  <2>2. SUFFICES ASSUME Fine(m) PROVE FALSE
    BY <2>1
  <2>3. PICK v, x, r : v = k[m] /\ x = s[m + 1] /\ r = k[m + 1]
    OBVIOUS
  <2>4. v \in Takings /\ x \in Stacks /\ r = TakeOfType(v, x, kind)
    BY <1>2, <1>3, <2>1, <2>3
  <2>5. TakesOne(r, v, x, kind)
    BY <2>4, TakeOfTypeIs
  <2>6. /\ r \in Takings /\ Len(r.s) <= Len(v.s) + 1
        /\ SumWorth(r.s) = SumWorth(v.s) + StackWorth(x) - (v.left - r.left) * W
        /\ r.left > 0 => v.left > 0 /\ v.left - r.left = (IF x.kind = kind THEN x.count ELSE 0)
    BY <2>5 DEF TakesOne
  <2>7. /\ v.s \in Seq(Stacks) /\ r.s \in Seq(Stacks) /\ v.left \in Nat /\ r.left \in Nat
        /\ Len(v.s) \in Nat /\ Len(r.s) \in Nat
    BY <2>4, <2>6 DEF Takings
  <2>8. SumWorth(v.s) \in Nat /\ SumWorth(r.s) \in Nat /\ StackWorth(x) \in Nat /\ x.count \in Nat
    BY <2>4, <2>7, WorthType, StackWorthNat
  <2>9. WorthUpTo(s, m + 1) = WorthUpTo(s, m) + StackWorth(x)
    BY <2>1, <2>3, UpToIs
  <2>10. CountUpTo(s, kind, m + 1) = CountUpTo(s, kind, m) + (IF x.kind = kind THEN x.count ELSE 0)
         /\ CountUpTo(s, kind, m) \in Int
    BY <2>1, <2>3, CountUpToIs
  <2>11. Len(v.s) <= m /\ SumWorth(v.s) + (count - v.left) * W = WorthUpTo(s, m)
         /\ (v.left > 0 => count - v.left = CountUpTo(s, kind, m))
    BY <2>2, <2>3
  <2>12. (count - r.left) * W = (count - v.left) * W + (v.left - r.left) * W
         /\ (count - v.left) * W \in Int /\ (v.left - r.left) * W \in Int
    <3>1. PICK a, b : a = count - v.left /\ b = v.left - r.left
      OBVIOUS
    <3>2. a \in Int /\ b \in Int /\ a + b = count - r.left
      <4>1. PICK p, q : p = v.left /\ q = r.left
        OBVIOUS
      <4>2. p \in Nat /\ q \in Nat /\ count \in Nat /\ a = count - p /\ b = p - q
        BY <2>7, <3>1, <4>1
      <4>3. a \in Int /\ b \in Int /\ a + b = count - q
        BY ONLY <4>2
      <4> QED BY <4>1, <4>3
    <3>3. (a + b) * W = a * W + b * W
      BY <1>3, <3>2, SplitProduct
    <3>4. a * W \in Int /\ b * W \in Int
      BY <1>3, <3>2
    <3> QED BY <3>1, <3>2, <3>3, <3>4
  <2> HIDE DEF W
  <2>13. SumWorth(r.s) + (count - r.left) * W = WorthUpTo(s, m + 1)
    <3>1. PICK p, q : p = (count - v.left) * W /\ q = (v.left - r.left) * W
      OBVIOUS
    <3>2. /\ SumWorth(r.s) = SumWorth(v.s) + StackWorth(x) - q /\ (count - r.left) * W = p + q
          /\ p \in Int /\ q \in Int /\ SumWorth(v.s) + p = WorthUpTo(s, m)
          /\ SumWorth(v.s) \in Int /\ StackWorth(x) \in Int
      BY <2>6, <2>8, <2>11, <2>12, <3>1
    <3>3. SumWorth(r.s) + (p + q) = WorthUpTo(s, m) + StackWorth(x)
      BY ONLY <3>2
    <3> QED BY <2>9, <3>2, <3>3
  <2>14. r.left > 0 => count - r.left = CountUpTo(s, kind, m + 1)
    <3>1. SUFFICES ASSUME r.left > 0 PROVE count - r.left = CountUpTo(s, kind, m + 1)
      OBVIOUS
    <3>2. PICK p, q, y, z : /\ p = v.left /\ q = r.left /\ y = (IF x.kind = kind THEN x.count ELSE 0)
                            /\ z = CountUpTo(s, kind, m)
      OBVIOUS
    <3>3. /\ p \in Nat /\ q \in Nat /\ y \in Int /\ z \in Int /\ count \in Int
          /\ p - q = y /\ count - p = z /\ CountUpTo(s, kind, m + 1) = z + y
      BY <2>6, <2>7, <2>8, <2>10, <2>11, <3>1, <3>2
    <3>4. count - q = z + y
      BY ONLY <3>3
    <3> QED BY <3>2, <3>3, <3>4
  <2>15. Len(r.s) <= m + 1
    BY <2>6, <2>7, <2>11
  <2> QED BY <1>5, <2>3, <2>13, <2>14, <2>15
<1>6. Bad = {}
  BY <1>4, <1>5, NoLeast
<1>7. Fine(Len(s)) /\ k[Len(s)] \in Takings
  <2>1. Len(s) \in 0 .. Len(s) /\ Len(s) <= Len(s)
    BY <1>3
  <2> QED BY <1>2, <1>3, <1>6, <2>1
<1>8. PICK r : r = k[Len(s)]
  OBVIOUS
<1>9. /\ r.s \in Seq(Stacks) /\ r.left \in Nat /\ Len(r.s) <= Len(s)
      /\ SumWorth(r.s) + (count - r.left) * W = SumWorth(s)
      /\ r.left > 0 => count - r.left = CountOf(s, kind)
  BY <1>7, <1>8, UpToIs, CountUpToIs DEF Takings
<1>10. CountOf(s, kind) \in Int
  <2>1. \A i \in 1 .. Len(s) : Counts(s, kind)[i] \in Int
    <3>1. \A i \in 1 .. Len(s) : s[i].count \in Int
      BY CountUpToIs
    <3> QED BY <3>1 DEF Counts
  <2>2. IsFiniteSet(1 .. Len(s)) /\ DOMAIN s = 1 .. Len(s)
    BY ValuesNat
  <2>3. SumFunctionOnSet(Counts(s, kind), 1 .. Len(s)) \in Int
    BY <2>1, <2>2, SumType
  <2> QED BY <2>2, <2>3 DEF CountOf, Counts
<1>11. r.left = 0
  BY <1>9, <1>10
<1>12. count - r.left = count /\ SumWorth(r.s) \in Nat /\ count * W \in Nat
  BY <1>3, <1>9, <1>11, WorthType
<1> HIDE DEF W
<1>13. SumWorth(r.s) = SumWorth(s) - count * W
  <2>1. SumWorth(r.s) + count * W = SumWorth(s)
    BY <1>9, <1>12
  <2> QED BY <1>12, <2>1
<1> QED BY <1>2, <1>8, <1>9, <1>13 DEF W

-----------------------------------------------------------------------------
(* internalMoveItem.                                                       *)

LEMMA MostOf ==
    ASSUME NEW a \in Int, NEW b \in Int
    PROVE  Max({a, b}) \in Int
<1>1. \E x \in {a, b} : \A y \in {a, b} : x >= y
  OBVIOUS
<1>2. Max({a, b}) \in {a, b}
  BY <1>1 DEF Max
<1> QED BY <1>2

LEMMA MoveKeeps ==
    ASSUME Fit(contents), NEW from \in CoinHolders, NEW to \in CoinHolders, NEW i \in Nat, NEW index \in Nat,
           NEW count \in Nat, MoveCoins(from, i, to, index, count)
    PROVE  Fit(contents') /\ Total(contents') = Total(contents) /\ UNCHANGED ledger
<1> DEFINE x == contents[from][i]
           d == DestIndex(contents, to, index)
           M == MaxCount(contents, to, index, x, count)
           m == Min({count, M})
           shifted == IF from = to /\ d > i /\ m = x.count THEN d - 1 ELSE d
           s == contents[from]
           t == Taken(s, i, m)
           c == [contents EXCEPT ![from] = t]
           u == contents[to]
           W == Worth(x.kind)
<1>1. /\ contents \in Pockets /\ Len(contents["purse"]) <= PurseRoom /\ PurseRoom \in Nat /\ Stack \in Nat
      /\ s \in Seq(Stacks) /\ u \in Seq(Stacks) /\ Total(contents) \in Nat
      /\ Len(contents["purse"]) \in Nat
  <2>1. contents \in Pockets
    BY DEF Fit
  <2>2. contents["purse"] \in Seq(Stacks) /\ s \in Seq(Stacks) /\ u \in Seq(Stacks)
    BY <2>1 DEF Pockets, CoinHolders
  <2>3. Total(contents) \in Nat /\ PurseRoom \in Nat /\ Stack \in Nat
    BY <2>1, CoinsAssumption, TotalNat
  <2>4. Len(contents["purse"]) \in Nat
    BY <2>2
  <2> HIDE DEF s, u
  <2> QED BY <2>1, <2>2, <2>3, <2>4 DEF Fit
<1>2. /\ i \in DOMAIN s /\ count \in 1 .. x.count
      /\ ~(from = to /\ d = i) /\ m > 0
      /\ contents' = Added([contents EXCEPT ![from] = Taken(@, i, m)], to, shifted, x, m)
      /\ ledger' = ledger
  BY DEF MoveCoins
<1>3. /\ i \in 1 .. Len(s) /\ Len(s) \in Nat /\ x \in Stacks /\ x.count \in 1 .. Stack
      /\ Len(u) \in Nat /\ DOMAIN u = 1 .. Len(u) /\ \A j \in 1 .. Len(u) : u[j] \in Stacks
  <2>1. i \in 1 .. Len(s) /\ x \in Stacks
    BY <1>1, <1>2
  <2>2. x.count \in 1 .. Stack
    <3>1. PICK y : y = x
      OBVIOUS
    <3>2. y.count \in 1 .. Stack
      BY <2>1, <3>1 DEF Stacks
    <3> QED BY <3>1, <3>2
  <2>3. Len(s) \in Nat
    BY <1>1
  <2>4. Len(u) \in Nat /\ DOMAIN u = 1 .. Len(u) /\ \A j \in 1 .. Len(u) : u[j] \in Stacks
    <3> HIDE DEF u
    <3> QED BY <1>1
  <2> HIDE DEF x, u, s
  <2> QED BY <2>1, <2>2, <2>3, <2>4
<1>4. d \in 0 .. Len(u) /\ (to = "purse" => d = IF index \in DOMAIN u THEN index ELSE 0)
  BY <1>1, <1>3 DEF DestIndex, CoinHolders
<1>5. \A j \in 1 .. Len(u) : u[j].count \in 1 .. Stack
  BY <1>3 DEF Stacks
<1>6. M \in Int
  <2>1. CASE to = "ground"
    <3>1. M = Max({1, count})
      BY <2>1 DEF MaxCount
    <3> QED BY <3>1, MostOf
  <2>2. CASE to = "purse"
    <3>1. FreeSlots(contents) \in Nat
      BY <1>1 DEF FreeSlots
    <3>2. M = FreeSlots(contents) * Stack
                + (IF index \in DOMAIN u /\ u[index].kind = x.kind THEN Stack - u[index].count ELSE 0)
      BY <2>2 DEF MaxCount
    <3>3. FreeSlots(contents) * Stack \in Int
      BY <1>1, <3>1
    <3>4. (IF index \in DOMAIN u /\ u[index].kind = x.kind THEN Stack - u[index].count ELSE 0) \in Int
      BY <1>1, <1>3, <1>5
    <3> QED BY <3>2, <3>3, <3>4
  <2> QED BY <2>1, <2>2 DEF CoinHolders
<1>7. m \in 1 .. Stack /\ m \in 1 .. x.count /\ m <= M
  <2>1. m = IF count <= M THEN count ELSE M
    BY <1>6, LeastOf
  <2> HIDE DEF M, m
  <2> QED BY <1>1, <1>2, <1>3, <1>6, <2>1
<1>8. /\ t \in Seq(Stacks) /\ SumWorth(t) = SumWorth(s) - m * W
      /\ m # x.count => Len(t) = Len(s) /\ \A j \in 1 .. Len(s) : j # i => t[j] = s[j]
      /\ m = x.count => Len(t) = Len(s) - 1
  <2> HIDE DEF m
  <2> QED BY <1>1, <1>3, <1>7, TakenIs
<1>9. contents' = Added(c, to, shifted, x, m)
  <2>1. [contents EXCEPT ![from] = Taken(@, i, m)] = c
    BY <1>1 DEF Pockets
  <2> QED BY <1>2, <2>1
<1> HIDE DEF t
<1>10. /\ c \in Pockets /\ Total(c) = Total(contents) - SumWorth(s) + SumWorth(t)
       /\ c[from] = t /\ \A g \in CoinHolders : g # from => c[g] = contents[g]
  <2>1. IsOther([contents EXCEPT ![from] = t], contents, from, t)
    BY <1>1, <1>8, TotalChanged
  <2> QED BY <2>1 DEF IsOther
<1> HIDE DEF c, m, M, d
<1>11. Fit(c)
  <2>1. Len(t) <= Len(s) /\ Len(t) \in Nat
    BY <1>3, <1>7, <1>8
  <2>2. CASE from = "purse"
    BY <1>1, <1>10, <2>1, <2>2 DEF Fit
  <2>3. CASE from = "ground"
    BY <1>1, <1>10, <2>3 DEF Fit, CoinHolders
  <2> QED BY <2>2, <2>3 DEF CoinHolders
<1>12. shifted \in 0 .. Len(c[to])
  <2>1. CASE from # to
    BY <1>4, <1>10, <2>1
  <2>2. CASE from = to /\ m # x.count
    BY <1>4, <1>8, <1>10, <2>2
  <2>3. CASE from = to /\ m = x.count
    <3>1. Len(c[to]) = Len(s) - 1 /\ d \in 0 .. Len(s) /\ d # i
      BY <1>2, <1>4, <1>8, <1>10, <2>3
    <3> QED BY <1>3, <2>3, <3>1
  <2> QED BY <2>1, <2>2, <2>3
<1>13. HasRoom(c, to, shifted, x, m)
  <2>1. SUFFICES ASSUME to = "purse", ~(Len(c["purse"]) < PurseRoom)
                 PROVE  shifted # 0 /\ c[to][shifted].kind = x.kind /\ m <= Stack - c[to][shifted].count
    BY DEF HasRoom, CoinHolders
  <2>2. Len(contents["purse"]) = PurseRoom /\ ~(from = to /\ m = x.count)
    <3>1. CASE from = to
      <4>1. Len(c["purse"]) = Len(t) /\ Len(s) = Len(contents["purse"])
        BY <1>10, <2>1, <3>1
      <4>2. m # x.count
        <5>1. SUFFICES ASSUME m = x.count PROVE FALSE
          OBVIOUS
        <5>2. Len(t) = Len(s) - 1
          BY <1>8, <5>1
        <5> QED BY <1>1, <2>1, <4>1, <5>2
      <4>3. Len(t) = Len(s)
        BY <1>8, <4>2
      <4> QED BY <1>1, <2>1, <4>1, <4>2, <4>3
    <3>2. CASE from # to
      <4>1. c["purse"] = contents["purse"]
        BY <1>10, <2>1, <3>2 DEF CoinHolders
      <4> QED BY <1>1, <2>1, <3>2, <4>1
    <3> QED BY <3>1, <3>2
  <2>3. FreeSlots(contents) = 0
    BY <2>2 DEF FreeSlots
  <2>4. M = FreeSlots(contents) * Stack
              + (IF index \in DOMAIN u /\ u[index].kind = x.kind THEN Stack - u[index].count ELSE 0)
    BY <2>1 DEF MaxCount, M
  <2>5. M = IF index \in DOMAIN u /\ u[index].kind = x.kind THEN Stack - u[index].count ELSE 0
    <3>1. (IF index \in DOMAIN u /\ u[index].kind = x.kind THEN Stack - u[index].count ELSE 0) \in Int
      BY <1>1, <1>3, <1>5
    <3>2. 0 * Stack = 0
      BY <1>1
    <3> QED BY <2>3, <2>4, <3>1, <3>2
  <2>6. index \in DOMAIN u /\ u[index].kind = x.kind /\ m <= Stack - u[index].count
    BY <1>6, <1>7, <2>5
  <2>7. d = index /\ index # 0 /\ shifted = d
    BY <1>3, <1>4, <2>1, <2>2, <2>6
  <2>8. c[to][d] = u[d]
    <3>1. CASE from # to
      BY <1>10, <3>1
    <3>2. CASE from = to
      <4>1. m # x.count /\ d # i /\ d \in 1 .. Len(s)
        BY <1>2, <1>3, <2>2, <2>6, <2>7, <3>2
      <4> QED BY <1>8, <1>10, <3>2, <4>1
    <3> QED BY <3>1, <3>2
  <2> QED BY <2>6, <2>7, <2>8
<1> DEFINE v == Added(c, to, shifted, x, m)
<1>14. Fit(v) /\ Total(v) = Total(c) + m * W
  <2> HIDE DEF shifted, x
  <2>1. /\ Fit(Added(c, to, shifted, x, m))
        /\ Total(Added(c, to, shifted, x, m)) = Total(c) + m * Worth(x.kind)
    BY <1>3, <1>7, <1>11, <1>12, <1>13, AddedIs
  <2> QED BY <2>1
<1>15. SumWorth(s) \in Nat /\ m * W \in Nat
  <2>1. W \in Nat /\ m \in Nat
    BY <1>3, <1>7, StackWorthNat, WorthNat
  <2> HIDE DEF W
  <2> QED BY <1>1, <2>1, WorthType
<1> HIDE DEF v, W, s
<1>16. Total(v) = Total(contents)
  BY <1>1, <1>8, <1>10, <1>14, <1>15
<1> QED BY <1>2, <1>9, <1>14, <1>16 DEF v

-----------------------------------------------------------------------------
(* The theorem.                                                            *)

\* Coins are neither lost nor made: the inductive invariant.
MoneyInv == Fit(contents) /\ Total(contents) = ledger /\ ledger \in 0 .. MaxWorth

LEMMA StartsWithNothing == CoinsInit => MoneyInv
<1>1. SUFFICES ASSUME CoinsInit PROVE MoneyInv
  OBVIOUS
<1>2. contents = [h \in CoinHolders |-> <<>>] /\ ledger = 0
  BY <1>1 DEF CoinsInit
<1>3. contents \in Pockets /\ contents["purse"] = <<>> /\ contents["ground"] = <<>>
  BY <1>2, WorthOfNone DEF Pockets, CoinHolders
<1>4. Len(<<>>) = 0 /\ PurseRoom \in Nat /\ MaxWorth \in Nat
  BY CoinsAssumption
<1>5. Total(contents) = 0
  BY <1>3, WorthOfNone DEF Total
<1> QED BY <1>2, <1>3, <1>4, <1>5 DEF MoneyInv, Fit

LEMMA TakeKeeps ==
    ASSUME MoneyInv, NEW h \in CoinHolders, NEW i, NEW count, InternalRemoveItem(h, i, count)
    PROVE  MoneyInv'
<1> DEFINE s == contents[h]
           t == Taken(s, i, count)
           w == count * Worth(s[i].kind)
<1>1. /\ i \in DOMAIN s /\ count \in 1 .. s[i].count
      /\ contents' = [contents EXCEPT ![h] = Taken(@, i, count)]
      /\ ledger' = ledger - w
  BY DEF InternalRemoveItem
<1>2. contents \in Pockets /\ Len(contents["purse"]) <= PurseRoom /\ PurseRoom \in Nat
      /\ s \in Seq(Stacks) /\ Total(contents) = ledger /\ ledger \in 0 .. MaxWorth /\ MaxWorth \in Nat
  BY CoinsAssumption DEF MoneyInv, Fit, Pockets
<1> HIDE DEF s
<1>3. i \in 1 .. Len(s) /\ s[i] \in Stacks /\ Len(s) \in Nat
  BY <1>1, <1>2
<1>4. /\ t \in Seq(Stacks) /\ SumWorth(t) = SumWorth(s) - w /\ Len(t) <= Len(s)
  BY <1>1, <1>2, <1>3, TakenIs
<1>5. w \in Nat
  <2>1. count \in Nat /\ Worth(s[i].kind) \in Nat
    BY <1>1, <1>3, StackWorthNat, WorthNat
  <2> QED BY <2>1, ProductNat
<1> HIDE DEF t, w
<1>6. contents' = [contents EXCEPT ![h] = t]
  BY <1>1, <1>2 DEF t, s, Pockets
<1>7. /\ contents' \in Pockets /\ Total(contents') = Total(contents) - SumWorth(s) + SumWorth(t)
      /\ contents'[h] = t /\ \A g \in CoinHolders : g # h => contents'[g] = contents[g]
  <2>1. IsOther([contents EXCEPT ![h] = t], contents, h, t)
    BY <1>2, <1>4, TotalChanged
  <2> QED BY <1>6, <2>1 DEF IsOther, s
<1>8. Len(contents'["purse"]) <= PurseRoom
  <2>1. CASE h = "purse"
    <3>1. Len(t) \in Nat
      BY <1>4
    <3> QED BY <1>2, <1>3, <1>4, <1>7, <2>1, <3>1 DEF s
  <2>2. CASE h = "ground"
    BY <1>2, <1>7, <2>2 DEF CoinHolders
  <2> QED BY <2>1, <2>2 DEF CoinHolders
<1>9. SumWorth(s) \in Nat /\ Total(contents') \in Nat
  BY <1>2, <1>7, WorthType, TotalNat
<1>10. Total(contents') = ledger' /\ ledger' \in 0 .. MaxWorth
  BY <1>1, <1>2, <1>4, <1>5, <1>7, <1>9
<1> QED BY <1>7, <1>8, <1>10 DEF MoneyInv, Fit

LEMMA RemoveOfTypeKeeps ==
    ASSUME MoneyInv, NEW kind \in Kinds, NEW count \in Nat, RemoveItemOfType(kind, count)
    PROVE  MoneyInv'
<1> DEFINE s == contents["purse"]
           t == Taking(s, kind, count).s
           w == count * Worth(kind)
<1>1. /\ CountOf(s, kind) >= count
      /\ contents' = [contents EXCEPT !["purse"] = t]
      /\ ledger' = ledger - w
  BY DEF RemoveItemOfType, Taking
<1>2. contents \in Pockets /\ Len(s) <= PurseRoom /\ PurseRoom \in Nat /\ "purse" \in CoinHolders
      /\ s \in Seq(Stacks) /\ Total(contents) = ledger /\ ledger \in 0 .. MaxWorth /\ MaxWorth \in Nat
  BY CoinsAssumption DEF MoneyInv, Fit, Pockets, CoinHolders
<1> HIDE DEF s
<1>4. t \in Seq(Stacks) /\ SumWorth(t) = SumWorth(s) - w /\ Len(t) <= Len(s)
  BY <1>1, <1>2, TakingIs
<1>5. w \in Nat
  BY WorthNat, ProductNat
<1> HIDE DEF t, w
<1>7. /\ contents' \in Pockets /\ Total(contents') = Total(contents) - SumWorth(s) + SumWorth(t)
      /\ contents'["purse"] = t
  <2>1. IsOther([contents EXCEPT !["purse"] = t], contents, "purse", t)
    BY <1>2, <1>4, TotalChanged
  <2> QED BY <1>1, <2>1 DEF IsOther, s
<1>8. Len(contents'["purse"]) <= PurseRoom
  <2>1. Len(t) \in Nat /\ Len(s) \in Nat
    BY <1>2, <1>4
  <2> QED BY <1>2, <1>4, <1>7, <2>1
<1>9. SumWorth(s) \in Nat /\ Total(contents') \in Nat
  BY <1>2, <1>7, WorthType, TotalNat
<1>10. Total(contents') = ledger' /\ ledger' \in 0 .. MaxWorth
  BY <1>1, <1>2, <1>4, <1>5, <1>7, <1>9
<1> QED BY <1>7, <1>8, <1>10 DEF MoneyInv, Fit

LEMMA MoneyStep ==
    ASSUME MoneyInv, CoinsNext PROVE MoneyInv'
<1>1. /\ Fit(contents) /\ contents \in Pockets /\ Total(contents) = ledger /\ ledger \in 0 .. MaxWorth
      /\ MaxWorth \in Nat /\ PurseRoom \in Nat /\ Stack \in Nat
  BY CoinsAssumption DEF MoneyInv, Fit
<1>2. ASSUME NEW from \in CoinHolders, NEW to \in CoinHolders, NEW i \in 1 .. MaxWorth,
             NEW index \in 0 .. PurseRoom, NEW count \in 1 .. Stack, MoveCoins(from, i, to, index, count)
      PROVE  MoneyInv'
  <2>1. i \in Nat /\ index \in Nat /\ count \in Nat
    BY <1>1
  <2>2. Fit(contents') /\ Total(contents') = Total(contents) /\ ledger' = ledger
    BY <1>1, <1>2, <2>1, MoveKeeps
  <2> QED BY <1>1, <2>2 DEF MoneyInv, Fit
<1>3. ASSUME NEW money \in 1 .. MaxWorth, NEW fits \in SUBSET Kinds, RemoveMoney(money, fits)
      PROVE  MoneyInv'
  <2> DEFINE r == Pay(contents["purse"], money)
             e == AddMoney([contents EXCEPT !["purse"] = StacksAt(@, r.kept)], "purse", r.change, fits)
  <2>1. money \in Nat /\ money > 0 /\ SumWorth(contents["purse"]) >= money /\ contents' = e /\ ledger' = ledger - money
    BY <1>1, <1>3 DEF RemoveMoney
  <2>2. Fit(e) /\ Total(e) = Total(contents) - money
    <3>1. PICK c : c = contents
      OBVIOUS
    <3>2. Fit(c) /\ SumWorth(c["purse"]) >= money
      BY <1>1, <2>1, <3>1
    <3>3. LET q == Pay(c["purse"], money)
              z == AddMoney([c EXCEPT !["purse"] = StacksAt(@, q.kept)], "purse", q.change, fits)
          IN  Fit(z) /\ Total(z) = Total(c) - money
      BY <2>1, <3>2, RemoveMoneyKeeps
    <3> QED BY <3>1, <3>3
  <2> HIDE DEF e
  <2>3. e \in Pockets /\ Total(e) \in Nat
    <3>1. e \in Pockets
      BY <2>2 DEF Fit
    <3> QED BY <3>1, TotalNat
  <2> QED BY <1>1, <2>1, <2>2, <2>3 DEF MoneyInv, Fit
<1>4. ASSUME NEW money \in 1 .. MaxWorth, NEW fits \in SUBSET Kinds, EarnMoney(money, fits)
      PROVE  MoneyInv'
  <2> DEFINE e == AddMoney(contents, "purse", money, fits)
  <2>1. money \in Nat /\ ledger + money <= MaxWorth /\ contents' = e /\ ledger' = ledger + money
    BY <1>1, <1>4 DEF EarnMoney
  <2>2. Fit(e) /\ Total(e) = Total(contents) + money
    <3>1. "purse" \in CoinHolders
      BY DEF CoinHolders
    <3> QED BY <1>1, <2>1, <3>1, AddMoneyIs
  <2> HIDE DEF e
  <2> QED BY <1>1, <2>1, <2>2 DEF MoneyInv, Fit
<1>5. ASSUME NEW kind \in Kinds, NEW count \in 1 .. Stack, RemoveItemOfType(kind, count)
      PROVE  MoneyInv'
  <2>1. count \in Nat
    BY <1>1
  <2> QED BY <1>5, <2>1, RemoveOfTypeKeeps
<1> QED BY <1>2, <1>3, <1>4, <1>5, TakeKeeps DEF CoinsNext

LEMMA MoneyInvMeans == MoneyInv => MoneyKept
<1>1. SUFFICES ASSUME MoneyInv PROVE MoneyKept
  OBVIOUS
<1>2. contents \in Pockets /\ Len(contents["purse"]) <= PurseRoom /\ Total(contents) = ledger
      /\ ledger \in 0 .. MaxWorth
  BY <1>1 DEF MoneyInv, Fit
<1>3. CoinsTypeOK
  BY <1>2 DEF CoinsTypeOK, Pockets, Stacks
<1>4. ASSUME NEW h \in CoinHolders, NEW i \in DOMAIN contents[h] PROVE contents[h][i].count \in 1 .. Stack
  <2>1. contents[h] \in Seq(Stacks)
    BY <1>2 DEF Pockets
  <2>2. contents[h][i] \in Stacks
    BY <2>1
  <2> QED BY <2>2 DEF Stacks
<1> QED BY <1>2, <1>3, <1>4 DEF MoneyKept, NothingLost, StacksFit, Total

\* Whatever is moved, paid, earned, taken or used up, in any order: removeMoney pays with
\* whole stacks and gives the change back, addMoney drops what finds no room.
THEOREM CoinsInductive == CoinsSpec => []MoneyInv
<1>1. CoinsInit => MoneyInv
  BY StartsWithNothing
<1>2. MoneyInv /\ [CoinsNext]_coinVars => MoneyInv'
  <2>1. SUFFICES ASSUME MoneyInv, [CoinsNext]_coinVars PROVE MoneyInv'
    OBVIOUS
  <2>2. CASE CoinsNext
    BY <2>1, <2>2, MoneyStep
  <2>3. CASE UNCHANGED coinVars
    BY <2>1, <2>3 DEF MoneyInv, Fit, Total, coinVars
  <2> QED BY <2>1, <2>2, <2>3
<1> QED BY <1>1, <1>2, PTL DEF CoinsSpec

\* No coin is lost or made, every stack holds between one coin and a full stack, and the
\* container never more than its room: internalMoveItem, removeMoney and addMoney.
THEOREM CoinsKept == CoinsSpec => []MoneyKept
BY CoinsInductive, MoneyInvMeans, PTL
=============================================================================
