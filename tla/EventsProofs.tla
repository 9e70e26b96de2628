---------------------------- MODULE EventsProofs ----------------------------
(* Proofs about Events, for any number of workers and any handlers.          *)
EXTENDS Events, FiniteSetTheorems, TLAPS

(* The event queue keeps its types.                                          *)
THEOREM Typing == Spec => []TypeOK
<1> USE WorkersAssumption, TimeAssumption, TaskAssumption
<1> USE DEF Threads, PCs
<1>1. Init => TypeOK
  <2> SUFFICES ASSUME Init PROVE TypeOK
    OBVIOUS
  <2>1. ready \subseteq Entry
    <3>1. PICK R \in SUBSET Tasks :
            ready = {[task |-> e, prio |-> Priority[e], time |-> 0] : e \in R}
      BY Zenon DEF Init
    <3>2. 0 \in Times
      BY DEF Times
    <3>. QED
      BY <3>1, <3>2 DEF Entry
  <2>. QED
    BY <2>1, Zenon DEF Init, TypeOK
<1>2. TypeOK /\ [Next]_vars => TypeOK'
  <2> SUFFICES ASSUME TypeOK, [Next]_vars PROVE TypeOK'
    OBVIOUS
  <2>1. CASE MainSchedule
    <3>1. Head(start) \in Tasks \X Nat /\ Tail(start) \in Seq(Tasks \X Nat)
      BY <2>1 DEF MainSchedule, TypeOK
    <3>2. [task |-> Head(start)[1], prio |-> Head(start)[2], time |-> 0] \in Entry
      BY <3>1 DEF Entry, Times
    <3>. QED
      BY <2>1, <3>1, <3>2 DEF MainSchedule, TypeOK
  <2>2. ASSUME NEW w \in Workers, NEW e \in Tasks, schedule(w, e) PROVE TypeOK'
    <3>1. [task |-> e, prio |-> Priority[e], time |-> 0] \in Entry
      BY DEF Entry, Times
    <3>. QED
      BY <2>2, <3>1 DEF schedule, TypeOK
  <2>3. ASSUME NEW w \in Workers, NEW d \in Delays, schedule_at(w, d) PROVE TypeOK'
    <3>1. cur[w].task \in Tasks
      BY <2>3 DEF schedule_at, TypeOK, Entry
    <3>2. [task |-> cur[w].task, prio |-> Priority[cur[w].task], time |-> d] \in Entry
      BY <3>1 DEF Entry, Times
    <3>. QED
      BY <2>3, <3>2 DEF schedule_at, TypeOK
  <2>4. ASSUME NEW w \in Workers, RunTop(w) PROVE TypeOK'
    BY <2>4 DEF RunTop, TypeOK
  <2>5. ASSUME NEW w \in Workers, RunWait(w) PROVE TypeOK'
    BY <2>5 DEF RunWait, TypeOK
  <2>6. ASSUME NEW w \in Workers, RunTimedWait(w) PROVE TypeOK'
    <3>1. wait_time \subseteq Times \cup {Never}
      BY DEF wait_time, TypeOK, Entry
    <3>. QED
      BY <2>6, <3>1 DEF RunTimedWait, TypeOK
  <2>7. ASSUME NEW w \in Workers, RunTake(w) PROVE TypeOK'
    BY <2>7 DEF RunTake, TypeOK, expired_to_ready, expired, still_waiting, first_of, Entry
  <2>8. ASSUME NEW w \in Workers, RunBreak(w) PROVE TypeOK'
    BY <2>8 DEF RunBreak, TypeOK, expired_to_ready, expired, still_waiting
  <2>9. ASSUME NEW w \in Workers, HandlerReturns(w) PROVE TypeOK'
    BY <2>9 DEF HandlerReturns, TypeOK
  <2>10. ASSUME NEW w \in Workers, SpuriousWakeup(w) PROVE TypeOK'
    BY <2>10 DEF SpuriousWakeup, Woken, Sleeping, TypeOK
  <2>11. ASSUME NEW w \in Workers, Timeout(w) PROVE TypeOK'
    BY <2>11 DEF Timeout, TypeOK
  <2>12. ASSUME NEW t \in Threads, notify_one(t) PROVE TypeOK'
    BY <2>12, Zenon DEF notify_one, Woken, Sleeping, TypeOK
  <2>13. ASSUME NEW t \in Threads, stop(t) PROVE TypeOK'
    BY <2>13 DEF stop, TypeOK
  <2>14. ASSUME NEW t \in Threads, notify_all(t) PROVE TypeOK'
    BY <2>14 DEF notify_all, Woken, Sleeping, TypeOK
  <2>15. CASE JoinAll
    BY <2>15 DEF JoinAll, TypeOK
  <2>16. CASE Tick
    <3>1. ASSUME NEW n \in Times \cup {Never} PROVE Older(n) \in Times \cup {Never}
      BY DEF Older, Times, Never
    <3>2. ASSUME NEW n \in Times PROVE Older(n) \in Times
      BY DEF Older, Times, Never
    <3>3. ASSUME NEW S \in SUBSET Entry PROVE Aged(S) \subseteq Entry
      <4> SUFFICES ASSUME NEW x \in S PROVE [x EXCEPT !.time = Older(@)] \in Entry
        BY DEF Aged
      <4>1. x \in Entry /\ Older(x.time) \in Times
        BY <3>2 DEF Entry
      <4>. QED
        BY <4>1 DEF Entry
    <3>4. ready' \subseteq Entry /\ waiting' \subseteq Entry
      BY <2>16, <3>3, Zenon DEF Tick, TypeOK
    <3>5. deadline' \in [Workers -> Times \cup {Never}]
      BY <2>16, <3>1 DEF Tick, TypeOK
    <3>. QED
      BY <2>16, <3>4, <3>5 DEF Tick, TypeOK
  <2>17. CASE Exited \/ UNCHANGED vars
    BY <2>17 DEF Exited, vars, TypeOK
  <2>. QED
    BY <2>1, <2>2, <2>3, <2>4, <2>5, <2>6, <2>7, <2>8, <2>9, <2>10, <2>11,
       <2>12, <2>13, <2>14, <2>15, <2>16, <2>17 DEF Next
<1>3. QED
  BY <1>1, <1>2, PTL DEF Spec

(* schedule_at's promise, for any clock: no event is ready, and so none can  *)
(* be run, before its time; and no worker leaves run() before stop().        *)
THEOREM NothingIsEarly == Spec => []NothingEarly
<1> USE WorkersAssumption, TimeAssumption
<1>1. Init => NothingEarly
  BY DEF Init, NothingEarly, Threads
<1>2. TypeOK /\ TypeOK' /\ NothingEarly /\ [Next]_vars => NothingEarly'
  <2> SUFFICES ASSUME TypeOK, TypeOK', NothingEarly, [Next]_vars PROVE NothingEarly'
    OBVIOUS
  <2>1. CASE MainSchedule
    BY <2>1 DEF MainSchedule, NothingEarly, TypeOK
  <2>2. ASSUME NEW w \in Workers, NEW e \in Tasks, schedule(w, e) PROVE NothingEarly'
    BY <2>2 DEF schedule, NothingEarly, TypeOK
  <2>3. ASSUME NEW w \in Workers, NEW d \in Delays, schedule_at(w, d) PROVE NothingEarly'
    <3>1. ready' = ready /\ shutdown' = shutdown /\ pc' = [pc EXCEPT ![w] = "notify"]
      BY <2>3 DEF schedule_at
    <3>. QED
      BY <3>1 DEF NothingEarly, TypeOK
  <2>4. ASSUME NEW w \in Workers, RunTop(w) \/ RunWait(w) \/ RunTimedWait(w) PROVE NothingEarly'
    BY <2>4 DEF RunTop, RunWait, RunTimedWait, NothingEarly, TypeOK, Threads
  <2>5. ASSUME NEW w \in Workers, RunTake(w) \/ RunBreak(w) PROVE NothingEarly'
    <3>1. \A x \in expired_to_ready : x.time <= 0
      BY DEF expired_to_ready, expired, NothingEarly
    <3>2. ready' \subseteq expired_to_ready
      BY <2>5 DEF RunTake, RunBreak, expired_to_ready
    <3>. QED
      BY <2>5, <3>1, <3>2 DEF RunTake, RunBreak, NothingEarly, TypeOK, Threads
  <2>6. ASSUME NEW w \in Workers, HandlerReturns(w) \/ SpuriousWakeup(w) \/ Timeout(w)
        PROVE  NothingEarly'
    BY <2>6 DEF HandlerReturns, SpuriousWakeup, Timeout, Woken, NothingEarly, TypeOK, Threads
  <2>7. ASSUME NEW t \in Threads, notify_one(t) \/ stop(t) \/ notify_all(t) PROVE NothingEarly'
    BY <2>7 DEF notify_one, stop, notify_all, Woken, Sleeping, NothingEarly, TypeOK, Threads
  <2>8. CASE JoinAll
    BY <2>8 DEF JoinAll, NothingEarly, TypeOK
  <2>9. CASE Tick
    <3>1. ASSUME NEW n \in Times, n <= 0 PROVE Older(n) <= 0
      BY <3>1 DEF Older, Times
    <3>2. \A x \in Aged(ready) : x.time <= 0
      BY <3>1 DEF Aged, NothingEarly, TypeOK, Entry
    <3>. QED
      BY <2>9, <3>2 DEF Tick, NothingEarly
  <2>10. CASE Exited \/ UNCHANGED vars
    BY <2>10 DEF Exited, vars, NothingEarly
  <2>. QED
    BY <2>1, <2>2, <2>3, <2>4, <2>5, <2>6, <2>7, <2>8, <2>9, <2>10 DEF Next
<1>3. QED
  BY <1>1, <1>2, Typing, PTL DEF Spec

(* stop() reaches every worker, however many are asleep and whoever calls it.*)
THEOREM StopReachesEveryWorker == Spec => []NoWorkerMissesStop
<1> USE WorkersAssumption
<1>1. Init => NoWorkerMissesStop
  BY DEF Init, NoWorkerMissesStop
<1>2. TypeOK /\ NoWorkerMissesStop /\ [Next]_vars => NoWorkerMissesStop'
  <2> SUFFICES ASSUME TypeOK, NoWorkerMissesStop, [Next]_vars PROVE NoWorkerMissesStop'
    OBVIOUS
  <2> USE DEF NoWorkerMissesStop, TypeOK, Threads, Sleeping
  <2>1. CASE MainSchedule
    BY <2>1 DEF MainSchedule
  <2>2. ASSUME NEW w \in Workers, NEW e \in Tasks, schedule(w, e) PROVE NoWorkerMissesStop'
    BY <2>2 DEF schedule
  <2>3. ASSUME NEW w \in Workers, NEW d \in Delays, schedule_at(w, d) PROVE NoWorkerMissesStop'
    BY <2>3 DEF schedule_at
  <2>4. ASSUME NEW w \in Workers, RunTop(w) \/ RunWait(w) \/ RunTimedWait(w)
        PROVE  NoWorkerMissesStop'
    BY <2>4, Zenon DEF RunTop, RunWait, RunTimedWait
  <2>5. ASSUME NEW w \in Workers, RunTake(w) \/ RunBreak(w) PROVE NoWorkerMissesStop'
    BY <2>5, Zenon DEF RunTake, RunBreak
  <2>6. ASSUME NEW w \in Workers, HandlerReturns(w) \/ SpuriousWakeup(w) \/ Timeout(w)
        PROVE  NoWorkerMissesStop'
    BY <2>6, Zenon DEF HandlerReturns, SpuriousWakeup, Timeout, Woken
  <2>7. ASSUME NEW t \in Threads, notify_one(t) \/ stop(t) PROVE NoWorkerMissesStop'
    BY <2>7, Zenon DEF notify_one, stop, Woken
  <2>8. ASSUME NEW t \in Threads, notify_all(t) PROVE NoWorkerMissesStop'
    BY <2>8, Zenon DEF notify_all, Woken
  <2>9. CASE JoinAll \/ Tick \/ Exited \/ UNCHANGED vars
    BY <2>9, Zenon DEF JoinAll, Tick, Exited, vars
  <2>. QED
    BY <2>1, <2>2, <2>3, <2>4, <2>5, <2>6, <2>7, <2>8, <2>9 DEF Next
<1>3. QED
  BY <1>1, <1>2, Typing, PTL DEF Spec

(* No lost wakeup: as long as the pool is not stopped, a queued event has a  *)
(* notification on its way, a worker awake, or a worker that sleeps no longer*)
(* than until the first event is due.                                        *)
THEOREM NoLostWakeup == Spec => []NoStrandedEvent
<1> USE WorkersAssumption, TimeAssumption
<1> DEFINE Inv == NoStrandedEvent
<1>1. Init => Inv
  BY DEF Init, NoStrandedEvent, Awake, Threads
<1>2. TypeOK /\ TypeOK' /\ NothingEarly /\ Inv /\ [Next]_vars => Inv'
  <2> SUFFICES ASSUME TypeOK, TypeOK', NothingEarly, Inv, [Next]_vars PROVE Inv'
    OBVIOUS
  <2> USE DEF NoStrandedEvent, TypeOK, Threads, Awake
  <2>1. CASE MainSchedule
    BY <2>1 DEF MainSchedule
  <2>2. ASSUME NEW w \in Workers, NEW e \in Tasks, schedule(w, e) PROVE Inv'
    BY <2>2 DEF schedule
  <2>3. ASSUME NEW w \in Workers, NEW d \in Delays, schedule_at(w, d) PROVE Inv'
    BY <2>3 DEF schedule_at
  <2>4. ASSUME NEW w \in Workers, RunTop(w) PROVE Inv'
    BY <2>4 DEF RunTop
  <2>5. ASSUME NEW w \in Workers, RunWait(w) PROVE Inv'
    BY <2>5 DEF RunWait
  <2>6. ASSUME NEW w \in Workers, RunTimedWait(w) PROVE Inv'
    <3>1. ready' = {} /\ waiting' = waiting /\ pc'[w] = "timed"
      <4>1. /\ expired_to_ready = {} /\ UNCHANGED <<ready, waiting>>
            /\ pc' = [pc EXCEPT ![w] = "timed"]
        BY <2>6 DEF RunTimedWait
      <4>. QED
        BY <4>1 DEF expired_to_ready
    <3>2. waiting # {} => \A x \in waiting : deadline'[w] <= x.time
      BY <2>6 DEF RunTimedWait, wait_time
    <3>. QED
      BY <3>1, <3>2, Zenon DEF OnTime
  <2>7. ASSUME NEW w \in Workers, RunTake(w) PROVE Inv'
    BY <2>7 DEF RunTake
  <2>8. ASSUME NEW w \in Workers, RunBreak(w) PROVE Inv'
    BY <2>8 DEF RunBreak
  <2>9. ASSUME NEW w \in Workers, HandlerReturns(w) \/ SpuriousWakeup(w) \/ Timeout(w)
        PROVE  Inv'
    BY <2>9 DEF HandlerReturns, SpuriousWakeup, Timeout, Woken, Sleeping
  <2>10. ASSUME NEW t \in Threads, notify_one(t) PROVE Inv'
    <3>1. CASE Sleeping = {}
      <4>1. ASSUME NEW w \in Workers, ~ shutdown PROVE Awake(w)'
        <5>1. pc' = [pc EXCEPT ![t] = "run"] /\ shutdown' = shutdown
          BY <2>10, <3>1 DEF notify_one, Sleeping
        <5>2. pc[w] \in PCs /\ pc[w] \notin {"wait", "timed", "exit"}
          BY <3>1, <4>1 DEF Sleeping, NothingEarly
        <5>. QED
          BY <5>1, <5>2 DEF PCs
      <4>. QED
        BY <2>10, <4>1 DEF notify_one
    <3>2. CASE \E w \in Sleeping : pc' = [pc EXCEPT ![t] = "run", ![w] = Woken(w)]
      BY <2>10, <3>2 DEF notify_one, Sleeping, Woken
    <3>. QED
      BY <2>10, <3>1, <3>2 DEF notify_one
  <2>11. ASSUME NEW t \in Threads, stop(t) PROVE Inv'
    BY <2>11 DEF stop
  <2>12. ASSUME NEW t \in Threads, notify_all(t) PROVE Inv'
    <3>1. CASE Sleeping = {}
      <4>1. ASSUME NEW w \in Workers, ~ shutdown PROVE Awake(w)'
        <5>1. pc'[w] \in {"top", pc[w]}
          BY <2>12, <3>1, w # Signal DEF notify_all, Sleeping
        <5>2. pc[w] \in PCs /\ pc[w] \notin {"wait", "timed", "exit"}
          BY <3>1, <4>1 DEF Sleeping, NothingEarly
        <5>. QED
          BY <5>1, <5>2 DEF PCs
      <4>. QED
        BY <2>12, <4>1, Zenon DEF notify_all
    <3>2. CASE Sleeping # {}
      BY <2>12, <3>2 DEF notify_all, Sleeping, Woken
    <3>. QED
      BY <3>1, <3>2
  <2>13. CASE JoinAll
    BY <2>13 DEF JoinAll, NothingEarly
  <2>14. CASE Tick
    <3>1. ASSUME NEW m \in Times \cup {Never}, NEW n \in Times, m <= n
          PROVE  Older(m) <= Older(n)
      BY <3>1 DEF Older, Times, Never
    <3>2. ASSUME NEW w \in Workers, OnTime(w) PROVE OnTime(w)'
      <4>1. \A x \in Aged(waiting) : Older(deadline[w]) <= x.time
        <5> SUFFICES ASSUME NEW x \in Aged(waiting) PROVE Older(deadline[w]) <= x.time
          OBVIOUS
        <5>1. PICK y \in waiting : x = [y EXCEPT !.time = Older(@)]
          BY DEF Aged
        <5>2. y \in Entry /\ y.time \in Times /\ x.time = Older(y.time)
          BY <5>1 DEF Entry
        <5>3. deadline[w] <= y.time
          BY <3>2 DEF OnTime
        <5>4. deadline[w] \in Times \cup {Never}
          BY DEF TypeOK
        <5>5. Older(deadline[w]) <= Older(y.time)
          BY <3>1, <5>2, <5>3, <5>4
        <5>. QED
          BY <5>2, <5>5
      <4>. QED
        BY <2>14, <3>2, <4>1 DEF Tick, OnTime
    <3>3. (ready' = {} <=> ready = {}) /\ (waiting' = {} <=> waiting = {})
      <4>1. ASSUME NEW S PROVE Aged(S) = {} <=> S = {}
        <5>1. ASSUME NEW x \in S PROVE [x EXCEPT !.time = Older(@)] \in Aged(S)
          BY Zenon DEF Aged
        <5>2. ASSUME NEW y \in Aged(S) PROVE S # {}
          BY Zenon DEF Aged
        <5>. QED
          BY <5>1, <5>2, Zenon
      <4>. QED
        BY <2>14, <4>1, Zenon DEF Tick
    <3>. QED
      BY <2>14, <3>2, <3>3 DEF Tick
  <2>15. CASE Exited \/ UNCHANGED vars
    BY <2>15 DEF Exited, vars, OnTime
  <2>. QED
    BY <2>1, <2>2, <2>3, <2>4, <2>5, <2>6, <2>7, <2>8, <2>9, <2>10, <2>11,
       <2>12, <2>13, <2>14, <2>15, Zenon DEF Next
<1>3. QED
  BY <1>1, <1>2, Typing, NothingIsEarly, PTL DEF Spec

(* A worker never passes over a due event of higher priority, for any number *)
(* of workers and any priorities: only RunTake takes an event, and it looks  *)
(* at the waiting events that are due as well.                               *)
THEOREM UrgentFirst == Spec => HighestPriorityFirst
<1> USE WorkersAssumption
<1> DEFINE Act == \A w \in Workers : Takes(w) =>
                    \A y \in ready' \cup waiting' : y.time <= 0 => cur'[w].prio <= y.prio
<1>1. TypeOK /\ [Next]_vars => [Act]_vars
  <2> SUFFICES ASSUME TypeOK, [Next]_vars, NEW w \in Workers, Takes(w),
                      NEW y \in ready' \cup waiting', y.time <= 0
               PROVE  cur'[w].prio <= y.prio
    OBVIOUS
  <2> USE DEF Takes, TypeOK, Threads
  <2>1. ASSUME NEW u \in Workers, RunTake(u) PROVE cur'[w].prio <= y.prio
    <3>1. w = u
      BY <2>1, Zenon DEF RunTake
    <3>2. PICK x \in first_of(expired_to_ready) :
            /\ ready' = expired_to_ready \ {x}
            /\ cur' = [cur EXCEPT ![u] = x]
      BY <2>1, Zenon DEF RunTake
    <3>3. waiting' = waiting \ expired
      BY <2>1 DEF RunTake, still_waiting
    <3>4. y \in expired_to_ready
      BY <3>2, <3>3 DEF expired_to_ready, expired
    <3>5. x \in Entry /\ y \in Entry
      BY <3>2, <3>4 DEF first_of, expired_to_ready, expired
    <3>6. x.prio <= y.prio
      BY <3>2, <3>4, <3>5 DEF first_of, Entry
    <3>. QED
      BY <3>1, <3>2, <3>6
  <2>2. CASE MainSchedule \/ JoinAll \/ Tick \/ Exited \/ UNCHANGED vars
    BY <2>2 DEF MainSchedule, JoinAll, Tick, Exited, vars
  <2>3. ASSUME NEW u \in Workers,
               \/ \E e \in Tasks : schedule(u, e)
               \/ \E d \in Delays : schedule_at(u, d)
        PROVE  FALSE
    BY <2>3, SMTT(30) DEF schedule, schedule_at
  <2>4. ASSUME NEW u \in Workers,
               \/ RunTop(u) \/ RunWait(u) \/ RunTimedWait(u) \/ RunBreak(u)
               \/ HandlerReturns(u) \/ SpuriousWakeup(u) \/ Timeout(u)
        PROVE  FALSE
    BY <2>4 DEF RunTop, RunWait, RunTimedWait, RunBreak, HandlerReturns, SpuriousWakeup,
                Timeout, Sleeping, Woken
  <2>5. ASSUME NEW t \in Threads, notify_one(t) \/ stop(t) \/ notify_all(t) PROVE FALSE
    BY <2>5 DEF notify_one, stop, notify_all, Sleeping, Woken
  <2>. QED
    BY <2>1, <2>2, <2>3, <2>4, <2>5 DEF Next
<1>2. QED
  BY <1>1, Typing, PTL DEF Spec, HighestPriorityFirst

(* An event leaves the queues only into the hands of exactly one worker: of  *)
(* all steps only RunTake removes an entry, the one it takes; a break out of *)
(* timed_wait and the clock move entries or age them.                        *)
THEOREM EachEventIsTakenOnce == Spec => QueuedUntilTakenOnce
<1> DEFINE Taking(e) == {w \in Workers : Takes(w) /\ cur'[w].task = e}
           Act == \A e \in Tasks : Queued(e) /\ ~ Queued(e)' => Cardinality(Taking(e)) = 1
<1>1. TypeOK /\ [Next]_vars => [Act]_vars
  <2> SUFFICES ASSUME TypeOK, [Next]_vars, NEW e \in Tasks, Queued(e), ~ Queued(e)'
               PROVE  Cardinality(Taking(e)) = 1
    OBVIOUS
  <2>0. PICK y \in ready \cup waiting : y.task = e
    BY DEF Queued
  <2>1. ASSUME NEW u \in Workers, RunTake(u) PROVE Cardinality(Taking(e)) = 1
    <3>1. PICK x \in first_of(expired_to_ready) :
            /\ ready' = expired_to_ready \ {x}
            /\ cur' = [cur EXCEPT ![u] = x]
      BY <2>1, Zenon DEF RunTake
    <3>2. waiting' = still_waiting /\ pc[u] \in {"lock", "retry"} /\ pc' = [pc EXCEPT ![u] = "run"]
      BY <2>1, Zenon DEF RunTake
    <3>3. y \in expired_to_ready \cup still_waiting
      BY <2>0 DEF expired_to_ready, still_waiting
    <3>4. y \notin ready' \cup waiting'
      BY <2>0, Zenon DEF Queued
    <3>5. y = x
      BY <3>1, <3>2, <3>3, <3>4, Zenon
    <3>6. Takes(u) /\ cur'[u].task = e
      BY <2>0, <3>1, <3>2, <3>5 DEF Takes, TypeOK, Threads
    <3>7. ASSUME NEW w \in Workers, Takes(w) PROVE w = u
      BY <3>2, <3>7, Zenon DEF Takes, TypeOK, Threads
    <3>8. Taking(e) = {u}
      BY <3>6, <3>7
    <3>. QED
      BY <3>8, FS_Singleton, Zenon
  <2>2. ASSUME ready \cup waiting \subseteq ready' \cup waiting' PROVE FALSE
    BY <2>0, <2>2, Zenon DEF Queued
  <2>3. CASE MainSchedule \/ JoinAll \/ Exited \/ UNCHANGED vars
    BY <2>2, <2>3 DEF MainSchedule, JoinAll, Exited, vars
  <2>4. ASSUME NEW u \in Workers, NEW f \in Tasks, schedule(u, f) PROVE FALSE
    BY <2>2, <2>4 DEF schedule
  <2>5. ASSUME NEW u \in Workers, NEW d \in Delays, schedule_at(u, d) PROVE FALSE
    BY <2>2, <2>5 DEF schedule_at
  <2>6. ASSUME NEW u \in Workers,
               \/ RunTop(u) \/ RunWait(u) \/ RunTimedWait(u) \/ HandlerReturns(u)
               \/ SpuriousWakeup(u) \/ Timeout(u)
        PROVE  FALSE
    BY <2>2, <2>6 DEF RunTop, RunWait, RunTimedWait, HandlerReturns, SpuriousWakeup, Timeout
  <2>7. ASSUME NEW u \in Workers, RunBreak(u) PROVE FALSE
    BY <2>2, <2>7 DEF RunBreak, expired_to_ready, still_waiting
  <2>8. ASSUME NEW t \in Threads, notify_one(t) \/ stop(t) \/ notify_all(t) PROVE FALSE
    BY <2>2, <2>8 DEF notify_one, stop, notify_all
  <2>9. CASE Tick
    <3>1. PICK z \in ready' \cup waiting' : z = [y EXCEPT !.time = Older(@)]
      BY <2>0, <2>9, Zenon DEF Tick, Aged
    <3>2. z.task = e
      BY <2>0, <3>1 DEF TypeOK, Entry
    <3>. QED
      BY <3>1, <3>2, Zenon DEF Queued
  <2>. QED
    BY <2>1, <2>3, <2>4, <2>5, <2>6, <2>7, <2>8, <2>9 DEF Next
<1>2. QED
  BY <1>1, Typing, PTL DEF Spec, QueuedUntilTakenOnce
=============================================================================
