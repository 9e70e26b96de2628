------------------------- MODULE IceThreadPoolProofs -------------------------
(* Proofs about IceThreadPool, for any number of workers, any jobs and any   *)
(* limits.                                                                   *)
EXTENDS IceThreadPool, SequenceTheorems, TLAPS

USE DEF outside

(* The entries of the list are commands.                                     *)
LEMMA QueueEntries ==
    ASSUME TypeOK
    PROVE  /\ Len(m_requests_queue) \in Nat
           /\ \A i \in 1 .. Len(m_requests_queue) :
                m_requests_queue[i].seq \in Nat /\ m_requests_queue[i].job \in Jobs
<1>1. Len(m_requests_queue) \in Nat
  BY LenProperties DEF TypeOK
<1>2. ASSUME NEW i \in 1 .. Len(m_requests_queue) PROVE m_requests_queue[i] \in Command
  BY DEF TypeOK
<1>. QED
  BY <1>1, <1>2 DEF Command

(* What is left of the list when a worker has taken the command at i.        *)
LEMMA ErasedProperties ==
    ASSUME m_requests_queue \in Seq(Command), NEW i \in 1 .. Len(m_requests_queue)
    PROVE  /\ Erased(i) \in Seq(Command)
           /\ Len(Erased(i)) = Len(m_requests_queue) - 1
           /\ \A k \in 1 .. Len(Erased(i)) :
                Erased(i)[k] = IF k < i THEN m_requests_queue[k] ELSE m_requests_queue[k + 1]
<1> DEFINE q == m_requests_queue
           n == Len(q)
           a == SubSeq(q, 1, i - 1)
           b == SubSeq(q, i + 1, n)
<1>1. n \in Nat /\ i \in Nat /\ i >= 1 /\ i <= n
  BY LenProperties
<1>2. a \in Seq(Command) /\ Len(a) = i - 1 /\ \A k \in 1 .. Len(a) : a[k] = q[k]
  BY <1>1, SubSeqProperties
<1>3. b \in Seq(Command) /\ Len(b) = n - i /\ \A k \in 1 .. Len(b) : b[k] = q[i + k]
  BY <1>1, SubSeqProperties
<1>4. /\ a \o b \in Seq(Command) /\ Len(a \o b) = Len(a) + Len(b)
      /\ \A k \in 1 .. Len(a) + Len(b) :
           (a \o b)[k] = IF k <= Len(a) THEN a[k] ELSE b[k - Len(a)]
  BY <1>2, <1>3, ConcatProperties, Zenon
<1>5. Erased(i) = a \o b
  BY DEF Erased
<1> HIDE DEF a, b
<1>6. ASSUME NEW k \in 1 .. Len(a \o b)
      PROVE  (a \o b)[k] = IF k < i THEN q[k] ELSE q[k + 1]
  <2>1. CASE k < i
    BY <1>1, <1>2, <1>3, <1>4, <2>1
  <2>2. CASE k >= i
    <3>1. k - Len(a) \in 1 .. Len(b) /\ i + (k - Len(a)) = k + 1 /\ ~ (k <= Len(a)) /\ ~ (k < i)
      BY <1>1, <1>2, <1>3, <1>4, <2>2
    <3>. QED
      BY <1>3, <1>4, <3>1
  <2>. QED
    BY <1>1, <1>4, <2>1, <2>2
<1>7. Len(a \o b) = Len(m_requests_queue) - 1
  BY <1>1, <1>2, <1>3, <1>4
<1>. QED
  BY <1>4, <1>5, <1>6, <1>7, Zenon

(* The pool, its workers and the main loop keep their types.                 *)
THEOREM Typing == Spec => []TypeOK
<1> USE PoolAssumption
<1>1. Init => TypeOK
  BY DEF Init, TypeOK, Ids
<1>2. TypeOK /\ [Next]_vars => TypeOK'
  <2> SUFFICES ASSUME TypeOK, [Next]_vars PROVE TypeOK'
    OBVIOUS
  <2> USE DEF TypeOK
  <2>1. ASSUME NEW w \in Workers, TestStopped(w) \/ Wait(w) \/ StopAfterWait(w) PROVE TypeOK'
    BY <2>1 DEF TestStopped, Wait, StopAfterWait
  <2>2. ASSUME NEW w \in Workers, Take(w) PROVE TypeOK'
    <3>1. PICK i \in get_first_request :
            /\ cmd' = [cmd EXCEPT ![w] = m_requests_queue[i]]
            /\ m_requests_queue' = Erased(i)
            /\ m_pending_jobs' = m_pending_jobs \cup {get_grid_job_id(m_requests_queue[i])}
      BY <2>2, Zenon DEF Take
    <3>2. i \in 1 .. Len(m_requests_queue)
      BY DEF get_first_request, Servable
    <3>3. m_requests_queue[i] \in Command
      BY <3>2
    <3>4. get_grid_job_id(m_requests_queue[i]) \in Ids
      BY <3>3 DEF get_grid_job_id, Ids, Command
    <3>5. m_requests_queue' \in Seq(Command)
      BY <3>1, <3>2, ErasedProperties
    <3>. QED
      BY <2>2, <3>1, <3>3, <3>4, <3>5 DEF Take
  <2>3. ASSUME NEW w \in Workers, SpuriousWakeup(w) \/ ExitFatal(w) PROVE TypeOK'
    BY <2>3 DEF SpuriousWakeup, ExitFatal
  <2>4. ASSUME NEW w \in Workers, Finish(w) PROVE TypeOK'
    BY <2>4 DEF Finish, notify_all, Woken
  <2>5. CASE Poll
    BY <2>5 DEF Poll
  <2>6. ASSUME NEW j \in Jobs, add_request(j) PROVE TypeOK'
    <3>1. [seq |-> added + 1, job |-> j] \in Command
      BY DEF Command
    <3>2. m_requests_queue' \in Seq(Command)
      BY <2>6, <3>1 DEF add_request
    <3>. QED
      BY <2>6, <3>2 DEF add_request, notify_all, Woken
  <2>7. CASE AddEnds \/ Sleep \/ JoinAll
    BY <2>7 DEF AddEnds, Sleep, JoinAll
  <2>8. ASSUME NEW w \in Workers, Stop(w) PROVE TypeOK'
    BY <2>8 DEF Stop
  <2>9. CASE NotifyStopped
    BY <2>9 DEF NotifyStopped, notify_all, Woken
  <2>10. CASE Tick
    BY <2>10 DEF Tick
  <2>11. CASE Over \/ UNCHANGED vars
    BY <2>11 DEF Over, vars
  <2>. QED
    BY <2>1, <2>2, <2>3, <2>4, <2>5, <2>6, <2>7, <2>8, <2>9, <2>10, <2>11
    DEF Next, WorkerStep, MainStep
<1>3. QED
  BY <1>1, <1>2, PTL DEF Spec

(* The id of every job being worked for is pending, unless it is a time.     *)
Registered ==
    \A w \in Executing : cmd[w].job # Timed => <<"job", cmd[w].job>> \in m_pending_jobs

(* Two workers never work for one job: m_pending_jobs is a mutual exclusion  *)
(* per job, for any number of workers and however commands end.              *)
THEOREM JobsAreExclusive == Spec => []OneWorkerPerJob
<1> DEFINE Inv == Registered /\ OneWorkerPerJob
<1>1. Init => Inv
  BY DEF Init, Registered, OneWorkerPerJob, Executing
<1>2. TypeOK /\ Inv /\ [Next]_vars => Inv'
  <2> SUFFICES ASSUME TypeOK, Inv, [Next]_vars PROVE Inv'
    OBVIOUS
  <2> USE DEF TypeOK, Registered, OneWorkerPerJob, Executing
  <2>1. ASSUME NEW w \in Workers, TestStopped(w) \/ Wait(w) \/ StopAfterWait(w) PROVE Inv'
    BY <2>1 DEF TestStopped, Wait, StopAfterWait, Awake
  <2>2. ASSUME NEW w \in Workers, Take(w) PROVE Inv'
    <3>1. PICK i \in get_first_request :
            /\ cmd' = [cmd EXCEPT ![w] = m_requests_queue[i]]
            /\ m_pending_jobs' = m_pending_jobs \cup {get_grid_job_id(m_requests_queue[i])}
      BY <2>2, Zenon DEF Take
    <3> DEFINE c == m_requests_queue[i]
    <3>2. get_grid_job_id(c) \notin m_pending_jobs
      BY DEF get_first_request, Servable
    <3>3. cmd'[w] = c /\ \A v \in Workers \ {w} : cmd'[v] = cmd[v] /\ pc'[v] = pc[v]
      BY <2>2, <3>1 DEF Take
    <3>4. c.job # Timed => get_grid_job_id(c) = <<"job", c.job>>
      BY DEF get_grid_job_id
    <3> HIDE DEF c
    <3>5. \A v \in Executing \ {w} : cmd[v].job = c.job => c.job = Timed
      BY <3>2, <3>4
    <3>. QED
      BY <3>1, <3>3, <3>4, <3>5 DEF c
  <2>3. ASSUME NEW w \in Workers, Finish(w) PROVE Inv'
    <3>1. \A v \in Executing' : v # w /\ v \in Executing /\ cmd'[v] = cmd[v]
      BY <2>3 DEF Finish, notify_all, Woken
    <3>2. ASSUME NEW v \in Executing', cmd[v].job # Timed
          PROVE  <<"job", cmd[v].job>> # get_grid_job_id(cmd[w])
      <4>1. w \in Executing
        BY <2>3 DEF Finish
      <4>2. cmd[v].job # cmd[w].job
        BY <3>1, <3>2, <4>1
      <4>. QED
        BY <4>2 DEF get_grid_job_id
    <3>3. m_pending_jobs' = m_pending_jobs \ {get_grid_job_id(cmd[w])}
      BY <2>3 DEF Finish
    <3>. QED
      BY <3>1, <3>2, <3>3
  <2>4. ASSUME NEW w \in Workers, SpuriousWakeup(w) \/ ExitFatal(w) \/ Stop(w) PROVE Inv'
    BY <2>4 DEF SpuriousWakeup, ExitFatal, Stop
  <2>5. ASSUME NEW j \in Jobs, add_request(j) PROVE Inv'
    BY <2>5 DEF add_request, notify_all, Woken
  <2>6. CASE NotifyStopped
    BY <2>6 DEF NotifyStopped, notify_all, Woken
  <2>7. CASE Poll \/ AddEnds \/ Sleep \/ JoinAll \/ Tick
    BY <2>7 DEF Poll, AddEnds, Sleep, JoinAll, Tick
  <2>8. CASE Over \/ UNCHANGED vars
    BY <2>8 DEF Over, vars
  <2>. QED
    BY <2>1, <2>2, <2>3, <2>4, <2>5, <2>6, <2>7, <2>8, Zenon DEF Next, WorkerStep, MainStep
<1>3. QED
  BY <1>1, <1>2, Typing, PTL DEF Spec

(* A pool's commands are of its own jobs, and once ICE exits nobody waits.   *)
OwnJobs ==
    /\ \A i \in 1 .. Len(m_requests_queue) : m_requests_queue[i].job \in jobs
    /\ \A w \in Executing : cmd[w].job \in jobs
    /\ main = "exited" => \A w \in Workers : pc[w] = "ended"

(* Only its own jobs reach a pool.                                           *)
LEMMA PoolServesItsJobs == Spec => []OwnJobs
<1>1. Init => OwnJobs
  BY DEF Init, OwnJobs, Executing
<1>2. TypeOK /\ TypeOK' /\ OwnJobs /\ [Next]_vars => OwnJobs'
  <2> SUFFICES ASSUME TypeOK, TypeOK', OwnJobs, [Next]_vars PROVE OwnJobs'
    OBVIOUS
  <2>0. Len(m_requests_queue) \in Nat
    BY QueueEntries
  <2> USE DEF OwnJobs, Executing
  <2>1. ASSUME NEW w \in Workers, TestStopped(w) \/ Wait(w) \/ StopAfterWait(w) PROVE OwnJobs'
    BY <2>1 DEF TestStopped, Wait, StopAfterWait, Awake, TypeOK
  <2>2. ASSUME NEW w \in Workers, Take(w) PROVE OwnJobs'
    <3>1. PICK i \in 1 .. Len(m_requests_queue) :
            cmd' = [cmd EXCEPT ![w] = m_requests_queue[i]] /\ m_requests_queue' = Erased(i)
      BY <2>2, Zenon DEF Take, get_first_request, Servable
    <3>2. /\ Len(m_requests_queue') = Len(m_requests_queue) - 1
          /\ \A k \in 1 .. Len(m_requests_queue') :
               m_requests_queue'[k] = IF k < i THEN m_requests_queue[k] ELSE m_requests_queue[k + 1]
      BY <3>1, ErasedProperties, Zenon DEF TypeOK
    <3>3. ASSUME NEW k \in 1 .. Len(m_requests_queue') PROVE m_requests_queue'[k].job \in jobs
      BY <2>0, <3>2
    <3>4. \A v \in Executing' : cmd'[v].job \in jobs
      BY <2>2, <3>1 DEF Take, TypeOK
    <3>5. jobs' = jobs /\ main' = main /\ main # "exited"
      BY <2>2 DEF Take, Awake
    <3>. QED
      BY <3>3, <3>4, <3>5
  <2>3. ASSUME NEW w \in Workers, Finish(w) PROVE OwnJobs'
    BY <2>3 DEF Finish, notify_all, Woken, TypeOK
  <2>4. ASSUME NEW w \in Workers, SpuriousWakeup(w) \/ ExitFatal(w) \/ Stop(w) PROVE OwnJobs'
    BY <2>4 DEF SpuriousWakeup, ExitFatal, Stop, TypeOK
  <2>5. ASSUME NEW j \in Jobs, add_request(j) PROVE OwnJobs'
    <3>1. /\ Len(m_requests_queue') = Len(m_requests_queue) + 1
          /\ \A i \in 1 .. Len(m_requests_queue) : m_requests_queue'[i] = m_requests_queue[i]
          /\ m_requests_queue'[Len(m_requests_queue) + 1].job = j
      BY <2>5 DEF add_request, TypeOK
    <3>2. ASSUME NEW i \in 1 .. Len(m_requests_queue') PROVE m_requests_queue'[i].job \in jobs
      BY <2>0, <2>5, <3>1 DEF add_request
    <3>3. jobs' = jobs /\ main' # "exited" /\ cmd' = cmd /\ Executing' = Executing
      BY <2>5 DEF add_request, notify_all, Woken
    <3>. QED
      BY <3>2, <3>3
  <2>6. CASE NotifyStopped
    BY <2>6 DEF NotifyStopped, notify_all, Woken
  <2>7. CASE Poll \/ AddEnds \/ Sleep \/ JoinAll \/ Tick
    BY <2>7 DEF Poll, AddEnds, Sleep, JoinAll, Tick
  <2>8. CASE Over \/ UNCHANGED vars
    BY <2>8 DEF Over, vars
  <2>. QED
    BY <2>1, <2>2, <2>3, <2>4, <2>5, <2>6, <2>7, <2>8 DEF Next, WorkerStep, MainStep
<1>3. QED
  BY <1>1, <1>2, Typing, PTL DEF Spec

(* Where the ids are times, the present one is pending only while a worker   *)
(* executes: the ids that Finish leaves behind are of the past.              *)
TimesAreHeld ==
    /\ \A t \in 0 .. MaxTime : <<"at", t>> \in m_pending_jobs => t <= time
    /\ Timed \in jobs /\ main # "exited" /\ <<"at", time>> \in m_pending_jobs => Executing # {}

(* An id that is left in m_pending_jobs never blocks a command by itself.    *)
LEMMA PresentTimeIsHeld == Spec => []TimesAreHeld
<1> USE PoolAssumption
<1>1. Init => TimesAreHeld
  BY DEF Init, TimesAreHeld
<1>2. TypeOK /\ OwnJobs /\ TimesAreHeld /\ [Next]_vars => TimesAreHeld'
  <2> SUFFICES ASSUME TypeOK, OwnJobs, TimesAreHeld, [Next]_vars PROVE TimesAreHeld'
    OBVIOUS
  <2>1. ASSUME UNCHANGED <<m_pending_jobs, outside>>, Executing' = Executing,
               main = "exited" => main' = "exited"
        PROVE  TimesAreHeld'
    BY <2>1 DEF TimesAreHeld
  <2>2. ASSUME NEW w \in Workers, TestStopped(w) \/ Wait(w) \/ StopAfterWait(w) \/
                                  SpuriousWakeup(w) \/ Stop(w)
        PROVE  TimesAreHeld'
    BY <2>1, <2>2 DEF TestStopped, Wait, StopAfterWait, Awake, SpuriousWakeup, Stop, Executing, TypeOK
  <2>3. ASSUME NEW w \in Workers, Take(w) PROVE TimesAreHeld'
    <3>1. PICK i \in 1 .. Len(m_requests_queue) :
            m_pending_jobs' = m_pending_jobs \cup {get_grid_job_id(m_requests_queue[i])}
      BY <2>3 DEF Take, get_first_request, Servable
    <3>2. w \in Executing' /\ time' = time
      BY <2>3 DEF Take, Executing, TypeOK
    <3>3. time \in Nat
      BY DEF TypeOK
    <3>4. ASSUME NEW t \in 0 .. MaxTime, <<"at", t>> = get_grid_job_id(m_requests_queue[i])
          PROVE  t = time
      BY <3>4 DEF get_grid_job_id
    <3>. QED
      BY <3>1, <3>2, <3>3, <3>4 DEF TimesAreHeld
  <2>4. ASSUME NEW w \in Workers, Finish(w) PROVE TimesAreHeld'
    <3>1. m_pending_jobs' = m_pending_jobs \ {get_grid_job_id(cmd[w])} /\ UNCHANGED outside
      BY <2>4 DEF Finish
    <3>2. Timed \in jobs => cmd[w].job = Timed
      BY <2>4 DEF Finish, OwnJobs, Executing, TypeOK
    <3>. QED
      BY <3>1, <3>2 DEF TimesAreHeld, get_grid_job_id
  <2>5. ASSUME NEW w \in Workers, ExitFatal(w) PROVE TimesAreHeld'
    BY <2>5 DEF ExitFatal, TimesAreHeld
  <2>6. ASSUME NEW j \in Jobs, add_request(j) PROVE TimesAreHeld'
    BY <2>1, <2>6 DEF add_request, notify_all, Woken, Executing
  <2>7. CASE NotifyStopped
    BY <2>1, <2>7 DEF NotifyStopped, notify_all, Woken, Executing
  <2>8. CASE Poll \/ AddEnds \/ Sleep \/ JoinAll
    BY <2>1, <2>8 DEF Poll, AddEnds, Sleep, JoinAll, Executing
  <2>9. CASE Tick
    <3>1. time' = time + 1 /\ time' \in 0 .. MaxTime /\ time \in Nat /\ m_pending_jobs' = m_pending_jobs
      BY <2>9 DEF Tick, TypeOK
    <3>2. <<"at", time'>> \notin m_pending_jobs
      BY <3>1 DEF TimesAreHeld
    <3>. QED
      BY <3>1, <3>2 DEF TimesAreHeld
  <2>10. CASE Over \/ UNCHANGED vars
    BY <2>1, <2>10 DEF Over, vars, Executing
  <2>. QED
    BY <2>2, <2>3, <2>4, <2>5, <2>6, <2>7, <2>8, <2>9, <2>10 DEF Next, WorkerStep, MainStep
<1>3. QED
  BY <1>1, <1>2, Typing, PoolServesItsJobs, PTL DEF Spec

(* No worker sleeps beside a command it could take, in either kind of pool:  *)
(* whatever makes a command servable wakes every worker, but for the clock,  *)
(* and while that frees a command another worker executes.                   *)
THEOREM NoWorkerSleepsOnWork == Spec => []NoIdleWorker
<1> USE PoolAssumption
<1>1. Init => NoIdleWorker
  BY DEF Init, NoIdleWorker
<1>2. TypeOK /\ OwnJobs /\ TimesAreHeld /\ NoIdleWorker /\ [Next]_vars => NoIdleWorker'
  <2> DEFINE Fine == Servable = {} \/ (Timed \in jobs /\ Executing # {})
  <2> SUFFICES ASSUME TypeOK, OwnJobs, TimesAreHeld, [Next]_vars,
                      (\E w \in Workers : pc[w] = "wait") => Fine,
                      NEW v \in Workers, pc'[v] = "wait"
               PROVE  Fine'
    BY DEF NoIdleWorker
  <2>1. ASSUME UNCHANGED <<m_requests_queue, m_pending_jobs, outside>> PROVE Servable' = Servable
    BY <2>1 DEF Servable, get_grid_job_id
  <2>2. ASSUME UNCHANGED <<m_requests_queue, m_pending_jobs, outside>>, Executing' = Executing,
               pc[v] = "wait"
        PROVE  Fine'
    BY <2>1, <2>2
  <2> HIDE DEF Fine
  <2>3. ASSUME NEW w \in Workers, TestStopped(w) \/ StopAfterWait(w) \/ SpuriousWakeup(w) \/ Stop(w)
        PROVE  Fine'
    BY <2>2, <2>3 DEF TestStopped, StopAfterWait, SpuriousWakeup, Stop, Executing, TypeOK
  <2>4. ASSUME NEW w \in Workers, Wait(w) PROVE Fine'
    BY <2>1, <2>4 DEF Wait, Fine
  <2>5. ASSUME NEW w \in Workers, Take(w) PROVE Fine'
    <3>1. w \in Executing' /\ jobs' = jobs
      BY <2>5 DEF Take, Executing, TypeOK
    <3>2. PICK i \in Servable : TRUE
      BY <2>5 DEF Take, get_first_request
    <3>3. pc[v] = "wait"
      BY <2>5 DEF Take, TypeOK
    <3>. QED
      BY <3>1, <3>2, <3>3 DEF Fine
  <2>6. ASSUME NEW w \in Workers, Finish(w) \/ ExitFatal(w) PROVE Fine'
    BY <2>6, Zenon DEF Finish, ExitFatal, notify_all, Woken, TypeOK
  <2>7. ASSUME NEW j \in Jobs, add_request(j) PROVE Fine'
    BY <2>7 DEF add_request, notify_all, Woken
  <2>8. CASE NotifyStopped
    BY <2>8 DEF NotifyStopped, notify_all, Woken
  <2>9. CASE Poll \/ AddEnds \/ Sleep \/ JoinAll \/ Over \/ UNCHANGED vars
    BY <2>2, <2>9 DEF Poll, AddEnds, Sleep, JoinAll, Over, vars, Executing
  <2>10. CASE Tick
    <3>1. /\ UNCHANGED <<m_requests_queue, m_pending_jobs, jobs>>
          /\ Executing' = Executing /\ pc[v] = "wait" /\ Fine
      BY <2>10 DEF Tick, Executing
    <3>2. CASE Timed \notin jobs
      <4>1. ASSUME NEW i \in 1 .. Len(m_requests_queue)
            PROVE  get_grid_job_id(m_requests_queue[i])' = get_grid_job_id(m_requests_queue[i])
        BY <3>1, <3>2 DEF get_grid_job_id, OwnJobs
      <4>2. Servable' = Servable
        BY <3>1, <4>1 DEF Servable
      <4>. QED
        BY <3>1, <3>2, <4>2 DEF Fine
    <3>3. CASE Timed \in jobs /\ Executing # {}
      BY <3>1, <3>3 DEF Fine
    <3>4. CASE Timed \in jobs /\ Servable = {} /\ Servable' # {}
      <4>1. PICK i \in 1 .. Len(m_requests_queue) : TRUE
        BY <3>1, <3>4 DEF Servable
      <4>2. m_requests_queue[i].job = Timed
        BY <3>4 DEF OwnJobs, TypeOK
      <4>3. <<"at", time>> \in m_pending_jobs
        BY <3>4, <4>2, Zenon DEF Servable, get_grid_job_id
      <4>4. main # "exited"
        BY <3>1 DEF OwnJobs
      <4>. QED
        BY <3>1, <3>4, <4>3, <4>4 DEF TimesAreHeld, Fine
    <3>. QED
      BY <3>1, <3>2, <3>3, <3>4 DEF Fine
  <2>. QED
    BY <2>3, <2>4, <2>5, <2>6, <2>7, <2>8, <2>9, <2>10 DEF Next, WorkerStep, MainStep
<1>3. QED
  BY <1>1, <1>2, Typing, PoolServesItsJobs, PresentTimeIsHeld, PTL DEF Spec

(* What a poll has fetched comes on top of at most max_ice_threads commands. *)
Batch ==
    /\ fetched <= ReqNum
    /\ main = "add" => Len(m_requests_queue) <= MaxIceThreads + fetched

(* The main loop's test of the queue before it fetches bounds the queue.     *)
THEOREM QueueIsBounded == Spec => []QueueBounded
<1> USE PoolAssumption
<1> DEFINE Inv == QueueBounded /\ Batch
<1>1. Init => Inv
  BY DEF Init, QueueBounded, Batch
<1>2. TypeOK /\ TypeOK' /\ Inv /\ [Next]_vars => Inv'
  <2> SUFFICES ASSUME TypeOK, TypeOK', Inv, [Next]_vars PROVE Inv'
    OBVIOUS
  <2>0. Len(m_requests_queue) \in Nat /\ Len(m_requests_queue') \in Nat
    BY LenProperties DEF TypeOK
  <2>a. fetched \in Nat /\ MaxIceThreads \in Nat /\ ReqNum \in Nat
    BY DEF TypeOK
  <2> USE DEF QueueBounded, Batch
  <2>1. ASSUME NEW w \in Workers, Take(w) PROVE Inv'
    <3>1. PICK i \in 1 .. Len(m_requests_queue) : m_requests_queue' = Erased(i)
      BY <2>1 DEF Take, get_first_request, Servable
    <3>2. Len(m_requests_queue') = Len(m_requests_queue) - 1
      BY <3>1, ErasedProperties DEF TypeOK
    <3>3. fetched' = fetched /\ main' = main
      BY <2>1 DEF Take
    <3>. QED
      BY <2>0, <2>a, <3>2, <3>3
  <2>2. CASE UNCHANGED <<m_requests_queue, fetched>> /\ (main' = "add" => main = "add")
    BY <2>2
  <2>3. ASSUME NEW w \in Workers,
               TestStopped(w) \/ Wait(w) \/ StopAfterWait(w) \/ Finish(w) \/ SpuriousWakeup(w)
               \/ ExitFatal(w) \/ Stop(w)
        PROVE  Inv'
    BY <2>2, <2>3 DEF TestStopped, Wait, StopAfterWait, Finish, SpuriousWakeup, ExitFatal, Stop
  <2>4. CASE Poll
    BY <2>0, <2>4 DEF Poll, TypeOK
  <2>5. ASSUME NEW j \in Jobs, add_request(j) PROVE Inv'
    <3>1. Len(m_requests_queue') = Len(m_requests_queue) + 1
      <4>1. m_requests_queue' = Append(m_requests_queue, [seq |-> added + 1, job |-> j])
        BY <2>5 DEF add_request
      <4>2. m_requests_queue \in Seq(Command) /\ [seq |-> added + 1, job |-> j] \in Command
        BY DEF TypeOK, Command
      <4>. QED
        BY <4>1, <4>2, AppendProperties
    <3>2. main = "add" /\ main' = main /\ fetched < ReqNum /\ fetched' = fetched + 1
      BY <2>5 DEF add_request
    <3>. QED
      BY <2>0, <2>a, <3>1, <3>2
  <2>6. CASE AddEnds \/ Sleep \/ NotifyStopped \/ JoinAll \/ Tick
    BY <2>2, <2>6 DEF AddEnds, Sleep, NotifyStopped, JoinAll, Tick
  <2>7. CASE Over \/ UNCHANGED vars
    BY <2>2, <2>7 DEF Over, vars
  <2>. QED
    BY <2>1, <2>3, <2>4, <2>5, <2>6, <2>7 DEF Next, WorkerStep, MainStep
<1>3. QED
  BY <1>1, <1>2, Typing, PTL DEF Spec

(* The list is in the order of the calls of add_request.                     *)
InOrder ==
    /\ \A i \in 1 .. Len(m_requests_queue) : m_requests_queue[i].seq <= added
    /\ \A i, k \in 1 .. Len(m_requests_queue) :
         i < k => m_requests_queue[i].seq < m_requests_queue[k].seq

(* add_request appends and a worker only erases: the list keeps its order.   *)
LEMMA ListInOrder == Spec => []InOrder
<1> USE PoolAssumption
<1>1. Init => InOrder
  BY DEF Init, InOrder
<1>2. TypeOK /\ TypeOK' /\ InOrder /\ [Next]_vars => InOrder'
  <2> SUFFICES ASSUME TypeOK, TypeOK', InOrder, [Next]_vars PROVE InOrder'
    OBVIOUS
  <2>0. /\ Len(m_requests_queue) \in Nat /\ added \in Nat
        /\ \A i \in 1 .. Len(m_requests_queue) : m_requests_queue[i].seq \in Nat
    BY QueueEntries DEF TypeOK
  <2>1. ASSUME NEW w \in Workers, Take(w) PROVE InOrder'
    <3>1. PICK i \in 1 .. Len(m_requests_queue) : m_requests_queue' = Erased(i)
      BY <2>1 DEF Take, get_first_request, Servable
    <3>2. /\ Len(m_requests_queue') = Len(m_requests_queue) - 1
          /\ \A k \in 1 .. Len(m_requests_queue') :
               m_requests_queue'[k] = IF k < i THEN m_requests_queue[k] ELSE m_requests_queue[k + 1]
      BY <3>1, ErasedProperties DEF TypeOK
    <3>3. added' = added
      BY <2>1 DEF Take
    <3> DEFINE at(k) == IF k < i THEN k ELSE k + 1
    <3>4. ASSUME NEW k \in 1 .. Len(m_requests_queue')
          PROVE  at(k) \in 1 .. Len(m_requests_queue) /\ m_requests_queue'[k] = m_requests_queue[at(k)]
      BY <2>0, <3>2
    <3>5. ASSUME NEW k \in 1 .. Len(m_requests_queue'), NEW l \in 1 .. Len(m_requests_queue'), k < l
          PROVE  at(k) < at(l)
      BY <2>0, <3>2, <3>5
    <3> HIDE DEF at
    <3>. QED
      BY <3>3, <3>4, <3>5, Zenon DEF InOrder
  <2>2. CASE UNCHANGED <<m_requests_queue, added>>
    BY <2>2 DEF InOrder
  <2>3. ASSUME NEW w \in Workers,
               TestStopped(w) \/ Wait(w) \/ StopAfterWait(w) \/ Finish(w) \/ SpuriousWakeup(w)
               \/ ExitFatal(w) \/ Stop(w)
        PROVE  InOrder'
    BY <2>2, <2>3 DEF TestStopped, Wait, StopAfterWait, Finish, SpuriousWakeup, ExitFatal, Stop
  <2>4. ASSUME NEW j \in Jobs, add_request(j) PROVE InOrder'
    <3>1. /\ Len(m_requests_queue') = Len(m_requests_queue) + 1
          /\ \A i \in 1 .. Len(m_requests_queue) : m_requests_queue'[i] = m_requests_queue[i]
          /\ m_requests_queue'[Len(m_requests_queue) + 1] = [seq |-> added + 1, job |-> j]
          /\ added' = added + 1
      <4>1. m_requests_queue \in Seq(Command)
        BY DEF TypeOK
      <4>2. [seq |-> added + 1, job |-> j] \in Command
        BY DEF TypeOK, Command
      <4>3. /\ m_requests_queue' = Append(m_requests_queue, [seq |-> added + 1, job |-> j])
            /\ added' = added + 1
        BY <2>4 DEF add_request
      <4>. QED
        BY <4>1, <4>2, <4>3, AppendProperties
    <3>2. ASSUME NEW i \in 1 .. Len(m_requests_queue')
          PROVE  \/ i \in 1 .. Len(m_requests_queue) /\ m_requests_queue'[i] = m_requests_queue[i]
                 \/ /\ i = Len(m_requests_queue) + 1
                    /\ m_requests_queue'[i].seq = added'
      BY <2>0, <3>1
    <3>3. ASSUME NEW i \in 1 .. Len(m_requests_queue') PROVE m_requests_queue'[i].seq <= added'
      BY <2>0, <3>1, <3>2 DEF InOrder
    <3>4. ASSUME NEW i \in 1 .. Len(m_requests_queue'),
                 NEW k \in 1 .. Len(m_requests_queue'), i < k
          PROVE  m_requests_queue'[i].seq < m_requests_queue'[k].seq
      <4>1. i \in 1 .. Len(m_requests_queue) /\ m_requests_queue'[i] = m_requests_queue[i]
        BY <2>0, <3>1, <3>4
      <4>2. m_requests_queue[i].seq \in Nat /\ m_requests_queue[i].seq <= added
        BY <2>0, <4>1 DEF InOrder
      <4>3. CASE k \in 1 .. Len(m_requests_queue) /\ m_requests_queue'[k] = m_requests_queue[k]
        BY <3>4, <4>1, <4>3 DEF InOrder
      <4>4. CASE m_requests_queue'[k].seq = added'
        BY <2>0, <3>1, <4>1, <4>2, <4>4
      <4>. QED
        BY <3>2, <4>3, <4>4
    <3>. QED
      BY <3>3, <3>4 DEF InOrder
  <2>5. CASE Poll \/ AddEnds \/ Sleep \/ NotifyStopped \/ JoinAll \/ Tick
    BY <2>2, <2>5 DEF Poll, AddEnds, Sleep, NotifyStopped, JoinAll, Tick
  <2>6. CASE Over \/ UNCHANGED vars
    BY <2>2, <2>6 DEF Over, vars
  <2>. QED
    BY <2>1, <2>3, <2>4, <2>5, <2>6 DEF Next, WorkerStep, MainStep
<1>3. QED
  BY <1>1, <1>2, Typing, PTL DEF Spec

(* Commands of one job are taken in the order they were added, though those  *)
(* of other jobs overtake them: the scan stops at the first command whose    *)
(* job is free, and the list is in order.                                    *)
THEOREM JobsInOrder == Spec => JobOrder
<1>1. TypeOK /\ InOrder /\ [Next]_vars =>
        [\A w \in Workers : pc[w] # "exec" /\ pc'[w] = "exec" =>
          \A i \in 1 .. Len(m_requests_queue) :
              m_requests_queue[i].job = cmd'[w].job => cmd'[w].seq <= m_requests_queue[i].seq]_vars
  <2> SUFFICES ASSUME TypeOK, InOrder, [Next]_vars,
                      NEW w \in Workers, pc[w] # "exec", pc'[w] = "exec",
                      NEW k \in 1 .. Len(m_requests_queue),
                      m_requests_queue[k].job = cmd'[w].job
               PROVE  cmd'[w].seq <= m_requests_queue[k].seq
    OBVIOUS
  <2>1. Take(w)
    <3> USE DEF TypeOK
    <3>1. ASSUME NEW v \in Workers, WorkerStep(v) PROVE Take(w)
      BY <3>1, Zenon DEF WorkerStep, TestStopped, Wait, Take, StopAfterWait, Finish, notify_all, Woken
    <3>2. ASSUME NEW v \in Workers, SpuriousWakeup(v) \/ ExitFatal(v) \/ Stop(v) PROVE FALSE
      BY <3>2 DEF SpuriousWakeup, ExitFatal, Stop
    <3>3. ASSUME NEW j \in Jobs, add_request(j) PROVE FALSE
      BY <3>3 DEF add_request, notify_all, Woken
    <3>4. CASE Poll \/ AddEnds \/ Sleep \/ NotifyStopped \/ JoinAll \/ Tick \/ Over \/ UNCHANGED vars
      BY <3>4 DEF Poll, AddEnds, Sleep, NotifyStopped, JoinAll, Tick, Over, vars, notify_all, Woken
    <3>. QED
      BY <3>1, <3>2, <3>3, <3>4 DEF Next, MainStep
  <2>2. PICK i \in get_first_request : cmd' = [cmd EXCEPT ![w] = m_requests_queue[i]]
    BY <2>1, Zenon DEF Take
  <2>3. cmd'[w] = m_requests_queue[i] /\ i \in 1 .. Len(m_requests_queue)
    BY <2>2 DEF TypeOK, get_first_request, Servable
  <2>4. get_grid_job_id(m_requests_queue[k]) = get_grid_job_id(m_requests_queue[i])
    BY <2>3 DEF get_grid_job_id
  <2>5. k \in Servable
    BY <2>2, <2>4 DEF get_first_request, Servable
  <2>6. i <= k
    BY <2>2, <2>5 DEF get_first_request
  <2>7. m_requests_queue[i].seq \in Nat /\ m_requests_queue[k].seq \in Nat
    BY <2>3, QueueEntries
  <2>8. i = k \/ m_requests_queue[i].seq < m_requests_queue[k].seq
    BY <2>3, <2>6, QueueEntries DEF InOrder
  <2>. QED
    BY <2>3, <2>7, <2>8
<1>2. QED
  BY <1>1, Typing, ListInOrder, PTL DEF Spec, JobOrder
=============================================================================
