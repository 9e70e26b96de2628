---------------------------- MODULE IceThreadPool ----------------------------
(***************************************************************************)
(* A pool of ICE worker threads (ice/src/threads/IceThreadPool.cpp) and the *)
(* main loop of ICE that feeds it (ice/src/main/Main.cpp).  Workers take    *)
(* commands from one list, skipping those whose job another worker is       *)
(* working for.                                                             *)
(*                                                                          *)
(* The commands of the requests pool return the id of their job.  Those of  *)
(* the LB logging, event query and delegation renewal pools have none: they *)
(* return the time of the call, a different id at every call.  The threads  *)
(* that feed those pools poll the length of the queue and add, as main does. *)
(*                                                                          *)
(* A critical section of m_mutex is one step.  m_stopped is read and        *)
(* written without the mutex, and stopAllThreads notifies without it.       *)
(***************************************************************************)
EXTENDS Integers, Sequences, FiniteSets

CONSTANTS
    Workers,        \* the threads of the pool
    Jobs,           \* what the commands belong to
    Timed,          \* the member of Jobs whose commands have no job: id by time
    Pools,          \* the sets of jobs a pool may serve: {Timed}, or without Timed
    MaxCommands,    \* bound on the commands ever added
    MaxTime,        \* bound on the clock
    MaxIceThreads,  \* max_ice_threads: no new requests above this length
    ReqNum,         \* m_reqnum: how many requests one poll fetches
    MaxTimesFull    \* 3600 in the code: polls with a full queue before a restart

ASSUME PoolAssumption ==
    /\ MaxCommands \in Nat /\ MaxTime \in Nat /\ MaxIceThreads \in Nat
    /\ ReqNum \in Nat /\ MaxTimesFull \in Nat
    /\ \A P \in Pools : P \subseteq Jobs /\ (Timed \in P => P = {Timed})

VARIABLES
    m_requests_queue,       \* sequence of [seq, job]
    m_pending_jobs,         \* ids of the jobs being worked for
    pc, cmd,                \* of each worker: where it is, and its command
    m_stopped,              \* of each worker
    main,                   \* where the main loop is
    fetched,                \* requests this poll has added
    m_times_too_queue_full,
    added,                  \* how many commands have been added so far
    time,
    jobs                    \* the jobs of this pool's commands

\* no thread of the pool changes it
outside == <<time, jobs>>

vars == <<m_requests_queue, m_pending_jobs, pc, cmd, m_stopped, main, fetched,
          m_times_too_queue_full, added, outside>>

NoCommand == [seq |-> 0, job |-> "none"]

Init ==
    /\ m_requests_queue = <<>> /\ m_pending_jobs = {}
    /\ pc = [w \in Workers |-> "top"]
    /\ cmd = [w \in Workers |-> NoCommand]
    /\ m_stopped = [w \in Workers |-> FALSE]
    /\ main = "poll" /\ fetched = 0 /\ m_times_too_queue_full = 0
    /\ added = 0 /\ time = 0 /\ jobs \in Pools
-----------------------------------------------------------------------------
(* IceThreadPoolWorker *)

\* cmd->get_grid_job_id()
get_grid_job_id(c) == IF c.job = Timed THEN <<"at", time>> ELSE <<"job", c.job>>

\* the positions get_first_request() would not step over
Servable ==
    {i \in 1 .. Len(m_requests_queue) :
        get_grid_job_id(m_requests_queue[i]) \notin m_pending_jobs}

any_request == Servable
get_first_request == {i \in Servable : \A k \in Servable : i <= k}

Woken(w) == IF pc[w] = "wait" THEN "woken" ELSE pc[w]
notify_one_only ==
    IF \E w \in Workers : pc[w] = "wait"
    THEN LET v == CHOOSE w \in Workers : pc[w] = "wait" IN [pc EXCEPT ![v] = "woken"]
    ELSE pc
notify_all == [w \in Workers |-> Woken(w)]

Erased(i) ==
    SubSeq(m_requests_queue, 1, i - 1) \o
    SubSeq(m_requests_queue, i + 1, Len(m_requests_queue))

\* while( !isStopped() )
TestStopped(w) ==
    /\ pc[w] = "top"
    /\ pc' = [pc EXCEPT ![w] = IF m_stopped[w] THEN "ended" ELSE "lock"]
    /\ UNCHANGED <<m_requests_queue, m_pending_jobs, cmd, m_stopped, main, fetched,
                   m_times_too_queue_full, added, outside>>

\* in the loop around get_first_request(), with the mutex
Awake(w) == pc[w] = "lock" \/ (pc[w] = "woken" /\ ~ m_stopped[w])

\* get_first_request() returned end(): m_no_requests_available.wait( L )
Wait(w) ==
    /\ Awake(w)
    /\ Servable = {}
    /\ pc' = [pc EXCEPT ![w] = "wait"]
    /\ UNCHANGED <<m_requests_queue, m_pending_jobs, cmd, m_stopped, main, fetched,
                   m_times_too_queue_full, added, outside>>

Take(w) ==
    /\ Awake(w)
    /\ \E i \in get_first_request :
         /\ cmd' = [cmd EXCEPT ![w] = m_requests_queue[i]]
         /\ m_requests_queue' = Erased(i)
         /\ m_pending_jobs' = m_pending_jobs \cup {get_grid_job_id(m_requests_queue[i])}
    /\ pc' = [pc EXCEPT ![w] = "exec"]
    /\ UNCHANGED <<m_stopped, main, fetched, m_times_too_queue_full, added, outside>>

\* after the wait: if( isStopped() ) return
StopAfterWait(w) ==
    /\ pc[w] = "woken" /\ m_stopped[w]
    /\ pc' = [pc EXCEPT ![w] = "ended"]
    /\ UNCHANGED <<m_requests_queue, m_pending_jobs, cmd, m_stopped, main, fetched,
                   m_times_too_queue_full, added, outside>>

\* a condition variable may wake for no reason
SpuriousWakeup(w) ==
    /\ pc[w] = "wait"
    /\ pc' = [pc EXCEPT ![w] = "woken"]
    /\ UNCHANGED <<m_requests_queue, m_pending_jobs, cmd, m_stopped, main, fetched,
                   m_times_too_queue_full, added, outside>>

Finish_erases_time(w) ==
    /\ pc[w] = "exec"
    /\ m_pending_jobs' = m_pending_jobs \ {<<"at", time>>}
    /\ cmd' = [cmd EXCEPT ![w] = NoCommand]
    /\ pc' = [notify_all EXCEPT ![w] = "top"]
    /\ UNCHANGED <<m_requests_queue, m_stopped, main, fetched, m_times_too_queue_full, added,
                   outside>>
\* execute() returned or threw; erase the id and wake the others
Finish(w) ==
    /\ pc[w] = "exec"
    /\ m_pending_jobs' = m_pending_jobs \ {get_grid_job_id(cmd[w])}
    /\ cmd' = [cmd EXCEPT ![w] = NoCommand]
    /\ pc' = [notify_all EXCEPT ![w] = "top"]
    /\ UNCHANGED <<m_requests_queue, m_stopped, main, fetched, m_times_too_queue_full, added,
                   outside>>

\* soap_runtime_ex: exit(2)
ExitFatal(w) ==
    /\ pc[w] = "exec" /\ main # "stopped"
    /\ pc' = [v \in Workers |-> "ended"]
    /\ main' = "exited"
    /\ UNCHANGED <<m_requests_queue, m_pending_jobs, cmd, m_stopped, fetched,
                   m_times_too_queue_full, added, outside>>
-----------------------------------------------------------------------------
(* The main loop *)

Poll ==
    /\ main = "poll"
    /\ IF Len(m_requests_queue) > MaxIceThreads
         THEN /\ m_times_too_queue_full' = m_times_too_queue_full + 1
              /\ main' = IF m_times_too_queue_full' > MaxTimesFull THEN "stop" ELSE "sleep"
              /\ UNCHANGED fetched
         ELSE m_times_too_queue_full' = 0 /\ fetched' = 0 /\ main' = "add"
    /\ UNCHANGED <<m_requests_queue, m_pending_jobs, pc, cmd, m_stopped, added, outside>>

\* add_request, for one of the fetched requests
add_request(j) ==
    /\ main = "add" /\ j \in jobs /\ fetched < ReqNum /\ added < MaxCommands
    /\ added' = added + 1
    /\ fetched' = fetched + 1
    /\ m_requests_queue' = Append(m_requests_queue, [seq |-> added + 1, job |-> j])
    /\ pc' = notify_all
    /\ UNCHANGED <<m_pending_jobs, cmd, m_stopped, main, m_times_too_queue_full, outside>>

AddEnds ==
    /\ main = "add"
    /\ main' = "sleep"
    /\ UNCHANGED <<m_requests_queue, m_pending_jobs, pc, cmd, m_stopped, fetched,
                   m_times_too_queue_full, added, outside>>

\* sleep(1), then the memory check, which may find the process too large
Sleep ==
    /\ main = "sleep"
    /\ main' \in {"poll", "stop"}
    /\ UNCHANGED <<m_requests_queue, m_pending_jobs, pc, cmd, m_stopped, fetched,
                   m_times_too_queue_full, added, outside>>

\* stopAllThreads: stop() on each thread, one after the other
Stop(w) ==
    /\ main = "stop" /\ ~ m_stopped[w]
    /\ m_stopped' = [m_stopped EXCEPT ![w] = TRUE]
    /\ UNCHANGED <<m_requests_queue, m_pending_jobs, pc, cmd, main, fetched,
                   m_times_too_queue_full, added, outside>>

NotifyStopped ==
    /\ main = "stop" /\ \A w \in Workers : m_stopped[w]
    /\ pc' = notify_all
    /\ main' = "join"
    /\ UNCHANGED <<m_requests_queue, m_pending_jobs, cmd, m_stopped, fetched,
                   m_times_too_queue_full, added, outside>>

JoinAll ==
    /\ main = "join" /\ \A w \in Workers : pc[w] = "ended"
    /\ main' = "stopped"
    /\ UNCHANGED <<m_requests_queue, m_pending_jobs, pc, cmd, m_stopped, fetched,
                   m_times_too_queue_full, added, outside>>

Tick ==
    /\ time < MaxTime
    /\ time' = time + 1
    /\ UNCHANGED <<m_requests_queue, m_pending_jobs, pc, cmd, m_stopped, main, fetched,
                   m_times_too_queue_full, added, jobs>>

\* the process is gone, or hangs in the join as the code lets it
Over == main \in {"stopped", "exited"} /\ UNCHANGED vars

WorkerStep(w) ==
    TestStopped(w) \/ Wait(w) \/ Take(w) \/ StopAfterWait(w) \/ Finish(w)

MainStep ==
    Poll \/ AddEnds \/ Sleep \/ (\E w \in Workers : Stop(w)) \/ NotifyStopped \/ JoinAll

Next ==
    \/ \E w \in Workers : WorkerStep(w) \/ SpuriousWakeup(w) \/ ExitFatal(w)
    \/ MainStep
    \/ \E j \in Jobs : add_request(j)
    \/ Tick
    \/ Over

Spec == Init /\ [][Next]_vars

(* Every thread that can run runs, and every command ends: its calls to CREAM *)
(* have timeouts.  No spurious wakeup is promised.                            *)
Fairness == /\ \A w \in Workers : WF_vars(WorkerStep(w))
            /\ WF_vars(MainStep)
FairSpec == Spec /\ Fairness
-----------------------------------------------------------------------------
(* Properties *)

Ids == ({"job"} \X Jobs) \cup ({"at"} \X (0 .. MaxTime))
Command == [seq : Nat, job : Jobs]

\* Type invariant of the pool, its workers and the main loop.
TypeOK ==
    /\ m_requests_queue \in Seq(Command)
    /\ m_pending_jobs \subseteq Ids
    /\ pc \in [Workers -> {"top", "lock", "wait", "woken", "exec", "ended"}]
    /\ cmd \in [Workers -> Command \cup {NoCommand}]
    /\ m_stopped \in [Workers -> BOOLEAN]
    /\ main \in {"poll", "add", "sleep", "stop", "join", "stopped", "exited"}
    /\ fetched \in Nat /\ m_times_too_queue_full \in Nat
    /\ added \in Nat /\ time \in 0 .. MaxTime /\ jobs \in Pools

Executing == {w \in Workers : pc[w] = "exec"}

(* Two workers never work for one job at a time: get_first_request skips the *)
(* jobs in m_pending_jobs, and only the worker that put an id there erases it.*)
OneWorkerPerJob ==
    \A v, w \in Executing :
        v # w /\ cmd[v].job = cmd[w].job => cmd[v].job = Timed

(* Commands of one job are executed in the order they were added, although   *)
(* commands of other jobs may overtake them.                                  *)
JobOrder ==
    [][\A w \in Workers : pc[w] # "exec" /\ pc'[w] = "exec" =>
          \A i \in 1 .. Len(m_requests_queue) :
              m_requests_queue[i].job = cmd'[w].job => cmd'[w].seq <= m_requests_queue[i].seq]_vars

(* No worker sleeps while there is a command it could take: add_request and  *)
(* the end of every command wake all of them.  Where the ids are times, a      *)
(* command that had the id of a pending one when the worker looked may become  *)
(* free later, but then another worker, which will wake it, is executing.      *)
NoIdleWorker ==
    (\E w \in Workers : pc[w] = "wait") =>
        Servable = {} \/ (Timed \in jobs /\ Executing # {})

(* The queue never holds more than max_ice_threads commands and one batch.   *)
QueueBounded == Len(m_requests_queue) <= MaxIceThreads + ReqNum

(* Every added command is executed unless the pool is stopped or ICE exits.  *)
CommandsServed ==
    \A n \in 1 .. MaxCommands :
        (\E i \in 1 .. Len(m_requests_queue) : m_requests_queue[i].seq = n)
          ~> \/ \E w \in Workers : cmd[w].seq = n
             \/ main \in {"stop", "join", "stopped", "exited"}

(* IceThread::stop(): "This means that at the end of the current iteration,  *)
(* the thread will terminate."                                                *)
StoppedThreadsTerminate ==
    \A w \in Workers : m_stopped[w] ~> pc[w] = "ended"
=============================================================================
