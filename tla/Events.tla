------------------------------- MODULE Events -------------------------------
(***************************************************************************)
(* The event queue of the Workload Manager (core/src/events.cpp): a pool   *)
(* of worker threads runs handlers taken from a queue of ready events,     *)
(* ordered by priority and then time, and from a queue of waiting events,  *)
(* ordered by time.  One mutex protects both queues and the shutdown flag; *)
(* one condition variable wakes the workers.                               *)
(*                                                                         *)
(* A critical section (lock ... unlock or wait) is one step.  What happens *)
(* outside the mutex is a step of its own: the test of the outer loop, the *)
(* notification that follows the unlock, the handler.                      *)
(*                                                                         *)
(* Times are kept relative to the clock: an event of time 0 is due now, a  *)
(* negative one is overdue.  A tick of the clock ages every event and every*)
(* deadline; overdue times saturate at -MaxAge, so the clock never stops   *)
(* and the state space is finite.                                          *)
(***************************************************************************)
EXTENDS Integers, Sequences, FiniteSets

CONSTANTS
    Workers,        \* threads that execute Events::run()
    Main, Signal,   \* the thread of main() and the one of SignalHandler
    Tasks,          \* the handlers (Dispatcher, SubmitProcessor, ...)
    Priority,       \* Priority[e]: the priority a handler schedules e with
    StartTasks,     \* what main() schedules, in order: <<task, priority>>
    Spawns,         \* Spawns[e]: the handlers that e schedules
    Recurring,      \* the handlers that schedule themselves again
    Delays,         \* the delays they ask for, in ticks
    MaxDelay,       \* the longest of them
    MaxAge          \* bound: how overdue an event can look

NoTask == [task |-> "none", prio |-> 0, time |-> 0]
Times == -MaxAge .. MaxDelay
\* the deadline that never comes; also what a read past the end may yield
Never == MaxDelay + 1
Threads == Workers \cup {Main, Signal}
Entry == [task : Tasks, prio : Nat, time : Times]

ASSUME WorkersAssumption ==
    /\ Workers # {}
    /\ Main \notin Workers /\ Signal \notin Workers /\ Main # Signal
ASSUME TimeAssumption ==
    /\ MaxDelay \in Nat /\ MaxAge \in Nat
    /\ Delays \subseteq 1 .. MaxDelay
ASSUME TaskAssumption ==
    /\ Priority \in [Tasks -> Nat]
    /\ Spawns \in [Tasks -> SUBSET Tasks]
    /\ StartTasks \in Seq(Tasks \X Nat)

VARIABLES
    shutdown,   \* Impl::shutdown
    ready,      \* Impl::ready: a set of entries
    waiting,    \* Impl::waiting: a set of entries
    pc,         \* where each thread is
    cur,        \* the entry whose handler a worker runs
    todo,       \* the calls the running handler may still make
    deadline,   \* the time a worker in timed_wait waits for
    start       \* what main() still has to schedule

vars == <<shutdown, ready, waiting, pc, cur, todo, deadline, start>>

Init ==
    /\ shutdown = FALSE
    \* recovery() has scheduled some requests before the first worker starts
    /\ \E R \in SUBSET {e \in Tasks : \A i \in 1 .. Len(StartTasks) : StartTasks[i][1] # e} :
         ready = {[task |-> e, prio |-> Priority[e], time |-> 0] : e \in R}
    /\ waiting = {}
    /\ pc = [t \in Threads |-> IF t \in Workers THEN "top" ELSE "run"]
    /\ cur = [w \in Workers |-> NoTask]
    /\ todo = [w \in Workers |-> {}]
    /\ deadline = [w \in Workers |-> Never]
    /\ start = StartTasks
-----------------------------------------------------------------------------
(* Helpers *)

\* bound: a handler is queued at most once (it may also be running)
Queued(e) == \E x \in ready \cup waiting : x.task = e

Sleeping == {w \in Workers : pc[w] \in {"wait", "timed"}}

\* The state a thread waiting on the condition goes to when it is woken.
Woken(t) == IF pc[t] = "wait" THEN "lock" ELSE "retry"

\* expired_to_ready: lower_bound with <= as the order stops at the first
\* entry that is later than now.
expired == {x \in waiting : x.time <= 0}

expired_dropped == ready
expired_to_ready == ready \cup expired
still_waiting == waiting \ expired

\* ready.begin() under priority_first: equal keys in any order.
first_of(S) ==
    {x \in S : \A y \in S : \/ x.prio < y.prio
                            \/ x.prio = y.prio /\ x.time <= y.time}

\* waiting.begin()->first.time.  With waiting empty the code reads past the
\* end: any value.
wait_time ==
    IF waiting = {} THEN Times \cup {Never}
    ELSE {x.time : x \in {y \in waiting : \A z \in waiting : y.time <= z.time}}

-----------------------------------------------------------------------------
(* schedule and schedule_at, called by main() and by the handlers *)

MainSchedule_quietly ==
    /\ pc[Main] = "run" /\ start # <<>>
    /\ ~ Queued(Head(start)[1])
    /\ ready' = ready \cup
         {[task |-> Head(start)[1], prio |-> Head(start)[2], time |-> 0]}
    /\ start' = Tail(start)
    /\ UNCHANGED <<shutdown, waiting, pc, cur, todo, deadline>>
MainSchedule ==
    /\ pc[Main] = "run" /\ start # <<>>
    /\ ~ Queued(Head(start)[1])
    /\ ready' = ready \cup
         {[task |-> Head(start)[1], prio |-> Head(start)[2], time |-> 0]}
    /\ start' = Tail(start)
    /\ pc' = [pc EXCEPT ![Main] = "notify"]
    /\ UNCHANGED <<shutdown, waiting, cur, todo, deadline>>

schedule(w, e) ==
    /\ pc[w] = "run" /\ e \in todo[w] /\ e # cur[w].task
    /\ ~ Queued(e)
    /\ ready' = ready \cup {[task |-> e, prio |-> Priority[e], time |-> 0]}
    /\ todo' = [todo EXCEPT ![w] = @ \ {e}]
    /\ pc' = [pc EXCEPT ![w] = "notify"]
    /\ UNCHANGED <<shutdown, waiting, cur, deadline, start>>

schedule_at(w, d) ==
    /\ pc[w] = "run" /\ cur[w].task \in todo[w]
    /\ ~ Queued(cur[w].task)
    /\ waiting' = waiting \cup
         {[task |-> cur[w].task, prio |-> Priority[cur[w].task], time |-> d]}
    /\ todo' = [todo EXCEPT ![w] = @ \ {cur[w].task}]
    /\ pc' = [pc EXCEPT ![w] = "notify"]
    /\ UNCHANGED <<shutdown, ready, cur, deadline, start>>

\* cond.notify_one(), after the unlock
notify_one(t) ==
    /\ pc[t] = "notify"
    /\ \/ \E w \in Sleeping : pc' = [pc EXCEPT ![t] = "run", ![w] = Woken(w)]
       \/ Sleeping = {} /\ pc' = [pc EXCEPT ![t] = "run"]
    /\ UNCHANGED <<shutdown, ready, waiting, cur, todo, deadline, start>>
-----------------------------------------------------------------------------
(* Events::run() *)

\* while (!shutdown), read without the mutex
RunTop(w) ==
    /\ pc[w] = "top"
    /\ pc' = [pc EXCEPT ![w] = IF shutdown THEN "exit" ELSE "lock"]
    /\ UNCHANGED <<shutdown, ready, waiting, cur, todo, deadline, start>>

\* both queues empty: cond.wait
RunWait(w) ==
    /\ pc[w] = "lock" /\ ~ shutdown
    /\ ready = {} /\ waiting = {}
    /\ pc' = [pc EXCEPT ![w] = "wait"]
    /\ UNCHANGED <<shutdown, ready, waiting, cur, todo, deadline, start>>

\* nothing due: timed_wait until the first waiting event.  A worker back from
\* timed_wait may find waiting empty, because another one took the event.
RunTimedWait(w) ==
    /\ \/ pc[w] = "lock" /\ ready \cup waiting # {}
       \/ pc[w] = "retry"
    /\ ~ shutdown
    /\ expired_to_ready = {}
    /\ \E d \in wait_time : deadline' = [deadline EXCEPT ![w] = d]
    /\ pc' = [pc EXCEPT ![w] = "timed"]
    /\ UNCHANGED <<shutdown, ready, waiting, cur, todo, start>>

\* take the first ready event and run it
RunTake(w) ==
    /\ pc[w] \in {"lock", "retry"} /\ ~ shutdown
    /\ \E x \in first_of(expired_to_ready) :
         /\ ready' = expired_to_ready \ {x}
         /\ cur' = [cur EXCEPT ![w] = x]
         /\ todo' = [todo EXCEPT ![w] =
              Spawns[x.task] \cup (IF x.task \in Recurring THEN {x.task} ELSE {})]
    /\ waiting' = still_waiting
    /\ pc' = [pc EXCEPT ![w] = "run"]
    /\ deadline' = [deadline EXCEPT ![w] = Never]
    /\ UNCHANGED <<shutdown, start>>

RunBreak_when_empty(w) ==
    /\ pc[w] \in {"lock", "retry"} /\ shutdown
    /\ ready = {} /\ waiting = {}
    /\ pc' = [pc EXCEPT ![w] = "exit"]
    /\ UNCHANGED <<shutdown, ready, waiting, cur, todo, deadline, start>>
\* if (shutdown) break; on the way out of timed_wait the expired events have
\* been moved already
RunBreak(w) ==
    /\ pc[w] \in {"lock", "retry"} /\ shutdown
    /\ IF pc[w] = "retry"
         THEN ready' = expired_to_ready /\ waiting' = still_waiting
         ELSE UNCHANGED <<ready, waiting>>
    /\ pc' = [pc EXCEPT ![w] = "exit"]
    /\ UNCHANGED <<shutdown, cur, todo, deadline, start>>

\* the handler returns, or throws something that is caught and forgotten
HandlerReturns(w) ==
    /\ pc[w] = "run"
    /\ pc' = [pc EXCEPT ![w] = "top"]
    /\ cur' = [cur EXCEPT ![w] = NoTask]
    /\ todo' = [todo EXCEPT ![w] = {}]
    /\ UNCHANGED <<shutdown, ready, waiting, deadline, start>>

\* wait and timed_wait may return without a notification; timed_wait returns
\* when its time has come
SpuriousWakeup(w) ==
    /\ w \in Sleeping
    /\ pc' = [pc EXCEPT ![w] = Woken(w)]
    /\ UNCHANGED <<shutdown, ready, waiting, cur, todo, deadline, start>>
Timeout_unless_empty(w) ==
    /\ pc[w] = "timed" /\ deadline[w] <= 0 /\ ready # {}
    /\ pc' = [pc EXCEPT ![w] = "retry"]
    /\ UNCHANGED <<shutdown, ready, waiting, cur, todo, deadline, start>>
\* cond.timed_wait reaches its deadline
Timeout(w) ==
    /\ pc[w] = "timed" /\ deadline[w] <= 0
    /\ pc' = [pc EXCEPT ![w] = "retry"]
    /\ UNCHANGED <<shutdown, ready, waiting, cur, todo, deadline, start>>
-----------------------------------------------------------------------------
(* Events::stop(), called by the signal thread and by a handler: the         *)
(* Dispatcher on its way out, any handler that runs out of memory.           *)

stop(t) ==
    /\ pc[t] = "run" /\ t # Main
    /\ shutdown' = TRUE
    /\ pc' = [pc EXCEPT ![t] = "stopping"]
    /\ cur' = [w \in Workers |-> IF w = t THEN NoTask ELSE cur[w]]
    /\ todo' = [w \in Workers |-> IF w = t THEN {} ELSE todo[w]]
    /\ UNCHANGED <<ready, waiting, deadline, start>>

notify_all(t) ==
    /\ pc[t] = "stopping"
    /\ pc' = [u \in Threads |->
               IF u = t THEN IF t = Signal THEN "exit" ELSE "top"
               ELSE IF u \in Sleeping THEN Woken(u) ELSE pc[u]]
    /\ UNCHANGED <<shutdown, ready, waiting, cur, todo, deadline, start>>

\* main(): worker_threads.join_all(); exit(0)
JoinAll ==
    /\ pc[Main] = "run" /\ start = <<>>
    /\ \A w \in Workers : pc[w] = "exit"
    /\ pc' = [pc EXCEPT ![Main] = "exit"]
    /\ UNCHANGED <<shutdown, ready, waiting, cur, todo, deadline, start>>
-----------------------------------------------------------------------------
Older(n) == IF n = Never \/ n = -MaxAge THEN n ELSE n - 1
Aged(S) == {[x EXCEPT !.time = Older(@)] : x \in S}

Tick ==
    /\ pc[Main] # "exit"
    /\ ready' = Aged(ready)
    /\ waiting' = Aged(waiting)
    /\ deadline' = [w \in Workers |-> Older(deadline[w])]
    /\ UNCHANGED <<shutdown, pc, cur, todo, start>>

\* the process has exited
Exited == pc[Main] = "exit" /\ UNCHANGED vars

RunStep(w) == RunTop(w) \/ RunWait(w) \/ RunTimedWait(w) \/ RunTake(w) \/ RunBreak(w)

Next ==
    \/ MainSchedule
    \/ \E w \in Workers : \/ \E e \in Tasks : schedule(w, e)
                          \/ \E d \in Delays : schedule_at(w, d)
                          \/ RunTop(w)
                          \/ RunWait(w)
                          \/ RunTimedWait(w)
                          \/ RunTake(w)
                          \/ RunBreak(w)
                          \/ HandlerReturns(w)
                          \/ SpuriousWakeup(w)
                          \/ Timeout(w)
    \/ \E t \in Threads : notify_one(t) \/ stop(t) \/ notify_all(t)
    \/ JoinAll
    \/ Tick
    \/ Exited

Spec == Init /\ [][Next]_vars

(* The scheduler runs every thread that can run, handlers return, time      *)
(* passes and timed_wait returns when it is due.  A wakeup without a         *)
(* notification, a handler's calls and a stop are never promised.            *)
Fairness ==
    /\ \A w \in Workers : /\ WF_vars(RunStep(w))
                          /\ WF_vars(HandlerReturns(w))
                          /\ WF_vars(Timeout(w))
    /\ \A t \in Threads : WF_vars(notify_one(t)) /\ WF_vars(notify_all(t))
    /\ WF_vars(MainSchedule) /\ WF_vars(JoinAll) /\ WF_vars(Tick)

FairSpec == Spec /\ Fairness
-----------------------------------------------------------------------------
(* Properties *)

PCs == {"top", "lock", "wait", "timed", "retry", "run", "notify", "stopping", "exit"}

\* Type invariant of the queue, the threads and the handlers.
TypeOK ==
    /\ shutdown \in BOOLEAN
    /\ ready \subseteq Entry
    /\ waiting \subseteq Entry
    /\ pc \in [Threads -> PCs]
    /\ pc[Main] \in {"run", "notify", "exit"}
    /\ pc[Signal] \in {"run", "stopping", "exit"}
    /\ cur \in [Workers -> Entry \cup {NoTask}]
    /\ \A w \in Workers : pc[w] \in {"run", "notify"} => cur[w] \in Entry
    /\ todo \in [Workers -> SUBSET Tasks]
    /\ deadline \in [Workers -> Times \cup {Never}]
    /\ start \in Seq(Tasks \X Nat)

\* A worker that will look at the queues again without being woken.
Awake(w) == pc[w] \in {"top", "lock", "retry", "run", "notify", "stopping"}

\* A worker whose timed_wait ends no later than the first waiting event is due.
OnTime(w) == pc[w] = "timed" /\ \A x \in waiting : deadline[w] <= x.time

(* No lost wakeup: while an event is queued, either a notification is on    *)
(* its way, or some worker is awake, or nothing is ready yet and some worker *)
(* sleeps no longer than until the first event is due.  This is what the     *)
(* notify_one after each insertion and the timed_wait of run() are for.      *)
NoStrandedEvent ==
    ~ shutdown /\ ready \cup waiting # {} =>
        \/ \E t \in Threads : pc[t] = "notify"
        \/ \E w \in Workers : Awake(w)
        \/ ready = {} /\ \E w \in Workers : OnTime(w)

(* No worker sleeps through stop(): once shutdown is set, a worker asleep on *)
(* the condition still has the notify_all of stop() to come.                 *)
NoWorkerMissesStop ==
    shutdown /\ Sleeping # {} => \E t \in Threads : pc[t] = "stopping"

(* schedule_at's promise: an event is ready, and so can be run, only when    *)
(* its time has come; and a worker leaves run() only after stop().           *)
NothingEarly ==
    /\ \A x \in ready : x.time <= 0
    /\ (\E w \in Workers : pc[w] = "exit") => shutdown

Takes(w) == pc[w] \in {"lock", "retry"} /\ pc'[w] = "run"

(* A worker never passes over a due event of higher priority, not even one   *)
(* that still sits in the waiting queue.                                     *)
HighestPriorityFirst ==
    [][\A w \in Workers : Takes(w) =>
          \A y \in ready' \cup waiting' : y.time <= 0 => cur'[w].prio <= y.prio]_vars

(* An event leaves the queues only into the hands of exactly one worker:     *)
(* none is lost or run twice when several workers wake for the same event.   *)
QueuedUntilTakenOnce ==
    [][\A e \in Tasks : Queued(e) /\ ~ Queued(e)' =>
          Cardinality({w \in Workers : Takes(w) /\ cur'[w].task = e}) = 1]_vars

Runs(e) == \E w \in Workers : cur[w].task = e
RunsOneAtLeastAsUrgent(e) ==
    \E w \in Workers : cur[w] # NoTask /\ cur[w].prio <= Priority[e]

(* A queued event is run eventually, unless the pool is stopped or events at *)
(* least as urgent keep the workers busy for ever.                           *)
QueuedEventRuns ==
    \A e \in Tasks :
        <>[]Queued(e) => <>shutdown \/ []<>RunsOneAtLeastAsUrgent(e)

(* After stop() every worker leaves run() and main() gets past join_all().   *)
StopTerminates == shutdown ~> pc[Main] = "exit"
=============================================================================
