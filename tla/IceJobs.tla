------------------------------- MODULE IceJobs -------------------------------
(***************************************************************************)
(* The life of jobs in ICE (ice/src): the commands that submit, reschedule  *)
(* and cancel them at CREAM, the event query that follows them, the LB      *)
(* logging command that gives them up, and the restart.  The database of    *)
(* ICE (the rows of its jobs, the counter of jobs on the user's better      *)
(* proxy, the position in the events of CREAM) and the input jobdir survive *)
(* a crash; threads and in-memory queues do not.                            *)
(*                                                                          *)
(* One user, one CE, jobs with a renewable proxy.  The n-th submission of a *)
(* job by the Workload Manager (WM) carries the n-th token.  A transaction, *)
(* a delivery and a call to CREAM are one step each.  CREAM, the WM and the *)
(* users are external.                                                      *)
(***************************************************************************)
EXTENDS Integers, Sequences, FiniteSets, SequencesExt, FiniteSetsExt

CONSTANTS
    Job, Poller, Logger,    \* grid jobs; commands of the poller and LB pools
    None,                   \* no better proxy
    MaxSubmissions,         \* bound: submissions of one job by the WM
    Scenarios               \* bounds on how often each rare event happens

Rare == {"crash", "scratch", "resched", "cancel", "expired", "noproxy",
         "refused", "black", "lost", "purged", "overlap", "restart"}

ASSUME Bounds ==
    /\ MaxSubmissions \in Nat \ {0}
    /\ \A s \in Scenarios : s \in [Rare -> Nat]

VARIABLES
    \* on disk
    input,      \* requests in the input jobdir: [do, job, n]
    row,        \* row[j]: the row of job j in the jobs table
    counter,    \* jobs counted on the better proxy, None if there is no proxy
    eventId,    \* position in the events of CREAM
    dbid,       \* the database of CREAM these events came from
    \* in memory
    up,         \* Main::init is over
    taken,      \* requests that were read and are in old/
    sub,        \* sub[j]: the command of the requests pool that works for j
    poll,       \* poll[p]: an event query; Start stands for Main::init
    lbl,        \* lbl[l]: an LB logging command, queued or running
    \* outside
    cream,      \* CREAM jobs: sequence of [job, n, st]
    events,     \* the events of CREAM
    creamDb,    \* the database of CREAM
    wm,         \* resubmission requests the WM has not read: <<job, n>>
    sent,       \* sent[j]: the last submission of j, hence its token
    \* history
    resubs,     \* resubs[j][n]: resubmission requests for this submission
    told,       \* <<j, n>> whose outcome was logged to LB
    orphans,    \* <<j, n>> dropped without a word
    acked,      \* CREAM jobs whose start is recorded, transfer_ok in LB
    uneven,     \* something happened the counter is not kept exact over
    used        \* how often each rare event happened

disk == <<input, row, counter, eventId, dbid>>
memory == <<up, taken, sub, poll, lbl>>
outside == <<cream, events, creamDb, wm, sent>>
history == <<resubs, told, orphans, acked, uneven>>
vars == <<disk, memory, outside, history, used>>

Start == "init" \* the thread that runs Main::init
NoRow == [st |-> "none", cid |-> 0, n |-> 0, db |-> 0]
Free == [pc |-> "free", do |-> "", n |-> 0, cid |-> 0, db |-> 0]
Rest == [pc |-> "rest", from |-> 0, old |-> 0, next |-> 0, todo |-> {}, cur |-> {}]
Wait == [pc |-> "rest", todo |-> {}, cur |-> {}]

Ended == {"ok", "failed", "cancelled"}
Live(c) == cream[c].st = "active"

Init ==
    /\ input = {} /\ row = [j \in Job |-> NoRow] /\ counter = None
    /\ eventId = 1 /\ dbid = 1
    /\ up = TRUE /\ taken = {} /\ sub = [j \in Job |-> Free]
    /\ poll = [p \in Poller \union {Start} |-> Rest]
    /\ lbl = [l \in Logger |-> Wait]
    /\ cream = <<>> /\ events = <<>> /\ creamDb = 1 /\ wm = {}
    /\ sent = [j \in Job |-> 0]
    /\ resubs = [j \in Job |-> [n \in 1..MaxSubmissions |-> 0]]
    /\ told = {} /\ orphans = {} /\ acked = {} /\ uneven = FALSE
    /\ used = [k \in Rare |-> 0]

\* a rare event happens, within the bounds of some scenario
Happens(kind) ==
    /\ used' = [used EXCEPT ![kind] = @ + 1]
    /\ \E s \in Scenarios : \A k \in Rare : used'[k] <= s[k]

Says(j, n) == told' = told \union {<<j, n>>}

(***************************************************************************)
(* The database: DNProxyManager and the operations on the jobs table         *)
(***************************************************************************)
incrementUserProxyCounter == counter' = IF counter = None THEN 1 ELSE counter + 1

\* the better proxy goes with the last job.  (The two transactions are one
\* step: a crash between them leaves a proxy that counts no job.)
decrementUserProxyCounter ==
    counter' = IF counter \in {None, 1} THEN None ELSE counter - 1

RemoveJobByGid(j) == row' = [row EXCEPT ![j] = NoRow]

\* an UPDATE of the job's row: nothing happens if the row is gone
UpdateJob(j, st, cid, db) ==
    row' = IF row[j] = NoRow THEN row
           ELSE [row EXCEPT ![j].st = st, ![j].cid = cid, ![j].db = db]

\* IceUtils::ignore_job: the row is looked up by the id of the CREAM job; a
\* job whose token is gone and has a successor is being rescheduled
ignore_job(cid) ==
    \/ cid = 0
    \/ ~\E j \in Job : row[j].cid = cid /\ row[j].n = sent[j]

\* s_reschedule_mutex is held
Locked ==
    \/ \E p \in Poller : poll[p].cur # {}
    \/ \E j \in Job : sub[j].pc = "uncount"

(***************************************************************************)
(* Main::resubmit_job, for the n-th submission of j                          *)
(***************************************************************************)
resubmit_job(j, n) ==
    \/ /\ wm' = wm \union {<<j, n>>}
       /\ resubs' = [resubs EXCEPT ![j][n] = @ + 1]
       /\ Says(j, n) /\ UNCHANGED used
    \* the proxy of the input sandbox expires within five minutes
    \/ Happens("expired") /\ Says(j, n) /\ UNCHANGED <<wm, resubs>>

(***************************************************************************)
(* The requests pool: IceCommandSubmit, IceCommandReschedule, IceCommandCancel *)
(* (the pool never works for one job in two threads)                         *)
(***************************************************************************)
Goto(j, pc) == sub' = [sub EXCEPT ![j].pc = pc]

\* mutant: the request is removed when it is read
main_loopEarly(j) ==
    /\ up /\ sub[j] = Free
    /\ \E r \in input \ taken :
         /\ r.job = j /\ taken' = taken \union {r} /\ input' = input \ {r}
         /\ sub' = [sub EXCEPT ![j] = [Free EXCEPT !.pc = r.do, !.do = r.do, !.n = r.n]]
    /\ UNCHANGED <<row, counter, eventId, dbid, up, poll, lbl, outside, history, used>>

\* Main::main_loop reads a request and a thread takes its command
main_loop(j) ==
    /\ up /\ sub[j] = Free
    /\ \E r \in input \ taken :
         /\ r.job = j /\ taken' = taken \union {r}
         /\ \/ /\ sub' = [sub EXCEPT ![j] = [Free EXCEPT !.pc = r.do, !.do = r.do, !.n = r.n]]
               /\ UNCHANGED <<input, told, used>>
            \* the proxy in the request is not valid
            \/ /\ r.do # "cancel" /\ Happens("expired") /\ Says(j, r.n)
               /\ input' = input \ {r} /\ UNCHANGED sub
    /\ UNCHANGED <<row, counter, eventId, dbid, up, poll, lbl, outside,
                   resubs, orphans, acked, uneven>>

\* execute(): what the database says about an earlier life of this request
execute(j) ==
    /\ sub[j].pc = "submit"
    /\ CASE row[j].st \in {"none", "unknown"} -> RemoveJobByGid(j) /\ Goto(j, "create")
         [] row[j].st = "registered" ->
              /\ sub' = [sub EXCEPT ![j].pc = "start", ![j].cid = row[j].cid]
              /\ UNCHANGED row
         [] OTHER -> Goto(j, "done") /\ UNCHANGED row
    /\ orphans' = orphans \union
         IF row[j].st \in {"none", "unknown"} \/ row[j].n >= sub[j].n THEN {}
         ELSE {<<j, sub[j].n>>}
    /\ UNCHANGED <<input, counter, eventId, dbid, up, taken, poll, lbl,
                   outside, resubs, told, acked, uneven, used>>

CreateJob(j) ==
    /\ sub[j].pc = "create" /\ Goto(j, "count")
    /\ row' = [row EXCEPT ![j] = [st |-> "unknown", cid |-> 0, n |-> sub[j].n, db |-> 0]]
    /\ UNCHANGED <<input, counter, eventId, dbid, up, taken, poll, lbl,
                   outside, history, used>>

CountJob(j) ==
    /\ sub[j].pc = "count" /\ Goto(j, "register") /\ incrementUserProxyCounter
    /\ UNCHANGED <<input, row, eventId, dbid, up, taken, poll, lbl,
                   outside, history, used>>

\* handle_delegation: a user without better proxy gets one that counts no job
handle_delegation == counter' = IF counter = None THEN 0 ELSE counter

\* handle_delegation, then CREAM registers the job without starting it
register_job(j) ==
    /\ sub[j].pc = "register" /\ handle_delegation
    /\ \/ /\ cream' = Append(cream, [job |-> j, n |-> sub[j].n, st |-> "registered"])
          /\ sub' = [sub EXCEPT ![j].pc = "store", ![j].cid = Len(cream'), ![j].db = creamDb]
          /\ UNCHANGED <<told, uneven, used>>
       \* no proxy time left, no delegation, or CREAM refuses
       \/ Happens("refused") /\ Goto(j, "resubmit") /\ UNCHANGED <<cream, told, uneven>>
       \* BlackListFailJob_ex: row and counter stay
       \/ /\ Happens("black") /\ Goto(j, "done") /\ UNCHANGED cream
          /\ Says(j, sub[j].n) /\ uneven' = TRUE
    /\ UNCHANGED <<input, row, eventId, dbid, up, taken, poll, lbl,
                   events, creamDb, wm, sent, resubs, orphans, acked>>

StoreRegistered(j) ==
    /\ sub[j].pc = "store" /\ Goto(j, "start")
    /\ UpdateJob(j, "registered", sub[j].cid, sub[j].db)
    /\ UNCHANGED <<input, counter, eventId, dbid, up, taken, poll, lbl,
                   outside, history, used>>

Emit(c, st) ==
    /\ cream' = [cream EXCEPT ![c].st = st]
    /\ events' = Append(events, [cid |-> c, st |-> st])

\* CREAM starts the job; it refuses one that is not in state registered
StartJob(j) ==
    /\ sub[j].pc = "start"
    /\ \E c \in {sub[j].cid} :
         \/ /\ cream[c].st = "registered" /\ Emit(c, "active")
            /\ Goto(j, "started") /\ UNCHANGED <<uneven, used>>
         \* the job is started, its answer never comes
         \/ /\ cream[c].st = "registered" /\ Emit(c, "active")
            /\ Goto(j, "resubmit") /\ Happens("lost") /\ uneven' = TRUE
         \/ /\ cream[c].st # "registered" /\ Goto(j, "resubmit")
            /\ UNCHANGED <<cream, events, uneven, used>>
         \/ /\ cream[c].st = "registered" /\ Goto(j, "resubmit") /\ Happens("refused")
            /\ UNCHANGED <<cream, events, uneven>>
    /\ UNCHANGED <<disk, up, taken, poll, lbl, creamDb, wm, sent,
                   resubs, told, orphans, acked>>

\* the same update is executed twice.  (A start without registration has lost
\* the id of CREAM's database: an integer is assigned to a string)
StoreIdle(j) ==
    /\ sub[j].pc \in {"started", "again"}
    /\ Goto(j, IF sub[j].pc = "started" THEN "again" ELSE "done")
    /\ UpdateJob(j, "active", sub[j].cid, sub[j].db)
    /\ acked' = acked \union {sub[j].cid}
    /\ UNCHANGED <<input, counter, eventId, dbid, up, taken, poll, lbl,
                   outside, resubs, told, orphans, uneven, used>>

\* the transient exception: resubmit, uncount, remove the row, then the request
SubmitFailed(j) ==
    /\ sub[j].pc = "resubmit" /\ Goto(j, "giveup") /\ resubmit_job(j, sub[j].n)
    /\ UNCHANGED <<disk, up, taken, poll, lbl, cream, events, creamDb,
                   sent, orphans, acked, uneven>>
UncountFailed(j) ==
    /\ sub[j].pc = "giveup" /\ Goto(j, "remove") /\ decrementUserProxyCounter
    /\ UNCHANGED <<input, row, eventId, dbid, up, taken, poll, lbl,
                   outside, history, used>>
remove_job_guard(j) ==
    /\ sub[j].pc = "remove" /\ Goto(j, "done") /\ RemoveJobByGid(j)
    /\ UNCHANGED <<input, counter, eventId, dbid, up, taken, poll, lbl,
                   outside, history, used>>
\* mutant: the request is never removed
remove_request_guardKept(j) ==
    /\ sub[j].pc = "done" /\ sub' = [sub EXCEPT ![j] = Free]
    /\ UNCHANGED <<disk, up, taken, poll, lbl, outside, history, used>>
remove_request_guard(j) ==
    /\ sub[j].pc = "done" /\ sub' = [sub EXCEPT ![j] = Free]
    /\ input' = input \ {[do |-> sub[j].do, job |-> j, n |-> sub[j].n]}
    /\ UNCHANGED <<row, counter, eventId, dbid, up, taken, poll, lbl,
                   outside, history, used>>

\* IceCommandReschedule: without its token the request is dropped (and stays in
\* the jobdir); else row and counter are taken back, under the mutex, before
\* the submission
Reschedule(j) ==
    /\ sub[j].pc = "reschedule" /\ ~Locked
    /\ IF sub[j].n = sent[j]
       THEN /\ Goto(j, "uncount") /\ RemoveJobByGid(j)
            /\ uneven' = (uneven \/ row[j] = NoRow)
       ELSE sub' = [sub EXCEPT ![j] = Free] /\ UNCHANGED <<row, uneven>>
    /\ UNCHANGED <<input, counter, eventId, dbid, up, taken, poll, lbl,
                   outside, resubs, told, orphans, acked, used>>
\* mutant: the submission that is replaced stays counted
UncountRescheduledKept(j) ==
    /\ sub[j].pc = "uncount" /\ Goto(j, "submit")
    /\ UNCHANGED <<disk, up, taken, poll, lbl, outside, history, used>>
UncountRescheduled(j) ==
    /\ sub[j].pc = "uncount" /\ Goto(j, "submit") /\ decrementUserProxyCounter
    /\ UNCHANGED <<input, row, eventId, dbid, up, taken, poll, lbl,
                   outside, history, used>>

\* IceCommandCancel: a job without row, or one CREAM does not know or has seen
\* end, is not cancelled
Cancel(j) ==
    /\ sub[j].pc = "cancel" /\ Goto(j, "done")
    /\ \E c \in {row[j].cid} :
         IF c # 0 /\ cream[c].st \in {"registered", "active"}
         THEN Emit(c, "cancelled")
         ELSE UNCHANGED <<cream, events>>
    /\ UNCHANGED <<disk, up, taken, poll, lbl, creamDb, wm, sent, history, used>>

Submission(j) ==
    \/ main_loop(j) \/ execute(j) \/ CreateJob(j) \/ CountJob(j) \/ register_job(j)
    \/ StoreRegistered(j) \/ StartJob(j) \/ StoreIdle(j) \/ SubmitFailed(j)
    \/ UncountFailed(j) \/ remove_job_guard(j) \/ remove_request_guard(j)
    \/ Reschedule(j) \/ UncountRescheduled(j) \/ Cancel(j)

(***************************************************************************)
(* IceCommandEventQuery                                                      *)
(***************************************************************************)
\* the threads are alike: one that is free takes the command
FreePoller ==
    LET free == {p \in Poller : poll[p] = Rest}
    IN  {p \in free : p = CHOOSE q \in free : TRUE}

\* EventStatusPoller asks for a user with jobs; getEventID, getAnyBetterProxyByDN:
\* (bound: only while no other query runs) without a better proxy, or when it has
\* expired, all the jobs of the user will be given up
EventQuery(p) ==
    /\ up /\ p \in FreePoller /\ \E j \in Job : row[j] # NoRow
    /\ \E pc \in {"query", "noproxy"} :
         /\ poll' = [poll EXCEPT ![p] = [Rest EXCEPT !.pc = pc, !.from = eventId]]
         /\ \/ /\ pc = "query" /\ counter # None
               /\ IF \A q \in Poller : poll[q] = Rest THEN UNCHANGED used
                  ELSE Happens("overlap")
            \/ /\ pc = "noproxy" /\ \A q \in Poller : poll[q] = Rest
               /\ Happens("noproxy")
    /\ UNCHANGED <<disk, up, taken, sub, lbl, outside, history>>

\* the jobs of S go to the LB logging pool, whose queue is bounded
GiveUp(p, S) ==
    /\ \E l \in Logger :
         /\ lbl[l] = Wait
         /\ lbl' = [lbl EXCEPT ![l].pc = "check",
              ![l].todo = {[job |-> j, n |-> row[j].n, cid |-> row[j].cid] : j \in S}]
    /\ poll' = [poll EXCEPT ![p] = Rest]
    /\ uneven' = TRUE
    /\ UNCHANGED <<disk, up, taken, sub, outside, resubs, told, orphans, acked, used>>

GiveUpUser(p) == poll[p].pc = "noproxy" /\ GiveUp(p, {j \in Job : row[j] # NoRow})
GiveUpLost(p) == poll[p].pc = "lostjobs" /\ GiveUp(p, {j \in Job : row[j].db = poll[p].old})

\* what processEventsForJob makes of a CREAM job's events: only the last one is
\* acted on, and none after PURGED
Outcome(batch, c) ==
    IF \E e \in ToSet(batch) : e = [cid |-> c, st |-> "purged"] THEN "purged"
    ELSE Last(SelectSeq(batch, LAMBDA e : e.cid = c)).st

\* CreamProxy_QueryEvent and checkDatabaseID, which stores a new id at once
QueryEvent(p) ==
    /\ poll[p].pc = "query"
    /\ \/ /\ dbid = creamDb /\ UNCHANGED <<dbid, used>>
          /\ \E batch \in {SubSeq(events, poll[p].from, Len(events))} :
               poll' = [poll EXCEPT ![p] =
                 IF batch = <<>> THEN Rest
                 ELSE [@ EXCEPT !.pc = "process", !.next = Len(events) + 1,
                         !.todo = {[cid |-> e.cid, st |-> Outcome(batch, e.cid)]
                                     : e \in ToSet(batch)}]]
       \/ /\ dbid # creamDb /\ dbid' = creamDb /\ UNCHANGED used
          /\ poll' = [poll EXCEPT ![p].pc = "scratched", ![p].old = dbid]
       \* the call fails: auth_ex, soap_ex, InternalException
       \/ Happens("refused") /\ poll' = [poll EXCEPT ![p] = Rest] /\ UNCHANGED dbid
    /\ UNCHANGED <<input, row, counter, eventId, up, taken, sub, lbl, outside, history>>

SetEventIDForCE(p) ==
    /\ poll[p].pc = "scratched" /\ poll' = [poll EXCEPT ![p].pc = "lostjobs"]
    /\ eventId' = 1
    /\ UNCHANGED <<input, row, counter, dbid, up, taken, sub, lbl, outside, history, used>>

\* mutant: without the mutex
processEventsForJobUnlocked(p) ==
    /\ poll[p].pc = "process" /\ poll[p].todo # {}
    /\ \E e \in poll[p].todo : \E j \in {cream[e.cid].job} :
         poll' = IF ignore_job(e.cid) \/ e.st = "active" THEN [poll EXCEPT ![p].todo = @ \ {e}]
                 ELSE [poll EXCEPT ![p].todo = @ \ {e}, ![p].pc = "uncount",
                        ![p].cur = {[job |-> j, n |-> row[j].n, st |-> e.st, cid |-> e.cid]}]
    /\ UNCHANGED <<disk, up, taken, sub, lbl, outside, history, used>>

\* processEventsForJob, by CREAM id, under the mutex: ignore_job, and the update
\* of the row with the last status
processEventsForJob(p) ==
    /\ poll[p].pc = "process" /\ poll[p].todo # {} /\ ~Locked
    /\ LET e == CHOOSE x \in poll[p].todo : \A y \in poll[p].todo : x.cid <= y.cid
           done == [poll EXCEPT ![p].todo = @ \ {e}]
           j == cream[e.cid].job
       IN  CASE ignore_job(e.cid) -> poll' = done /\ UNCHANGED row
             [] ~ignore_job(e.cid) /\ e.st = "active" ->
                  poll' = done /\ UpdateJob(j, "active", e.cid, row[j].db)
             [] OTHER ->
                  /\ poll' = [done EXCEPT ![p].pc = "uncount",
                               ![p].cur = {[job |-> j, n |-> row[j].n, st |-> e.st, cid |-> e.cid]}]
                  /\ IF e.st = "purged" THEN UNCHANGED row
                     ELSE UpdateJob(j, e.st, e.cid, row[j].db)
    /\ UNCHANGED <<input, counter, eventId, dbid, up, taken, sub, lbl, outside, history, used>>

\* the position moves past the events when all of them are processed
set_event_id(p) ==
    /\ poll[p].pc = "process" /\ poll[p].todo = {}
    /\ poll' = [poll EXCEPT ![p] = Rest]
    /\ eventId' = poll[p].next
    /\ UNCHANGED <<input, row, counter, dbid, up, taken, sub, lbl, outside, history, used>>

\* the submission whose row goes with the row of submission n of j
Mistaken(j, n) == {s \in {<<j, row[j].n>>} : s[2] \notin {0, n}}

(***************************************************************************)
(* Main::resubmit_or_purge_job, called for the job in cur by an event query   *)
(* (which has logged its end to LB) and by Main::init.  A purged job takes    *)
(* the first two steps.                                                      *)
(***************************************************************************)
Ends(p, pc) == poll[p].pc = pc /\ up = (p # Start)
Cur(p) == CHOOSE x \in poll[p].cur : TRUE
NextEvent(p) ==
    poll' = [poll EXCEPT ![p] = IF p = Start THEN Rest
                                ELSE [@ EXCEPT !.pc = "process", !.cur = {}]]

Uncount(p) ==
    /\ Ends(p, "uncount") /\ poll' = [poll EXCEPT ![p].pc = "remove"]
    /\ decrementUserProxyCounter
    /\ IF p # Start /\ Cur(p).st # "failed"
       THEN Says(Cur(p).job, Cur(p).n) ELSE UNCHANGED told
    /\ UNCHANGED <<input, row, eventId, dbid, up, taken, sub, lbl, outside,
                   resubs, orphans, acked, uneven, used>>

RemoveRow(p) ==
    /\ Ends(p, "remove") /\ RemoveJobByGid(Cur(p).job)
    /\ CASE Cur(p).st = "failed" -> poll' = [poll EXCEPT ![p].pc = "resubmit"]
         [] Cur(p).st = "purged" -> NextEvent(p)
         [] OTHER -> poll' = [poll EXCEPT ![p].pc = "purge"]
    /\ orphans' = orphans \union Mistaken(Cur(p).job, Cur(p).n)
    /\ UNCHANGED <<input, counter, eventId, dbid, up, taken, sub, lbl, outside,
                   resubs, told, acked, uneven, used>>

Resubmit(p) ==
    /\ Ends(p, "resubmit") /\ poll' = [poll EXCEPT ![p].pc = "purge"]
    /\ resubmit_job(Cur(p).job, Cur(p).n)
    /\ UNCHANGED <<disk, up, taken, sub, lbl, cream, events, creamDb, sent,
                   orphans, acked, uneven>>

\* purge_job asks for the row first: only a newer submission can have put one
purge_job(p) ==
    /\ Ends(p, "purge") /\ NextEvent(p)
    /\ IF row[Cur(p).job] # NoRow /\ cream[Cur(p).cid].st \in Ended
       THEN Emit(Cur(p).cid, "purged") ELSE UNCHANGED <<cream, events>>
    /\ UNCHANGED <<disk, up, taken, sub, lbl, creamDb, wm, sent, history, used>>

EventStatusPoller(p) ==
    \/ EventQuery(p) \/ GiveUpUser(p) \/ GiveUpLost(p)
    \/ QueryEvent(p) \/ SetEventIDForCE(p) \/ processEventsForJob(p) \/ set_event_id(p)

resubmit_or_purge_job(p) == Uncount(p) \/ RemoveRow(p) \/ Resubmit(p) \/ purge_job(p)

(***************************************************************************)
(* IceCommandLBLogging: abort the jobs of a list, without the mutex           *)
(***************************************************************************)
CheckJob(l) ==
    /\ lbl[l].pc = "check"
    /\ IF lbl[l].todo = {} THEN lbl' = [lbl EXCEPT ![l] = Wait]
       ELSE \E x \in lbl[l].todo :
              lbl' = [lbl EXCEPT ![l].todo = @ \ {x},
                        ![l].pc = IF ignore_job(x.cid) THEN "check" ELSE "abort",
                        ![l].cur = IF ignore_job(x.cid) THEN {} ELSE {x}]
    /\ UNCHANGED <<disk, up, taken, sub, poll, outside, history, used>>

AbortJob(l) ==
    /\ lbl[l].pc = "abort" /\ lbl' = [lbl EXCEPT ![l].pc = "uncount"]
    /\ \E x \in lbl[l].cur :
         /\ RemoveJobByGid(x.job) /\ Says(x.job, x.n)
         /\ orphans' = orphans \union Mistaken(x.job, x.n)
    /\ UNCHANGED <<input, counter, eventId, dbid, up, taken, sub, poll, outside,
                   resubs, acked, uneven, used>>

UncountAborted(l) ==
    /\ lbl[l].pc = "uncount" /\ lbl' = [lbl EXCEPT ![l].pc = "check", ![l].cur = {}]
    /\ decrementUserProxyCounter
    /\ UNCHANGED <<input, row, eventId, dbid, up, taken, sub, poll, outside, history, used>>

LBLogging(l) == CheckJob(l) \/ AbortJob(l) \/ UncountAborted(l)

(***************************************************************************)
(* Crash and restart: when the service starts, glite-wms-ice-safe moves old/  *)
(* back to new/; Main::init settles the terminated jobs before any other      *)
(* thread starts                                                             *)
(***************************************************************************)
Crash ==
    /\ Happens("crash")
    /\ up' = FALSE /\ taken' = {} /\ sub' = [j \in Job |-> Free]
    /\ poll' = [p \in Poller \union {Start} |-> Rest]
    /\ lbl' = [l \in Logger |-> Wait]
    /\ orphans' = orphans \union
         {<<x.job, x.n>> : x \in UNION {poll[p].cur : p \in
            {q \in Poller \union {Start} :
               \/ poll[q].pc = "resubmit"
               \/ q # Start /\ poll[q].pc = "uncount" /\ Cur(q).st # "failed"}}}
    /\ uneven' = TRUE
    /\ UNCHANGED <<disk, outside, resubs, told, acked>>

\* ICE restarts itself (return 2: memory, or a queue full for an hour) once its
\* threads have finished.  What only waited in the queue of the pool stays in
\* old/: glite-wms-ice-safe starts the program again without moving it back.
SelfRestart ==
    /\ up /\ Happens("restart") /\ up' = FALSE
    /\ \A j \in Job : sub[j] = Free
    /\ \A p \in Poller : poll[p] = Rest
    /\ \A l \in Logger : lbl[l] = Wait
    /\ \E queued \in SUBSET input : taken' = taken \union queued
    /\ UNCHANGED <<disk, sub, poll, lbl, outside, history>>

GetTerminatedJobs ==
    /\ ~up /\ poll[Start] = Rest
    /\ IF \E j \in Job : row[j].st \in Ended
       THEN /\ \E j \in {k \in Job : row[k].st \in Ended} :
                 poll' = [poll EXCEPT ![Start] = [Rest EXCEPT !.pc = "uncount",
                    !.cur = {[job |-> j, n |-> row[j].n, st |-> row[j].st, cid |-> row[j].cid]}]]
            /\ UNCHANGED up
       ELSE up' = TRUE /\ UNCHANGED poll
    /\ UNCHANGED <<disk, taken, sub, lbl, outside, history, used>>

(***************************************************************************)
(* CREAM, the Workload Manager and the users                                 *)
(***************************************************************************)
CreamEnds ==
    /\ \E c \in DOMAIN cream, st \in {"ok", "failed"} : Live(c) /\ Emit(c, st)
    /\ UNCHANGED <<disk, memory, creamDb, wm, sent, history, used>>

CreamPurges ==
    /\ Happens("purged")
    /\ \E c \in DOMAIN cream : cream[c].st \in Ended /\ Emit(c, "purged")
    /\ UNCHANGED <<disk, memory, creamDb, wm, sent, history>>

\* CREAM loses its database: its jobs are gone, its events start again
CreamScratched ==
    /\ Happens("scratch") /\ creamDb' = creamDb + 1 /\ events' = <<>>
    /\ cream' = [c \in DOMAIN cream |-> [cream[c] EXCEPT !.st = "lost"]]
    /\ UNCHANGED <<disk, memory, wm, sent, history>>

Send(j, do) ==
    /\ sent[j] < MaxSubmissions /\ sent' = [sent EXCEPT ![j] = @ + 1]
    /\ input' = input \union {[do |-> do, job |-> j, n |-> sent'[j]]}
    /\ UNCHANGED <<row, counter, eventId, dbid, memory, cream, events, creamDb, history>>

WMSubmit(j) ==
    /\ \/ sent[j] = 0 /\ UNCHANGED wm
       \/ \E m \in wm : m[1] = j /\ wm' = wm \ {m}
    /\ Send(j, "submit") /\ UNCHANGED used

\* the WM reschedules a job that LB says is waiting at its CE
WMReschedule(j) ==
    /\ \E c \in acked : cream[c].job = j /\ cream[c].n = sent[j]
    /\ Happens("resched") /\ Send(j, "reschedule") /\ UNCHANGED wm

WMCancel(j) ==
    /\ sent[j] > 0 /\ Happens("cancel")
    /\ input' = input \union {[do |-> "cancel", job |-> j, n |-> sent[j]]}
    /\ UNCHANGED <<row, counter, eventId, dbid, memory, outside, history>>

Next ==
    \/ \E j \in Job : Submission(j) \/ WMSubmit(j) \/ WMReschedule(j) \/ WMCancel(j)
    \/ \E p \in Poller : EventStatusPoller(p)
    \/ \E p \in Poller \union {Start} : resubmit_or_purge_job(p)
    \/ \E l \in Logger : LBLogging(l)
    \/ Crash \/ SelfRestart \/ GetTerminatedJobs \/ CreamEnds \/ CreamPurges \/ CreamScratched

\* the threads of ICE run; CREAM, the WM and the users owe nothing
Fairness ==
    /\ \A j \in Job : WF_vars(Submission(j))
    /\ \A p \in Poller : WF_vars(EventStatusPoller(p) \/ resubmit_or_purge_job(p))
    /\ \A l \in Logger : WF_vars(LBLogging(l))
    /\ WF_vars(GetTerminatedJobs \/ resubmit_or_purge_job(Start))

Spec == Init /\ [][Next]_vars /\ Fairness

(***************************************************************************)
(* Properties                                                                *)
(***************************************************************************)
Submissions == {s \in Job \X (1..MaxSubmissions) : s[2] <= sent[s[1]]}
Cids == 0..Len(cream)

(* The types of the variables *)
TypeOK ==
    /\ \A r \in input : r.do \in {"submit", "reschedule", "cancel"} /\ <<r.job, r.n>> \in Submissions
    /\ taken \subseteq [do : {"submit", "reschedule", "cancel"}, job : Job, n : 1..MaxSubmissions]
    /\ \A j \in Job : row[j].st \in Ended \union {"none", "unknown", "registered", "active"}
                      /\ row[j].cid \in Cids /\ row[j].db \in 0..creamDb
    /\ counter = None \/ counter \in Int
    /\ eventId \in Nat /\ dbid \in 1..creamDb /\ up \in BOOLEAN /\ uneven \in BOOLEAN
    /\ \A p \in Poller \union {Start} : Cardinality(poll[p].cur) <= 1
    /\ wm \subseteq Submissions /\ orphans \subseteq Submissions /\ acked \subseteq Cids
    /\ told \subseteq Submissions

(* Main.cpp:804, IceCommandSubmit.cpp:257: the counter of the better proxy is      *)
(* exactly the number of jobs in the database, up to a command between the two     *)
(* transactions, as long as ICE does not crash, blacklists no CE, gives no list of *)
(* jobs up and reschedules no job it has already forgotten.  A smaller counter     *)
(* takes the proxy from under running jobs, which the next event query then aborts. *)
Counted(j) ==
    /\ row[j] # NoRow /\ sub[j].pc \notin {"count", "remove"}
    /\ ~\E p \in Poller : poll[p].pc = "remove" /\ Cur(p).job = j
CounterExact ==
    ~uneven =>
      LET rescheduled == {j \in Job : sub[j].pc = "uncount"}
          count == Cardinality({j \in Job : Counted(j)}) + Cardinality(rescheduled)
      IN  counter = IF count = 0 THEN None ELSE count

(* IceCommandSubmit.cpp:163 and Main.cpp:807: no submission disappears.  It is in   *)
(* the input, in the database or in the hands of the thread that ends it, or an    *)
(* outcome was logged, or a newer submission replaced it.  It can be lost only after *)
(* one of the events the counter is not kept exact over: ICE crashes between two     *)
(* steps of resubmit_or_purge_job or of a failed submission, whose row then swallows *)
(* the next one; or a slow thread that ends one submission removes, by the id of the *)
(* job, the row of the next.                                                       *)
Accounted ==
    /\ orphans # {} => uneven
    /\ \A s \in Submissions :
      \/ s[2] < sent[s[1]] \/ s \in told \union orphans
      \/ row[s[1]].n = s[2]
      \/ \E r \in input : r.job = s[1] /\ r.n = s[2] /\ r.do # "cancel"
      \/ \E p \in Poller \union {Start} : \E x \in poll[p].cur : <<x.job, x.n>> = s

(* Main.cpp:434: one resubmission request for a submission, however the queries     *)
(* overlap and the commands race; a crash, or a start whose answer was lost, adds    *)
(* at most one.                                                                   *)
ResubmittedOnce ==
    \A j \in Job, n \in 1..MaxSubmissions : resubs[j][n] <= 1 + used["crash"] + used["lost"]

(* IceCommandEventQuery.cpp:412: the position in the events only passes the end of  *)
(* a job that is in the database once somebody deals with it: nobody else would     *)
(* ever end the job.  A job the WM has rescheduled is left to its request.  (When    *)
(* CREAM loses its database the position may stay too high: checkDatabaseID stores   *)
(* the new id before the position is reset.)                                       *)
NoEndMissed ==
    \A j \in Job, e \in DOMAIN events :
      /\ row[j].cid = events[e].cid /\ events[e].st \in Ended
      /\ e < eventId /\ row[j].n = sent[j] /\ used["scratch"] = 0
      => \E p \in Poller : \E x \in poll[p].todo \union poll[p].cur : x.cid = events[e].cid

(* Main.cpp:818, IceCommandSubmit.cpp:306: the WM is asked to resubmit only what has *)
(* ended at CREAM or was never seen to start there.  After a crash the request of a  *)
(* job that ended meanwhile is executed again, and the two copies cross.            *)
ResubmitEnded ==
    [][\A j \in Job, n \in 1..MaxSubmissions :
         resubs'[j][n] > resubs[j][n] /\ used["crash"] = 0 =>
           \A c \in DOMAIN cream :
             cream[c].job = j /\ cream[c].n = n /\ Live(c) => c \notin acked]_vars

(* IceCommandSubmit.cpp:164, EventStatusPoller.cpp:82: every request to submit leaves *)
(* the jobdir, unless ICE restarted itself while the request was in its queue, and    *)
(* every job that has ended at CREAM leaves the database in the end, as long as its   *)
(* user has a better proxy (and CREAM keeps its database: see NoEndMissed).           *)
Drained ==
    <>[](/\ \A r \in input :
              r.do = "submit" => used["restart"] > 0 /\ r \in taken /\ sub[r.job] = Free
         /\ \A j \in Job :
              /\ row[j].cid # 0 /\ row[j].n = sent[j] /\ cream[row[j].cid].st \in Ended
              => counter = None \/ used["scratch"] > 0)
=============================================================================
