----------------------------- MODULE LogMonitor -----------------------------
(***************************************************************************)
(* Job submission through Condor: the JobController (JC) serves submit and *)
(* remove requests by running condor_submit and condor_rm; Condor writes   *)
(* what becomes of a cluster into a user log; the LogMonitor (LM) reads    *)
(* the log, keeps the JobId <-> cluster table, reports the verdict on each *)
(* cluster to the logging service and asks the Workload Manager to submit  *)
(* a failed job again.                                                     *)
(*                                                                         *)
(* The LM keeps on disk the position reached in the log together with the  *)
(* number of pending clusters (SizeFile), the table (IdContainer), the     *)
(* clusters it is getting rid of (AbortedContainer) and its timers.  An    *)
(* event is processed by several writes and the position is written last,  *)
(* so that an event is processed again after a crash.  todo holds the      *)
(* writes of the event in progress that are still to be made.              *)
(***************************************************************************)
EXTENDS Integers, Sequences, FiniteSets, SequencesExt

CONSTANTS Job,           \* the jobs
          JobsPerLog,    \* jobs_per_condor_log: submissions to one log file
          MaxRetries,    \* force_cancellation_retries
          Scenarios      \* bounds, one of which a behaviour keeps to

\* What a scenario bounds: cancellations by the users, what Condor logs that
\* does not end a cluster, timers that expire, crashes of the two daemons
Rare == {"cancel", "incident", "expiry", "crash"}

ASSUME Bounds ==
  /\ JobsPerLog \in Nat \ {0}
  /\ MaxRetries \in Nat
  /\ Scenarios \subseteq [Rare -> Nat]

Cluster == 1 .. JobsPerLog  \* a cluster is known by its turn in the log

\* Why a cluster was held; "cancel" is JOB_CANCEL_FAILED
HeldCode == {"other", "proxy", "stageout", "cancel"}

\* PointerId::last_status: undefined_status, no_resubmission or a held code
Status == {"undef", "none"} \cup HeldCode

Absent == [last |-> "undef", retry |-> -1]

Verdict == {"done", "abort", "user", "failed", "resubmit"}

VARIABLES condor,   \* what Condor does with each cluster
          jobOf,    \* the job each cluster was submitted for
          log,      \* the user log
          jc,       \* requests, the request in hand, the RAM repository
          slot,     \* jobs put into this log so far (SubmitAd, on disk)
          wm,       \* jobs the Workload Manager has still to submit
          disk,     \* what the LM has on disk
          mem,      \* SizeField in the memory of the LM
          todo,     \* writes the LM has still to make
          verdict,  \* the verdicts the LM reported on each cluster
          asked,    \* jobs whose user asked for the cancellation
          hurt,     \* clusters hit by a crash in one of the windows below
          used      \* rare steps so far

vars == <<condor, jobOf, log, jc, slot, wm, disk, mem, todo, verdict, asked, hurt, used>>

\* n rare steps of a kind that some scenario still allows
Happens(kind, n) == /\ used' = [used EXCEPT ![kind] = @ + n]
                    /\ \E s \in Scenarios : \A k \in Rare : used'[k] <= s[k]

Event(ev, c, x) == [ev |-> ev, c |-> c, x |-> x]

-----------------------------------------------------------------------------
(***************************************************************************)
(* The writes of the LM.  A write is a record: what is done, the cluster   *)
(* and an argument.                                                        *)
(***************************************************************************)
W(do, c, x) == <<[do |-> do, c |-> c, x |-> x]>>

Known(c) == disk.ids[c] # Absent

\* IdContainer::update_pointer and increment_pointer_retry_count rewrite an
\* entry by erasing it from the file and appending the new one.
rewrite(c, entry) == W("erase", c, "") \o W("push", c, entry)

update_pointer(c, status) ==
  rewrite(c, IF status = "undef" THEN disk.ids[c] ELSE [disk.ids[c] EXCEPT !.last = status])

increment_pointer_retry_count(c) == rewrite(c, [disk.ids[c] EXCEPT !.retry = @ + 1])

\* JobControllerProxy::cancel(condorid)
cancel(c) == W("request", c, "condorremove")

\* JobResubmitter::resubmit; wrapper tells whether the output of the job
\* wrapper says that the job succeeded.
resubmit(c, status, wrapper) ==
  CASE status = "proxy" -> W("verdict", c, "abort")
    [] status = "none" -> W("verdict", c, "failed")
    [] status = "stageout" /\ wrapper -> W("verdict", c, "done") \o update_pointer(c, "undef")
    [] OTHER -> W("verdict", c, "resubmit")

\* EventSubmit: the cluster is ignored when its job is in the table
EventSubmit(c) ==
  IF \E d \in Cluster : Known(d) /\ (d = c \/ jobOf[d] = jobOf[c])
  THEN <<>>
  ELSE W("push", c, [last |-> "undef", retry |-> 0])
       \o rewrite(c, [last |-> "undef", retry |-> 0])

\* EventExecute, EventGlobusSubmit
EventExecute(c) == IF Known(c) THEN update_pointer(c, "undef") ELSE <<>>

\* EventTerminated; x is what the job wrapper's output says
EventTerminated(c, x) ==
  IF ~Known(c) THEN <<>>
  ELSE W("untimer", c, {"submitfailed", "retry"})
       \o (CASE x = "good" -> W("verdict", c, "done")
             [] x = "bad" -> resubmit(c, "undef", FALSE)
             [] x = "abort" -> W("verdict", c, "abort"))
       \o update_pointer(c, "undef") \o W("erase", c, "")

\* EventAborted; x is "periodic" when a periodic_remove expression fired
EventAborted(c, x, wrapper) ==
  IF ~Known(c) THEN <<>>
  ELSE W("untimer", c, {"submitfailed", "retry"})
       \o (IF c \in disk.aborted \/ x = "periodic"
           THEN W("unabort", c, "") \o resubmit(c, disk.ids[c].last, wrapper)
           ELSE W("verdict", c, "user"))
       \o W("erase", c, "")

\* Mutant: the cluster is removed without going into the aborted container.
EventGlobusSubmitFailedBare(c) ==
  IF Known(c) THEN cancel(c) \o update_pointer(c, "undef") ELSE <<>>

EventGlobusSubmitFailed(c) ==
  IF Known(c) THEN W("abort", c, "") \o cancel(c) \o update_pointer(c, "undef") ELSE <<>>

EventJobHeld(c, code) ==
  IF ~Known(c) \/ c \in disk.aborted \/ disk.ids[c].last = "cancel" THEN <<>>
  ELSE (IF code = "cancel" THEN <<>> ELSE W("abort", c, ""))
       \o cancel(c) \o update_pointer(c, code)

\* Mutant: giving up on a removal leaves the entry in the table.
EventGenericKept(c, code) ==
  IF ~Known(c) THEN <<>>
  ELSE CASE code = "user_cancelled" -> update_pointer(c, "none")
         [] code = "cancelled" -> W("timer", c, "retry")
         [] code = "retry_remove" -> increment_pointer_retry_count(c) \o cancel(c)
         [] code = "cannot_cancel" ->
              IF disk.ids[c].retry > MaxRetries THEN W("verdict", c, "abort")
              ELSE increment_pointer_retry_count(c) \o W("timer", c, "retry")

\* EventGeneric: what the JC writes into the log, and the timer of the LM
EventGeneric(c, code) ==
  IF ~Known(c) THEN <<>>
  ELSE CASE code = "user_cancelled" -> update_pointer(c, "none")
         [] code = "cancelled" -> W("timer", c, "retry")
         [] code = "retry_remove" -> increment_pointer_retry_count(c) \o cancel(c)
         [] code = "cannot_cancel" ->
              IF disk.ids[c].retry > MaxRetries
              THEN W("verdict", c, "abort") \o W("erase", c, "") \o W("unabort", c, "")
                   \o W("untimer", c, {"submitfailed", "retry"})
              ELSE increment_pointer_retry_count(c) \o W("timer", c, "retry")

\* EventFactory::create_processor and the process_event it leads to
process_event(e, wrapper) ==
  CASE e.ev = "submit" -> EventSubmit(e.c)
    [] e.ev = "execute" -> EventExecute(e.c)
    [] e.ev = "terminated" -> EventTerminated(e.c, e.x)
    [] e.ev = "aborted" -> EventAborted(e.c, e.x, wrapper)
    [] e.ev = "submitfailed" -> EventGlobusSubmitFailed(e.c)
    [] e.ev = "down" -> W("timer", e.c, "submitfailed")
    [] e.ev = "up" -> W("untimer", e.c, {"submitfailed"})
    [] e.ev = "held" -> EventJobHeld(e.c, e.x)
    [] e.ev = "generic" -> EventGeneric(e.c, e.x)

-----------------------------------------------------------------------------
(***************************************************************************)
(* The LM                                                                  *)
(***************************************************************************)
Idle == todo = <<>>

\* Mutant: the last event of the log waits for the next one.
UnreadButLast == disk.pos + 1 < Len(log)

\* The log file is longer than the position reached
Unread == disk.pos < Len(log)

\* Mutants: a cluster counts when it is submitted and again when it runs; it
\* counts as over when its removal is asked for.
CountedEarly(e) ==
  CASE e.ev = "submit" -> [last |-> e.c = JobsPerLog, pending |-> mem.pending + 1]
    [] e.ev \in {"submitfailed", "held", "terminated"} /\ Known(e.c) /\ mem.pending > 0 ->
         [mem EXCEPT !.pending = @ - 1]
    [] OTHER -> mem

\* SizeFile::set_last, increment_pending and decrement_pending, as the
\* processing of an event calls them: in memory only
Counted(e) ==
  CASE e.ev = "submit" -> [last |-> e.c = JobsPerLog, pending |-> mem.pending + 1]
    [] e.ev \in {"terminated", "aborted"} /\ Known(e.c) ->
         [mem EXCEPT !.pending = IF @ > 0 THEN @ - 1 ELSE 0]
    [] OTHER -> mem

\* Mutant: the position is written before the event is processed.
process_next_eventEarly ==
  /\ Idle /\ Unread
  /\ \E e \in {log[disk.pos + 1]} :
       /\ todo' = W("position", e.c, "") \o process_event(e, FALSE)
       /\ mem' = Counted(e)
  /\ UNCHANGED <<condor, jobOf, log, jc, slot, wm, disk, verdict, asked, hurt, used>>

\* CondorMonitor::process_next_event with an event to read.  The position
\* goes to disk with the pending count when the event has been processed.
process_next_event ==
  /\ Idle /\ Unread
  /\ \E wrapper \in BOOLEAN :
       LET e == log[disk.pos + 1] IN
       /\ wrapper => e.ev = "aborted" /\ disk.ids[e.c].last = "stageout"
       /\ todo' = process_event(e, wrapper) \o W("position", e.c, "")
       /\ mem' = Counted(e)
  /\ UNCHANGED <<condor, jobOf, log, jc, slot, wm, disk, verdict, asked, hurt, used>>

\* The events of the timers: a submission failed, or a removal to retry
TimerEvent(t) == IF t[1] = "retry" THEN EventGeneric(t[2], "retry_remove")
                                   ELSE EventGlobusSubmitFailed(t[2])

Timers == {"submitfailed", "retry"} \X Cluster

\* CondorMonitor::checkAndProcessTimers: the events of the expired timers
\* are processed, then these timers are removed.
checkAndProcessTimers ==
  /\ Idle /\ ~Unread
  /\ \E expired \in SUBSET {t \in Timers : disk.timers[t] > 0} :
       /\ expired # {}
       /\ Happens("expiry", Cardinality(expired))
       /\ \E order \in {SetToSeq(expired)} :
            todo' = FlattenSeq([i \in DOMAIN order |-> TimerEvent(order[i])])
                    \o FlattenSeq([i \in DOMAIN order |-> W("expired", order[i][2], order[i][1])])
  /\ UNCHANGED <<condor, jobOf, log, jc, slot, wm, disk, mem, verdict, asked, hurt>>

\* What a write leaves on disk
Written(w) ==
  CASE w.do = "erase" -> [disk EXCEPT !.ids[w.c] = Absent]
    [] w.do = "push" -> [disk EXCEPT !.ids[w.c] = w.x]
    [] w.do = "abort" -> [disk EXCEPT !.aborted = @ \cup {w.c}]
    [] w.do = "unabort" -> [disk EXCEPT !.aborted = @ \ {w.c}]
    [] w.do = "timer" -> [disk EXCEPT !.timers[<<w.x, w.c>>] = @ + 1]
    [] w.do = "expired" -> [disk EXCEPT !.timers[<<w.x, w.c>>] = @ - 1]
    [] w.do = "untimer" ->
         [disk EXCEPT !.timers = [t \in Timers |-> IF t[1] \in w.x /\ t[2] = w.c THEN 0 ELSE @[t]]]
    [] w.do = "position" ->
         [disk EXCEPT !.pos = @ + 1, !.pending = mem.pending, !.last = mem.last]
    [] OTHER -> disk

\* One write of the LM; requests to the JC and to the Workload Manager are
\* deliveries into their input directories.
write ==
  /\ ~Idle
  /\ \E w \in {Head(todo)} :
       /\ disk' = Written(w)
       /\ verdict' = IF w.do = "verdict" THEN [verdict EXCEPT ![w.c] = Append(@, w.x)] ELSE verdict
       /\ wm' = IF w.do = "verdict" /\ w.x = "resubmit" THEN [wm EXCEPT ![jobOf[w.c]] = @ + 1] ELSE wm
       /\ jc' = IF w.do = "request"
                THEN [jc EXCEPT !.new = Append(@, [do |-> "condorremove", j |-> jobOf[w.c], c |-> w.c])]
                ELSE jc
  /\ todo' = Tail(todo)
  /\ UNCHANGED <<condor, jobOf, log, slot, mem, asked, hurt, used>>

\* A crash here loses the entry of a cluster: it is erased and its new form
\* is not yet in the file.  The event of a submission inserts it again.
EntryLost(c) == /\ ~Idle
                /\ Head(todo).do = "push" /\ Head(todo).c = c
                /\ ~(Last(todo).do = "position" /\ log[disk.pos + 1].ev = "submit")

\* A crash here makes the LM forget that it removed the cluster itself: the
\* cluster left the aborted container and its entry is still in the table.
ErrorForgotten(c) ==
  /\ ~Idle /\ Known(c) /\ c \notin disk.aborted
  /\ Last(todo).do = "position" /\ log[disk.pos + 1] = Event("aborted", c, "removed")
  /\ \A i \in DOMAIN todo : todo[i].do # "unabort" /\ (todo[i].do = "verdict" => todo[i].x # "user")
  /\ verdict[c] = <<>> \/ Last(verdict[c]) # "user"

CrashLM ==
  /\ Happens("crash", 1)
  /\ todo' = <<>>
  /\ mem' = [pending |-> disk.pending, last |-> disk.last]
  /\ hurt' = hurt \cup {c \in Cluster : EntryLost(c) \/ ErrorForgotten(c)}
  /\ UNCHANGED <<condor, jobOf, log, jc, slot, wm, disk, verdict, asked>>

-----------------------------------------------------------------------------
(***************************************************************************)
(* The JC: ControllerLoop::run and JobControllerReal                       *)
(***************************************************************************)
NoRequest == [do |-> "none", j |-> 0, c |-> 0]

\* RamContainer::copy of the table of the LM, whose lock excludes the middle
\* of a rewrite
Repository == [j \in Job |-> IF \E c \in Cluster : Known(c) /\ jobOf[c] = j
                             THEN CHOOSE c \in Cluster : Known(c) /\ jobOf[c] = j ELSE 0]

Unlocked == ~Idle => Head(todo).do # "push"

JC(at) == jc.at = at /\ UNCHANGED <<wm, disk, mem, todo, verdict, asked, hurt, used>>

\* extract_next_request: the order of a directory is arbitrary
extract_next_request(do, i) == JC("idle") /\ i \in DOMAIN jc.new /\ jc.new[i].do = do

InHand(i, c, at) ==
  [jc EXCEPT !.new = RemoveAt(@, i), !.cur = [jc.new[i] EXCEPT !.c = c], !.at = at]

\* SubmitAd::createFromAd: the place in the log is taken, and saved.  When
\* the log is full the job goes to another one.
createFromAd(i) ==
  /\ extract_next_request("submit", i)
  /\ slot' = IF slot < JobsPerLog THEN slot + 1 ELSE slot
  /\ jc' = InHand(i, 0, IF slot < JobsPerLog THEN "submit" ELSE "release")
  /\ UNCHANGED <<condor, jobOf, log>>

\* JobControllerReal::submit: condor_submit works, or fails three times
submit ==
  /\ JC("submit")
  /\ \/ /\ condor' = [condor EXCEPT ![slot] = "idle"]
        /\ jobOf' = [jobOf EXCEPT ![slot] = jc.cur.j]
        /\ log' = Append(log, Event("submit", slot, ""))
        /\ jc' = [jc EXCEPT !.at = "insert"]
     \/ /\ jc' = [jc EXCEPT !.at = "release"]
        /\ UNCHANGED <<condor, jobOf, log>>
  /\ UNCHANGED slot

\* The new pair goes into the RAM repository, which is read from the LM
\* first when enough pairs were inserted.
insert ==
  /\ JC("insert")
  /\ \E repo \in {jc.repo} \cup (IF Unlocked THEN {Repository} ELSE {}) :
       jc' = [jc EXCEPT !.repo = [repo EXCEPT ![jc.cur.j] = slot], !.at = "release"]
  /\ UNCHANGED <<condor, jobOf, log, slot>>

\* JobControllerReal::cancel(jobid).  When the job is not in the repository
\* the repository is read again and the request is over.
cancel_job(i) ==
  /\ extract_next_request("remove", i)
  /\ \E c \in {jc.repo[jc.new[i].j]} :
       IF c = 0
       THEN /\ Unlocked
            /\ jc' = [InHand(i, 0, "release") EXCEPT !.repo = Repository]
            /\ UNCHANGED log
       ELSE /\ log' = Append(log, Event("generic", c, "user_cancelled"))
            /\ jc' = InHand(i, c, "condor_rm")
  /\ UNCHANGED <<condor, jobOf, slot>>

\* JobControllerReal::cancel(condorid)
cancel_cluster(i) ==
  /\ extract_next_request("condorremove", i)
  /\ jc' = InHand(i, jc.new[i].c, "condor_rm")
  /\ UNCHANGED <<condor, jobOf, log, slot>>

\* cancelJob: condor_rm, then condor_rm -f.  A failure is written into the
\* log only for a removal by cluster.
cancelJob ==
  /\ JC("condor_rm")
  /\ \/ /\ condor[jc.cur.c] # "gone"
        /\ condor' = [condor EXCEPT ![jc.cur.c] = "removing"]
        /\ jc' = [jc EXCEPT !.at = "cancelled"]
     \/ /\ jc' = [jc EXCEPT !.at = IF jc.cur.do = "remove" THEN "release" ELSE "cannot_cancel"]
        /\ UNCHANGED condor
  /\ UNCHANGED <<jobOf, log, slot>>

logGenericEvent ==
  /\ \E code \in {"cancelled", "cannot_cancel"} :
       /\ JC(code)
       /\ log' = Append(log, Event("generic", jc.cur.c, code))
  /\ jc' = [jc EXCEPT !.at = "release"]
  /\ UNCHANGED <<condor, jobOf, slot>>

release_request ==
  /\ JC("release")
  /\ jc' = [jc EXCEPT !.cur = NoRequest, !.at = "idle"]
  /\ UNCHANGED <<condor, jobOf, log, slot>>

\* The request in hand is still in the directory and is served again.
CrashJC ==
  /\ Unlocked
  /\ Happens("crash", 1)
  /\ jc' = [jc EXCEPT !.new = IF jc.at = "idle" THEN @ ELSE <<jc.cur>> \o @,
                      !.cur = NoRequest, !.at = "idle", !.repo = Repository]
  /\ UNCHANGED <<condor, jobOf, log, slot, wm, disk, mem, todo, verdict, asked, hurt>>

-----------------------------------------------------------------------------
(***************************************************************************)
(* The surroundings: Workload Manager, users and Condor                    *)
(***************************************************************************)
Around == UNCHANGED <<slot, disk, mem, todo, verdict, hurt>>

\* The Workload Manager submits a job that is new or to be resubmitted.
WMSubmit(j) ==
  /\ Around /\ wm[j] > 0
  /\ wm' = [wm EXCEPT ![j] = @ - 1]
  /\ jc' = [jc EXCEPT !.new = Append(@, [do |-> "submit", j |-> j, c |-> 0])]
  /\ UNCHANGED <<condor, jobOf, log, asked, used>>

\* A user cancels a job.
WMCancel(j) ==
  /\ Around /\ wm[j] = 0
  /\ Happens("cancel", 1)
  /\ asked' = asked \cup {j}
  /\ jc' = [jc EXCEPT !.new = Append(@, [do |-> "remove", j |-> j, c |-> 0])]
  /\ UNCHANGED <<condor, jobOf, log, wm>>

CondorLog(c, now, next, e) ==
  /\ Around /\ condor[c] \in now
  /\ condor' = [condor EXCEPT ![c] = next]
  /\ log' = Append(log, e)
  /\ UNCHANGED <<jobOf, jc, wm, asked>>

\* Condor logs something that does not end the cluster.
Incident(c) ==
  /\ Happens("incident", 1)
  /\ \/ CondorLog(c, {"idle"}, "running", Event("execute", c, ""))
     \/ CondorLog(c, {"idle"}, "held", Event("submitfailed", c, ""))
     \/ CondorLog(c, {"idle"}, "down", Event("down", c, ""))
     \/ CondorLog(c, {"down"}, "idle", Event("up", c, ""))
     \/ \E code \in HeldCode \ {"cancel"} :
          CondorLog(c, {"idle", "running"}, "held", Event("held", c, code))
     \/ CondorLog(c, {"removing"}, "held", Event("held", c, "cancel"))

\* The cluster ends by itself.
Terminate(c) ==
  /\ \/ \E x \in {"good", "bad", "abort"} :
          CondorLog(c, {"running"}, "gone", Event("terminated", c, x))
     \/ CondorLog(c, {"idle", "running", "held", "down"}, "gone", Event("aborted", c, "periodic"))
  /\ UNCHANGED used

\* The cluster ends because it was removed.
Removed(c) == CondorLog(c, {"removing"}, "gone", Event("aborted", c, "removed")) /\ UNCHANGED used

-----------------------------------------------------------------------------
Init ==
  /\ condor = [c \in Cluster |-> "none"]
  /\ jobOf = [c \in Cluster |-> 0]
  /\ log = <<>>
  /\ jc = [new |-> <<>>, cur |-> NoRequest, at |-> "idle", repo |-> [j \in Job |-> 0]]
  /\ slot = 0
  /\ wm = [j \in Job |-> 1]
  /\ disk = [pos |-> 0, pending |-> 0, last |-> FALSE, ids |-> [c \in Cluster |-> Absent],
             aborted |-> {}, timers |-> [t \in Timers |-> 0]]
  /\ mem = [pending |-> 0, last |-> FALSE]
  /\ todo = <<>>
  /\ verdict = [c \in Cluster |-> <<>>]
  /\ asked = {}
  /\ hurt = {}
  /\ used = [k \in Rare |-> 0]

LM == process_next_event \/ checkAndProcessTimers \/ write

Controller ==
  \/ \E i \in DOMAIN jc.new : createFromAd(i) \/ cancel_job(i) \/ cancel_cluster(i)
  \/ submit \/ insert \/ cancelJob \/ logGenericEvent \/ release_request

Next == \/ LM \/ CrashLM
        \/ Controller \/ CrashJC
        \/ \E j \in Job : WMSubmit(j) \/ WMCancel(j)
        \/ \E c \in Cluster : Incident(c) \/ Terminate(c) \/ Removed(c)

\* Both daemons poll for ever and Condor carries out the removals it accepts.
Fairness == /\ WF_vars(process_next_event \/ write)
            /\ WF_vars(Controller)
            /\ \A c \in Cluster : WF_vars(Removed(c))

Spec == Init /\ [][Next]_vars /\ Fairness

-----------------------------------------------------------------------------
(***************************************************************************)
(* Properties                                                              *)
(***************************************************************************)
\* Every variable has its type: among others, the count of pending clusters
\* that SizeFile keeps never falls below zero nor exceeds the submissions,
\* also when the LM reads the events of their starts and ends again.
TypeOK ==
  /\ condor \in [Cluster -> {"none", "idle", "running", "held", "down", "removing", "gone"}]
  /\ jobOf \in [Cluster -> Job \cup {0}]
  /\ slot \in 0 .. JobsPerLog
  /\ wm \in [Job -> Nat]
  /\ disk.pos \in 0 .. Len(log) /\ disk.pending \in 0 .. JobsPerLog
  /\ disk.ids \in [Cluster -> [last : Status, retry : Nat] \cup {Absent}]
  /\ disk.timers \in [Timers -> Nat]
  /\ verdict \in [Cluster -> Seq(Verdict)]

\* The n first events of the log say that the cluster ended
Ended(c, n) == \E i \in 1 .. n : log[i].c = c /\ log[i].ev \in {"terminated", "aborted"}

\* A log whose position file says that the last job was submitted and no job
\* is pending (SizeFile::completed), which MonitorLoop::run has removed with
\* its timers, has nothing more to tell: every cluster submitted to it has
\* ended and the LM processed the event of its end, crashes included.
RecycledWhenOver ==
  disk.last /\ disk.pending = 0 =>
    \A c \in Cluster : condor[c] # "none" => condor[c] = "gone" /\ Ended(c, disk.pos)

\* Another cluster of the same job: when its entry is in the table,
\* EventSubmit ignores the newcomer
Twin(c) == \E d \in Cluster \ {c} : jobOf[d] = jobOf[c]

\* Once the position is past the event of the end of a cluster, the LM has
\* reported a verdict on the cluster or had the job resubmitted.  The only
\* exceptions are a crash in the middle of IdContainer::update_pointer and a
\* second cluster of a job that is still in the table.
NoEndMissed ==
  \A c \in Cluster : Ended(c, disk.pos) => verdict[c] # <<>> \/ c \in hurt \/ Twin(c)

\* A cluster gets one verdict: the end of a cluster whose removal was given
\* up, a removal retried by timer and a late event add none.  Each crash can
\* make the LM process one event again and give one verdict more.
OneVerdict == \A c \in Cluster : Len(verdict[c]) <= 1 + used["crash"]

\* EventAborted reports a job as aborted by its user only when the user did
\* ask for it: a cluster that the LM itself had removed is told apart by the
\* aborted container, except after a crash between the removal from that
\* container and the removal from the table.
UserAbortsAsked ==
  \A c \in Cluster : (\E i \in DOMAIN verdict[c] : verdict[c][i] = "user") =>
                       jobOf[c] \in asked \/ c \in hurt

\* The LM has processed the event by which the JC tells it that the user
\* cancelled the job
CancelRead(c) == \E i \in 1 .. disk.pos : log[i] = Event("generic", c, "user_cancelled")

\* This step asks the Workload Manager to resubmit the job of the cluster
Resubmits(c) == Len(verdict'[c]) > Len(verdict[c]) /\ Last(verdict'[c]) = "resubmit"

\* EventGeneric: "Job cancelled by the user, no resubmission should be
\* triggered off."  After it, a resubmission has one of two causes: the job
\* wrapper failed before the removal reached the job (EventTerminated does
\* not look at the last status), or Condor held the job after the
\* cancellation (EventJobHeld overwrites the last status).
CancelledStays ==
  [][\A c \in Cluster : CancelRead(c) /\ Resubmits(c) =>
       \E i \in 1 .. disk.pos + 1 :
         log[i].c = c /\ log[i].ev \in {"terminated", "held"}]_vars

\* A cluster that is gone leaves the table: whatever the end, the crashes
\* and the order in which the JC and Condor write into the log.
EntriesLeave == \A c \in Cluster : condor[c] = "gone" ~> ~Known(c)
=============================================================================
