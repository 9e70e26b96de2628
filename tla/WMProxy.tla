------------------------------- MODULE WMProxy -------------------------------
(***************************************************************************)
(* The operations of WMProxy on one job (interface/src/server), run by      *)
(* several FastCGI processes at once: jobRegister, jobSubmit, jobStart,     *)
(* jobCancel, jobPurge and getOutputFileList.  They meet in the job's       *)
(* directory, in two lock files inside it (POSIX record locks, owned by a   *)
(* process and dropped when it closes any descriptor of the file), in the   *)
(* events of the job in LB and in the input jobdir of the Workload Manager  *)
(* (WM).  A process that throws goes on to serve other calls.               *)
(*                                                                          *)
(* The job is a simple job with a MyProxy server.  A call to LB, a          *)
(* delivery, a system call on a lock and a change of the directory are one  *)
(* step each.  LB and the WM are external.                                  *)
(***************************************************************************)
EXTENDS Integers, FiniteSets

CONSTANTS
    Proc,           \* server processes
    None,           \* no process, no event
    MaxCalls,       \* bound: calls for the job once it is registered
    MaxFaults       \* bound: failures of LB, of deliveries, of processes

Operation == {"register", "submit", "start", "expired", "cancel", "purge",
              "list"}

ASSUME Bounds ==
    /\ None \notin Proc \cup Operation
    /\ MaxCalls \in Nat
    /\ MaxFaults \in Nat

Event == {"REGJOB", "ACCEPTED", "ENQ_START", "ENQ_OK", "ENQ_FAIL", "ABORT",
          "CANCEL", "CLEAR"}
WMState == {"none", "running", "done", "failed", "aborted"}

VARIABLES
    async,      \* configuration attribute AsyncJobStart
    \* on disk
    dir,        \* the job directory exists
    jdl,        \* JDL files in it: "tostart", "started"
    renewal,    \* the proxy is registered for renewal
    locked,     \* locked.start, locked.list: the process that owns the lock
    \* in the processes
    op, pc,     \* the operation a process executes and where it is
    \* outside
    events,     \* kinds of event LB has for the job
    last,       \* the last of them
    submits,    \* submit requests delivered to the WM
    cancels,    \* cancel requests delivered to the WM
    wm,         \* what the WM and the components after it have logged
    \* history
    known,      \* the user has got the job identifier
    past,       \* processes beyond their isAborted check at the first ABORT
    purger,     \* the operation that removed the directory
    busy,       \* busy[p]: the listings under way since before p's purge
    leaked,     \* a start threw without giving back its lock
    calls, faults

disk == <<dir, jdl, renewal>>
outside == <<events, last, submits, cancels, wm>>
history == <<known, past, purger, busy, leaked>>
vars == <<async, disk, locked, op, pc, outside, history, calls, faults>>

Label ==
    {"idle",
     "reg_lb", "reg_dir", "reg_jdl",
     "allowed", "exists", "open", "wait",
     "accept", "enq_start", "prepare", "check", "deliver", "enq_ok",
     "wm_fail", "write", "rename", "unlock",
     "prep_fail", "ad_fail", "ad_abort", "ad_unlock",
     "too_many", "own_lock",
     "expired",
     "status", "abort", "is_locked", "unregister", "forward", "log_cancel",
     "purge_locked", "remove", "clear",
     "list_open", "list_wait", "listing"}

TypeOK ==
    /\ async \in BOOLEAN /\ dir \in BOOLEAN /\ renewal \in BOOLEAN
    /\ jdl \subseteq {"tostart", "started"}
    /\ locked \in [{"start", "list"} -> Proc \cup {None}]
    /\ op \in [Proc -> Operation \cup {None}]
    /\ pc \in [Proc -> Label]
    /\ events \subseteq Event /\ last \in Event \cup {None}
    /\ submits \in Nat /\ cancels \in Nat
    /\ wm \in WMState
    /\ known \in BOOLEAN /\ past \subseteq Proc /\ leaked \in BOOLEAN
    /\ purger \in Operation \cup {None}
    /\ busy \in [Proc -> SUBSET Proc]
    /\ calls \in 0 .. MaxCalls /\ faults \in 0 .. MaxFaults

-----------------------------------------------------------------------------
(* Steps of one process. *)

Fault == faults < MaxFaults /\ faults' = faults + 1
NoFault == UNCHANGED faults

Goto(p, label) == pc' = [pc EXCEPT ![p] = label] /\ UNCHANGED op

\* The operation is over.
Return(p) ==
    /\ pc' = [pc EXCEPT ![p] = "idle"]
    /\ op' = [op EXCEPT ![p] = None]

\* An exception submit() has no handler for: the descriptor of the lock file
\* stays open, and the process keeps the lock.
Throw(p) ==
    /\ Return(p)
    /\ leaked' = (leaked \/ locked["start"] = p)

\* An event gets to LB.  The first ABORT tells apart the processes it finds
\* beyond their isAborted check.
Record(e) ==
    /\ events' = events \cup {e}
    /\ last' = e
    /\ past' = IF e = "ABORT" /\ e \notin events
               THEN {p \in Proc : pc[p] = "deliver"} ELSE past

\* logEvent with retry and test: logged, or dropped in silence (EINVAL and GSS
\* errors).  When the retries are over it throws: see LogFails.
logEvent(e) ==
    \/ Record(e) /\ NoFault
    \/ Fault /\ UNCHANGED <<events, last, past>>

\* ... and goes on at label next when it does not throw.
LogThen(p, label, e, next) ==
    /\ pc[p] = label
    /\ logEvent(e)
    /\ Goto(p, next)
    /\ UNCHANGED <<async, disk, locked, submits, cancels, wm, known, purger,
                   busy, leaked, calls>>

LogFails(p, label) ==
    /\ pc[p] = label
    /\ Fault
    /\ Throw(p)
    /\ UNCHANGED <<async, disk, locked, outside, known, past, purger, busy,
                   calls>>

\* Only the control of process p changes.
Local(p) ==
    UNCHANGED <<async, disk, locked, outside, history, calls>>

-----------------------------------------------------------------------------
(* The lock files.  "start" is locked by jobStart, "list" by                *)
(* getOutputFileList.                                                       *)

\* operationLock opens the file, which needs the directory, and then waits.
OpenLock(p, label, next) ==
    /\ pc[p] = label
    /\ IF dir THEN Goto(p, next) ELSE Return(p)
    /\ NoFault /\ Local(p)

\* Mutant: does not wait for the lock.
operationLockUnheard(p, l, label, next) ==
    /\ pc[p] = label
    /\ locked' = [locked EXCEPT ![l] = p]
    /\ Goto(p, next)
    /\ NoFault
    /\ UNCHANGED <<async, disk, outside, history, calls>>

operationLock(p, l, label, next) ==
    /\ pc[p] = label
    /\ locked[l] \in {None, p}
    /\ locked' = [locked EXCEPT ![l] = p]
    /\ Goto(p, next)
    /\ NoFault
    /\ UNCHANGED <<async, disk, outside, history, calls>>

\* operationUnlock asks for the write lock once more, waits for it, and closes.
operationUnlock(p, l) ==
    /\ locked[l] \in {None, p}
    /\ locked' = [locked EXCEPT ![l] = None]

\* isOperationLocked does not see a lock of its own process, and closing the
\* descriptor gives that lock up.
isOperationLocked(p, l) == locked[l] \notin {None, p}
CloseAfterCheck(p, l) ==
    locked' = IF locked[l] = p THEN [locked EXCEPT ![l] = None] ELSE locked

-----------------------------------------------------------------------------
(* jobRegister, and the first half of jobSubmit.                            *)

regist(p) ==
    \/ /\ pc[p] = "reg_lb"      \* registerJob
       /\ \/ Record("REGJOB") /\ NoFault /\ Goto(p, "reg_dir")
          \/ Fault /\ Return(p) /\ UNCHANGED <<events, last, past>>
       /\ UNCHANGED <<async, disk, locked, submits, cancels, wm, known,
                      purger, busy, leaked, calls>>
    \/ /\ pc[p] = "reg_dir"     \* registerProxyRenewal, setJobFileSystem
       /\ renewal' = TRUE /\ dir' = TRUE
       /\ Goto(p, "reg_jdl") /\ NoFault
       /\ UNCHANGED <<async, jdl, locked, outside, history, calls>>
    \/ /\ pc[p] = "reg_jdl"     \* the JDL to start; the user gets the job id
       /\ jdl' = {"tostart"} /\ known' = TRUE
       /\ IF op[p] = "register" THEN Return(p) ELSE Goto(p, "accept")
       /\ NoFault
       /\ UNCHANGED <<async, dir, renewal, locked, outside, past, purger,
                      busy, leaked, calls>>

-----------------------------------------------------------------------------
(* jobStart, and submit(), which jobSubmit also runs, without the lock.     *)

\* What LB's events say: nothing was started, or the last start failed.
isStartAllowed ==
    /\ events \cap {"ABORT", "CANCEL", "CLEAR"} = {}
    /\ \/ events = {"REGJOB"}
       \/ last = "ENQ_FAIL"

jobStart(p) ==
    \/ /\ pc[p] = "allowed"
       /\ \/ NoFault /\ IF isStartAllowed THEN Goto(p, "exists") ELSE Return(p)
          \/ Fault /\ Return(p)
       /\ Local(p)
    \/ /\ pc[p] = "exists"
       /\ IF "tostart" \in jdl THEN Goto(p, "open") ELSE Return(p)
       /\ NoFault /\ Local(p)
    \/ OpenLock(p, "open", "wait")
    \/ operationLock(p, "start", "wait", "accept")

\* The proxy has expired: LOG_ABORT, by a logger that was given no job yet,
\* and the purge.
jobStartExpired(p) ==
    /\ pc[p] = "expired"
    /\ Goto(p, "remove") /\ NoFault
    /\ Record("ABORT") \/ UNCHANGED <<events, last, past>>
    /\ UNCHANGED <<async, disk, locked, submits, cancels, wm, known, purger,
                   busy, leaked, calls>>

\* The checks on the JDL of a job and the attributes added to it: all is well,
\* or too many sandbox files, a RequestAdException, another exception.
Prepare(p) ==
    /\ pc[p] = "prepare"
    /\ \/ Goto(p, "check") /\ NoFault
       \/ \E label \in {"too_many", "ad_fail", "prep_fail"} :
             Goto(p, label) /\ Fault
    /\ Local(p)

\* Too many files: a synchronous ABORT, and the purge if no start is under way.
TooMany(p) ==
    \/ /\ pc[p] = "too_many"
       /\ \/ Record("ABORT") /\ NoFault /\ Goto(p, "own_lock")
          \/ Fault /\ Goto(p, "prep_fail") /\ UNCHANGED <<events, last, past>>
       /\ UNCHANGED <<async, disk, locked, submits, cancels, wm, known,
                      purger, busy, leaked, calls>>
    \/ /\ pc[p] = "own_lock"
       /\ IF dir /\ ~isOperationLocked(p, "start")
          THEN CloseAfterCheck(p, "start") /\ Goto(p, "remove")
          ELSE UNCHANGED locked /\ Goto(p, "prep_fail")
       /\ NoFault
       /\ UNCHANGED <<async, disk, outside, history, calls>>

\* After a RequestAdException an asynchronous start unlocks and goes on, from
\* here as one without a lock.
AdUnlock(p) ==
    /\ pc[p] = "ad_unlock"
    /\ IF op[p] = "start" THEN operationUnlock(p, "start") ELSE UNCHANGED locked
    /\ IF async
       THEN /\ pc' = [pc EXCEPT ![p] = "check"]
            /\ op' = [op EXCEPT ![p] = "submit"]
       ELSE Return(p)
    /\ NoFault
    /\ UNCHANGED <<async, disk, outside, history, calls>>

\* Mutant: jobSubmit has just registered the job and does not look.
isAbortedLocked(p) ==
    /\ pc[p] = "check"
    /\ \/ NoFault /\ ("ABORT" \notin events \/ op[p] = "submit")
             /\ Goto(p, "deliver") /\ UNCHANGED leaked
       \/ NoFault /\ "ABORT" \in events /\ op[p] # "submit" /\ Throw(p)
       \/ Fault /\ Throw(p)
    /\ UNCHANGED <<async, disk, locked, outside, known, past, purger, busy,
                   calls>>

isAborted(p) ==
    /\ pc[p] = "check"
    /\ \/ NoFault /\ "ABORT" \notin events /\ Goto(p, "deliver")
             /\ UNCHANGED leaked
       \/ NoFault /\ "ABORT" \in events /\ Throw(p)
       \/ Fault /\ Throw(p)
    /\ UNCHANGED <<async, disk, locked, outside, known, past, purger, busy,
                   calls>>

\* WMP2WM::submit: deliver, then log the outcome; a failure is not passed on.
Deliver(p) ==
    /\ pc[p] = "deliver"
    /\ \/ NoFault /\ submits' = submits + 1 /\ Goto(p, "enq_ok")
       \/ Fault /\ UNCHANGED submits /\ Goto(p, "wm_fail")
    /\ UNCHANGED <<async, disk, locked, events, last, cancels, wm, history,
                   calls>>

EnqueueOkFails(p) ==
    /\ pc[p] = "enq_ok"
    /\ Fault /\ Goto(p, "wm_fail") /\ Local(p)

\* The JDL is written again, with the last sequence code, and renamed.
WriteStarted(p) ==
    \/ /\ pc[p] = "write"
       /\ IF dir
          THEN jdl' = jdl \cup {"tostart"} /\ Goto(p, "rename")
                  /\ UNCHANGED leaked
          ELSE UNCHANGED jdl /\ Throw(p)
       /\ NoFault
       /\ UNCHANGED <<async, dir, renewal, locked, outside, known, past,
                      purger, busy, calls>>
    \/ /\ pc[p] = "rename"
       /\ jdl' = IF "tostart" \in jdl
                 THEN (jdl \ {"tostart"}) \cup {"started"} ELSE jdl
       /\ Goto(p, "unlock") /\ NoFault
       /\ UNCHANGED <<async, dir, renewal, locked, outside, history, calls>>

RemoveLock(p) ==
    /\ pc[p] = "unlock"
    /\ IF op[p] = "start" THEN operationUnlock(p, "start") ELSE UNCHANGED locked
    /\ Return(p) /\ NoFault
    /\ UNCHANGED <<async, disk, outside, history, calls>>

\* The events submit() logs on its way.
LogSteps(p) ==
    \/ LogThen(p, "accept", "ACCEPTED", "enq_start")
    \/ LogThen(p, "enq_start", "ENQ_START", "prepare")
    \/ LogThen(p, "prep_fail", "ENQ_FAIL", "unlock")
    \/ LogThen(p, "ad_fail", "ENQ_FAIL", "ad_abort")
    \/ LogThen(p, "ad_abort", "ABORT", "ad_unlock")
    \/ LogThen(p, "enq_ok", "ENQ_OK", "write")
    \/ LogThen(p, "wm_fail", "ENQ_FAIL", "write")
    \/ \E label \in {"accept", "enq_start", "prep_fail", "ad_fail",
                     "ad_abort", "wm_fail"} : LogFails(p, label)

submit(p) ==
    \/ LogSteps(p)
    \/ Prepare(p) \/ TooMany(p) \/ AdUnlock(p) \/ isAborted(p)
    \/ Deliver(p) \/ EnqueueOkFails(p) \/ WriteStarted(p) \/ RemoveLock(p)

-----------------------------------------------------------------------------
(* jobCancel, jobPurge, getOutputFileList.                                  *)

\* The state LB computes.  It calls an accepted job submitted or waiting.
Status ==
    IF "CLEAR" \in events THEN {"CLEARED"}
    ELSE IF "ABORT" \in events THEN {"ABORTED"}
    ELSE IF wm # "none" THEN {wm}
    ELSE IF "ENQ_OK" \in events THEN {"WAITING"}
    ELSE IF "ACCEPTED" \in events THEN {"SUBMITTED", "WAITING"}
    ELSE {"SUBMITTED"}

CancelStatus(p) ==
    /\ pc[p] = "status"
    /\ \/ /\ NoFault
          /\ \E s \in Status :
                IF "CANCEL" \in events \/ jdl = {} THEN Return(p)
                ELSE IF s = "SUBMITTED" THEN Goto(p, "abort")
                ELSE IF s \in {"WAITING", "running", "failed"}
                     THEN Goto(p, "forward")
                ELSE Return(p)
       \/ Fault /\ Return(p)
    /\ Local(p)

\* Mutant: looks at the lock first and logs ABORT when it is free.
CancelSubmittedLate(p) ==
    \/ /\ pc[p] = "abort"
       /\ IF ~dir THEN Return(p) /\ UNCHANGED locked
          ELSE IF isOperationLocked(p, "start")
          THEN Goto(p, "unregister") /\ UNCHANGED locked
          ELSE Goto(p, "is_locked") /\ CloseAfterCheck(p, "start")
       /\ NoFault
       /\ UNCHANGED <<async, disk, outside, history, calls>>
    \/ /\ pc[p] = "is_locked"
       /\ \/ Record("ABORT") /\ NoFault /\ Goto(p, "remove")
          \/ Fault /\ Goto(p, "unregister") /\ UNCHANGED <<events, last, past>>
       /\ UNCHANGED <<async, disk, locked, submits, cancels, wm, known,
                      purger, busy, leaked, calls>>
    \/ /\ pc[p] = "unregister"
       /\ renewal' = FALSE
       /\ Return(p) /\ NoFault
       /\ UNCHANGED <<async, dir, jdl, locked, outside, history, calls>>

\* A job that is SUBMITTED: ABORT first, then look at the lock of jobStart.
CancelSubmitted(p) ==
    \/ /\ pc[p] = "abort"
       /\ \/ Record("ABORT") /\ NoFault /\ Goto(p, "is_locked")
          \/ Fault /\ Goto(p, "unregister") /\ UNCHANGED <<events, last, past>>
       /\ UNCHANGED <<async, disk, locked, submits, cancels, wm, known,
                      purger, busy, leaked, calls>>
    \/ /\ pc[p] = "is_locked"
       /\ IF ~dir THEN Return(p) /\ UNCHANGED locked
          ELSE IF isOperationLocked(p, "start")
          THEN Goto(p, "unregister") /\ UNCHANGED locked
          ELSE Goto(p, "remove") /\ CloseAfterCheck(p, "start")
       /\ NoFault
       /\ UNCHANGED <<async, disk, outside, history, calls>>
    \/ /\ pc[p] = "unregister"
       /\ renewal' = FALSE
       /\ Return(p) /\ NoFault
       /\ UNCHANGED <<async, dir, jdl, locked, outside, history, calls>>

\* A job the WM has: deliver the cancel request, then log it.
CancelForward(p) ==
    \/ /\ pc[p] = "forward"
       /\ \/ NoFault /\ cancels' = cancels + 1 /\ Goto(p, "log_cancel")
          \/ Fault /\ UNCHANGED cancels /\ Return(p)
       /\ UNCHANGED <<async, disk, locked, events, last, submits, wm, history,
                      calls>>
    \/ /\ pc[p] = "log_cancel"
       /\ logEvent("CANCEL")
       /\ Return(p)
       /\ UNCHANGED <<async, disk, locked, submits, cancels, wm, known,
                      purger, busy, leaked, calls>>

jobCancel(p) == CancelStatus(p) \/ CancelSubmitted(p) \/ CancelForward(p)

jobPurge(p) ==
    /\ pc[p] = "purge_locked"
    /\ IF dir /\ ~isOperationLocked(p, "list")
       THEN Goto(p, "remove") /\ CloseAfterCheck(p, "list")
       ELSE Return(p) /\ UNCHANGED locked
    /\ NoFault
    /\ UNCHANGED <<async, disk, outside, history, calls>>

\* What follows jobpurge in the operation that called it.
AfterPurge(p) ==
    CASE op[p] = "cancel" -> Goto(p, "unregister")
      [] op[p] \in {"start", "submit"} -> Goto(p, "prep_fail")
      [] OTHER -> Return(p)

\* jobpurge asks LB for the status, and ignores it; the purger asks again,
\* removes the directory and logs CLEAR.  Only the first query can throw.
jobpurge(p) ==
    \/ /\ pc[p] = "remove"
       /\ \/ /\ dir' = FALSE /\ jdl' = {}
             /\ purger' = IF dir THEN op[p] ELSE purger
             /\ Goto(p, "clear") /\ NoFault
          \/ /\ Fault /\ UNCHANGED <<dir, jdl, purger>>
             /\ AfterPurge(p) \/ (op[p] = "cancel" /\ Return(p))
       /\ UNCHANGED <<async, renewal, locked, outside, known, past, busy,
                      leaked, calls>>
    \/ /\ pc[p] = "clear"
       /\ \/ Record("CLEAR") /\ NoFault
          \/ Fault /\ UNCHANGED <<events, last, past>>
       /\ AfterPurge(p)
       /\ UNCHANGED <<async, disk, locked, submits, cancels, wm, known,
                      purger, busy, leaked, calls>>

\* A listing is over: no purge has to spare it any more.
ListingOver(p) == busy' = [q \in Proc |-> busy[q] \ {p}]

\* Mutant: a listing that is refused does not unlock.
getOutputFileListKept(p) ==
    \/ OpenLock(p, "list_open", "list_wait")
    \/ operationLock(p, "list", "list_wait", "listing")
    \/ /\ pc[p] = "listing"
       /\ operationUnlock(p, "list") \/ UNCHANGED locked
       /\ ListingOver(p)
       /\ Return(p) /\ NoFault
       /\ UNCHANGED <<async, disk, outside, known, past, purger, leaked, calls>>

getOutputFileList(p) ==
    \/ OpenLock(p, "list_open", "list_wait")
    \/ operationLock(p, "list", "list_wait", "listing")
    \/ /\ pc[p] = "listing"
       /\ operationUnlock(p, "list") /\ ListingOver(p)
       /\ Return(p) /\ NoFault
       /\ UNCHANGED <<async, disk, outside, known, past, purger, leaked, calls>>

-----------------------------------------------------------------------------
(* Calls of the users, processes that end, the WM.                          *)

Init ==
    /\ async \in BOOLEAN
    /\ dir = FALSE /\ jdl = {} /\ renewal = FALSE
    /\ locked = [l \in {"start", "list"} |-> None]
    /\ op = [p \in Proc |-> None] /\ pc = [p \in Proc |-> "idle"]
    /\ events = {} /\ last = None
    /\ submits = 0 /\ cancels = 0 /\ wm = "none"
    /\ known = FALSE /\ past = {} /\ purger = None /\ leaked = FALSE
    /\ busy = [p \in Proc |-> {}]
    /\ calls = 0 /\ faults = 0

Serve(p, o, label) ==
    /\ pc[p] = "idle"
    /\ pc' = [pc EXCEPT ![p] = label]
    /\ op' = [op EXCEPT ![p] = o]
    /\ past' = past \ {p}
    /\ busy' = [busy EXCEPT ![p] = IF o = "purge"
                                   THEN {q \in Proc : pc[q] = "listing"}
                                   ELSE {}]
    /\ UNCHANGED <<async, disk, locked, outside, known, purger, leaked>>

\* Every job gets a new identifier: this one is registered once.
Register(p) ==
    /\ events = {} /\ \A q \in Proc : pc[q] = "idle"
    /\ \E o \in {"register", "submit"} : Serve(p, o, "reg_lb")
    /\ NoFault /\ UNCHANGED calls

\* Each of these looks for the directory, or the proxy in it, first.
Call(p) ==
    /\ known /\ dir
    /\ calls < MaxCalls /\ calls' = calls + 1
    /\ \/ NoFault /\ Serve(p, "start", "allowed")
       \/ Fault /\ Serve(p, "expired", "expired")
       \/ NoFault /\ Serve(p, "cancel", "status")
       \/ NoFault /\ Serve(p, "purge", "purge_locked")
       \/ NoFault /\ Serve(p, "list", "list_open")

Ends(p) ==
    /\ pc' = [pc EXCEPT ![p] = "idle"]
    /\ op' = [op EXCEPT ![p] = None]
    /\ locked' = [l \in {"start", "list"} |->
                     IF locked[l] = p THEN None ELSE locked[l]]
    /\ ListingOver(p)
    /\ UNCHANGED <<async, disk, outside, known, past, purger, leaked, calls>>

Crash(p) == pc[p] # "idle" /\ Fault /\ Ends(p)

\* A process that has served its number of requests ends; another one starts.
Recycle(p) ==
    /\ pc[p] = "idle" /\ \E l \in {"start", "list"} : locked[l] = p
    /\ NoFault /\ Ends(p)

WM ==
    /\ submits > 0
    /\ \/ wm = "none" /\ wm' = "running"
       \/ wm = "running" /\ wm' \in {"done", "failed", "aborted"}
    /\ UNCHANGED <<async, disk, locked, op, pc, events, last, submits, cancels,
                   history, calls, faults>>

Step(p) ==
    \/ regist(p)
    \/ jobStart(p)
    \/ jobStartExpired(p)
    \/ submit(p)
    \/ jobCancel(p)
    \/ jobPurge(p)
    \/ jobpurge(p)
    \/ getOutputFileList(p)

Next ==
    \/ \E p \in Proc :
          Step(p) \/ Register(p) \/ Call(p) \/ Crash(p) \/ Recycle(p)
    \/ WM

\* A process at work goes on; fcntl(F_SETLKW) grants a lock that is free.
Spec == Init /\ [][Next]_vars /\ \A p \in Proc : WF_vars(Step(p))

-----------------------------------------------------------------------------
(* Properties.                                                              *)

Starting == {"accept", "enq_start", "prepare", "too_many", "own_lock",
             "ad_fail", "ad_abort", "check", "deliver", "enq_ok", "wm_fail",
             "write", "rename"}

\* One jobStart at a time is between operationLock and the end of submit():
\* no exception, purge or late check of the lock lets a second one in while
\* the first can still deliver the job.
OneStart ==
    \A p, q \in Proc :
        /\ op[p] = "start" /\ pc[p] \in Starting
        /\ op[q] = "start" /\ pc[q] \in Starting
        => p = q

\* As long as its directory is there a registered job has a JDL file, to start
\* or started, whatever starts overlap or die: jobCancel needs one.
JdlKept == known /\ dir => jdl # {}

\* Once ABORT is logged (the user cancelled a SUBMITTED job, too many files, a
\* bad JDL) the job goes to the WM only from a process that was already beyond
\* isAborted at that moment.
AbortWins ==
    [][submits' > submits /\ "ABORT" \in events
          => \E p \in past : pc[p] = "deliver" /\ pc'[p] # "deliver"]_vars

\* "purge is done if jobStart is not in progress": a jobStart that holds the
\* lock never delivers a job whose directory a jobCancel has removed.  Either
\* jobCancel sees the lock or the start sees its ABORT.
CancelSparesStart ==
    [][\A p \in Proc :
          /\ pc[p] = "deliver" /\ pc'[p] = "enq_ok" /\ op[p] = "start"
          => purger # "cancel"]_vars

\* "If a getOutputFileList is requested, jobPurge operation is aborted": a
\* listing under way when jobPurge is called is over when the files go.
PurgeSparesList ==
    [][\A p \in Proc :
          pc[p] = "remove" /\ op[p] = "purge" /\ dir /\ ~dir' => busy[p] = {}]_vars

\* Every call ends: nobody waits for ever for a lock, unless a start threw
\* without giving its lock back.
CallsEnd == <>[](leaked \/ \A p \in Proc : pc[p] = "idle")
=============================================================================
