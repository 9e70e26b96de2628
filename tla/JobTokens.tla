------------------------------ MODULE JobTokens ------------------------------
(***************************************************************************)
(* One single job, as the Workload Manager (WM) processes it: the single-job *)
(* branch of SubmitProcessor (core/src/submit_request.cpp), WMReal::submit,  *)
(* CancelProcessor, the Replanner, and the recovery of a submit request.     *)
(*                                                                           *)
(* Several requests for one job may be in the WM at once, run by different   *)
(* workers: the submission, resubmissions after a failure and reschedules by *)
(* the replanner.  They agree through files in the job's sandbox directory:  *)
(* "token_<n>", which a copy of the job on a worker node must delete before  *)
(* it starts the user's payload, its temporary form "token_<n>.", and        *)
(* "wm_cancel_token".                                                        *)
(*                                                                           *)
(* The Logging and Bookkeeping service (LB), ICE with its CEs and the job    *)
(* wrapper are modelled by what the WM asks of them.                          *)
(***************************************************************************)
EXTENDS Integers, FiniteSets

CONSTANTS
    Procs,          \* bound: SubmitProcessors of the job at once (numbers)
    Copies,         \* bound: copies of the job delivered to ICE (numbers)
    MaxToken,       \* bound: highest token number
    MaxReplans,     \* max_replans_count
    ShallowLimit,   \* max_shallow_count: the system's limit of shallow resubmissions
    DeepLimit,      \* max_retry_count: the same for deep ones
    Bounds          \* Bounds[r]: for a job with retry count r, what may happen
                    \* together: b[k] events of kind k, for some b in Bounds[r]

Faults == {"crash", "context", "log", "match", "deliver", "break", "zombie", "replan", "cancel"}

ASSUME TokensAssumption ==
    /\ Procs \subseteq Nat /\ Procs # {} /\ Copies \subseteq Nat
    /\ IsFiniteSet(Procs) /\ IsFiniteSet(Copies)
    /\ MaxToken \in Nat /\ MaxReplans \in Nat
    /\ ShallowLimit \in Nat /\ DeepLimit \in Nat
    /\ DOMAIN Bounds \subseteq Nat /\ DOMAIN Bounds # {}
    /\ \A r \in DOMAIN Bounds : Bounds[r] \subseteq [Faults -> Nat]

VARIABLES
    tokens,     \* token files in the sandbox: <<n, "token">> and <<n, "tmp">>
    sandbox,    \* the sandbox directory is there (not purged)
    cancel,     \* wm_cancel_token is there
    proc,       \* proc[p]: a SubmitProcessor and its SubmitState
    copy,       \* copy[c]: a copy of the job in ICE or at a CE
    rp,         \* the Replan of this job
    cancelq,    \* the cancel request
    lb,         \* LB: state of the job
    enq,        \* LB: result of the last ENQUEUED event of the WM
    lastdone,   \* LB: status code of the last DONE event
    deep,       \* LB: deep resubmissions
    shallow,    \* LB: shallow resubmissions since the last deep one
    resubs,     \* resubmissions of either kind
    retry_count,\* the job's own limit of either kind
    starts,     \* tokens taken by copies: how often the payload started
    used        \* used[k]: events of kind k so far

files == <<tokens, sandbox, cancel>>
counts == <<deep, shallow, resubs, retry_count>>
lbvars == <<lb, enq, lastdone, counts>>
vars == <<files, proc, copy, rp, cancelq, lbvars, starts, used>>

Free == [cmd |-> "none", req |-> 0, ad |-> 0, n |-> 0, pc |-> "none",
         limbo |-> FALSE, again |-> FALSE, replan |-> FALSE, deep |-> 0, shallow |-> 0]
Request(cmd, r) == [Free EXCEPT !.cmd = cmd, !.req = r, !.ad = r, !.pc = "queued"]
NoCopy == [st |-> "none", tok |-> 0, known |-> FALSE, replan |-> FALSE]

Init ==
    /\ tokens = {} /\ sandbox = TRUE /\ cancel = FALSE
    /\ \E p \in Procs :
         /\ \A q \in Procs : p <= q
         /\ proc = [q \in Procs |-> IF q = p THEN Request("jobsubmit", 0) ELSE Free]
    /\ copy = [c \in Copies |-> NoCopy]
    /\ rp = [pc |-> "idle", tok |-> <<0, "token">>]
    /\ cancelq = "none"
    /\ lb = "waiting" /\ enq = "none" /\ lastdone = "none"
    /\ deep = 0 /\ shallow = 0 /\ resubs = 0 /\ retry_count \in DOMAIN Bounds
    /\ starts = 0
    /\ used = [k \in Faults |-> 0]

\* the processors are alike, and so are the copies: the lowest free one is used
FreeProc(p) == proc[p].pc = "none" /\ \A q \in Procs : proc[q].pc = "none" => p <= q
FreeCopy(c) == copy[c].st = "none" /\ \A d \in Copies : copy[d].st = "none" => c <= d

Fault(k) ==
    /\ used' = [used EXCEPT ![k] = @ + 1]
    /\ \E b \in Bounds[retry_count] : \A j \in Faults : used'[j] <= b[j]

\* the state of the LB after an event that leads to state s; the final ones stay
After(s) == IF lb \in {"aborted", "cancelled"} THEN lb ELSE s
Logs(s) == lb' = After(s)

Replaced(a, b) == (tokens \ {a}) \cup {b}        \* ::rename(a, b) when a exists

\* Purger: the sandbox directory is removed, the tokens with it
Purge == sandbox' = FALSE /\ tokens' = {} /\ cancel' = FALSE
-----------------------------------------------------------------------------
(* SubmitProcessor::operator() and WMReal::submit *)

Goes(p, pc) == proc' = [proc EXCEPT ![p].pc = pc]

\* the event is over; the request is removed with the last reference to its state
Ends(p) == proc' = [proc EXCEPT ![p] = IF @.again
                                         THEN [@ EXCEPT !.pc = "queued", !.again = FALSE]
                                         ELSE Free]

postpone(p) == Goes(p, "queued") /\ Logs("waiting")

unrecoverable(p) == Ends(p) /\ Logs("aborted") /\ cancel' = FALSE

in_limbo ==
    \/ lb = "ready" /\ enq = "start"
    \/ lb = "done" /\ lastdone = "failed" /\ enq = "start"

\* the scan of the sandbox: the first file found gives replans_count
Scanned(p) == IF tokens = {} THEN {0} ELSE {t[1] : t \in tokens}

NoProxy(p) ==
    /\ proc[p].pc = "queued" /\ ~ sandbox
    /\ unrecoverable(p)
    /\ UNCHANGED <<tokens, sandbox, copy, rp, cancelq, enq, lastdone, counts, starts, used>>

CancelSeen(p) ==
    /\ proc[p].pc = "queued" /\ sandbox /\ cancel
    /\ Logs("cancelled") /\ Purge /\ Ends(p)
    /\ UNCHANGED <<copy, rp, cancelq, enq, lastdone, counts, starts, used>>

\* the checks, the LB's counts (jobresubmit) and the scan; a job in limbo is
\* scheduled again, and goes on
Consider(p) ==
    LET r == proc[p]
        lim == r.limbo /\ in_limbo
        first == IF r.cmd = "jobresubmit" THEN 0 ELSE r.ad
    IN  /\ r.pc = "queued" /\ sandbox /\ ~ cancel
        /\ \E n \in Scanned(p) :
             proc' = [proc EXCEPT ![p] =
                        [r EXCEPT !.limbo = lim, !.again = r.again \/ lim,
                                  !.n = n, !.ad = IF tokens = {} THEN first ELSE n,
                                  !.deep = deep, !.shallow = shallow, !.replan = FALSE,
                                  !.pc = IF r.cmd = "jobresubmit" THEN "back" ELSE "decide"]]
        /\ IF Cardinality(tokens) > 1 THEN Logs("aborted")
           ELSE IF lim THEN Logs("waiting") ELSE UNCHANGED lb
        /\ UNCHANGED <<files, copy, rp, cancelq, enq, lastdone, counts, starts, used>>

\* jobresubmit: "token_<n>" is renamed "token_<n>.", if it is still there
TakeBack(p) ==
    LET n == proc[p].n
    IN  /\ proc[p].pc = "back"
        /\ tokens' = IF <<n, "token">> \in tokens
                       THEN Replaced(<<n, "token">>, <<n, "tmp">>) ELSE tokens
        /\ Goes(p, "decide")
        /\ UNCHANGED <<sandbox, cancel, copy, rp, cancelq, lbvars, starts, used>>

Least(m, n) == IF m <= n THEN m ELSE n

check_shallow_count(r) == r.shallow < Least(retry_count, ShallowLimit)
check_deep_count_late(r) == r.deep <= Least(retry_count, DeepLimit)
check_deep_count(r) == r.deep < Least(retry_count, DeepLimit)

\* jobresubmit, "token_<n>." is there: nobody took the token
Shallow(p) ==
    LET r == proc[p]
    IN  /\ r.pc = "decide" /\ r.cmd = "jobresubmit"
        /\ <<r.n, "tmp">> \in tokens
        /\ IF ~ check_shallow_count(r)
             THEN unrecoverable(p) /\ UNCHANGED <<shallow, resubs>>
             ELSE /\ shallow' = shallow + 1 /\ resubs' = resubs + 1
                  /\ Logs("waiting") /\ Goes(p, "put") /\ UNCHANGED cancel
        /\ UNCHANGED <<tokens, sandbox, copy, rp, cancelq, enq, lastdone, deep, retry_count,
                       starts, used>>

\* jobresubmit, the token was grabbed: a new one is made
Deep(p) ==
    LET r == proc[p]
    IN  /\ r.pc = "decide" /\ r.cmd = "jobresubmit"
        /\ <<r.n, "tmp">> \notin tokens
        /\ IF ~ check_deep_count(r)
             THEN unrecoverable(p) /\ UNCHANGED <<tokens, deep, shallow, resubs>>
             ELSE /\ deep' = deep + 1 /\ shallow' = 0 /\ resubs' = resubs + 1
                  /\ Logs("waiting")
                  /\ IF sandbox
                       THEN tokens' = tokens \cup {<<r.n, "tmp">>} /\ Goes(p, "put")
                       ELSE UNCHANGED tokens /\ Goes(p, "queued")
                  /\ UNCHANGED cancel
        /\ UNCHANGED <<sandbox, copy, rp, cancelq, enq, lastdone, retry_count, starts, used>>

\* jobsubmit: a reschedule, or a first submission.  An outdated reschedule would be
\* dropped, but r.n > r.ad never holds: the scan writes its count to the ad.
Submit(p) ==
    LET r == proc[p]
    IN  /\ r.pc = "decide" /\ r.cmd = "jobsubmit"
        /\ \/ /\ r.ad > 0 /\ r.n >= r.ad
              /\ IF r.n > r.ad THEN Ends(p)
                 ELSE proc' = [proc EXCEPT ![p].pc = "match", ![p].replan = TRUE]
              /\ UNCHANGED <<tokens, lb>>
           \/ /\ r.ad = 0 \/ r.n < r.ad
              /\ IF sandbox
                   THEN /\ tokens' = tokens \cup {<<r.n, "tmp">>}
                        /\ Goes(p, "put") /\ UNCHANGED lb
                   ELSE postpone(p) /\ UNCHANGED tokens
        /\ UNCHANGED <<sandbox, cancel, copy, rp, cancelq, enq, lastdone, counts, starts, used>>

\* "token_<n>." is renamed "token_<n>"; it must be there (CannotCreateToken)
PutBack(p) ==
    LET n == proc[p].n
    IN  /\ proc[p].pc = "put"
        /\ IF <<n, "tmp">> \in tokens
             THEN /\ tokens' = Replaced(<<n, "tmp">>, <<n, "token">>)
                  /\ Goes(p, "match") /\ UNCHANGED lb
             ELSE postpone(p) /\ UNCHANGED tokens
        /\ UNCHANGED <<sandbox, cancel, copy, rp, cancelq, enq, lastdone, counts, starts, used>>

\* Plan: a HelperError postpones, another exception is final
NoMatch(p) ==
    /\ proc[p].pc = "match" /\ Fault("match")
    /\ \/ postpone(p) /\ UNCHANGED cancel
       \/ unrecoverable(p)
    /\ UNCHANGED <<tokens, sandbox, copy, rp, cancelq, enq, lastdone, counts, starts>>

Match(p) ==
    /\ proc[p].pc = "match"
    /\ Logs("ready") /\ enq' = "start" /\ Goes(p, "check")
    /\ UNCHANGED <<files, copy, rp, cancelq, lastdone, counts, starts, used>>

\* "right before passing on to the next component in the submission chain"
CheckCancel(p) ==
    /\ proc[p].pc = "check"
    /\ IF cancel THEN Logs("cancelled") /\ Purge /\ Ends(p)
       ELSE Goes(p, "deliver") /\ UNCHANGED <<files, lb>>
    /\ UNCHANGED <<copy, rp, cancelq, enq, lastdone, counts, starts, used>>

Deliver(p) ==
    /\ proc[p].pc = "deliver"
    /\ \E c \in Copies :
         /\ FreeCopy(c)
         /\ copy' = [copy EXCEPT ![c] = [st |-> "sent", tok |-> proc[p].ad, known |-> TRUE,
                                         replan |-> proc[p].replan]]
    /\ Goes(p, "log")
    /\ UNCHANGED <<files, rp, cancelq, lbvars, starts, used>>

DeliverFails(p) ==
    /\ proc[p].pc = "deliver" /\ Fault("deliver")
    /\ enq' = "fail" /\ unrecoverable(p)
    /\ UNCHANGED <<tokens, sandbox, copy, rp, cancelq, lastdone, counts, starts>>

LogOk_kept(p) ==
    /\ proc[p].pc = "log"
    /\ enq' = "ok" /\ Goes(p, "queued")
    /\ UNCHANGED <<files, copy, rp, cancelq, lb, lastdone, counts, starts, used>>

LogOk(p) ==
    /\ proc[p].pc = "log"
    /\ enq' = "ok" /\ Ends(p)
    /\ UNCHANGED <<files, copy, rp, cancelq, lb, lastdone, counts, starts, used>>
-----------------------------------------------------------------------------
(* ICE, the CE and the job wrapper *)

\* IceCommandReschedule drops a request whose token is missing, and forgets the
\* copy it replaces
Accept(c) ==
    /\ copy[c].st = "sent"
    /\ IF copy[c].replan /\ <<copy[c].tok, "token">> \notin tokens
         THEN copy' = [copy EXCEPT ![c].st = "over"] /\ UNCHANGED lb
         ELSE /\ copy' = [d \in Copies |->
                            IF d = c THEN [copy[c] EXCEPT !.st = "accepted"]
                            ELSE IF copy[c].replan /\ copy[d].st # "sent"
                              THEN [copy[d] EXCEPT !.known = FALSE]
                            ELSE copy[d]]
              /\ Logs("scheduled")
    /\ UNCHANGED <<files, proc, rp, cancelq, enq, lastdone, counts, starts, used>>

Start_without_token(c) ==
    /\ copy[c].st = "accepted"
    /\ tokens' = tokens \ {<<copy[c].tok, "token">>} /\ starts' = starts + 1
    /\ copy' = [copy EXCEPT ![c].st = "running"] /\ Logs("running")
    /\ UNCHANGED <<sandbox, cancel, proc, rp, cancelq, enq, lastdone, counts, used>>

\* the wrapper starts the payload only when it could delete the token
Start(c) ==
    LET t == <<copy[c].tok, "token">>
    IN  /\ copy[c].st = "accepted"
        /\ IF t \in tokens
             THEN /\ tokens' = tokens \ {t} /\ starts' = starts + 1
                  /\ copy' = [copy EXCEPT ![c].st = "running"] /\ Logs("running")
             ELSE /\ copy' = [copy EXCEPT ![c].st = "failed"]
                  /\ UNCHANGED <<tokens, starts, lb>>
        /\ UNCHANGED <<sandbox, cancel, proc, rp, cancelq, enq, lastdone, counts, used>>

Break(c) ==
    /\ copy[c].st \in {"accepted", "running"} /\ Fault("break")
    /\ copy' = [copy EXCEPT ![c].st = "failed"]
    /\ UNCHANGED <<files, proc, rp, cancelq, lbvars, starts>>

EndOk(c) ==
    /\ copy[c].st = "running"
    /\ copy' = [copy EXCEPT ![c].st = "over"]
    /\ Logs("done") /\ lastdone' = "ok"
    /\ UNCHANGED <<files, proc, rp, cancelq, enq, counts, starts, used>>

\* IceUtils::ignore_job: the token is gone and there is another one
ignore_job(c) ==
    <<copy[c].tok, "token">> \notin tokens /\ \E t \in tokens : t[2] = "token"

Resubmission(c) ==
    /\ Logs("done") /\ lastdone' = "failed"
    /\ \E p \in Procs : /\ FreeProc(p)
                        /\ proc' = [proc EXCEPT ![p] = Request("jobresubmit", 0)]

Report(c) ==
    /\ copy[c].st = "failed"
    /\ copy' = [copy EXCEPT ![c].st = "over", ![c].known = FALSE]
    /\ IF copy[c].known /\ ~ ignore_job(c) THEN Resubmission(c)
       ELSE UNCHANGED <<proc, lb, lastdone>>
    /\ UNCHANGED <<files, rp, cancelq, enq, counts, starts, used>>

\* the copy is given up while it may still start
Zombie(c) ==
    /\ copy[c].st = "accepted" /\ copy[c].known /\ ~ ignore_job(c) /\ Fault("zombie")
    /\ copy' = [copy EXCEPT ![c].known = FALSE]
    /\ Resubmission(c)
    /\ UNCHANGED <<files, rp, cancelq, enq, counts, starts>>
-----------------------------------------------------------------------------
(* Replanner *)

List ==
    /\ rp.pc = "idle" /\ lb = "scheduled" /\ Fault("replan")
    /\ rp' = [rp EXCEPT !.pc = "scan"]
    /\ UNCHANGED <<files, proc, copy, cancelq, lbvars, starts>>

ScanToken ==
    /\ rp.pc = "scan"
    /\ IF tokens = {} THEN rp' = [rp EXCEPT !.pc = "idle"]
       ELSE \E t \in tokens : rp' = [pc |-> "rename", tok |-> t]
    /\ IF Cardinality(tokens) > 1 THEN Logs("aborted") ELSE UNCHANGED lb
    /\ UNCHANGED <<files, proc, copy, cancelq, enq, lastdone, counts, starts, used>>

\* token_<n> is renamed token_<n+1>; beyond max_replans_count, unlink() and abort
RenameToken ==
    LET t == rp.tok
        u == <<t[1] + 1, "token">>
    IN  /\ rp.pc = "rename" /\ t[1] < MaxToken
        /\ IF t \notin tokens
             THEN rp' = [rp EXCEPT !.pc = "idle"] /\ UNCHANGED <<tokens, lb>>
             ELSE /\ rp' = [pc |-> "log", tok |-> u]
                  /\ IF t[1] >= MaxReplans
                       THEN tokens' = Replaced(t, u) \ {t} /\ Logs("aborted")
                       ELSE tokens' = Replaced(t, u) /\ UNCHANGED lb
        /\ UNCHANGED <<sandbox, cancel, proc, copy, cancelq, enq, lastdone, counts, starts, used>>

LogReplan ==
    /\ rp.pc = "log"
    /\ rp' = [rp EXCEPT !.pc = "deliver"]
    /\ \/ /\ shallow' = shallow + 1 /\ resubs' = resubs + 1
          /\ Logs("waiting") /\ enq' = "start" /\ UNCHANGED used
       \/ Fault("log") /\ UNCHANGED <<shallow, resubs, lb, enq>>
    /\ UNCHANGED <<files, proc, copy, cancelq, lastdone, deep, retry_count, starts>>

DeliverReplan ==
    /\ rp.pc = "deliver"
    /\ \E p \in Procs : /\ FreeProc(p)
                        /\ proc' = [proc EXCEPT ![p] = Request("jobsubmit", rp.tok[1])]
    /\ rp' = [rp EXCEPT !.pc = "idle"]
    /\ enq' = "ok"
    /\ UNCHANGED <<files, copy, cancelq, lb, lastdone, counts, starts, used>>
-----------------------------------------------------------------------------
(* Cancellation *)

UserCancel ==
    /\ cancelq = "none" /\ Fault("cancel")
    /\ \/ lb \in {"waiting", "ready", "scheduled", "running"}
       \/ lb = "done" /\ lastdone = "failed"
    /\ cancelq' = "input"
    /\ UNCHANGED <<files, proc, copy, rp, lbvars, starts>>

\* Dispatch makes a CancelState, which creates the cancel token
CancelState ==
    /\ cancelq = "input"
    /\ cancelq' = "queued" /\ cancel' = sandbox
    /\ UNCHANGED <<tokens, sandbox, proc, copy, rp, lbvars, starts, used>>

Live(c) == copy[c].st \in {"sent", "accepted", "running"}

\* WMReal::cancel: ICE ends what it knows; a failed delivery is not noticed
PassOn ==
    \/ /\ copy' = [c \in Copies |-> IF Live(c) THEN [copy[c] EXCEPT !.st = "over"] ELSE copy[c]]
       /\ UNCHANGED used
    \/ Fault("deliver") /\ UNCHANGED copy

\* CancelProcessor::operator(); the events it asks the LB for hold no DONE event.
\* Without an LB context the request is ignored.
CancelProcessor ==
    /\ cancelq = "queued" /\ cancelq' = "done"
    /\ \/ Fault("context") /\ UNCHANGED <<files, copy, lb>>
       \/ ~ cancel /\ UNCHANGED <<files, copy, lb, used>>
       \/ cancel /\ enq = "ok" /\ lb # "aborted" /\ Logs("cancelled") /\ PassOn /\ UNCHANGED files
       \/ cancel /\ enq = "ok" /\ lb = "aborted" /\ UNCHANGED <<files, copy, lb, used>>
       \/ cancel /\ enq # "ok" /\ Logs("aborted") /\ Purge /\ UNCHANGED <<copy, used>>
    /\ UNCHANGED <<proc, rp, enq, lastdone, counts, starts>>
-----------------------------------------------------------------------------
(* Crash, start script and request_recovery *)

Recovered_dropped(r) == Free

\* A submission whose job has failed since is left alone; the others start again,
\* in limbo if the job may be on its way to the CE.
Recovered(r) ==
    IF r.pc = "none" \/ (r.cmd = "jobsubmit" /\ lastdone = "failed") THEN Free
    ELSE [Request(r.cmd, r.req) EXCEPT !.limbo = lb # "waiting" /\ in_limbo]

Crash ==
    /\ Fault("crash")
    /\ proc' = [p \in Procs |-> Recovered(proc[p])]
    /\ rp' = [rp EXCEPT !.pc = "idle"]
    /\ cancelq' = IF cancelq = "queued" THEN "input" ELSE cancelq
    /\ UNCHANGED <<files, copy, lbvars, starts>>
-----------------------------------------------------------------------------
Idle == /\ \A p \in Procs : proc[p].pc = "none"
        /\ rp.pc = "idle" /\ cancelq \in {"none", "done"}
        /\ \A c \in Copies : copy[c].st \in {"none", "over"}
Over == Idle /\ UNCHANGED vars

ProcStep(p) == \/ NoProxy(p) \/ CancelSeen(p) \/ Consider(p) \/ TakeBack(p) \/ Shallow(p)
               \/ Deep(p) \/ Submit(p) \/ PutBack(p) \/ Match(p) \/ CheckCancel(p)
               \/ Deliver(p) \/ LogOk(p)
CopyStep(c) == Accept(c) \/ Start(c) \/ EndOk(c) \/ Report(c)
ReplanStep == ScanToken \/ RenameToken \/ LogReplan \/ DeliverReplan
CancelStep == CancelState \/ CancelProcessor

Next ==
    \/ \E p \in Procs : ProcStep(p) \/ NoMatch(p) \/ DeliverFails(p)
    \/ \E c \in Copies : CopyStep(c) \/ Break(c) \/ Zombie(c)
    \/ List \/ ReplanStep
    \/ UserCancel \/ CancelStep
    \/ Crash
    \/ Over

Spec == Init /\ [][Next]_vars

(* The workers run the events, ICE and the CEs bring every copy to an end.     *)
Fairness == /\ \A p \in Procs : WF_vars(ProcStep(p))
            /\ \A c \in Copies : WF_vars(CopyStep(c))
            /\ WF_vars(ReplanStep) /\ WF_vars(CancelStep)
FairSpec == Spec /\ Fairness
-----------------------------------------------------------------------------
(* Properties *)

States == {"waiting", "ready", "scheduled", "running", "done", "aborted", "cancelled"}

Tokens == (0 .. MaxToken) \X {"token", "tmp"}
ProcType ==
    [cmd : {"none", "jobsubmit", "jobresubmit"}, req : 0 .. MaxToken, ad : 0 .. MaxToken,
     n : 0 .. MaxToken, limbo : BOOLEAN, again : BOOLEAN, replan : BOOLEAN,
     deep : Nat, shallow : Nat,
     pc : {"none", "queued", "back", "decide", "put", "match", "check", "deliver", "log"}]
CopyType ==
    [st : {"none", "sent", "accepted", "running", "failed", "over"}, tok : 0 .. MaxToken,
     known : BOOLEAN, replan : BOOLEAN]

\* Type invariant of the sandbox, the processors, the copies and the LB.
TypeOK ==
    /\ tokens \subseteq Tokens /\ sandbox \in BOOLEAN /\ cancel \in BOOLEAN
    /\ proc \in [Procs -> ProcType] /\ copy \in [Copies -> CopyType]
    /\ rp \in [pc : {"idle", "scan", "rename", "log", "deliver"}, tok : Tokens]
    /\ cancelq \in {"none", "input", "queued", "done"}
    /\ lb \in States /\ enq \in {"none", "start", "ok", "fail"}
    /\ lastdone \in {"none", "ok", "failed"}
    /\ deep \in Nat /\ shallow \in Nat /\ resubs \in Nat /\ starts \in Nat
    /\ retry_count \in DOMAIN Bounds /\ used \in [Faults -> Nat]

\* One request for the job at a time has a copy to make.  After a crash there may be
\* two, and also when a copy fails while the replanner reschedules the job, or when
\* the LB does not know of a reschedule and the replanner makes another.
Separate == /\ used["crash"] = 0
            /\ \/ used["replan"] = 0
               \/ /\ used["break"] = 0 /\ used["zombie"] = 0
                  /\ used["log"] = 0 \/ used["replan"] <= 1

(* However resubmissions, postponed events and copies that were given up         *)
(* interleave, or a reschedule and a cancellation do, the user's payload starts   *)
(* at most once more than the deep resubmissions the LB knows of: a token is made  *)
(* only by the submission and by deep ones.                                        *)
PayloadsAccounted == Separate => starts <= deep + 1

(* "the actual retry limit for the deep count is max(0, min(job_retry_count,       *)
(* max_retry_count)) and similarly for the shallow count": the counts are read     *)
(* before the token is examined, and hold when the resubmission is logged.  The     *)
(* replanner's reschedules, which are logged as shallow ones, come on top.          *)
RetriesBounded ==
    Separate => /\ deep <= Least(retry_count, DeepLimit)
                /\ shallow <= Least(retry_count, ShallowLimit) + used["replan"]

Delivered == {c \in Copies : copy[c].st # "none"}

(* The limbo of the recovery is there "to avoid double submission": every copy   *)
(* given to ICE is the first, or one of a resubmission or of a reschedule.         *)
NoDoubleSubmission == Cardinality(Delivered) <= 1 + resubs + used["log"]

(* Unless the WM crashed, every copy given to ICE is accounted for, however        *)
(* postponed events, failed deliveries, resubmissions and replans interleave.      *)
SubmissionsAccounted == used["crash"] = 0 => NoDoubleSubmission

(* "no race condition if this check is missed, the cancel command will be passed  *)
(* on": once the cancel request and all others have been processed, no copy of    *)
(* the job is left alive.                                                          *)
CancelPassedOn ==
    cancelq = "done" /\ (\A p \in Procs : proc[p].pc = "none") => \A c \in Copies : ~ Live(c)

(* The job comes to an end: its last copy ended well, or it is aborted or cancelled. *)
JobEnds == <>(Idle /\ (lb \in {"aborted", "cancelled"} \/ lastdone = "ok"))
=============================================================================
