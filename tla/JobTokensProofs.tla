--------------------------- MODULE JobTokensProofs ---------------------------
(***************************************************************************)
(* Proofs about JobTokens: the types, the kinds of steps there are, and what *)
(* a job that is never rescheduled keeps.  JobTokensTheorems builds on them. *)
(***************************************************************************)
EXTENDS JobTokens, TLAPS

PC == {"none", "queued", "back", "decide", "put", "match", "check", "deliver", "log"}

\* The limits are numbers, and so are the names of processors and copies.
LEMMA Limits ==
    /\ Procs \subseteq Nat /\ Procs # {} /\ Copies \subseteq Nat
    /\ MaxToken \in Nat /\ MaxReplans \in Nat /\ ShallowLimit \in Nat /\ DeepLimit \in Nat
    /\ DOMAIN Bounds \subseteq Nat
  BY TokensAssumption

\* The processor p of the job moves to another place, and nothing else of the
\* processors changes.
LEMMA GoesOn ==
    ASSUME TypeOK, NEW p \in Procs, NEW x \in PC, Goes(p, x)
    PROVE  /\ proc' \in [Procs -> ProcType]
           /\ proc'[p] = [proc[p] EXCEPT !.pc = x]
           /\ \A q \in Procs : q # p => proc'[q] = proc[q]
BY DEF TypeOK, ProcType, Goes, PC

\* Free and a new request are processors, and a new copy is one.
LEMMA Records ==
    /\ Free \in ProcType
    /\ \A cmd \in {"none", "jobsubmit", "jobresubmit"}, r \in 0 .. MaxToken :
         Request(cmd, r) \in ProcType
    /\ NoCopy \in CopyType
<1>1. 0 \in 0 .. MaxToken /\ 0 \in Nat
  BY Limits
<1>2. Free \in ProcType
  BY <1>1 DEF Free, ProcType
<1>3. ASSUME NEW cmd \in {"none", "jobsubmit", "jobresubmit"}, NEW r \in 0 .. MaxToken
      PROVE  Request(cmd, r) \in ProcType
  BY <1>2, Zenon DEF Request, ProcType
<1>5. NoCopy \in CopyType
  BY <1>1 DEF NoCopy, CopyType
<1>6. QED
  BY <1>2, <1>3, <1>5

\* What SubmitProcessor has in hand after its checks and its scan of the sandbox.
LEMMA Considered ==
    ASSUME TypeOK, NEW p \in Procs, Consider(p)
    PROVE  /\ proc' \in [Procs -> ProcType]
           /\ \A q \in Procs : q # p => proc'[q] = proc[q]
           /\ proc'[p].cmd = proc[p].cmd /\ proc'[p].req = proc[p].req
           /\ proc'[p].pc = IF proc[p].cmd = "jobresubmit" THEN "back" ELSE "decide"
           /\ proc'[p].n \in Scanned(p) /\ proc'[p].replan = FALSE
           /\ tokens # {} => proc'[p].ad = proc'[p].n
           /\ tokens = {} => proc'[p].ad = IF proc[p].cmd = "jobresubmit" THEN 0 ELSE proc[p].ad
           /\ proc'[p].deep = deep /\ proc'[p].shallow = shallow
           /\ ~ proc[p].limbo /\ ~ proc[p].again => ~ proc'[p].limbo /\ ~ proc'[p].again
<1> DEFINE r == proc[p]
           lim == r.limbo /\ in_limbo
           first == IF r.cmd = "jobresubmit" THEN 0 ELSE r.ad
           next == IF r.cmd = "jobresubmit" THEN "back" ELSE "decide"
           ad(n) == IF tokens = {} THEN first ELSE n
           Seen(n) == [r EXCEPT !.limbo = lim, !.again = r.again \/ lim, !.n = n, !.ad = ad(n),
                                 !.deep = deep, !.shallow = shallow, !.replan = FALSE, !.pc = next]
<1>1. r \in ProcType /\ first \in 0 .. MaxToken /\ next \in {"back", "decide"} /\ lim \in BOOLEAN
  BY Limits DEF TypeOK, ProcType
<1>2. Scanned(p) \subseteq 0 .. MaxToken
  BY Limits DEF Scanned, TypeOK, Tokens
<1>3. PICK n \in Scanned(p) : proc' = [proc EXCEPT ![p] = Seen(n)]
  BY Zenon DEF Consider
<1>4. ad(n) \in 0 .. MaxToken
  BY <1>1, <1>2
<1> HIDE DEF lim, first, next, ad
<1>5. Seen(n) \in ProcType
  BY <1>1, <1>2, <1>4, Zenon DEF ProcType, TypeOK
<1>6. proc'[p] = Seen(n) /\ \A q \in Procs : q # p => proc'[q] = proc[q]
  BY <1>3 DEF TypeOK
<1>7. proc' \in [Procs -> ProcType]
  BY <1>3, <1>5 DEF TypeOK
<1>8. /\ proc'[p].cmd = r.cmd /\ proc'[p].req = r.req /\ proc'[p].pc = next
      /\ proc'[p].n = n /\ proc'[p].ad = ad(n) /\ proc'[p].replan = FALSE
      /\ proc'[p].deep = deep /\ proc'[p].shallow = shallow
      /\ proc'[p].limbo = lim /\ proc'[p].again = (r.again \/ lim)
  BY <1>1, <1>6 DEF ProcType
<1>9. QED
  BY <1>6, <1>7, <1>8, Zenon DEF lim, first, next, ad

\* A processor that ends leaves its place free, or starts over in limbo.
LEMMA EndsThere ==
    ASSUME TypeOK, NEW p \in Procs, Ends(p)
    PROVE  /\ proc' \in [Procs -> ProcType]
           /\ ~ proc[p].again => proc'[p] = Free
           /\ \A q \in Procs : q # p => proc'[q] = proc[q]
<1>1. proc[p] \in ProcType
  BY DEF TypeOK
<1>2. [proc[p] EXCEPT !.pc = "queued", !.again = FALSE] \in ProcType
  BY <1>1, Zenon DEF ProcType
<1>3. QED
  BY <1>1, <1>2, Records DEF TypeOK, Ends

\* An event of kind k is counted, and the others are not.
LEMMA FaultCounts ==
    ASSUME TypeOK, NEW k \in Faults, Fault(k)
    PROVE  /\ used' \in [Faults -> Nat] /\ used'[k] = used[k] + 1
           /\ \A j \in Faults : j # k => used'[j] = used[j]
BY DEF TypeOK, Fault

\* The state of the LB stays a state of the LB.
LEMMA LBStates ==
    ASSUME TypeOK, NEW s \in States, Logs(s)
    PROVE  lb' \in States /\ (lb' = lb \/ lb' = s)
BY DEF TypeOK, Logs, After

\* The token files stay token files when one is renamed.
LEMMA Renamed ==
    ASSUME TypeOK, NEW a \in Tokens, NEW b \in Tokens
    PROVE  Replaced(a, b) \subseteq Tokens
BY DEF TypeOK, Replaced
-----------------------------------------------------------------------------
\* The steps of a processor keep the types.
LEMMA ProcTypes ==
    ASSUME TypeOK, NEW p \in Procs, ProcStep(p) \/ NoMatch(p) \/ DeliverFails(p)
    PROVE  TypeOK'
<1> DEFINE r == proc[p]
<1>0. r \in ProcType /\ <<r.n, "tmp">> \in Tokens /\ <<r.n, "token">> \in Tokens
  BY DEF TypeOK, ProcType, Tokens
<1> {"waiting", "ready", "aborted", "cancelled"} \subseteq States
  BY DEF States
<1> {"queued", "decide", "put", "match", "check", "deliver"} \subseteq PC
  BY DEF PC
<1>e. unrecoverable(p) => proc' \in [Procs -> ProcType] /\ lb' \in States /\ cancel' \in BOOLEAN
  BY EndsThere, LBStates, Zenon DEF unrecoverable
<1>p. postpone(p) => proc' \in [Procs -> ProcType] /\ lb' \in States
  BY GoesOn, LBStates, Zenon DEF postpone
<1>f. \A k \in Faults : Fault(k) => used' \in [Faults -> Nat]
  BY FaultCounts
<1>u. Purge => tokens' \subseteq Tokens /\ sandbox' \in BOOLEAN /\ cancel' \in BOOLEAN
  BY Zenon DEF Purge
<1>1. CASE NoProxy(p)
  BY <1>1, <1>e DEF NoProxy, TypeOK, counts
<1>2. CASE CancelSeen(p)
  BY <1>2, <1>u, EndsThere, LBStates DEF CancelSeen, TypeOK, counts
<1>3. CASE Consider(p)
  <2>3. proc' \in [Procs -> ProcType]
    BY <1>3, Considered, Zenon
  <2>4. lb' \in States
    BY <1>3, LBStates DEF Consider, TypeOK
  <2>5. QED
    BY <1>3, <2>3, <2>4 DEF Consider, TypeOK, counts, files
<1>4. CASE TakeBack(p)
  <2>1. tokens' \subseteq Tokens
    BY <1>0, <1>4, Renamed DEF TakeBack, TypeOK
  <2>2. QED
    BY <1>4, <2>1, GoesOn, Zenon DEF TakeBack, TypeOK, counts, lbvars
<1>5. CASE Shallow(p)
  <2>1. proc' \in [Procs -> ProcType] /\ lb' \in States /\ cancel' \in BOOLEAN
    BY <1>5, <1>e, GoesOn, LBStates, Zenon DEF Shallow, TypeOK
  <2>2. shallow' \in Nat /\ resubs' \in Nat
    BY <1>5 DEF Shallow, TypeOK
  <2>3. QED
    BY <1>5, <2>1, <2>2 DEF Shallow, TypeOK
<1>6. CASE Deep(p)
  <2>1. proc' \in [Procs -> ProcType] /\ lb' \in States /\ cancel' \in BOOLEAN
    BY <1>6, <1>e, GoesOn, LBStates, Zenon DEF Deep, TypeOK
  <2>2. deep' \in Nat /\ shallow' \in Nat /\ resubs' \in Nat
    BY <1>6 DEF Deep, TypeOK
  <2>3. tokens' \subseteq Tokens
    BY <1>6, <1>0 DEF Deep, TypeOK
  <2>4. QED
    BY <1>6, <2>1, <2>2, <2>3 DEF Deep, TypeOK
<1>7. CASE Submit(p)
  <2>1. proc' \in [Procs -> ProcType] /\ lb' \in States
    <3>1. CASE Ends(p) /\ UNCHANGED lb
      BY <3>1, EndsThere DEF TypeOK
    <3>2. CASE proc' = [proc EXCEPT ![p].pc = "match", ![p].replan = TRUE] /\ UNCHANGED lb
      BY <1>0, <3>2, Zenon DEF TypeOK, ProcType
    <3>3. CASE Goes(p, "put") /\ UNCHANGED lb
      BY <3>3, GoesOn, Zenon DEF TypeOK
    <3>4. QED
      BY <1>7, <1>p, <3>1, <3>2, <3>3 DEF Submit
  <2>2. tokens' \subseteq Tokens
    BY <1>7, <1>0 DEF Submit, TypeOK
  <2>3. QED
    BY <1>7, <2>1, <2>2 DEF Submit, TypeOK, counts
<1>8. CASE PutBack(p)
  <2>1. tokens' \subseteq Tokens
    BY <1>0, <1>8, Renamed DEF PutBack, TypeOK
  <2>2. proc' \in [Procs -> ProcType] /\ lb' \in States
    BY <1>8, <1>p, GoesOn, Zenon DEF PutBack, TypeOK
  <2>3. QED
    BY <1>8, <2>1, <2>2 DEF PutBack, TypeOK, counts
<1>9. CASE NoMatch(p)
  BY <1>9, <1>p, <1>e, <1>f DEF NoMatch, TypeOK, counts, Faults
<1>10. CASE Match(p)
  BY <1>10, GoesOn, LBStates, Zenon DEF Match, TypeOK, counts, files
<1>11. CASE CheckCancel(p)
  <2>1. proc' \in [Procs -> ProcType] /\ lb' \in States
    BY <1>11, EndsThere, GoesOn, LBStates, Zenon DEF CheckCancel, TypeOK
  <2>2. QED
    BY <1>11, <2>1, <1>u DEF CheckCancel, TypeOK, counts, files
<1>12. CASE Deliver(p)
  <2>1. copy' \in [Copies -> CopyType]
    BY <1>0, <1>12 DEF Deliver, TypeOK, CopyType, ProcType
  <2>2. proc' \in [Procs -> ProcType]
    BY <1>12, GoesOn, Zenon DEF Deliver, PC
  <2>3. QED
    BY <1>12, <2>1, <2>2 DEF Deliver, TypeOK, counts, files, lbvars
<1>13. CASE DeliverFails(p)
  BY <1>13, <1>e, <1>f DEF DeliverFails, TypeOK, counts, Faults
<1>14. CASE LogOk(p)
  BY <1>14, EndsThere DEF LogOk, TypeOK, counts, files
<1>15. QED
  BY <1>1, <1>2, <1>3, <1>4, <1>5, <1>6, <1>7, <1>8, <1>9, <1>10, <1>11, <1>12, <1>13, <1>14
     DEF ProcStep

\* A copy that fails for good asks the WM for a resubmission, in a free place.
LEMMA Asked ==
    ASSUME TypeOK, NEW c \in Copies, Resubmission(c)
    PROVE  /\ proc' \in [Procs -> ProcType]
           /\ \E p \in Procs : /\ proc[p].pc = "none" /\ proc'[p] = Request("jobresubmit", 0)
                               /\ \A q \in Procs : q # p => proc'[q] = proc[q]
<1>1. Request("jobresubmit", 0) \in ProcType
  BY Records, TokensAssumption
<1>2. QED
  BY <1>1 DEF TypeOK, Resubmission, FreeProc

\* The steps of a copy, at ICE or at a CE, keep the types.
LEMMA CopyTypes ==
    ASSUME TypeOK, NEW c \in Copies, CopyStep(c) \/ Break(c) \/ Zombie(c)
    PROVE  TypeOK'
<1>0. copy[c] \in CopyType
  BY DEF TypeOK
<1> {"scheduled", "running", "done"} \subseteq States
  BY DEF States
<1>f. \A k \in Faults : Fault(k) => used' \in [Faults -> Nat]
  BY FaultCounts
<1>s. Resubmission(c) => lb' \in States /\ lastdone' = "failed" /\ proc' \in [Procs -> ProcType]
  BY Asked, LBStates, Zenon DEF Resubmission
<1>1. CASE Accept(c)
  <2>1. copy' \in [Copies -> CopyType]
    <3>1. CASE copy' = [copy EXCEPT ![c].st = "over"]
      BY <3>1, <1>0 DEF TypeOK, CopyType
    <3>2. ASSUME NEW d \in Copies
          PROVE  /\ [copy[d] EXCEPT !.st = "accepted"] \in CopyType
                 /\ [copy[d] EXCEPT !.known = FALSE] \in CopyType /\ copy[d] \in CopyType
      BY Zenon DEF TypeOK, CopyType
    <3>3. QED
      BY <1>1, <3>1, <3>2, Zenon DEF Accept
  <2>2. QED
    BY <1>1, <2>1, LBStates DEF Accept, TypeOK, counts, files
<1>2. CASE Start(c)
  <2>1. copy' \in [Copies -> CopyType] /\ starts' \in Nat /\ tokens' \subseteq Tokens
    BY <1>2 DEF Start, TypeOK, CopyType
  <2>2. lb' \in States
    BY <1>2, LBStates DEF Start, TypeOK
  <2>3. QED
    BY <1>2, <2>1, <2>2 DEF Start, TypeOK, counts
<1>3. CASE EndOk(c)
  <2>1. copy' \in [Copies -> CopyType]
    BY <1>3 DEF EndOk, TypeOK, CopyType
  <2>2. QED
    BY <1>3, <2>1, LBStates DEF EndOk, TypeOK, counts, files
<1>4. CASE Report(c)
  <2>1. copy' \in [Copies -> CopyType]
    <3>1. [copy[c] EXCEPT !.st = "over", !.known = FALSE] \in CopyType
      BY <1>0, Zenon DEF CopyType
    <3>2. copy' = [copy EXCEPT ![c] = [copy[c] EXCEPT !.st = "over", !.known = FALSE]]
      BY <1>4, Zenon DEF Report, TypeOK
    <3>3. QED
      BY <3>1, <3>2 DEF TypeOK
  <2>2. QED
    BY <1>4, <2>1, <1>s DEF Report, TypeOK, counts, files
<1>5. CASE Break(c)
  <2>1. copy' \in [Copies -> CopyType]
    BY <1>5 DEF Break, TypeOK, CopyType
  <2>2. QED
    BY <1>5, <2>1, <1>f DEF Break, TypeOK, counts, files, lbvars, Faults
<1>6. CASE Zombie(c)
  <2>1. copy' \in [Copies -> CopyType]
    BY <1>6, Zenon DEF Zombie, TypeOK, CopyType
  <2>2. QED
    BY <1>6, <2>1, <1>f, <1>s DEF Zombie, TypeOK, counts, files, Faults
<1>7. QED
  BY <1>1, <1>2, <1>3, <1>4, <1>5, <1>6 DEF CopyStep

\* A reschedule is given to the WM as a submission, in a free place.
LEMMA Rescheduled ==
    ASSUME TypeOK, DeliverReplan
    PROVE  /\ proc' \in [Procs -> ProcType] /\ rp' = [rp EXCEPT !.pc = "idle"]
           /\ \E p \in Procs : /\ proc[p].pc = "none"
                               /\ proc'[p] = Request("jobsubmit", rp.tok[1])
                               /\ \A q \in Procs : q # p => proc'[q] = proc[q]
<1>1. rp.tok[1] \in 0 .. MaxToken
  BY DEF TypeOK, Tokens
<1>2. Request("jobsubmit", rp.tok[1]) \in ProcType
  BY <1>1, Records
<1>3. QED
  BY <1>2 DEF TypeOK, DeliverReplan, FreeProc

\* The steps of the replanner keep the types.
LEMMA ReplanTypes ==
    ASSUME TypeOK, List \/ ReplanStep
    PROVE  TypeOK'
<1> {"aborted", "waiting"} \subseteq States
  BY DEF States
<1>f. \A k \in Faults : Fault(k) => used' \in [Faults -> Nat]
  BY FaultCounts
<1> DEFINE RP == [pc : {"idle", "scan", "rename", "log", "deliver"}, tok : Tokens]
<1>1. CASE List
  <2>1. rp' \in RP
    BY <1>1 DEF List, TypeOK
  <2>2. QED
    BY <1>1, <2>1, <1>f DEF List, TypeOK, files, lbvars, counts, Faults
<1>2. CASE ScanToken
  <2>1. rp' \in RP
    BY <1>2 DEF ScanToken, TypeOK
  <2>2. lb' \in States
    BY <1>2, LBStates DEF ScanToken, TypeOK
  <2>3. QED
    BY <1>2, <2>1, <2>2 DEF ScanToken, TypeOK, files, counts
<1>3. CASE RenameToken
  <2>1. rp.tok[1] < MaxToken
    BY <1>3 DEF RenameToken
  <2>2. <<rp.tok[1] + 1, "token">> \in Tokens
    BY <2>1, Limits DEF TypeOK, Tokens
  <2>3. rp' \in RP /\ tokens' \subseteq Tokens
    BY <1>3, <2>2 DEF RenameToken, TypeOK, Replaced
  <2>4. lb' \in States
    BY <1>3, LBStates DEF RenameToken, TypeOK
  <2>5. QED
    BY <1>3, <2>3, <2>4 DEF RenameToken, TypeOK, counts
<1>4. CASE LogReplan
  <2>1. rp' \in RP
    BY <1>4 DEF LogReplan, TypeOK
  <2>2. lb' \in States /\ enq' \in {"none", "start", "ok", "fail"} /\ used' \in [Faults -> Nat]
    BY <1>4, LBStates, <1>f DEF LogReplan, TypeOK, Faults
  <2>3. shallow' \in Nat /\ resubs' \in Nat
    BY <1>4 DEF LogReplan, TypeOK
  <2>4. QED
    BY <1>4, <2>1, <2>2, <2>3 DEF LogReplan, TypeOK, files
<1>5. CASE DeliverReplan
  <2>1. rp' \in RP
    BY <1>5 DEF DeliverReplan, TypeOK
  <2>2. proc' \in [Procs -> ProcType]
    BY <1>5, Rescheduled
  <2>3. QED
    BY <1>5, <2>1, <2>2 DEF DeliverReplan, TypeOK, files, counts
<1>6. QED
  BY <1>1, <1>2, <1>3, <1>4, <1>5 DEF ReplanStep

\* The steps of a cancellation, and a crash, keep the types.
LEMMA CancelTypes ==
    ASSUME TypeOK, UserCancel \/ CancelStep \/ Crash
    PROVE  TypeOK'
<1> {"aborted", "cancelled"} \subseteq States
  BY DEF States
<1>f. \A k \in Faults : Fault(k) => used' \in [Faults -> Nat]
  BY FaultCounts
<1>1. CASE UserCancel
  BY <1>1, <1>f DEF UserCancel, TypeOK, files, lbvars, counts, Faults
<1>2. CASE CancelState
  BY <1>2 DEF CancelState, TypeOK, lbvars, counts
<1>3. CASE CancelProcessor
  <2>1. lb' \in States
    BY <1>3, LBStates DEF CancelProcessor, TypeOK
  <2>2. copy' \in [Copies -> CopyType]
    BY <1>3 DEF CancelProcessor, PassOn, Live, TypeOK, CopyType
  <2>3. used' \in [Faults -> Nat]
    BY <1>3, <1>f DEF CancelProcessor, PassOn, TypeOK, Faults
  <2>4. tokens' \subseteq Tokens /\ sandbox' \in BOOLEAN /\ cancel' \in BOOLEAN
    BY <1>3, Zenon DEF CancelProcessor, Purge, TypeOK, files
  <2>5. QED
    BY <1>3, <2>1, <2>2, <2>3, <2>4 DEF CancelProcessor, TypeOK, counts
<1>4. CASE Crash
  <2>1. ASSUME NEW r \in ProcType
        PROVE  Recovered(r) \in ProcType
    <3>1. PICK x \in ProcType : x = Request(r.cmd, r.req)
      BY Records, Zenon DEF ProcType
    <3>2. \A b \in BOOLEAN : [x EXCEPT !.limbo = b] \in ProcType
      BY DEF ProcType
    <3>3. (lb # "waiting" /\ in_limbo) \in BOOLEAN
      OBVIOUS
    <3>4. QED
      BY <3>1, <3>2, <3>3, Records, Zenon DEF Recovered
  <2>2. proc' \in [Procs -> ProcType]
    BY <1>4, <2>1 DEF Crash, TypeOK
  <2>3. rp' \in [pc : {"idle", "scan", "rename", "log", "deliver"}, tok : Tokens]
    BY <1>4 DEF Crash, TypeOK
  <2>4. QED
    BY <1>4, <1>f, <2>2, <2>3 DEF Crash, TypeOK, files, lbvars, counts, Faults
<1>5. QED
  BY <1>1, <1>2, <1>3, <1>4 DEF CancelStep

\* The WM starts with one submission queued, an empty sandbox and no copy.
LEMMA TypesFirst == Init => TypeOK
<1> SUFFICES ASSUME Init PROVE TypeOK
  OBVIOUS
<1>1. proc \in [Procs -> ProcType] /\ copy \in [Copies -> CopyType]
  BY Records, TokensAssumption DEF Init
<1>2. <<0, "token">> \in Tokens
  BY Limits DEF Tokens
<1>3. QED
  BY <1>1, <1>2, Zenon DEF Init, TypeOK, States

\* Every step keeps the types.
LEMMA TypesKept ==
    ASSUME TypeOK, [Next]_vars
    PROVE  TypeOK'
<1>1. CASE Over \/ UNCHANGED vars
  BY <1>1 DEF Over, vars, files, lbvars, counts, TypeOK
<1>2. QED
  BY <1>1, ProcTypes, CopyTypes, ReplanTypes, CancelTypes DEF Next

\* The types of the sandbox, the processors, the copies and the LB are kept by every
\* step of the WM, of ICE or of a CE, also across a crash.
THEOREM Typing == Spec => []TypeOK
BY TypesFirst, TypesKept, PTL DEF Spec
-----------------------------------------------------------------------------
(* Without a crash no processor is in limbo; the tokens are gone with the sandbox, *)
(* and only a resubmission takes a token back.                                     *)
Calm ==
    used["crash"] = 0 =>
      /\ ~ sandbox => tokens = {}
      /\ \A p \in Procs : /\ ~ proc[p].limbo /\ ~ proc[p].again
                          /\ proc[p].pc = "back" => proc[p].cmd = "jobresubmit"

(* Most steps are quiet: they end or postpone an event, pass it from one place to *)
(* the next, end copies or remove the sandbox, and make nothing new.               *)
Stops(p) == proc[p].pc \notin {"none", "put"} /\ proc'[p] = Free
Moves(p) ==
    \E x \in {"queued", "check", "deliver"} :
      /\ proc[p].pc \in CASE x = "queued" -> {"decide", "put", "match"}
                          [] x = "check" -> {"match"}
                          [] x = "deliver" -> {"check"}
      /\ proc[p].pc = "put" => <<proc[p].n, "tmp">> \notin tokens
      /\ proc'[p] = [proc[p] EXCEPT !.pc = x]
Fades(c) == copy[c].st # "none" /\ copy'[c] = [copy[c] EXCEPT !.st = "over"]

Quiet ==
    /\ \A p \in Procs : proc'[p] = proc[p] \/ Stops(p) \/ Moves(p)
    /\ \A c \in Copies : copy'[c] = copy[c] \/ Fades(c)
    /\ (tokens' = tokens /\ sandbox' = sandbox) \/ (tokens' = {} /\ sandbox' = FALSE)
    /\ lb' = "scheduled" => lb = "scheduled"
    /\ \A k \in {"crash", "break", "zombie", "replan", "log"} : used'[k] = used[k]
    /\ UNCHANGED <<rp, deep, shallow, resubs, retry_count, starts>>

(* The steps that are not. *)
Resubmits(p) == \/ Shallow(p) /\ check_shallow_count(proc[p])
                \/ Deep(p) /\ check_deep_count(proc[p])
Reschedules(p) == Submit(p) /\ proc[p].ad > 0 /\ proc[p].n = proc[p].ad
MakesToken(p) == Submit(p) /\ (proc[p].ad = 0 \/ proc[p].n < proc[p].ad) /\ sandbox
PutsBack(p) == PutBack(p) /\ <<proc[p].n, "tmp">> \in tokens
Busy(p) == \/ Consider(p) \/ TakeBack(p) \/ Resubmits(p) \/ Reschedules(p)
           \/ MakesToken(p) \/ PutsBack(p) \/ Deliver(p)
IsAccepted(c) == Accept(c) /\ (copy[c].replan => <<copy[c].tok, "token">> \in tokens)
Happens(c) == IsAccepted(c) \/ Start(c) \/ Break(c) \/ Report(c) \/ Zombie(c)

\* What happens so often stays or grows.
LEMMA Monotone ==
    ASSUME TypeOK, [Next]_vars
    PROVE  /\ \A k \in Faults : used[k] \in Nat /\ used'[k] \in Nat /\ used'[k] >= used[k]
           /\ used'["crash"] = 0 => ~ Crash
<1>1. \A k \in Faults : Fault(k) =>
        /\ used'[k] = used[k] + 1
        /\ \A j \in Faults : used'[j] \in Nat /\ used'[j] >= used[j]
  BY FaultCounts DEF TypeOK
<1>2. (\E k \in Faults : Fault(k)) \/ UNCHANGED used
  BY Zenon DEF Next, ProcStep, NoProxy, CancelSeen, Consider, TakeBack, Shallow, Deep, Submit, PutBack,
     Match, CheckCancel, Deliver, LogOk, NoMatch, DeliverFails, CopyStep, Accept, Start, EndOk,
     Report, Break, Zombie, List, ReplanStep, ScanToken, RenameToken, LogReplan, DeliverReplan,
     UserCancel, CancelStep, CancelState, CancelProcessor, PassOn, Crash, Over, vars, Faults
<1>3. \A k \in Faults : used[k] \in Nat /\ used'[k] \in Nat /\ used'[k] >= used[k]
  BY <1>1, <1>2 DEF TypeOK
<1>4. Crash => used'["crash"] = used["crash"] + 1
  BY <1>1 DEF Crash, Faults
<1>5. QED
  BY <1>3, <1>4 DEF Faults

\* The steps of a processor that end, postpone or pass on its event are quiet.
LEMMA QuietProcs ==
    ASSUME TypeOK, Calm, used["crash"] = 0, NEW p \in Procs,
           ProcStep(p) \/ NoMatch(p) \/ DeliverFails(p)
    PROVE  Quiet \/ Busy(p)
<1> DEFINE Rest == /\ (tokens' = tokens /\ sandbox' = sandbox) \/ (tokens' = {} /\ sandbox' = FALSE)
                   /\ lb' = "scheduled" => lb = "scheduled"
                   /\ \A k \in {"crash", "break", "zombie", "replan", "log"} : used'[k] = used[k]
                   /\ UNCHANGED <<rp, deep, shallow, resubs, retry_count, starts, copy>>
<1>e. Ends(p) /\ proc[p].pc \notin {"none", "put"} =>
        \A q \in Procs : proc'[q] = proc[q] \/ Stops(q)
  BY EndsThere DEF Calm, Stops
<1>g. ASSUME NEW x \in {"queued", "check", "deliver"}, Goes(p, x),
             proc[p].pc \in CASE x = "queued" -> {"decide", "put", "match"}
                              [] x = "check" -> {"match"}
                              [] x = "deliver" -> {"check"},
             proc[p].pc = "put" => <<proc[p].n, "tmp">> \notin tokens
      PROVE  \A q \in Procs : proc'[q] = proc[q] \/ Moves(q)
  <2>1. x \in PC
    BY DEF PC
  <2>2. QED
    BY <1>g, <2>1, GoesOn, Zenon DEF Moves
<1>l. /\ Logs("waiting") => (lb' = "scheduled" => lb = "scheduled")
      /\ Logs("aborted") => (lb' = "scheduled" => lb = "scheduled")
      /\ Logs("cancelled") => (lb' = "scheduled" => lb = "scheduled")
      /\ Logs("ready") => (lb' = "scheduled" => lb = "scheduled")
  BY DEF Logs, After
<1>f. Fault("match") \/ Fault("deliver") \/ UNCHANGED used =>
        \A k \in {"crash", "break", "zombie", "replan", "log"} : used'[k] = used[k]
  BY FaultCounts DEF Faults
<1>q. Rest /\ (\A q \in Procs : proc'[q] = proc[q] \/ Stops(q) \/ Moves(q)) => Quiet
  BY DEF Quiet
<1>1. CASE NoProxy(p)
  BY <1>1, <1>e, <1>l, <1>f, <1>q DEF NoProxy, unrecoverable, counts
<1>2. CASE CancelSeen(p)
  BY <1>2, <1>e, <1>l, <1>f, <1>q, Zenon DEF CancelSeen, Purge, counts
<1>3. CASE Shallow(p)
  BY <1>3, <1>e, <1>l, <1>f, <1>q, Zenon DEF Shallow, unrecoverable, Busy, Resubmits
<1>4. CASE Deep(p)
  BY <1>4, <1>e, <1>l, <1>f, <1>q DEF Deep, unrecoverable, Busy, Resubmits
<1>5. CASE Submit(p)
  <2>1. CASE Ends(p) /\ UNCHANGED <<tokens, lb>>
    BY <1>5, <2>1, <1>e, <1>f, <1>q DEF Submit, counts
  <2>2. CASE postpone(p) /\ UNCHANGED tokens
    BY <1>5, <2>2, <1>g, <1>l, <1>f, <1>q DEF Submit, postpone, counts
  <2>3. CASE ~ (Ends(p) /\ UNCHANGED <<tokens, lb>>) /\ ~ (postpone(p) /\ UNCHANGED tokens)
    <3>1. proc[p].ad \in Int /\ proc[p].n \in Int
      BY DEF TypeOK, ProcType
    <3>2. QED
      BY <1>5, <2>3, <3>1 DEF Submit, Busy, Reschedules, MakesToken
  <2>4. QED
    BY <2>1, <2>2, <2>3
<1>6. CASE PutBack(p)
  BY <1>6, <1>g, <1>l, <1>f, <1>q, Zenon DEF PutBack, postpone, Busy, PutsBack, counts
<1>7. CASE NoMatch(p)
  <2>1. \A q \in Procs : proc'[q] = proc[q] \/ Stops(q) \/ Moves(q)
    BY <1>7, <1>g, <1>e DEF NoMatch, postpone, unrecoverable
  <2>2. Rest
    BY <1>7, <1>l, <1>f, Zenon DEF NoMatch, postpone, unrecoverable, counts
  <2>3. QED
    BY <2>1, <2>2, <1>q
<1>8. CASE Match(p)
  BY <1>8, <1>g, <1>l, <1>f, <1>q DEF Match, files, counts
<1>9. CASE CheckCancel(p)
  <2>1. \A q \in Procs : proc'[q] = proc[q] \/ Stops(q) \/ Moves(q)
    BY <1>9, <1>g, <1>e, Zenon DEF CheckCancel
  <2>2. Rest
    BY <1>9, <1>l, <1>f DEF CheckCancel, Purge, counts, files
  <2>3. QED
    BY <2>1, <2>2, <1>q, Zenon
<1>10. CASE DeliverFails(p)
  BY <1>10, <1>e, <1>l, <1>f, <1>q, Zenon DEF DeliverFails, unrecoverable, counts
<1>11. CASE LogOk(p)
  BY <1>11, <1>e, <1>l, <1>f, <1>q, Zenon DEF LogOk, files, counts
<1>12. QED
  BY <1>1, <1>2, <1>3, <1>4, <1>5, <1>6, <1>7, <1>8, <1>9, <1>10, <1>11 DEF ProcStep, Busy

\* A step is quiet, or a busy step of a processor, or an event of a copy, or a step
\* of the replanner.
LEMMA Kinds ==
    ASSUME TypeOK, Calm, [Next]_vars, used'["crash"] = 0
    PROVE  /\ used["crash"] = 0
           /\ \/ Quiet \/ (\E p \in Procs : Busy(p)) \/ (\E c \in Copies : Happens(c))
              \/ List \/ ReplanStep
<1>1. used["crash"] = 0 /\ ~ Crash
  BY Monotone DEF Faults
<1> DEFINE Same == /\ UNCHANGED <<proc, rp, deep, shallow, resubs, retry_count, starts>>
                   /\ \A k \in {"crash", "break", "zombie", "replan", "log"} : used'[k] = used[k]
                   /\ lb' = "scheduled" => lb = "scheduled"
           Files == (tokens' = tokens /\ sandbox' = sandbox) \/ (tokens' = {} /\ sandbox' = FALSE)
<1>q. Same /\ Files /\ (\A c \in Copies : copy'[c] = copy[c] \/ Fades(c)) => Quiet
  BY DEF Quiet
<1>f. Fault("cancel") \/ Fault("context") \/ Fault("deliver") \/ UNCHANGED used =>
        \A k \in {"crash", "break", "zombie", "replan", "log"} : used'[k] = used[k]
  BY FaultCounts DEF Faults
<1>l. /\ Logs("done") => (lb' = "scheduled" => lb = "scheduled")
      /\ Logs("aborted") => (lb' = "scheduled" => lb = "scheduled")
      /\ Logs("cancelled") => (lb' = "scheduled" => lb = "scheduled")
  BY DEF Logs, After
<1>2. CASE Over \/ UNCHANGED vars
  BY <1>2, <1>q, <1>f DEF Over, vars, files, lbvars, counts
<1>3. ASSUME NEW c \in Copies, CopyStep(c)
      PROVE  Quiet \/ Happens(c)
  <2>1. copy' = [copy EXCEPT ![c].st = "over"] /\ copy[c].st # "none" =>
          \A d \in Copies : copy'[d] = copy[d] \/ Fades(d)
    BY DEF TypeOK, Fades
  <2>2. CASE Accept(c) /\ ~ IsAccepted(c)
    BY <2>2, <2>1, <1>q, <1>f DEF Accept, IsAccepted, files, counts
  <2>3. CASE EndOk(c)
    BY <2>3, <2>1, <1>q, <1>f, <1>l DEF EndOk, files, counts
  <2>4. QED
    BY <1>3, <2>2, <2>3 DEF CopyStep, Happens
<1>4. CASE UserCancel \/ CancelState
  BY <1>4, <1>q, <1>f DEF UserCancel, CancelState, files, lbvars, counts
<1>5. CASE CancelProcessor
  <2>1. \A d \in Copies : copy'[d] = copy[d] \/ Fades(d)
    BY <1>5 DEF CancelProcessor, PassOn, Live, Fades
  <2>2. Files
    BY <1>5 DEF CancelProcessor, Purge, files
  <2>3. Same
    BY <1>5, <1>f, <1>l DEF CancelProcessor, PassOn, counts
  <2>4. QED
    BY <2>1, <2>2, <2>3, <1>q
<1>6. QED
  BY <1>1, <1>2, <1>3, <1>4, <1>5, QuietProcs DEF Next, CancelStep, Happens

\* A reschedule whose token is there goes on to the match-making, with its number.
LEMMA MatchesAgain ==
    ASSUME TypeOK, NEW p \in Procs, Reschedules(p)
    PROVE  /\ proc' = [proc EXCEPT ![p] = [proc[p] EXCEPT !.pc = "match", !.replan = TRUE]]
           /\ UNCHANGED <<tokens, lb>>
<1>1. proc[p].ad \in Nat /\ proc[p].n \in Nat
  BY Limits DEF TypeOK, ProcType
<1>2. ~ (proc[p].ad = 0 \/ proc[p].n < proc[p].ad) /\ ~ (proc[p].n > proc[p].ad)
  BY <1>1 DEF Reschedules
<1>3. proc' = [proc EXCEPT ![p].pc = "match", ![p].replan = TRUE] /\ UNCHANGED <<tokens, lb>>
  BY <1>2 DEF Reschedules, Submit
<1>4. QED
  BY <1>3, Zenon DEF TypeOK

\* What a busy step of a processor leaves alone, and where the processor goes.
LEMMA BusyFrame ==
    ASSUME TypeOK, NEW p \in Procs, Busy(p)
    PROVE  /\ proc' \in [Procs -> ProcType]
           /\ \A q \in Procs : q # p => proc'[q] = proc[q]
           /\ proc[p].pc \notin {"none", "log"}
           /\ proc'[p].cmd = proc[p].cmd /\ proc'[p].req = proc[p].req
           /\ ~ proc[p].limbo /\ ~ proc[p].again => ~ proc'[p].limbo /\ ~ proc'[p].again
           /\ lb' = "scheduled" => lb = "scheduled"
           /\ ~ Consider(p) /\ ~ Reschedules(p) => \E x \in PC : proc'[p] = [proc[p] EXCEPT !.pc = x]
           /\ UNCHANGED <<rp, used, sandbox, starts, retry_count>>
<1>0. proc[p] \in ProcType /\ {"decide", "put", "queued", "match", "log"} \subseteq PC
  BY DEF TypeOK, PC
<1>l. /\ Logs("waiting") => (lb' = "scheduled" => lb = "scheduled")
      /\ Logs("aborted") => (lb' = "scheduled" => lb = "scheduled")
  BY DEF Logs, After
<1>g. ASSUME NEW x \in PC, Goes(p, x)
      PROVE  /\ proc' \in [Procs -> ProcType]
             /\ \A q \in Procs : q # p => proc'[q] = proc[q]
             /\ proc'[p] = [proc[p] EXCEPT !.pc = x]
             /\ proc'[p].cmd = proc[p].cmd /\ proc'[p].req = proc[p].req
             /\ proc'[p].limbo = proc[p].limbo /\ proc'[p].again = proc[p].again
  BY <1>0, <1>g, GoesOn DEF ProcType
<1>1. CASE Consider(p)
  BY <1>1, <1>l, Considered, Zenon DEF Consider, files, counts
<1>2. CASE TakeBack(p)
  BY <1>2, <1>g, <1>0, Zenon DEF TakeBack, lbvars, counts, Consider, Reschedules, Submit
<1>3. CASE Resubmits(p)
  BY <1>3, <1>g, <1>l, <1>0, Zenon DEF Resubmits, Shallow, Deep, Consider, Reschedules, Submit
<1>4. CASE Reschedules(p)
  <2>1. proc' = [proc EXCEPT ![p] = [proc[p] EXCEPT !.pc = "match", !.replan = TRUE]]
    BY <1>4, MatchesAgain, Zenon
  <2>2. proc' \in [Procs -> ProcType] /\ \A q \in Procs : q # p => proc'[q] = proc[q]
    BY <1>4, ProcTypes, <2>1 DEF Reschedules, ProcStep, TypeOK
  <2>3. /\ proc'[p].cmd = proc[p].cmd /\ proc'[p].req = proc[p].req
        /\ proc'[p].limbo = proc[p].limbo /\ proc'[p].again = proc[p].again
    BY <1>0, <2>1 DEF TypeOK, ProcType
  <2>4. lb' = lb
    BY <1>4, MatchesAgain, Zenon
  <2>5. QED
    BY <1>4, <2>2, <2>3, <2>4 DEF Reschedules, Submit, counts
<1>5. CASE MakesToken(p)
  <2>1. Goes(p, "put") /\ lb' = lb
    BY <1>5, <1>0 DEF MakesToken, Submit, ProcType
  <2>2. QED
    BY <1>5, <1>g, <1>0, <2>1, Zenon DEF MakesToken, Submit, counts, Consider
<1>6. CASE PutsBack(p)
  BY <1>6, <1>g, <1>0, Zenon DEF PutsBack, PutBack, counts, Consider, Reschedules, Submit
<1>7. CASE Deliver(p)
  BY <1>7, <1>g, <1>0, Zenon DEF Deliver, files, lbvars, counts, Consider, Reschedules, Submit
<1>8. QED
  BY <1>1, <1>2, <1>3, <1>4, <1>5, <1>6, <1>7 DEF Busy

\* Calm is kept by every step.
LEMMA CalmKept ==
    ASSUME TypeOK, Calm, [Next]_vars
    PROVE  Calm'
<1> SUFFICES ASSUME used'["crash"] = 0
             PROVE  /\ ~ sandbox' => tokens' = {}
                    /\ \A p \in Procs : /\ ~ proc'[p].limbo /\ ~ proc'[p].again
                                        /\ proc'[p].pc = "back" => proc'[p].cmd = "jobresubmit"
  BY DEF Calm
<1> DEFINE Good(r) == ~ r.limbo /\ ~ r.again /\ (r.pc = "back" => r.cmd = "jobresubmit")
<1>0. used["crash"] = 0 /\ (~ sandbox => tokens = {}) /\ \A p \in Procs : Good(proc[p])
  BY Kinds DEF Calm
<1>1. Good(Free) /\ \A n \in 0 .. MaxToken : Good(Request("jobsubmit", n)) /\ Good(Request("jobresubmit", n))
  BY DEF Free, Request
<1>2. CASE Quiet
  <2>1. ASSUME NEW p \in Procs, Moves(p)
        PROVE  Good(proc'[p])
    <3>1. PICK x \in {"queued", "check", "deliver"} : proc'[p] = [proc[p] EXCEPT !.pc = x]
      BY <2>1 DEF Moves
    <3>2. QED
      BY <1>0, <3>1 DEF TypeOK, ProcType
  <2>2. QED
    BY <1>0, <1>1, <1>2, <2>1 DEF Quiet, Stops
<1>3. ASSUME NEW p \in Procs, Busy(p)
      PROVE  (~ sandbox' => tokens' = {}) /\ \A q \in Procs : Good(proc'[q])
  <2>1. ~ sandbox => tokens' = {}
    BY <1>0, <1>3, Zenon DEF Busy, Consider, TakeBack, Resubmits, Shallow, Deep, Reschedules, Submit,
       MakesToken, PutsBack, PutBack, Deliver, files
  <2>2. proc'[p].pc = "back" => proc'[p].cmd = "jobresubmit"
    <3>1. CASE Consider(p)
      BY <3>1, Considered, Zenon
    <3>2. CASE Reschedules(p)
      <4>1. proc' = [proc EXCEPT ![p] = [proc[p] EXCEPT !.pc = "match", !.replan = TRUE]]
        BY <3>2, MatchesAgain, Zenon
      <4>2. QED
        BY <4>1 DEF TypeOK, ProcType
    <3>3. CASE ~ Consider(p) /\ ~ Reschedules(p)
      <4>1. proc[p].ad \in Nat /\ proc[p].n \in Nat
        BY Limits DEF TypeOK, ProcType
      <4>2. PICK x \in PC \ {"back"} : Goes(p, x)
        BY <1>3, <3>3, <4>1 DEF Busy, TakeBack, Resubmits, Shallow, Deep, Submit, MakesToken,
           PutsBack, PutBack, Deliver, PC
      <4>3. proc'[p] = [proc[p] EXCEPT !.pc = x]
        BY <4>2, GoesOn
      <4>4. QED
        BY <4>2, <4>3 DEF TypeOK, ProcType
    <3>4. QED
      BY <3>1, <3>2, <3>3
  <2>3. QED
    BY <1>0, <1>3, <2>1, <2>2, BusyFrame
<1>4. ASSUME NEW c \in Copies, Happens(c)
      PROVE  (~ sandbox' => tokens' = {}) /\ \A q \in Procs : Good(proc'[q])
  <2>1. sandbox' = sandbox /\ (tokens = {} => tokens' = {})
    BY <1>4 DEF Happens, IsAccepted, Accept, Start, Break, Report, Zombie, files
  <2>2. proc' = proc \/ Resubmission(c)
    BY <1>4 DEF Happens, IsAccepted, Accept, Start, Break, Report, Zombie
  <2>3. 0 \in 0 .. MaxToken
    BY Limits
  <2>4. QED
    BY <1>0, <1>1, <2>1, <2>2, <2>3, Asked
<1>5. CASE List \/ ReplanStep
  <2>1. sandbox' = sandbox /\ (tokens = {} => tokens' = {})
    BY <1>5 DEF List, ReplanStep, ScanToken, RenameToken, LogReplan, DeliverReplan, files
  <2>2. proc' = proc \/ DeliverReplan
    BY <1>5 DEF List, ReplanStep, ScanToken, RenameToken, LogReplan
  <2>3. rp.tok[1] \in 0 .. MaxToken
    BY DEF TypeOK, Tokens
  <2>4. QED
    BY <1>0, <1>1, <2>1, <2>2, <2>3, Rescheduled
<1>6. QED
  BY <1>2, <1>3, <1>4, <1>5, Kinds
-----------------------------------------------------------------------------
Active(p) == proc[p].pc \notin {"none", "log"}
Submits(p) == proc[p].cmd = "jobsubmit" /\ Active(p)
Pending(c) == copy[c].known /\ copy[c].st \in {"sent", "accepted", "running", "failed"}

\* A quiet step frees the place of a processor, leaves it alone or moves it on.
LEMMA QuietProc ==
    ASSUME TypeOK, Quiet, NEW p \in Procs
    PROVE  \/ proc'[p] = Free /\ proc[p].pc # "put"
           \/ /\ proc'[p].cmd = proc[p].cmd /\ proc'[p].req = proc[p].req
              /\ proc'[p].ad = proc[p].ad /\ proc'[p].n = proc[p].n
              /\ proc'[p].replan = proc[p].replan
              /\ proc'[p].deep = proc[p].deep /\ proc'[p].shallow = proc[p].shallow
              /\ \/ proc'[p].pc = proc[p].pc
                 \/ proc'[p].pc = "queued" /\ proc[p].pc \in {"decide", "match"}
                 \/ /\ proc'[p].pc = "queued" /\ proc[p].pc = "put"
                    /\ <<proc[p].n, "tmp">> \notin tokens
                 \/ proc'[p].pc = "check" /\ proc[p].pc = "match"
                 \/ proc'[p].pc = "deliver" /\ proc[p].pc = "check"
<1>0. proc[p] \in ProcType
  BY DEF TypeOK
<1>1. CASE Stops(p)
  BY <1>1 DEF Stops
<1>2. CASE Moves(p)
  BY <1>0, <1>2 DEF Moves, ProcType
<1>3. QED
  BY <1>1, <1>2 DEF Quiet

\* A quiet step leaves a copy alone or ends it.
LEMMA QuietCopy ==
    ASSUME TypeOK, Quiet, NEW c \in Copies
    PROVE  /\ copy'[c].tok = copy[c].tok /\ copy'[c].replan = copy[c].replan
           /\ copy'[c].known = copy[c].known
           /\ copy'[c].st = copy[c].st \/ (copy'[c].st = "over" /\ copy[c].st # "none")
<1>0. copy[c] \in CopyType
  BY DEF TypeOK
<1>1. CASE Fades(c)
  BY <1>0, <1>1 DEF Fades, CopyType
<1>2. QED
  BY <1>1 DEF Quiet

\* A step of a processor to another place leaves the rest of it alone.
LEMMA Fields ==
    ASSUME TypeOK, NEW p \in Procs, NEW x \in PC, Goes(p, x)
    PROVE  /\ proc'[p].pc = x /\ proc'[p].cmd = proc[p].cmd /\ proc'[p].req = proc[p].req
           /\ proc'[p].ad = proc[p].ad /\ proc'[p].n = proc[p].n
           /\ proc'[p].replan = proc[p].replan
           /\ proc'[p].deep = proc[p].deep /\ proc'[p].shallow = proc[p].shallow
           /\ \A q \in Procs : q # p => proc'[q] = proc[q]
<1>1. proc'[p] = [proc[p] EXCEPT !.pc = x] /\ \A q \in Procs : q # p => proc'[q] = proc[q]
  BY GoesOn
<1>2. QED
  BY <1>1 DEF TypeOK, ProcType

(* Without reschedules.  The numbers of the tokens are all 0; one request at a time *)
(* is being worked on, or one copy is known to ICE; a first submission has no copy;  *)
(* the tokens there are, and those taken, are the first and the deep ones; and the    *)
(* counts that a resubmission goes by are those of the LB.                            *)
T == <<0, "token">>
M == <<0, "tmp">>
N(t) == IF t \in tokens THEN 1 ELSE 0

NumberZero ==
    /\ rp.pc = "idle" /\ tokens \subseteq {T, M}
    /\ \A p \in Procs : proc[p].ad = 0 /\ proc[p].n = 0 /\ ~ proc[p].replan
    /\ \A c \in Copies : copy[c].tok = 0 /\ ~ copy[c].replan
OneAtATime ==
    /\ \A p, q \in Procs : Active(p) /\ Active(q) => p = q
    /\ \A p \in Procs, c \in Copies : ~ (Active(p) /\ Pending(c))
    /\ \A c, d \in Copies : Pending(c) /\ Pending(d) => c = d
FirstHasNoCopy ==
    \A p \in Procs : Submits(p) =>
      /\ starts = 0 /\ \A c \in Copies : copy[c].st = "none"
      /\ proc[p].pc # "put" => M \notin tokens
TokensCounted == (\A p \in Procs : ~ Submits(p)) => starts + N(T) + N(M) <= deep + 1
CountsRead ==
    /\ \A p \in Procs : proc[p].pc \in {"back", "decide"} /\ proc[p].cmd = "jobresubmit" =>
         proc[p].deep = deep /\ proc[p].shallow = shallow
    /\ deep <= Least(retry_count, DeepLimit) /\ shallow <= Least(retry_count, ShallowLimit)
Unplanned == NumberZero /\ OneAtATime /\ FirstHasNoCopy /\ TokensCounted /\ CountsRead
Alone == used["crash"] = 0 /\ used["replan"] = 0

\* A quiet step keeps them.
LEMMA QuietUnplanned ==
    ASSUME TypeOK, Unplanned, Quiet
    PROVE  Unplanned'
<1>0. \A c \in Copies : /\ copy'[c].tok = copy[c].tok /\ copy'[c].replan = copy[c].replan
                        /\ copy'[c].known = copy[c].known
                        /\ copy'[c].st = copy[c].st \/ (copy'[c].st = "over" /\ copy[c].st # "none")
  BY QuietCopy
<1>1. tokens' \subseteq tokens /\ UNCHANGED <<rp, deep, shallow, retry_count, starts>>
  BY DEF Quiet
<1>2. ASSUME NEW p \in Procs
      PROVE  /\ Active(p)' => Active(p)
             /\ Submits(p)' => Submits(p)
             /\ Submits(p) /\ ~ Submits(p)' => proc[p].pc # "put"
             /\ Submits(p)' /\ proc'[p].pc # "put" /\ proc[p].pc = "put" => <<proc[p].n, "tmp">> \notin tokens
             /\ proc'[p].pc \in {"back", "decide"} => proc'[p].deep = proc[p].deep /\ proc'[p].shallow = proc[p].shallow /\ proc'[p].pc = proc[p].pc /\ proc'[p].cmd = proc[p].cmd
             /\ proc'[p].ad = 0 /\ proc'[p].n = 0 /\ ~ proc'[p].replan
  BY QuietProc DEF Active, Submits, Free, Unplanned, NumberZero
<1>3. NumberZero'
  BY <1>0, <1>1, <1>2, Zenon DEF Unplanned, NumberZero
<1>4. OneAtATime'
  BY <1>0, <1>2, Zenon DEF Unplanned, OneAtATime, Pending
<1>5. FirstHasNoCopy'
  BY <1>0, <1>1, <1>2 DEF Unplanned, FirstHasNoCopy, NumberZero, M
<1>6. TokensCounted'
  <2>1. N(T)' <= N(T) /\ N(M)' <= N(M) /\ N(T) \in 0 .. 1 /\ N(M) \in 0 .. 1 /\ N(T)' \in 0 .. 1 /\ N(M)' \in 0 .. 1
    BY <1>1 DEF N, T, M
  <2>2. CASE \A p \in Procs : ~ Submits(p)
    BY <1>1, <2>1, <2>2 DEF Unplanned, TokensCounted, TypeOK
  <2>3. ASSUME NEW p \in Procs, Submits(p), ~ Submits(p)'
        PROVE  starts = 0 /\ N(M) = 0
    BY <1>2, <2>3, Zenon DEF Unplanned, FirstHasNoCopy, N
  <2>4. QED
    BY <1>1, <2>1, <2>2, <2>3 DEF TokensCounted, TypeOK
<1>7. CountsRead'
  BY <1>1, <1>2, Zenon DEF Unplanned, CountsRead
<1>8. QED
  BY <1>3, <1>4, <1>5, <1>6, <1>7 DEF Unplanned

\* A busy step of a processor keeps them.
LEMMA BusyUnplanned ==
    ASSUME TypeOK, Calm, Alone, Unplanned, NEW p \in Procs, Busy(p)
    PROVE  Unplanned'
<1> DEFINE r == proc[p]
<1>0. /\ \A q \in Procs : q # p => proc'[q] = proc[q] /\ ~ Active(q) /\ ~ Active(q)'
      /\ Active(p) /\ \A c \in Copies : ~ Pending(c)
      /\ UNCHANGED <<rp, starts, retry_count>> /\ proc'[p].cmd = r.cmd
  BY BusyFrame DEF Active, Unplanned, OneAtATime
<1>n. r.ad = 0 /\ r.n = 0 /\ ~ r.replan /\ tokens \subseteq {T, M} /\ rp.pc = "idle"
  BY DEF Unplanned, NumberZero
<1>t. /\ starts \in Nat /\ deep \in Nat /\ shallow \in Nat /\ retry_count \in Nat
      /\ N(T) \in 0 .. 1 /\ N(M) \in 0 .. 1 /\ N(T)' \in 0 .. 1 /\ N(M)' \in 0 .. 1 /\ T # M
  BY Limits DEF TypeOK, N, T, M
<1>p. {"decide", "put", "queued", "match", "log"} \subseteq PC
  BY DEF PC
<1>s. \A q \in Procs : (Submits(q) => q = p) /\ (Submits(q)' => q = p)
  BY <1>0 DEF Submits
<1>f. Submits(p) => /\ starts = 0 /\ \A c \in Copies : copy[c].st = "none"
                    /\ r.pc # "put" => M \notin tokens
  BY DEF Unplanned, FirstHasNoCopy
<1>c. ~ Submits(p) => starts + N(T) + N(M) <= deep + 1
  BY <1>s DEF Unplanned, TokensCounted
<1>r. /\ r.pc \in {"back", "decide"} /\ r.cmd = "jobresubmit" => r.deep = deep /\ r.shallow = shallow
      /\ deep <= Least(retry_count, DeepLimit) /\ shallow <= Least(retry_count, ShallowLimit)
  BY DEF Unplanned, CountsRead
\* what is left to show when no copy is delivered
<1>q. ASSUME copy' = copy, tokens' \subseteq {T, M},
             proc'[p].ad = 0, proc'[p].n = 0, ~ proc'[p].replan,
             Submits(p)' => Submits(p) /\ (proc'[p].pc # "put" => M \notin tokens'),
             ~ Submits(p)' => starts + N(T)' + N(M)' <= deep' + 1,
             proc'[p].pc \in {"back", "decide"} /\ r.cmd = "jobresubmit" =>
               proc'[p].deep = deep' /\ proc'[p].shallow = shallow',
             deep' <= Least(retry_count, DeepLimit), shallow' <= Least(retry_count, ShallowLimit)
      PROVE  Unplanned'
  <2>1. NumberZero'
    BY <1>q, <1>0, Zenon DEF Unplanned, NumberZero
  <2>2. OneAtATime'
    BY <1>q, <1>0 DEF OneAtATime, Pending
  <2>3. FirstHasNoCopy'
    BY <1>q, <1>0, <1>s, <1>f DEF FirstHasNoCopy
  <2>4. TokensCounted'
    BY <1>q, <1>0, <1>s DEF TokensCounted
  <2>5. CountsRead'
    BY <1>q, <1>0 DEF CountsRead, Active
  <2>6. QED
    BY <2>1, <2>2, <2>3, <2>4, <2>5, Zenon DEF Unplanned
<1>1. CASE Consider(p)
  <2>1. copy' = copy /\ tokens' = tokens /\ deep' = deep /\ shallow' = shallow /\ r.pc = "queued"
    BY <1>1 DEF Consider, files, counts
  <2>2. proc'[p].n = 0
    <3>1. \A t \in tokens : t[1] = 0
      BY <1>n DEF T, M
    <3>2. \A m \in Scanned(p) : m = 0
      BY <3>1 DEF Scanned
    <3>3. QED
      BY <1>1, <3>2, Considered, Zenon
  <2>3. proc'[p].ad = 0 /\ ~ proc'[p].replan
    BY <1>1, <1>n, <2>2, Considered, Zenon
  <2>4. /\ proc'[p].deep = deep /\ proc'[p].shallow = shallow /\ proc'[p].pc \in {"back", "decide"}
    BY <1>1, Considered, Zenon
  <2>5. Submits(p)' <=> Submits(p)
    BY <1>0, <2>1, <2>4 DEF Submits, Active
  <2>6. N(T)' = N(T) /\ N(M)' = N(M)
    BY <2>1 DEF N
  <2>7. QED
    BY <1>q, <1>n, <1>f, <1>c, <1>r, <2>1, <2>2, <2>3, <2>4, <2>5, <2>6
<1>2. CASE TakeBack(p)
  <2>1. copy' = copy /\ deep' = deep /\ shallow' = shallow /\ r.pc = "back" /\ Goes(p, "decide")
    BY <1>2 DEF TakeBack, lbvars, counts
  <2>2. r.cmd = "jobresubmit"
    BY <2>1 DEF Calm, Alone
  <2>3. tokens' = IF T \in tokens THEN (tokens \ {T}) \cup {M} ELSE tokens
    BY <1>2, <1>n DEF TakeBack, Replaced, T, M
  <2>4. N(T)' + N(M)' <= N(T) + N(M) /\ tokens' \subseteq {T, M}
    BY <2>3, <1>n, <1>t DEF N
  <2>5. ~ Submits(p) /\ ~ Submits(p)'
    BY <1>0, <2>2 DEF Submits
  <2>6. QED
    BY <1>q, <1>n, <1>p, <1>c, <1>r, <1>t, <2>1, <2>2, <2>4, <2>5, Fields
<1>3. CASE Shallow(p) /\ check_shallow_count(r)
  <2>1. /\ copy' = copy /\ deep' = deep /\ shallow' = shallow + 1 /\ tokens' = tokens
        /\ r.cmd = "jobresubmit" /\ r.pc = "decide" /\ Goes(p, "put")
    BY <1>3 DEF Shallow
  <2>2. shallow < Least(retry_count, ShallowLimit)
    BY <1>3, <1>r, <2>1 DEF check_shallow_count
  <2>3. ~ Submits(p) /\ ~ Submits(p)'
    BY <1>0, <2>1 DEF Submits
  <2>4. N(T)' = N(T) /\ N(M)' = N(M)
    BY <2>1 DEF N
  <2>5. shallow' <= Least(retry_count, ShallowLimit)
    BY <2>1, <2>2, <1>t, Limits DEF Least
  <2>6. QED
    BY <1>q, <1>n, <1>p, <1>c, <1>r, <2>1, <2>3, <2>4, <2>5, Fields
<1>4. CASE Deep(p) /\ check_deep_count(r)
  <2>1. /\ copy' = copy /\ deep' = deep + 1 /\ shallow' = 0
        /\ tokens' = tokens \/ tokens' = tokens \cup {M}
        /\ r.cmd = "jobresubmit" /\ r.pc = "decide" /\ (Goes(p, "put") \/ Goes(p, "queued"))
    BY <1>4, <1>n DEF Deep, M
  <2>2. deep < Least(retry_count, DeepLimit)
    BY <1>4, <1>r, <2>1 DEF check_deep_count
  <2>3. ~ Submits(p) /\ ~ Submits(p)'
    BY <1>0, <2>1 DEF Submits
  <2>4. N(T)' = N(T) /\ N(M)' <= N(M) + 1 /\ tokens' \subseteq {T, M}
    BY <2>1, <1>n, <1>t DEF N
  <2>5. deep' <= Least(retry_count, DeepLimit) /\ shallow' <= Least(retry_count, ShallowLimit)
    BY <2>1, <2>2, <1>t, Limits DEF Least
  <2>6. PICK x \in {"put", "queued"} : Goes(p, x)
    BY <2>1
  <2>7. /\ proc'[p].ad = 0 /\ proc'[p].n = 0 /\ ~ proc'[p].replan
        /\ proc'[p].pc \in {"put", "queued"}
    BY <2>6, <1>p, <1>n, Fields
  <2>8. starts + N(T)' + N(M)' <= deep' + 1
    BY <1>c, <1>t, <2>1, <2>3, <2>4
  <2>9. QED
    BY <1>q, <2>1, <2>3, <2>4, <2>5, <2>7, <2>8
<1>5. CASE MakesToken(p)
  <2>1. /\ copy' = copy /\ deep' = deep /\ shallow' = shallow /\ tokens' = tokens \cup {M}
        /\ r.cmd = "jobsubmit" /\ Goes(p, "put")
    BY <1>5, <1>n DEF MakesToken, Submit, counts, M
  <2>2. proc'[p].pc = "put" /\ proc'[p].ad = 0 /\ proc'[p].n = 0 /\ ~ proc'[p].replan
    BY <2>1, <1>p, <1>n, Fields, Zenon
  <2>3. Submits(p) /\ Submits(p)'
    BY <1>0, <2>1, <2>2 DEF Submits, Active
  <2>4. tokens' \subseteq {T, M}
    BY <2>1, <1>n, Zenon
  <2>5. QED
    BY <1>q, <1>r, <2>1, <2>2, <2>3, <2>4
<1>6. CASE PutsBack(p)
  <2>1. /\ copy' = copy /\ deep' = deep /\ shallow' = shallow /\ M \in tokens
        /\ tokens' = (tokens \ {M}) \cup {T} /\ r.pc = "put" /\ Goes(p, "match")
    BY <1>6, <1>n DEF PutsBack, PutBack, counts, Replaced, T, M
  <2>2. proc'[p].pc = "match" /\ proc'[p].ad = 0 /\ proc'[p].n = 0 /\ ~ proc'[p].replan
    BY <2>1, <1>p, <1>n, Fields, Zenon
  <2>3. Submits(p)' <=> Submits(p)
    BY <1>0, <2>1, <2>2 DEF Submits, Active
  <2>4. N(T)' + N(M)' <= N(T) + N(M) /\ M \notin tokens' /\ tokens' \subseteq {T, M}
    BY <2>1, <1>n, <1>t DEF N
  <2>5. ~ Submits(p)' => starts + N(T)' + N(M)' <= deep' + 1
    BY <1>c, <1>t, <2>1, <2>3, <2>4
  <2>6. QED
    BY <1>q, <1>r, <2>1, <2>2, <2>3, <2>4, <2>5, Zenon
<1>7. CASE Deliver(p)
  <2>1. PICK c \in Copies : copy' = [copy EXCEPT ![c] = [st |-> "sent", tok |-> r.ad,
                                       known |-> TRUE, replan |-> r.replan]]
    BY <1>7, Zenon DEF Deliver
  <2>2. tokens' = tokens /\ deep' = deep /\ shallow' = shallow /\ r.pc = "deliver" /\ Goes(p, "log")
    BY <1>7, Zenon DEF Deliver, files, lbvars, counts
  <2>3. proc'[p].pc = "log" /\ proc'[p].ad = 0 /\ proc'[p].n = 0 /\ ~ proc'[p].replan
    BY <2>2, <1>p, <1>n, Fields
  <2>4. /\ copy'[c].tok = 0 /\ ~ copy'[c].replan
        /\ \A d \in Copies : d # c => copy'[d] = copy[d]
    BY <2>1, <1>n DEF TypeOK
  <2>5. \A q \in Procs : ~ Active(q)' /\ ~ Submits(q)'
    BY <1>0, <2>3 DEF Active, Submits
  <2>6. NumberZero'
    BY <1>0, <1>n, <2>2, <2>3, <2>4, Zenon DEF Unplanned, NumberZero
  <2>7. OneAtATime'
    BY <1>0, <2>4, <2>5 DEF OneAtATime, Pending
  <2>8. FirstHasNoCopy'
    BY <2>5 DEF FirstHasNoCopy
  <2>9. TokensCounted'
    <3>1. N(T)' = N(T) /\ N(M)' = N(M)
      BY <2>2 DEF N
    <3>2. Submits(p) => starts = 0 /\ N(M) = 0
      BY <1>f, <2>2 DEF N
    <3>3. QED
      BY <1>0, <1>t, <1>c, <2>2, <3>1, <3>2 DEF TokensCounted
  <2>10. CountsRead'
    BY <1>0, <1>r, <2>2, <2>3 DEF CountsRead, Active
  <2>11. QED
    BY <2>6, <2>7, <2>8, <2>9, <2>10 DEF Unplanned
<1>8. QED
  BY <1>n, <1>1, <1>2, <1>3, <1>4, <1>5, <1>6, <1>7 DEF Busy, Resubmits, Reschedules

\* An event of a copy keeps them: a copy that asks for a resubmission was the one
\* ICE knew of.
LEMMA CopyUnplanned ==
    ASSUME TypeOK, Unplanned, NEW c \in Copies, Happens(c)
    PROVE  Unplanned'
<1> DEFINE Stays == \A d \in Copies : d # c => copy'[d] = copy[d]
<1>0. copy[c] \in CopyType /\ copy[c].tok = 0 /\ ~ copy[c].replan /\ T # M
  BY DEF TypeOK, Unplanned, NumberZero, T, M
<1>1. copy[c].st # "none" /\ \A p \in Procs : ~ Submits(p)
  BY DEF Happens, IsAccepted, Accept, Start, Break, Report, Zombie, Unplanned, FirstHasNoCopy
<1>2. UNCHANGED <<rp, deep, shallow, retry_count>>
  BY DEF Happens, IsAccepted, Accept, Start, Break, Report, Zombie, lbvars, counts
<1>3. /\ Stays /\ copy'[c].tok = 0 /\ ~ copy'[c].replan
      /\ copy'[c].known => copy[c].known
      /\ copy'[c].st \in {"accepted", "running", "failed"} => copy[c].st \in {"sent", "accepted", "running"}
      /\ copy'[c].st \in {"accepted", "running", "failed", "over"}
  <2>1. ASSUME IsAccepted(c)
        PROVE  Stays /\ copy'[c] = [copy[c] EXCEPT !.st = "accepted"] /\ copy[c].st = "sent"
    BY <1>0, <2>1 DEF IsAccepted, Accept, TypeOK
  <2>2. ASSUME Start(c) \/ Break(c)
        PROVE  /\ Stays /\ copy[c].st \in {"accepted", "running"}
               /\ \E x \in {"running", "failed"} : copy'[c] = [copy[c] EXCEPT !.st = x]
    BY <2>2 DEF Start, Break, TypeOK
  <2>3. ASSUME Report(c)
        PROVE  Stays /\ copy'[c] = [copy[c] EXCEPT !.st = "over", !.known = FALSE]
    BY <2>3 DEF Report, TypeOK
  <2>4. ASSUME Zombie(c)
        PROVE  Stays /\ copy'[c] = [copy[c] EXCEPT !.known = FALSE] /\ copy[c].st = "accepted"
    BY <2>4 DEF Zombie, TypeOK
  <2>5. QED
    BY <1>0, <2>1, <2>2, <2>3, <2>4, Zenon DEF Happens, CopyType
<1>4. \A d \in Copies : Pending(d)' => Pending(d)
  BY <1>3 DEF Pending
<1>5. tokens' \subseteq tokens /\ starts' + N(T)' + N(M)' <= starts + N(T) + N(M) /\ starts' \in Nat
  <2>1. CASE tokens' = tokens /\ starts' = starts
    BY <2>1 DEF N, TypeOK
  <2>2. CASE T \in tokens /\ tokens' = tokens \ {T} /\ starts' = starts + 1
    BY <2>2, <1>0 DEF N, TypeOK
  <2>3. QED
    BY <1>0, <2>1, <2>2 DEF Happens, IsAccepted, Accept, Start, Break, Report, Zombie, files, T
<1>t. TokensCounted'
  <2>1. /\ starts + N(T) + N(M) <= deep + 1 /\ starts \in Nat /\ deep \in Nat
        /\ N(T) \in 0 .. 1 /\ N(M) \in 0 .. 1 /\ N(T)' \in 0 .. 1 /\ N(M)' \in 0 .. 1
    BY <1>1 DEF Unplanned, TokensCounted, TypeOK, N
  <2>2. starts' + N(T)' + N(M)' <= deep' + 1
    BY <1>2, <1>5, <2>1
  <2>3. QED
    BY <2>2 DEF TokensCounted
<1>6. CASE proc' = proc
  <2>1. NumberZero'
    BY <1>2, <1>3, <1>5, <1>6 DEF Unplanned, NumberZero
  <2>2. OneAtATime'
    BY <1>4, <1>6 DEF Unplanned, OneAtATime, Active
  <2>3. \A p \in Procs : ~ Submits(p)'
    BY <1>1, <1>6 DEF Submits, Active
  <2>4. FirstHasNoCopy'
    BY <2>3 DEF FirstHasNoCopy
  <2>5. CountsRead'
    BY <1>2, <1>6 DEF Unplanned, CountsRead
  <2>6. QED
    BY <1>t, <2>1, <2>2, <2>4, <2>5 DEF Unplanned
<1>7. CASE Pending(c) /\ ~ Pending(c)' /\ Resubmission(c)
  <2>1. PICK p \in Procs : /\ proc'[p] = Request("jobresubmit", 0)
                           /\ \A q \in Procs : q # p => proc'[q] = proc[q]
    BY <1>7, Asked
  <2>2. /\ proc'[p].cmd = "jobresubmit" /\ proc'[p].pc = "queued"
        /\ proc'[p].ad = 0 /\ proc'[p].n = 0 /\ ~ proc'[p].replan
    BY <2>1 DEF Request, Free
  <2>3. /\ \A q \in Procs : ~ Active(q) /\ (Active(q)' => q = p) /\ ~ Submits(q)'
        /\ \A d \in Copies : ~ Pending(d)'
    BY <1>4, <1>7, <2>1, <2>2, Zenon DEF Unplanned, OneAtATime, Active, Submits
  <2>4. NumberZero'
    BY <1>2, <1>3, <1>5, <2>1, <2>2 DEF Unplanned, NumberZero
  <2>5. OneAtATime'
    BY <2>3, Zenon DEF OneAtATime
  <2>6. FirstHasNoCopy'
    BY <2>3, Zenon DEF FirstHasNoCopy
  <2>7. CountsRead'
    BY <1>2, <2>1, <2>2 DEF Unplanned, CountsRead
  <2>8. QED
    BY <1>t, <2>4, <2>5, <2>6, <2>7 DEF Unplanned
<1>8. QED
  <2>1. CASE Report(c)
    <3>1. copy'[c].st = "over" /\ copy[c].st = "failed"
      BY <2>1, <1>0 DEF Report, TypeOK, CopyType
    <3>2. QED
      BY <2>1, <3>1, <1>6, <1>7 DEF Report, Pending
  <2>2. CASE Zombie(c)
    <3>1. ~ copy'[c].known
      BY <2>2, <1>0 DEF Zombie, TypeOK, CopyType
    <3>2. QED
      BY <2>2, <3>1, <1>7 DEF Zombie, Pending
  <2>3. QED
    BY <1>6, <2>1, <2>2 DEF Happens, IsAccepted, Accept, Start, Break

\* Every step keeps them, as long as there is no reschedule.
LEMMA UnplannedKept ==
    ASSUME TypeOK, Calm, Alone => Unplanned, [Next]_vars
    PROVE  (Alone => Unplanned)'
<1> SUFFICES ASSUME Alone' PROVE Unplanned'
  OBVIOUS
<1>1. Alone /\ Unplanned
  BY Monotone DEF Alone, Faults
<1>2. ~ List /\ ~ ReplanStep
  <2>1. ~ List
    BY <1>1, FaultCounts DEF List, Alone, Faults
  <2>2. QED
    BY <1>1, <2>1 DEF ReplanStep, ScanToken, RenameToken, LogReplan, DeliverReplan, Unplanned,
       NumberZero
<1>3. QED
  BY <1>1, <1>2, Kinds, QuietUnplanned, BusyUnplanned, CopyUnplanned DEF Alone
=============================================================================
