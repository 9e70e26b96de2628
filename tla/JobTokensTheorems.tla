-------------------------- MODULE JobTokensTheorems --------------------------
(***************************************************************************)
(* How often the payload of a job starts, and how often it is resubmitted:  *)
(* the inductive invariants and the theorems.                               *)
(*                                                                           *)
(* There are two worlds.  Without reschedules (Alone) copies fail and are     *)
(* given up, and one request at a time is worked on: Unplanned.  With          *)
(* reschedules and nothing that fails (Orderly) the tokens are numbered:       *)
(* Planned.  Every step is quiet (Quiet), or busy (Busy), or an event of a     *)
(* copy (Happens), or a step of the replanner, and keeps both.                 *)
(***************************************************************************)
EXTENDS JobTokensProofs, FiniteSetTheorems

(* With reschedules, and nothing that fails.  A resubmission is asked for only when *)
(* the sandbox is gone, so that no token can be made any more.  One of a submission,  *)
(* the replanner and a copy on its way to ICE has the job in hand; the number of a     *)
(* reschedule is that of the only token, and above those of all copies; and where a     *)
(* copy ICE knows of has lost its token, there is another one.                          *)
Sent(c) == copy[c].st = "sent"
First(p) == Submits(p) /\ proc[p].req = 0
Again(p) == Submits(p) /\ proc[p].req > 0
Below(k) == \A c \in Copies : copy[c].st # "none" => copy[c].tok < k

NoRetry ==
    /\ \A p \in Procs : /\ proc[p].cmd = "jobresubmit" => proc[p].pc = "queued" /\ ~ sandbox
                        /\ Active(p) => proc[p].cmd # "none"
    /\ deep = 0
    /\ shallow + (IF rp.pc \in {"scan", "rename", "log"} THEN 1 ELSE 0) <= used["replan"]
InHand ==
    /\ \A p, q \in Procs : Submits(p) /\ Submits(q) => p = q
    /\ \A p \in Procs, c \in Copies : ~ (Submits(p) /\ Sent(c))
    /\ \A c, d \in Copies : Sent(c) /\ Sent(d) => c = d
    /\ rp.pc # "idle" => (\A p \in Procs : ~ Submits(p)) /\ (\A c \in Copies : ~ Sent(c))
Listed ==
    /\ lb = "scheduled" /\ used["log"] = 0 =>
         (\A p \in Procs : ~ Submits(p)) /\ (\A c \in Copies : ~ Sent(c)) /\ rp.pc # "deliver"
    /\ used["replan"] = 0 => used["log"] = 0 /\ rp.pc = "idle"
FirstToken ==
    \A p \in Procs : First(p) =>
      /\ starts = 0 /\ proc[p].ad = 0 /\ proc[p].n = 0 /\ ~ proc[p].replan
      /\ tokens \subseteq {T, M} /\ \A c \in Copies : copy[c].st = "none"
      /\ proc[p].pc # "put" => M \notin tokens
      /\ proc[p].pc \in {"match", "check", "deliver"} /\ sandbox => T \in tokens
Numbered ==
    /\ \A p \in Procs : Again(p) =>
         /\ proc[p].pc \in {"queued", "decide", "match", "check", "deliver"}
         /\ proc[p].pc # "queued" => proc[p].ad = proc[p].req /\ proc[p].n = proc[p].req
         /\ proc[p].pc \in {"match", "check", "deliver"} => proc[p].replan
         /\ sandbox => tokens = {<<proc[p].req, "token">>}
         /\ Below(proc[p].req)
    /\ rp.pc \in {"log", "deliver"} =>
         /\ rp.tok[2] = "token" /\ rp.tok[1] > 0
         /\ sandbox => tokens = {rp.tok}
         /\ Below(rp.tok[1])
LastToken ==
    /\ (\A p \in Procs : ~ First(p)) =>
         /\ tokens = {} \/ \E m \in 0 .. MaxToken : tokens = {<<m, "token">>}
         /\ starts <= 1 /\ (tokens # {} => starts = 0)
    /\ \A c \in Copies, m \in 0 .. MaxToken :
         copy[c].st # "none" /\ <<m, "token">> \in tokens => copy[c].tok <= m
Waits(c) == copy[c].known /\ copy[c].st \in {"sent", "accepted", "failed"}
Covered ==
    /\ \A c \in Copies : Waits(c) /\ sandbox =>
         /\ \E t \in tokens : t[2] = "token"
         /\ copy[c].st = "failed" => <<copy[c].tok, "token">> \notin tokens
    /\ \A c, d \in Copies :
         c # d /\ copy[d].st = "accepted" /\ <<copy[d].tok, "token">> \in tokens => ~ Waits(c)
    /\ \A c, d \in Copies : Sent(c) /\ ~ copy[c].replan /\ d # c => copy[d].st = "none"
Planned == NoRetry /\ InHand /\ Listed /\ FirstToken /\ Numbered /\ LastToken /\ Covered
Orderly == /\ used["crash"] = 0 /\ used["break"] = 0 /\ used["zombie"] = 0
           /\ used["log"] = 0 \/ used["replan"] <= 1

\* A quiet step keeps them.
LEMMA QuietPlanned ==
    ASSUME TypeOK, Calm, Orderly, Planned, Quiet
    PROVE  Planned'
<1>0. ASSUME NEW c \in Copies
      PROVE  /\ copy'[c].tok = copy[c].tok /\ copy'[c].replan = copy[c].replan
             /\ copy'[c].known = copy[c].known
             /\ copy'[c].st = "none" <=> copy[c].st = "none"
             /\ copy'[c].st = copy[c].st \/ copy'[c].st = "over"
             /\ (Sent(c)' => Sent(c)) /\ (Waits(c)' => Waits(c))
  BY QuietCopy DEF Sent, Waits
<1>1. /\ UNCHANGED <<rp, deep, shallow, starts>>
      /\ used'["log"] = used["log"] /\ used'["replan"] = used["replan"]
      /\ lb' = "scheduled" => lb = "scheduled"
      /\ (tokens' = tokens /\ sandbox' = sandbox) \/ (tokens' = {} /\ sandbox' = FALSE)
      /\ tokens' \subseteq tokens /\ (sandbox' => sandbox /\ tokens' = tokens)
  BY DEF Quiet
<1>2. ASSUME NEW p \in Procs
      PROVE  /\ Active(p)' => Active(p) /\ proc'[p].cmd = proc[p].cmd
             /\ proc'[p].cmd = "jobresubmit" => proc[p].cmd = "jobresubmit"
             /\ proc'[p].cmd = "jobresubmit" /\ proc[p].pc = "queued" => proc'[p].pc = "queued"
             /\ Submits(p)' => Submits(p)
             /\ First(p)' => First(p)
             /\ Again(p)' => Again(p)
             /\ First(p) /\ ~ First(p)' => proc[p].pc # "put"
  <2>1. CASE proc'[p] = Free /\ proc[p].pc # "put"
    <3>1. proc'[p].cmd = "none" /\ proc'[p].pc = "none"
      BY <2>1 DEF Free
    <3>2. QED
      BY <2>1, <3>1 DEF Active, Submits, First, Again
  <2>2. CASE ~ (proc'[p] = Free /\ proc[p].pc # "put")
    BY <2>2, QuietProc, Zenon DEF Active, Submits, First, Again
  <2>3. QED
    BY <2>1, <2>2
<1>3. NoRetry'
  BY <1>1, <1>2, Zenon DEF Planned, NoRetry
<1>4. InHand'
  BY <1>0, <1>1, <1>2 DEF Planned, InHand
<1>5. Listed'
  BY <1>0, <1>1, <1>2 DEF Planned, Listed
<1>6. FirstToken'
  <2> SUFFICES ASSUME NEW p \in Procs, First(p)'
               PROVE  /\ starts' = 0 /\ proc'[p].ad = 0 /\ proc'[p].n = 0 /\ ~ proc'[p].replan
                      /\ tokens' \subseteq {T, M} /\ \A c \in Copies : copy'[c].st = "none"
                      /\ proc'[p].pc # "put" => M \notin tokens'
                      /\ proc'[p].pc \in {"match", "check", "deliver"} /\ sandbox' => T \in tokens'
    BY DEF FirstToken
  <2>1. proc'[p] # Free
    BY DEF First, Submits, Active, Free
  <2>2. /\ starts = 0 /\ proc[p].ad = 0 /\ proc[p].n = 0 /\ ~ proc[p].replan
        /\ tokens \subseteq {T, M} /\ \A c \in Copies : copy[c].st = "none"
        /\ proc[p].pc # "put" => M \notin tokens
        /\ proc[p].pc \in {"match", "check", "deliver"} /\ sandbox => T \in tokens
    BY <1>2 DEF Planned, FirstToken
  <2>3. /\ proc'[p].ad = 0 /\ proc'[p].n = 0 /\ ~ proc'[p].replan
        /\ proc'[p].pc # "put" => M \notin tokens
        /\ proc'[p].pc \in {"match", "check", "deliver"} => proc[p].pc \in {"match", "check", "deliver"}
    BY <2>1, <2>2, QuietProc DEF M
  <2>4. QED
    BY <1>0, <1>1, <2>2, <2>3
<1>7. Numbered'
  <2>1. \A k : Below(k) => \A c \in Copies : copy'[c].st # "none" => copy'[c].tok < k
    BY <1>0 DEF Below
  <2>2. ASSUME NEW p \in Procs, Again(p)'
        PROVE  /\ proc'[p].pc \in {"queued", "decide", "match", "check", "deliver"}
               /\ proc'[p].pc # "queued" => proc'[p].ad = proc'[p].req /\ proc'[p].n = proc'[p].req
               /\ proc'[p].pc \in {"match", "check", "deliver"} => proc'[p].replan
               /\ sandbox' => tokens' = {<<proc'[p].req, "token">>}
               /\ Below(proc[p].req)'
    <3>1. proc'[p] # Free
      BY <2>2 DEF Again, Submits, Active, Free
    <3>2. /\ proc[p].pc \in {"queued", "decide", "match", "check", "deliver"}
          /\ proc[p].pc # "queued" => proc[p].ad = proc[p].req /\ proc[p].n = proc[p].req
          /\ proc[p].pc \in {"match", "check", "deliver"} => proc[p].replan
          /\ sandbox => tokens = {<<proc[p].req, "token">>}
          /\ Below(proc[p].req)
      BY <1>2, <2>2 DEF Planned, Numbered
    <3>3. proc'[p].req = proc[p].req
      BY <3>1, QuietProc, Zenon
    <3>4. Below(proc[p].req)'
      BY <2>1, <3>2, <3>3 DEF Below
    <3>5. /\ proc'[p].pc \in {"queued", "decide", "match", "check", "deliver"}
          /\ proc'[p].pc # "queued" => proc'[p].ad = proc'[p].req /\ proc'[p].n = proc'[p].req
          /\ proc'[p].pc \in {"match", "check", "deliver"} => proc'[p].replan
      BY <3>1, <3>2, QuietProc, Zenon
    <3>6. QED
      BY <1>1, <3>2, <3>3, <3>4, <3>5
  <2>3. ASSUME rp'.pc \in {"log", "deliver"}
        PROVE  /\ rp'.tok[2] = "token" /\ rp'.tok[1] > 0
               /\ sandbox' => tokens' = {rp'.tok}
               /\ Below(rp.tok[1])'
    <3>1. /\ rp.tok[2] = "token" /\ rp.tok[1] > 0
          /\ sandbox => tokens = {rp.tok}
          /\ Below(rp.tok[1])
      BY <1>1, <2>3 DEF Planned, Numbered
    <3>2. Below(rp.tok[1])'
      BY <1>1, <2>1, <3>1 DEF Below
    <3>3. QED
      BY <1>1, <3>1, <3>2
  <2>4. QED
    BY <2>2, <2>3 DEF Numbered
<1>8. LastToken'
  <2>1. CASE \A p \in Procs : ~ First(p)
    BY <1>0, <1>1, <2>1 DEF Planned, LastToken
  <2>2. ASSUME NEW p \in Procs, First(p), ~ First(p)'
        PROVE  starts = 0 /\ (tokens' = {} \/ tokens' = {<<0, "token">>})
    BY <1>1, <1>2, <2>2 DEF Planned, FirstToken, T, M
  <2>3. 0 \in 0 .. MaxToken
    BY Limits
  <2>4. \A c \in Copies, m \in 0 .. MaxToken :
          copy'[c].st # "none" /\ <<m, "token">> \in tokens' => copy'[c].tok <= m
    BY <1>0, <1>1 DEF Planned, LastToken
  <2>5. QED
    BY <1>1, <2>1, <2>2, <2>3, <2>4 DEF LastToken
<1>9. Covered'
  <2>1. ASSUME NEW c \in Copies, Waits(c)', sandbox'
        PROVE  /\ \E t \in tokens' : t[2] = "token"
               /\ copy'[c].st = "failed" => <<copy'[c].tok, "token">> \notin tokens'
    BY <1>0, <1>1, <2>1 DEF Planned, Covered
  <2>2. ASSUME NEW c \in Copies, NEW d \in Copies, c # d, copy'[d].st = "accepted",
               <<copy'[d].tok, "token">> \in tokens'
        PROVE  ~ Waits(c)'
    BY <1>0, <1>1, <2>2 DEF Planned, Covered
  <2>3. \A c, d \in Copies : Sent(c)' /\ ~ copy'[c].replan /\ d # c => copy'[d].st = "none"
    BY <1>0 DEF Planned, Covered
  <2>4. QED
    BY <2>1, <2>2, <2>3 DEF Covered
<1>10. QED
  BY <1>3, <1>4, <1>5, <1>6, <1>7, <1>8, <1>9, Zenon DEF Planned

\* A busy step of a processor keeps them: it is a submission, and alone.
LEMMA BusyPlanned ==
    ASSUME TypeOK, Calm, Orderly, Planned, NEW p \in Procs, Busy(p)
    PROVE  Planned'
<1> DEFINE r == proc[p]
<1>a. Active(p) /\ ~ (r.pc = "back" /\ r.cmd # "jobresubmit")
  BY BusyFrame, Zenon DEF Active, Calm, Orderly
<1>b. r.cmd = "jobsubmit" /\ Submits(p) /\ ~ TakeBack(p) /\ ~ Resubmits(p)
  <2>1. r.cmd \in {"jobsubmit", "jobresubmit"} /\ (r.cmd = "jobresubmit" => r.pc = "queued" /\ ~ sandbox)
    BY <1>a DEF Planned, NoRetry, TypeOK, ProcType
  <2>2. r.pc = "queued" => sandbox
    BY Zenon DEF Busy, Consider, TakeBack, Resubmits, Shallow, Deep, Reschedules, Submit, MakesToken,
       PutsBack, PutBack, Deliver
  <2>3. QED
    BY <1>a, <2>1, <2>2 DEF Submits, TakeBack, Resubmits, Shallow, Deep
<1>0. /\ \A q \in Procs : q # p => proc'[q] = proc[q] /\ ~ Submits(q) /\ ~ Submits(q)'
      /\ \A c \in Copies : ~ Sent(c)
      /\ rp.pc = "idle" /\ ~ (lb = "scheduled" /\ used["log"] = 0)
      /\ UNCHANGED <<rp, used, sandbox, starts>> /\ (lb' = "scheduled" => lb = "scheduled")
      /\ proc'[p].cmd = "jobsubmit" /\ proc'[p].req = r.req /\ r.req \in 0 .. MaxToken
  <2>1. \A q \in Procs : q # p => ~ Submits(q)
    BY <1>b DEF Planned, InHand
  <2>2. \A q \in Procs : q # p => proc'[q] = proc[q] /\ ~ Submits(q)'
    BY <2>1, BusyFrame DEF Submits, Active
  <2>3. (\A c \in Copies : ~ Sent(c)) /\ rp.pc = "idle" /\ ~ (lb = "scheduled" /\ used["log"] = 0)
    BY <1>b DEF Planned, InHand, Listed
  <2>4. r.req \in 0 .. MaxToken
    BY DEF TypeOK, ProcType
  <2>5. QED
    BY <1>b, <2>1, <2>2, <2>3, <2>4, BusyFrame, Zenon
<1>c. deep' = deep /\ shallow' = shallow
  BY <1>b, Zenon DEF Busy, Consider, Reschedules, Submit, MakesToken, PutsBack, PutBack, Deliver, lbvars,
     counts
<1>f. First(p) =>
        /\ starts = 0 /\ r.ad = 0 /\ r.n = 0 /\ ~ r.replan
        /\ tokens \subseteq {T, M} /\ \A c \in Copies : copy[c].st = "none"
        /\ r.pc # "put" => M \notin tokens
        /\ r.pc \in {"match", "check", "deliver"} /\ sandbox => T \in tokens
  BY DEF Planned, FirstToken
<1>g. Again(p) =>
        /\ r.pc \in {"queued", "decide", "match", "check", "deliver"}
        /\ r.pc # "queued" => r.ad = r.req /\ r.n = r.req
        /\ r.pc \in {"match", "check", "deliver"} => r.replan
        /\ sandbox => tokens = {<<r.req, "token">>}
        /\ Below(r.req)
  BY DEF Planned, Numbered
<1>h. (First(p) \/ Again(p)) /\ ~ (First(p) /\ Again(p)) /\ \A q \in Procs : q # p => ~ First(q) /\ ~ First(q)' /\ ~ Again(q)'
  BY <1>0, <1>b DEF First, Again
<1>i. \A q \in Procs : q # p =>
        /\ proc'[q].cmd = "jobresubmit" => proc'[q].pc = "queued" /\ ~ sandbox'
        /\ Active(q)' => proc'[q].cmd # "none"
  BY <1>0 DEF Planned, NoRetry, Active
<1>n. NoRetry' /\ (rp'.pc = "idle") /\ ~ (lb' = "scheduled" /\ used'["log"] = 0)
  BY <1>0, <1>c, <1>i, Zenon DEF Planned, NoRetry
<1>l. Listed'
  BY <1>0, <1>n DEF Planned, Listed
\* what is left to show when no copy is delivered
<1>q. ASSUME copy' = copy, Active(p)',
             First(p) =>
               /\ proc'[p].ad = 0 /\ proc'[p].n = 0 /\ ~ proc'[p].replan
               /\ tokens' \subseteq {T, M}
               /\ proc'[p].pc # "put" => M \notin tokens'
               /\ proc'[p].pc \in {"match", "check", "deliver"} => T \in tokens',
             Again(p) =>
               /\ tokens' = tokens /\ proc'[p].pc \in {"decide", "match"}
               /\ proc'[p].ad = r.req /\ proc'[p].n = r.req
               /\ proc'[p].pc = "match" => proc'[p].replan
      PROVE  Planned'
  <2>1. (First(p)' <=> First(p)) /\ (Again(p)' <=> Again(p)) /\ \A c \in Copies : ~ Sent(c)'
    BY <1>0, <1>b, <1>q, Zenon DEF First, Again, Submits, Sent
  <2>2. InHand'
    BY <1>0, <2>1, Zenon DEF InHand
  <2>3. FirstToken'
    BY <1>0, <1>f, <1>h, <1>q, <2>1 DEF FirstToken
  <2>4. Numbered'
    <3>1. Again(p) => Below(proc[p].req)'
      BY <1>0, <1>g, <1>q, Zenon DEF Below
    <3>2. QED
      BY <1>0, <1>g, <1>h, <1>q, <2>1, <3>1, Zenon DEF Numbered
  <2>5. CASE First(p)
    <3>1. LastToken'
      BY <1>f, <1>q, <2>1, <2>5, Zenon DEF LastToken
    <3>2. Covered'
      BY <1>f, <1>q, <2>5 DEF Covered, Waits, Sent
    <3>3. QED
      BY <1>n, <1>l, <2>2, <2>3, <2>4, <3>1, <3>2 DEF Planned
  <2>6. CASE Again(p)
    <3>1. tokens' = tokens /\ (\A q \in Procs : ~ First(q))
      BY <1>h, <1>q, <2>6, Zenon
    <3>2. LastToken'
      BY <1>0, <1>q, <3>1, Zenon DEF Planned, LastToken
    <3>3. Covered'
      BY <1>0, <1>q, <3>1, Zenon DEF Planned, Covered, Waits, Sent
    <3>4. QED
      BY <1>n, <1>l, <2>2, <2>3, <2>4, <3>2, <3>3, Zenon DEF Planned
  <2>7. QED
    BY <1>h, <2>5, <2>6
<1>p. {"decide", "put", "queued", "match", "log"} \subseteq PC
  BY DEF PC
<1>1. CASE Consider(p)
  <2>1. copy' = copy /\ tokens' = tokens /\ r.pc = "queued" /\ sandbox
    BY <1>1 DEF Consider, files
  <2>2. proc'[p].pc = "decide" /\ ~ proc'[p].replan /\ Active(p)'
    BY <1>1, <1>b, Considered, Zenon DEF Active
  <2>3. CASE First(p)
    <3>1. tokens \subseteq {T}
      BY <1>f, <2>1, <2>3 DEF T, M
    <3>2. \A m \in Scanned(p) : m = 0
      BY <3>1 DEF Scanned, T
    <3>3. proc'[p].n = 0 /\ proc'[p].ad = 0
      BY <1>1, <1>b, <1>f, <2>3, <3>2, Considered, Zenon
    <3>4. QED
      BY <1>f, <1>h, <1>q, <2>1, <2>2, <2>3, <3>3, Zenon
  <2>4. CASE Again(p)
    <3>1. tokens = {<<r.req, "token">>}
      BY <1>g, <2>1, <2>4
    <3>2. \A m \in Scanned(p) : m = r.req
      BY <3>1 DEF Scanned
    <3>3. proc'[p].n = r.req /\ proc'[p].ad = r.req
      BY <1>1, <3>1, <3>2, Considered, Zenon
    <3>4. QED
      BY <1>h, <1>q, <2>1, <2>2, <2>4, <3>3, Zenon
  <2>5. QED
    BY <1>h, <2>3, <2>4
<1>2. CASE Reschedules(p)
  <2>1. copy' = copy /\ tokens' = tokens /\ r.pc = "decide" /\ r.ad > 0
    BY <1>2, MatchesAgain, Zenon DEF Reschedules, Submit
  <2>2. Again(p)
    BY <1>f, <1>h, <2>1
  <2>3. /\ proc'[p].pc = "match" /\ proc'[p].replan = TRUE
        /\ proc'[p].ad = r.ad /\ proc'[p].n = r.n
    <3>1. r \in ProcType /\ proc'[p] = [r EXCEPT !.pc = "match", !.replan = TRUE]
      BY <1>2, MatchesAgain, Zenon DEF TypeOK
    <3>2. QED
      BY <3>1 DEF ProcType
  <2>4. QED
    BY <1>g, <1>h, <1>q, <2>1, <2>2, <2>3 DEF Active
<1>3. CASE MakesToken(p)
  <2>1. copy' = copy /\ tokens' = tokens \cup {<<r.n, "tmp">>} /\ r.pc = "decide" /\ Goes(p, "put")
    <3>1. r.ad \in Nat /\ r.n \in Nat
      BY Limits DEF TypeOK, ProcType
    <3>2. QED
      BY <1>3, <3>1 DEF MakesToken, Submit
  <2>2. First(p)
    <3>1. Again(p) => r.ad = r.req /\ r.n = r.req /\ r.req > 0
      BY <1>g, <2>1, Zenon DEF Again
    <3>2. QED
      BY <1>0, <1>3, <1>h, <3>1 DEF MakesToken
  <2>3. proc'[p].pc = "put" /\ proc'[p].ad = 0 /\ proc'[p].n = 0 /\ ~ proc'[p].replan
    BY <1>f, <1>p, <2>1, <2>2, Fields
  <2>4. tokens' \subseteq {T, M}
    BY <1>f, <2>1, <2>2, Zenon DEF M
  <2>5. QED
    BY <1>h, <1>q, <2>1, <2>2, <2>3, <2>4 DEF Active
<1>4. CASE PutsBack(p)
  <2>1. copy' = copy /\ r.pc = "put" /\ Goes(p, "match")
        /\ tokens' = (tokens \ {<<r.n, "tmp">>}) \cup {<<r.n, "token">>}
    BY <1>4, Zenon DEF PutsBack, PutBack, Replaced
  <2>2. First(p)
    BY <1>g, <1>h, <2>1, Zenon
  <2>3. proc'[p].pc = "match" /\ proc'[p].ad = 0 /\ proc'[p].n = 0 /\ ~ proc'[p].replan
    BY <1>f, <1>p, <2>1, <2>2, Fields, Zenon
  <2>4. tokens' = (tokens \ {M}) \cup {T}
    BY <1>f, <2>1, <2>2 DEF T, M
  <2>5. tokens' \subseteq {T, M} /\ T \in tokens' /\ M \notin tokens'
    BY <1>f, <2>2, <2>4 DEF T, M
  <2>6. QED
    BY <1>h, <1>q, <2>1, <2>2, <2>3, <2>5, Zenon DEF Active
<1>5. CASE Deliver(p)
  <2>1. PICK c \in Copies :
          /\ copy[c].st = "none"
          /\ copy' = [copy EXCEPT ![c] = [st |-> "sent", tok |-> r.ad, known |-> TRUE,
                                          replan |-> r.replan]]
    BY <1>5, Zenon DEF Deliver, FreeCopy
  <2>2. tokens' = tokens /\ r.pc = "deliver" /\ Goes(p, "log")
    BY <1>5 DEF Deliver, files
  <2>3. /\ copy'[c].st = "sent" /\ copy'[c].tok = r.ad /\ copy'[c].replan = r.replan
        /\ \A d \in Copies : d # c => copy'[d] = copy[d]
    BY <2>1, Zenon DEF TypeOK
  <2>4. \A q \in Procs : ~ Submits(q)' /\ ~ First(q)' /\ ~ Again(q)'
    <3>1. ~ Submits(p)'
      BY <2>2, <1>p, Fields DEF Submits, Active
    <3>2. QED
      BY <1>0, <3>1, Zenon DEF First, Again
  <2>5. \A d \in Copies : Sent(d)' => d = c
    BY <1>0, <2>3 DEF Sent
  <2>6. InHand'
    BY <1>n, <2>4, <2>5 DEF InHand
  <2>7. FirstToken' /\ Numbered'
    BY <1>n, <2>4 DEF FirstToken, Numbered
  <2>8. CASE First(p)
    <3>1. /\ starts = 0 /\ r.ad = 0 /\ (\A d \in Copies : copy[d].st = "none")
          /\ tokens \subseteq {T} /\ (sandbox => T \in tokens)
      BY <1>f, <2>2, <2>8, Zenon DEF T, M
    <3>2. LastToken'
      <4>1. tokens = {} \/ tokens = {<<0, "token">>}
        BY <3>1 DEF T
      <4>2. 0 \in 0 .. MaxToken
        BY Limits
      <4>3. \A d \in Copies, m \in 0 .. MaxToken : copy'[d].st # "none" => copy'[d].tok <= m
        BY <2>3, <3>1
      <4>4. QED
        BY <1>0, <2>2, <3>1, <4>1, <4>2, <4>3 DEF LastToken
    <3>3. Covered'
      BY <1>0, <2>2, <2>3, <3>1 DEF Covered, Waits, Sent, T
    <3>4. QED
      BY <1>n, <1>l, <2>6, <2>7, <3>2, <3>3 DEF Planned
  <2>9. CASE Again(p)
    <3>1. /\ r.ad = r.req /\ r.replan /\ (sandbox => tokens = {<<r.req, "token">>})
          /\ \A d \in Copies : copy[d].st # "none" => copy[d].tok < r.req
      BY <1>g, <2>2, <2>9 DEF Below
    <3>2. \A m : <<m, "token">> \in tokens => m = r.req
      BY <3>1 DEF Calm, Orderly
    <3>3. LastToken'
      <4>1. \A d \in Copies : copy'[d].st # "none" => copy'[d].tok <= r.req
        BY <1>0, <2>3, <3>1 DEF TypeOK, CopyType
      <4>2. \A q \in Procs : ~ First(q)
        BY <1>h, <2>9, Zenon
      <4>3. QED
        BY <1>0, <2>2, <3>2, <4>1, <4>2, Zenon DEF Planned, LastToken
    <3>4. Covered'
      <4>1. ASSUME NEW d \in Copies, copy'[d].st = "accepted"
            PROVE  <<copy'[d].tok, "token">> \notin tokens'
        <5>1. d # c /\ copy[d].tok < r.req /\ copy'[d].tok = copy[d].tok
          BY <2>3, <3>1, <4>1
        <5>2. copy[d].tok # r.req
          BY <1>0, <5>1 DEF TypeOK, CopyType
        <5>3. QED
          BY <2>2, <3>2, <5>1, <5>2
      <4>2. ASSUME NEW d \in Copies, Waits(d)', sandbox'
            PROVE  /\ \E t \in tokens' : t[2] = "token"
                   /\ copy'[d].st = "failed" => <<copy'[d].tok, "token">> \notin tokens'
        <5>1. \E t \in tokens' : t[2] = "token"
          <6>1. <<r.req, "token">> \in tokens' /\ <<r.req, "token">>[2] = "token"
            BY <1>0, <2>2, <3>1, <4>2, Zenon
          <6>2. QED
            BY <6>1, Zenon
        <5>2. copy'[d].st = "failed" => Waits(d) /\ copy'[d] = copy[d]
          BY <2>3, <4>2 DEF Waits
        <5>3. QED
          BY <1>0, <2>2, <4>2, <5>1, <5>2 DEF Planned, Covered
      <4>3. \A d \in Copies : Sent(d)' => copy'[d].replan
        BY <2>3, <2>5, <3>1, Zenon
      <4>4. QED
        BY <4>1, <4>2, <4>3 DEF Covered
    <3>5. QED
      BY <1>n, <1>l, <2>6, <2>7, <3>3, <3>4, Zenon DEF Planned
  <2>10. QED
    BY <1>h, <2>8, <2>9
<1>6. QED
  BY <1>b, <1>1, <1>2, <1>3, <1>4, <1>5 DEF Busy

\* An event of a copy keeps them: the token that a copy takes is the last one, and a
\* copy without a token is one the replanner has replaced.
LEMMA CopyPlanned ==
    ASSUME TypeOK, Calm, Orderly, Planned, NEW c \in Copies, IsAccepted(c) \/ Start(c) \/ Report(c)
    PROVE  Planned'
<1>0. copy[c] \in CopyType /\ copy[c].st \in {"sent", "accepted", "failed"}
  BY DEF TypeOK, IsAccepted, Accept, Start, Report
<1>1. UNCHANGED <<rp, deep, shallow, sandbox, used>>
  BY DEF IsAccepted, Accept, Start, Report, files, counts
<1>f. \A p \in Procs : ~ First(p)
  BY <1>0 DEF Planned, FirstToken
<1>t. /\ tokens = {} \/ \E m \in 0 .. MaxToken : tokens = {<<m, "token">>}
      /\ starts <= 1 /\ (tokens # {} => starts = 0) /\ starts \in Nat
      /\ \A d \in Copies, m \in 0 .. MaxToken :
           copy[d].st # "none" /\ <<m, "token">> \in tokens => copy[d].tok <= m
  BY <1>f, Zenon DEF Planned, LastToken, TypeOK
\* the processors, when nothing is asked of the WM
<1>p. ASSUME proc' = proc
      PROVE  /\ NoRetry'
             /\ \A p \in Procs : (Submits(p)' <=> Submits(p)) /\ (First(p)' <=> First(p)) /\ (Again(p)' <=> Again(p))
  BY <1>1, <1>p DEF Planned, NoRetry, Submits, First, Again, Active
\* the copies, when no token is taken
<1>k. ASSUME \A d \in Copies : /\ copy'[d].tok = copy[d].tok
                               /\ copy'[d].st = "none" <=> copy[d].st = "none",
             UNCHANGED <<tokens, starts>>, \A p \in Procs : ~ First(p)',
             \A p \in Procs : Again(p)' => Again(p) /\ proc'[p] = proc[p]
      PROVE  FirstToken' /\ Numbered' /\ LastToken'
  <2>1. \A k : Below(k) => \A d \in Copies : copy'[d].st # "none" => copy'[d].tok < k
    BY <1>k, Zenon DEF Below
  <2>2. ASSUME NEW p \in Procs, Again(p)'
        PROVE  /\ proc'[p].pc \in {"queued", "decide", "match", "check", "deliver"}
               /\ proc'[p].pc # "queued" => proc'[p].ad = proc'[p].req /\ proc'[p].n = proc'[p].req
               /\ proc'[p].pc \in {"match", "check", "deliver"} => proc'[p].replan
               /\ sandbox' => tokens' = {<<proc'[p].req, "token">>}
               /\ Below(proc[p].req)'
    <3>1. /\ proc'[p] = proc[p]
          /\ proc[p].pc \in {"queued", "decide", "match", "check", "deliver"}
          /\ proc[p].pc # "queued" => proc[p].ad = proc[p].req /\ proc[p].n = proc[p].req
          /\ proc[p].pc \in {"match", "check", "deliver"} => proc[p].replan
          /\ sandbox => tokens = {<<proc[p].req, "token">>}
          /\ Below(proc[p].req)
      BY <1>k, <2>2, Zenon DEF Planned, Numbered
    <3>2. Below(proc[p].req)'
      BY <2>1, <3>1 DEF Below
    <3>3. QED
      BY <1>1, <1>k, <3>1, <3>2, Zenon
  <2>3. ASSUME rp'.pc \in {"log", "deliver"}
        PROVE  /\ rp'.tok[2] = "token" /\ rp'.tok[1] > 0
               /\ sandbox' => tokens' = {rp'.tok}
               /\ Below(rp.tok[1])'
    <3>1. /\ rp.tok[2] = "token" /\ rp.tok[1] > 0
          /\ sandbox => tokens = {rp.tok}
          /\ Below(rp.tok[1])
      BY <1>1, <2>3, Zenon DEF Planned, Numbered
    <3>2. Below(rp.tok[1])'
      BY <1>1, <2>1, <3>1, Zenon DEF Below
    <3>3. QED
      BY <1>1, <1>k, <3>1, <3>2
  <2>4. Numbered'
    BY <2>2, <2>3 DEF Numbered
  <2>5. LastToken'
    BY <1>k, <1>t, Zenon DEF LastToken
  <2>6. FirstToken'
    BY <1>k DEF FirstToken
  <2>7. QED
    BY <2>4, <2>5, <2>6
<1>2. CASE IsAccepted(c)
  <2>1. /\ copy[c].st = "sent" /\ proc' = proc /\ UNCHANGED <<tokens, starts>>
        /\ copy' = [d \in Copies |-> IF d = c THEN [copy[c] EXCEPT !.st = "accepted"]
                                     ELSE IF copy[c].replan /\ copy[d].st # "sent"
                                       THEN [copy[d] EXCEPT !.known = FALSE] ELSE copy[d]]
    BY <1>2 DEF IsAccepted, Accept, files
  <2>2. /\ copy'[c].st = "accepted" /\ copy'[c].tok = copy[c].tok /\ copy'[c].known = copy[c].known
        /\ copy'[c].replan = copy[c].replan
    BY <1>0, <2>1 DEF CopyType
  <2>3. ASSUME NEW d \in Copies, d # c
        PROVE  /\ copy'[d].st = copy[d].st /\ copy'[d].tok = copy[d].tok
               /\ copy'[d].replan = copy[d].replan
               /\ copy'[d].known => copy[d].known
               /\ copy[d].st # "sent"
               /\ copy[c].replan => ~ copy'[d].known
               /\ ~ copy[c].replan => copy[d].st = "none"
    <3>1. copy[d] \in CopyType
      BY DEF TypeOK
    <3>2. copy[d].st # "sent" /\ (~ copy[c].replan => copy[d].st = "none")
      BY <2>1, <2>3 DEF Planned, InHand, Covered, Sent
    <3>3. QED
      BY <2>1, <2>3, <3>1, <3>2 DEF CopyType
  <2>4. rp.pc = "idle" /\ \A p \in Procs : ~ Submits(p) /\ ~ Submits(p)'
    BY <1>p, <2>1, Zenon DEF Planned, InHand, Sent
  <2>5. \A d \in Copies : ~ Sent(d)'
    BY <2>2, <2>3 DEF Sent
  <2>6. InHand' /\ Listed'
    BY <1>1, <2>4, <2>5 DEF Planned, InHand, Listed
  <2>7. FirstToken' /\ Numbered' /\ LastToken'
    <3>1. \A p \in Procs : ~ First(p)' /\ ~ Again(p)'
      BY <2>4 DEF First, Again
    <3>2. \A d \in Copies : copy'[d].tok = copy[d].tok /\ (copy'[d].st = "none" <=> copy[d].st = "none")
      BY <2>1, <2>2, <2>3, Zenon
    <3>3. QED
      BY <1>k, <2>1, <3>1, <3>2
  <2>8. Covered'
    <3>1. \A d \in Copies : Waits(d)' => Waits(d) /\ (d # c => copy'[d].st = copy[d].st)
      BY <2>1, <2>2, <2>3 DEF Waits
    <3>2. ASSUME NEW d \in Copies, Waits(d)', sandbox'
          PROVE  /\ \E t \in tokens' : t[2] = "token"
                 /\ copy'[d].st = "failed" => <<copy'[d].tok, "token">> \notin tokens'
      BY <1>1, <2>1, <2>2, <2>3, <3>1, <3>2 DEF Planned, Covered
    <3>3. ASSUME NEW d \in Copies, NEW e \in Copies, d # e, copy'[e].st = "accepted",
                 <<copy'[e].tok, "token">> \in tokens'
          PROVE  ~ Waits(d)'
      <4>1. CASE e = c
        BY <2>3, <3>3, <4>1 DEF Waits
      <4>2. CASE e # c
        BY <2>1, <2>3, <3>1, <3>3, <4>2 DEF Planned, Covered
      <4>3. QED
        BY <4>1, <4>2
    <3>4. QED
      BY <2>5, <3>2, <3>3 DEF Covered
  <2>9. QED
    BY <1>p, <2>1, <2>6, <2>7, <2>8 DEF Planned
<1>3. CASE Start(c) /\ <<copy[c].tok, "token">> \notin tokens
  <2>1. /\ copy[c].st = "accepted" /\ proc' = proc /\ UNCHANGED <<tokens, starts, lb>>
        /\ copy' = [copy EXCEPT ![c].st = "failed"]
    BY <1>3 DEF Start
  <2>2. /\ copy'[c].st = "failed" /\ copy'[c].tok = copy[c].tok /\ copy'[c].known = copy[c].known
        /\ \A d \in Copies : d # c => copy'[d] = copy[d]
    BY <1>0, <2>1 DEF TypeOK, CopyType
  <2>3. \A d \in Copies : /\ (Sent(d)' <=> Sent(d)) /\ (Waits(d)' <=> Waits(d))
                          /\ copy'[d].tok = copy[d].tok
                          /\ copy'[d].st = "none" <=> copy[d].st = "none"
                          /\ copy'[d].st = "accepted" => d # c
    BY <2>1, <2>2 DEF Sent, Waits
  <2>4. InHand' /\ Listed'
    BY <1>1, <1>p, <2>1, <2>3 DEF Planned, InHand, Listed
  <2>5. FirstToken' /\ Numbered' /\ LastToken'
    BY <1>f, <1>k, <1>p, <2>1, <2>3, Zenon
  <2>6. Covered'
    <3>1. ASSUME NEW d \in Copies, Waits(d)', sandbox'
          PROVE  /\ \E t \in tokens' : t[2] = "token"
                 /\ copy'[d].st = "failed" => <<copy'[d].tok, "token">> \notin tokens'
      BY <1>1, <1>3, <2>1, <2>2, <2>3, <3>1 DEF Planned, Covered
    <3>2. ASSUME NEW d \in Copies, NEW e \in Copies, d # e, copy'[e].st = "accepted",
                 <<copy'[e].tok, "token">> \in tokens'
          PROVE  ~ Waits(d)'
      BY <2>1, <2>2, <2>3, <3>2 DEF Planned, Covered
    <3>3. ASSUME NEW d \in Copies, NEW e \in Copies, Sent(d)', ~ copy'[d].replan, e # d
          PROVE  copy'[e].st = "none"
      BY <2>1, <2>2, <2>3, <3>3 DEF Planned, Covered, Sent
    <3>4. QED
      BY <3>1, <3>2, <3>3 DEF Covered
  <2>7. QED
    BY <1>p, <2>1, <2>4, <2>5, <2>6 DEF Planned
<1>4. CASE Start(c) /\ <<copy[c].tok, "token">> \in tokens
  <2> DEFINE t == <<copy[c].tok, "token">>
  <2>1. /\ copy[c].st = "accepted" /\ proc' = proc /\ tokens' = tokens \ {t} /\ starts' = starts + 1
        /\ copy' = [copy EXCEPT ![c].st = "running"] /\ Logs("running")
    BY <1>4 DEF Start
  <2>2. tokens = {t} /\ tokens' = {} /\ starts' = 1 /\ sandbox
    BY <1>4, <1>t, <2>1 DEF Calm, Orderly
  <2>3. /\ copy'[c].st = "running" /\ copy'[c].tok = copy[c].tok
        /\ \A d \in Copies : d # c => copy'[d] = copy[d]
    BY <1>0, <2>1 DEF TypeOK, CopyType
  <2>4. /\ \A p \in Procs : ~ Again(p)
        /\ rp.pc \notin {"log", "deliver"}
    <3>1. copy[c].tok \in Nat /\ \A p \in Procs : proc[p].req \in Nat
      BY <1>0, Limits DEF CopyType, TypeOK, ProcType
    <3>2. ASSUME NEW p \in Procs, Again(p)
          PROVE  FALSE
      <4>1. tokens = {<<proc[p].req, "token">>} /\ copy[c].tok < proc[p].req
        BY <2>1, <2>2, <3>2 DEF Planned, Numbered, Below
      <4>2. t = <<proc[p].req, "token">>
        BY <2>2, <4>1, Zenon
      <4>3. copy[c].tok = proc[p].req
        BY <4>2
      <4>4. QED
        BY <3>1, <4>1, <4>3
    <3>3. ASSUME rp.pc \in {"log", "deliver"}
          PROVE  FALSE
      <4>1. tokens = {rp.tok} /\ copy[c].tok < rp.tok[1] /\ rp.tok[1] \in Nat
        BY <2>1, <2>2, <3>3, Limits DEF Planned, Numbered, Below, TypeOK, Tokens
      <4>2. rp.tok[1] = copy[c].tok
        BY <2>2, <4>1
      <4>3. QED
        BY <3>1, <4>1, <4>2
    <3>4. QED
      BY <3>2, <3>3
  <2>5. \A p \in Procs : ~ Submits(p) /\ ~ Submits(p)' /\ ~ First(p)' /\ ~ Again(p)'
    <3>1. \A p \in Procs : ~ Submits(p)
      BY <1>f, <2>4, Limits DEF First, Again, TypeOK, ProcType
    <3>2. QED
      BY <1>p, <2>1, <3>1 DEF First, Again
  <2>6. \A d \in Copies : (Sent(d)' => Sent(d)) /\ ~ Waits(d)'
    <3>1. \A d \in Copies : d # c => ~ Waits(d)
      BY <1>4, <2>1 DEF Planned, Covered
    <3>2. QED
      BY <2>3, <3>1 DEF Sent, Waits
  <2>7. lb' # "scheduled" \/ lb = "scheduled"
    BY <2>1 DEF Logs, After
  <2>8. InHand' /\ Listed'
    BY <1>1, <2>5, <2>6, <2>7, Zenon DEF Planned, InHand, Listed
  <2>9. FirstToken' /\ Numbered' /\ LastToken'
    BY <1>1, <2>2, <2>4, <2>5 DEF FirstToken, Numbered, LastToken
  <2>10. Covered'
    <3>1. ASSUME NEW d \in Copies, NEW e \in Copies, Sent(d)', ~ copy'[d].replan, e # d
          PROVE  copy'[e].st = "none"
      BY <2>1, <2>3, <2>6, <3>1 DEF Planned, Covered, Sent
    <3>2. QED
      BY <2>6, <3>1 DEF Covered
  <2>11. QED
    BY <1>p, <2>1, <2>8, <2>9, <2>10 DEF Planned
<1>5. CASE Report(c)
  <2>1. /\ copy[c].st = "failed" /\ UNCHANGED <<tokens, starts>>
        /\ copy' = [copy EXCEPT ![c] = [copy[c] EXCEPT !.st = "over", !.known = FALSE]]
    BY <1>5, Zenon DEF Report, TypeOK, files
  <2>2. /\ copy'[c].st = "over" /\ copy'[c].tok = copy[c].tok /\ copy'[c].known = FALSE
        /\ \A d \in Copies : d # c => copy'[d] = copy[d]
    BY <1>0, <2>1 DEF TypeOK, CopyType
  <2>3. \A d \in Copies : /\ (Sent(d)' => Sent(d) /\ d # c) /\ (Waits(d)' => Waits(d) /\ d # c)
                          /\ copy'[d].tok = copy[d].tok
                          /\ copy'[d].st = "none" <=> copy[d].st = "none"
                          /\ copy'[d].st = "accepted" => d # c
    BY <2>1, <2>2, Zenon DEF Sent, Waits
  <2>4. Covered'
    <3>1. ASSUME NEW d \in Copies, Waits(d)', sandbox'
          PROVE  /\ \E t \in tokens' : t[2] = "token"
                 /\ copy'[d].st = "failed" => <<copy'[d].tok, "token">> \notin tokens'
      BY <1>1, <2>1, <2>2, <2>3, <3>1 DEF Planned, Covered
    <3>2. ASSUME NEW d \in Copies, NEW e \in Copies, d # e, copy'[e].st = "accepted",
                 <<copy'[e].tok, "token">> \in tokens'
          PROVE  ~ Waits(d)'
      BY <2>1, <2>2, <2>3, <3>2 DEF Planned, Covered
    <3>3. ASSUME NEW d \in Copies, NEW e \in Copies, Sent(d)', ~ copy'[d].replan, e # d
          PROVE  copy'[e].st = "none"
      BY <2>1, <2>2, <2>3, <3>3 DEF Planned, Covered, Sent
    <3>4. QED
      BY <3>1, <3>2, <3>3 DEF Covered
  <2>5. CASE proc' = proc /\ lb' = lb
    <3>1. InHand' /\ Listed'
      BY <1>1, <1>p, <2>3, <2>5 DEF Planned, InHand, Listed
    <3>2. FirstToken' /\ Numbered' /\ LastToken'
      BY <1>f, <1>k, <1>p, <2>1, <2>3, <2>5
    <3>3. QED
      BY <1>p, <2>4, <2>5, <3>1, <3>2, Zenon DEF Planned
  <2>6. CASE copy[c].known /\ ~ ignore_job(c) /\ Resubmission(c)
    <3>1. ~ sandbox
      BY <2>1, <2>6 DEF Planned, Covered, Waits, ignore_job
    <3>2. PICK p \in Procs : /\ proc[p].pc = "none" /\ proc'[p] = Request("jobresubmit", 0)
                             /\ \A q \in Procs : q # p => proc'[q] = proc[q]
      BY <2>6, Asked
    <3>3. proc'[p].cmd = "jobresubmit" /\ proc'[p].pc = "queued"
      BY <3>2, Zenon DEF Request, Free
    <3>4. \A q \in Procs : Submits(q)' => Submits(q) /\ q # p
      BY <3>2, <3>3, Zenon DEF Submits, Active
    <3>5. \A q \in Procs : /\ First(q)' => First(q)
                           /\ Again(q)' => Again(q) /\ proc'[q] = proc[q]
      BY <3>2, <3>4, Zenon DEF First, Again
    <3>6. NoRetry'
      BY <1>1, <3>1, <3>2, <3>3 DEF Planned, NoRetry, Active
    <3>7. lb' # "scheduled" \/ lb = "scheduled"
      BY <2>6, Zenon DEF Resubmission, Logs, After
    <3>8. InHand' /\ Listed'
      BY <1>1, <2>3, <3>4, <3>7, Zenon DEF Planned, InHand, Listed
    <3>9. FirstToken' /\ Numbered' /\ LastToken'
      BY <1>f, <1>k, <2>1, <2>3, <3>5
    <3>10. QED
      BY <2>4, <3>6, <3>8, <3>9 DEF Planned
  <2>7. QED
    BY <1>5, <2>5, <2>6 DEF Report
<1>6. QED
  BY <1>2, <1>3, <1>4, <1>5

\* A step of the replanner keeps them: it lists the job when nobody has it in hand,
\* and gives the token a number above those of the copies.
LEMMA ReplanPlanned ==
    ASSUME TypeOK, Calm, Orderly, Orderly', Planned, List \/ ReplanStep
    PROVE  Planned'
<1>1. UNCHANGED <<copy, sandbox, starts>> /\ deep' = deep
  BY DEF List, ReplanStep, ScanToken, RenameToken, LogReplan, DeliverReplan, files, lbvars, counts
<1>2. /\ \A c \in Copies : (Sent(c)' <=> Sent(c)) /\ (Waits(c)' <=> Waits(c))
      /\ \A k : Below(k) => \A c \in Copies : copy'[c].st # "none" => copy'[c].tok < k
  BY <1>1 DEF Sent, Waits, Below
<1>t. /\ rp.pc \in {"idle", "scan", "rename", "log", "deliver"} /\ rp.tok \in Tokens
      /\ shallow \in Nat /\ used["replan"] \in Nat /\ used["log"] \in Nat
  BY DEF TypeOK, Faults
<1>r. shallow + (IF rp.pc \in {"scan", "rename", "log"} THEN 1 ELSE 0) <= used["replan"]
  BY DEF Planned, NoRetry
\* the processors and the tokens, in all steps but two
<1>k. ASSUME UNCHANGED <<proc, tokens>>, rp'.pc \in {"log", "deliver"} => rp.pc = "log" /\ rp'.tok = rp.tok,
             shallow' + (IF rp'.pc \in {"scan", "rename", "log"} THEN 1 ELSE 0) <= used'["replan"]
      PROVE  /\ NoRetry' /\ FirstToken' /\ Numbered' /\ LastToken' /\ Covered'
             /\ \A p \in Procs : Submits(p)' <=> Submits(p)
  <2>1. \A p \in Procs : /\ (Active(p)' <=> Active(p)) /\ (Submits(p)' <=> Submits(p))
                         /\ (First(p)' <=> First(p)) /\ (Again(p)' <=> Again(p))
    BY <1>k, Zenon DEF Submits, First, Again, Active
  <2>2. NoRetry'
    BY <1>1, <1>k, <2>1, Zenon DEF Planned, NoRetry
  <2>3. FirstToken'
    BY <1>1, <1>k, <2>1 DEF Planned, FirstToken
  <2>4. ASSUME NEW p \in Procs, Again(p)'
        PROVE  /\ proc'[p].pc \in {"queued", "decide", "match", "check", "deliver"}
               /\ proc'[p].pc # "queued" => proc'[p].ad = proc'[p].req /\ proc'[p].n = proc'[p].req
               /\ proc'[p].pc \in {"match", "check", "deliver"} => proc'[p].replan
               /\ sandbox' => tokens' = {<<proc'[p].req, "token">>}
               /\ Below(proc[p].req)'
    <3>1. Below(proc[p].req)'
      BY <1>2, <1>k, <2>1, <2>4, Zenon DEF Planned, Numbered, Below
    <3>2. QED
      BY <1>1, <1>k, <2>1, <2>4, <3>1, Zenon DEF Planned, Numbered
  <2>5. ASSUME rp'.pc \in {"log", "deliver"}
        PROVE  /\ rp'.tok[2] = "token" /\ rp'.tok[1] > 0
               /\ sandbox' => tokens' = {rp'.tok}
               /\ Below(rp.tok[1])'
    <3>1. /\ rp.tok[2] = "token" /\ rp.tok[1] > 0 /\ rp'.tok = rp.tok
          /\ sandbox => tokens = {rp.tok}
          /\ Below(rp.tok[1])
      BY <1>k, <2>5, Zenon DEF Planned, Numbered
    <3>2. Below(rp.tok[1])'
      BY <1>2, <3>1, Zenon DEF Below
    <3>3. QED
      BY <1>1, <1>k, <3>1, <3>2, Zenon
  <2>6. Numbered'
    BY <2>4, <2>5 DEF Numbered
  <2>7. LastToken'
    BY <1>1, <1>k, <2>1, Zenon DEF Planned, LastToken
  <2>8. Covered'
    BY <1>1, <1>2, <1>k DEF Planned, Covered
  <2>9. QED
    BY <2>1, <2>2, <2>3, <2>6, <2>7, <2>8, Zenon
<1>3. CASE List
  <2>1. /\ rp.pc = "idle" /\ lb = "scheduled" /\ rp'.pc = "scan" /\ shallow' = shallow /\ lb' = lb
        /\ UNCHANGED <<proc, tokens>>
    BY <1>3 DEF List, files, lbvars, counts, TypeOK
  <2>2. used'["replan"] = used["replan"] + 1 /\ used'["log"] = used["log"]
    BY <1>3, FaultCounts DEF List, Faults
  <2>3. used["log"] = 0
    BY <1>t, <2>2 DEF Orderly, Planned, Listed
  <2>4. (\A p \in Procs : ~ Submits(p)) /\ \A c \in Copies : ~ Sent(c)
    BY <2>1, <2>3, Zenon DEF Planned, Listed
  <2>5. /\ NoRetry' /\ FirstToken' /\ Numbered' /\ LastToken' /\ Covered'
        /\ \A p \in Procs : Submits(p)' <=> Submits(p)
    BY <1>k, <1>r, <1>t, <2>1, <2>2
  <2>6. InHand'
    BY <1>2, <2>4, <2>5, Zenon DEF InHand
  <2>7. Listed'
    BY <1>2, <1>t, <2>1, <2>2, <2>4, <2>5 DEF Listed
  <2>8. QED
    BY <2>5, <2>6, <2>7 DEF Planned
<1>4. CASE ScanToken \/ (RenameToken /\ rp.tok \notin tokens)
  <2>1. /\ rp.pc \in {"scan", "rename"} /\ rp'.pc \in {"idle", "rename"} /\ shallow' = shallow
        /\ used' = used /\ UNCHANGED <<proc, tokens>> /\ (lb' = "scheduled" => lb = "scheduled")
    BY <1>4 DEF ScanToken, RenameToken, files, counts, TypeOK, Logs, After
  <2>2. (\A p \in Procs : ~ Submits(p)) /\ \A c \in Copies : ~ Sent(c)
    BY <2>1 DEF Planned, InHand
  <2>3. /\ NoRetry' /\ FirstToken' /\ Numbered' /\ LastToken' /\ Covered'
        /\ \A p \in Procs : Submits(p)' <=> Submits(p)
    BY <1>k, <1>r, <1>t, <2>1
  <2>4. InHand'
    BY <1>2, <2>2, <2>3, Zenon DEF InHand
  <2>5. Listed'
    BY <1>2, <2>1, <2>2, <2>3 DEF Planned, Listed
  <2>6. QED
    BY <2>3, <2>4, <2>5 DEF Planned
<1>5. CASE LogReplan
  <2>1. rp.pc = "log" /\ rp'.pc = "deliver" /\ rp'.tok = rp.tok /\ UNCHANGED <<proc, tokens>>
    BY <1>5 DEF LogReplan, files, TypeOK
  <2>2. (\A p \in Procs : ~ Submits(p)) /\ \A c \in Copies : ~ Sent(c)
    BY <2>1 DEF Planned, InHand
  <2>3. used["replan"] # 0
    BY <2>1 DEF Planned, Listed
  <2>4. used'["replan"] = used["replan"] /\ shallow' <= shallow + 1 /\ shallow' \in Nat
        /\ (used'["log"] # 0 \/ lb' # "scheduled")
    <3>1. CASE UNCHANGED used /\ shallow' = shallow + 1 /\ Logs("waiting")
      BY <1>t, <3>1 DEF Logs, After
    <3>2. CASE Fault("log") /\ UNCHANGED shallow
      BY <1>t, <3>2, FaultCounts DEF Faults
    <3>3. QED
      BY <1>5, <3>1, <3>2 DEF LogReplan
  <2>5. /\ NoRetry' /\ FirstToken' /\ Numbered' /\ LastToken' /\ Covered'
        /\ \A p \in Procs : Submits(p)' <=> Submits(p)
    BY <1>k, <1>r, <1>t, <2>1, <2>4
  <2>6. InHand' /\ Listed'
    BY <1>2, <2>2, <2>3, <2>4, <2>5 DEF InHand, Listed
  <2>7. QED
    BY <2>5, <2>6 DEF Planned
<1>6. CASE RenameToken /\ rp.tok \in tokens
  <2> DEFINE m == rp.tok[1]
             u == <<m + 1, "token">>
  <2>1. /\ rp.pc = "rename" /\ m < MaxToken /\ rp' = [pc |-> "log", tok |-> u]
        /\ tokens' = (tokens \ {rp.tok}) \cup {u} \/ tokens' = ((tokens \ {rp.tok}) \cup {u}) \ {rp.tok}
        /\ UNCHANGED <<proc, used>> /\ shallow' = shallow /\ (lb' = "scheduled" => lb = "scheduled")
    BY <1>6 DEF RenameToken, Replaced, counts, Logs, After
  <2>2. (\A p \in Procs : ~ Submits(p)) /\ \A c \in Copies : ~ Sent(c)
    BY <2>1 DEF Planned, InHand
  <2>3. \A p \in Procs : ~ Submits(p)' /\ ~ First(p)' /\ ~ Again(p)' /\ ~ First(p)
    BY <2>1, <2>2 DEF Submits, Active, First, Again
  <2>4. /\ m \in 0 .. MaxToken /\ rp.tok = <<m, "token">> /\ tokens = {<<m, "token">>} /\ starts = 0
    <3>1. PICK k \in 0 .. MaxToken : tokens = {<<k, "token">>}
      BY <1>6, <2>3 DEF Planned, LastToken
    <3>2. rp.tok = <<k, "token">>
      BY <1>6, <3>1
    <3>3. m = k
      BY <3>2
    <3>4. QED
      BY <1>6, <2>3, <3>1, <3>2, <3>3 DEF Planned, LastToken
  <2>5. tokens' = {u} /\ m + 1 \in 0 .. MaxToken /\ m \in Int /\ u # rp.tok
    <3>1. m + 1 \in 0 .. MaxToken /\ m \in Int
      BY <2>1, <2>4, Limits
    <3>2. u # rp.tok
      BY <2>4, <3>1
    <3>3. QED
      BY <2>1, <2>4, <3>1, <3>2, Zenon
  <2>6. \A c \in Copies : copy'[c].st # "none" => copy'[c].tok < m + 1 /\ copy'[c].tok # m + 1
    <3>1. \A c \in Copies : copy[c].tok \in Nat
      BY Limits DEF TypeOK, CopyType
    <3>2. \A c \in Copies : copy[c].st # "none" => copy[c].tok <= m
      BY <2>4 DEF Planned, LastToken
    <3>3. QED
      BY <1>1, <2>5, <3>1, <3>2
  <2>7. NoRetry'
    <3>1. rp'.pc = "log"
      BY <2>1
    <3>2. QED
      BY <1>1, <1>r, <2>1, <3>1 DEF Planned, NoRetry, Active
  <2>8. InHand' /\ Listed'
    BY <1>2, <2>1, <2>2, <2>3, Zenon DEF Planned, InHand, Listed
  <2>9. FirstToken'
    BY <2>3, Zenon DEF FirstToken
  <2>10. Numbered'
    <3>1. rp'.tok = u /\ rp'.tok[1] = m + 1 /\ rp'.tok[2] = "token"
      BY <2>1
    <3>2. m + 1 > 0
      BY <2>4, <2>5
    <3>3. Below(rp.tok[1])'
      BY <2>6, <3>1 DEF Below
    <3>4. QED
      BY <2>3, <2>5, <3>1, <3>2, <3>3, Zenon DEF Numbered
  <2>11. LastToken'
    <3>1. \A k \in 0 .. MaxToken : <<k, "token">> \in tokens' => k = m + 1
      BY <2>5
    <3>2. \A c \in Copies : copy'[c].st # "none" => copy'[c].tok <= m + 1
      BY <2>5, <2>6, Limits, <1>1 DEF TypeOK, CopyType
    <3>3. QED
      BY <1>1, <2>4, <2>5, <3>1, <3>2 DEF LastToken
  <2>12. Covered'
    <3>1. \A c \in Copies : copy'[c].st # "none" => <<copy'[c].tok, "token">> \notin tokens'
      BY <2>5, <2>6
    <3>2. u \in tokens' /\ u[2] = "token"
      BY <2>5
    <3>3. \E t \in tokens' : t[2] = "token"
      BY <3>2, Zenon
    <3>4. QED
      BY <1>2, <2>2, <3>1, <3>3 DEF Covered
  <2>13. QED
    BY <2>7, <2>8, <2>9, <2>10, <2>11, <2>12 DEF Planned
<1>7. CASE DeliverReplan
  <2>1. rp.pc = "deliver" /\ rp'.pc = "idle" /\ shallow' = shallow /\ UNCHANGED <<tokens, lb, used>>
    BY <1>7 DEF DeliverReplan, files, counts, TypeOK
  <2>2. PICK p \in Procs : /\ proc[p].pc = "none" /\ proc'[p] = Request("jobsubmit", rp.tok[1])
                           /\ \A q \in Procs : q # p => proc'[q] = proc[q]
    BY <1>7, Rescheduled
  <2>3. (\A q \in Procs : ~ Submits(q)) /\ \A c \in Copies : ~ Sent(c)
    BY <2>1, Zenon DEF Planned, InHand
  <2>4. /\ rp.tok[1] > 0 /\ rp.tok = <<rp.tok[1], "token">> /\ rp.tok[1] \in Nat
        /\ (sandbox => tokens = {rp.tok}) /\ Below(rp.tok[1])
    BY <1>t, <2>1, Limits DEF Planned, Numbered, Tokens
  <2>5. proc'[p].cmd = "jobsubmit" /\ proc'[p].pc = "queued" /\ proc'[p].req = rp.tok[1]
    BY <2>2, Zenon DEF Request, Free
  <2>6. \A q \in Procs : (Submits(q)' => q = p) /\ ~ First(q)' /\ ~ First(q)
    BY <2>2, <2>3, <2>4, <2>5 DEF Submits, Active, First
  <2>7. NoRetry'
    BY <1>1, <1>r, <1>t, <2>1, <2>2, <2>5, Zenon DEF Planned, NoRetry, Active
  <2>8. InHand'
    BY <1>2, <2>1, <2>3, <2>6, Zenon DEF InHand
  <2>9. Listed'
    BY <2>1 DEF Planned, Listed
  <2>10. FirstToken'
    BY <2>6, Zenon DEF FirstToken
  <2>11. Numbered'
    <3>1. Below(proc[p].req)'
      BY <1>2, <2>4, <2>5, Zenon DEF Below
    <3>2. sandbox' => tokens' = {<<proc'[p].req, "token">>}
      BY <1>1, <2>1, <2>4, <2>5
    <3>3. \A q \in Procs : Again(q)' => q = p
      BY <2>6, Zenon DEF Again
    <3>4. QED
      BY <2>1, <2>5, <3>1, <3>2, <3>3, Zenon DEF Numbered
  <2>12. LastToken'
    BY <1>1, <2>1, <2>6, Zenon DEF Planned, LastToken
  <2>13. Covered'
    BY <1>1, <1>2, <2>1, Zenon DEF Planned, Covered
  <2>14. QED
    BY <2>7, <2>8, <2>9, <2>10, <2>11, <2>12, <2>13 DEF Planned
<1>8. QED
  BY <1>3, <1>4, <1>5, <1>6, <1>7 DEF ReplanStep

\* Every step keeps them, as long as nothing fails.
LEMMA PlannedKept ==
    ASSUME TypeOK, Calm, Orderly => Planned, [Next]_vars
    PROVE  (Orderly => Planned)'
<1> SUFFICES ASSUME Orderly' PROVE Planned'
  OBVIOUS
<1>1. Orderly /\ Planned
  BY Monotone DEF Orderly, Faults
<1>2. \A c \in Copies : ~ Break(c) /\ ~ Zombie(c)
  BY <1>1, FaultCounts DEF Break, Zombie, Orderly, Faults
<1>3. QED
  BY <1>1, <1>2, Kinds, QuietPlanned, BusyPlanned, CopyPlanned, ReplanPlanned DEF Orderly, Happens
-----------------------------------------------------------------------------
(* A processor with a claim may still deliver a copy without logging a            *)
(* resubmission before; the replanner owes the WM a request it has logged, or     *)
(* could not log.  Copies and claims are paid for by the first submission, by the  *)
(* resubmissions and by the lost logs.                                             *)
Claim(p) == \/ proc[p].pc \in {"put", "match", "check", "deliver"}
            \/ proc[p].cmd = "jobsubmit" /\ proc[p].pc \in {"queued", "decide"}
Claims == {p \in Procs : Claim(p)}
Due == IF rp.pc = "deliver" THEN 1 ELSE 0
Paid == used["crash"] = 0 =>
          Cardinality(Delivered) + Cardinality(Claims) + Due <= 1 + resubs + used["log"]

\* The sizes of a finite set, of a subset of it, and with one element more or less.
LEMMA Sizes ==
    ASSUME NEW S, IsFiniteSet(S)
    PROVE  /\ Cardinality(S) \in Nat
           /\ \A U \in SUBSET S : Cardinality(U) \in Nat /\ Cardinality(U) <= Cardinality(S)
<1>1. Cardinality(S) \in Nat
  BY FS_CardinalityType
<1>2. ASSUME NEW U \in SUBSET S
      PROVE  Cardinality(U) \in Nat /\ Cardinality(U) <= Cardinality(S)
  BY FS_Subset, FS_CardinalityType
<1>3. QED
  BY <1>1, <1>2

\* The copies there are and the claims are finite sets.
LEMMA Finite ==
    /\ Claims \subseteq Procs /\ IsFiniteSet(Claims)
    /\ Delivered \subseteq Copies /\ IsFiniteSet(Delivered)
<1>1. Claims \subseteq Procs /\ Delivered \subseteq Copies
  BY Zenon DEF Claims, Delivered
<1>2. IsFiniteSet(Procs) /\ IsFiniteSet(Copies)
  BY TokensAssumption
<1>. QED
  BY <1>1, <1>2, FS_Subset

\* One element more: a set within S and e.
LEMMA OneMore ==
    ASSUME NEW S, IsFiniteSet(S), NEW e, NEW U \in SUBSET (S \cup {e})
    PROVE  Cardinality(U) \in Nat /\ Cardinality(U) <= Cardinality(S) + 1
<1>1. IsFiniteSet(S \cup {e}) /\ Cardinality(S) \in Nat
  BY FS_AddElement, FS_CardinalityType
<1>2. Cardinality(S \cup {e}) = Cardinality(S) \/ Cardinality(S \cup {e}) = Cardinality(S) + 1
  BY FS_AddElement
<1>3. Cardinality(U) \in Nat /\ Cardinality(U) <= Cardinality(S \cup {e})
  BY <1>1, Sizes
<1>4. QED
  BY <1>1, <1>2, <1>3

\* One element less: a set within S without e.
LEMMA OneLess ==
    ASSUME NEW S, IsFiniteSet(S), NEW e \in S, NEW U \in SUBSET (S \ {e})
    PROVE  Cardinality(U) \in Nat /\ Cardinality(U) <= Cardinality(S) - 1
<1>1. IsFiniteSet(S \ {e}) /\ Cardinality(S \ {e}) = Cardinality(S) - 1
  BY FS_RemoveElement
<1>2. QED
  BY <1>1, Sizes

\* Every step pays for what it claims or delivers.
LEMMA PaidKept ==
    ASSUME TypeOK, Calm, Paid, [Next]_vars
    PROVE  Paid'
<1> SUFFICES ASSUME used'["crash"] = 0
             PROVE  Cardinality(Delivered') + Cardinality(Claims') + Due'
                      <= 1 + resubs' + used'["log"]
  BY DEF Paid
<1>0. Cardinality(Delivered) + Cardinality(Claims) + Due <= 1 + resubs + used["log"]
  BY Kinds DEF Paid
<1>1. /\ Claims \subseteq Procs /\ Claims' \subseteq Procs
      /\ IsFiniteSet(Claims) /\ IsFiniteSet(Delivered)
  BY Finite, Zenon DEF Claims
<1>n. Cardinality(Claims) \in Nat /\ Cardinality(Delivered) \in Nat
  BY <1>1, Sizes
<1>2. /\ resubs \in Nat /\ used["log"] \in Nat /\ used'["log"] \in Nat /\ Due \in 0 .. 1
      /\ Due' \in 0 .. 1 /\ used'["log"] >= used["log"]
  BY Monotone DEF TypeOK, Due, Faults
<1>s. ASSUME Claims' \subseteq Claims, Delivered' \subseteq Delivered, resubs' = resubs, Due' <= Due
      PROVE  Cardinality(Delivered') + Cardinality(Claims') + Due' <= 1 + resubs' + used'["log"]
  <2>1. /\ Cardinality(Claims') <= Cardinality(Claims)
        /\ Cardinality(Delivered') <= Cardinality(Delivered)
        /\ Cardinality(Claims') \in Nat /\ Cardinality(Delivered') \in Nat
    BY <1>1, <1>s, Sizes
  <2>2. QED
    BY <1>0, <1>2, <1>n, <1>s, <2>1
<1>3. CASE Quiet
  <2>1. ASSUME NEW p \in Procs, p \in Claims'
        PROVE  p \in Claims
    <3>1. CASE proc'[p] = proc[p]
      BY <2>1, <3>1 DEF Claims, Claim
    <3>2. CASE Stops(p)
      BY <2>1, <3>2 DEF Claims, Claim, Stops, Free
    <3>3. CASE Moves(p)
      BY <2>1, <3>3 DEF Claims, Claim, Moves, TypeOK, ProcType
    <3>4. QED
      BY <1>3, <3>1, <3>2, <3>3 DEF Quiet
  <2>2. Delivered' \subseteq Delivered
    BY <1>3, Zenon DEF Quiet, Delivered, Fades
  <2>3. Claims' \subseteq Claims
    BY <2>1 DEF Claims
  <2>4. resubs' = resubs /\ Due' <= Due
    BY <1>3 DEF Quiet, Due
  <2>5. QED
    BY <1>s, <2>2, <2>3, <2>4, Zenon
<1>4. ASSUME NEW p \in Procs, Busy(p)
      PROVE  Cardinality(Delivered') + Cardinality(Claims') + Due' <= 1 + resubs' + used'["log"]
  <2>0. Due' = Due /\ used'["log"] = used["log"]
    BY <1>4, BusyFrame DEF Due
  <2>1. \A q \in Procs : q # p => (q \in Claims' <=> q \in Claims)
    BY <1>4, BusyFrame DEF Claims, Claim
  <2>2. ASSUME NEW x \in PC, Goes(p, x)
        PROVE  proc'[p].pc = x /\ proc'[p].cmd = proc[p].cmd
    <3>1. proc'[p] = [proc[p] EXCEPT !.pc = x]
      BY <2>2, GoesOn
    <3>2. QED
      BY <3>1 DEF TypeOK, ProcType
  <2>3. {"decide", "put", "queued", "match", "log"} \subseteq PC
    BY DEF PC
  <2>4. CASE Resubmits(p)
    <3>1. Claims' \subseteq Claims \cup {p} /\ Delivered' = Delivered /\ resubs' = resubs + 1
      BY <2>1, <2>4, <1>1 DEF Resubmits, Shallow, Deep, Delivered
    <3>2. Cardinality(Claims') <= Cardinality(Claims) + 1 /\ Cardinality(Claims') \in Nat
      BY <1>1, <3>1, OneMore
    <3>3. QED
      BY <1>0, <1>2, <1>n, <2>0, <3>1, <3>2
  <2>5. CASE Deliver(p)
    <3>1. PICK c \in Copies : copy' = [copy EXCEPT ![c] = [st |-> "sent", tok |-> proc[p].ad,
                                         known |-> TRUE, replan |-> proc[p].replan]]
      BY <2>5, Zenon DEF Deliver
    <3>2. Delivered' \subseteq Delivered \cup {c}
      BY <3>1, Zenon DEF Delivered, TypeOK
    <3>3. p \in Claims /\ p \notin Claims'
      BY <2>2, <2>3, <2>5 DEF Deliver, Claims, Claim
    <3>4. Claims' \subseteq Claims \ {p}
      BY <1>1, <2>1, <3>3
    <3>5. Cardinality(Claims') <= Cardinality(Claims) - 1 /\ Cardinality(Claims') \in Nat
      BY <1>1, <3>3, <3>4, OneLess
    <3>6. Cardinality(Delivered') <= Cardinality(Delivered) + 1 /\ Cardinality(Delivered') \in Nat
      BY <1>1, <3>2, OneMore, Zenon
    <3>7. resubs' = resubs
      BY <2>5 DEF Deliver, lbvars, counts
    <3>8. QED
      BY <1>0, <1>2, <1>n, <2>0, <3>5, <3>6, <3>7
  <2>6. CASE Consider(p) \/ TakeBack(p) \/ Reschedules(p) \/ MakesToken(p) \/ PutsBack(p)
    <3>1. Delivered' = Delivered /\ resubs' = resubs
      BY <2>6, Zenon DEF Consider, TakeBack, Reschedules, Submit, MakesToken, PutsBack, PutBack,
         Delivered, counts, lbvars
    <3>2. p \in Claims' => p \in Claims
      <4>1. CASE Consider(p)
        <5>1. /\ proc'[p].pc \in {"back", "decide"} /\ proc'[p].cmd = proc[p].cmd
              /\ proc[p].pc = "queued"
          BY <4>1, Considered, Zenon DEF Consider
        <5>2. QED
          BY <5>1 DEF Claims, Claim
      <4>2. CASE TakeBack(p)
        <5>1. proc[p].cmd = "jobresubmit"
          BY <4>2, Kinds DEF Calm, TakeBack
        <5>2. QED
          BY <2>2, <2>3, <4>2, <5>1 DEF TakeBack, Claims, Claim
      <4>3. CASE Reschedules(p) \/ MakesToken(p) \/ PutsBack(p)
        BY <4>3 DEF Reschedules, MakesToken, PutsBack, Submit, PutBack, Claims, Claim
      <4>4. QED
        BY <2>6, <4>1, <4>2, <4>3
    <3>3. Claims' \subseteq Claims
      BY <1>1, <2>1, <3>2
    <3>4. QED
      BY <1>2, <1>s, <2>0, <3>1, <3>3
  <2>7. QED
    BY <1>4, <2>4, <2>5, <2>6 DEF Busy
<1>5. ASSUME NEW c \in Copies, Happens(c)
      PROVE  Cardinality(Delivered') + Cardinality(Claims') + Due' <= 1 + resubs' + used'["log"]
  <2>1. Delivered' \subseteq Delivered
    BY <1>5 DEF Happens, IsAccepted, Accept, Start, Break, Report, Zombie, Delivered, TypeOK, CopyType
  <2>2. Claims' \subseteq Claims
    <3>1. CASE proc' = proc
      BY <3>1 DEF Claims, Claim
    <3>2. CASE Resubmission(c)
      BY <3>2, Asked, Zenon DEF Claims, Claim, Request, Free
    <3>3. QED
      BY <1>5, <3>1, <3>2 DEF Happens, IsAccepted, Accept, Start, Break, Report, Zombie
  <2>3. resubs' = resubs /\ Due' = Due
    BY <1>5 DEF Happens, IsAccepted, Accept, Start, Break, Report, Zombie, lbvars, counts, Due
  <2>4. QED
    BY <1>2, <1>s, <2>1, <2>2, <2>3
<1>6. CASE List \/ ReplanStep
  <2>1. Delivered' = Delivered
    BY <1>6 DEF List, ReplanStep, ScanToken, RenameToken, LogReplan, DeliverReplan, Delivered
  <2>2. CASE List \/ ScanToken \/ RenameToken
    <3>1. rp'.pc # "deliver" /\ resubs' = resubs /\ proc' = proc
      BY <2>2 DEF List, ScanToken, RenameToken, lbvars, counts, TypeOK
    <3>2. QED
      BY <1>2, <1>s, <2>1, <3>1 DEF Due, Claims, Claim
  <2>3. CASE LogReplan
    <3>1. resubs' + used'["log"] = resubs + used["log"] + 1
      BY <2>3, <1>2, FaultCounts DEF LogReplan, Faults
    <3>2. Due = 0 /\ Claims' = Claims
      BY <2>3 DEF LogReplan, Due, Claims, Claim
    <3>3. resubs' \in Nat
      BY <2>3 DEF LogReplan, TypeOK
    <3>4. QED
      BY <1>0, <1>2, <1>n, <2>1, <3>1, <3>2, <3>3
  <2>4. CASE DeliverReplan
    <3>1. PICK p \in Procs : \A q \in Procs : q # p => proc'[q] = proc[q]
      BY <2>4, Rescheduled
    <3>2. Claims' \subseteq Claims \cup {p}
      BY <3>1 DEF Claims, Claim
    <3>3. Due = 1 /\ Due' = 0 /\ resubs' = resubs
      BY <2>4, Rescheduled DEF DeliverReplan, Due, TypeOK, counts
    <3>4. Cardinality(Claims') <= Cardinality(Claims) + 1 /\ Cardinality(Claims') \in Nat
      BY <1>1, <3>2, OneMore
    <3>5. QED
      BY <1>0, <1>2, <1>n, <2>1, <3>3, <3>4
  <2>5. QED
    BY <1>6, <2>2, <2>3, <2>4 DEF ReplanStep
<1>7. QED
  BY <1>3, <1>4, <1>5, <1>6, Kinds
-----------------------------------------------------------------------------
Inductive ==
    TypeOK /\ Calm /\ Paid /\ (Alone => Unplanned) /\ (Orderly => Planned)

\* At first there is one submission, queued, and no token or copy.
LEMMA FirstState ==
    ASSUME Init
    PROVE  Inductive
<1>0. TypeOK /\ tokens = {} /\ sandbox /\ rp.pc = "idle" /\ lb = "waiting" /\ starts = 0
  BY TypesFirst DEF Init
<1>c. deep = 0 /\ shallow = 0 /\ resubs = 0 /\ \A k \in Faults : used[k] = 0
  BY DEF Init
<1>1. PICK p \in Procs : proc = [q \in Procs |-> IF q = p THEN Request("jobsubmit", 0) ELSE Free]
  BY DEF Init
<1>2. /\ proc[p].cmd = "jobsubmit" /\ proc[p].pc = "queued" /\ proc[p].req = 0 /\ proc[p].ad = 0
      /\ proc[p].n = 0 /\ ~ proc[p].replan /\ ~ proc[p].limbo /\ ~ proc[p].again
  BY <1>1, Zenon DEF Request, Free
<1>3. \A q \in Procs : q # p =>
        /\ proc[q].cmd = "none" /\ proc[q].pc = "none" /\ proc[q].ad = 0 /\ proc[q].n = 0
        /\ ~ proc[q].replan /\ ~ proc[q].limbo /\ ~ proc[q].again
  BY <1>1, Zenon DEF Free
<1>4. \A c \in Copies : copy[c].st = "none" /\ copy[c].tok = 0 /\ ~ copy[c].known /\ ~ copy[c].replan
  BY Zenon DEF Init, NoCopy
<1>5. \A q \in Procs : (Active(q) <=> q = p) /\ (Submits(q) <=> q = p) /\ (First(q) <=> q = p) /\ ~ Again(q)
  BY <1>2, <1>3 DEF Active, Submits, First, Again
<1>6. Calm
  BY <1>0, <1>2, <1>3 DEF Calm
<1>7. Paid
  <2>1. Claims = {p} /\ Delivered = {} /\ Due = 0
    BY <1>0, <1>2, <1>3, <1>4 DEF Claims, Claim, Delivered, Due
  <2>2. Cardinality({p}) = 1
    BY FS_Singleton
  <2>3. Cardinality({}) = 0
    BY FS_EmptySet
  <2>4. resubs = 0 /\ used["log"] = 0
    BY <1>c DEF Faults
  <2>5. Cardinality(Delivered) + Cardinality(Claims) + Due <= 1 + resubs + used["log"]
    BY <2>1, <2>2, <2>3, <2>4
  <2>6. QED
    BY <2>5, Zenon DEF Paid
<1>8. Unplanned
  <2>1. NumberZero
    BY <1>0, <1>2, <1>3, <1>4, Zenon DEF NumberZero
  <2>2. OneAtATime /\ FirstHasNoCopy /\ TokensCounted
    BY <1>0, <1>4, <1>5, Zenon DEF OneAtATime, FirstHasNoCopy, TokensCounted, Pending
  <2>3. CountsRead
    BY <1>0, <1>c, <1>2, <1>3, Limits DEF CountsRead, Least, TypeOK
  <2>4. QED
    BY <2>1, <2>2, <2>3, Zenon DEF Unplanned
<1>9. Planned
  <2>1. NoRetry
    BY <1>0, <1>c, <1>2, <1>3 DEF NoRetry, Active, Faults
  <2>2. InHand /\ Listed /\ FirstToken
    BY <1>0, <1>c, <1>2, <1>4, <1>5, Zenon DEF InHand, Listed, FirstToken, Sent, Faults
  <2>3. Numbered /\ LastToken /\ Covered
    BY <1>0, <1>4, <1>5, Zenon DEF Numbered, LastToken, Covered, Waits, Sent
  <2>4. QED
    BY <2>1, <2>2, <2>3, Zenon DEF Planned
<1>10. QED
  BY <1>0, <1>6, <1>7, <1>8, <1>9, Zenon DEF Inductive

\* The invariants hold at first, and every step keeps them.
LEMMA Induction == Spec => []Inductive
<1>1. Inductive /\ [Next]_vars => Inductive'
  BY TypesKept, CalmKept, PaidKept, UnplannedKept, PlannedKept DEF Inductive
<1>2. QED
  BY <1>1, FirstState, PTL DEF Spec

\* Unless the WM crashed, every copy of a job that is given to ICE is the first, or one
\* of a resubmission that was logged, or of a reschedule whose log was lost: postponed
\* events, failed deliveries and reschedules never add one.
THEOREM CopiesAreAccounted == Spec => []SubmissionsAccounted
<1>1. Inductive => SubmissionsAccounted
  <2> SUFFICES ASSUME Inductive, used["crash"] = 0
               PROVE  Cardinality(Delivered) <= 1 + resubs + used["log"]
    BY DEF SubmissionsAccounted, NoDoubleSubmission
  <2>1. Cardinality(Delivered) + Cardinality(Claims) + Due <= 1 + resubs + used["log"]
    BY DEF Inductive, Paid
  <2>2. IsFiniteSet(Claims) /\ IsFiniteSet(Delivered)
    BY Finite
  <2>3. Cardinality(Claims) \in Nat /\ Cardinality(Delivered) \in Nat
    BY <2>2, Sizes
  <2>4. Due \in Nat /\ resubs \in Nat /\ used["log"] \in Nat
    BY DEF Due, Inductive, TypeOK, Faults
  <2>5. QED
    BY <2>1, <2>3, <2>4
<1>2. QED
  BY <1>1, Induction, PTL

\* While one request at a time has a copy to make, the payload of a job starts at most
\* once more than the deep resubmissions the LB knows of: a token is made only by the
\* submission and by a deep resubmission, and every start takes one.
THEOREM StartsAreAccounted == Spec => []PayloadsAccounted
<1>1. Inductive => PayloadsAccounted
  <2> SUFFICES ASSUME Inductive, Separate
               PROVE  starts <= deep + 1
    BY DEF PayloadsAccounted
  <2>1. starts \in Nat /\ deep \in Nat /\ N(T) \in 0 .. 1 /\ N(M) \in 0 .. 1
    BY DEF Inductive, TypeOK, N
  <2>2. CASE Alone
    <3>1. (\E p \in Procs : Submits(p)) => starts = 0
      BY <2>2 DEF Inductive, Unplanned, FirstHasNoCopy
    <3>2. (\A p \in Procs : ~ Submits(p)) => starts + N(T) + N(M) <= deep + 1
      BY <2>2 DEF Inductive, Unplanned, TokensCounted
    <3>3. QED
      BY <2>1, <3>1, <3>2
  <2>3. CASE Orderly
    <3>1. (\E p \in Procs : First(p)) => starts = 0
      BY <2>3 DEF Inductive, Planned, FirstToken
    <3>2. (\A p \in Procs : ~ First(p)) => starts <= 1
      BY <2>3 DEF Inductive, Planned, LastToken
    <3>3. QED
      BY <2>1, <3>1, <3>2
  <2>4. QED
    BY <2>2, <2>3 DEF Separate, Alone, Orderly
<1>2. QED
  BY <1>1, Induction, PTL

\* The limits of the deep and of the shallow resubmissions hold, although the counts are
\* read before the token is examined and the resubmission logged; the reschedules of
\* the replanner come on top of the shallow ones.
THEOREM RetryLimitsHold == Spec => []RetriesBounded
<1>1. Inductive => RetriesBounded
  <2> SUFFICES ASSUME Inductive, Separate
               PROVE  /\ deep <= Least(retry_count, DeepLimit)
                      /\ shallow <= Least(retry_count, ShallowLimit) + used["replan"]
    BY DEF RetriesBounded
  <2>1. /\ shallow \in Nat /\ used["replan"] \in Nat /\ retry_count \in Nat
        /\ Least(retry_count, DeepLimit) \in Nat /\ Least(retry_count, ShallowLimit) \in Nat
    BY Limits DEF Inductive, TypeOK, Faults, Least
  <2>2. CASE Alone
    BY <2>1, <2>2 DEF Inductive, Unplanned, CountsRead, Alone
  <2>3. CASE Orderly
    BY <2>1, <2>3 DEF Inductive, Planned, NoRetry
  <2>4. QED
    BY <2>2, <2>3 DEF Separate, Alone, Orderly
<1>2. QED
  BY <1>1, Induction, PTL
=============================================================================
