---------------------------- MODULE WMProxyProofs ----------------------------
(* Proofs about WMProxy, for any number of processes, calls and faults.      *)
EXTENDS WMProxy, TLAPS

USE Bounds DEF disk, outside, history, vars, Goto, Return, Fault, NoFault

(* The type invariant in five parts.                                         *)
ControlTyped ==
    pc \in [Proc -> Label] /\ op \in [Proc -> Operation \cup {None}]
LocksTyped ==
    /\ locked \in [{"start", "list"} -> Proc \cup {None}]
    /\ busy \in [Proc -> SUBSET Proc]
LbTyped ==
    /\ events \subseteq Event /\ last \in Event \cup {None}
    /\ past \subseteq Proc /\ leaked \in BOOLEAN
DiskTyped ==
    /\ async \in BOOLEAN /\ dir \in BOOLEAN /\ renewal \in BOOLEAN
    /\ jdl \subseteq {"tostart", "started"} /\ known \in BOOLEAN
    /\ purger \in Operation \cup {None}
CountsTyped ==
    /\ submits \in Nat /\ cancels \in Nat /\ wm \in WMState
    /\ calls \in 0 .. MaxCalls /\ faults \in 0 .. MaxFaults

(* Every step keeps the types.                                               *)
LEMMA TypeStep ==
    ASSUME TypeOK, [Next]_vars
    PROVE  TypeOK'
<1> USE DEF TypeOK, ControlTyped, LocksTyped, LbTyped, DiskTyped,
            CountsTyped,           Operation, Event, WMState, Label
<1>1. ASSUME NEW p \in Proc, regist(p) PROVE TypeOK'
  <2>1. ControlTyped'
    BY <1>1 DEF regist, Record
  <2>2. LocksTyped'
    BY <1>1 DEF regist, Record
  <2>3. LbTyped'
    BY <1>1, Zenon DEF regist, Record
  <2>4. DiskTyped'
    BY <1>1, Zenon DEF regist, Record
  <2>5. CountsTyped'
    BY <1>1 DEF regist, Record
  <2>. QED
    BY <2>1, <2>2, <2>3, <2>4, <2>5
<1>2. ASSUME NEW p \in Proc, jobStart(p) PROVE TypeOK'
  <2>1. ControlTyped'
    BY <1>2 DEF jobStart, OpenLock, operationLock, Local
  <2>2. LocksTyped'
    BY <1>2 DEF jobStart, OpenLock, operationLock, Local
  <2>3. LbTyped'
    BY <1>2, Zenon DEF jobStart, OpenLock, operationLock, Local
  <2>4. DiskTyped'
    BY <1>2, Zenon DEF jobStart, OpenLock, operationLock, Local
  <2>5. CountsTyped'
    BY <1>2 DEF jobStart, OpenLock, operationLock, Local
  <2>. QED
    BY <2>1, <2>2, <2>3, <2>4, <2>5
<1>3. ASSUME NEW p \in Proc, jobStartExpired(p) PROVE TypeOK'
  <2>1. ControlTyped'
    BY <1>3 DEF jobStartExpired, Record
  <2>2. LocksTyped'
    BY <1>3 DEF jobStartExpired, Record
  <2>3. LbTyped'
    BY <1>3, Zenon DEF jobStartExpired, Record
  <2>4. DiskTyped'
    BY <1>3 DEF jobStartExpired, Record
  <2>5. CountsTyped'
    BY <1>3 DEF jobStartExpired, Record
  <2>. QED
    BY <2>1, <2>2, <2>3, <2>4, <2>5
<1>4. ASSUME NEW p \in Proc, LogSteps(p) PROVE TypeOK'
  <2>1. ControlTyped'
    BY <1>4 DEF LogSteps, LogThen, LogFails, logEvent, Record, Throw
  <2>2. LocksTyped'
    BY <1>4 DEF LogSteps, LogThen, LogFails, logEvent, Record, Throw
  <2>3. LbTyped'
    BY <1>4, Zenon DEF LogSteps, LogThen, LogFails, logEvent, Record, Throw
  <2>4. DiskTyped'
    BY <1>4, ZenonT(30) DEF LogSteps, LogThen, LogFails, logEvent, Record, Throw
  <2>5. CountsTyped'
    BY <1>4 DEF LogSteps, LogThen, LogFails, logEvent, Record, Throw
  <2>. QED
    BY <2>1, <2>2, <2>3, <2>4, <2>5
<1>5. ASSUME NEW p \in Proc, Prepare(p) PROVE TypeOK'
  BY <1>5 DEF Prepare, Local
<1>6. ASSUME NEW p \in Proc, TooMany(p) PROVE TypeOK'
  <2>1. ControlTyped'
    BY <1>6 DEF TooMany, Record, isOperationLocked, CloseAfterCheck
  <2>2. LocksTyped'
    BY <1>6 DEF TooMany, Record, isOperationLocked, CloseAfterCheck
  <2>3. LbTyped'
    BY <1>6, Zenon DEF TooMany, Record, isOperationLocked, CloseAfterCheck
  <2>4. DiskTyped'
    BY <1>6, Zenon DEF TooMany, Record, isOperationLocked, CloseAfterCheck
  <2>5. CountsTyped'
    BY <1>6 DEF TooMany, Record, isOperationLocked, CloseAfterCheck
  <2>. QED
    BY <2>1, <2>2, <2>3, <2>4, <2>5
<1>7. ASSUME NEW p \in Proc, AdUnlock(p) PROVE TypeOK'
  BY <1>7 DEF AdUnlock, operationUnlock
<1>8. ASSUME NEW p \in Proc, isAborted(p) PROVE TypeOK'
  <2>1. ControlTyped'
    BY <1>8 DEF isAborted, Throw
  <2>2. LocksTyped'
    BY <1>8 DEF isAborted, Throw
  <2>3. LbTyped'
    BY <1>8, Zenon DEF isAborted, Throw
  <2>4. DiskTyped'
    BY <1>8 DEF isAborted, Throw
  <2>5. CountsTyped'
    BY <1>8 DEF isAborted, Throw
  <2>. QED
    BY <2>1, <2>2, <2>3, <2>4, <2>5
<1>9. ASSUME NEW p \in Proc, Deliver(p) PROVE TypeOK'
  BY <1>9 DEF Deliver
<1>10. ASSUME NEW p \in Proc, EnqueueOkFails(p) PROVE TypeOK'
  BY <1>10 DEF EnqueueOkFails, Local
<1>11. ASSUME NEW p \in Proc, WriteStarted(p) PROVE TypeOK'
  <2>1. ControlTyped'
    BY <1>11 DEF WriteStarted, Throw
  <2>2. LocksTyped'
    BY <1>11 DEF WriteStarted, Throw
  <2>3. LbTyped'
    BY <1>11, Zenon DEF WriteStarted, Throw
  <2>4. DiskTyped'
    BY <1>11, ZenonT(30) DEF WriteStarted, Throw
  <2>5. CountsTyped'
    BY <1>11 DEF WriteStarted, Throw
  <2>. QED
    BY <2>1, <2>2, <2>3, <2>4, <2>5
<1>12. ASSUME NEW p \in Proc, RemoveLock(p) PROVE TypeOK'
  BY <1>12 DEF RemoveLock, operationUnlock
<1>13. ASSUME NEW p \in Proc, CancelStatus(p) PROVE TypeOK'
  BY <1>13 DEF CancelStatus, Local
<1>14. ASSUME NEW p \in Proc, CancelSubmitted(p) PROVE TypeOK'
  <2>1. ControlTyped'
    BY <1>14 DEF CancelSubmitted, Record, isOperationLocked, CloseAfterCheck
  <2>2. LocksTyped'
    BY <1>14 DEF CancelSubmitted, Record, isOperationLocked, CloseAfterCheck
  <2>3. LbTyped'
    BY <1>14, Zenon DEF CancelSubmitted, Record, isOperationLocked, CloseAfterCheck
  <2>4. DiskTyped'
    BY <1>14, Zenon DEF CancelSubmitted, Record, isOperationLocked, CloseAfterCheck
  <2>5. CountsTyped'
    BY <1>14 DEF CancelSubmitted, Record, isOperationLocked, CloseAfterCheck
  <2>. QED
    BY <2>1, <2>2, <2>3, <2>4, <2>5
<1>15. ASSUME NEW p \in Proc, CancelForward(p) PROVE TypeOK'
  <2>1. ControlTyped'
    BY <1>15 DEF CancelForward, logEvent, Record
  <2>2. LocksTyped'
    BY <1>15 DEF CancelForward, logEvent, Record
  <2>3. LbTyped'
    BY <1>15, Zenon DEF CancelForward, logEvent, Record
  <2>4. DiskTyped'
    BY <1>15, Zenon DEF CancelForward, logEvent, Record
  <2>5. CountsTyped'
    BY <1>15 DEF CancelForward, logEvent, Record
  <2>. QED
    BY <2>1, <2>2, <2>3, <2>4, <2>5
<1>16. ASSUME NEW p \in Proc, jobPurge(p) PROVE TypeOK'
  BY <1>16 DEF jobPurge, isOperationLocked, CloseAfterCheck
<1>17. ASSUME NEW p \in Proc, jobpurge(p) PROVE TypeOK'
  <2>1. ControlTyped'
    BY <1>17 DEF jobpurge, AfterPurge, Record
  <2>2. LocksTyped'
    BY <1>17 DEF jobpurge, AfterPurge, Record
  <2>3. LbTyped'
    BY <1>17 DEF jobpurge, AfterPurge, Record
  <2>4. DiskTyped'
    BY <1>17, Zenon DEF jobpurge, AfterPurge, Record
  <2>5. CountsTyped'
    BY <1>17 DEF jobpurge, AfterPurge, Record
  <2>. QED
    BY <2>1, <2>2, <2>3, <2>4, <2>5
<1>18. ASSUME NEW p \in Proc, getOutputFileList(p) PROVE TypeOK'
  <2>1. ControlTyped'
    BY <1>18 DEF getOutputFileList, OpenLock, operationLock, operationUnlock, ListingOver, Local
  <2>2. LocksTyped'
    BY <1>18 DEF getOutputFileList, OpenLock, operationLock, operationUnlock, ListingOver, Local
  <2>3. LbTyped'
    BY <1>18, Zenon DEF getOutputFileList, OpenLock, operationLock, operationUnlock, ListingOver, Local
  <2>4. DiskTyped'
    BY <1>18, Zenon DEF getOutputFileList, OpenLock, operationLock, operationUnlock, ListingOver, Local
  <2>5. CountsTyped'
    BY <1>18 DEF getOutputFileList, OpenLock, operationLock, operationUnlock, ListingOver, Local
  <2>. QED
    BY <2>1, <2>2, <2>3, <2>4, <2>5
<1>19. ASSUME NEW p \in Proc, Register(p) PROVE TypeOK'
  BY <1>19 DEF Register, Serve
<1>20. ASSUME NEW p \in Proc, Call(p) PROVE TypeOK'
  <2>1. PICK o \in Operation, label \in Label : Serve(p, o, label)
    BY <1>20 DEF Call
  <2>2. ControlTyped' /\ LocksTyped' /\ LbTyped'
    BY <2>1 DEF Serve
  <2>3. DiskTyped'
    BY <2>1 DEF Serve
  <2>4. CountsTyped'
    BY <1>20, <2>1 DEF Call, Serve
  <2>. QED
    BY <2>2, <2>3, <2>4
<1>21. ASSUME NEW p \in Proc, Crash(p) PROVE TypeOK'
  BY <1>21 DEF Crash, Ends, ListingOver
<1>22. ASSUME NEW p \in Proc, Recycle(p) PROVE TypeOK'
  BY <1>22 DEF Recycle, Ends, ListingOver
<1>23. CASE WM
  BY <1>23 DEF WM
<1>24. CASE UNCHANGED vars
  BY <1>24, SMTT(30)
<1>. QED
  BY <1>1, <1>2, <1>3, <1>4, <1>5, <1>6, <1>7, <1>8, <1>9, <1>10, <1>11,
     <1>12, <1>13, <1>14, <1>15, <1>16, <1>17, <1>18, <1>19, <1>20, <1>21,
     <1>22, <1>23, <1>24, Zenon
     DEF Next, Step, submit, jobCancel

-----------------------------------------------------------------------------
(* The operation a process executes at each place.                           *)
OperationsAt(label) ==
    CASE label \in Starting \cup {"ad_unlock", "prep_fail", "unlock"}
            -> {"start", "submit"}
      [] label \in {"reg_lb", "reg_dir", "reg_jdl"} -> {"register", "submit"}
      [] label \in {"allowed", "exists", "open", "wait"} -> {"start"}
      [] label \in {"status", "abort", "is_locked", "unregister", "forward",
                    "log_cancel"} -> {"cancel"}
      [] label = "purge_locked" -> {"purge"}
      [] label = "expired" -> {"expired"}
      [] OTHER -> Operation \cup {None}

InPlace == \A p \in Proc : op[p] \in OperationsAt(pc[p])

(* What a call sets a process to.                                            *)
LEMMA CallServes ==
    ASSUME NEW p \in Proc, Call(p)
    PROVE  /\ known
           /\ \E o \in {"start", "expired", "cancel", "purge", "list"},
                 label \in {"allowed", "expired", "status", "purge_locked",
                           "list_open"} :
                 o \in OperationsAt(label) /\ Serve(p, o, label)
BY SMTT(30) DEF Call, OperationsAt, Starting, Operation

(* A jobStart that can still deliver owns the start lock.                    *)
StartLocked ==
    \A p \in Proc : op[p] = "start" /\ pc[p] \in Starting => locked["start"] = p

(* Whoever is about to deliver an aborted job was so at the first ABORT.     *)
CheckedBefore ==
    \A p \in Proc : pc[p] = "deliver" /\ "ABORT" \in events => p \in past

(* A jobCancel that looks at the lock, or beyond, has logged ABORT.          *)
AbortFirst ==
    /\ \A q \in Proc :
          op[q] = "cancel" /\ pc[q] \in {"is_locked", "remove"} => "ABORT" \in events
    /\ purger = "cancel" => "ABORT" \in events

(* A jobStart that delivers and a jobCancel that purges exclude each other.  *)
StartOrPurge ==
    \A p \in Proc : op[p] = "start" /\ pc[p] = "deliver" =>
        /\ purger # "cancel"
        /\ \A q \in Proc : ~ (op[q] = "cancel" /\ pc[q] = "remove")

(* A listing owns its lock; what a purge has to spare is such a listing, and *)
(* nothing once it has looked at the lock.                                   *)
ListLocked ==
    /\ \A q \in Proc : pc[q] = "listing" => locked["list"] = q
    /\ \A p \in Proc : \A q \in busy[p] : pc[q] = "listing"
    /\ \A p \in Proc : pc[p] = "remove" /\ op[p] = "purge" => busy[p] = {}

(* A job is registered alone, before its identifier is known.                *)
RegisteredAlone ==
    /\ \A p \in Proc : pc[p] \in {"reg_lb", "reg_dir", "reg_jdl"} =>
          ~ known /\ \A q \in Proc : q # p => pc[q] = "idle"
    /\ \A p \in Proc : pc[p] \in {"reg_dir", "reg_jdl"} => events # {}
    /\ known => events # {}

(* Every step keeps InPlace.                                                 *)
LEMMA InPlaceStep ==
    ASSUME TypeOK, InPlace, [Next]_vars
    PROVE  InPlace'
<1> USE DEF TypeOK, InPlace, OperationsAt, Starting, Operation
<1>1. ASSUME NEW p \in Proc, regist(p) PROVE InPlace'
  BY <1>1 DEF regist, Record
<1>2. ASSUME NEW p \in Proc, jobStart(p) PROVE InPlace'
  BY <1>2 DEF jobStart, OpenLock, operationLock, Local
<1>3. ASSUME NEW p \in Proc, jobStartExpired(p) PROVE InPlace'
  BY <1>3 DEF jobStartExpired, Record
<1>4. ASSUME NEW p \in Proc, LogSteps(p) PROVE InPlace'
  BY <1>4 DEF LogSteps, LogThen, LogFails, logEvent, Record, Throw
<1>5. ASSUME NEW p \in Proc, Prepare(p) PROVE InPlace'
  BY <1>5 DEF Prepare, Local
<1>6. ASSUME NEW p \in Proc, TooMany(p) PROVE InPlace'
  BY <1>6 DEF TooMany, Record, isOperationLocked, CloseAfterCheck
<1>7. ASSUME NEW p \in Proc, AdUnlock(p) PROVE InPlace'
  BY <1>7 DEF AdUnlock, operationUnlock
<1>8. ASSUME NEW p \in Proc, isAborted(p) PROVE InPlace'
  BY <1>8 DEF isAborted, Throw
<1>9. ASSUME NEW p \in Proc, Deliver(p) PROVE InPlace'
  BY <1>9 DEF Deliver
<1>10. ASSUME NEW p \in Proc, EnqueueOkFails(p) PROVE InPlace'
  BY <1>10 DEF EnqueueOkFails, Local
<1>11. ASSUME NEW p \in Proc, WriteStarted(p) PROVE InPlace'
  BY <1>11 DEF WriteStarted, Throw
<1>12. ASSUME NEW p \in Proc, RemoveLock(p) PROVE InPlace'
  BY <1>12 DEF RemoveLock, operationUnlock
<1>13. ASSUME NEW p \in Proc, CancelStatus(p) PROVE InPlace'
  BY <1>13 DEF CancelStatus, Local
<1>14. ASSUME NEW p \in Proc, CancelSubmitted(p) PROVE InPlace'
  BY <1>14 DEF CancelSubmitted, Record, isOperationLocked, CloseAfterCheck
<1>15. ASSUME NEW p \in Proc, CancelForward(p) PROVE InPlace'
  BY <1>15 DEF CancelForward, logEvent, Record
<1>16. ASSUME NEW p \in Proc, jobPurge(p) PROVE InPlace'
  BY <1>16 DEF jobPurge, isOperationLocked, CloseAfterCheck
<1>17. ASSUME NEW p \in Proc, jobpurge(p) PROVE InPlace'
  BY <1>17 DEF jobpurge, AfterPurge, Record
<1>18. ASSUME NEW p \in Proc, getOutputFileList(p) PROVE InPlace'
  BY <1>18 DEF getOutputFileList, OpenLock, operationLock, operationUnlock, ListingOver, Local
<1>19. ASSUME NEW p \in Proc, Register(p) PROVE InPlace'
  BY <1>19 DEF Register, Serve
<1>20. ASSUME NEW p \in Proc, Call(p) PROVE InPlace'
  <2>1. PICK o \in {"start", "expired", "cancel", "purge", "list"},
             label \in {"allowed", "expired", "status", "purge_locked", "list_open"} :
             known /\ o \in OperationsAt(label) /\ Serve(p, o, label)
    BY <1>20, CallServes
  <2>. QED
    BY <2>1 DEF Serve
<1>21. ASSUME NEW p \in Proc, Crash(p) PROVE InPlace'
  BY <1>21 DEF Crash, Ends, ListingOver
<1>22. ASSUME NEW p \in Proc, Recycle(p) PROVE InPlace'
  BY <1>22 DEF Recycle, Ends, ListingOver
<1>23. CASE WM
  BY <1>23 DEF WM
<1>24. CASE UNCHANGED vars
  BY <1>24, SMTT(30)
<1>. QED
  BY <1>1, <1>2, <1>3, <1>4, <1>5, <1>6, <1>7, <1>8, <1>9, <1>10, <1>11,
     <1>12, <1>13, <1>14, <1>15, <1>16, <1>17, <1>18, <1>19, <1>20, <1>21,
     <1>22, <1>23, <1>24
     DEF Next, Step, submit, jobCancel

(* Every step keeps StartLocked.                                             *)
LEMMA StartLockedStep ==
    ASSUME TypeOK, InPlace, StartLocked, [Next]_vars
    PROVE  StartLocked'
<1> USE DEF TypeOK, InPlace, OperationsAt, StartLocked, Starting
<1>1. ASSUME NEW p \in Proc, regist(p) PROVE StartLocked'
  BY <1>1 DEF regist, Record
<1>2. ASSUME NEW p \in Proc, jobStart(p) PROVE StartLocked'
  BY <1>2 DEF jobStart, OpenLock, operationLock, Local
<1>3. ASSUME NEW p \in Proc, jobStartExpired(p) PROVE StartLocked'
  BY <1>3 DEF jobStartExpired, Record
<1>4. ASSUME NEW p \in Proc, LogSteps(p) PROVE StartLocked'
  BY <1>4 DEF LogSteps, LogThen, LogFails, logEvent, Record, Throw
<1>5. ASSUME NEW p \in Proc, Prepare(p) PROVE StartLocked'
  BY <1>5 DEF Prepare, Local
<1>6. ASSUME NEW p \in Proc, TooMany(p) PROVE StartLocked'
  BY <1>6 DEF TooMany, Record, isOperationLocked, CloseAfterCheck
<1>7. ASSUME NEW p \in Proc, AdUnlock(p) PROVE StartLocked'
  BY <1>7 DEF AdUnlock, operationUnlock
<1>8. ASSUME NEW p \in Proc, isAborted(p) PROVE StartLocked'
  BY <1>8 DEF isAborted, Throw
<1>9. ASSUME NEW p \in Proc, Deliver(p) PROVE StartLocked'
  BY <1>9 DEF Deliver
<1>10. ASSUME NEW p \in Proc, EnqueueOkFails(p) PROVE StartLocked'
  BY <1>10 DEF EnqueueOkFails, Local
<1>11. ASSUME NEW p \in Proc, WriteStarted(p) PROVE StartLocked'
  BY <1>11 DEF WriteStarted, Throw
<1>12. ASSUME NEW p \in Proc, RemoveLock(p) PROVE StartLocked'
  BY <1>12 DEF RemoveLock, operationUnlock
<1>13. ASSUME NEW p \in Proc, CancelStatus(p) PROVE StartLocked'
  BY <1>13 DEF CancelStatus, Local
<1>14. ASSUME NEW p \in Proc, CancelSubmitted(p) PROVE StartLocked'
  BY <1>14 DEF CancelSubmitted, Record, isOperationLocked, CloseAfterCheck
<1>15. ASSUME NEW p \in Proc, CancelForward(p) PROVE StartLocked'
  BY <1>15 DEF CancelForward, logEvent, Record
<1>16. ASSUME NEW p \in Proc, jobPurge(p) PROVE StartLocked'
  BY <1>16 DEF jobPurge, isOperationLocked, CloseAfterCheck
<1>17. ASSUME NEW p \in Proc, jobpurge(p) PROVE StartLocked'
  BY <1>17 DEF jobpurge, AfterPurge, Record
<1>18. ASSUME NEW p \in Proc, getOutputFileList(p) PROVE StartLocked'
  BY <1>18 DEF getOutputFileList, OpenLock, operationLock, operationUnlock, ListingOver, Local
<1>19. ASSUME NEW p \in Proc, Register(p) PROVE StartLocked'
  BY <1>19 DEF Register, Serve
<1>20. ASSUME NEW p \in Proc, Call(p) PROVE StartLocked'
  <2>1. PICK o \in {"start", "expired", "cancel", "purge", "list"},
             label \in {"allowed", "expired", "status", "purge_locked", "list_open"} :
             known /\ o \in OperationsAt(label) /\ Serve(p, o, label)
    BY <1>20, CallServes
  <2>. QED
    BY <2>1 DEF Serve
<1>21. ASSUME NEW p \in Proc, Crash(p) PROVE StartLocked'
  BY <1>21 DEF Crash, Ends, ListingOver
<1>22. ASSUME NEW p \in Proc, Recycle(p) PROVE StartLocked'
  BY <1>22 DEF Recycle, Ends, ListingOver
<1>23. CASE WM
  BY <1>23, SMTT(30) DEF WM
<1>24. CASE UNCHANGED vars
  BY <1>24, SMTT(30)
<1>. QED
  BY <1>1, <1>2, <1>3, <1>4, <1>5, <1>6, <1>7, <1>8, <1>9, <1>10, <1>11,
     <1>12, <1>13, <1>14, <1>15, <1>16, <1>17, <1>18, <1>19, <1>20, <1>21,
     <1>22, <1>23, <1>24
     DEF Next, Step, submit, jobCancel

(* Every step keeps CheckedBefore.                                           *)
LEMMA CheckedBeforeStep ==
    ASSUME TypeOK, CheckedBefore, [Next]_vars
    PROVE  CheckedBefore'
<1> USE DEF TypeOK, CheckedBefore
<1>1. ASSUME NEW p \in Proc, regist(p) PROVE CheckedBefore'
  BY <1>1 DEF regist, Record
<1>2. ASSUME NEW p \in Proc, jobStart(p) PROVE CheckedBefore'
  BY <1>2, SMTT(30) DEF jobStart, OpenLock, operationLock, Local
<1>3. ASSUME NEW p \in Proc, jobStartExpired(p) PROVE CheckedBefore'
  BY <1>3 DEF jobStartExpired, Record
<1>4. ASSUME NEW p \in Proc, LogSteps(p) PROVE CheckedBefore'
  BY <1>4 DEF LogSteps, LogThen, LogFails, logEvent, Record, Throw
<1>5. ASSUME NEW p \in Proc, Prepare(p) PROVE CheckedBefore'
  BY <1>5 DEF Prepare, Local
<1>6. ASSUME NEW p \in Proc, TooMany(p) PROVE CheckedBefore'
  BY <1>6 DEF TooMany, Record, isOperationLocked, CloseAfterCheck
<1>7. ASSUME NEW p \in Proc, AdUnlock(p) PROVE CheckedBefore'
  BY <1>7 DEF AdUnlock, operationUnlock
<1>8. ASSUME NEW p \in Proc, isAborted(p) PROVE CheckedBefore'
  BY <1>8 DEF isAborted, Throw
<1>9. ASSUME NEW p \in Proc, Deliver(p) PROVE CheckedBefore'
  BY <1>9 DEF Deliver
<1>10. ASSUME NEW p \in Proc, EnqueueOkFails(p) PROVE CheckedBefore'
  BY <1>10 DEF EnqueueOkFails, Local
<1>11. ASSUME NEW p \in Proc, WriteStarted(p) PROVE CheckedBefore'
  BY <1>11 DEF WriteStarted, Throw
<1>12. ASSUME NEW p \in Proc, RemoveLock(p) PROVE CheckedBefore'
  BY <1>12 DEF RemoveLock, operationUnlock
<1>13. ASSUME NEW p \in Proc, CancelStatus(p) PROVE CheckedBefore'
  BY <1>13 DEF CancelStatus, Local
<1>14. ASSUME NEW p \in Proc, CancelSubmitted(p) PROVE CheckedBefore'
  BY <1>14 DEF CancelSubmitted, Record, isOperationLocked, CloseAfterCheck
<1>15. ASSUME NEW p \in Proc, CancelForward(p) PROVE CheckedBefore'
  BY <1>15 DEF CancelForward, logEvent, Record
<1>16. ASSUME NEW p \in Proc, jobPurge(p) PROVE CheckedBefore'
  BY <1>16 DEF jobPurge, isOperationLocked, CloseAfterCheck
<1>17. ASSUME NEW p \in Proc, jobpurge(p) PROVE CheckedBefore'
  BY <1>17 DEF jobpurge, AfterPurge, Record
<1>18. ASSUME NEW p \in Proc, getOutputFileList(p) PROVE CheckedBefore'
  BY <1>18 DEF getOutputFileList, OpenLock, operationLock, operationUnlock, ListingOver, Local
<1>19. ASSUME NEW p \in Proc, Register(p) PROVE CheckedBefore'
  BY <1>19 DEF Register, Serve
<1>20. ASSUME NEW p \in Proc, Call(p) PROVE CheckedBefore'
  <2>1. PICK o \in {"start", "expired", "cancel", "purge", "list"},
             label \in {"allowed", "expired", "status", "purge_locked", "list_open"} :
             known /\ o \in OperationsAt(label) /\ Serve(p, o, label)
    BY <1>20, CallServes
  <2>. QED
    BY <2>1 DEF Serve
<1>21. ASSUME NEW p \in Proc, Crash(p) PROVE CheckedBefore'
  BY <1>21 DEF Crash, Ends, ListingOver
<1>22. ASSUME NEW p \in Proc, Recycle(p) PROVE CheckedBefore'
  BY <1>22 DEF Recycle, Ends, ListingOver
<1>23. CASE WM
  BY <1>23 DEF WM
<1>24. CASE UNCHANGED vars
  BY <1>24, SMTT(30)
<1>. QED
  BY <1>1, <1>2, <1>3, <1>4, <1>5, <1>6, <1>7, <1>8, <1>9, <1>10, <1>11,
     <1>12, <1>13, <1>14, <1>15, <1>16, <1>17, <1>18, <1>19, <1>20, <1>21,
     <1>22, <1>23, <1>24, Zenon
     DEF Next, Step, submit, jobCancel

(* Every step keeps AbortFirst.                                              *)
LEMMA AbortFirstStep ==
    ASSUME TypeOK, InPlace, AbortFirst, [Next]_vars
    PROVE  AbortFirst'
<1> USE DEF TypeOK, InPlace, OperationsAt, AbortFirst, Starting
<1>1. ASSUME NEW p \in Proc, regist(p) PROVE AbortFirst'
  BY <1>1 DEF regist, Record
<1>2. ASSUME NEW p \in Proc, jobStart(p) PROVE AbortFirst'
  BY <1>2 DEF jobStart, OpenLock, operationLock, Local
<1>3. ASSUME NEW p \in Proc, jobStartExpired(p) PROVE AbortFirst'
  BY <1>3 DEF jobStartExpired, Record
<1>4. ASSUME NEW p \in Proc, LogSteps(p) PROVE AbortFirst'
  BY <1>4 DEF LogSteps, LogThen, LogFails, logEvent, Record, Throw
<1>5. ASSUME NEW p \in Proc, Prepare(p) PROVE AbortFirst'
  BY <1>5 DEF Prepare, Local
<1>6. ASSUME NEW p \in Proc, TooMany(p) PROVE AbortFirst'
  BY <1>6 DEF TooMany, Record, isOperationLocked, CloseAfterCheck
<1>7. ASSUME NEW p \in Proc, AdUnlock(p) PROVE AbortFirst'
  BY <1>7 DEF AdUnlock, operationUnlock
<1>8. ASSUME NEW p \in Proc, isAborted(p) PROVE AbortFirst'
  BY <1>8 DEF isAborted, Throw
<1>9. ASSUME NEW p \in Proc, Deliver(p) PROVE AbortFirst'
  BY <1>9 DEF Deliver
<1>10. ASSUME NEW p \in Proc, EnqueueOkFails(p) PROVE AbortFirst'
  BY <1>10 DEF EnqueueOkFails, Local
<1>11. ASSUME NEW p \in Proc, WriteStarted(p) PROVE AbortFirst'
  BY <1>11 DEF WriteStarted, Throw
<1>12. ASSUME NEW p \in Proc, RemoveLock(p) PROVE AbortFirst'
  BY <1>12 DEF RemoveLock, operationUnlock
<1>13. ASSUME NEW p \in Proc, CancelStatus(p) PROVE AbortFirst'
  BY <1>13 DEF CancelStatus, Local
<1>14. ASSUME NEW p \in Proc, CancelSubmitted(p) PROVE AbortFirst'
  BY <1>14 DEF CancelSubmitted, Record, isOperationLocked, CloseAfterCheck
<1>15. ASSUME NEW p \in Proc, CancelForward(p) PROVE AbortFirst'
  BY <1>15 DEF CancelForward, logEvent, Record
<1>16. ASSUME NEW p \in Proc, jobPurge(p) PROVE AbortFirst'
  BY <1>16 DEF jobPurge, isOperationLocked, CloseAfterCheck
<1>17. ASSUME NEW p \in Proc, jobpurge(p) PROVE AbortFirst'
  BY <1>17 DEF jobpurge, AfterPurge, Record
<1>18. ASSUME NEW p \in Proc, getOutputFileList(p) PROVE AbortFirst'
  BY <1>18 DEF getOutputFileList, OpenLock, operationLock, operationUnlock, ListingOver, Local
<1>19. ASSUME NEW p \in Proc, Register(p) PROVE AbortFirst'
  BY <1>19 DEF Register, Serve
<1>20. ASSUME NEW p \in Proc, Call(p) PROVE AbortFirst'
  <2>1. PICK o \in {"start", "expired", "cancel", "purge", "list"},
             label \in {"allowed", "expired", "status", "purge_locked", "list_open"} :
             known /\ o \in OperationsAt(label) /\ Serve(p, o, label)
    BY <1>20, CallServes
  <2>. QED
    BY <2>1 DEF Serve
<1>21. ASSUME NEW p \in Proc, Crash(p) PROVE AbortFirst'
  BY <1>21 DEF Crash, Ends, ListingOver
<1>22. ASSUME NEW p \in Proc, Recycle(p) PROVE AbortFirst'
  BY <1>22 DEF Recycle, Ends, ListingOver
<1>23. CASE WM
  BY <1>23 DEF WM
<1>24. CASE UNCHANGED vars
  BY <1>24, SMTT(30)
<1>. QED
  BY <1>1, <1>2, <1>3, <1>4, <1>5, <1>6, <1>7, <1>8, <1>9, <1>10, <1>11,
     <1>12, <1>13, <1>14, <1>15, <1>16, <1>17, <1>18, <1>19, <1>20, <1>21,
     <1>22, <1>23, <1>24
     DEF Next, Step, submit, jobCancel

(* Every step keeps StartOrPurge.                                            *)
LEMMA StartOrPurgeStep ==
    ASSUME TypeOK, InPlace, StartLocked, AbortFirst, StartOrPurge, [Next]_vars
    PROVE  StartOrPurge'
<1> USE DEF TypeOK, InPlace, OperationsAt, Starting, StartLocked, AbortFirst, StartOrPurge
<1>1. ASSUME NEW p \in Proc, regist(p) PROVE StartOrPurge'
  BY <1>1 DEF regist, Record
<1>2. ASSUME NEW p \in Proc, jobStart(p) PROVE StartOrPurge'
  BY <1>2 DEF jobStart, OpenLock, operationLock, Local
<1>3. ASSUME NEW p \in Proc, jobStartExpired(p) PROVE StartOrPurge'
  BY <1>3 DEF jobStartExpired, Record
<1>4. ASSUME NEW p \in Proc, LogSteps(p) PROVE StartOrPurge'
  BY <1>4 DEF LogSteps, LogThen, LogFails, logEvent, Record, Throw
<1>5. ASSUME NEW p \in Proc, Prepare(p) PROVE StartOrPurge'
  BY <1>5 DEF Prepare, Local
<1>6. ASSUME NEW p \in Proc, TooMany(p) PROVE StartOrPurge'
  BY <1>6 DEF TooMany, Record, isOperationLocked, CloseAfterCheck
<1>7. ASSUME NEW p \in Proc, AdUnlock(p) PROVE StartOrPurge'
  BY <1>7 DEF AdUnlock, operationUnlock
<1>8. ASSUME NEW p \in Proc, isAborted(p) PROVE StartOrPurge'
  BY <1>8 DEF isAborted, Throw
<1>9. ASSUME NEW p \in Proc, Deliver(p) PROVE StartOrPurge'
  BY <1>9 DEF Deliver
<1>10. ASSUME NEW p \in Proc, EnqueueOkFails(p) PROVE StartOrPurge'
  BY <1>10 DEF EnqueueOkFails, Local
<1>11. ASSUME NEW p \in Proc, WriteStarted(p) PROVE StartOrPurge'
  BY <1>11 DEF WriteStarted, Throw
<1>12. ASSUME NEW p \in Proc, RemoveLock(p) PROVE StartOrPurge'
  BY <1>12 DEF RemoveLock, operationUnlock
<1>13. ASSUME NEW p \in Proc, CancelStatus(p) PROVE StartOrPurge'
  BY <1>13 DEF CancelStatus, Local
<1>14. ASSUME NEW p \in Proc, CancelSubmitted(p) PROVE StartOrPurge'
  BY <1>14 DEF CancelSubmitted, Record, isOperationLocked, CloseAfterCheck
<1>15. ASSUME NEW p \in Proc, CancelForward(p) PROVE StartOrPurge'
  BY <1>15 DEF CancelForward, logEvent, Record
<1>16. ASSUME NEW p \in Proc, jobPurge(p) PROVE StartOrPurge'
  BY <1>16 DEF jobPurge, isOperationLocked, CloseAfterCheck
<1>17. ASSUME NEW p \in Proc, jobpurge(p) PROVE StartOrPurge'
  BY <1>17 DEF jobpurge, AfterPurge, Record
<1>18. ASSUME NEW p \in Proc, getOutputFileList(p) PROVE StartOrPurge'
  BY <1>18 DEF getOutputFileList, OpenLock, operationLock, operationUnlock, ListingOver, Local
<1>19. ASSUME NEW p \in Proc, Register(p) PROVE StartOrPurge'
  BY <1>19 DEF Register, Serve
<1>20. ASSUME NEW p \in Proc, Call(p) PROVE StartOrPurge'
  <2>1. PICK o \in {"start", "expired", "cancel", "purge", "list"},
             label \in {"allowed", "expired", "status", "purge_locked", "list_open"} :
             known /\ o \in OperationsAt(label) /\ Serve(p, o, label)
    BY <1>20, CallServes
  <2>. QED
    BY <2>1 DEF Serve
<1>21. ASSUME NEW p \in Proc, Crash(p) PROVE StartOrPurge'
  BY <1>21 DEF Crash, Ends, ListingOver
<1>22. ASSUME NEW p \in Proc, Recycle(p) PROVE StartOrPurge'
  BY <1>22 DEF Recycle, Ends, ListingOver
<1>23. CASE WM
  BY <1>23 DEF WM
<1>24. CASE UNCHANGED vars
  BY <1>24, SMTT(30)
<1>. QED
  BY <1>1, <1>2, <1>3, <1>4, <1>5, <1>6, <1>7, <1>8, <1>9, <1>10, <1>11,
     <1>12, <1>13, <1>14, <1>15, <1>16, <1>17, <1>18, <1>19, <1>20, <1>21,
     <1>22, <1>23, <1>24
     DEF Next, Step, submit, jobCancel

(* Every step keeps ListLocked.                                              *)
LEMMA ListLockedStep ==
    ASSUME TypeOK, InPlace, ListLocked, [Next]_vars
    PROVE  ListLocked'
<1> USE DEF TypeOK, InPlace, OperationsAt, Starting, ListLocked
<1>1. ASSUME NEW p \in Proc, regist(p) PROVE ListLocked'
  BY <1>1 DEF regist, Record
<1>2. ASSUME NEW p \in Proc, jobStart(p) PROVE ListLocked'
  BY <1>2 DEF jobStart, OpenLock, operationLock, Local
<1>3. ASSUME NEW p \in Proc, jobStartExpired(p) PROVE ListLocked'
  BY <1>3 DEF jobStartExpired, Record
<1>4. ASSUME NEW p \in Proc, LogSteps(p) PROVE ListLocked'
  BY <1>4 DEF LogSteps, LogThen, LogFails, logEvent, Record, Throw
<1>5. ASSUME NEW p \in Proc, Prepare(p) PROVE ListLocked'
  BY <1>5 DEF Prepare, Local
<1>6. ASSUME NEW p \in Proc, TooMany(p) PROVE ListLocked'
  BY <1>6 DEF TooMany, Record, isOperationLocked, CloseAfterCheck
<1>7. ASSUME NEW p \in Proc, AdUnlock(p) PROVE ListLocked'
  BY <1>7 DEF AdUnlock, operationUnlock
<1>8. ASSUME NEW p \in Proc, isAborted(p) PROVE ListLocked'
  BY <1>8 DEF isAborted, Throw
<1>9. ASSUME NEW p \in Proc, Deliver(p) PROVE ListLocked'
  BY <1>9 DEF Deliver
<1>10. ASSUME NEW p \in Proc, EnqueueOkFails(p) PROVE ListLocked'
  BY <1>10 DEF EnqueueOkFails, Local
<1>11. ASSUME NEW p \in Proc, WriteStarted(p) PROVE ListLocked'
  BY <1>11 DEF WriteStarted, Throw
<1>12. ASSUME NEW p \in Proc, RemoveLock(p) PROVE ListLocked'
  BY <1>12 DEF RemoveLock, operationUnlock
<1>13. ASSUME NEW p \in Proc, CancelStatus(p) PROVE ListLocked'
  BY <1>13 DEF CancelStatus, Local
<1>14. ASSUME NEW p \in Proc, CancelSubmitted(p) PROVE ListLocked'
  BY <1>14 DEF CancelSubmitted, Record, isOperationLocked, CloseAfterCheck
<1>15. ASSUME NEW p \in Proc, CancelForward(p) PROVE ListLocked'
  BY <1>15 DEF CancelForward, logEvent, Record
<1>16. ASSUME NEW p \in Proc, jobPurge(p) PROVE ListLocked'
  BY <1>16 DEF jobPurge, isOperationLocked, CloseAfterCheck
<1>17. ASSUME NEW p \in Proc, jobpurge(p) PROVE ListLocked'
  BY <1>17 DEF jobpurge, AfterPurge, Record
<1>18. ASSUME NEW p \in Proc, getOutputFileList(p) PROVE ListLocked'
  BY <1>18 DEF getOutputFileList, OpenLock, operationLock, operationUnlock, ListingOver, Local
<1>19. ASSUME NEW p \in Proc, Register(p) PROVE ListLocked'
  BY <1>19 DEF Register, Serve
<1>20. ASSUME NEW p \in Proc, Call(p) PROVE ListLocked'
  <2>1. PICK o \in {"start", "expired", "cancel", "purge", "list"},
             label \in {"allowed", "expired", "status", "purge_locked", "list_open"} :
             known /\ o \in OperationsAt(label) /\ Serve(p, o, label)
    BY <1>20, CallServes
  <2>. QED
    BY <2>1 DEF Serve
<1>21. ASSUME NEW p \in Proc, Crash(p) PROVE ListLocked'
  BY <1>21 DEF Crash, Ends, ListingOver
<1>22. ASSUME NEW p \in Proc, Recycle(p) PROVE ListLocked'
  BY <1>22 DEF Recycle, Ends, ListingOver
<1>23. CASE WM
  BY <1>23 DEF WM
<1>24. CASE UNCHANGED vars
  BY <1>24, SMTT(30)
<1>. QED
  BY <1>1, <1>2, <1>3, <1>4, <1>5, <1>6, <1>7, <1>8, <1>9, <1>10, <1>11,
     <1>12, <1>13, <1>14, <1>15, <1>16, <1>17, <1>18, <1>19, <1>20, <1>21,
     <1>22, <1>23, <1>24
     DEF Next, Step, submit, jobCancel

(* Every step keeps RegisteredAlone.                                         *)
LEMMA RegisteredAloneStep ==
    ASSUME TypeOK, RegisteredAlone, [Next]_vars
    PROVE  RegisteredAlone'
<1> USE DEF TypeOK, RegisteredAlone
<1>1. ASSUME NEW p \in Proc, regist(p) PROVE RegisteredAlone'
  BY <1>1 DEF regist, Record
<1>2. ASSUME NEW p \in Proc, jobStart(p) PROVE RegisteredAlone'
  BY <1>2 DEF jobStart, OpenLock, operationLock, Local
<1>3. ASSUME NEW p \in Proc, jobStartExpired(p) PROVE RegisteredAlone'
  BY <1>3, SMTT(30) DEF jobStartExpired, Record
<1>4. ASSUME NEW p \in Proc, LogSteps(p) PROVE RegisteredAlone'
  BY <1>4 DEF LogSteps, LogThen, LogFails, logEvent, Record, Throw
<1>5. ASSUME NEW p \in Proc, Prepare(p) PROVE RegisteredAlone'
  BY <1>5 DEF Prepare, Local
<1>6. ASSUME NEW p \in Proc, TooMany(p) PROVE RegisteredAlone'
  BY <1>6 DEF TooMany, Record, isOperationLocked, CloseAfterCheck
<1>7. ASSUME NEW p \in Proc, AdUnlock(p) PROVE RegisteredAlone'
  BY <1>7 DEF AdUnlock, operationUnlock
<1>8. ASSUME NEW p \in Proc, isAborted(p) PROVE RegisteredAlone'
  BY <1>8 DEF isAborted, Throw
<1>9. ASSUME NEW p \in Proc, Deliver(p) PROVE RegisteredAlone'
  BY <1>9 DEF Deliver
<1>10. ASSUME NEW p \in Proc, EnqueueOkFails(p) PROVE RegisteredAlone'
  BY <1>10 DEF EnqueueOkFails, Local
<1>11. ASSUME NEW p \in Proc, WriteStarted(p) PROVE RegisteredAlone'
  BY <1>11 DEF WriteStarted, Throw
<1>12. ASSUME NEW p \in Proc, RemoveLock(p) PROVE RegisteredAlone'
  BY <1>12 DEF RemoveLock, operationUnlock
<1>13. ASSUME NEW p \in Proc, CancelStatus(p) PROVE RegisteredAlone'
  BY <1>13 DEF CancelStatus, Local
<1>14. ASSUME NEW p \in Proc, CancelSubmitted(p) PROVE RegisteredAlone'
  BY <1>14 DEF CancelSubmitted, Record, isOperationLocked, CloseAfterCheck
<1>15. ASSUME NEW p \in Proc, CancelForward(p) PROVE RegisteredAlone'
  BY <1>15 DEF CancelForward, logEvent, Record
<1>16. ASSUME NEW p \in Proc, jobPurge(p) PROVE RegisteredAlone'
  BY <1>16 DEF jobPurge, isOperationLocked, CloseAfterCheck
<1>17. ASSUME NEW p \in Proc, jobpurge(p) PROVE RegisteredAlone'
  BY <1>17 DEF jobpurge, AfterPurge, Record
<1>18. ASSUME NEW p \in Proc, getOutputFileList(p) PROVE RegisteredAlone'
  BY <1>18 DEF getOutputFileList, OpenLock, operationLock, operationUnlock, ListingOver, Local
<1>19. ASSUME NEW p \in Proc, Register(p) PROVE RegisteredAlone'
  BY <1>19 DEF Register, Serve
<1>20. ASSUME NEW p \in Proc, Call(p) PROVE RegisteredAlone'
  <2>1. PICK o \in {"start", "expired", "cancel", "purge", "list"},
             label \in {"allowed", "expired", "status", "purge_locked", "list_open"} :
             known /\ o \in OperationsAt(label) /\ Serve(p, o, label)
    BY <1>20, CallServes
  <2>. QED
    BY <2>1 DEF Serve
<1>21. ASSUME NEW p \in Proc, Crash(p) PROVE RegisteredAlone'
  BY <1>21 DEF Crash, Ends, ListingOver
<1>22. ASSUME NEW p \in Proc, Recycle(p) PROVE RegisteredAlone'
  BY <1>22 DEF Recycle, Ends, ListingOver
<1>23. CASE WM
  BY <1>23 DEF WM
<1>24. CASE UNCHANGED vars
  BY <1>24, SMTT(30)
<1>. QED
  BY <1>1, <1>2, <1>3, <1>4, <1>5, <1>6, <1>7, <1>8, <1>9, <1>10, <1>11,
     <1>12, <1>13, <1>14, <1>15, <1>16, <1>17, <1>18, <1>19, <1>20, <1>21,
     <1>22, <1>23, <1>24, Zenon
     DEF Next, Step, submit, jobCancel

(* Every step keeps JdlKept.                                                 *)
LEMMA JdlKeptStep ==
    ASSUME TypeOK, RegisteredAlone, JdlKept, [Next]_vars
    PROVE  JdlKept'
<1> USE DEF TypeOK, RegisteredAlone, JdlKept
<1>1. ASSUME NEW p \in Proc, regist(p) PROVE JdlKept'
  BY <1>1, Zenon DEF regist, Record
<1>2. ASSUME NEW p \in Proc, jobStart(p) PROVE JdlKept'
  BY <1>2, Zenon DEF jobStart, OpenLock, operationLock, Local
<1>3. ASSUME NEW p \in Proc, jobStartExpired(p) PROVE JdlKept'
  BY <1>3 DEF jobStartExpired, Record
<1>4. ASSUME NEW p \in Proc, LogSteps(p) PROVE JdlKept'
  BY <1>4, Zenon DEF LogSteps, LogThen, LogFails, logEvent, Record, Throw
<1>5. ASSUME NEW p \in Proc, Prepare(p) PROVE JdlKept'
  BY <1>5 DEF Prepare, Local
<1>6. ASSUME NEW p \in Proc, TooMany(p) PROVE JdlKept'
  BY <1>6, Zenon DEF TooMany, Record, isOperationLocked, CloseAfterCheck
<1>7. ASSUME NEW p \in Proc, AdUnlock(p) PROVE JdlKept'
  BY <1>7 DEF AdUnlock, operationUnlock
<1>8. ASSUME NEW p \in Proc, isAborted(p) PROVE JdlKept'
  BY <1>8 DEF isAborted, Throw
<1>9. ASSUME NEW p \in Proc, Deliver(p) PROVE JdlKept'
  BY <1>9 DEF Deliver
<1>10. ASSUME NEW p \in Proc, EnqueueOkFails(p) PROVE JdlKept'
  BY <1>10 DEF EnqueueOkFails, Local
<1>11. ASSUME NEW p \in Proc, WriteStarted(p) PROVE JdlKept'
  BY <1>11, Zenon DEF WriteStarted, Throw
<1>12. ASSUME NEW p \in Proc, RemoveLock(p) PROVE JdlKept'
  BY <1>12 DEF RemoveLock, operationUnlock
<1>13. ASSUME NEW p \in Proc, CancelStatus(p) PROVE JdlKept'
  BY <1>13 DEF CancelStatus, Local
<1>14. ASSUME NEW p \in Proc, CancelSubmitted(p) PROVE JdlKept'
  BY <1>14, Zenon DEF CancelSubmitted, Record, isOperationLocked, CloseAfterCheck
<1>15. ASSUME NEW p \in Proc, CancelForward(p) PROVE JdlKept'
  BY <1>15, Zenon DEF CancelForward, logEvent, Record
<1>16. ASSUME NEW p \in Proc, jobPurge(p) PROVE JdlKept'
  BY <1>16 DEF jobPurge, isOperationLocked, CloseAfterCheck
<1>17. ASSUME NEW p \in Proc, jobpurge(p) PROVE JdlKept'
  BY <1>17, Zenon DEF jobpurge, AfterPurge, Record
<1>18. ASSUME NEW p \in Proc, getOutputFileList(p) PROVE JdlKept'
  BY <1>18, Zenon DEF getOutputFileList, OpenLock, operationLock, operationUnlock, ListingOver, Local
<1>19. ASSUME NEW p \in Proc, Register(p) PROVE JdlKept'
  BY <1>19 DEF Register, Serve
<1>20. ASSUME NEW p \in Proc, Call(p) PROVE JdlKept'
  <2>1. PICK o \in {"start", "expired", "cancel", "purge", "list"},
             label \in {"allowed", "expired", "status", "purge_locked", "list_open"} :
             known /\ o \in OperationsAt(label) /\ Serve(p, o, label)
    BY <1>20, CallServes
  <2>. QED
    BY <2>1 DEF Serve
<1>21. ASSUME NEW p \in Proc, Crash(p) PROVE JdlKept'
  BY <1>21 DEF Crash, Ends, ListingOver
<1>22. ASSUME NEW p \in Proc, Recycle(p) PROVE JdlKept'
  BY <1>22 DEF Recycle, Ends, ListingOver
<1>23. CASE WM
  BY <1>23 DEF WM
<1>24. CASE UNCHANGED vars
  BY <1>24, SMTT(30)
<1>. QED
  BY <1>1, <1>2, <1>3, <1>4, <1>5, <1>6, <1>7, <1>8, <1>9, <1>10, <1>11,
     <1>12, <1>13, <1>14, <1>15, <1>16, <1>17, <1>18, <1>19, <1>20, <1>21,
     <1>22, <1>23, <1>24, Zenon
     DEF Next, Step, submit, jobCancel

-----------------------------------------------------------------------------
(* The inductive invariant.                                                  *)
IInv ==
    /\ TypeOK /\ InPlace /\ StartLocked /\ CheckedBefore /\ AbortFirst
    /\ StartOrPurge /\ ListLocked /\ RegisteredAlone /\ JdlKept

(* It holds in every state the processes reach.                              *)
THEOREM Invariance == Spec => []IInv
<1>1. ASSUME Init PROVE IInv
  <2>1. TypeOK
    <3>1. ControlTyped /\ LocksTyped
      BY <1>1 DEF Init, ControlTyped, LocksTyped, Label
    <3>2. LbTyped /\ DiskTyped
      BY <1>1, Zenon DEF Init, LbTyped, DiskTyped
    <3>3. CountsTyped
      BY <1>1 DEF Init, CountsTyped, WMState
    <3>. QED
      BY <3>1, <3>2, <3>3
         DEF TypeOK, ControlTyped, LocksTyped, LbTyped, DiskTyped, CountsTyped
  <2>2. InPlace
    BY <1>1 DEF Init, InPlace, OperationsAt, Starting
  <2>3. StartLocked /\ CheckedBefore /\ AbortFirst /\ StartOrPurge
    BY <1>1
       DEF Init, StartLocked, CheckedBefore, AbortFirst, StartOrPurge, Starting,
           Operation
  <2>4. ListLocked /\ RegisteredAlone /\ JdlKept
    BY <1>1 DEF Init, ListLocked, RegisteredAlone, JdlKept
  <2>. QED
    BY <2>1, <2>2, <2>3, <2>4 DEF IInv
<1>2. IInv /\ [Next]_vars => IInv'
  BY TypeStep, InPlaceStep, StartLockedStep, CheckedBeforeStep,
     AbortFirstStep, StartOrPurgeStep, ListLockedStep, RegisteredAloneStep,
     JdlKeptStep DEF IInv
<1>. QED
  BY <1>1, <1>2, PTL DEF Spec

(* Types: what every operation of WMProxy leaves in the directory, the locks *)
(* and LB is of its kind.                                                    *)
THEOREM Typing == Spec => []TypeOK
<1>1. IInv => TypeOK
  BY DEF IInv
<1>. QED
  BY <1>1, Invariance, PTL

(* However many processes serve jobStart for one job, one is between         *)
(* operationLock and the rename of the JDL.                                  *)
THEOREM OneStartAtATime == Spec => []OneStart
<1>1. IInv => OneStart
  BY DEF IInv, StartLocked, OneStart
<1>. QED
  BY <1>1, Invariance, PTL

(* A registered job that is not purged keeps a JDL file for jobCancel.       *)
THEOREM JdlAlwaysThere == Spec => []JdlKept
<1>1. IInv => JdlKept
  BY DEF IInv
<1>. QED
  BY <1>1, Invariance, PTL

(* Only a start that was beyond isAborted when the job was aborted can still *)
(* deliver it.                                                               *)
THEOREM AbortPrevails == Spec => AbortWins
<1> DEFINE A == submits' > submits /\ "ABORT" \in events
                  => \E p \in past : pc[p] = "deliver" /\ pc'[p] # "deliver"
<1>1. ASSUME IInv, [Next]_vars PROVE [A]_vars
  <2>1. CASE \E p \in Proc : Deliver(p)
    <3>1. PICK p \in Proc : Deliver(p)
      BY <2>1
    <3>2. pc[p] = "deliver" /\ pc'[p] # "deliver"
      BY <3>1, <1>1 DEF Deliver, IInv, TypeOK
    <3>3. "ABORT" \in events => p \in past
      BY <3>2, <1>1 DEF IInv, CheckedBefore
    <3>. QED
      BY <3>2, <3>3
  <2>2. CASE submits' = submits
    BY <2>2, <1>1 DEF IInv, TypeOK
  <2>3. ASSUME NEW p \in Proc, submit(p) PROVE Deliver(p) \/ submits' = submits
    BY <2>3, ZenonT(30) DEF submit, LogSteps, LogThen, LogFails, Local, Prepare, TooMany,
       AdUnlock, isAborted, EnqueueOkFails, WriteStarted, RemoveLock
  <2>4. ASSUME NEW p \in Proc, regist(p) \/ jobStart(p) \/ jobStartExpired(p)
        PROVE submits' = submits
    BY <2>4 DEF regist, jobStart, OpenLock, operationLock, Local, jobStartExpired
  <2>5. ASSUME NEW p \in Proc, jobCancel(p) PROVE submits' = submits
    BY <2>5 DEF jobCancel, CancelStatus, CancelSubmitted, CancelForward, Local
  <2>6. ASSUME NEW p \in Proc, jobPurge(p) \/ jobpurge(p) \/ getOutputFileList(p)
        PROVE submits' = submits
    BY <2>6 DEF jobPurge, jobpurge, getOutputFileList, OpenLock, operationLock,
       Local
  <2>7. ASSUME NEW p \in Proc, Register(p) \/ Call(p) \/ Crash(p) \/ Recycle(p)
        PROVE submits' = submits
    BY <2>7, Zenon DEF Register, Call, Serve, Crash, Recycle, Ends
  <2>8. ASSUME WM PROVE submits' = submits
    BY <2>8 DEF WM
  <2>. QED
    BY <1>1, <2>1, <2>2, <2>3, <2>4, <2>5, <2>6, <2>7, <2>8 DEF Next, Step
<1>. QED
  BY <1>1, Invariance, PTL DEF Spec, AbortWins

(* A jobStart under its lock never delivers a job whose directory a          *)
(* jobCancel has removed: jobCancel logs ABORT before it looks at the lock,  *)
(* the start takes the lock before it looks for ABORT.                       *)
THEOREM CancelOrStart == Spec => CancelSparesStart
<1> DEFINE A == \A p \in Proc :
                  /\ pc[p] = "deliver" /\ pc'[p] = "enq_ok" /\ op[p] = "start"
                  => purger # "cancel"
<1>1. IInv => A
  BY DEF IInv, StartOrPurge
<1>. QED
  BY <1>1, Invariance, PTL DEF Spec, CancelSparesStart

(* jobPurge never removes the files of a listing that was under way when it  *)
(* was called.                                                               *)
THEOREM ListingsSpared == Spec => PurgeSparesList
<1> DEFINE A == \A p \in Proc :
                  pc[p] = "remove" /\ op[p] = "purge" /\ dir /\ ~dir' => busy[p] = {}
<1>1. IInv => A
  BY DEF IInv, ListLocked
<1>. QED
  BY <1>1, Invariance, PTL DEF Spec, PurgeSparesList
=============================================================================
