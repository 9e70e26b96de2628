------------------------------- MODULE JobDir -------------------------------
(***************************************************************************)
(* The directory queue that joins the daemons of the WMS                   *)
(* (common/src/utilities/jobdir.cpp and jobdir_reader.cpp): a request is    *)
(* written to a file under tmp/, renamed into new/ when it is complete,     *)
(* renamed into old/ when the receiving daemon reads it, and removed when   *)
(* the daemon has finished with it.  WMProxy, ICE, the LogMonitor and the   *)
(* replanner deliver to the Workload Manager; the Workload Manager delivers *)
(* to ICE and to the Job Controller.                                        *)
(*                                                                          *)
(* A directory maps names to files; a file is identified by the delivery    *)
(* that created it.  The daemon may crash; when it starts again its start   *)
(* script moves old/ back to new/, except when ICE's supervisor restarts    *)
(* ICE alone.                                                               *)
(***************************************************************************)
EXTENDS Integers, FiniteSets

CONSTANTS
    Producers,      \* threads that deliver
    Id,             \* Id[p]: thread id of the JobDir object that p uses
    Requests,       \* the requests, each delivered at most once
    MaxStamp,       \* bound on the clock that names the files
    MaxRead,        \* how many files one read takes
    SkipFailed,     \* a failed set_old is skipped (ICE) or ends the read (WM)
    Requeue,        \* old/ is moved back to new/ before the daemon starts
    MaxFaults,      \* bound on failed renames of the daemon and its script
    MaxCrashes      \* bound on crashes of the daemon

ASSUME JobDirAssumption ==
    /\ "none" \notin Requests \cup Producers
    /\ MaxStamp \in Nat \ {0} /\ MaxRead \in Nat \ {0}
    /\ MaxFaults \in Nat /\ MaxCrashes \in Nat
    /\ SkipFailed \in BOOLEAN /\ Requeue \in BOOLEAN

NoName == [stamp |-> 0, id |-> "none"]
Names == [stamp : 1 .. MaxStamp, id : {Id[p] : p \in Producers}]

VARIABLES
    clock,          \* universal_time()
    tmp, new, old,  \* the three directories: name -> file
    content,        \* content[f]: the request written to file f, if any
    pc,             \* pc[r]: how far the delivery of r has got
    by,             \* by[r]: the thread that delivers it
    name,           \* name[r]: its file name
    fd,             \* fd[r]: the file it has open
    reader,         \* what the daemon does
    opened,         \* what was in new/ when this read opened it
    listing,        \* new_entries() that this read has not moved yet
    result,         \* names moved by this read and not dispatched yet
    held,           \* names dispatched and not finished yet
    done,           \* requests served and removed
    faults, crashes

delivery == <<clock, tmp, content, pc, by, name, fd>>
daemon == <<old, reader, opened, listing, result, held, done, faults, crashes>>
vars == <<clock, tmp, new, old, content, pc, by, name, fd,
          reader, opened, listing, result, held, done, faults, crashes>>

Put(dir, n, f) == [m \in DOMAIN dir \cup {n} |-> IF m = n THEN f ELSE dir[m]]
Remove(dir, n) == [m \in DOMAIN dir \ {n} |-> dir[m]]
EmptyDir == [m \in {} |-> "none"]

Init ==
    /\ clock = 1
    /\ tmp = EmptyDir /\ new = EmptyDir /\ old = EmptyDir
    /\ content = [r \in Requests |-> "none"]
    /\ pc = [r \in Requests |-> "unsent"]
    /\ by = [r \in Requests |-> "none"]
    /\ name = [r \in Requests |-> NoName]
    /\ fd = [r \in Requests |-> "none"]
    /\ reader = "idle"
    /\ opened = {} /\ listing = {} /\ result = {} /\ held = {} /\ done = {}
    /\ faults = 0 /\ crashes = 0
-----------------------------------------------------------------------------
(* JobDir::deliver, for request r *)

Busy(p) == \E r \in Requests : by[r] = p /\ pc[r] \in {"named", "created", "written"}
\* one thread never delivers twice within one tick of the clock
Ticked(p) == \A r \in Requests : by[r] = p => name[r].stamp < clock

file_name_without_id(p) == [stamp |-> clock, id |-> CHOOSE i \in {Id[q] : q \in Producers} : TRUE]
file_name(p) == [stamp |-> clock, id |-> Id[p]]

MakeName(p, r) ==
    /\ pc[r] = "unsent" /\ ~ Busy(p) /\ Ticked(p)
    /\ by' = [by EXCEPT ![r] = p]
    /\ name' = [name EXCEPT ![r] = file_name(p)]
    /\ pc' = [pc EXCEPT ![r] = "named"]
    /\ UNCHANGED <<clock, tmp, new, content, fd>> /\ UNCHANGED daemon

\* fs::ofstream tmp_file(tmp_path): a new file, or the one of that name truncated
CreateTmp(r) ==
    LET f == IF name[r] \in DOMAIN tmp THEN tmp[name[r]] ELSE r
    IN  /\ pc[r] = "named"
        /\ tmp' = Put(tmp, name[r], f)
        /\ content' = [content EXCEPT ![f] = "none"]
        /\ fd' = [fd EXCEPT ![r] = f]
        /\ pc' = [pc EXCEPT ![r] = "created"]
        /\ UNCHANGED <<clock, new, by, name>> /\ UNCHANGED daemon

\* tmp_file << contents << flush; tmp_file.close()
WriteTmp(r) ==
    /\ pc[r] = "created"
    /\ content' = [content EXCEPT ![fd[r]] = r]
    /\ pc' = [pc EXCEPT ![r] = "written"]
    /\ UNCHANGED <<clock, tmp, new, by, name, fd>> /\ UNCHANGED daemon

\* rename(tmp_path, new_path), which replaces a file of that name
RenameToNew_before_write(r) ==
    /\ pc[r] \in {"created", "written"} /\ name[r] \in DOMAIN tmp
    /\ new' = Put(new, name[r], tmp[name[r]])
    /\ tmp' = Remove(tmp, name[r])
    /\ pc' = [pc EXCEPT ![r] = "sent"]
    /\ UNCHANGED <<clock, content, by, name, fd>> /\ UNCHANGED daemon
RenameToNew(r) ==
    /\ pc[r] = "written" /\ name[r] \in DOMAIN tmp
    /\ new' = Put(new, name[r], tmp[name[r]])
    /\ tmp' = Remove(tmp, name[r])
    /\ pc' = [pc EXCEPT ![r] = "sent"]
    /\ UNCHANGED <<clock, content, by, name, fd>> /\ UNCHANGED daemon

\* JobDirError from any step (for the rename, ENOENT too), or the producer
\* dies: what it has written stays in tmp/
DeliverFails(r) ==
    /\ pc[r] \in {"named", "created", "written"}
    /\ pc' = [pc EXCEPT ![r] = "failed"]
    /\ UNCHANGED <<clock, tmp, new, content, by, name, fd>> /\ UNCHANGED daemon

Tick ==
    /\ clock < MaxStamp
    /\ clock' = clock + 1
    /\ UNCHANGED <<tmp, new, content, pc, by, name, fd>> /\ UNCHANGED daemon
-----------------------------------------------------------------------------
(* JobDirReader::read and Request_source_jobdir::get_requests *)

AnyOf(S) == S
FirstOf(S) == {n \in S : \A m \in S : n.stamp <= m.stamp}

\* directory_iterator(new_dir), in new_entries()
open_new ==
    /\ reader = "idle"
    /\ opened' = DOMAIN new
    /\ reader' = "scanning"
    /\ UNCHANGED <<new, old, listing, result, held, done, faults, crashes>> /\ UNCHANGED delivery

\* the rest of it: a file that is renamed into a directory being read may be
\* listed or not.  Sorted by name, that is by stamp; equal stamps in any order
new_entries ==
    /\ reader = "scanning"
    /\ \E late \in SUBSET (DOMAIN new \ opened) : listing' = opened \cup late
    /\ reader' = "reading"
    /\ UNCHANGED <<new, old, opened, result, held, done, faults, crashes>> /\ UNCHANGED delivery

set_old_unlinks ==
    /\ reader = "reading" /\ Cardinality(result) < MaxRead
    /\ \E n \in FirstOf(listing) :
         /\ n \in DOMAIN new
         /\ new' = Remove(new, n)
         /\ listing' = listing \ {n}
         /\ result' = result \cup {n}
    /\ UNCHANGED <<old, reader, opened, held, done, faults, crashes>> /\ UNCHANGED delivery
\* set_old(file): rename new -> old
set_old ==
    /\ reader = "reading" /\ Cardinality(result) < MaxRead
    /\ \E n \in FirstOf(listing) :
         /\ n \in DOMAIN new
         /\ new' = Remove(new, n)
         /\ old' = Put(old, n, new[n])
         /\ listing' = listing \ {n}
         /\ result' = result \cup {n}
    /\ UNCHANGED <<reader, opened, held, done, faults, crashes>> /\ UNCHANGED delivery

\* set_old fails.  ICE skips the file; elsewhere the exception leaves read()
\* and what was moved already is in old/ and in nobody's hands
set_old_fails ==
    /\ reader = "reading" /\ Cardinality(result) < MaxRead
    /\ listing # {} /\ faults < MaxFaults
    /\ faults' = faults + 1
    /\ IF SkipFailed
         THEN /\ \E n \in FirstOf(listing) : listing' = listing \ {n}
              /\ UNCHANGED <<reader, opened, result>>
         ELSE opened' = {} /\ listing' = {} /\ result' = {} /\ reader' = "idle"
    /\ UNCHANGED <<new, old, held, done, crashes>> /\ UNCHANGED delivery

ReadReturns ==
    /\ reader = "reading"
    /\ listing = {} \/ Cardinality(result) >= MaxRead
    /\ opened' = {} /\ listing' = {}
    /\ reader' = "dispatch"
    /\ UNCHANGED <<new, old, result, held, done, faults, crashes>> /\ UNCHANGED delivery
-----------------------------------------------------------------------------
(* Dispatch::operator() and the end of a request's life *)

\* the request is parsed and scheduled
DispatchValid(n) ==
    /\ reader = "dispatch" /\ n \in FirstOf(result) /\ n \in DOMAIN old
    /\ content[old[n]] # "none"
    /\ result' = result \ {n}
    /\ held' = held \cup {n}
    /\ UNCHANGED <<new, old, reader, opened, listing, done, faults, crashes>> /\ UNCHANGED delivery

\* an incomplete request cannot be parsed: the scope guard removes it
DispatchInvalid(n) ==
    /\ reader = "dispatch" /\ n \in FirstOf(result) /\ n \in DOMAIN old
    /\ content[old[n]] = "none"
    /\ result' = result \ {n}
    /\ old' = Remove(old, n)
    /\ UNCHANGED <<new, reader, opened, listing, held, done, faults, crashes>> /\ UNCHANGED delivery

DispatchNoContext_put_back(n) ==
    /\ reader = "dispatch" /\ n \in FirstOf(result) /\ n \in DOMAIN old
    /\ content[old[n]] # "none" /\ ~ SkipFailed /\ faults < MaxFaults
    /\ faults' = faults + 1
    /\ result' = result \ {n}
    /\ new' = Put(new, n, old[n]) /\ old' = Remove(old, n)
    /\ UNCHANGED <<reader, opened, listing, held, done, crashes>> /\ UNCHANGED delivery
\* CannotCreateLBContext after the guard was dismissed: the file stays in old/
DispatchNoContext(n) ==
    /\ reader = "dispatch" /\ n \in FirstOf(result) /\ n \in DOMAIN old
    /\ content[old[n]] # "none" /\ ~ SkipFailed /\ faults < MaxFaults
    /\ faults' = faults + 1
    /\ result' = result \ {n}
    /\ UNCHANGED <<new, old, reader, opened, listing, held, done, crashes>> /\ UNCHANGED delivery

\* file_size of a file that another request of its name has removed throws:
\* the Dispatcher stops the event queue and the daemon exits
DispatchMissing(n) ==
    /\ reader = "dispatch" /\ n \in FirstOf(result) /\ n \notin DOMAIN old
    /\ reader' = "down"
    /\ result' = {} /\ held' = {}
    /\ UNCHANGED <<new, old, opened, listing, done, faults, crashes>> /\ UNCHANGED delivery

DispatchEnds ==
    /\ reader = "dispatch" /\ result = {}
    /\ reader' = "idle"
    /\ UNCHANGED <<new, old, opened, listing, result, held, done, faults, crashes>> /\ UNCHANGED delivery

\* remove_from_input, when the last reference to the request goes
remove_from_input(n) ==
    /\ reader \in {"idle", "scanning", "reading", "dispatch"} /\ n \in held
    /\ done' = done \cup {content[old[m]] : m \in {n} \cap DOMAIN old}
    /\ old' = Remove(old, n)
    /\ held' = held \ {n}
    /\ UNCHANGED <<new, reader, opened, listing, result, faults, crashes>> /\ UNCHANGED delivery

Crash ==
    /\ reader \in {"idle", "scanning", "reading", "dispatch"} /\ crashes < MaxCrashes
    /\ crashes' = crashes + 1
    /\ reader' = "down"
    /\ opened' = {} /\ listing' = {} /\ result' = {} /\ held' = {}
    /\ UNCHANGED <<new, old, done, faults>> /\ UNCHANGED delivery
-----------------------------------------------------------------------------
(* The start script of the daemon: check_input() and start() *)

StartScript_as_ICE ==
    /\ reader = "down"
    /\ reader' = "script"
    /\ listing' = {}
    /\ UNCHANGED <<new, old, opened, result, held, done, faults, crashes>> /\ UNCHANGED delivery
StartScript ==
    /\ reader = "down"
    /\ reader' = "script"
    /\ listing' = IF Requeue THEN DOMAIN old ELSE {}
    /\ UNCHANGED <<new, old, opened, result, held, done, faults, crashes>> /\ UNCHANGED delivery

\* mv old/file new/
RequeueOne(n) ==
    /\ reader = "script" /\ n \in listing
    /\ new' = Put(new, n, old[n])
    /\ old' = Remove(old, n)
    /\ listing' = listing \ {n}
    /\ UNCHANGED <<reader, opened, result, held, done, faults, crashes>> /\ UNCHANGED delivery

\* "error moving files from old to new dir, continuing"
RequeueFails(n) ==
    /\ reader = "script" /\ n \in listing /\ faults < MaxFaults
    /\ faults' = faults + 1
    /\ listing' = listing \ {n}
    /\ UNCHANGED <<new, old, reader, opened, result, held, done, crashes>> /\ UNCHANGED delivery

StartDaemon ==
    /\ reader = "script" /\ listing = {}
    /\ reader' = "idle"
    /\ UNCHANGED <<new, old, opened, listing, result, held, done, faults, crashes>> /\ UNCHANGED delivery

Next ==
    \/ \E r \in Requests : \/ \E p \in Producers : MakeName(p, r)
                           \/ CreateTmp(r)
                           \/ WriteTmp(r)
                           \/ RenameToNew(r)
                           \/ DeliverFails(r)
    \/ Tick
    \/ open_new
    \/ new_entries
    \/ set_old
    \/ set_old_fails
    \/ ReadReturns
    \/ DispatchEnds
    \/ \E n \in Names : \/ DispatchValid(n)
                        \/ DispatchInvalid(n)
                        \/ DispatchNoContext(n)
                        \/ DispatchMissing(n)
                        \/ remove_from_input(n)
                        \/ RequeueOne(n)
                        \/ RequeueFails(n)
    \/ Crash
    \/ StartScript
    \/ StartDaemon

Spec == Init /\ [][Next]_vars

(* The daemon keeps reading, dispatching and finishing its requests, and is  *)
(* started again after a crash.  Deliveries, faults and crashes are never    *)
(* promised.                                                                 *)
Fairness ==
    /\ WF_vars(open_new) /\ WF_vars(new_entries) /\ WF_vars(set_old) /\ WF_vars(ReadReturns)
    /\ WF_vars(DispatchEnds)
    /\ WF_vars(StartScript) /\ WF_vars(StartDaemon)
    /\ \A n \in Names : /\ WF_vars(DispatchValid(n)) /\ WF_vars(DispatchInvalid(n))
                        /\ WF_vars(DispatchMissing(n))
                        /\ WF_vars(remove_from_input(n)) /\ WF_vars(RequeueOne(n))
FairSpec == Spec /\ Fairness
-----------------------------------------------------------------------------
(* Properties *)

MaybeRequest == Requests \cup {"none"}

\* Type invariant of the directories, the deliveries and the daemon.
TypeOK ==
    /\ clock \in 1 .. MaxStamp /\ faults \in Nat /\ crashes \in Nat
    /\ DOMAIN tmp \subseteq Names /\ \A n \in DOMAIN tmp : tmp[n] \in Requests
    /\ DOMAIN new \subseteq Names /\ \A n \in DOMAIN new : new[n] \in Requests
    /\ DOMAIN old \subseteq Names /\ \A n \in DOMAIN old : old[n] \in Requests
    /\ content \in [Requests -> MaybeRequest]
    /\ pc \in [Requests -> {"unsent", "named", "created", "written", "sent", "failed"}]
    /\ by \in [Requests -> Producers \cup {"none"}]
    /\ name \in [Requests -> Names \cup {NoName}]
    /\ fd \in [Requests -> MaybeRequest]
    /\ reader \in {"down", "script", "idle", "scanning", "reading", "dispatch"}
    /\ opened \subseteq Names /\ listing \subseteq Names /\ result \subseteq Names /\ held \subseteq Names
    /\ done \subseteq MaybeRequest

\* Two deliveries made the same file name.
Collides(r) == \E q \in Requests \ {r} : pc[q] # "unsent" /\ name[q] = name[r]

In(dir, r) == \E n \in DOMAIN dir : content[dir[n]] = r

(* A request whose deliver() succeeded is served or is still in new/ or old/,*)
(* whatever fails or crashes, when producers have distinct thread ids.       *)
NoneLost ==
    \A r \in Requests : pc[r] = "sent" => r \in done \/ In(new, r) \/ In(old, r)

(* When they share an id, as all the users of one JobDir object do, only a   *)
(* delivery that made the same file name can destroy an accepted request.    *)
LostOnlyByCollision ==
    \A r \in Requests : pc[r] = "sent" =>
        r \in done \/ In(new, r) \/ In(old, r) \/ Collides(r)

(* The daemon never finds half a request: tmp/ and the rename are there so   *)
(* that a file in new/ or old/ is complete.                                  *)
OnlyWholeRequests ==
    /\ \A n \in DOMAIN new : content[new[n]] = "none" => Collides(new[n])
    /\ \A n \in DOMAIN old : content[old[n]] = "none" => Collides(old[n])

(* What the daemon has in memory is in old/, so that a crash loses nothing,  *)
(* and not in new/, so that the next read does not take it a second time.    *)
HeldIsOld ==
    /\ held \cup result \subseteq DOMAIN old
    /\ (held \cup result) \cap DOMAIN new = {}

(* Requests of one thread are read in the order it delivered them, across    *)
(* crashes and restarts too, unless both arrived while new/ was being listed:*)
(* names sort by time and a read that cannot move a file stops there.        *)
ReadInOrder ==
    [][\A r, q \in Requests :
          /\ by[r] = by[q] /\ pc[r] = "sent" /\ name[r].stamp < name[q].stamp
          /\ name[q] \notin result /\ name[q] \in result'
          /\ name[r] \in opened \/ name[q] \in opened
          /\ ~ Collides(r) /\ ~ Collides(q)
          => ~ In(new, r)]_vars

(* With a start script that puts old/ back, every accepted request is served *)
(* although the daemon crashes while it holds it.                            *)
ServedDespiteCrashes ==
    \A r \in Requests :
        pc[r] = "sent" ~> r \in done \/ faults > 0 \/ Collides(r)

\* Where request r is, for its sender: the refinement mapping to RequestQueue.
Place(r) ==
    IF pc[r] # "sent" THEN "unsent"
    ELSE IF r \in done THEN "done"
    ELSE IF In(new, r) THEN "pending"
    ELSE IF name[r] \in held \cup result THEN "taken"
    ELSE IF In(old, r) THEN "parked"
    ELSE "lost"

Queue == INSTANCE RequestQueue WITH state <- [r \in Requests |-> Place(r)]

(* A directory queue whose producers never make the same name is a           *)
(* RequestQueue: every step of a delivery, a read, a crash or a restart is a *)
(* step of that queue or changes nothing its users see.                      *)
ImplementsRequestQueue == Queue!Spec
=============================================================================
