---------------------------- MODULE JobDirProofs ----------------------------
(* Proofs about JobDir, for any number of producers, requests, faults and    *)
(* crashes: what is lost and when, that JobDir implements RequestQueue, and  *)
(* the order in which a daemon reads the requests of one thread.             *)
EXTENDS JobDir, TLAPS

(* A delivery that has begun has a name, and the start script moves only     *)
(* files that are in old/.                                                   *)
Shape ==
    /\ \A r \in Requests : IF pc[r] = "unsent" THEN name[r] = NoName ELSE name[r] \in Names
    /\ reader = "script" => listing \subseteq DOMAIN old

(* The directories, the deliveries and the daemon keep their types.          *)
THEOREM Typing == Spec => [](TypeOK /\ Shape)
<1> USE JobDirAssumption
<1>1. Init => TypeOK /\ Shape
  BY SMTT(30) DEF Init, TypeOK, Shape, EmptyDir, MaybeRequest
<1>2. TypeOK /\ Shape /\ [Next]_vars => TypeOK' /\ Shape'
  <2> SUFFICES ASSUME TypeOK, Shape, [Next]_vars PROVE TypeOK' /\ Shape'
    OBVIOUS
  <2> USE DEF TypeOK, Shape, MaybeRequest, daemon, delivery
  <2>1. ASSUME NEW p \in Producers, NEW r \in Requests, MakeName(p, r) PROVE TypeOK' /\ Shape'
    <3>1. file_name(p) \in Names
      BY DEF file_name, Names
    <3>. QED
      BY <2>1, <3>1 DEF MakeName
  <2>2. ASSUME NEW r \in Requests, CreateTmp(r) PROVE TypeOK' /\ Shape'
    <3> DEFINE f == IF name[r] \in DOMAIN tmp THEN tmp[name[r]] ELSE r
    <3>1. f \in Requests /\ name[r] \in Names
      BY <2>2 DEF CreateTmp
    <3>2. /\ tmp' = Put(tmp, name[r], f)
          /\ content' = [content EXCEPT ![f] = "none"]
          /\ fd' = [fd EXCEPT ![r] = f]
      BY <2>2 DEF CreateTmp
    <3> HIDE DEF f
    <3>3. DOMAIN tmp' \subseteq Names /\ \A n \in DOMAIN tmp' : tmp'[n] \in Requests
      BY <3>1, <3>2 DEF Put
    <3>. QED
      BY <2>2, <3>1, <3>2, <3>3 DEF CreateTmp
  <2>3. ASSUME NEW r \in Requests, WriteTmp(r) PROVE TypeOK' /\ Shape'
    BY <2>3, Zenon DEF WriteTmp
  <2>4. ASSUME NEW r \in Requests, RenameToNew(r) PROVE TypeOK' /\ Shape'
    BY <2>4 DEF RenameToNew, Put, Remove
  <2>5. ASSUME NEW r \in Requests, DeliverFails(r) PROVE TypeOK' /\ Shape'
    BY <2>5 DEF DeliverFails
  <2>6. CASE Tick
    BY <2>6 DEF Tick
  <2>7. CASE open_new \/ new_entries \/ ReadReturns \/ DispatchEnds \/ StartScript \/ StartDaemon
    BY <2>7 DEF open_new, new_entries, ReadReturns, DispatchEnds, StartScript, StartDaemon
  <2>8. CASE set_old
    BY <2>8 DEF set_old, FirstOf, Put, Remove
  <2>9. CASE set_old_fails
    BY <2>9 DEF set_old_fails
  <2>10. ASSUME NEW n \in Names,
                DispatchValid(n) \/ DispatchNoContext(n) \/ DispatchMissing(n) \/ RequeueFails(n)
         PROVE  TypeOK' /\ Shape'
    BY <2>10 DEF DispatchValid, DispatchNoContext, DispatchMissing, RequeueFails
  <2>11. ASSUME NEW n \in Names, DispatchInvalid(n) PROVE TypeOK' /\ Shape'
    BY <2>11 DEF DispatchInvalid, Remove
  <2>12. ASSUME NEW n \in Names, remove_from_input(n) PROVE TypeOK' /\ Shape'
    BY <2>12 DEF remove_from_input, Remove
  <2>15. ASSUME NEW n \in Names, RequeueOne(n) PROVE TypeOK' /\ Shape'
    BY <2>15 DEF RequeueOne, Put, Remove
  <2>13. CASE Crash
    BY <2>13 DEF Crash
  <2>14. CASE UNCHANGED vars
    BY <2>14 DEF vars
  <2>. QED
    BY <2>1, <2>2, <2>3, <2>4, <2>5, <2>6, <2>7, <2>8, <2>9, <2>10, <2>11, <2>12, <2>13, <2>14, <2>15
    DEF Next
<1>3. QED
  BY <1>1, <1>2, PTL DEF Spec

(* Producers use JobDir objects made by different threads.                   *)
DistinctIds == \A p, q \in Producers : Id[p] = Id[q] => p = q

(* No two deliveries make the same file name.                                *)
UniqueNames ==
    /\ \A r \in Requests : pc[r] # "unsent" =>
         /\ by[r] \in Producers /\ name[r].id = Id[by[r]] /\ name[r].stamp \in 1 .. clock
    /\ \A r, q \in Requests :
         pc[r] # "unsent" /\ pc[q] # "unsent" /\ name[r] = name[q] => r = q

(* A file is where its delivery has got to, under the name it made.          *)
Filed ==
    /\ \A n \in DOMAIN tmp : name[tmp[n]] = n /\ pc[tmp[n]] \in {"created", "written", "failed"}
    /\ \A n \in DOMAIN new : name[new[n]] = n /\ pc[new[n]] = "sent"
    /\ \A n \in DOMAIN old : name[old[n]] = n /\ pc[old[n]] = "sent"

(* What a delivery has done so far, and where an accepted request is.        *)
Progress ==
    \A r \in Requests :
        /\ pc[r] = "created" => fd[r] = r /\ name[r] \in DOMAIN tmp
        /\ pc[r] = "written" => content[r] = r /\ name[r] \in DOMAIN tmp
        /\ pc[r] = "sent" =>
             content[r] = r /\ (r \in done \/ name[r] \in DOMAIN new \cup DOMAIN old)

(* Deliveries with distinct ids, or at distinct times, make distinct names.  *)
LEMMA NamesStayUnique ==
    ASSUME DistinctIds PROVE Spec => []UniqueNames
<1> USE JobDirAssumption
<1>1. Init => UniqueNames
  BY DEF Init, UniqueNames
<1>2. TypeOK /\ UniqueNames /\ [Next]_vars => UniqueNames'
  <2> SUFFICES ASSUME TypeOK, UniqueNames, [Next]_vars PROVE UniqueNames'
    OBVIOUS
  <2>1. ASSUME NEW p \in Producers, NEW r \in Requests, MakeName(p, r) PROVE UniqueNames'
    <3>1. /\ name' = [name EXCEPT ![r] = file_name(p)] /\ by' = [by EXCEPT ![r] = p]
          /\ pc' = [pc EXCEPT ![r] = "named"] /\ clock' = clock /\ pc[r] = "unsent"
          /\ Ticked(p)
      BY <2>1 DEF MakeName
    <3>2. file_name(p).id = Id[p] /\ file_name(p).stamp = clock
      BY DEF file_name
    <3>3. /\ name'[r] = file_name(p) /\ by'[r] = p
          /\ \A q \in Requests \ {r} : name'[q] = name[q] /\ by'[q] = by[q] /\ pc'[q] = pc[q]
      BY <3>1 DEF TypeOK
    <3>4. ASSUME NEW q \in Requests \ {r}, pc[q] # "unsent" PROVE name[q] # file_name(p)
      <4>1. CASE by[q] = p
        BY <3>1, <3>2, <3>4, <4>1 DEF Ticked, UniqueNames, TypeOK
      <4>2. CASE by[q] # p
        BY <3>2, <3>4, <4>2 DEF DistinctIds, UniqueNames
      <4>. QED
        BY <4>1, <4>2
    <3>5. \A q \in Requests : pc'[q] # "unsent" =>
            by'[q] \in Producers /\ name'[q].id = Id[by'[q]] /\ name'[q].stamp \in 1 .. clock'
      BY <3>1, <3>2, <3>3 DEF UniqueNames, TypeOK
    <3>. QED
      BY <3>3, <3>4, <3>5 DEF UniqueNames
  <2>2. ASSUME UNCHANGED <<name, by>>, clock' = clock \/ clock' = clock + 1,
               \A r \in Requests : pc[r] = "unsent" => pc'[r] = "unsent"
        PROVE  UniqueNames'
    BY <2>2 DEF UniqueNames, TypeOK
  <2> USE DEF TypeOK, daemon, delivery
  <2>3. ASSUME NEW r \in Requests, CreateTmp(r) PROVE UniqueNames'
    <3>1. pc[r] = "named" /\ pc' = [pc EXCEPT ![r] = "created"] /\ UNCHANGED <<clock, by, name>>
      BY <2>3 DEF CreateTmp
    <3>. QED
      BY <2>2, <3>1
  <2>4. ASSUME NEW r \in Requests, WriteTmp(r) \/ RenameToNew(r) \/ DeliverFails(r)
        PROVE  UniqueNames'
    BY <2>2, <2>4 DEF WriteTmp, RenameToNew, DeliverFails
  <2>5. CASE Tick
    BY <2>2, <2>5 DEF Tick
  <2>6. CASE UNCHANGED delivery
    BY <2>2, <2>6
  <2>7. CASE \/ open_new \/ new_entries \/ set_old \/ set_old_fails \/ ReadReturns \/ DispatchEnds
             \/ Crash \/ StartScript \/ StartDaemon \/ UNCHANGED vars
    BY <2>6, <2>7
    DEF open_new, new_entries, set_old, set_old_fails, ReadReturns, DispatchEnds, Crash, StartScript,
        StartDaemon, vars
  <2>8. ASSUME NEW n \in Names,
               DispatchValid(n) \/ DispatchInvalid(n) \/ DispatchNoContext(n) \/ DispatchMissing(n)
               \/ remove_from_input(n) \/ RequeueOne(n) \/ RequeueFails(n)
        PROVE  UniqueNames'
    BY <2>6, <2>8
    DEF DispatchValid, DispatchInvalid, DispatchNoContext, DispatchMissing, remove_from_input,
        RequeueOne, RequeueFails
  <2>. QED
    BY <2>1, <2>3, <2>4, <2>5, <2>7, <2>8 DEF Next
<1>3. QED
  BY <1>1, <1>2, Typing, PTL DEF Spec

(* Whether or not producers share an id: a file is where a delivery of its    *)
(* name has got to, its own unless the name is made twice.                    *)
Begun == {"created", "written", "sent", "failed"}
Owned ==
    /\ \A n \in DOMAIN tmp : /\ name[tmp[n]] = n /\ pc[tmp[n]] \in Begun
                             /\ pc[tmp[n]] = "sent" => Collides(tmp[n])
    /\ \A n \in DOMAIN new : /\ name[new[n]] = n /\ pc[new[n]] \in Begun
                             /\ pc[new[n]] # "sent" => Collides(new[n])
    /\ \A n \in DOMAIN old : /\ name[old[n]] = n /\ pc[old[n]] \in Begun
                             /\ pc[old[n]] # "sent" => Collides(old[n])
    /\ \A r \in Requests : pc[r] = "created" =>
         fd[r] \in Requests /\ name[fd[r]] = name[r] /\ pc[fd[r]] \in Begun
Kept ==
    \A r \in Requests : ~ Collides(r) =>
        /\ pc[r] = "created" => fd[r] = r /\ name[r] \in DOMAIN tmp
        /\ pc[r] = "written" => content[r] = r /\ name[r] \in DOMAIN tmp
        /\ pc[r] = "sent" =>
             content[r] = r /\ (r \in done \/ name[r] \in DOMAIN new \cup DOMAIN old)

(* Only a delivery that collides shares its name with another that has begun. *)
LEMMA NameIsOwn ==
    \A r, q \in Requests :
        pc[q] # "unsent" /\ name[q] = name[r] /\ ~ Collides(r) => q = r
BY Zenon DEF Collides

(* Two deliveries that have made the same name keep it.                       *)
LEMMA CollisionsStay ==
    ASSUME TypeOK,
           \A r \in Requests : pc[r] # "unsent" => name'[r] = name[r] /\ pc'[r] # "unsent"
    PROVE  \A r \in Requests : pc[r] # "unsent" /\ Collides(r) => Collides(r)'
<1> SUFFICES ASSUME NEW r \in Requests, pc[r] # "unsent", Collides(r) PROVE Collides(r)'
  OBVIOUS
<1>1. PICK q \in Requests \ {r} : pc[q] # "unsent" /\ name[q] = name[r]
  BY DEF Collides
<1>2. pc'[q] # "unsent" /\ name'[q] = name'[r]
  BY <1>1
<1> QED
  BY <1>2 DEF Collides

(* The inductive invariant of the directory: a delivery disturbs only the     *)
(* files of its own name.                                                     *)
LEMMA FilesOfDeliveries == Spec => [](Owned /\ Kept)
<1> USE JobDirAssumption
<1> DEFINE Inv == Owned /\ Kept
<1>1. Init => Inv
  BY DEF Init, Owned, Kept, EmptyDir
<1>2. TypeOK /\ Shape /\ Inv /\ [Next]_vars => Inv'
  <2> SUFFICES ASSUME TypeOK, Shape, Owned, Kept, [Next]_vars PROVE Owned' /\ Kept'
    OBVIOUS
  <2> USE DEF TypeOK, MaybeRequest, Begun
  <2>0. \A r, q \in Requests :
          pc[q] # "unsent" /\ name[q] = name[r] /\ ~ Collides(r) => q = r
    BY NameIsOwn
  <2>1. ASSUME NEW p \in Producers, NEW r \in Requests, MakeName(p, r) PROVE Owned' /\ Kept'
    <3>1. /\ pc[r] = "unsent" /\ pc'[r] = "named"
          /\ \A q \in Requests \ {r} : name'[q] = name[q] /\ pc'[q] = pc[q]
          /\ UNCHANGED <<tmp, new, old, content, fd, done>>
      BY <2>1 DEF MakeName, daemon
    <3>2. \A q \in Requests : pc[q] # "unsent" /\ Collides(q) => Collides(q)'
      BY <3>1, CollisionsStay
    <3>3. Owned'
      BY <3>1, <3>2 DEF Owned
    <3>4. Kept'
      BY <3>1, <3>2 DEF Kept
    <3>. QED
      BY <3>3, <3>4
  <2>2. ASSUME NEW r \in Requests, CreateTmp(r) PROVE Owned' /\ Kept'
    <3>1. PICK f \in Requests : f = IF name[r] \in DOMAIN tmp THEN tmp[name[r]] ELSE r
      OBVIOUS
    <3>2. /\ tmp' = Put(tmp, name[r], f) /\ content' = [content EXCEPT ![f] = "none"]
          /\ fd' = [fd EXCEPT ![r] = f] /\ pc' = [pc EXCEPT ![r] = "created"] /\ pc[r] = "named"
          /\ UNCHANGED <<new, old, name, done>>
      BY <2>2, <3>1 DEF CreateTmp, daemon
    <3>3. DOMAIN tmp' = DOMAIN tmp \cup {name[r]} /\ tmp'[name[r]] = f
          /\ \A n \in DOMAIN tmp \ {name[r]} : tmp'[n] = tmp[n]
      BY <3>2 DEF Put
    <3>4. name[f] = name[r] /\ pc[f] # "unsent" /\ pc'[f] \in Begun
      BY <3>1, <3>2 DEF Owned
    <3>5. \A q \in Requests : pc[q] # "unsent" /\ Collides(q) => Collides(q)'
      BY <3>2, CollisionsStay
    <3>6. f # r => Collides(f)' /\ Collides(r)'
      BY <3>2, <3>4, Zenon DEF Collides
    <3>7. Owned'
      BY <3>2, <3>3, <3>4, <3>5, <3>6 DEF Owned
    <3>8. Kept'
      BY <3>2, <3>3, <3>5, <3>6 DEF Kept
    <3>. QED
      BY <3>7, <3>8
  <2>3. ASSUME NEW r \in Requests, WriteTmp(r) PROVE Owned' /\ Kept'
    <3>1. /\ pc[r] = "created" /\ pc' = [pc EXCEPT ![r] = "written"]
          /\ content' = [content EXCEPT ![fd[r]] = r] /\ UNCHANGED <<tmp, new, old, name, fd, done>>
      BY <2>3 DEF WriteTmp, daemon
    <3>2. fd[r] \in Requests /\ name[fd[r]] = name[r] /\ pc[fd[r]] \in Begun
      BY <3>1 DEF Owned
    <3>3. \A q \in Requests : pc[q] # "unsent" /\ Collides(q) => Collides(q)'
      BY <3>1, CollisionsStay
    <3>4. Owned'
      BY <3>1, <3>3 DEF Owned
    <3>5. ASSUME NEW q \in Requests, ~ Collides(q)', pc'[q] # "unsent"
          PROVE  fd[r] = q => q = r
      BY <2>0, <3>1, <3>2, <3>3, <3>5
    <3>6. Kept'
      BY <3>1, <3>3, <3>5 DEF Kept
    <3>. QED
      BY <3>4, <3>6
  <2>4. ASSUME NEW r \in Requests, RenameToNew(r) PROVE Owned' /\ Kept'
    <3>1. PICK f \in Requests : f = tmp[name[r]]
      BY <2>4 DEF RenameToNew
    <3>2. /\ new' = Put(new, name[r], f) /\ tmp' = Remove(tmp, name[r])
          /\ pc' = [pc EXCEPT ![r] = "sent"] /\ UNCHANGED <<old, name, content, fd, done>>
          /\ pc[r] = "written" /\ name[r] \in DOMAIN tmp
      BY <2>4, <3>1 DEF RenameToNew, daemon
    <3>3. /\ DOMAIN new' = DOMAIN new \cup {name[r]} /\ new'[name[r]] = f
          /\ \A n \in DOMAIN new \ {name[r]} : new'[n] = new[n]
          /\ DOMAIN tmp' = DOMAIN tmp \ {name[r]}
          /\ \A n \in DOMAIN tmp' : tmp'[n] = tmp[n]
      BY <3>2 DEF Put, Remove
    <3>4. name[f] = name[r] /\ pc[f] \in Begun
      BY <3>1, <3>2 DEF Owned
    <3>5. \A q \in Requests : pc[q] # "unsent" /\ Collides(q) => Collides(q)'
      BY <3>2, CollisionsStay
    <3>6. f # r => Collides(f)' /\ Collides(r)'
      BY <3>2, <3>4 DEF Collides
    <3>7. ASSUME NEW n \in DOMAIN tmp' PROVE tmp[n] # r
      BY <3>3, <3>7, SMTT(30) DEF Owned
    <3>8. Owned'
      BY <3>2, <3>3, <3>4, <3>5, <3>6, <3>7 DEF Owned
    <3>9. ASSUME NEW q \in Requests \ {r}, ~ Collides(q)', pc[q] # "unsent" PROVE name[q] # name[r]
      BY <3>2, <3>9, Zenon DEF Collides
    <3>10. Kept'
      BY <3>2, <3>3, <3>5, <3>6, <3>9 DEF Kept
    <3>. QED
      BY <3>8, <3>10
  <2>5. ASSUME NEW r \in Requests, DeliverFails(r) PROVE Owned' /\ Kept'
    <3>1. /\ pc[r] \in {"named", "created", "written"} /\ pc' = [pc EXCEPT ![r] = "failed"]
          /\ UNCHANGED <<tmp, new, old, content, name, fd, done>>
      BY <2>5 DEF DeliverFails, daemon
    <3>2. \A q \in Requests : pc[q] # "unsent" /\ Collides(q) => Collides(q)'
      BY <3>1, CollisionsStay, Zenon
    <3>. QED
      BY <3>1, <3>2 DEF Owned, Kept
  <2>6. CASE UNCHANGED <<tmp, new, old, content, pc, name, fd, done>>
    BY <2>6 DEF Owned, Kept, Collides
  <2>7. CASE Tick
    BY <2>6, <2>7, Zenon DEF Tick, daemon
  <2>8. CASE set_old
    <3>1. PICK n \in DOMAIN new : new' = Remove(new, n) /\ old' = Put(old, n, new[n])
      BY <2>8 DEF set_old
    <3>2. UNCHANGED <<tmp, content, pc, name, fd, done>>
      BY <2>8 DEF set_old, delivery
    <3>3. /\ DOMAIN new' = DOMAIN new \ {n} /\ \A m \in DOMAIN new' : new'[m] = new[m]
          /\ DOMAIN old' = DOMAIN old \cup {n} /\ old'[n] = new[n]
          /\ \A m \in DOMAIN old \ {n} : old'[m] = old[m]
      BY <3>1, SMTT(30) DEF Put, Remove
    <3>. QED
      BY <3>2, <3>3 DEF Owned, Kept, Collides
  <2>9. ASSUME NEW n \in Names, RequeueOne(n) PROVE Owned' /\ Kept'
    <3>1. n \in DOMAIN old
      BY <2>9 DEF RequeueOne, Shape
    <3>2. UNCHANGED <<tmp, content, pc, name, fd, done>>
      BY <2>9 DEF RequeueOne, delivery
    <3>3. /\ DOMAIN old' = DOMAIN old \ {n} /\ \A m \in DOMAIN old' : old'[m] = old[m]
          /\ DOMAIN new' = DOMAIN new \cup {n} /\ new'[n] = old[n]
          /\ \A m \in DOMAIN new \ {n} : new'[m] = new[m]
      BY <2>9 DEF RequeueOne, Put, Remove
    <3>. QED
      BY <3>1, <3>2, <3>3 DEF Owned, Kept, Collides
  <2>10. ASSUME NEW n \in Names, DispatchInvalid(n) \/ remove_from_input(n) PROVE Owned' /\ Kept'
    <3>1. /\ UNCHANGED <<tmp, new, content, pc, name, fd>> /\ done \subseteq done'
          /\ old' = Remove(old, n)
          /\ n \in DOMAIN old => content[old[n]] = "none" \/ content[old[n]] \in done'
      BY <2>10 DEF DispatchInvalid, remove_from_input, delivery
    <3>2. DOMAIN old' = DOMAIN old \ {n} /\ \A m \in DOMAIN old' : old'[m] = old[m]
      BY <3>1 DEF Remove
    <3>3. \A r \in Requests : Collides(r)' <=> Collides(r)
      BY <3>1, SMTT(30) DEF Collides
    <3>4. Owned'
      BY <3>1, <3>2, <3>3 DEF Owned
    <3>5. ASSUME NEW r \in Requests, pc[r] = "sent", ~ Collides(r), n \in DOMAIN old, name[r] = n
          PROVE  r \in done'
      <4>1. old[n] = r
        BY <2>0, <3>5 DEF Owned
      <4>2. content[r] = r
        BY <3>5, Zenon DEF Kept
      <4>. QED
        BY <3>1, <3>5, <4>1, <4>2
    <3>6. Kept'
      BY <3>1, <3>2, <3>3, <3>5, SMTT(30) DEF Kept
    <3>. QED
      BY <3>4, <3>6
  <2>11. CASE \/ open_new \/ new_entries \/ set_old_fails \/ ReadReturns \/ DispatchEnds
              \/ Crash \/ StartScript \/ StartDaemon \/ UNCHANGED vars
    BY <2>6, <2>11, Zenon
    DEF open_new, new_entries, set_old_fails, ReadReturns, DispatchEnds, Crash, StartScript,
        StartDaemon, vars, delivery
  <2>12. ASSUME NEW n \in Names,
                DispatchValid(n) \/ DispatchNoContext(n) \/ DispatchMissing(n) \/ RequeueFails(n)
         PROVE  Owned' /\ Kept'
    BY <2>6, <2>12 DEF DispatchValid, DispatchNoContext, DispatchMissing, RequeueFails, delivery
  <2>. QED
    BY <2>1, <2>2, <2>3, <2>4, <2>5, <2>7, <2>8, <2>9, <2>10, <2>11, <2>12 DEF Next
<1>3. QED
  BY <1>1, <1>2, Typing, PTL DEF Spec

(* A request whose deliver() succeeded is served, or is in new/ or old/,     *)
(* whatever fails and whenever the daemon crashes, unless another delivery   *)
(* made the same file name: with any thread ids, shared or not.              *)
THEOREM LossNeedsACollision == Spec => []LostOnlyByCollision
<1>1. TypeOK /\ Owned /\ Kept => LostOnlyByCollision
  <2> SUFFICES ASSUME TypeOK, Owned, Kept,
                      NEW r \in Requests, pc[r] = "sent", r \notin done, ~ Collides(r)
               PROVE  In(new, r) \/ In(old, r)
    BY SMTT(30) DEF LostOnlyByCollision
  <2>1. content[r] = r /\ name[r] \in DOMAIN new \cup DOMAIN old
    BY DEF Kept
  <2>2. CASE name[r] \in DOMAIN new
    <3>1. new[name[r]] = r
      BY <2>2, NameIsOwn, SMTT(30) DEF Owned, TypeOK, Begun
    <3>. QED
      BY <2>1, <2>2, <3>1 DEF In
  <2>3. CASE name[r] \in DOMAIN old
    <3>1. old[name[r]] = r
      BY <2>3, NameIsOwn DEF Owned, TypeOK, Begun
    <3>. QED
      BY <2>1, <2>3, <3>1 DEF In
  <2>. QED
    BY <2>1, <2>2, <2>3
<1>2. QED
  BY <1>1, Typing, FilesOfDeliveries, PTL

(* The daemon never finds half a request, except under a name made twice.    *)
THEOREM RequestsAreWhole == Spec => []OnlyWholeRequests
<1>1. TypeOK /\ Owned /\ Kept => OnlyWholeRequests
  BY JobDirAssumption DEF TypeOK, Owned, Kept, OnlyWholeRequests
<1>2. QED
  BY <1>1, Typing, FilesOfDeliveries, PTL

(* With distinct ids no name is made twice, so every file is its delivery's. *)
LEMMA FilesFollowDeliveries ==
    ASSUME DistinctIds PROVE Spec => [](Filed /\ Progress)
<1>1. TypeOK /\ Shape /\ UniqueNames /\ Owned /\ Kept => Filed /\ Progress
  <2> SUFFICES ASSUME TypeOK, Shape, UniqueNames, Owned, Kept PROVE Filed /\ Progress
    OBVIOUS
  <2>1. \A r \in Requests : pc[r] # "unsent" => ~ Collides(r)
    BY Zenon DEF UniqueNames, Collides
  <2>2. Filed
    BY <2>1 DEF Owned, Filed, TypeOK, Begun
  <2>3. Progress
    BY <2>1 DEF Kept, Progress
  <2>. QED
    BY <2>2, <2>3
<1>2. QED
  BY <1>1, Typing, NamesStayUnique, FilesOfDeliveries, PTL

(* A request whose deliver() succeeded is served, or is in new/ or old/,     *)
(* whatever fails and whenever the daemon crashes.                           *)
THEOREM AcceptedRequestsSurvive ==
    ASSUME DistinctIds PROVE Spec => []NoneLost
<1>1. UniqueNames /\ LostOnlyByCollision => NoneLost
  BY Zenon DEF UniqueNames, LostOnlyByCollision, Collides, NoneLost
<1>2. QED
  BY <1>1, NamesStayUnique, LossNeedsACollision, PTL

(* A file is in one of new/ and old/, a name is in one list of the daemon,   *)
(* and a daemon that is down holds nothing.                                  *)
Apart ==
    /\ DOMAIN new \cap DOMAIN old = {}
    /\ held \cap result = {}
    /\ reader \in {"down", "script"} => held = {} /\ result = {}

(* What the daemon holds and where the files are agree.                      *)
LEMMA HandsAndDirectories ==
    ASSUME DistinctIds PROVE Spec => [](HeldIsOld /\ Apart)
<1> DEFINE Inv == HeldIsOld /\ Apart
<1>1. Init => Inv
  BY SMTT(30) DEF Init, HeldIsOld, Apart, EmptyDir
<1>2. TypeOK /\ Shape /\ UniqueNames /\ Filed /\ Inv /\ [Next]_vars => Inv'
  <2> SUFFICES ASSUME TypeOK, Shape, UniqueNames, Filed, Inv, [Next]_vars PROVE Inv'
    OBVIOUS
  <2> USE DEF HeldIsOld, Apart
  <2>1. CASE UNCHANGED <<new, old, held, result, reader>>
    BY <2>1, SMTT(30)
  <2>2. ASSUME NEW p \in Producers, NEW r \in Requests, MakeName(p, r) PROVE Inv'
    BY <2>1, <2>2, Zenon DEF MakeName, daemon
  <2>3. ASSUME NEW r \in Requests, CreateTmp(r) \/ WriteTmp(r) \/ DeliverFails(r) PROVE Inv'
    BY <2>1, <2>3 DEF CreateTmp, WriteTmp, DeliverFails, daemon
  <2>4. ASSUME NEW r \in Requests, RenameToNew(r) PROVE Inv'
    <3>1. name[r] \notin DOMAIN old
      <4>1. pc[r] = "written"
        BY <2>4 DEF RenameToNew
      <4>2. ASSUME name[r] \in DOMAIN old PROVE FALSE
        <5>1. /\ old[name[r]] \in Requests /\ name[old[name[r]]] = name[r]
              /\ pc[old[name[r]]] = "sent"
          BY <4>2 DEF Filed, TypeOK
        <5>2. old[name[r]] = r
          BY <4>1, <5>1, SMTT(30) DEF UniqueNames
        <5>. QED
          BY <4>1, <5>1, <5>2
      <4>. QED
        BY <4>2, Zenon
    <3>2. DOMAIN new' = DOMAIN new \cup {name[r]} /\ UNCHANGED <<old, held, result, reader>>
      BY <2>4 DEF RenameToNew, Put, daemon
    <3>. QED
      BY <3>1, <3>2
  <2>5. CASE set_old
    <3>1. PICK n \in DOMAIN new : /\ new' = Remove(new, n) /\ old' = Put(old, n, new[n])
                                  /\ result' = result \cup {n}
      BY <2>5 DEF set_old
    <3>2. DOMAIN new' = DOMAIN new \ {n} /\ DOMAIN old' = DOMAIN old \cup {n}
      BY <3>1 DEF Put, Remove
    <3>3. UNCHANGED <<held, reader>> /\ reader = "reading"
      BY <2>5 DEF set_old
    <3>. QED
      BY <3>1, <3>2, <3>3
  <2>6. CASE set_old_fails
    BY <2>6 DEF set_old_fails
  <2>7. CASE Tick \/ open_new \/ new_entries \/ ReadReturns \/ DispatchEnds \/ StartScript \/ StartDaemon
    BY <2>7, Zenon DEF Tick, open_new, new_entries, ReadReturns, DispatchEnds, StartScript, StartDaemon, daemon
  <2>8. ASSUME NEW n \in Names, DispatchValid(n) \/ DispatchNoContext(n) \/ DispatchMissing(n)
        PROVE  Inv'
    BY <2>8 DEF DispatchValid, DispatchNoContext, DispatchMissing, FirstOf
  <2>9. ASSUME NEW n \in Names, DispatchInvalid(n) PROVE Inv'
    <3>1. n \in result /\ DOMAIN old' = DOMAIN old \ {n}
      BY <2>9 DEF DispatchInvalid, FirstOf, Remove
    <3>. QED
      BY <2>9, <3>1 DEF DispatchInvalid
  <2>10. ASSUME NEW n \in Names, remove_from_input(n) PROVE Inv'
    <3>1. n \in held /\ DOMAIN old' = DOMAIN old \ {n}
      BY <2>10 DEF remove_from_input, Remove
    <3>. QED
      BY <2>10, <3>1 DEF remove_from_input
  <2>11. ASSUME NEW n \in Names, RequeueOne(n) \/ RequeueFails(n) PROVE Inv'
    <3>1. CASE RequeueOne(n)
      <4>1. DOMAIN new' = DOMAIN new \cup {n} /\ DOMAIN old' = DOMAIN old \ {n}
        BY <3>1 DEF RequeueOne, Put, Remove
      <4>. QED
        BY <3>1, <4>1 DEF RequeueOne
    <3>2. CASE RequeueFails(n)
      BY <2>1, <3>2 DEF RequeueFails
    <3>. QED
      BY <2>11, <3>1, <3>2
  <2>12. CASE Crash \/ UNCHANGED vars
    BY <2>12 DEF Crash, vars
  <2>. QED
    BY <2>2, <2>3, <2>4, <2>5, <2>6, <2>7, <2>8, <2>9, <2>10, <2>11, <2>12, Zenon DEF Next
<1>3. QED
  BY <1>1, <1>2, Typing, NamesStayUnique, FilesFollowDeliveries, PTL DEF Spec

(* Every request in the daemon's hands is in old/ and not in new/: a crash   *)
(* loses nothing and a read takes nothing twice.                             *)
THEOREM HeldRequestsAreOld ==
    ASSUME DistinctIds PROVE Spec => []HeldIsOld
BY HandsAndDirectories, PTL

(* Only a delivered request is served.                                       *)
DoneWasSent == \A r \in Requests : r \in done => pc[r] = "sent"

(* A request is removed from the queue only after its delivery has ended:    *)
(* read takes files of new/, which hold requests already sent.               *)
LEMMA OnlySentIsDone ==
    ASSUME DistinctIds PROVE Spec => []DoneWasSent
<1>1. Init => DoneWasSent
  BY DEF Init, DoneWasSent
<1>2. TypeOK /\ Filed /\ Progress /\ DoneWasSent /\ [Next]_vars => DoneWasSent'
  <2> SUFFICES ASSUME TypeOK, Filed, Progress, DoneWasSent, [Next]_vars PROVE DoneWasSent'
    OBVIOUS
  <2>1. ASSUME done' = done, \A r \in Requests : pc[r] = "sent" => pc'[r] = "sent" PROVE DoneWasSent'
    BY <2>1 DEF DoneWasSent
  <2>2. ASSUME NEW p \in Producers, NEW r \in Requests, MakeName(p, r) PROVE DoneWasSent'
    BY <2>1, <2>2 DEF MakeName, daemon, TypeOK
  <2>3. ASSUME NEW r \in Requests, CreateTmp(r) PROVE DoneWasSent'
    <3>1. pc[r] = "named" /\ pc' = [pc EXCEPT ![r] = "created"] /\ done' = done
      BY <2>3, SMTT(30) DEF CreateTmp, daemon
    <3>. QED
      BY <2>1, <3>1 DEF TypeOK
  <2>4. ASSUME NEW r \in Requests, WriteTmp(r) \/ RenameToNew(r) \/ DeliverFails(r)
        PROVE  DoneWasSent'
    BY <2>1, <2>4 DEF WriteTmp, RenameToNew, DeliverFails, daemon, TypeOK
  <2>5. CASE Tick
    BY <2>1, <2>5 DEF Tick, daemon
  <2>6. ASSUME NEW n \in Names, remove_from_input(n) PROVE DoneWasSent'
    <3>1. /\ done' = done \cup {content[old[m]] : m \in {n} \cap DOMAIN old}
          /\ UNCHANGED pc
      BY <2>6, Zenon DEF remove_from_input, delivery
    <3>2. \A m \in DOMAIN old : content[old[m]] = old[m] /\ pc[old[m]] = "sent"
      BY Zenon DEF TypeOK, Filed, Progress
    <3>. QED
      BY <3>1, <3>2, SMTT(30) DEF DoneWasSent
  <2>7. CASE \/ open_new \/ new_entries \/ set_old \/ set_old_fails \/ ReadReturns \/ DispatchEnds
             \/ Crash \/ StartScript \/ StartDaemon \/ UNCHANGED vars
    BY <2>1, <2>7, Zenon
    DEF open_new, new_entries, set_old, set_old_fails, ReadReturns, DispatchEnds, Crash, StartScript,
        StartDaemon, delivery, vars
  <2>8. ASSUME NEW n \in Names,
               DispatchValid(n) \/ DispatchInvalid(n) \/ DispatchNoContext(n) \/ DispatchMissing(n)
               \/ RequeueOne(n) \/ RequeueFails(n)
        PROVE  DoneWasSent'
    BY <2>1, <2>8, Zenon
    DEF DispatchValid, DispatchInvalid, DispatchNoContext, DispatchMissing, RequeueOne,
        RequeueFails, delivery
  <2>. QED
    BY <2>2, <2>3, <2>4, <2>5, <2>6, <2>7, <2>8 DEF Next
<1>3. QED
  BY <1>1, <1>2, Typing, FilesFollowDeliveries, PTL DEF Spec

(* All that is known of a reachable state.                                   *)
Known ==
    /\ TypeOK /\ Shape /\ UniqueNames /\ Filed /\ Progress
    /\ HeldIsOld /\ Apart /\ DoneWasSent

(* With distinct ids every reachable state of the directory is known so far. *)
LEMMA Reachable == ASSUME DistinctIds PROVE Spec => []Known
BY Typing, NamesStayUnique, FilesFollowDeliveries, HandsAndDirectories, OnlySentIsDone, PTL
DEF Known

(* Two deliveries never have the same name, and names carry their time.      *)
LEMMA UniqueName ==
    ASSUME Known
    PROVE  \A r, q \in Requests : pc[r] # "unsent" /\ pc[q] # "unsent" /\ name[r] = name[q] => r = q
<1>1. UniqueNames
  BY Zenon DEF Known
<1>. QED
  BY <1>1, Zenon DEF UniqueNames

(* A delivery that has begun has a name with a stamp of its own; before, the *)
(* name is the one that no file has.                                         *)
LEMMA Stamps ==
    ASSUME Known, NEW r \in Requests
    PROVE  IF pc[r] = "unsent" THEN name[r].stamp = 0 ELSE name[r].stamp \in Nat \ {0}
<1>1. IF pc[r] = "unsent" THEN name[r] = NoName ELSE name[r] \in Names
  BY Zenon DEF Known, Shape
<1>. QED
  BY <1>1 DEF NoName, Names

(* A file in new/ or old/ holds the request whose name it has.               *)
LEMMA FileOfRequest ==
    ASSUME Known
    PROVE  /\ \A n \in DOMAIN new : new[n] \in Requests /\ content[new[n]] = new[n]
           /\ \A n \in DOMAIN old : old[n] \in Requests /\ content[old[n]] = old[n]
           /\ \A r \in Requests : pc[r] = "sent" /\ name[r] \in DOMAIN new => new[name[r]] = r
           /\ \A r \in Requests : pc[r] = "sent" /\ name[r] \in DOMAIN old => old[name[r]] = r
<1> USE DEF Known
<1>1. /\ \A n \in DOMAIN new : new[n] \in Requests /\ name[new[n]] = n /\ pc[new[n]] = "sent"
      /\ \A n \in DOMAIN old : old[n] \in Requests /\ name[old[n]] = n /\ pc[old[n]] = "sent"
  BY DEF TypeOK, Filed
<1>2. \A r, q \in Requests : pc[r] = "sent" /\ pc[q] = "sent" /\ name[r] = name[q] => r = q
  BY DEF UniqueNames
<1>3. \A r \in Requests : pc[r] = "sent" => content[r] = r
  BY DEF Progress
<1>4. /\ \A n \in DOMAIN new : new[n] \in Requests /\ content[new[n]] = new[n]
      /\ \A n \in DOMAIN old : old[n] \in Requests /\ content[old[n]] = old[n]
  BY <1>1, <1>3, Zenon
<1>5. ASSUME NEW r \in Requests, pc[r] = "sent", name[r] \in DOMAIN new PROVE new[name[r]] = r
  <2>1. new[name[r]] \in Requests /\ name[new[name[r]]] = name[r] /\ pc[new[name[r]]] = "sent"
    BY <1>1, <1>5, Zenon
  <2>. QED
    BY <1>2, <1>5, <2>1, Zenon
<1>6. ASSUME NEW r \in Requests, pc[r] = "sent", name[r] \in DOMAIN old PROVE old[name[r]] = r
  <2>1. old[name[r]] \in Requests /\ name[old[name[r]]] = name[r] /\ pc[old[name[r]]] = "sent"
    BY <1>1, <1>6, Zenon
  <2>. QED
    BY <1>2, <1>6, <2>1, Zenon
<1>. QED
  BY <1>4, <1>5, <1>6, Zenon
-----------------------------------------------------------------------------
(* Place(r) in a reachable state, by the name of r alone.                    *)
Spot(r) ==
    IF pc[r] # "sent" THEN "unsent"
    ELSE IF r \in done THEN "done"
    ELSE IF name[r] \in DOMAIN new THEN "pending"
    ELSE IF name[r] \in held \cup result THEN "taken"
    ELSE "parked"

(* Hence the place of a request is where its name is.                        *)
LEMMA PlaceIsSpot ==
    ASSUME Known, NEW r \in Requests
    PROVE  Place(r) = Spot(r)
<1>1. pc[r] = "sent" => (In(new, r) <=> name[r] \in DOMAIN new)
  <2>1. \A n \in DOMAIN new : name[new[n]] = n
    BY DEF Known, Filed
  <2>. QED
    BY <2>1, FileOfRequest DEF In
<1>2. pc[r] = "sent" => (In(old, r) <=> name[r] \in DOMAIN old)
  <2>1. \A n \in DOMAIN old : name[old[n]] = n
    BY DEF Known, Filed
  <2>. QED
    BY <2>1, FileOfRequest DEF In
<1>3. pc[r] = "sent" => r \in done \/ name[r] \in DOMAIN new \/ name[r] \in DOMAIN old
  BY DEF Known, Progress
<1>. QED
  BY <1>1, <1>2, <1>3, SMTT(30) DEF Place, Spot

(* Steps of the queue, in terms of the places before and after: a request    *)
(* moves on, or what was taken is parked.                                    *)
LEMMA OneMoves ==
    ASSUME NEW q \in Requests,
           \A r \in Requests \ {q} : Place(r)' = Place(r),
           \/ Place(q)' = Place(q)
           \/ Place(q) = "unsent" /\ Place(q)' = "pending"
           \/ Place(q) = "pending" /\ Place(q)' = "taken"
           \/ Place(q) = "taken" /\ Place(q)' = "done"
           \/ Place(q) = "parked" /\ Place(q)' = "pending"
    PROVE  [Queue!Next]_([r \in Requests |-> Place(r)])
<1> DEFINE s == [r \in Requests |-> Place(r)]
<1>1. CASE Place(q)' = Place(q)
  <2>1. s' = s
    BY <1>1
  <2>. QED
    BY <2>1
<1>2. CASE Place(q)' # Place(q)
  <2>1. s' = [s EXCEPT ![q] = Place(q)']
    BY Zenon
  <2>2. Queue!Send(q) \/ Queue!Take(q) \/ Queue!Finish(q) \/ Queue!Recover(q)
    BY <1>2, <2>1, Zenon DEF Queue!Send, Queue!Take, Queue!Finish, Queue!Recover, Queue!Move
  <2>. QED
    BY <2>2 DEF Queue!Next
<1>. QED
  BY <1>1, <1>2

(* When some of the daemon's requests are parked at once by a crash, and no  *)
(* other moves, the queue takes one step.                                    *)
LEMMA SomeParked ==
    ASSUME NEW S \in SUBSET Requests,
           \A r \in S : Place(r) = "taken" /\ Place(r)' = "parked",
           \A r \in Requests \ S : Place(r)' = Place(r)
    PROVE  [Queue!Next]_([r \in Requests |-> Place(r)])
<1> DEFINE s == [r \in Requests |-> Place(r)]
<1>1. CASE S = {}
  <2>1. s' = s
    BY <1>1
  <2>. QED
    BY <2>1
<1>2. CASE S # {}
  <2>1. s' = [r \in Requests |-> IF r \in S THEN "parked" ELSE s[r]]
    OBVIOUS
  <2>2. Queue!Park(S)
    BY <1>2, <2>1 DEF Queue!Park
  <2>. QED
    BY <2>2 DEF Queue!Next
<1>. QED
  BY <1>1, <1>2

(* A directory queue whose producers have distinct ids implements            *)
(* RequestQueue: every step of a delivery, a read, a crash or a restart is a *)
(* step of that queue or changes nothing its users see.                      *)
THEOREM DirectoryIsRequestQueue ==
    ASSUME DistinctIds PROVE Spec => ImplementsRequestQueue
<1> DEFINE s == [r \in Requests |-> Place(r)]
<1>1. Init => Queue!Init
  BY DEF Init, Place, Queue!Init
<1>2. Known => \A r \in Requests : Place(r) = Spot(r)
  BY PlaceIsSpot
<1>3. Known /\ Known' /\ [Next]_vars => [Queue!Next]_s
  <2> SUFFICES ASSUME Known, Known', [Next]_vars PROVE [Queue!Next]_s
    OBVIOUS
  <2>0. \A r \in Requests : Place(r) = Spot(r) /\ Place(r)' = Spot(r)'
    <3>1. (\A r \in Requests : Place(r) = Spot(r))'
      BY <1>2, PTL
    <3>. QED
      BY <1>2, <3>1
  <2> HIDE DEF s
  <2>1. ASSUME \A r \in Requests : Spot(r)' = Spot(r) PROVE [Queue!Next]_s
    <3>1. \A r \in Requests : Place(r)' = Place(r)
      BY <2>0, <2>1
    <3>. QED
      BY <3>1 DEF s
  <2>2. ASSUME NEW q \in Requests, \A r \in Requests \ {q} : Spot(r)' = Spot(r),
               \/ Spot(q)' = Spot(q)
               \/ Spot(q) = "unsent" /\ Spot(q)' = "pending"
               \/ Spot(q) = "pending" /\ Spot(q)' = "taken"
               \/ Spot(q) = "taken" /\ Spot(q)' = "done"
               \/ Spot(q) = "parked" /\ Spot(q)' = "pending"
        PROVE  [Queue!Next]_s
    BY <2>0, <2>2, OneMoves DEF s
  <2>3. ASSUME UNCHANGED <<new, done, pc, name>>, held' \cup result' \subseteq held \cup result
        PROVE  [Queue!Next]_s
    <3> DEFINE S == {r \in Requests : Spot(r) = "taken" /\ name[r] \notin held' \cup result'}
    <3>1. \A r \in S : Spot(r) = "taken" /\ Spot(r)' = "parked"
      BY <2>3 DEF Spot
    <3>2. \A r \in Requests \ S : Spot(r)' = Spot(r)
      BY <2>3 DEF Spot
    <3>3. /\ \A r \in S : Place(r) = "taken" /\ Place(r)' = "parked"
          /\ \A r \in Requests \ S : Place(r)' = Place(r)
      BY <2>0, <3>1, <3>2
    <3>. QED
      BY <3>3, SomeParked, Zenon DEF s
  <2>4. \A r, q \in Requests : pc[r] # "unsent" /\ pc[q] # "unsent" /\ name[r] = name[q] => r = q
    BY UniqueName, Zenon
  <2>5. ASSUME NEW r \in Requests, pc[r] # "sent", pc'[r] # "sent",
               \A q \in Requests \ {r} : pc'[q] = pc[q] /\ name'[q] = name[q],
               UNCHANGED <<new, done, held, result>>
        PROVE  [Queue!Next]_s
    BY <2>1, <2>5, Zenon DEF Spot
  <2>6. ASSUME NEW p \in Producers, NEW r \in Requests, MakeName(p, r) PROVE [Queue!Next]_s
    BY <2>5, <2>6, Zenon DEF MakeName, daemon, Known, TypeOK
  <2>7. ASSUME NEW r \in Requests, CreateTmp(r) PROVE [Queue!Next]_s
    <3>1. /\ pc[r] = "named" /\ pc' = [pc EXCEPT ![r] = "created"]
          /\ UNCHANGED <<name, new, done, held, result>>
      BY <2>7, SMTT(30) DEF CreateTmp, daemon
    <3>. QED
      BY <2>5, <3>1, Zenon DEF Known, TypeOK
  <2>8. ASSUME NEW r \in Requests, WriteTmp(r) \/ DeliverFails(r) PROVE [Queue!Next]_s
    BY <2>5, <2>8, Zenon DEF WriteTmp, DeliverFails, daemon, Known, TypeOK
  <2>9. ASSUME NEW r \in Requests, RenameToNew(r) PROVE [Queue!Next]_s
    <3>1. /\ pc[r] = "written" /\ pc' = [pc EXCEPT ![r] = "sent"]
          /\ DOMAIN new' = DOMAIN new \cup {name[r]}
          /\ UNCHANGED <<name, done, held, result>>
      BY <2>9, SMTT(30) DEF RenameToNew, Put, daemon
    <3>2. r \notin done
      BY <3>1, SMTT(30) DEF Known, DoneWasSent
    <3>3. Spot(r) = "unsent" /\ Spot(r)' = "pending"
      BY <3>1, <3>2, Zenon DEF Spot, Known, TypeOK
    <3>4. \A q \in Requests \ {r} : pc[q] = "sent" => name[q] # name[r]
      BY <2>4, <3>1, Zenon
    <3>5. \A q \in Requests \ {r} : Spot(q)' = Spot(q)
      BY <3>1, <3>4, Zenon DEF Spot, Known, TypeOK
    <3>. QED
      BY <2>2, <3>3, <3>5
  <2>10. CASE set_old
    <3>1. PICK n \in DOMAIN new : /\ new' = Remove(new, n)
                                  /\ result' = result \cup {n}
      BY <2>10, Zenon DEF set_old
    <3>2. DOMAIN new' = DOMAIN new \ {n} /\ UNCHANGED <<pc, name, done, held>>
      BY <2>10, <3>1, Zenon DEF set_old, delivery, Remove
    <3>3. PICK q \in Requests : name[q] = n /\ pc[q] = "sent"
      BY DEF Known, TypeOK, Filed
    <3>4. Spot(q)' = Spot(q) \/ (Spot(q) = "pending" /\ Spot(q)' = "taken")
      BY <3>1, <3>2, <3>3 DEF Spot
    <3>5. \A r \in Requests \ {q} : pc[r] = "sent" => name[r] # n
      BY <2>4, <3>3
    <3>6. \A r \in Requests \ {q} : Spot(r)' = Spot(r)
      BY <3>1, <3>2, <3>5 DEF Spot
    <3>. QED
      BY <2>2, <3>4, <3>6
  <2>11. ASSUME NEW n \in Names, RequeueOne(n) PROVE [Queue!Next]_s
    <3>1. /\ n \in DOMAIN old /\ held = {} /\ result = {}
      BY <2>11, Zenon DEF RequeueOne, Known, Shape, Apart
    <3>2. DOMAIN new' = DOMAIN new \cup {n} /\ UNCHANGED <<pc, name, done, held, result>>
      BY <2>11, Zenon DEF RequeueOne, delivery, Put
    <3>3. PICK q \in Requests : name[q] = n /\ pc[q] = "sent"
      BY <3>1 DEF Known, TypeOK, Filed
    <3>4. Spot(q)' = Spot(q) \/ (Spot(q) = "parked" /\ Spot(q)' = "pending")
      BY <3>1, <3>2, <3>3 DEF Spot
    <3>5. \A r \in Requests \ {q} : pc[r] = "sent" => name[r] # n
      BY <2>4, <3>3, Zenon
    <3>6. \A r \in Requests \ {q} : Spot(r)' = Spot(r)
      BY <3>2, <3>5 DEF Spot
    <3>. QED
      BY <2>2, <3>4, <3>6, Zenon
  <2>12. ASSUME NEW n \in Names, remove_from_input(n) PROVE [Queue!Next]_s
    <3>1. n \in held /\ n \in DOMAIN old /\ n \notin DOMAIN new
      BY <2>12, Zenon DEF remove_from_input, Known, HeldIsOld
    <3>2. PICK q \in Requests : q = old[n] /\ name[q] = n /\ pc[q] = "sent" /\ content[q] = q
      BY <3>1, FileOfRequest, SMTT(30) DEF Known, Filed
    <3>3. done' = done \cup {q}
      BY <2>12, <3>1, <3>2 DEF remove_from_input
    <3>4. held' = held \ {n} /\ UNCHANGED <<new, pc, name, result>>
      BY <2>12, Zenon DEF remove_from_input, delivery
    <3>5. Spot(q)' = Spot(q) \/ (Spot(q) = "taken" /\ Spot(q)' = "done")
      BY <3>1, <3>2, <3>3, <3>4, Zenon DEF Spot
    <3>6. \A r \in Requests \ {q} : pc[r] = "sent" => name[r] # n
      BY <2>4, <3>2
    <3>7. \A r \in Requests \ {q} : Spot(r)' = Spot(r)
      BY <3>3, <3>4, <3>6 DEF Spot
    <3>. QED
      BY <2>2, <3>5, <3>7, SMTT(30)
  <2>13. ASSUME NEW n \in Names, DispatchInvalid(n) \/ DispatchMissing(n) PROVE [Queue!Next]_s
    <3>1. n \in DOMAIN old
      BY <2>13, Zenon DEF DispatchInvalid, DispatchMissing, FirstOf, Known, HeldIsOld
    <3>2. content[old[n]] = old[n] /\ old[n] # "none"
      BY <3>1, FileOfRequest, JobDirAssumption, SMTT(30)
    <3>. QED
      BY <2>13, <3>1, <3>2, Zenon DEF DispatchInvalid, DispatchMissing
  <2>14. CASE \/ Tick \/ open_new \/ new_entries \/ set_old_fails \/ ReadReturns \/ DispatchEnds
              \/ Crash \/ StartScript \/ StartDaemon \/ UNCHANGED vars
    BY <2>3, <2>14, Zenon
    DEF Tick, open_new, new_entries, set_old_fails, ReadReturns, DispatchEnds, Crash, StartScript,
        StartDaemon, delivery, daemon, vars
  <2>15. ASSUME NEW n \in Names, DispatchValid(n) \/ DispatchNoContext(n) \/ RequeueFails(n)
         PROVE  [Queue!Next]_s
    BY <2>3, <2>15, Zenon DEF DispatchValid, DispatchNoContext, RequeueFails, FirstOf, delivery
  <2>. QED
    BY <2>6, <2>7, <2>8, <2>9, <2>10, <2>11, <2>12, <2>13, <2>14, <2>15 DEF Next
<1>. QED
  BY <1>1, <1>3, Reachable, PTL DEF Spec, ImplementsRequestQueue, Queue!Spec
-----------------------------------------------------------------------------
(* The delivery a thread is at has the latest name of that thread.           *)
InTurn ==
    \A r, q \in Requests :
        /\ r # q /\ by[r] = by[q] /\ pc[q] # "unsent"
        /\ pc[r] \in {"named", "created", "written"}
        => pc[q] \in {"sent", "failed"} /\ name[q].stamp < name[r].stamp

(* A thread calls deliver for one request after the other, so that its names *)
(* grow in the order of its calls.                                           *)
LEMMA ThreadsDeliverInTurn == Spec => []InTurn
<1>1. Init => InTurn
  BY DEF Init, InTurn
<1>2. TypeOK /\ InTurn /\ [Next]_vars => InTurn'
  <2> SUFFICES ASSUME TypeOK, InTurn, [Next]_vars PROVE InTurn'
    OBVIOUS
  <2>1. ASSUME NEW p \in Producers, NEW x \in Requests, MakeName(p, x) PROVE InTurn'
    <3>1. /\ pc[x] = "unsent" /\ by' = [by EXCEPT ![x] = p] /\ name' = [name EXCEPT ![x] = file_name(p)]
          /\ pc' = [pc EXCEPT ![x] = "named"] /\ ~ Busy(p) /\ Ticked(p)
      BY <2>1, Zenon DEF MakeName
    <3>2. /\ by'[x] = p /\ name'[x].stamp = clock /\ pc'[x] = "named"
          /\ \A q \in Requests \ {x} : by'[q] = by[q] /\ name'[q] = name[q] /\ pc'[q] = pc[q]
      BY <3>1, Zenon DEF TypeOK, file_name
    <3>3. ASSUME NEW q \in Requests \ {x}, by[q] = p, pc[q] # "unsent"
          PROVE  pc[q] \in {"sent", "failed"} /\ name[q].stamp < clock
      BY <3>1, <3>3 DEF Busy, Ticked, TypeOK
    <3> SUFFICES ASSUME NEW r \in Requests, NEW q \in Requests,
                        r # q, by'[r] = by'[q], pc'[q] # "unsent",
                        pc'[r] \in {"named", "created", "written"}
                 PROVE  pc'[q] \in {"sent", "failed"} /\ name'[q].stamp < name'[r].stamp
      BY DEF InTurn
    <3>4. CASE r = x
      BY <3>2, <3>3, <3>4
    <3>5. CASE q = x
      BY <3>2, <3>3, <3>5
    <3>6. CASE r # x /\ q # x
      BY <3>2, <3>6 DEF InTurn
    <3>. QED
      BY <3>4, <3>5, <3>6
  <2>2. ASSUME NEW x \in Requests, UNCHANGED <<by, name>>,
               pc[x] \in {"named", "created", "written"},
               pc'[x] \in {"created", "written", "sent", "failed"},
               \A q \in Requests \ {x} : pc'[q] = pc[q]
        PROVE  InTurn'
    BY <2>2 DEF InTurn
  <2>3. ASSUME NEW x \in Requests, CreateTmp(x) PROVE InTurn'
    <3>1. pc[x] = "named" /\ pc' = [pc EXCEPT ![x] = "created"] /\ UNCHANGED <<by, name>>
      BY <2>3, Zenon DEF CreateTmp
    <3>. QED
      BY <2>2, <3>1 DEF TypeOK
  <2>4. ASSUME NEW x \in Requests, WriteTmp(x) \/ RenameToNew(x) \/ DeliverFails(x) PROVE InTurn'
    BY <2>2, <2>4 DEF WriteTmp, RenameToNew, DeliverFails, TypeOK
  <2>5. CASE UNCHANGED <<pc, by, name>>
    BY <2>5 DEF InTurn
  <2>6. CASE \/ Tick \/ open_new \/ new_entries \/ set_old \/ set_old_fails \/ ReadReturns \/ DispatchEnds
             \/ Crash \/ StartScript \/ StartDaemon \/ UNCHANGED vars
    BY <2>5, <2>6, Zenon
    DEF Tick, open_new, new_entries, set_old, set_old_fails, ReadReturns, DispatchEnds, Crash, StartScript,
        StartDaemon, delivery, vars
  <2>7. ASSUME NEW n \in Names,
               DispatchValid(n) \/ DispatchInvalid(n) \/ DispatchNoContext(n) \/ DispatchMissing(n)
               \/ remove_from_input(n) \/ RequeueOne(n) \/ RequeueFails(n)
        PROVE  InTurn'
    BY <2>5, <2>7, Zenon
    DEF DispatchValid, DispatchInvalid, DispatchNoContext, DispatchMissing, remove_from_input,
        RequeueOne, RequeueFails, delivery
  <2>. QED
    BY <2>1, <2>3, <2>4, <2>6, <2>7 DEF Next
<1>3. QED
  BY <1>1, <1>2, Typing, PTL DEF Spec

(* What was in new/ when a read opened it are delivered requests, and with   *)
(* a request the earlier ones of its thread that are still there.            *)
Opened ==
    reader \in {"scanning", "reading"} =>
        /\ \A n \in opened : \E q \in Requests : pc[q] = "sent" /\ name[q] = n
        /\ \A r, q \in Requests :
             /\ by[r] = by[q] /\ pc[r] = "sent" /\ pc[q] = "sent"
             /\ name[r].stamp < name[q].stamp
             /\ name[q] \in opened /\ name[r] \in DOMAIN new
             => name[r] \in opened

(* What a thread delivers later has a later name: when a read opens new/, no *)
(* earlier request of the thread is still to come.                           *)
LEMMA OpenedInTurn ==
    ASSUME DistinctIds PROVE Spec => []Opened
<1>1. Init => Opened
  BY DEF Init, Opened
<1>2. Known /\ InTurn /\ Opened /\ [Next]_vars => Opened'
  <2> SUFFICES ASSUME Known, InTurn, Opened, [Next]_vars PROVE Opened'
    BY Zenon
  <2>1. ASSUME NEW x \in Requests, pc[x] # "sent", pc'[x] # "sent",
               \A q \in Requests \ {x} : pc'[q] = pc[q] /\ name'[q] = name[q] /\ by'[q] = by[q],
               UNCHANGED <<new, reader, opened>>
        PROVE  Opened'
    <3> SUFFICES ASSUME reader \in {"scanning", "reading"} PROVE Opened'
      BY <2>1, Zenon DEF Opened
    <3>1. \A n \in opened : \E q \in Requests : pc'[q] = "sent" /\ name'[q] = n
      BY <2>1 DEF Opened
    <3>2. \A q \in Requests : pc'[q] = "sent" => pc[q] = "sent" /\ name'[q] = name[q] /\ by'[q] = by[q]
      BY <2>1
    <3>3. ASSUME NEW r \in Requests, NEW q \in Requests,
                 by'[r] = by'[q], pc'[r] = "sent", pc'[q] = "sent", name'[r].stamp < name'[q].stamp,
                 name'[q] \in opened, name'[r] \in DOMAIN new
          PROVE  name'[r] \in opened
      BY <3>2, <3>3, Zenon DEF Opened
    <3>. QED
      BY <2>1, <3>1, <3>3 DEF Opened
  <2>2. ASSUME NEW p \in Producers, NEW x \in Requests, MakeName(p, x) PROVE Opened'
    <3>1. /\ pc[x] = "unsent" /\ pc' = [pc EXCEPT ![x] = "named"]
          /\ by' = [by EXCEPT ![x] = p] /\ name' = [name EXCEPT ![x] = file_name(p)]
          /\ UNCHANGED <<new, reader, opened>>
      BY <2>2, Zenon DEF MakeName, daemon
    <3>. QED
      BY <2>1, <3>1 DEF Known, TypeOK
  <2>3. ASSUME NEW x \in Requests, CreateTmp(x) PROVE Opened'
    <3>1. /\ pc[x] = "named" /\ pc' = [pc EXCEPT ![x] = "created"]
          /\ UNCHANGED <<by, name, new, reader, opened>>
      BY <2>3, Zenon DEF CreateTmp, daemon
    <3>. QED
      BY <2>1, <3>1, Zenon DEF Known, TypeOK
  <2>4. ASSUME NEW x \in Requests, WriteTmp(x) \/ DeliverFails(x) PROVE Opened'
    <3>1. /\ pc[x] \in {"named", "created", "written"}
          /\ pc' = [pc EXCEPT ![x] = "written"] \/ pc' = [pc EXCEPT ![x] = "failed"]
          /\ UNCHANGED <<by, name, new, reader, opened>>
      BY <2>4, Zenon DEF WriteTmp, DeliverFails, daemon
    <3>. QED
      BY <2>1, <3>1, SMTT(30), Zenon DEF Known, TypeOK
  <2>5. ASSUME NEW x \in Requests, RenameToNew(x) PROVE Opened'
    <3>1. /\ pc[x] = "written" /\ pc' = [pc EXCEPT ![x] = "sent"]
          /\ DOMAIN new' = DOMAIN new \cup {name[x]}
          /\ UNCHANGED <<by, name, reader, opened>>
      BY <2>5, Zenon DEF RenameToNew, Put, daemon
    <3>2. /\ pc'[x] = "sent" /\ \A q \in Requests \ {x} : pc'[q] = pc[q]
      BY <3>1, Zenon DEF Known, TypeOK
    <3>3. \A q \in Requests \ {x} : pc[q] # "unsent" => name[q] # name[x]
      BY <3>1, UniqueName
    <3>4. reader \in {"scanning", "reading"} => name[x] \notin opened
      BY <3>1, <3>3 DEF Opened
    <3>5. \A q \in Requests \ {x} : pc[q] = "sent" /\ by[x] = by[q] => ~ (name[x].stamp < name[q].stamp)
      <4>1. ASSUME NEW q \in Requests \ {x}, pc[q] = "sent", by[x] = by[q]
            PROVE  name[q].stamp < name[x].stamp
        BY <3>1, <4>1, SMTT(30) DEF InTurn
      <4>2. \A q \in Requests : pc[q] # "unsent" => name[q].stamp \in Nat
        BY Stamps, Zenon
      <4>. QED
        BY <3>1, <4>1, <4>2
    <3> SUFFICES ASSUME reader \in {"scanning", "reading"}
                 PROVE  /\ \A n \in opened : \E q \in Requests : pc'[q] = "sent" /\ name[q] = n
                        /\ \A r, q \in Requests :
                             /\ by[r] = by[q] /\ pc'[r] = "sent" /\ pc'[q] = "sent"
                             /\ name[r].stamp < name[q].stamp
                             /\ name[q] \in opened /\ name[r] \in DOMAIN new'
                             => name[r] \in opened
      BY <3>1, Zenon DEF Opened
    <3>6. \A n \in opened : \E q \in Requests : pc'[q] = "sent" /\ name[q] = n
      BY <3>2 DEF Opened
    <3>7. ASSUME NEW r \in Requests, NEW q \in Requests,
                 by[r] = by[q], pc'[r] = "sent", pc'[q] = "sent", name[r].stamp < name[q].stamp,
                 name[q] \in opened, name[r] \in DOMAIN new'
          PROVE  name[r] \in opened
      <4>1. q # x
        BY <3>4, <3>7
      <4>2. pc[q] = "sent"
        BY <3>2, <3>7, <4>1
      <4>3. r # x
        BY <3>5, <3>7, <4>1, <4>2
      <4>4. pc[r] = "sent" /\ name[r] \in DOMAIN new
        BY <3>1, <3>2, <3>3, <3>7, <4>3, Zenon
      <4>. QED
        BY <3>7, <4>2, <4>4 DEF Opened
    <3>. QED
      BY <3>6, <3>7, Zenon
  <2>6. CASE open_new
    <3>1. /\ opened' = DOMAIN new /\ UNCHANGED <<new, by, pc, name>>
      BY <2>6, Zenon DEF open_new, delivery
    <3>2. \A n \in DOMAIN new : new[n] \in Requests /\ name[new[n]] = n /\ pc[new[n]] = "sent"
      BY DEF Known, TypeOK, Filed
    <3>. QED
      BY <3>1, <3>2 DEF Opened
  <2>7. CASE new_entries
    <3>1. UNCHANGED <<new, by, pc, name, opened>> /\ reader = "scanning"
      BY <2>7, Zenon DEF new_entries, delivery
    <3>. QED
      BY <3>1, Zenon DEF Opened
  <2>8. CASE set_old
    <3>1. PICK n \in DOMAIN new : new' = Remove(new, n)
      BY <2>8, Zenon DEF set_old
    <3>2. DOMAIN new' = DOMAIN new \ {n} /\ UNCHANGED <<by, pc, name, reader, opened>>
      BY <2>8, <3>1, Zenon DEF set_old, delivery, Remove
    <3>. QED
      BY <3>1, <3>2 DEF Opened
  <2>9. CASE UNCHANGED <<new, by, pc, name, reader, opened>>
    BY <2>9, Zenon DEF Opened
  <2>10. CASE reader' \notin {"scanning", "reading"}
    BY <2>10, Zenon DEF Opened
  <2>11. CASE set_old_fails
    BY <2>9, <2>10, <2>11 DEF set_old_fails, delivery
  <2>12. CASE \/ ReadReturns \/ DispatchEnds \/ Crash \/ StartScript \/ StartDaemon
    BY <2>10, <2>12 DEF ReadReturns, DispatchEnds, Crash, StartScript, StartDaemon
  <2>13. CASE Tick \/ UNCHANGED vars
    BY <2>9, <2>13 DEF Tick, daemon, vars
  <2>14. ASSUME NEW n \in Names,
                DispatchValid(n) \/ DispatchInvalid(n) \/ DispatchNoContext(n) \/ DispatchMissing(n)
                \/ RequeueOne(n) \/ RequeueFails(n)
         PROVE  Opened'
    BY <2>10, <2>14, Zenon
    DEF DispatchValid, DispatchInvalid, DispatchNoContext, DispatchMissing, RequeueOne, RequeueFails
  <2>15. ASSUME NEW n \in Names, remove_from_input(n) PROVE Opened'
    BY <2>9, <2>15, Zenon DEF remove_from_input, delivery
  <2>. QED
    BY <2>2, <2>3, <2>4, <2>5, <2>6, <2>7, <2>8, <2>11, <2>12, <2>13, <2>14, <2>15, Zenon DEF Next
<1>3. QED
  BY <1>1, <1>2, Reachable, ThreadsDeliverInTurn, PTL DEF Spec

(* A listing names delivered requests, and all that new/ still has of what   *)
(* was there when it was opened.                                             *)
Listed ==
    reader = "reading" =>
        /\ \A n \in listing : \E q \in Requests : pc[q] = "sent" /\ name[q] = n
        /\ opened \cap DOMAIN new \subseteq listing

(* new_entries lists at least what is in new/ when it opens it, set_old takes*)
(* the listed files one by one, and no delivery brings back a name.          *)
LEMMA ListingsAreWhole ==
    ASSUME DistinctIds, ~ SkipFailed PROVE Spec => []Listed
<1>1. Init => Listed
  BY DEF Init, Listed
<1>2. Known /\ Opened /\ Listed /\ [Next]_vars => Listed'
  <2> SUFFICES ASSUME Known, Opened, Listed, [Next]_vars PROVE Listed'
    BY Zenon
  <2>1. ASSUME \A q \in Requests : pc[q] = "sent" => pc'[q] = "sent" /\ name'[q] = name[q],
               UNCHANGED <<reader, opened, listing>>,
               reader = "reading" => opened \cap DOMAIN new' \subseteq opened \cap DOMAIN new
        PROVE  Listed'
    BY <2>1, SMTT(30) DEF Listed
  <2>2. ASSUME NEW p \in Producers, NEW x \in Requests, MakeName(p, x) PROVE Listed'
    <3>1. /\ pc[x] = "unsent" /\ pc' = [pc EXCEPT ![x] = "named"]
          /\ name' = [name EXCEPT ![x] = file_name(p)]
          /\ UNCHANGED <<new, reader, opened, listing>>
      BY <2>2, Zenon DEF MakeName, daemon
    <3>. QED
      BY <2>1, <3>1, Zenon DEF Known, TypeOK
  <2>3. ASSUME NEW x \in Requests, CreateTmp(x) \/ WriteTmp(x) \/ DeliverFails(x) PROVE Listed'
    <3>1. /\ pc[x] # "sent" /\ \E to \in {"created", "written", "failed"} : pc' = [pc EXCEPT ![x] = to]
          /\ UNCHANGED <<name, new, reader, opened, listing>>
      BY <2>3, Zenon DEF CreateTmp, WriteTmp, DeliverFails, daemon
    <3>. QED
      BY <2>1, <3>1, Zenon DEF Known, TypeOK
  <2>4. ASSUME NEW x \in Requests, RenameToNew(x) PROVE Listed'
    <3>1. /\ pc[x] = "written" /\ pc' = [pc EXCEPT ![x] = "sent"]
          /\ DOMAIN new' = DOMAIN new \cup {name[x]}
          /\ UNCHANGED <<name, reader, opened, listing>>
      BY <2>4 DEF RenameToNew, Put, daemon
    <3>2. reader = "reading" => name[x] \notin opened
      BY <3>1, UniqueName, Zenon DEF Opened
    <3>. QED
      BY <2>1, <3>1, <3>2, Zenon DEF Known, TypeOK
  <2>5. CASE new_entries
    <3>1. PICK late \in SUBSET (DOMAIN new \ opened) : listing' = opened \cup late
      BY <2>5, Zenon DEF new_entries
    <3>2. reader = "scanning" /\ UNCHANGED <<new, pc, name, opened>>
      BY <2>5, Zenon DEF new_entries, delivery
    <3>3. \A n \in DOMAIN new : new[n] \in Requests /\ name[new[n]] = n /\ pc[new[n]] = "sent"
      BY DEF Known, TypeOK, Filed
    <3>4. \A n \in opened : \E q \in Requests : pc[q] = "sent" /\ name[q] = n
      BY <3>2 DEF Opened
    <3>. QED
      BY <3>1, <3>2, <3>3, <3>4 DEF Listed
  <2>6. CASE set_old
    <3>1. PICK n \in DOMAIN new : new' = Remove(new, n) /\ listing' = listing \ {n}
      BY <2>6, Zenon DEF set_old
    <3>2. DOMAIN new' = DOMAIN new \ {n} /\ UNCHANGED <<pc, name, reader, opened>>
      BY <2>6, <3>1, Zenon DEF set_old, delivery, Remove
    <3>. QED
      BY <3>1, <3>2 DEF Listed
  <2>7. CASE reader' # "reading"
    BY <2>7, Zenon DEF Listed
  <2>8. CASE \/ open_new \/ set_old_fails \/ ReadReturns \/ DispatchEnds
             \/ Crash \/ StartScript \/ StartDaemon
    BY <2>7, <2>8, SMTT(30)
    DEF open_new, set_old_fails, ReadReturns, DispatchEnds, Crash, StartScript, StartDaemon
  <2>9. CASE Tick \/ UNCHANGED vars
    BY <2>1, <2>9, Zenon DEF Tick, daemon, vars
  <2>10. ASSUME NEW n \in Names,
                DispatchValid(n) \/ DispatchInvalid(n) \/ DispatchNoContext(n) \/ DispatchMissing(n)
                \/ RequeueOne(n) \/ RequeueFails(n)
         PROVE  Listed'
    BY <2>7, <2>10, Zenon
    DEF DispatchValid, DispatchInvalid, DispatchNoContext, DispatchMissing, RequeueOne, RequeueFails
  <2>11. ASSUME NEW n \in Names, remove_from_input(n) PROVE Listed'
    BY <2>1, <2>11, Zenon DEF remove_from_input, delivery
  <2>. QED
    BY <2>2, <2>3, <2>4, <2>5, <2>6, <2>8, <2>9, <2>10, <2>11, Zenon DEF Next
<1>3. QED
  BY <1>1, <1>2, Reachable, OpenedInTurn, PTL DEF Spec

(* A stamp is not both before and after another.                             *)
LEMMA NotBoth == \A a, b \in Nat : ~ (a < b /\ b <= a)
  OBVIOUS

(* Requests of one thread are read in the order it delivered them, across    *)
(* crashes and restarts too and unless both arrived while new/ was listed,   *)
(* when a read that cannot move a file stops there (all readers but ICE's).  *)
THEOREM ThreadsAreReadInOrder ==
    ASSUME DistinctIds, ~ SkipFailed PROVE Spec => ReadInOrder
<1> DEFINE Act ==
      \A r, q \in Requests :
          /\ by[r] = by[q] /\ pc[r] = "sent" /\ name[r].stamp < name[q].stamp
          /\ name[q] \notin result /\ name[q] \in result'
          /\ name[r] \in opened \/ name[q] \in opened
          /\ ~ Collides(r) /\ ~ Collides(q)
          => ~ In(new, r)
<1>1. Known /\ Opened /\ Listed /\ [Next]_vars => [Act]_vars
  <2> SUFFICES ASSUME Known, Opened, Listed, [Next]_vars,
                      NEW r \in Requests, NEW q \in Requests,
                      by[r] = by[q], pc[r] = "sent", name[r].stamp < name[q].stamp,
                      name[q] \notin result, name[q] \in result',
                      name[r] \in opened \/ name[q] \in opened, In(new, r)
               PROVE  FALSE
    BY Zenon
  <2>1. CASE set_old
    <3>1. PICK n \in FirstOf(listing) : result' = result \cup {n} /\ reader = "reading"
      BY <2>1, Zenon DEF set_old
    <3>2. name[q] = n /\ name[q] \in listing /\ \A m \in listing : name[q].stamp <= m.stamp
      BY <3>1, Zenon DEF FirstOf
    <3>3. pc[q] = "sent"
      <4>1. PICK x \in Requests : pc[x] = "sent" /\ name[x] = name[q]
        BY <3>1, <3>2, Zenon DEF Listed
      <4>2. pc[q] # "unsent"
        BY Stamps
      <4>. QED
        BY <4>1, <4>2, UniqueName, Zenon
    <3>4. name[r] \in DOMAIN new
      <4>1. PICK m \in DOMAIN new : content[new[m]] = r
        BY Zenon DEF In
      <4>2. new[m] = r /\ name[new[m]] = m
        BY <4>1, FileOfRequest, Zenon DEF Known, Filed
      <4>. QED
        BY <4>1, <4>2, Zenon
    <3>5. name[r] \in listing
      <4>1. name[r] \in opened
        BY <3>1, <3>3, <3>4, Zenon DEF Opened
      <4>. QED
        BY <3>1, <3>4, <4>1, Zenon DEF Listed
    <3>6. name[r].stamp \in Nat /\ name[q].stamp \in Nat
      BY <3>3, Stamps
    <3>7. name[q].stamp <= name[r].stamp
      BY <3>2, <3>5, Zenon
    <3>. QED
      BY <3>6, <3>7, NotBoth, Zenon
  <2>2. ASSUME result' \subseteq result PROVE FALSE
    BY <2>2, Zenon
  <2>3. ASSUME NEW x \in Requests,
               \/ \E p \in Producers : MakeName(p, x)
               \/ CreateTmp(x) \/ WriteTmp(x) \/ RenameToNew(x) \/ DeliverFails(x)
        PROVE  FALSE
    BY <2>2, <2>3, Zenon DEF MakeName, CreateTmp, WriteTmp, RenameToNew, DeliverFails, daemon
  <2>4. CASE \/ Tick \/ open_new \/ new_entries \/ set_old_fails \/ ReadReturns \/ DispatchEnds
             \/ Crash \/ StartScript \/ StartDaemon \/ UNCHANGED vars
    BY <2>2, <2>4, Zenon
    DEF Tick, open_new, new_entries, set_old_fails, ReadReturns, DispatchEnds, Crash, StartScript,
        StartDaemon, daemon, vars
  <2>5. ASSUME NEW n \in Names,
               DispatchValid(n) \/ DispatchInvalid(n) \/ DispatchNoContext(n) \/ DispatchMissing(n)
               \/ remove_from_input(n) \/ RequeueOne(n) \/ RequeueFails(n)
        PROVE  FALSE
    BY <2>2, <2>5, Zenon
    DEF DispatchValid, DispatchInvalid, DispatchNoContext, DispatchMissing, remove_from_input,
        RequeueOne, RequeueFails
  <2>. QED
    BY <2>1, <2>3, <2>4, <2>5, Zenon DEF Next
<1>2. QED
  BY <1>1, Reachable, OpenedInTurn, ListingsAreWhole, PTL DEF Spec, ReadInOrder
=============================================================================
