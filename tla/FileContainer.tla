---------------------------- MODULE FileContainer ----------------------------
(***************************************************************************)
(* The on-disk doubly linked list of the JobController and LogMonitor (the *)
(* id repository, the aborted jobs, the timers): every operation is a      *)
(* sequence of file writes, a status byte names the one in progress and    *)
(* the header keeps backups from which recover_data undoes it when the     *)
(* file is next opened.  A process crash may fall between any two writes,  *)
(* those of a recovery included.                                           *)
(*                                                                         *)
(* Positions count blocks: 0 is the null offset (and the first byte of the *)
(* file), Header the first block.  The time stamp and the file-order links *)
(* are left out: one handle is open at a time, and only a dump reads the   *)
(* latter.                                                                 *)
(***************************************************************************)
EXTENDS Integers, Sequences, SequencesExt

CONSTANTS Value,        \* the stored strings
          NoData,       \* a block whose header alone has been written
          NoLimits,     \* a header too short to hold the limits
          MaxBlocks,    \* bound on the blocks of the file
          MaxCrashes    \* bound on the crashes

ASSUME Bounds == MaxBlocks \in Nat \ {0} /\ MaxCrashes \in Nat /\ NoData \notin Value

VARIABLES file,     \* what is on disk
          todo,     \* the writes the operation in progress has still to do
          op,       \* that operation: the elements it found, the list it stands for while
                    \* exposed to a crash, and the list it was asked for
          hurt,     \* a crash fell in an unprotected window
          crashes,
          list      \* history: the elements the file stands for, were it recovered now

vars == <<file, todo, op, hurt, crashes, list>>

Header == 1
Null == [pos |-> 0, prev |-> 0, next |-> 0]
EmptyLimits == [prev |-> Header, next |-> Header]
Idle == [kind |-> "none", n |-> 0, keep |-> <<>>, want |-> <<>>]

getEnd(f) == Len(f.blk) + 1
Readable(f, p) == p \in 1..Len(f.blk)
readIterator(f, p) ==
  IF Readable(f, p) THEN [pos |-> p, prev |-> f.blk[p].prev, next |-> f.blk[p].next] ELSE [Null EXCEPT !.pos = p]

(* The writes, each one flushed output to the file, and the calls an operation
   makes once its earlier writes are done.  *)
Put(field, val) == [write |-> "field", field |-> field, val |-> val]
writeFileStatus(s) == Put("status", s)
writeIterator(p, it) == [write |-> "link", pos |-> p, it |-> it]
writeDataHeader(it) == [write |-> "header", it |-> it]
writeData(v) == [write |-> "data", val |-> v]
Mark(it, s) == [write |-> "mark", it |-> it, state |-> s]
ftruncate(p) == [write |-> "truncate", pos |-> p]
writeAndSetSize(delta) == [write |-> "resize", by |-> delta]
Call(name, arg) == [write |-> name, arg |-> arg]

writeIteratorBackup(what, it, s) == <<Put(what, it), writeFileStatus(s)>>
writeLimitsBackup(f, s) == <<Put("limbak", f.lim), writeFileStatus(s)>>
createEmptyBackup(s) == <<[write |-> "nobackup"], writeFileStatus(s)>>

(* writeIterator's guard `(where >= header) || (where < end)' holds of every
   offset: at offset 0 the iterator overwrites the stamp and the size.  *)
Apply(f, w) ==
  CASE w.write = "field" -> [f EXCEPT ![w.field] = w.val]
    [] w.write = "resize" -> [f EXCEPT !.size = @ + w.by]
    [] w.write = "nobackup" ->
         [f EXCEPT !.bak0 = Null, !.bak1 = Null, !.bak2 = Null, !.limbak = [prev |-> 0, next |-> 0]]
    [] w.write = "link" ->
         IF Readable(f, w.pos)
         THEN [f EXCEPT !.blk[w.pos] = [@ EXCEPT !.prev = w.it.prev, !.next = w.it.next]]
         ELSE IF w.pos = 0 THEN [f EXCEPT !.size = 0]
         ELSE [f EXCEPT !.blk = Append(@, [prev |-> w.it.prev, next |-> w.it.next, state |-> "g", val |-> NoData])]
    [] w.write = "header" ->
         [f EXCEPT !.blk = Append(@, [prev |-> w.it.prev, next |-> w.it.next, state |-> "g", val |-> NoData])]
    [] w.write = "data" -> [f EXCEPT !.blk[Len(f.blk)].val = w.val]
    [] w.write = "mark" ->
         [f EXCEPT !.blk[w.it.pos] = [@ EXCEPT !.prev = w.it.prev, !.next = w.it.next, !.state = w.state]]
    [] w.write = "truncate" ->
         IF w.pos = 0 THEN [f EXCEPT !.blk = <<>>, !.lim = NoLimits, !.status = "none"]
         ELSE [f EXCEPT !.blk = SubSeq(@, 1, w.pos - 1)]

(* Op(x), with x evaluated once. *)
Let(x, Op(_)) == CHOOSE y \in {Op(z) : z \in {x}} : TRUE

(* The blocks the links lead through from the first limit to the last one, if
   they do: the empty sequence stands for a walk that fails.  *)
RECURSIVE Follow(_, _)
Follow(f, w) ==
  IF Len(w) > Len(f.blk) \/ ~Readable(f, w[Len(w)]) THEN <<>>
  ELSE IF w[Len(w)] = f.lim.next THEN w
  ELSE Let(Append(w, f.blk[w[Len(w)]].next), LAMBDA x : Follow(f, x))

Walk(f) == Follow(f, <<f.lim.prev>>)
Walked(f) == Walk(f) # <<>>
Contents(f) == IF f.lim = NoLimits THEN <<>> ELSE [i \in DOMAIN Walk(f) |-> f.blk[Walk(f)[i]].val]

(* The operations, as the writes they make to file f. *)
createEmptyFile ==
  <<Put("size", 0), writeFileStatus("opened")>> \o createEmptyBackup("empty")
    \o <<Put("lim", EmptyLimits), writeFileStatus("closed")>>
truncateFile(p) == <<ftruncate(p)>> \o (IF p = 0 THEN createEmptyFile ELSE <<>>) \o <<writeFileStatus("ft_end")>>
eraseFile(p) == writeIteratorBackup("bak0", [pos |-> p, prev |-> p, next |-> p], "ft_begin") \o truncateFile(p)

writeDataHere(prev, next, v, writing, written) ==
  <<writeFileStatus(writing), writeDataHeader([prev |-> prev, next |-> next]), writeData(v), writeFileStatus(written)>>

resetNextOfLast(f, s) ==
  writeIteratorBackup("bak2", readIterator(f, f.lim.next), s)
    \o <<writeIterator(f.lim.next, [readIterator(f, f.lim.next) EXCEPT !.next = getEnd(f)])>>

addDataAtEnd(f, v) ==
  LET end == getEnd(f)
      last == f.lim.next
  IN (IF last = end THEN <<>>
      ELSE writeIteratorBackup("bak0", readIterator(f, last), "ae_iterator")
             \o <<writeIterator(last, [readIterator(f, last) EXCEPT !.next = end])>>)
     \o writeLimitsBackup(f, "ae_limits")
     \o <<Put("lim", [f.lim EXCEPT !.next = end])>>
     \o writeDataHere(IF last = end THEN 0 ELSE last, end + 1, v, "ae_writing", "ae_written")

addDataAtBegin(f, v) ==
  LET end == getEnd(f)
      first == f.lim.prev
  IN writeIteratorBackup("bak0", readIterator(f, first), "ab_iterator")
       \o <<writeIterator(first, [readIterator(f, first) EXCEPT !.prev = end])>>
       \o writeLimitsBackup(f, "ab_limits")
       \o <<Put("lim", [f.lim EXCEPT !.prev = end])>>
       \o writeDataHere(0, first, v, "ab_writing", "ab_written")
       \o <<Call("resetNextOfLast", "ab_last")>>

addDataInMiddle(f, v, where) ==
  LET end == getEnd(f)
      next == readIterator(f, where)
      prev == readIterator(f, next.prev)
  IN writeIteratorBackup("bak0", next, "am_iterator1") \o writeIteratorBackup("bak1", prev, "am_iterator2")
       \o <<writeIterator(where, [next EXCEPT !.prev = end]), writeIterator(prev.pos, [prev EXCEPT !.next = end])>>
       \o writeDataHere(prev.pos, where, v, "am_writing", "am_written")
       \o <<Call("resetNextOfLast", "am_last")>>

add_dataNoMiddle(f, v, where) ==
  <<writeFileStatus("opened")>>
    \o (IF where = getEnd(f) THEN addDataAtEnd(f, v) ELSE addDataAtBegin(f, v))
    \o createEmptyBackup("ad_empty") \o <<writeAndSetSize(1), writeFileStatus("closed")>>

add_data(f, v, where) ==
  <<writeFileStatus("opened")>>
    \o (IF where = getEnd(f) THEN addDataAtEnd(f, v)
        ELSE IF where = f.lim.prev THEN addDataAtBegin(f, v) ELSE addDataInMiddle(f, v, where))
    \o createEmptyBackup("ad_empty") \o <<writeAndSetSize(1), writeFileStatus("closed")>>

(* The walk of checkConsistency: the size is corrected by at most the given
   offset, space after the last block in use is given back, and the last
   element points to the end again.  It fails on a list it cannot walk, the
   empty one included.  *)
Allowed(d, offset) ==
  \/ offset > 0 /\ d \in 1..offset
  \/ offset < 0 /\ d \in offset..-1
  \/ offset = 0

checkConsistency(f, offset) ==
  LET n == Len(Walk(f))
      reached == 1 + Max(ToSet(Walk(f)))
      last == readIterator(f, f.lim.next)
  IN (IF n # f.size /\ Allowed(n - f.size, offset) THEN <<Put("size", n)>> ELSE <<>>)
     \o (IF reached >= getEnd(f) THEN <<>>
         ELSE truncateFile(reached)
                \o (IF last.next = reached THEN <<>> ELSE <<writeIterator(last.pos, [last EXCEPT !.next = reached])>>))

markDataAsErased(it, s) == writeIteratorBackup("bak2", it, s) \o <<Mark(it, "i")>>

removeLastObject(f) ==
  (IF f.size = 1 THEN <<>> ELSE <<Call("checkConsistency", 1 - f.size)>>)
    \o eraseFile(Header) \o <<Put("lim", EmptyLimits)>>

(* Taking the last or the first element: its neighbour becomes the limit. *)
removeAtLimit(f, it, lim, neighbour) ==
  writeLimitsBackup(f, "rd_limits") \o <<Put("lim", lim)>>
    \o writeIteratorBackup("bak0", readIterator(f, neighbour.pos), "rd_iterator")
    \o <<writeIterator(neighbour.pos, neighbour)>>
    \o markDataAsErased(it, "rd_mark1")

removeInMiddle(f, it) ==
  LET next == readIterator(f, it.next)
      prev == readIterator(f, it.prev)
  IN writeIteratorBackup("bak0", next, "rd_iterator2") \o writeIteratorBackup("bak1", prev, "rd_iterator3")
       \o <<writeIterator(next.pos, [next EXCEPT !.prev = prev.pos]),
            writeIterator(prev.pos, [prev EXCEPT !.next = next.pos])>>
       \o markDataAsErased(it, "rd_mark2")

removeDataPointer(f, it) ==
  LET end == getEnd(f)
  IN IF it.next = end /\ it.prev = 0 THEN removeLastObject(f)
     ELSE IF it.next = end
     THEN removeAtLimit(f, it, [f.lim EXCEPT !.next = it.prev], [readIterator(f, it.prev) EXCEPT !.next = end])
     ELSE IF it.prev = 0
     THEN removeAtLimit(f, it, [f.lim EXCEPT !.prev = it.next], [readIterator(f, it.next) EXCEPT !.prev = 0])
     ELSE removeInMiddle(f, it)

remove_data(f, where) ==
  <<writeFileStatus("opened")>> \o removeDataPointer(f, readIterator(f, where))
    \o createEmptyBackup("rd_empty") \o <<writeAndSetSize(-1), writeFileStatus("closed")>>

compact_dataReversed(f) ==
  eraseFile(0) \o <<writeFileStatus("opened")>>
    \o [i \in DOMAIN Contents(f) |-> Call("addDataAtEnd", Reverse(Contents(f))[i])]
    \o createEmptyBackup("empty") \o <<Put("size", Len(Contents(f))), writeFileStatus("closed")>>

(* The copies are written back with no backup of the whole but the .bak file,
   which nothing reads.  *)
compact_data(f) ==
  eraseFile(0) \o <<writeFileStatus("opened")>>
    \o [i \in DOMAIN Contents(f) |-> Call("addDataAtEnd", Contents(f)[i])]
    \o createEmptyBackup("empty") \o <<Put("size", Len(Contents(f))), writeFileStatus("closed")>>

(* The undo of recover_data, by status: each case falls through to the next. *)
Relink(it) == <<writeIterator(it.pos, it)>>
RestoreLimits(f) == <<Put("lim", f.limbak)>>

undoAddAtEndKeepLimits(f) ==
  (IF f.status \in {"ae_writing", "ae_written"} THEN truncateFile(f.lim.next) ELSE <<>>)
    \o Relink(f.bak0)

undoAddAtEnd(f) ==
  (IF f.status \in {"ae_writing", "ae_written"} THEN truncateFile(f.lim.next) ELSE <<>>)
    \o (IF f.status = "ae_iterator" THEN <<>> ELSE RestoreLimits(f))
    \o Relink(f.bak0)

undoAddAtBegin(f) ==
  (IF f.status = "ab_last" THEN Relink(f.bak2) ELSE <<>>)
    \o (IF f.status \in {"ab_last", "ab_writing", "ab_written"} THEN truncateFile(f.lim.prev) ELSE <<>>)
    \o (IF f.status = "ab_iterator" THEN <<>> ELSE RestoreLimits(f))
    \o Relink(f.bak0)

undoAddInMiddle(f) ==
  (IF f.status = "am_last" THEN Relink(f.bak2) ELSE <<>>)
    \o (IF f.status \in {"am_last", "am_writing", "am_written"} THEN truncateFile(readIterator(f, f.bak0.pos).prev) ELSE <<>>)
    \o (IF f.status = "am_iterator1" THEN <<>> ELSE Relink(f.bak1))
    \o Relink(f.bak0)

undoRemoveAtLimit(f) ==
  (IF f.status = "rd_mark1" THEN <<Mark(f.bak2, "g")>> ELSE <<>>)
    \o (IF f.status = "rd_limits" THEN <<>> ELSE Relink(f.bak0))
    \o RestoreLimits(f)

undoRemoveInMiddle(f) ==
  (IF f.status = "rd_mark2" THEN <<Mark(f.bak2, "g")>> ELSE <<>>)
    \o (IF f.status = "rd_iterator2" THEN <<>> ELSE Relink(f.bak1))
    \o Relink(f.bak0)

AddAtEnd == {"ae_iterator", "ae_limits", "ae_writing", "ae_written"}
AddAtBegin == {"ab_iterator", "ab_limits", "ab_writing", "ab_written", "ab_last"}
AddInMiddle == {"am_iterator1", "am_iterator2", "am_writing", "am_written", "am_last"}
RemoveAtLimit == {"rd_limits", "rd_iterator", "rd_mark1"}
RemoveInMiddle == {"rd_iterator2", "rd_iterator3", "rd_mark2"}
Checked == AddAtEnd \cup AddAtBegin \cup AddInMiddle \cup RemoveAtLimit \cup RemoveInMiddle \cup {"ad_empty", "rd_empty"}

undo(f) ==
  CASE f.status \in AddAtEnd -> undoAddAtEnd(f)
    [] f.status \in AddAtBegin -> undoAddAtBegin(f)
    [] f.status \in AddInMiddle -> undoAddInMiddle(f)
    [] f.status \in RemoveAtLimit -> undoRemoveAtLimit(f)
    [] f.status \in RemoveInMiddle -> undoRemoveInMiddle(f)
    [] f.status = "ft_begin" -> truncateFile(f.bak0.pos)
    [] f.status = "empty" ->
         <<writeFileStatus("closed")>> \o (IF f.size = 0 /\ f.lim.prev # getEnd(f) THEN eraseFile(0) ELSE <<>>)
    [] OTHER -> <<>>

recover_data(f) ==
  IF f.lim = NoLimits THEN <<>>
  ELSE undo(f)
         \o (IF f.status \notin Checked THEN <<>>
             ELSE <<Call("checkConsistency",
                         IF f.status \in RemoveAtLimit \cup RemoveInMiddle \cup {"rd_empty"} THEN -1 ELSE 1)>>)
         \o <<writeFileStatus("closed")>>

(* One step of an operation: a write, or a call replaced by the writes it
   makes.  A size that cannot be decremented is counted anew; a consistency
   check that fails ends the operation, and so does a mark on a block that is
   not there.  *)
Execute(f, ws) ==
  LET w == Head(ws)
      rest == Tail(ws)
      checked(offset) == [file |-> f, todo |-> IF Walked(f) THEN checkConsistency(f, offset) \o rest ELSE <<>>]
  IN CASE w.write = "checkConsistency" -> checked(w.arg)
       [] w.write = "resize" /\ f.size + w.by < 0 -> checked(0)
       [] w.write = "mark" /\ ~Readable(f, w.it.pos) -> [file |-> f, todo |-> <<>>]
       [] w.write = "resetNextOfLast" -> [file |-> f, todo |-> resetNextOfLast(f, w.arg) \o rest]
       [] w.write = "addDataAtEnd" -> [file |-> f, todo |-> addDataAtEnd(f, w.arg) \o rest]
       [] OTHER -> [file |-> Apply(f, w), todo |-> rest]

RECURSIVE Run(_, _)
Run(f, ws) == IF ws = <<>> THEN f ELSE Let(Execute(f, ws), LAMBDA e : Run(e.file, e.todo))

Recovered(f) == Run(f, IF f.status = "closed" THEN <<>> ELSE recover_data(f))
-----------------------------------------------------------------------------
(* A list whose links, limits and end agree: the one the operations work on. *)
Linked(f) ==
  /\ f.lim # NoLimits
  /\ \/ f.lim.prev = getEnd(f) /\ f.lim.next = getEnd(f)
     \/ /\ Walked(f)
        /\ LET w == Walk(f)
           IN \A i \in DOMAIN w :
                /\ f.blk[w[i]].prev = (IF i = 1 THEN 0 ELSE w[i - 1])
                /\ f.blk[w[i]].next = (IF i = Len(w) THEN getEnd(f) ELSE w[i + 1])
                /\ f.blk[w[i]].state = "g"

(* The status asks for backups the header does not hold: nothing was there to
   back up when the first element is added, and at the end of every operation
   createEmptyBackup wipes them before it writes the status that no longer
   needs them.  *)
BackupsGone ==
  /\ file.status \in Checked \ {"ad_empty", "rd_empty"}
  /\ IF file.status = "rd_limits" THEN file.limbak.prev = 0 ELSE file.bak0 = Null

(* The file has been cut, and its status does not say so yet. *)
Truncating == Head(todo).write = "field" /\ Head(todo).field = "status" /\ Head(todo).val = "ft_end"

(* The moments at which a crash is not undone by the next recovery: without
   backups, while the only element is removed, in a file being created or
   compacted, and in a recovery that has truncated the file but not yet put its
   links and limits back.  *)
Exposed ==
  CASE op.kind = "add" -> BackupsGone
    [] op.kind = "remove" -> BackupsGone \/ (op.n = 1 /\ file.status \in {"ft_begin", "ft_end", "rd_empty"})
    [] op.kind = "clear" -> file.lim = NoLimits
    [] op.kind = "compact" -> TRUE
    [] op.kind = "recover" -> file.lim = NoLimits \/ Truncating \/ (file.status = "ft_end" /\ Len(todo) > 1)
    [] OTHER -> FALSE

Init ==
  /\ file = Run([blk |-> <<>>, lim |-> NoLimits, size |-> 0, status |-> "none",
                   bak0 |-> Null, bak1 |-> Null, bak2 |-> Null, limbak |-> [prev |-> 0, next |-> 0]], createEmptyFile)
  /\ todo = <<>> /\ op = Idle /\ hurt = FALSE /\ crashes = 0
  /\ list = <<>>

Start(kind, keep, want, ws) ==
  /\ todo = <<>>
  /\ todo' = ws
  /\ op' = IF ws = <<>> THEN Idle ELSE [kind |-> kind, n |-> Len(Contents(file)), keep |-> keep, want |-> want]
  /\ UNCHANGED <<file, hurt, crashes>>

Ready == todo = <<>> /\ file.status = "closed" /\ Linked(file)

Where(i) == IF i > Len(Contents(file)) THEN getEnd(file) ELSE Walk(file)[i]

insert(i, v) ==
  /\ Ready /\ Len(file.blk) < MaxBlocks
  /\ Start("add", Contents(file), InsertAt(Contents(file), i, v), add_data(file, v, Where(i)))

erase(i) ==
  /\ Ready
  /\ \E want \in {RemoveAt(Contents(file), i)} : Start("remove", want, want, remove_data(file, Where(i)))

clear == Ready /\ Start("clear", <<>>, <<>>, eraseFile(0))

compact == Ready /\ Start("compact", Contents(file), Contents(file), compact_data(file))

(* The file is found not closed by the next call or by the next process. *)
recover ==
  /\ todo = <<>> /\ file.status # "closed"
  /\ Start("recover", list, list, recover_data(file))

Step ==
  /\ todo # <<>>
  /\ \E e \in {Execute(file, todo)} :
       /\ file' = e.file /\ todo' = e.todo
       /\ op' = IF e.todo = <<>> THEN Idle ELSE op
  /\ UNCHANGED <<hurt, crashes>>

Crash ==
  /\ todo # <<>> /\ crashes < MaxCrashes
  /\ crashes' = crashes + 1
  /\ hurt' = (hurt \/ Exposed)
  /\ todo' = <<>> /\ op' = Idle
  /\ UNCHANGED file

Logical ==
  IF hurt THEN <<>> ELSE IF Exposed THEN op.keep ELSE Let(Recovered(file), Contents)

Next ==
  /\ \/ \E i \in 1..Len(Contents(file)) + 1, v \in Value : insert(i, v)
     \/ \E i \in 1..Len(Contents(file)) : erase(i)
     \/ clear
     \/ compact
     \/ recover
     \/ Step
     \/ Crash
  /\ list' = Logical'

Spec == Init /\ [][Next]_vars
-----------------------------------------------------------------------------
Block == [prev : 0..MaxBlocks + 1, next : 0..MaxBlocks + 2, state : {"g", "i"}, val : Value \cup {NoData}]
Status == Checked \cup {"none", "opened", "closed", "empty", "ft_begin", "ft_end"}

(* The file has the layout FileContainer reads, within the bounds. *)
TypeOK ==
  /\ file.blk \in Seq(Block) /\ Len(file.blk) <= MaxBlocks
  /\ file.lim = NoLimits \/ file.lim \in [prev : 0..MaxBlocks + 1, next : 0..MaxBlocks + 1]
  /\ file.size \in 0..MaxBlocks + MaxCrashes /\ file.status \in Status
  /\ op.kind \in {"none", "add", "remove", "clear", "compact", "recover"}
  /\ hurt \in BOOLEAN /\ crashes \in 0..MaxCrashes

(* Between operations, and after any number of crashes outside the
   unprotected windows, a closed file is a doubly linked list: walked either
   way it has the same elements, the size in the header counts them, its last
   element points to the end of the file, and no block outside the list looks
   like data (filelist.cpp trusts all four).  *)
ClosedIsConsistent ==
  (todo = <<>> /\ file.status = "closed" /\ ~hurt) =>
    /\ Linked(file)
    /\ file.size = Len(Contents(file))
    /\ \A p \in DOMAIN file.blk : file.blk[p].state = "g" => \E i \in DOMAIN Walk(file) : Walk(file)[i] = p

(* Whatever write a crash cuts short, outside the unprotected windows the
   next recover_data gets to its end and leaves a closed, linked list. *)
AlwaysRecoverable ==
  (~hurt /\ ~Exposed) => \A f \in {Recovered(file)} : f.status = "closed" /\ Linked(f)

L == INSTANCE FileList WITH intact <- ~hurt

(* Insertions and erasures are atomic: a crash and the recovery after it leave
   the list as it was before the operation or as it is after, never in
   between, and a recovery changes nothing.  *)
ImplementsFileList == L!Spec

(* An operation that runs to its end leaves the list it was asked for (the
   insertion at the position given, the elements of a compaction in their
   order), and a recovery leaves the list the caller could count on.  *)
CompletesAsAsked ==
  [][op # Idle /\ op' = Idle /\ crashes' = crashes /\ ~hurt => list' = op.want]_vars
=============================================================================
