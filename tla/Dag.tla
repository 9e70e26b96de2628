--------------------------------- MODULE Dag ---------------------------------
(***************************************************************************)
(* The DAG branch of SubmitProcessor (core/src/submit_request.cpp): at every *)
(* pass the Workload Manager asks the Logging and Bookkeeping service (LB)   *)
(* for the state of each node, colours the graph, queues the nodes whose     *)
(* parents are done, aborts those with a failed parent, and schedules itself *)
(* again until the DAG is complete.                                          *)
(*                                                                           *)
(* The processor is an event; a transient LB error schedules a second copy   *)
(* of it, so there may be several.  The events of the nodes are in memory    *)
(* only: what survives a crash is the request of the DAG and the LB.         *)
(***************************************************************************)
EXTENDS Integers, Sequences, FiniteSets

CONSTANTS
    Order,          \* the nodes, in the order of boost::vertices(dag)
    Parents,        \* Parents[n]: the sources of the in-edges of n
    Copies,         \* bound: copies of the processor scheduled at once
    MaxQueued,      \* bound: events of one node in the queue
    Prompt,         \* a node's event runs before the next pass (match_retry_period)
    Bounds          \* what may go wrong together: b[k] faults of kind k, for a b in Bounds

Nodes == {Order[i] : i \in 1 .. Len(Order)}
Faults == {"transient", "query", "context", "expiry", "postpone", "retry", "crash"}

ASSUME DagAssumption ==
    /\ Order \in Seq(Nodes) /\ Parents \in [Nodes -> SUBSET Nodes]
    /\ \A i, j \in 1 .. Len(Order) : Order[i] = Order[j] => i = j
    /\ Copies # {}
    /\ MaxQueued \in Nat
    /\ Prompt \in BOOLEAN /\ Bounds \subseteq [Faults -> Nat]

VARIABLES
    lb,         \* lb[n]: state of the node in the LB
    dag,        \* state of the DAG in the LB
    nodeq,      \* nodeq[n]: SubmitProcessors of node n in the event queue
    pc,         \* pc[c]: where copy c of the DAG's processor is
    idx,        \* idx[c]: the vertex it is at, in the phase it is in
    color,      \* color[c]: the colours of its graph
    completed,  \* completed[c]: completed_dag, in its second phase
    used        \* used[k]: faults of kind k so far

vars == <<lb, dag, nodeq, pc, idx, color, completed, used>>

White == [n \in Nodes |-> "white"]

FirstCopy == CHOOSE c \in Copies : TRUE
OneQueued == [c \in Copies |-> IF c = FirstCopy THEN "queued" ELSE "none"]

Init ==
    /\ lb = [n \in Nodes |-> "submitted"] /\ dag = "running"
    /\ nodeq = [n \in Nodes |-> 0]
    /\ pc = OneQueued
    /\ idx = [c \in Copies |-> 1]
    /\ color = [c \in Copies |-> White]
    /\ completed = [c \in Copies |-> TRUE]
    /\ used = [k \in Faults |-> 0]

Fault(k) ==
    /\ used' = [used EXCEPT ![k] = @ + 1]
    /\ \E b \in Bounds : \A j \in Faults : used'[j] <= b[j]

\* the position, the colours and the flag are of one pass only
EndPass(c) ==
    /\ idx' = [idx EXCEPT ![c] = 1] /\ color' = [color EXCEPT ![c] = White]
    /\ completed' = [completed EXCEPT ![c] = TRUE]
-----------------------------------------------------------------------------
(* First phase: an assessment of each node's status *)

Begin(c) ==
    /\ pc[c] = "queued"
    /\ Prompt => \A n \in Nodes : lb[n] = "submitted" => nodeq[n] = 0
    /\ pc' = [pc EXCEPT ![c] = "read"]
    /\ UNCHANGED <<lb, dag, nodeq, idx, color, completed, used>>

\* proxy missing, invalid or expired, or request expired: unrecoverable()
Expired(c) ==
    /\ pc[c] = "queued" /\ Fault("expiry")
    /\ dag' = "aborted"
    /\ pc' = [pc EXCEPT ![c] = "none"]
    /\ UNCHANGED <<lb, nodeq, idx, color, completed>>

color_of == [submitted |-> "white", waiting |-> "gray", active |-> "gray",
             done |-> "green", failed |-> "gray", aborted |-> "red"]

At(c, phase) == pc[c] = phase /\ idx[c] <= Len(Order)
Vertex(c) == Order[idx[c]]
NextVertex(c) == idx' = [idx EXCEPT ![c] = @ + 1]

ReadNode(c) ==
    /\ At(c, "read")
    /\ color' = [color EXCEPT ![c][Vertex(c)] = color_of[lb[Vertex(c)]]]
    /\ NextVertex(c) /\ UNCHANGED <<lb, dag, nodeq, pc, completed, used>>

\* LB_QueryTemporarilyFailed for a done node: the processor is scheduled again
\* and goes on, with the initial colour of the vertex
ReadTransient(c) ==
    /\ At(c, "read") /\ lb[Vertex(c)] \in {"done", "failed"} /\ Fault("transient")
    /\ \E d \in Copies : pc[d] = "none" /\ pc' = [pc EXCEPT ![d] = "queued"]
    /\ NextVertex(c) /\ UNCHANGED <<lb, dag, nodeq, color, completed>>

\* LB_QueryFailed for a done node: return, and the request is gone
ReadFails(c) ==
    /\ At(c, "read") /\ lb[Vertex(c)] \in {"done", "failed"} /\ Fault("query")
    /\ pc' = [pc EXCEPT ![c] = "none"] /\ EndPass(c)
    /\ UNCHANGED <<lb, dag, nodeq>>

\* end 'recovery'
Assessed(c) ==
    /\ pc[c] = "read" /\ idx[c] > Len(Order)
    /\ pc' = [pc EXCEPT ![c] = "plan"] /\ idx' = [idx EXCEPT ![c] = 1]
    /\ UNCHANGED <<lb, dag, nodeq, color, completed, used>>
-----------------------------------------------------------------------------
(* Second phase: plan submission of pending nodes or terminate, a vertex a time *)

one_parent_is_green(c, n) == \E p \in Parents[n] : color[c][p] = "green"
parents_are_green(c, n) == \A p \in Parents[n] : color[c][p] = "green"

a_parent_is_red(c, n) == \E p \in Parents[n] : color[c][p] = "red"
MayRun(c, n) == Parents[n] = {} \/ parents_are_green(c, n)

Paint(c, col) == color' = [color EXCEPT ![c][Vertex(c)] = col]
IsWhite(c) == color[c][Vertex(c)] = "white"
NotCompleted(c) == completed' = [completed EXCEPT ![c] = FALSE]

\* an ended or a running node, or one that waits for its parents
PassOver(c) ==
    /\ At(c, "plan")
    /\ IsWhite(c) => ~ MayRun(c, Vertex(c)) /\ ~ a_parent_is_red(c, Vertex(c))
    /\ completed' = [completed EXCEPT ![c] = @ /\ color[c][Vertex(c)] \in {"green", "red"}]
    /\ NextVertex(c) /\ UNCHANGED <<lb, dag, nodeq, pc, color, used>>

queue_new_submit_request(n) ==
    nodeq[n] < MaxQueued /\ nodeq' = [nodeq EXCEPT ![n] = @ + 1]

\* a node with parents keeps its colour
QueueNode(c) ==
    /\ At(c, "plan") /\ IsWhite(c) /\ MayRun(c, Vertex(c))
    /\ queue_new_submit_request(Vertex(c))
    /\ Paint(c, IF Parents[Vertex(c)] = {} THEN "gray" ELSE "white") /\ NotCompleted(c)
    /\ NextVertex(c) /\ UNCHANGED <<lb, dag, pc, used>>

\* CannotCreateLBContext: the node becomes red
QueueFails(c) ==
    /\ At(c, "plan") /\ IsWhite(c) /\ MayRun(c, Vertex(c)) /\ Fault("context")
    /\ Paint(c, "red") /\ NotCompleted(c)
    /\ NextVertex(c) /\ UNCHANGED <<lb, dag, nodeq, pc>>

AbortNode_unlogged(c) ==
    /\ At(c, "plan") /\ IsWhite(c) /\ a_parent_is_red(c, Vertex(c))
    /\ Paint(c, "red") /\ NotCompleted(c)
    /\ NextVertex(c) /\ UNCHANGED <<lb, dag, nodeq, pc, used>>
\* unrecoverable(new_state, "parents have aborted")
AbortNode(c) ==
    /\ At(c, "plan") /\ IsWhite(c) /\ a_parent_is_red(c, Vertex(c))
    /\ lb' = [lb EXCEPT ![Vertex(c)] = "aborted"]
    /\ Paint(c, "red") /\ NotCompleted(c)
    /\ NextVertex(c) /\ UNCHANGED <<dag, nodeq, pc, used>>

\* CannotCreateLBContext is not caught here: the DAG is unrecoverable
AbortFails(c) ==
    /\ At(c, "plan") /\ IsWhite(c) /\ a_parent_is_red(c, Vertex(c)) /\ Fault("context")
    /\ dag' = "aborted"
    /\ pc' = [pc EXCEPT ![c] = "none"] /\ EndPass(c)
    /\ UNCHANGED <<lb, nodeq>>

logged_done(c) == "done"
\* log_done_ok or log_abort
logged(c) == IF \A n \in Nodes : color[c][n] = "green" THEN "done" ELSE "aborted"

Planned(c) ==
    /\ pc[c] = "plan" /\ idx[c] > Len(Order)
    /\ \/ ~ completed[c] /\ pc' = [pc EXCEPT ![c] = "queued"] /\ UNCHANGED dag
       \/ completed[c] /\ pc' = [pc EXCEPT ![c] = "none"] /\ dag' = logged(c)
    /\ EndPass(c) /\ UNCHANGED <<lb, nodeq, used>>
-----------------------------------------------------------------------------
(* The nodes: their own SubmitProcessors, the CE and the resubmissions *)

Deliver_keeps_event(n) ==
    /\ nodeq[n] > 0
    /\ lb' = [lb EXCEPT ![n] = "active"]
    /\ UNCHANGED <<dag, nodeq, pc, idx, color, completed, used>>
Deliver(n) ==
    /\ nodeq[n] > 0
    /\ nodeq' = [nodeq EXCEPT ![n] = @ - 1]
    /\ lb' = [lb EXCEPT ![n] = "active"]
    /\ UNCHANGED <<dag, pc, idx, color, completed, used>>

Postpone(n) ==
    /\ nodeq[n] > 0 /\ Fault("postpone")
    /\ lb' = [lb EXCEPT ![n] = "waiting"]
    /\ UNCHANGED <<dag, nodeq, pc, idx, color, completed>>

Unrecoverable(n) ==
    /\ nodeq[n] > 0
    /\ nodeq' = [nodeq EXCEPT ![n] = @ - 1]
    /\ lb' = [lb EXCEPT ![n] = "aborted"]
    /\ UNCHANGED <<dag, pc, idx, color, completed, used>>

Ends(n) ==
    /\ lb[n] = "active"
    /\ \E s \in {"done", "failed", "aborted"} : lb' = [lb EXCEPT ![n] = s]
    /\ UNCHANGED <<dag, nodeq, pc, idx, color, completed, used>>

\* a resubmit request of the LogMonitor or ICE: the job has retries left or not
Resubmit(n) ==
    /\ lb[n] = "failed"
    /\ \/ Fault("retry") /\ lb' = [lb EXCEPT ![n] = "active"]
       \/ UNCHANGED used /\ lb' = [lb EXCEPT ![n] = "aborted"]
    /\ UNCHANGED <<dag, nodeq, pc, idx, color, completed>>
-----------------------------------------------------------------------------
\* the request is in old/ while a processor of the DAG or of a node refers to it
RequestHeld == (\E c \in Copies : pc[c] # "none") \/ (\E n \in Nodes : nodeq[n] > 0)

\* crash, start script and recovery(): the request of the DAG is scheduled
Crash ==
    /\ RequestHeld /\ Fault("crash")
    /\ pc' = OneQueued
    /\ nodeq' = [n \in Nodes |-> 0]
    /\ idx' = [c \in Copies |-> 1] /\ color' = [c \in Copies |-> White]
    /\ completed' = [c \in Copies |-> TRUE] /\ UNCHANGED <<lb, dag>>

Over == ~ RequestHeld /\ UNCHANGED vars

PlanStep(c) == PassOver(c) \/ QueueNode(c) \/ AbortNode(c) \/ Planned(c)
DagStep(c) == Begin(c) \/ ReadNode(c) \/ Assessed(c) \/ PlanStep(c)
DagFault(c) == \/ Expired(c) \/ ReadTransient(c) \/ ReadFails(c)
               \/ QueueFails(c) \/ AbortFails(c)
NodeStep(n) == Deliver(n) \/ Unrecoverable(n)

Next ==
    \/ \E c \in Copies : DagStep(c) \/ DagFault(c)
    \/ \E n \in Nodes : NodeStep(n) \/ Postpone(n) \/ Ends(n) \/ Resubmit(n)
    \/ Crash
    \/ Over

Spec == Init /\ [][Next]_vars

(* The workers run the events, and CEs and resubmissions bring every active   *)
(* job to an end.                                                              *)
Fairness == /\ \A c \in Copies : WF_vars(DagStep(c))
            /\ \A n \in Nodes : WF_vars(NodeStep(n) \/ Ends(n) \/ Resubmit(n))
FairSpec == Spec /\ Fairness
-----------------------------------------------------------------------------
(* Properties *)

\* Type invariant of the LB, the event queue and the copies of the processor.
TypeOK ==
    /\ lb \in [Nodes -> {"submitted", "waiting", "active", "done", "failed", "aborted"}]
    /\ dag \in {"running", "done", "aborted"}
    /\ nodeq \in [Nodes -> 0 .. MaxQueued]
    /\ pc \in [Copies -> {"none", "queued", "read", "plan"}]
    /\ idx \in [Copies -> 1 .. Len(Order) + 1]
    /\ color \in [Copies -> [Nodes -> {"white", "gray", "green", "red"}]]
    /\ completed \in [Copies -> BOOLEAN]
    /\ used \in [Faults -> Nat]

\* no query of a done node has failed for a while: that leaves it white, and the
\* second phase queues it again
NodesRead == used["transient"] = 0

(* A node is queued only when every one of its parents has ended well, however *)
(* the reads of the LB interleave with the nodes, and across crashes.           *)
ParentsFirst ==
    [][NodesRead' => \A n \in Nodes : nodeq'[n] > nodeq[n] =>
                       \A p \in Parents[n] : lb[p] = "done"]_vars

(* The DAG is logged as done only when all of its nodes are done.              *)
DoneMeansAllDone == dag = "done" /\ NodesRead => \A n \in Nodes : lb[n] = "done"

(* A node is never in the queue twice, nor queued again once it has been       *)
(* delivered, provided that its event runs before the next pass.               *)
QueuedOnce ==
    NodesRead => \A n \in Nodes : /\ nodeq[n] <= 1
                                  /\ nodeq[n] = 1 => lb[n] \in {"submitted", "waiting"}

(* Every DAG is brought to an end.  With a crash: "the recovery mechanism is   *)
(* by design included in the processing of the request".                        *)
DagEnds == <>(dag # "running")

(* Unless the daemon crashed or the DAG was dropped because a query of the LB  *)
(* failed, every DAG is brought to an end: also when nodes fail, are           *)
(* resubmitted or cannot be queued, and when an LB query fails for a while.     *)
DagEndsUnlessLost == <>(dag # "running" \/ used["crash"] > 0 \/ used["query"] > 0)
=============================================================================
