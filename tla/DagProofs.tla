------------------------------ MODULE DagProofs ------------------------------
(* Proofs about Dag, for every graph, every number of copies of the processor   *)
(* and every bound on the faults.                                                *)
EXTENDS Dag, TLAPS

\* The second copy of the processor comes from a transient error only.
OneCopy == \A c, d \in Copies : pc[c] # "none" /\ pc[d] # "none" => c = d

\* Between two passes the graph is not coloured yet.
Fresh == \A c \in Copies : pc[c] \in {"none", "queued"} => color[c] = White /\ idx[c] = 1

\* What a colour read from the LB, or left white, still says of the node: green
\* is final, and white holds until the second phase has passed the vertex.
GreenIsDone == \A c \in Copies, n \in Nodes : color[c][n] = "green" => lb[n] = "done"
NoneQueued == \A c \in Copies, n \in Nodes :
                pc[c] = "read" /\ lb[n] = "submitted" => nodeq[n] = 0
WhiteRead == \A c \in Copies, i \in 1 .. Len(Order) :
               pc[c] = "read" /\ i < idx[c] /\ color[c][Order[i]] = "white"
                 => lb[Order[i]] = "submitted"
WhitePlanned == \A c \in Copies, i \in 1 .. Len(Order) :
                  pc[c] = "plan" /\ i >= idx[c] /\ color[c][Order[i]] = "white"
                    => lb[Order[i]] = "submitted" /\ nodeq[Order[i]] = 0

Once == \A n \in Nodes : /\ nodeq[n] <= 1
                         /\ nodeq[n] = 1 => lb[n] \in {"submitted", "waiting"}
AllDone == dag = "done" => \A n \in Nodes : lb[n] = "done"

Sound == /\ OneCopy /\ Fresh /\ GreenIsDone /\ NoneQueued /\ WhiteRead /\ WhitePlanned
         /\ Once /\ AllDone
IInv == TypeOK /\ (NodesRead => Sound)
-----------------------------------------------------------------------------
States == {"submitted", "waiting", "active", "done", "failed", "aborted"}
Colors == {"white", "gray", "green", "red"}

(* What the first phase makes of a state read from the LB: green is done and    *)
(* white is submitted.                                                           *)
LEMMA ColorOf ==
    ASSUME NEW s \in States
    PROVE  /\ color_of[s] \in Colors
           /\ color_of[s] = "green" => s = "done"
           /\ color_of[s] = "white" => s = "submitted"
BY DEF States, Colors, color_of

(* The vertex a copy of the processor is at is a node of the DAG.                *)
LEMMA VertexIsNode ==
    ASSUME TypeOK, NEW c \in Copies, NEW ph, At(c, ph)
    PROVE  Vertex(c) \in Nodes /\ idx[c] \in 1 .. Len(Order)
BY DagAssumption DEF TypeOK, At, Vertex

(* A new copy starts from a graph that is not coloured.                          *)
LEMMA Coloring ==
    /\ White \in [Nodes -> Colors]
    /\ \A n \in Nodes : White[n] = "white"
    /\ OneQueued \in [Copies -> {"none", "queued"}]
    /\ \A c, d \in Copies : OneQueued[c] # "none" /\ OneQueued[d] # "none" => c = d
BY DEF White, Colors, OneQueued

(* The faults are only counted up.                                               *)
LEMMA FaultCounts ==
    ASSUME TypeOK, NEW k \in Faults, Fault(k)
    PROVE  /\ used' \in [Faults -> Nat]
           /\ NodesRead' => NodesRead /\ k # "transient"
<1>1. used \in [Faults -> Nat]
  BY DEF TypeOK
<1>2. used' = [used EXCEPT ![k] = @ + 1]
  BY DEF Fault
<1>3. used' \in [Faults -> Nat]
  BY <1>1, <1>2
<1>4. "transient" \in Faults
  BY DEF Faults
<1>5. used'["transient"] = 0 => used["transient"] = 0 /\ k # "transient"
  BY <1>1, <1>2, <1>4
<1> QED
  BY <1>3, <1>5 DEF NodesRead

(* A step of the processors keeps the types: no vertex is visited past the end  *)
(* of the graph and no counter leaves its range.                                 *)
LEMMA PassTypes ==
    ASSUME TypeOK, NEW c \in Copies, DagStep(c) \/ DagFault(c)
    PROVE  TypeOK'
<1> USE DEF TypeOK
<1>0. Len(Order) \in Nat /\ MaxQueued \in Nat
  BY DagAssumption
<1>1. CASE Begin(c)
  BY <1>1 DEF Begin
<1>2. CASE ReadNode(c)
  <2>1. Vertex(c) \in Nodes /\ idx[c] \in 1 .. Len(Order)
    BY <1>2, VertexIsNode DEF ReadNode
  <2>2. color_of[lb[Vertex(c)]] \in Colors
    BY <2>1, ColorOf, Zenon DEF States
  <2>3. color' \in [Copies -> [Nodes -> Colors]]
    BY <1>2, <2>1, <2>2 DEF ReadNode, Colors
  <2>4. idx' \in [Copies -> 1 .. Len(Order) + 1]
    BY <1>0, <1>2, <2>1 DEF ReadNode, NextVertex
  <2> QED
    BY <1>2, <2>3, <2>4 DEF ReadNode, Colors
<1>3. CASE Assessed(c)
  BY <1>0, <1>3 DEF Assessed
<1>4. CASE PassOver(c)
  <2>1. idx' \in [Copies -> 1 .. Len(Order) + 1]
    BY <1>0, <1>4, VertexIsNode DEF PassOver, NextVertex
  <2> QED
    BY <1>4, <2>1, Zenon DEF PassOver
<1>5. CASE QueueNode(c)
  <2>1. Vertex(c) \in Nodes /\ idx[c] \in 1 .. Len(Order)
    BY <1>5, VertexIsNode DEF QueueNode
  <2>2. idx' \in [Copies -> 1 .. Len(Order) + 1]
    BY <1>0, <1>5, <2>1 DEF QueueNode, NextVertex
  <2>3. nodeq' \in [Nodes -> 0 .. MaxQueued]
    BY <1>0, <1>5, <2>1 DEF QueueNode, queue_new_submit_request
  <2>4. PICK col \in Colors : color' = [color EXCEPT ![c][Vertex(c)] = col]
    BY <1>5, Zenon DEF QueueNode, Paint, Colors
  <2>5. color' \in [Copies -> [Nodes -> Colors]]
    BY <2>1, <2>4 DEF Colors
  <2> QED
    BY <1>5, <2>2, <2>3, <2>5, Zenon DEF QueueNode, NotCompleted, Colors
<1>6. CASE QueueFails(c)
  <2>1. Vertex(c) \in Nodes /\ idx[c] \in 1 .. Len(Order)
    BY <1>6, VertexIsNode DEF QueueFails
  <2>2. idx' \in [Copies -> 1 .. Len(Order) + 1]
    BY <1>0, <1>6, <2>1 DEF QueueFails, NextVertex
  <2>3. used' \in [Faults -> Nat]
    BY <1>6, FaultCounts DEF QueueFails, Faults
  <2> QED
    BY <1>6, <2>1, <2>2, <2>3, Zenon DEF QueueFails, Paint, NotCompleted
<1>7. CASE AbortNode(c)
  <2>1. Vertex(c) \in Nodes /\ idx[c] \in 1 .. Len(Order)
    BY <1>7, VertexIsNode DEF AbortNode
  <2>2. idx' \in [Copies -> 1 .. Len(Order) + 1]
    BY <1>0, <1>7, <2>1 DEF AbortNode, NextVertex
  <2> QED
    BY <1>7, <2>1, <2>2, Zenon DEF AbortNode, Paint, NotCompleted
<1>8. CASE AbortFails(c)
  <2>1. used' \in [Faults -> Nat]
    BY <1>8, FaultCounts DEF AbortFails, Faults
  <2> QED
    BY <1>0, <1>8, <2>1, Coloring DEF AbortFails, EndPass, Colors
<1>9. CASE Planned(c)
  <2>1. dag' \in {"running", "done", "aborted"}
    BY <1>9 DEF Planned, logged
  <2>2. pc' \in [Copies -> {"none", "queued", "read", "plan"}]
    BY <1>9, Zenon DEF Planned
  <2>3. /\ color' \in [Copies -> [Nodes -> Colors]] /\ completed' \in [Copies -> BOOLEAN]
        /\ idx' \in [Copies -> 1 .. Len(Order) + 1]
    BY <1>0, <1>9, Coloring DEF Planned, EndPass, Colors
  <2> QED
    BY <1>9, <2>1, <2>2, <2>3 DEF Planned, Colors
<1>10. CASE Expired(c)
  <2>1. used' \in [Faults -> Nat]
    BY <1>10, FaultCounts DEF Expired, Faults
  <2> QED
    BY <1>10, <2>1 DEF Expired
<1>11. CASE ReadTransient(c)
  <2>1. used' \in [Faults -> Nat]
    BY <1>11, FaultCounts DEF ReadTransient, Faults
  <2>2. idx' \in [Copies -> 1 .. Len(Order) + 1]
    BY <1>0, <1>11, VertexIsNode DEF ReadTransient, NextVertex
  <2> QED
    BY <1>11, <2>1, <2>2, Zenon DEF ReadTransient
<1>12. CASE ReadFails(c)
  <2>1. used' \in [Faults -> Nat]
    BY <1>12, FaultCounts DEF ReadFails, Faults
  <2> QED
    BY <1>0, <1>12, <2>1, Coloring DEF ReadFails, EndPass, Colors
<1> QED
  BY <1>1, <1>2, <1>3, <1>4, <1>5, <1>6, <1>7, <1>8, <1>9, <1>10, <1>11, <1>12
     DEF DagStep, PlanStep, DagFault

(* A step of a node or of its CE, and a crash, keep the types.                   *)
LEMMA NodeTypes ==
    ASSUME TypeOK,
           \/ \E n \in Nodes : NodeStep(n) \/ Postpone(n) \/ Ends(n) \/ Resubmit(n)
           \/ Crash
    PROVE  TypeOK'
<1> USE DEF TypeOK
<1>0. Len(Order) \in Nat /\ MaxQueued \in Nat
  BY DagAssumption
<1>1. ASSUME NEW n \in Nodes, NodeStep(n) PROVE TypeOK'
  <2>1. nodeq[n] > 0 /\ nodeq' = [nodeq EXCEPT ![n] = @ - 1]
    BY <1>1 DEF NodeStep, Deliver, Unrecoverable
  <2>2. nodeq[n] - 1 \in 0 .. MaxQueued
    BY <1>0, <2>1
  <2>3. nodeq' \in [Nodes -> 0 .. MaxQueued]
    BY <2>1, <2>2
  <2> QED
    BY <1>1, <2>3, Zenon DEF NodeStep, Deliver, Unrecoverable
<1>2. ASSUME NEW n \in Nodes, Postpone(n) PROVE TypeOK'
  <2>1. used' \in [Faults -> Nat]
    BY <1>2, FaultCounts DEF Postpone, Faults
  <2> QED
    BY <1>2, <2>1 DEF Postpone
<1>3. ASSUME NEW n \in Nodes, Ends(n) PROVE TypeOK'
  BY <1>3 DEF Ends
<1>4. ASSUME NEW n \in Nodes, Resubmit(n) PROVE TypeOK'
  <2>1. used' \in [Faults -> Nat]
    BY <1>4, FaultCounts DEF Resubmit, Faults
  <2> QED
    BY <1>4, <2>1, Zenon DEF Resubmit
<1>5. CASE Crash
  <2>1. used' \in [Faults -> Nat]
    BY <1>5, FaultCounts DEF Crash, Faults
  <2> QED
    BY <1>0, <1>5, <2>1, Coloring DEF Crash, Colors
<1> QED
  BY <1>1, <1>2, <1>3, <1>4, <1>5

(* The LB states, the colours, the positions and the counters of the DAG        *)
(* processor keep their types.                                                   *)
THEOREM Typing == Spec => []TypeOK
<1>1. Init => TypeOK
  <2>1. Len(Order) \in Nat /\ MaxQueued \in Nat
    BY DagAssumption
  <2> QED
    BY <2>1, Coloring DEF Init, TypeOK, Colors
<1>2. TypeOK /\ [Next]_vars => TypeOK'
  <2> SUFFICES ASSUME TypeOK, [Next]_vars PROVE TypeOK'
    OBVIOUS
  <2>1. CASE UNCHANGED vars
    BY <2>1 DEF vars, TypeOK
  <2>2. CASE Next
    BY <2>1, <2>2, PassTypes, NodeTypes DEF Next, Over
  <2> QED
    BY <2>1, <2>2
<1> QED
  BY <1>1, <1>2, PTL DEF Spec
-----------------------------------------------------------------------------
(* What a pass has read of the LB is still true when it is acted upon.  The      *)
(* steps of a node move only nodes that are in the event queue or on a CE: those *)
(* are neither green nor white in a pass under way.                               *)
LEMMA NodeSound ==
    ASSUME TypeOK, TypeOK', Sound,
           NEW n \in Nodes, NodeStep(n) \/ Postpone(n) \/ Ends(n) \/ Resubmit(n)
    PROVE  Sound'
<1> USE DEF TypeOK, Sound
<1>0. UNCHANGED <<dag, pc, idx, color>>
  BY DEF NodeStep, Deliver, Unrecoverable, Postpone, Ends, Resubmit
<1>1. \E s \in States : lb' = [lb EXCEPT ![n] = s] /\ s # "submitted"
  BY DEF NodeStep, Deliver, Unrecoverable, Postpone, Ends, Resubmit, States
<1>2. \A m \in Nodes : m # n => lb'[m] = lb[m]
  BY <1>1
<1>3. lb'[n] # "submitted"
  BY <1>1
<1>4. /\ \A m \in Nodes : nodeq'[m] <= nodeq[m] /\ nodeq'[m] \in Nat /\ nodeq[m] \in Nat
      /\ \A m \in Nodes : m # n => nodeq'[m] = nodeq[m]
  <2>1. nodeq \in [Nodes -> Nat]
    BY DagAssumption
  <2>2. \/ nodeq' = nodeq
        \/ nodeq[n] > 0 /\ nodeq' = [nodeq EXCEPT ![n] = @ - 1]
    BY DEF NodeStep, Deliver, Unrecoverable, Postpone, Ends, Resubmit
  <2>3. CASE nodeq' = nodeq
    BY <2>1, <2>3
  <2>4. CASE nodeq[n] > 0 /\ nodeq' = [nodeq EXCEPT ![n] = @ - 1]
    <3>1. nodeq[n] \in Nat /\ nodeq'[n] = nodeq[n] - 1
      BY <2>1, <2>4
    <3>2. \A m \in Nodes : m # n => nodeq'[m] = nodeq[m]
      BY <2>1, <2>4
    <3> QED
      BY <2>1, <2>4, <3>1, <3>2
  <2> QED
    BY <2>2, <2>3, <2>4
<1>5. \/ nodeq[n] = 1 /\ lb[n] \in {"submitted", "waiting"}
      \/ lb[n] \in {"active", "failed"} /\ nodeq[n] = 0 /\ nodeq' = nodeq
  <2>1. \/ nodeq[n] > 0
        \/ lb[n] \in {"active", "failed"} /\ nodeq' = nodeq
    BY DEF NodeStep, Deliver, Unrecoverable, Postpone, Ends, Resubmit
  <2>2. nodeq[n] = 0 \/ nodeq[n] = 1
    BY <1>4 DEF Once
  <2> QED
    BY <2>1, <2>2 DEF Once
<1>6. lb[n] # "done" /\ dag # "done"
  BY <1>5 DEF AllDone
<1>7. Fresh' /\ OneCopy'
  BY <1>0 DEF Fresh, OneCopy
<1>8. GreenIsDone'
  BY <1>0, <1>2, <1>6 DEF GreenIsDone
<1>9. NoneQueued'
  <2> SUFFICES ASSUME NEW c \in Copies, NEW m \in Nodes, pc[c] = "read", lb'[m] = "submitted"
               PROVE  nodeq'[m] = 0
    BY <1>0 DEF NoneQueued
  <2> QED
    BY <1>2, <1>3, <1>4, Zenon DEF NoneQueued
<1>10. WhiteRead'
  <2> SUFFICES ASSUME NEW c \in Copies, NEW i \in 1 .. Len(Order),
                      pc[c] = "read", i < idx[c], color[c][Order[i]] = "white"
               PROVE  lb'[Order[i]] = "submitted"
    BY <1>0 DEF WhiteRead
  <2>1. lb[Order[i]] = "submitted" /\ Order[i] \in Nodes
    BY DagAssumption, SMTT(30) DEF WhiteRead
  <2>2. Order[i] # n
    BY <1>5, <2>1 DEF NoneQueued
  <2> QED
    BY <1>2, <2>1, <2>2
<1>11. WhitePlanned'
  <2> SUFFICES ASSUME NEW c \in Copies, NEW i \in 1 .. Len(Order),
                      pc[c] = "plan", i >= idx[c], color[c][Order[i]] = "white"
               PROVE  lb'[Order[i]] = "submitted" /\ nodeq'[Order[i]] = 0
    BY <1>0 DEF WhitePlanned
  <2>1. lb[Order[i]] = "submitted" /\ nodeq[Order[i]] = 0 /\ Order[i] \in Nodes
    BY DagAssumption, SMTT(30) DEF WhitePlanned
  <2>2. Order[i] # n
    BY <1>5, <2>1
  <2> QED
    BY <1>2, <1>4, <2>1, <2>2
<1>12. Once'
  <2>1. nodeq'[n] = 1 => lb'[n] \in {"submitted", "waiting"}
    <3>1. CASE NodeStep(n)
      <4>1. nodeq' = [nodeq EXCEPT ![n] = @ - 1] /\ nodeq[n] > 0
        BY <3>1 DEF NodeStep, Deliver, Unrecoverable
      <4>2. nodeq'[n] = nodeq[n] - 1
        BY <4>1
      <4> QED
        BY <1>4, <1>5, <4>1, <4>2
    <3>2. CASE Postpone(n)
      BY <3>2 DEF Postpone
    <3>3. CASE Ends(n) \/ Resubmit(n)
      BY <1>5, <3>3 DEF Ends, Resubmit
    <3> QED
      BY <3>1, <3>2, <3>3
  <2> SUFFICES ASSUME NEW m \in Nodes
               PROVE  nodeq'[m] <= 1 /\ (nodeq'[m] = 1 => lb'[m] \in {"submitted", "waiting"})
    BY DEF Once
  <2>2. nodeq'[m] <= 1
    BY <1>4 DEF Once
  <2>3. CASE m = n
    BY <2>1, <2>2, <2>3
  <2>4. CASE m # n
    BY <1>2, <1>4, <2>2, <2>4 DEF Once
  <2> QED
    BY <2>3, <2>4
<1>13. AllDone'
  BY <1>0, <1>6 DEF AllDone
<1> QED
  BY <1>7, <1>8, <1>9, <1>10, <1>11, <1>12, <1>13

(* After a crash the graph is read again and the events of the nodes are gone.   *)
LEMMA CrashSound ==
    ASSUME TypeOK, Sound, Crash
    PROVE  Sound'
<1>1. pc' = OneQueued /\ nodeq' = [n \in Nodes |-> 0] /\ idx' = [c \in Copies |-> 1]
      /\ color' = [c \in Copies |-> White] /\ UNCHANGED <<lb, dag>>
  BY DEF Crash
<1>2. \A c \in Copies : pc'[c] \in {"none", "queued"} /\ color'[c] = White /\ idx'[c] = 1
  BY <1>1, Coloring
<1>3. OneCopy'
  BY <1>1, Coloring DEF OneCopy
<1>4. Fresh' /\ NoneQueued' /\ WhiteRead' /\ WhitePlanned'
  BY <1>2 DEF Fresh, NoneQueued, WhiteRead, WhitePlanned
<1>5. GreenIsDone'
  BY <1>2, Coloring DEF GreenIsDone
<1>6. Once' /\ AllDone'
  BY <1>1 DEF Once, AllDone, Sound
<1> QED
  BY <1>3, <1>4, <1>5, <1>6 DEF Sound

(* A copy that begins, ends or is scheduled starts from an uncoloured graph.      *)
LEMMA TurnSound ==
    ASSUME TypeOK, Sound, Prompt, NEW c \in Copies,
           Begin(c) \/ Expired(c) \/ ReadFails(c) \/ AbortFails(c)
    PROVE  Sound'
<1> USE DEF TypeOK, Sound
<1>1. /\ \E v \in {"none", "read"} : pc' = [pc EXCEPT ![c] = v]
      /\ pc[c] # "none" /\ UNCHANGED <<lb, nodeq>>
  BY DEF Begin, Expired, ReadFails, AbortFails, At
<1>2. /\ \A d \in Copies : d # c => pc'[d] = pc[d] /\ color'[d] = color[d] /\ idx'[d] = idx[d]
      /\ color'[c] = White /\ idx'[c] = 1 /\ pc'[c] \in {"none", "read"}
  <2>1. CASE Begin(c) \/ Expired(c)
    BY <2>1 DEF Begin, Expired, Fresh
  <2>2. CASE ReadFails(c) \/ AbortFails(c)
    BY <2>2 DEF ReadFails, AbortFails, EndPass
  <2> QED
    BY <2>1, <2>2
<1>3. \A d \in Copies : d # c => pc[d] = "none"
  BY <1>1 DEF OneCopy
<1>4. OneCopy' /\ Fresh'
  <2>1. \A d \in Copies : pc'[d] # "none" => d = c
    BY <1>2, <1>3
  <2>2. OneCopy'
    BY <2>1, Zenon DEF OneCopy
  <2> QED
    BY <1>2, <1>3, <2>2 DEF Fresh
<1>5. GreenIsDone'
  <2> SUFFICES ASSUME NEW d \in Copies, NEW n \in Nodes, color'[d][n] = "green"
               PROVE  lb[n] = "done"
    BY <1>1 DEF GreenIsDone
  <2>1. d # c
    BY <1>2, Coloring
  <2> QED
    BY <1>2, <2>1 DEF GreenIsDone
<1>6. NoneQueued'
  <2>1. pc'[c] = "read" => \A n \in Nodes : lb[n] = "submitted" => nodeq[n] = 0
    BY <1>2 DEF Begin, Expired, ReadFails, AbortFails
  <2> QED
    BY <1>1, <1>2, <1>3, <2>1 DEF NoneQueued
<1>7. WhiteRead'
  <2>1. \A d \in Copies : pc'[d] = "read" => idx'[d] = 1
    BY <1>2, <1>3, SMTT(30)
  <2> QED
    BY <2>1 DEF WhiteRead
<1>8. WhitePlanned'
  <2>1. \A d \in Copies : pc'[d] # "plan"
    BY <1>2, <1>3
  <2> QED
    BY <2>1 DEF WhitePlanned
<1>9. Once'
  BY <1>1 DEF Once
<1>10. AllDone'
  BY <1>1 DEF AllDone, Begin, Expired, ReadFails, AbortFails
<1> QED
  BY <1>4, <1>5, <1>6, <1>7, <1>8, <1>9, <1>10

(* The end of a pass: the DAG is logged as done when every node is green.        *)
LEMMA PlannedSound ==
    ASSUME TypeOK, Sound, NEW c \in Copies, Planned(c)
    PROVE  Sound'
<1> USE DEF TypeOK, Sound
<1>1. /\ \E v \in {"none", "queued"} : pc' = [pc EXCEPT ![c] = v]
      /\ pc[c] = "plan" /\ UNCHANGED <<lb, nodeq>>
  BY DEF Planned
<1>2. /\ \A d \in Copies : d # c => pc'[d] = pc[d] /\ color'[d] = color[d] /\ idx'[d] = idx[d]
      /\ color'[c] = White /\ idx'[c] = 1 /\ pc'[c] \in {"none", "queued"}
  BY <1>1 DEF Planned, EndPass
<1>3. \A d \in Copies : d # c => pc[d] = "none"
  BY <1>1 DEF OneCopy
<1>4. OneCopy' /\ Fresh'
  <2>1. \A d \in Copies : pc'[d] # "none" => d = c
    BY <1>2, <1>3
  <2>2. OneCopy'
    BY <2>1, Zenon DEF OneCopy
  <2> QED
    BY <1>2, <1>3, <2>2 DEF Fresh
<1>5. GreenIsDone'
  <2> SUFFICES ASSUME NEW d \in Copies, NEW n \in Nodes, color'[d][n] = "green"
               PROVE  lb[n] = "done"
    BY <1>1 DEF GreenIsDone
  <2>1. d # c
    BY <1>2, Coloring
  <2> QED
    BY <1>2, <2>1 DEF GreenIsDone
<1>6. NoneQueued' /\ WhiteRead' /\ WhitePlanned'
  BY <1>2, <1>3, Zenon DEF NoneQueued, WhiteRead, WhitePlanned
<1>7. Once'
  BY <1>1 DEF Once
<1>8. AllDone'
  <2>1. dag' = "done" => dag = "done" \/ \A n \in Nodes : color[c][n] = "green"
    BY DEF Planned, logged
  <2> QED
    BY <1>1, <2>1 DEF AllDone, GreenIsDone
<1> QED
  BY <1>4, <1>5, <1>6, <1>7, <1>8

(* The first phase: a colour is what the LB says at that moment.                  *)
LEMMA ReadSound ==
    ASSUME TypeOK, Sound, NEW c \in Copies, ReadNode(c) \/ Assessed(c)
    PROVE  Sound'
<1> USE DEF TypeOK, Sound
<1>0. UNCHANGED <<lb, dag, nodeq>> /\ pc[c] = "read"
  BY DEF ReadNode, Assessed, At
<1>1. \A d \in Copies : d # c => pc[d] = "none"
  BY <1>0 DEF OneCopy
<1>2. Once' /\ AllDone'
  BY <1>0 DEF Once, AllDone
<1>3. CASE ReadNode(c)
  <2>1. Vertex(c) \in Nodes /\ idx[c] \in 1 .. Len(Order)
    BY <1>3, VertexIsNode DEF ReadNode
  <2>2. PICK col \in Colors : /\ color' = [color EXCEPT ![c][Vertex(c)] = col]
                              /\ col = "green" => lb[Vertex(c)] = "done"
                              /\ col = "white" => lb[Vertex(c)] = "submitted"
    BY <1>3, <2>1, ColorOf, Zenon DEF ReadNode, States
  <2>3. /\ \A d \in Copies, n \in Nodes : d # c \/ n # Vertex(c) => color'[d][n] = color[d][n]
        /\ color'[c][Vertex(c)] = col
    BY <2>1, <2>2
  <2>4. /\ pc' = pc /\ idx'[c] = idx[c] + 1
        /\ \A d \in Copies : d # c => idx'[d] = idx[d] /\ color'[d] = color[d]
    BY <1>3, <2>2 DEF ReadNode, NextVertex
  <2>5. OneCopy' /\ Fresh' /\ NoneQueued'
    BY <1>0, <2>4 DEF OneCopy, Fresh, NoneQueued
  <2>6. GreenIsDone'
    BY <1>0, <2>2, <2>3 DEF GreenIsDone
  <2>7. WhiteRead'
    <3>0. \A d \in Copies : pc'[d] = "read" => d = c
      BY <1>1, <2>4
    <3> SUFFICES ASSUME NEW i \in 1 .. Len(Order), i < idx[c] + 1, color'[c][Order[i]] = "white"
                 PROVE  lb'[Order[i]] = "submitted"
      BY <2>4, <3>0 DEF WhiteRead
    <3>1. CASE i = idx[c]
      BY <1>0, <2>2, <2>3, <3>1 DEF Vertex
    <3>2. CASE i < idx[c]
      <4>1. Order[i] # Vertex(c) /\ Order[i] \in Nodes
        BY <2>1, <3>2, DagAssumption DEF Vertex
      <4> QED
        BY <1>0, <2>3, <3>2, <4>1 DEF WhiteRead
    <3> QED
      BY <2>1, <3>1, <3>2
  <2>8. WhitePlanned'
    BY <1>0, <1>1, <2>4, Zenon DEF WhitePlanned
  <2> QED
    BY <1>2, <2>5, <2>6, <2>7, <2>8
<1>4. CASE Assessed(c)
  <2>1. /\ pc' = [pc EXCEPT ![c] = "plan"] /\ idx' = [idx EXCEPT ![c] = 1] /\ color' = color
        /\ idx[c] > Len(Order)
    BY <1>4 DEF Assessed
  <2>2. \A d \in Copies : d # c => pc'[d] = "none" /\ idx'[d] = idx[d]
    BY <1>1, <2>1
  <2>3. pc'[c] = "plan"
    BY <2>1
  <2>4. OneCopy' /\ Fresh' /\ NoneQueued' /\ WhiteRead'
    BY <1>1, <2>1, <2>2, <2>3 DEF OneCopy, Fresh, NoneQueued, WhiteRead
  <2>5. GreenIsDone'
    BY <1>0, <2>1 DEF GreenIsDone
  <2>6. WhitePlanned'
    <3> SUFFICES ASSUME NEW i \in 1 .. Len(Order), color[c][Order[i]] = "white"
                 PROVE  lb[Order[i]] = "submitted" /\ nodeq[Order[i]] = 0
      BY <1>0, <2>1, <2>2 DEF WhitePlanned
    <3>1. i < idx[c]
      BY <2>1, DagAssumption
    <3>2. lb[Order[i]] = "submitted" /\ Order[i] \in Nodes
      BY <1>0, <3>1, DagAssumption DEF WhiteRead
    <3> QED
      BY <1>0, <3>2 DEF NoneQueued
  <2> QED
    BY <1>2, <2>4, <2>5, <2>6
<1> QED
  BY <1>3, <1>4

(* The second phase: a vertex still ahead that is white has neither been queued  *)
(* nor moved, and a node that is queued or aborted is passed for good.            *)
LEMMA PlanSound ==
    ASSUME TypeOK, Sound, NEW c \in Copies,
           PassOver(c) \/ QueueNode(c) \/ QueueFails(c) \/ AbortNode(c)
    PROVE  Sound'
<1> USE DEF TypeOK, Sound
<1>1. At(c, "plan") /\ pc[c] = "plan" /\ NextVertex(c) /\ UNCHANGED <<dag, pc>>
  BY DEF PassOver, QueueNode, QueueFails, AbortNode, At
<1>2. Vertex(c) \in Nodes /\ idx[c] \in 1 .. Len(Order)
  BY <1>1, VertexIsNode
<1> DEFINE v == Vertex(c)
<1>3. idx'[c] = idx[c] + 1 /\ \A d \in Copies : d # c => idx'[d] = idx[d] /\ pc[d] = "none"
  BY <1>1 DEF NextVertex, OneCopy
<1>4. color[c][v] = "white" => lb[v] = "submitted" /\ nodeq[v] = 0
  BY <1>1, <1>2 DEF WhitePlanned, Vertex
<1>5. /\ \A d \in Copies : d # c => color'[d] = color[d]
      /\ \A m \in Nodes : m # v => color'[c][m] = color[c][m]
      /\ color'[c][v] = "green" => color[c][v] = "green"
  <2>1. CASE color' = color
    BY <2>1
  <2>2. ASSUME NEW col \in {"gray", "white", "red"}, color' = [color EXCEPT ![c][v] = col]
        PROVE  <1>5!:
    BY <1>2, <2>2
  <2>3. color' = color \/ \E col \in {"gray", "white", "red"} : color' = [color EXCEPT ![c][v] = col]
    BY DEF PassOver, QueueNode, QueueFails, AbortNode, Paint
  <2> HIDE DEF v
  <2> QED
    BY <2>1, <2>2, <2>3
<1>6. \/ lb' = lb /\ nodeq' = nodeq
      \/ color[c][v] = "white" /\ lb' = lb /\ nodeq' = [nodeq EXCEPT ![v] = @ + 1]
      \/ color[c][v] = "white" /\ lb' = [lb EXCEPT ![v] = "aborted"] /\ nodeq' = nodeq
  BY DEF PassOver, QueueNode, queue_new_submit_request, QueueFails, AbortNode, IsWhite
<1>7. \A m \in Nodes : m # v => lb'[m] = lb[m] /\ nodeq'[m] = nodeq[m]
  BY <1>6
<1> HIDE DEF v
<1>8. \/ lb'[v] = lb[v] /\ nodeq'[v] = nodeq[v]
      \/ lb'[v] \in {"submitted", "aborted"} /\ lb[v] = "submitted" /\ dag # "done" /\ nodeq[v] = 0
         /\ nodeq'[v] \in {0, 1} /\ (nodeq'[v] = 1 => lb'[v] = "submitted")
  BY <1>2, <1>4, <1>6 DEF AllDone, v
<1>9. OneCopy' /\ Fresh' /\ NoneQueued' /\ WhiteRead'
  BY <1>1, <1>3, <1>5 DEF OneCopy, Fresh, NoneQueued, WhiteRead
<1>10. GreenIsDone'
  <2> SUFFICES ASSUME NEW d \in Copies, NEW m \in Nodes, color'[d][m] = "green"
               PROVE  lb'[m] = "done"
    BY DEF GreenIsDone
  <2>1. color[d][m] = "green"
    BY <1>5, Zenon
  <2> QED
    BY <1>7, <1>8, <2>1 DEF GreenIsDone
<1>11. WhitePlanned'
  <2>0. \A d \in Copies : pc'[d] = "plan" => d = c
    BY <1>1, <1>3
  <2> SUFFICES ASSUME NEW i \in 1 .. Len(Order), i >= idx[c] + 1, color'[c][Order[i]] = "white"
               PROVE  lb'[Order[i]] = "submitted" /\ nodeq'[Order[i]] = 0
    BY <1>3, <2>0 DEF WhitePlanned
  <2>1. Order[i] # v /\ Order[i] \in Nodes
    BY <1>2, DagAssumption, SMTT(30) DEF v, Vertex
  <2>2. color[c][Order[i]] = "white" /\ i >= idx[c]
    BY <1>2, <1>5, <2>1
  <2> QED
    BY <1>1, <1>7, <2>1, <2>2 DEF WhitePlanned
<1>12. Once'
  BY <1>7, <1>8 DEF Once
<1>13. AllDone'
  BY <1>1, <1>7, <1>8 DEF AllDone
<1> QED
  BY <1>9, <1>10, <1>11, <1>12, <1>13

(* The induction: with no transient error of the LB so far, what the passes know *)
(* stays true.                                                                    *)
LEMMA Induction ==
    ASSUME Prompt
    PROVE  Spec => []IInv
<1>1. Init => IInv
  <2> SUFFICES ASSUME Init PROVE IInv
    OBVIOUS
  <2>1. TypeOK
    BY Coloring, DagAssumption DEF Init, TypeOK, Colors
  <2>2. \A c \in Copies : pc[c] \in {"none", "queued"} /\ color[c] = White /\ idx[c] = 1
    BY Coloring DEF Init
  <2>3. OneCopy /\ GreenIsDone
    BY <2>2, Coloring DEF Init, OneCopy, GreenIsDone
  <2>4. Fresh /\ NoneQueued /\ WhiteRead /\ WhitePlanned
    BY <2>2 DEF Fresh, NoneQueued, WhiteRead, WhitePlanned
  <2>5. Once /\ AllDone
    BY DEF Init, Once, AllDone
  <2> QED
    BY <2>1, <2>3, <2>4, <2>5 DEF IInv, Sound
<1>2. IInv /\ TypeOK' /\ [Next]_vars => IInv'
  <2> SUFFICES ASSUME TypeOK, NodesRead => Sound, TypeOK', [Next]_vars, NodesRead'
               PROVE  Sound'
    BY DEF IInv
  <2>1. CASE UNCHANGED vars
    BY <2>1 DEF vars, NodesRead, Sound, OneCopy, Fresh, GreenIsDone, NoneQueued, WhiteRead,
                WhitePlanned, Once, AllDone
  <2>2. ASSUME NEW c \in Copies, DagStep(c) PROVE Sound'
    <3>1. NodesRead
      BY <2>2 DEF DagStep, PlanStep, Begin, ReadNode, Assessed, PassOver, QueueNode, AbortNode,
                  Planned, NodesRead
    <3> QED
      BY <2>2, <3>1, TurnSound, ReadSound, PlanSound, PlannedSound DEF DagStep, PlanStep
  <2>3. ASSUME NEW c \in Copies, DagFault(c) PROVE Sound'
    <3>1. NodesRead /\ ~ ReadTransient(c)
      BY <2>3, FaultCounts DEF DagFault, Expired, ReadTransient, ReadFails, QueueFails, AbortFails,
                               Faults
    <3> QED
      BY <2>3, <3>1, TurnSound, PlanSound DEF DagFault
  <2>4. ASSUME NEW n \in Nodes, NodeStep(n) \/ Postpone(n) \/ Ends(n) \/ Resubmit(n)
        PROVE  Sound'
    <3>1. used' = used \/ Fault("postpone") \/ Fault("retry")
      BY <2>4 DEF NodeStep, Deliver, Unrecoverable, Postpone, Ends, Resubmit
    <3>2. NodesRead
      BY <3>1, FaultCounts DEF Faults, NodesRead
    <3> QED
      BY <2>4, <3>2, NodeSound
  <2>5. CASE Crash
    BY <2>5, FaultCounts, CrashSound DEF Crash, Faults
  <2> QED
    BY <2>1, <2>2, <2>3, <2>4, <2>5 DEF Next, Over
<1> QED
  BY <1>1, <1>2, Typing, PTL DEF Spec
-----------------------------------------------------------------------------
(* log_done_ok is called for a DAG only when every node of it is done, whatever  *)
(* the graph and however the passes interleave with the nodes.                    *)
THEOREM DoneIsEarned ==
    ASSUME Prompt
    PROVE  Spec => []DoneMeansAllDone
<1>1. IInv => DoneMeansAllDone
  BY DEF IInv, Sound, AllDone, DoneMeansAllDone
<1> QED
  BY <1>1, Induction, PTL

(* No node is in the event queue twice, and none that was delivered is queued    *)
(* again by a later pass or after a crash.                                        *)
THEOREM EachNodeIsQueuedOnce ==
    ASSUME Prompt
    PROVE  Spec => []QueuedOnce
<1>1. IInv => QueuedOnce
  BY DEF IInv, Sound, Once, QueuedOnce
<1> QED
  BY <1>1, Induction, PTL

(* queue_new_submit_request is called for a node only when all its parents are   *)
(* done in the LB at that moment, not only in the colours of the pass.            *)
THEOREM NoNodeBeforeItsParents ==
    ASSUME Prompt
    PROVE  Spec => ParentsFirst
<1>1. IInv /\ [Next]_vars => [NodesRead' => \A n \in Nodes : nodeq'[n] > nodeq[n] =>
                                \A p \in Parents[n] : lb[p] = "done"]_vars
  <2> SUFFICES ASSUME IInv, Next, NodesRead', NEW n \in Nodes, nodeq'[n] > nodeq[n],
                      NEW p \in Parents[n]
               PROVE  lb[p] = "done"
    BY DEF vars
  <2>0. TypeOK /\ nodeq[n] \in Nat /\ p \in Nodes
    BY DagAssumption DEF IInv, TypeOK
  <2>1. PICK c \in Copies : QueueNode(c)
    <3>1. ASSUME nodeq' = nodeq PROVE FALSE
      BY <2>0, <3>1
    <3>2. ASSUME NEW m \in Nodes, nodeq' = [nodeq EXCEPT ![m] = @ - 1] PROVE FALSE
      BY <2>0, <3>2 DEF TypeOK
    <3>3. ASSUME nodeq' = [m \in Nodes |-> 0] PROVE FALSE
      BY <2>0, <3>3
    <3>4. ASSUME NEW c \in Copies, DagStep(c) \/ DagFault(c), ~ QueueNode(c) PROVE FALSE
      BY <3>1, <3>4 DEF DagStep, PlanStep, Begin, ReadNode, Assessed, PassOver, AbortNode, Planned,
         DagFault, Expired, ReadTransient, ReadFails, QueueFails, AbortFails
    <3>5. ASSUME NEW m \in Nodes, NodeStep(m) \/ Postpone(m) \/ Ends(m) \/ Resubmit(m) PROVE FALSE
      BY <3>1, <3>2, <3>5, SMTT(30) DEF NodeStep, Deliver, Unrecoverable, Postpone, Ends, Resubmit
    <3> QED
      BY <3>1, <3>3, <3>4, <3>5 DEF Next, Crash, Over, vars
  <2>2. NodesRead /\ Vertex(c) \in Nodes
    BY <2>0, <2>1, VertexIsNode, SMTT(30) DEF QueueNode, NodesRead
  <2>3. n = Vertex(c)
    BY <2>0, <2>1, <2>2, SMTT(30) DEF QueueNode, queue_new_submit_request, TypeOK
  <2>4. color[c][p] = "green"
    BY <2>1, <2>3 DEF QueueNode, MayRun, parents_are_green
  <2> QED
    BY <2>0, <2>2, <2>4 DEF IInv, Sound, GreenIsDone
<1> QED
  BY <1>1, Induction, PTL DEF Spec, ParentsFirst
=============================================================================
