------------------------------ MODULE MCEvents ------------------------------
(* A small instance of Events: the dispatcher, which recurs and schedules a  *)
(* submit request, and the submit request, which may postpone itself.        *)
EXTENDS Events

CONSTANTS disp, submit

MCTasks == {disp, submit}
MCPriority == [e \in Tasks |-> CASE e = disp -> 20 [] e = submit -> 60]
\* event_processor.schedule(dispatcher): default priority 0
MCStartTasks == << <<disp, 0>> >>
MCSpawns == [e \in Tasks |-> IF e = disp THEN Tasks \ {disp} ELSE {}]
MCRecurring == {disp, submit}
=============================================================================
