---------------------------- MODULE RequestQueue ----------------------------
(***************************************************************************)
(* What a directory queue promises its users: a request that was accepted  *)
(* stays with the queue until it has been served, however often the        *)
(* receiver crashes.  A crash, or a failure while a request is handed over, *)
(* parks it; a restart makes a parked request pending again, so that it may *)
(* be served more than once but never forgotten.                            *)
(***************************************************************************)
CONSTANT Requests

VARIABLE state      \* state[r]: where request r is

Init == state = [r \in Requests |-> "unsent"]

Move(r, from, to) == state[r] = from /\ state' = [state EXCEPT ![r] = to]

Send(r) == Move(r, "unsent", "pending")
Take(r) == Move(r, "pending", "taken")
Finish(r) == Move(r, "taken", "done")
Park(S) ==
    /\ S # {} /\ \A r \in S : state[r] = "taken"
    /\ state' = [r \in Requests |-> IF r \in S THEN "parked" ELSE state[r]]
Recover(r) == Move(r, "parked", "pending")

Next ==
    \/ \E r \in Requests : Send(r) \/ Take(r) \/ Finish(r) \/ Recover(r)
    \/ \E S \in SUBSET Requests : Park(S)

Spec == Init /\ [][Next]_state
=============================================================================
