-------------------------------- MODULE MCDag --------------------------------
(* Small instances of Dag: two nodes in a chain, and one that needs both.       *)
EXTENDS Dag

\* c is listed before its parents a and b, as a graph may be
MCOrder == <<"c", "a", "b">>
MCParents == [a |-> {}, b |-> {"a"}, c |-> {"a", "b"}]
PairOrder == <<"a", "b">>
PairParents == [a |-> {}, b |-> {"a"}]

Never == [transient |-> 0, query |-> 0, context |-> 0, expiry |-> 0, postpone |-> 0,
          retry |-> 0, crash |-> 0]
Harsh == [Never EXCEPT !.context = 1, !.expiry = 1, !.postpone = 1, !.retry = 1,
                       !.crash = 1, !.query = 1]
Transient == [Never EXCEPT !.transient = 1]
AllBounds == {Harsh, Transient}
OneCrash == {[Never EXCEPT !.postpone = 1, !.crash = 1]}
=============================================================================
