--------------------------------- MODULE Ism ---------------------------------
(***************************************************************************)
(* The Information Super Market of the Workload Manager (core/src/ism): two *)
(* copies of the resource information.  Match-making reads the active side  *)
(* while the purchaser refills the dark side and then switches.  A reference *)
(* count per side is meant to keep the purchaser off a side that is still   *)
(* being read.                                                              *)
(*                                                                          *)
(* The count is that of a shared_ptr holding a null pointer.  `!ptr' is true *)
(* for it, so match_on_active_side installs a new count at every call and   *)
(* the matches that hold the previous one are no longer counted.            *)
(*                                                                          *)
(* The entries of a side are abstracted to the state of the whole side:     *)
(* empty, partial (being filled, or left so by a failed purchase), complete, *)
(* void (expired by the updater).                                           *)
(***************************************************************************)
EXTENDS Integers, FiniteSets

CONSTANTS
    Matchers,       \* threads that match
    MaxFailures     \* bound on failed purchases

ASSUME IsmAssumption == MaxFailures \in Nat

Sides == {0, 1}

VARIABLES
    s_active_side,          \* -1 before the first successful purchase
    s_matching_threads,     \* per side: the matches holding the current count
    ism,                    \* per side: the state of its entries
    on,                     \* per matcher: the side it reads, or -1
    early,                  \* the matches begun before the first purchase
    purchaser,              \* where the purchaser is
    first,                  \* the synchronous purchase of the start-up goes on
    failures

vars == <<s_active_side, s_matching_threads, ism, on, early, purchaser, first, failures>>

Init ==
    /\ s_active_side = -1
    /\ s_matching_threads = [s \in Sides |-> {}]
    /\ ism = [s \in Sides |-> "empty"]
    /\ on = [m \in Matchers |-> -1]
    /\ early = {}
    /\ purchaser = "check" /\ first = TRUE
    /\ failures = 0
-----------------------------------------------------------------------------
dark_side == IF s_active_side = -1 THEN 0 ELSE (s_active_side + 1) % 2
\* switch_active_side(): 0 the first time, then the other side
switched == IF s_active_side = -1 THEN 0 ELSE (s_active_side + 1) % 2

\* matching_threads(side): use_count() - 1
matching_threads(s) == Cardinality(s_matching_threads[s])

\* match_on_active_side(): the new count has this match only
match_on_active_side(m) ==
    /\ ~ first /\ on[m] = -1 /\ s_active_side # -1
    /\ s_matching_threads' = [s_matching_threads EXCEPT ![s_active_side] = {m}]
    /\ on' = [on EXCEPT ![m] = s_active_side]
    /\ UNCHANGED <<s_active_side, ism, early, purchaser, first, failures>>

\* With s_active_side = -1 the call writes before the array: harmless, or the
\* end of the daemon, which starts again.  get_ism(i, -1) is side 1, uncounted.
MatchOnNoSide(m) ==
    /\ ~ first /\ on[m] = -1 /\ s_active_side = -1
    /\ \/ /\ on' = [on EXCEPT ![m] = 1]
          /\ early' = early \cup {m}
          /\ UNCHANGED <<s_active_side, s_matching_threads, ism, purchaser, first, failures>>
       \/ /\ s_active_side' = -1 /\ on' = [n \in Matchers |-> -1] /\ early' = {}
          /\ s_matching_threads' = [s \in Sides |-> {}]
          /\ ism' = [s \in Sides |-> "empty"]
          /\ purchaser' = "check" /\ first' = TRUE /\ failures' = failures

\* the pair returned by match_on_active_side goes out of scope
EndMatch(m) ==
    /\ on[m] # -1
    /\ s_matching_threads' = [s \in Sides |-> s_matching_threads[s] \ {m}]
    /\ on' = [on EXCEPT ![m] = -1]
    /\ early' = early \ {m}
    /\ UNCHANGED <<s_active_side, ism, purchaser, first, failures>>
-----------------------------------------------------------------------------
(* ism_ii_purchaser::operator() *)

Check_skipped ==
    /\ purchaser = "check"
    /\ purchaser' = "clear"
    /\ UNCHANGED <<s_active_side, s_matching_threads, ism, on, early, first, failures>>
Check_of_both_sides ==
    /\ purchaser = "check" /\ ~ (matching_threads(0) + matching_threads(1) > 0)
    /\ purchaser' = "clear"
    /\ UNCHANGED <<s_active_side, s_matching_threads, ism, on, early, first, failures>>
\* while (matching_threads(dark_side()) > 0) sleep(1)
Check ==
    /\ purchaser = "check" /\ ~ (matching_threads(dark_side) > 0)
    /\ purchaser' = "clear"
    /\ UNCHANGED <<s_active_side, s_matching_threads, ism, on, early, first, failures>>

Clear ==
    /\ purchaser = "clear"
    /\ ism' = [ism EXCEPT ![dark_side] = "empty"]
    /\ purchaser' = "fetch"
    /\ UNCHANGED <<s_active_side, s_matching_threads, on, early, first, failures>>

\* fetch and populate_ism, for GLUE 1.3 and for GLUE 2.0
PopulateFirst ==
    /\ purchaser = "fetch"
    /\ ism' = [ism EXCEPT ![dark_side] = "partial"]
    /\ purchaser' = "populate"
    /\ UNCHANGED <<s_active_side, s_matching_threads, on, early, first, failures>>

PopulateSecond ==
    /\ purchaser = "populate"
    /\ ism' = [ism EXCEPT ![dark_side] = "complete"]
    /\ purchaser' = "switch"
    /\ UNCHANGED <<s_active_side, s_matching_threads, on, early, first, failures>>

PurchaseFails_and_switches ==
    /\ purchaser \in {"fetch", "populate"} /\ failures < MaxFailures
    /\ failures' = failures + 1
    /\ purchaser' = "switch"
    /\ UNCHANGED <<s_active_side, s_matching_threads, ism, on, early, first>>
\* LDAPException or any other: what was filled stays, the sides do not switch
PurchaseFails ==
    /\ purchaser \in {"fetch", "populate"} /\ failures < MaxFailures
    /\ failures' = failures + 1
    /\ purchaser' = "sleep"
    /\ first' = FALSE
    /\ UNCHANGED <<s_active_side, s_matching_threads, ism, on, early>>

switch_active_side ==
    /\ purchaser = "switch"
    /\ s_active_side' = switched
    /\ purchaser' = "sleep"
    /\ first' = FALSE
    /\ UNCHANGED <<s_matching_threads, ism, on, early, failures>>

\* timed_wait for the purchasing interval, or the next event of the loop
NextCycle ==
    /\ purchaser = "sleep"
    /\ purchaser' = "check"
    /\ UNCHANGED <<s_active_side, s_matching_threads, ism, on, early, first, failures>>

\* call_update_ism_entries: expired entries of the active side become void and
\* the purchaser is woken if it sleeps
Update ==
    LET s == IF s_active_side = 0 THEN 0 ELSE 1
    IN  /\ ~ first /\ ism[s] = "complete"
        /\ ism' = [ism EXCEPT ![s] = "void"]
        /\ purchaser' = IF purchaser = "sleep" THEN "check" ELSE purchaser
        /\ UNCHANGED <<s_active_side, s_matching_threads, on, early, first, failures>>

Purchase == Check \/ Clear \/ PopulateFirst \/ PopulateSecond \/ switch_active_side \/ NextCycle

Next ==
    \/ \E m \in Matchers : match_on_active_side(m) \/ MatchOnNoSide(m) \/ EndMatch(m)
    \/ Purchase
    \/ PurchaseFails
    \/ Update

Spec == Init /\ [][Next]_vars

(* The purchaser's thread runs and every match ends: it is a finite loop over *)
(* the entries.                                                                *)
Fairness == WF_vars(Purchase) /\ \A m \in Matchers : WF_vars(EndMatch(m))
FairSpec == Spec /\ Fairness
-----------------------------------------------------------------------------
(* Properties *)

\* Type invariant of the two sides, the counts and the purchaser.
TypeOK ==
    /\ s_active_side \in {-1, 0, 1}
    /\ s_matching_threads \in [Sides -> SUBSET Matchers]
    /\ ism \in [Sides -> {"empty", "partial", "complete", "void"}]
    /\ on \in [Matchers -> {-1, 0, 1}]
    /\ early \in SUBSET Matchers
    /\ purchaser \in {"check", "clear", "fetch", "populate", "switch", "sleep"}
    /\ first \in BOOLEAN /\ failures \in Nat

Writing == purchaser \in {"clear", "fetch", "populate"}

(* "do not populate until the existing ism has threads still matching against *)
(* it": the purchaser never clears or fills a side that a match is reading.    *)
NoPurchaseUnderMatch ==
    Writing => \A m \in Matchers \ early : on[m] # dark_side

(* What the count does give: while the purchaser clears or fills a side, no    *)
(* match that the side's current count covers is reading it, although matches  *)
(* begin and the sides switch between its test of the count and its writes.    *)
CountedMatchUndisturbed == Writing => s_matching_threads[dark_side] = {}

(* A match begins on information that one purchase has brought completely: a  *)
(* failed or unfinished purchase is never made active.                         *)
ActiveSideComplete ==
    s_active_side # -1 => ism[s_active_side] \in {"complete", "void"}

(* The purchaser is never kept waiting for ever by matches: new ones start on *)
(* the active side, so the dark side drains.                                   *)
PurchaserNotStarved == purchaser = "check" ~> purchaser = "clear"
=============================================================================
