------------------------------ MODULE IsmProofs ------------------------------
(* Proofs about Ism, for any set of matching threads and any number of       *)
(* failed purchases.                                                         *)
EXTENDS Ism, FiniteSetTheorems, TLAPS

(* dark_side() is the side that is not active, and the one switched to.      *)
LEMMA DarkSide ==
    ASSUME s_active_side \in {-1, 0, 1}
    PROVE  /\ dark_side \in Sides /\ switched = dark_side
           /\ dark_side # s_active_side
           /\ s_active_side = -1 => dark_side = 0
<1>1. (0 + 1) % 2 = 1 /\ (1 + 1) % 2 = 0
  OBVIOUS
<1>. QED
  BY <1>1 DEF dark_side, switched, Sides

(* The information super market keeps its types.                             *)
THEOREM Typing == Spec => []TypeOK
<1> USE IsmAssumption
<1>1. Init => TypeOK
  BY DEF Init, TypeOK, Sides
<1>2. TypeOK /\ [Next]_vars => TypeOK'
  <2> SUFFICES ASSUME TypeOK, [Next]_vars PROVE TypeOK'
    OBVIOUS
  <2>0. dark_side \in Sides /\ switched \in Sides
    BY DarkSide DEF TypeOK
  <2> USE DEF TypeOK, Sides
  <2>1. ASSUME NEW m \in Matchers, match_on_active_side(m) PROVE TypeOK'
    BY <2>1 DEF match_on_active_side
  <2>2. ASSUME NEW m \in Matchers, MatchOnNoSide(m) PROVE TypeOK'
    BY <2>2, Zenon DEF MatchOnNoSide
  <2>3. ASSUME NEW m \in Matchers, EndMatch(m) PROVE TypeOK'
    BY <2>3 DEF EndMatch
  <2>4. CASE Check \/ NextCycle
    BY <2>4 DEF Check, NextCycle
  <2>5. CASE Clear \/ PopulateFirst \/ PopulateSecond
    BY <2>0, <2>5 DEF Clear, PopulateFirst, PopulateSecond
  <2>6. CASE switch_active_side
    BY <2>0, <2>6, Zenon DEF switch_active_side
  <2>7. CASE PurchaseFails
    <3>1. failures' \in Nat
      BY <2>7 DEF PurchaseFails
    <3>. QED
      BY <2>7, <3>1, Zenon DEF PurchaseFails
  <2>8. CASE Update
    BY <2>8 DEF Update
  <2>9. CASE UNCHANGED vars
    BY <2>9 DEF vars
  <2>. QED
    BY <2>1, <2>2, <2>3, <2>4, <2>5, <2>6, <2>7, <2>8, <2>9 DEF Next, Purchase
<1>3. QED
  BY <1>1, <1>2, PTL DEF Spec

(* The dark side is complete when the purchaser is about to switch: the      *)
(* updater only writes to the active one.                                    *)
ReadyToSwitch == purchaser = "switch" => ism[dark_side] = "complete"
Whole == ActiveSideComplete /\ ReadyToSwitch

(* A match never begins on a failed or an unfinished purchase, however many  *)
(* purchases fail and wherever the updater and the matches interleave.       *)
THEOREM PurchaseIsWhole == Spec => []ActiveSideComplete
<1> USE IsmAssumption
<1>1. Init => Whole
  BY DEF Init, Whole, ActiveSideComplete, ReadyToSwitch
<1>2. TypeOK /\ TypeOK' /\ Whole /\ [Next]_vars => Whole'
  <2> SUFFICES ASSUME TypeOK, TypeOK', Whole, [Next]_vars PROVE Whole'
    OBVIOUS
  <2>0. /\ dark_side \in Sides /\ switched = dark_side /\ dark_side # s_active_side
        /\ s_active_side = -1 => dark_side = 0
    BY DarkSide DEF TypeOK
  <2>1. s_active_side' = s_active_side => dark_side' = dark_side
    BY DEF dark_side
  <2> USE DEF TypeOK, Sides, Whole, ActiveSideComplete, ReadyToSwitch
  <2>2. ASSUME NEW m \in Matchers, match_on_active_side(m) \/ EndMatch(m) PROVE Whole'
    BY <2>1, <2>2 DEF match_on_active_side, EndMatch
  <2>3. ASSUME NEW m \in Matchers, MatchOnNoSide(m) PROVE Whole'
    BY <2>1, <2>3 DEF MatchOnNoSide
  <2>4. CASE Check \/ NextCycle \/ PurchaseFails
    BY <2>1, <2>4 DEF Check, NextCycle, PurchaseFails
  <2>5. CASE Clear \/ PopulateFirst
    BY <2>0, <2>1, <2>5 DEF Clear, PopulateFirst
  <2>6. CASE PopulateSecond
    BY <2>0, <2>1, <2>6 DEF PopulateSecond
  <2>7. CASE switch_active_side
    BY <2>0, <2>7 DEF switch_active_side
  <2>8. CASE Update
    BY <2>0, <2>1, <2>8 DEF Update
  <2>9. CASE UNCHANGED vars
    BY <2>1, <2>9 DEF vars
  <2>. QED
    BY <2>2, <2>3, <2>4, <2>5, <2>6, <2>7, <2>8, <2>9 DEF Next, Purchase
<1>3. Whole => ActiveSideComplete
  BY DEF Whole
<1>4. QED
  BY <1>1, <1>2, <1>3, Typing, PTL DEF Spec

(* A count covers finitely many matches, so that it is zero only when it     *)
(* covers none.                                                              *)
Countable == \A s \in Sides : IsFiniteSet(s_matching_threads[s])
Undisturbed == Countable /\ CountedMatchUndisturbed

(* For any number of matches at once, the purchaser never writes a side that *)
(* a match covered by the side's count is reading: those matches are waited  *)
(* for, and the new ones begin on the other side.                            *)
THEOREM CountedMatchesAreSafe == Spec => []CountedMatchUndisturbed
<1>1. Init => Undisturbed
  BY FS_EmptySet DEF Init, Undisturbed, Countable, CountedMatchUndisturbed, Writing
<1>2. TypeOK /\ Undisturbed /\ [Next]_vars => Undisturbed'
  <2> SUFFICES ASSUME TypeOK, Undisturbed, [Next]_vars PROVE Undisturbed'
    OBVIOUS
  <2>0. dark_side \in Sides /\ dark_side # s_active_side
    BY DarkSide DEF TypeOK
  <2>1. s_active_side' = s_active_side => dark_side' = dark_side
    BY DEF dark_side
  <2> USE DEF Undisturbed, Countable, CountedMatchUndisturbed, Writing
  <2>2. ASSUME NEW m \in Matchers, match_on_active_side(m) PROVE Undisturbed'
    <3>1. IsFiniteSet({m})
      BY FS_Singleton, Zenon
    <3>. QED
      BY <2>0, <2>1, <2>2, <3>1 DEF match_on_active_side, TypeOK, Sides
  <2>3. ASSUME NEW m \in Matchers, MatchOnNoSide(m) PROVE Undisturbed'
    <3>1. IsFiniteSet({})
      BY FS_EmptySet
    <3>. QED
      BY <2>1, <2>3, <3>1 DEF MatchOnNoSide
  <2>4. ASSUME NEW m \in Matchers, EndMatch(m) PROVE Undisturbed'
    <3>1. \A s \in Sides : IsFiniteSet(s_matching_threads[s] \ {m})
      BY FS_Difference, Zenon
    <3>. QED
      BY <2>0, <2>1, <2>4, <3>1 DEF EndMatch
  <2>5. CASE Check
    <3>1. /\ Cardinality(s_matching_threads[dark_side]) \in Nat
          /\ ~ (Cardinality(s_matching_threads[dark_side]) > 0)
      BY <2>0, <2>5, FS_CardinalityType DEF Check, matching_threads
    <3>2. Cardinality(s_matching_threads[dark_side]) = 0
      BY <3>1
    <3>3. s_matching_threads[dark_side] = {}
      BY <2>0, <3>2, FS_EmptySet
    <3>. QED
      BY <2>1, <2>5, <3>3 DEF Check
  <2>6. CASE Clear \/ PopulateFirst \/ PopulateSecond \/ NextCycle \/ PurchaseFails \/ Update
    BY <2>1, <2>6 DEF Clear, PopulateFirst, PopulateSecond, NextCycle, PurchaseFails, Update
  <2>7. CASE switch_active_side
    BY <2>7 DEF switch_active_side
  <2>8. CASE UNCHANGED vars
    BY <2>1, <2>8 DEF vars
  <2>. QED
    BY <2>2, <2>3, <2>4, <2>5, <2>6, <2>7, <2>8 DEF Next, Purchase
<1>3. Undisturbed => CountedMatchUndisturbed
  BY DEF Undisturbed
<1>4. QED
  BY <1>1, <1>2, <1>3, Typing, PTL DEF Spec

(* A match that is not early is counted on its side.                         *)
Counted ==
    \A m \in Matchers : on[m] # -1 /\ m \notin early => m \in s_matching_threads[on[m]]

(* With a single matching thread every match is counted, and the purchaser   *)
(* never writes a side that is being read.                                   *)
THEOREM OneMatcherIsSafe ==
    ASSUME \A m, n \in Matchers : m = n
    PROVE  Spec => []NoPurchaseUnderMatch
<1>1. Init => Counted
  BY DEF Init, Counted
<1>2. TypeOK /\ Counted /\ [Next]_vars => Counted'
  <2> SUFFICES ASSUME TypeOK, Counted, [Next]_vars PROVE Counted'
    OBVIOUS
  <2> USE DEF TypeOK, Sides, Counted
  <2>1. ASSUME NEW m \in Matchers, match_on_active_side(m) PROVE Counted'
    BY <2>1 DEF match_on_active_side
  <2>2. ASSUME NEW m \in Matchers, MatchOnNoSide(m) PROVE Counted'
    BY <2>2 DEF MatchOnNoSide
  <2>3. ASSUME NEW m \in Matchers, EndMatch(m) PROVE Counted'
    BY <2>3 DEF EndMatch
  <2>4. CASE Purchase \/ PurchaseFails \/ Update
    BY <2>4 DEF Purchase, Check, Clear, PopulateFirst, PopulateSecond, switch_active_side,
                NextCycle, PurchaseFails, Update
  <2>5. CASE UNCHANGED vars
    BY <2>5 DEF vars
  <2>. QED
    BY <2>1, <2>2, <2>3, <2>4, <2>5 DEF Next
<1>3. TypeOK /\ Counted /\ CountedMatchUndisturbed => NoPurchaseUnderMatch
  BY DarkSide DEF TypeOK, Counted, CountedMatchUndisturbed, NoPurchaseUnderMatch, Sides
<1>4. QED
  BY <1>1, <1>2, <1>3, Typing, CountedMatchesAreSafe, PTL DEF Spec
=============================================================================
