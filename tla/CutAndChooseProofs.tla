------------------------- MODULE CutAndChooseProofs -------------------------
(***************************************************************************)
(* Proofs about cut_and_choose for every T, R, vector of indices and int   *)
(* behind the vector.                                                      *)
(***************************************************************************)
EXTENDS CutAndChoose, FiniteSetTheorems, TLAPS

-----------------------------------------------------------------------------
(* The inductive invariant, in parts.                                      *)

\* Nothing is opened before the choice.
Before ==
  pc \in {"exec", "choose"} => chosen_i = <<>> /\ opened = {} /\ ix = 0

Increasing(s) == \A k, l \in 1..R : k < l => s[k] < s[l]

\* The loop works on a checked vector.
Choice ==
  pc \in {"open", "returned"} => chosen_i \in [1..R -> Instances] /\ Increasing(chosen_i)

\* ix counts the chosen indices that i has passed, and the stray matches.
Position ==
  pc = "open" => /\ \A k \in 1..R : k <= ix <=> chosen_i[k] < i
                 /\ ix <= i
                 /\ res = TRUE

\* Unless there was a stray match, every instance passed is opened or chosen.
Visited ==
  pc = "open" => /\ opened \subseteq good
                 /\ opened \subseteq 0..(i - 1)
                 /\ ix <= R => opened = (0..(i - 1)) \ chosen

IInv ==
  /\ TypeOK
  /\ Before
  /\ Choice
  /\ Position
  /\ Visited
  /\ ChosenStayClosed
  /\ AcceptedMeansAudited

-----------------------------------------------------------------------------
(* The choice.                                                             *)

\* std::sort permutes a vector, so its length and the type of its elements stay.
LEMMA SortType ==
  ASSUME NEW v \in Choices, Len(v) = R, NEW s \in sort(v)
  PROVE  s \in [1..R -> Int] /\ IsSorted(s)
<1>1. v \in [1..R -> Int] /\ DOMAIN v = 1..R
  BY ChoicesAssumption
<1>2. PICK f \in Bijection(1..R, 1..R) : s = [k \in 1..R |-> v[f[k]]]
  BY <1>1 DEF sort
<1>3. f \in [1..R -> 1..R]
  BY DEF Bijection, Injection
<1>4. QED
  BY <1>1, <1>2, <1>3 DEF sort

\* Sorted and without equal neighbours is strictly increasing.
LEMMA ValidIncreasing ==
  ASSUME NEW s \in [1..R -> Int], IsSorted(s), ValidIndices(s)
  PROVE  s \in [1..R -> Instances] /\ Increasing(s)
<1>1. s \in [1..R -> Instances]
  BY DEF ValidIndices
<1>2. ASSUME NEW k \in 1..R, NEW l \in 1..R, k < l
      PROVE  s[k] < s[l]
  <2>1. l - 1 \in 1..R /\ k <= l - 1 /\ l > 1
    BY <1>2, RAssumption
  <2>2. s[k] <= s[l - 1]
    BY <2>1 DEF IsSorted
  <2>3. s[l - 1] <= s[l] /\ s[l - 1] # s[l]
    BY <2>1, RAssumption DEF IsSorted, ValidIndices
  <2>4. QED
    BY <2>1, <2>2, <2>3
<1>3. QED
  BY <1>1, <1>2 DEF Increasing

\* The chosen indices are R instances.
LEMMA ChosenSize ==
  ASSUME NEW s \in [1..R -> Instances], Increasing(s)
  PROVE  LET S == {s[k] : k \in DOMAIN s}
         IN  S \subseteq Instances /\ S # {} /\ Cardinality(S) = R
<1> DEFINE S == {s[k] : k \in 1..R}
<1>1. \A k, l \in 1..R : s[k] = s[l] => k = l
  <2> SUFFICES ASSUME NEW k \in 1..R, NEW l \in 1..R, k # l
               PROVE  s[k] # s[l]
    OBVIOUS
  <2>1. k < l \/ l < k
    BY RAssumption
  <2>2. s[k] \in Int /\ s[l] \in Int
    BY DEF Instances
  <2>3. QED
    BY <2>1, <2>2 DEF Increasing
<1>2. s \in Bijection(1..R, S)
  BY <1>1 DEF Bijection, Injection, Surjection, IsInjective
<1>3. Cardinality(S) = R
  BY <1>2, FS_CountingElements, RAssumption DEF ExistsBijection
<1>4. 1 \in 1..R
  BY RAssumption
<1>5. QED
  BY <1>3, <1>4

-----------------------------------------------------------------------------
(* The invariant, action by action.                                        *)

LEMMA Numbers ==
  ASSUME TypeOK
  PROVE  /\ T \in Nat /\ R \in Nat
         /\ i \in Nat /\ i <= T
         /\ ix \in Nat /\ ix <= T
         /\ i < T => i \in Instances /\ i + 1 \in 0..T
         /\ ix < T => ix + 1 \in 0..T
<1>1. i \in 0..T /\ ix \in 0..T
  BY DEF TypeOK
<1>2. QED
  BY <1>1, TAssumption, RAssumption DEF Instances

LEMMA IInvInit == Init => IInv
<1> SUFFICES ASSUME Init PROVE IInv
  OBVIOUS
<1>1. TypeOK
  BY TAssumption, CheatsAssumption DEF Init, TypeOK
<1>2. ChosenStayClosed
  BY DEF Init, ChosenStayClosed
<1>3. QED
  BY <1>1, <1>2 DEF Init, IInv, Before, Choice, Position, Visited, AcceptedMeansAudited

LEMMA execStep == IInv /\ exec => IInv'
<1> SUFFICES ASSUME IInv, exec PROVE IInv'
  OBVIOUS
<1> USE DEF IInv, exec
<1>1. TypeOK'
  <2>1. i < T => i \in Instances /\ i + 1 \in 0..T
    BY Numbers
  <2>2. good' \subseteq Instances /\ i' \in 0..T
    BY <2>1 DEF TypeOK
  <2>3. QED
    BY <2>2 DEF TypeOK, Throw
<1>2. chosen' = chosen /\ ChosenStayClosed'
  BY DEF chosen, ChosenStayClosed
<1>3. QED
  BY <1>1, <1>2 DEF Throw, Before, Choice, Position, Visited, AcceptedMeansAudited

LEMMA cheat_oneStep == IInv /\ cheat_one => IInv'
<1> SUFFICES ASSUME IInv, cheat_one PROVE IInv'
  OBVIOUS
<1> USE DEF IInv, cheat_one
<1>1. TypeOK'
  BY DEF TypeOK
<1>2. chosen' = chosen /\ ChosenStayClosed'
  BY DEF chosen, ChosenStayClosed
<1>3. QED
  BY <1>1, <1>2 DEF Before, Choice, Position, Visited, AcceptedMeansAudited

LEMMA chooseStep == IInv /\ choose => IInv'
<1> SUFFICES ASSUME IInv, choose PROVE IInv'
  OBVIOUS
<1> USE DEF IInv
<1>1. pc = "choose" /\ UNCHANGED <<cheat, stray, ix, good, opened>>
  BY DEF choose
<1>2. opened = {} /\ ix = 0
  BY <1>1 DEF Before
<1>3. ChosenStayClosed'
  BY <1>1, <1>2 DEF ChosenStayClosed
<1>4. ASSUME NEW what \in {"i is not set", "Wrong set of indices"}, Throw(what),
             UNCHANGED <<i, chosen_i, res>>
      PROVE  IInv'
  <2>1. TypeOK'
    BY <1>1, <1>4 DEF TypeOK, Throw
  <2>2. QED
    BY <1>1, <1>3, <1>4, <2>1
       DEF Throw, Before, Choice, Position, Visited, AcceptedMeansAudited
<1>5. ASSUME NEW v \in Choices, NEW s \in sort(v), Len(v) = R, ValidIndices(s),
             chosen_i' = s, res' = TRUE, i' = 0, pc' = "open", UNCHANGED error
      PROVE  IInv'
  <2>1. s \in [1..R -> Instances] /\ Increasing(s)
    BY <1>5, SortType, ValidIncreasing
  <2>2. TypeOK'
    <3>1. 0 \in 0..T
      BY TAssumption
    <3>2. QED
      BY <1>1, <1>5, <2>1, <3>1 DEF TypeOK
  <2>3. Before' /\ Choice' /\ AcceptedMeansAudited'
    BY <1>5, <2>1 DEF Before, Choice, AcceptedMeansAudited, Increasing
  <2>4. Position'
    BY <1>1, <1>2, <1>5, <2>1 DEF Position, Instances
  <2>5. Visited'
    BY <1>1, <1>2, <1>5 DEF Visited
  <2>6. QED
    BY <1>3, <2>2, <2>3, <2>4, <2>5
<1>6. QED
  BY <1>4, <1>5 DEF choose

\* An instance that differs from chosen_i[ix] is not chosen, ...
LEMMA NotChosen ==
  ASSUME IInv, pc = "open", i < T, FALSE \in IndexIsChosen
  PROVE  /\ i \notin chosen
         /\ \A k \in 1..R : k <= ix <=> chosen_i[k] < i + 1
<1>1. chosen_i \in [1..R -> Instances] /\ Increasing(chosen_i)
  BY DEF IInv, Choice
<1>2. i \in Nat /\ ix \in Nat /\ R \in Nat /\ \A k \in 1..R : chosen_i[k] \in Int
  BY <1>1, Numbers DEF IInv, Instances
<1>3. \A k \in 1..R : k <= ix <=> chosen_i[k] < i
  BY DEF IInv, Position
<1>4. \A k \in 1..R : chosen_i[k] # i
  <2> SUFFICES ASSUME NEW k \in 1..R, chosen_i[k] = i PROVE FALSE
    OBVIOUS
  <2>1. ~(k <= ix)
    BY <1>2, <1>3
  <2>2. ix < R /\ ix + 1 \in 1..R
    BY <1>2, <2>1
  <2>3. chosen_i[ix + 1] # i
    BY <2>2 DEF IndexIsChosen
  <2>4. ix + 1 < k
    BY <1>2, <2>1, <2>3
  <2>5. chosen_i[ix + 1] < i
    BY <1>1, <2>2, <2>4 DEF Increasing
  <2>6. QED
    BY <1>2, <1>3, <2>2, <2>5
<1>5. i \notin chosen
  BY <1>1, <1>4 DEF chosen
<1>6. QED
  BY <1>2, <1>3, <1>4, <1>5

\* ... and one that equals it is, unless the read was past the end.
LEMMA IsChosen ==
  ASSUME IInv, pc = "open", i < T, TRUE \in IndexIsChosen
  PROVE  /\ ix < R => i \in chosen
         /\ \A k \in 1..R : k <= ix + 1 <=> chosen_i[k] < i + 1
<1>1. chosen_i \in [1..R -> Instances] /\ Increasing(chosen_i)
  BY DEF IInv, Choice
<1>2. i \in Nat /\ ix \in Nat /\ R \in Nat /\ \A k \in 1..R : chosen_i[k] \in Int
  BY <1>1, Numbers DEF IInv, Instances
<1>3. \A k \in 1..R : k <= ix <=> chosen_i[k] < i
  BY DEF IInv, Position
<1>4. CASE ix < R
  <2>1. ix + 1 \in 1..R
    BY <1>2, <1>4
  <2>2. chosen_i[ix + 1] = i
    BY <1>4 DEF IndexIsChosen
  <2>3. i \in chosen
    BY <1>1, <2>1, <2>2 DEF chosen
  <2>4. \A k \in 1..R : ix + 1 < k => chosen_i[k] > i
    BY <1>1, <1>2, <2>1, <2>2 DEF Increasing
  <2>5. QED
    BY <1>2, <1>3, <2>2, <2>3, <2>4
<1>5. CASE ~(ix < R)
  BY <1>2, <1>3, <1>5
<1>6. QED
  BY <1>4, <1>5

LEMMA openStep == IInv /\ open => IInv'
<1> SUFFICES ASSUME IInv, open PROVE IInv'
  OBVIOUS
<1> USE DEF IInv
<1>1. /\ pc = "open" /\ i < T /\ FALSE \in IndexIsChosen
      /\ opened' = opened \cup {i}
      /\ UNCHANGED <<cheat, stray, ix, chosen_i, good>>
  BY DEF open
<1>2. i \notin chosen /\ \A k \in 1..R : k <= ix <=> chosen_i[k] < i + 1
  BY <1>1, NotChosen
<1>3. i \in Instances /\ i \in Nat /\ ix \in Nat
  BY <1>1, Numbers
<1>4. chosen' = chosen /\ ChosenStayClosed'
  BY <1>1, <1>2 DEF chosen, ChosenStayClosed
<1>5. CASE i \in good /\ i' = i + 1 /\ UNCHANGED <<pc, res, error>>
  <2>1. TypeOK'
    <3>1. i' \in 0..T
      BY <1>1, <1>5, Numbers
    <3>2. QED
      BY <1>1, <1>3, <1>5, <3>1 DEF TypeOK
  <2>2. Before' /\ Choice' /\ AcceptedMeansAudited'
    BY <1>1, <1>5 DEF Before, Choice, AcceptedMeansAudited
  <2>3. Position'
    BY <1>1, <1>2, <1>3, <1>5 DEF Position
  <2>4. 0..(i + 1 - 1) = (0..(i - 1)) \cup {i}
    BY <1>3
  <2>5. Visited'
    BY <1>1, <1>2, <1>4, <1>5, <2>4 DEF Visited
  <2>6. QED
    BY <1>4, <2>1, <2>2, <2>3, <2>5
<1>6. CASE i \notin good /\ res' = FALSE /\ pc' = "returned" /\ UNCHANGED <<i, error>>
  <2>1. TypeOK'
    BY <1>1, <1>3, <1>6 DEF TypeOK
  <2>2. Choice'
    BY <1>1, <1>6 DEF Choice
  <2>3. QED
    BY <1>4, <1>6, <2>1, <2>2 DEF Before, Position, Visited, AcceptedMeansAudited
<1>7. QED
  BY <1>5, <1>6 DEF open

LEMMA open_throwsStep == IInv /\ open_throws => IInv'
<1> SUFFICES ASSUME IInv, open_throws PROVE IInv'
  OBVIOUS
<1> USE DEF IInv, open_throws
<1>1. TypeOK'
  BY DEF TypeOK, Throw
<1>2. chosen' = chosen /\ ChosenStayClosed'
  BY DEF chosen, ChosenStayClosed
<1>3. QED
  BY <1>1, <1>2 DEF Throw, Before, Choice, Position, Visited, AcceptedMeansAudited

LEMMA skipStep == IInv /\ skip => IInv'
<1> SUFFICES ASSUME IInv, skip PROVE IInv'
  OBVIOUS
<1> USE DEF IInv
<1>1. /\ pc = "open" /\ i < T /\ TRUE \in IndexIsChosen
      /\ ix' = ix + 1 /\ i' = i + 1
      /\ UNCHANGED <<cheat, stray, pc, chosen_i, good, opened, res, error>>
  BY DEF skip
<1>2. /\ ix < R => i \in chosen
      /\ \A k \in 1..R : k <= ix + 1 <=> chosen_i[k] < i + 1
  BY <1>1, IsChosen
<1>3. i \in Nat /\ ix \in Nat /\ R \in Nat /\ ix <= i
  BY <1>1, Numbers DEF Position
<1>4. TypeOK'
  <2>1. i' \in 0..T /\ ix' \in 0..T
    BY <1>1, <1>3, Numbers
  <2>2. QED
    BY <1>1, <2>1 DEF TypeOK
<1>5. chosen' = chosen /\ ChosenStayClosed'
  BY <1>1 DEF chosen, ChosenStayClosed
<1>6. Before' /\ Choice' /\ AcceptedMeansAudited'
  BY <1>1 DEF Before, Choice, AcceptedMeansAudited
<1>7. Position'
  BY <1>1, <1>2, <1>3 DEF Position
<1>8. Visited'
  <2>1. 0..(i + 1 - 1) = (0..(i - 1)) \cup {i}
    BY <1>3
  <2>2. ix + 1 <= R => i \in chosen /\ ix <= R
    BY <1>2, <1>3
  <2>3. QED
    BY <1>1, <1>5, <2>1, <2>2 DEF Visited
<1>9. QED
  BY <1>4, <1>5, <1>6, <1>7, <1>8

LEMMA finishStep == IInv /\ finish => IInv'
<1> SUFFICES ASSUME IInv, finish PROVE IInv'
  OBVIOUS
<1> USE DEF IInv
<1>1. /\ pc = "open" /\ i = T
      /\ UNCHANGED <<cheat, stray, i, ix, chosen_i, good, opened, res>>
  BY DEF finish
<1>2. chosen' = chosen /\ ChosenStayClosed'
  BY <1>1 DEF chosen, ChosenStayClosed
<1>3. CASE ix = R /\ pc' = "returned" /\ UNCHANGED error
  <2>1. opened = Instances \ chosen /\ opened \subseteq good
    BY <1>1, <1>3, RAssumption DEF Visited, Instances
  <2>2. QED
    BY <1>1, <1>2, <1>3, <2>1
       DEF TypeOK, Before, Choice, Position, Visited, AcceptedMeansAudited
<1>4. CASE Throw("Assert failed")
  BY <1>1, <1>2, <1>4
     DEF Throw, TypeOK, Before, Choice, Position, Visited, AcceptedMeansAudited
<1>5. QED
  BY <1>3, <1>4 DEF finish

LEMMA IInvStep == IInv /\ [Next]_vars => IInv'
<1> SUFFICES ASSUME IInv, UNCHANGED vars PROVE IInv'
  BY execStep, cheat_oneStep, chooseStep, openStep, open_throwsStep, skipStep,
     finishStep DEF Next
<1>1. chosen' = chosen
  BY DEF vars, chosen
<1>2. QED
  BY <1>1 DEF vars, IInv, TypeOK, Before, Choice, Position, Visited,
     ChosenStayClosed, AcceptedMeansAudited

-----------------------------------------------------------------------------
(* The theorems.                                                           *)

\* The loop over the instances keeps its place in the checked choice, in
\* every reachable state of cut_and_choose.
THEOREM Invariance == Spec => []IInv
BY IInvInit, IInvStep, PTL DEF Spec

\* Every variable of cut_and_choose keeps its type; the vectors have T
\* elements and the indices never leave them.
THEOREM TypeCorrect == Spec => []TypeOK
<1>1. IInv => TypeOK
  BY DEF IInv
<1>2. QED
  BY <1>1, Invariance, PTL

\* protocol.open is never called for an instance the sale goes on with.
THEOREM ClosedStaysClosed == Spec => []ChosenStayClosed
<1>1. IInv => ChosenStayClosed
  BY DEF IInv
<1>2. QED
  BY <1>1, Invariance, PTL

\* res true on return means that every other instance was opened and found
\* honest, even if the int past the end of chosen_i made the loop skip some.
THEOREM SoundAudit == Spec => []AcceptedMeansAudited
<1>1. IInv => AcceptedMeansAudited
  BY DEF IInv
<1>2. QED
  BY <1>1, Invariance, PTL

\* ix has not gone past the end of chosen_i.
NoStray == error # "Assert failed" /\ (pc = "open" => ix <= R)

\* The assertion after the loop can fail only because of the read past the
\* end of chosen_i: without a stray match it never does.
THEOREM AssertHoldsWithoutStray == Spec => []IndicesMetOnce
<1>1. Init => NoStray
  BY DEF Init, NoStray
<1>2. IInv /\ (stray \/ NoStray) /\ [Next]_vars => stray' \/ NoStray'
  <2>0. [Next]_vars => stray' = stray
    BY DEF Next, vars, exec, cheat_one, choose, open, open_throws, skip, finish
  <2>a. SUFFICES ASSUME ~stray, IInv, NoStray, [Next]_vars PROVE NoStray'
    BY <2>0
  <2>b. IInv /\ NoStray /\ [Next]_vars
    BY <2>a
  <2>1. ix \in Nat /\ R \in Nat
    BY <2>b, Numbers DEF IInv
  <2>2. CASE exec
    BY <2>b, <2>2 DEF exec, Throw, NoStray
  <2>3. CASE cheat_one
    BY <2>b, <2>3 DEF cheat_one, NoStray
  <2>4. CASE choose
    <3>1. ix' = 0
      BY <2>b, <2>4 DEF choose, IInv, Before
    <3>2. error' # "Assert failed"
      BY <2>b, <2>4 DEF choose, Throw, NoStray
    <3>3. ix' <= R
      BY <2>1, <3>1
    <3>4. QED
      BY <3>2, <3>3 DEF NoStray
  <2>5. CASE open
    BY <2>b, <2>5 DEF open, NoStray
  <2>6. CASE open_throws
    BY <2>b, <2>6 DEF open_throws, Throw, NoStray
  <2>7. CASE skip
    <3>1. ix < R
      BY <2>a, <2>7 DEF skip, IndexIsChosen
    <3>2. ix' <= R
      BY <2>1, <2>7, <3>1 DEF skip
    <3>3. QED
      BY <2>b, <2>7, <3>2 DEF skip, NoStray
  <2>8. CASE finish
    <3>1. R <= ix
      <4>1. R \in 1..R
        BY RAssumption
      <4>2. R <= ix <=> chosen_i[R] < i
        BY <2>b, <2>8, <4>1 DEF finish, IInv, Position
      <4>3. chosen_i[R] \in Instances /\ i = T
        BY <2>b, <2>8, <4>1 DEF finish, IInv, Choice
      <4>4. QED
        BY <4>2, <4>3, TAssumption DEF Instances
    <3>2. ix <= R
      BY <2>b, <2>8 DEF finish, NoStray
    <3>3. ix = R
      BY <2>1, <3>1, <3>2
    <3>4. QED
      BY <2>b, <2>8, <3>3 DEF finish, NoStray
  <2>9. CASE UNCHANGED vars
    BY <2>b, <2>9 DEF vars, NoStray
  <2>10. QED
    BY <2>b, <2>2, <2>3, <2>4, <2>5, <2>6, <2>7, <2>8, <2>9 DEF Next
<1>3. QED
  <2> DEFINE J == stray \/ NoStray
  <2>1. Init => J
    BY <1>1
  <2>2. IInv /\ J /\ [Next]_vars => J'
    BY <1>2
  <2>3. J => IndicesMetOnce
    BY DEF NoStray, IndicesMetOnce
  <2> HIDE DEF J
  <2>4. QED
    BY <2>1, <2>2, <2>3, Invariance, PTL DEF Spec

-----------------------------------------------------------------------------
(* CutAndChoose implements Audit.                                          *)

\* Before the choice nothing is picked, and there is no verdict before the end.
LEMMA AuditBefore ==
  ASSUME IInv, pc \in {"exec", "choose"}
  PROVE  chosen = {} /\ opened = {} /\ verdict = "none"
BY DEF IInv, Before, chosen, verdict

LEMMA AuditDuring ==
  ASSUME IInv, pc = "open"
  PROVE  chosen # {} /\ verdict = "none" /\ res = TRUE
BY ChosenSize DEF IInv, Choice, Position, verdict, chosen

\* What Audit promises the two parties holds of cut_and_choose: commitments
\* precede the choice, chosen instances stay closed, all others are opened
\* before an accept, and a reject names a dishonest instance.
THEOREM Refinement == Spec => ImplementsAudit
<1>1. Init => A!Init
  BY DEF Init, A!Init, chosen, verdict
<1>2. IInv /\ [Next]_vars => [A!Next]_(A!vars)
  <2> SUFFICES ASSUME IInv, [Next]_vars
               PROVE  A!Next \/ UNCHANGED <<good, chosen, opened, verdict>>
    BY DEF A!vars
  <2>1. IInv'
    BY IInvStep
  <2>2. ASSUME UNCHANGED <<good, chosen_i, opened>>, verdict = "none", pc' = "thrown"
        PROVE  A!Abort
    BY <2>2 DEF A!Abort, A!Undecided, verdict, chosen
  <2>3. CASE exec
    <3>1. verdict = "none" /\ chosen = {} /\ UNCHANGED <<chosen_i, opened, chosen>>
      BY <2>3, AuditBefore DEF exec, chosen
    <3>2. CASE pc' = "thrown"
      BY <2>2, <2>3, <3>1, <3>2 DEF exec, A!Next
    <3>3. CASE UNCHANGED pc
      <4>1. good' \in SUBSET Instances
        BY <2>1 DEF IInv, TypeOK
      <4>2. UNCHANGED verdict
        BY <2>3, <3>3 DEF exec, verdict
      <4>3. QED
        BY <3>1, <4>1, <4>2 DEF A!Next, A!Prepare, A!Undecided
    <3>4. QED
      BY <2>3, <3>2, <3>3 DEF exec, Throw
  <2>4. CASE cheat_one
    <3>1. verdict = "none" /\ chosen = {} /\ UNCHANGED <<opened, chosen, verdict>>
      BY <2>4, AuditBefore DEF cheat_one, chosen, verdict
    <3>2. good' \in SUBSET Instances
      BY <2>1 DEF IInv, TypeOK
    <3>3. QED
      BY <3>1, <3>2 DEF A!Next, A!Prepare, A!Undecided
  <2>5. CASE choose
    <3>1. verdict = "none" /\ chosen = {} /\ UNCHANGED <<good, opened>>
      BY <2>5, AuditBefore DEF choose
    <3>2. CASE pc' = "thrown"
      <4>1. UNCHANGED chosen_i
        BY <2>5, <3>2 DEF choose
      <4>2. QED
        BY <2>2, <3>1, <3>2, <4>1 DEF A!Next
    <3>3. CASE pc' = "open"
      <4>1. chosen_i' \in [1..R -> Instances] /\ Increasing(chosen_i)'
        BY <2>1, <3>3 DEF IInv, Choice
      <4>2. chosen' \in SUBSET Instances /\ Cardinality(chosen') = R
        BY <4>1, ChosenSize DEF chosen, Increasing
      <4>3. verdict' = "none"
        BY <3>3 DEF verdict
      <4>4. QED
        BY <3>1, <4>2, <4>3 DEF A!Next, A!Pick, A!Undecided
    <3>4. QED
      BY <2>5, <3>2, <3>3 DEF choose, Throw
  <2>6. CASE open
    <3>1. /\ verdict = "none" /\ chosen # {} /\ i \notin chosen /\ i \in Instances
          /\ UNCHANGED <<good, chosen>> /\ opened' = opened \cup {i}
      BY <2>6, AuditDuring, NotChosen, Numbers DEF open, chosen, IInv
    <3>2. CASE i \in good /\ UNCHANGED <<pc, res>>
      <4>1. UNCHANGED verdict
        BY <3>2 DEF verdict
      <4>2. A!Open(i)
        BY <3>1, <3>2, <4>1 DEF A!Open, A!Undecided
      <4>3. QED
        BY <3>1, <4>2 DEF A!Next
    <3>3. CASE i \notin good /\ res' = FALSE /\ pc' = "returned"
      <4>1. verdict' = "reject"
        BY <3>3 DEF verdict
      <4>2. A!Reject(i)
        BY <3>1, <3>3, <4>1 DEF A!Reject, A!Undecided
      <4>3. QED
        BY <3>1, <4>2 DEF A!Next
    <3>4. QED
      BY <2>6, <3>2, <3>3 DEF open
  <2>7. CASE open_throws
    BY <2>2, <2>7, AuditDuring DEF open_throws, Throw, A!Next
  <2>8. CASE skip
    BY <2>8 DEF skip, chosen, verdict
  <2>9. CASE finish
    <3>1. verdict = "none" /\ res = TRUE /\ UNCHANGED <<good, chosen_i, chosen, opened, res>>
      BY <2>9, AuditDuring DEF finish, chosen
    <3>2. CASE pc' = "thrown"
      BY <2>2, <3>1, <3>2 DEF A!Next
    <3>3. CASE pc' = "returned"
      <4>1. verdict' = "accept"
        BY <3>1, <3>3 DEF verdict
      <4>2. opened = Instances \ chosen
        BY <2>1, <3>1, <3>3 DEF IInv, AcceptedMeansAudited
      <4>3. QED
        BY <3>1, <4>1, <4>2 DEF A!Next, A!Accept, A!Undecided
    <3>4. QED
      BY <2>9, <3>2, <3>3 DEF finish, Throw
  <2>10. CASE UNCHANGED vars
    BY <2>10 DEF vars, chosen, verdict
  <2>11. QED
    BY <2>3, <2>4, <2>5, <2>6, <2>7, <2>8, <2>9, <2>10 DEF Next
<1>3. QED
  BY <1>1, <1>2, Invariance, PTL DEF Spec, A!Spec, ImplementsAudit

=============================================================================
