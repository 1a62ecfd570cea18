---------------------------- MODULE CutAndChoose ----------------------------
(***************************************************************************)
(* cut_and_choose/cut_and_choose.h: a prover and a verifier execute a      *)
(* protocol T times, the verifier names R instances, and the prover opens  *)
(* all the others.  What an instance does is abstracted to whether the     *)
(* prover followed the protocol in it, which is what open() finds out.     *)
(***************************************************************************)
EXTENDS Integers, FiniteSets, Sequences, Functions

CONSTANTS
  T,          \* how many times the protocol is executed
  R,          \* how many instances stay closed
  Choices,    \* the vectors v->getI() can return, valid or not
  Cheats      \* the values of the argument cheat, -1 for none

Instances == 0..(T - 1)

ASSUME TAssumption == T \in Nat
ASSUME RAssumption == R \in Nat \ {0}
ASSUME ChoicesAssumption == Choices \subseteq Seq(Int)
ASSUME CheatsAssumption == Cheats \subseteq Instances \cup {-1}

VARIABLES
  cheat,     \* the argument cheat
  stray,     \* whether the ints after the R chosen ones can equal an index
  pc,        \* "exec", "choose", "open", "returned" or "thrown"
  i,         \* the variable of the two loops over the instances
  ix,        \* the position in chosen_i of the next index to keep closed
  chosen_i,  \* the checked choice, empty until then
  good,      \* the instances in which the prover followed the protocol
  opened,    \* the instances that protocol.open has been called for
  res,       \* v->res; before line 65 the code does not initialise it
  error      \* the exception thrown

vars == <<cheat, stray, pc, i, ix, chosen_i, good, opened, res, error>>

Init ==
  /\ cheat \in Cheats
  /\ stray \in BOOLEAN
  /\ pc = "exec"
  /\ i = 0
  /\ ix = 0
  /\ chosen_i = <<>>
  /\ good = {}
  /\ opened = {}
  /\ res \in BOOLEAN
  /\ error = "none"

-----------------------------------------------------------------------------

Throw(what) ==
  /\ pc' = "thrown"
  /\ error' = what

\* protocol.init and protocol.exec of one instance, in which the prover may
\* deviate from the protocol and either party may throw.
exec ==
  /\ pc = "exec" /\ i < T
  /\ \/ good' \in {good, good \cup {i}} /\ i' = i + 1 /\ UNCHANGED <<pc, error>>
     \/ Throw("exec failed") /\ UNCHANGED <<good, i>>
  /\ UNCHANGED <<cheat, stray, ix, chosen_i, opened, res>>

IsSorted(s) == \A k, l \in DOMAIN s : k < l => s[k] <= s[l]

\* std::sort: the permutations of v that are sorted (there is exactly one).
sort_None(v) == {v}
sort(v) ==
  {s \in {[k \in DOMAIN v |-> v[f[k]]] : f \in Bijection(DOMAIN v, DOMAIN v)} : IsSorted(s)}

\* The checks of lines 54 to 61 on the sorted vector.
ValidIndices_DuplicatesAllowed(s) == \A k \in 1..R : s[k] \in Instances

ValidIndices_UpToT(s) ==
  \A k \in 1..R : s[k] \in 0..T /\ (k > 1 => s[k] # s[k - 1])

ValidIndices(s) ==
  \A k \in 1..R : s[k] \in Instances /\ (k > 1 => s[k] # s[k - 1])

\* All instances executed: if (cheat != -1) p->v[cheat].cheat().
cheat_one ==
  /\ pc = "exec" /\ i = T
  /\ good' = good \ {cheat}
  /\ pc' = "choose"
  /\ UNCHANGED <<cheat, stray, i, ix, chosen_i, opened, res, error>>

\* The verifier's vector is read, sorted and checked.
choose ==
  /\ pc = "choose"
  /\ \E v \in Choices :
       \/ /\ v = <<>>
          /\ Throw("i is not set")
          /\ UNCHANGED <<i, chosen_i, res>>
       \/ /\ v # <<>> /\ Len(v) # R
          /\ Throw("Wrong set of indices")
          /\ UNCHANGED <<i, chosen_i, res>>
       \/ \E s \in sort(v) :
            /\ Len(v) = R
            /\ ~ValidIndices(s)
            /\ Throw("Wrong set of indices")
            /\ UNCHANGED <<i, chosen_i, res>>
       \/ \E s \in sort(v) :
            /\ Len(v) = R
            /\ ValidIndices(s)
            /\ chosen_i' = s
            /\ res' = TRUE
            /\ i' = 0
            /\ pc' = "open"
            /\ UNCHANGED error
  /\ UNCHANGED <<cheat, stray, ix, good, opened>>

\* The outcomes of i == chosen_i[ix].  Once all chosen indices are behind i,
\* ix is R and the read is past the end of the vector.
IndexIsChosen ==
  IF ix < R THEN {i = chosen_i[ix + 1]}
  ELSE IF stray THEN BOOLEAN ELSE {FALSE}

\* protocol.open of an instance that is not chosen; a dishonest one throws in
\* open or fails getOpenVerified, and the verifier returns.
open ==
  /\ pc = "open" /\ i < T
  /\ FALSE \in IndexIsChosen
  /\ opened' = opened \cup {i}
  /\ \/ /\ i \in good
        /\ i' = i + 1
        /\ UNCHANGED <<pc, res, error>>
     \/ /\ i \notin good
        /\ res' = FALSE
        /\ pc' = "returned"
        /\ UNCHANGED <<i, error>>
  /\ UNCHANGED <<cheat, stray, ix, chosen_i, good>>

open_throws ==
  /\ pc = "open" /\ i < T
  /\ FALSE \in IndexIsChosen
  /\ i \notin good
  /\ Throw("open failed")
  /\ UNCHANGED <<cheat, stray, i, ix, chosen_i, good, opened, res>>

skip ==
  /\ pc = "open" /\ i < T
  /\ TRUE \in IndexIsChosen
  /\ ix' = ix + 1
  /\ i' = i + 1
  /\ UNCHANGED <<cheat, stray, pc, chosen_i, good, opened, res, error>>

\* The end of the loop and the check after it.
finish_Unchecked ==
  /\ pc = "open" /\ i = T
  /\ pc' = "returned"
  /\ UNCHANGED <<cheat, stray, i, ix, chosen_i, good, opened, res, error>>

finish ==
  /\ pc = "open" /\ i = T
  /\ \/ ix = R /\ pc' = "returned" /\ UNCHANGED error
     \/ ix # R /\ Throw("Assert failed")
  /\ UNCHANGED <<cheat, stray, i, ix, chosen_i, good, opened, res>>

Next == exec \/ cheat_one \/ choose \/ open \/ open_throws \/ skip \/ finish

Spec == Init /\ [][Next]_vars

\* cut_and_choose is an ordinary function call: it goes on until it is over.
FairSpec == Spec /\ WF_vars(Next)

-----------------------------------------------------------------------------
(* Properties.                                                             *)

\* Every variable keeps its type; in particular chosen_i only ever holds
\* checked indices of the two vectors the loop reads.
TypeOK ==
  /\ cheat \in Instances \cup {-1}
  /\ stray \in BOOLEAN
  /\ pc \in {"exec", "choose", "open", "returned", "thrown"}
  /\ i \in 0..T
  /\ ix \in 0..T
  /\ chosen_i \in [1..R -> Instances] \cup {<<>>}
  /\ good \subseteq Instances
  /\ opened \subseteq Instances
  /\ res \in BOOLEAN
  /\ error \in {"none", "exec failed", "i is not set", "Wrong set of indices",
                "open failed", "Assert failed"}

chosen == {chosen_i[k] : k \in DOMAIN chosen_i}

\* The instances the sale goes on with are never opened: opening one would
\* give the verifier the secrets that the rest of the sale rests on.
ChosenStayClosed == chosen \cap opened = {}

\* A verifier whose cut_and_choose returned with res true has seen every
\* instance but the chosen ones opened, and the prover was honest in each,
\* whatever int the loop reads past the end of chosen_i.
AcceptedMeansAudited ==
  pc = "returned" /\ res => /\ opened = Instances \ chosen
                            /\ opened \subseteq good

\* A prover that was honest in every instance is accepted once a vector has
\* passed the checks; the assertion after the loop does not get in its way,
\* unless the read past the end does.
HonestIsAccepted ==
  (pc = "open" /\ good = Instances /\ ~stray) ~> (pc = "returned" /\ res)

\* The code's own assertion (line 78): the loop meets every chosen index once.
\* It fails only through an int read past the end of chosen_i.
IndicesMetOnce == error = "Assert failed" => stray

verdict == IF pc = "returned" THEN (IF res THEN "accept" ELSE "reject")
           ELSE IF pc = "thrown" THEN "abort"
           ELSE "none"

A == INSTANCE Audit WITH
       picked <- chosen,
       Picks <- {S \in SUBSET Instances : Cardinality(S) = R}

\* cut_and_choose implements the audit: nothing of an instance changes once
\* the choice is known, and accept, reject and abort mean what they should.
ImplementsAudit == A!Spec

=============================================================================
