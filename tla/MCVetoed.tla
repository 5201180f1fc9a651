------------------------------ MODULE MCVetoed ------------------------------
(***************************************************************************)
(* An instance of Vetoed: a family of checkers, where a world raises what  *)
(* each of its splices raises alone and what two of them raise together.   *)
(***************************************************************************)
EXTENDS Vetoed

CONSTANTS A, B     \* two files

\* Body i holds place i and, for warnings, place 30 + i; places 10 and 20 are outside
\* every body, in A and in B.
FileOfBody(i) == IF i % 2 = 1 THEN A ELSE B
Files         == {A, B}
WarningsOf(S) == {30 + i : i \in S}
PlacesOf(S)   == S \union {10, 20} \union WarningsOf(S)
AtOf(S)       == [pl \in PlacesOf(S) |->
                    CASE pl = 10 -> A [] pl = 20 -> B
                      [] pl > 30 -> FileOfBody(pl - 30) [] OTHER -> FileOfBody(pl)]

\* What one splice raises alone: nothing, an error or a warning in its body, an error
\* outside it in A or in B; and what two may raise only together.
Own      == {"none", "body", "warn", "outA", "outB"}
OwnAt(p, o) == CASE o = "body" -> p [] o = "warn" -> 30 + p [] o = "outA" -> 10 [] o = "outB" -> 20
Joints   == {{}, {1, 2}, {2, 3}, {3, 4}}

\* Five splices: the odd ones edit A, the even ones B; 2 watches its caller in A, 4 is a
\* module owner (no span, every file watched), 3 never warns and 5 errs in its body
\* or not at all.  All five guilty are the least for which splitting every group costs more than the loop may.
Five         == 1 .. 5
FivePlaces   == PlacesOf(Five)
FiveWarning  == WarningsOf(Five)
FiveAt       == AtOf(Five)
FiveRel      == [p \in Five |-> FileOfBody(p)]
FiveBody     == [p \in Five |-> IF p = 4 THEN {} ELSE {p, 30 + p}]
FiveWatched  == [p \in Five |-> IF p = 2 THEN {A} ELSE {}]
FiveAll      == {4}
FiveCheckers ==
  [own : {o \in [Five -> Own] : o[3] \in {"none", "body", "outB"} /\ o[5] \in {"none", "body"}},
   joint : Joints, jointAt : {10, 20}]
FiveRaises(c, w) ==
  {OwnAt(p, c.own[p]) : p \in {q \in w : c.own[q] # "none"}}
  \union (IF c.joint # {} /\ c.joint \subseteq w THEN {c.jointAt} ELSE {})
FiveBatches  == {1 .. 5, 1 .. 4, 1 .. 3, {2, 4}, {1}}
=============================================================================
