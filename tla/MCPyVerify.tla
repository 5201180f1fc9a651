----------------------------- MODULE MCPyVerify -----------------------------
(***************************************************************************)
(* Five splices: 1 and 2 annotate parameters x and y of one function in A, *)
(* 3 a parameter x of a function in B, 4 and 5 are module owners in B.     *)
(* Splice 1 watches callers in B, splice 2 in B and C, so the cut is two   *)
(* files for the one and, past MaxWatched = 2, the whole tree for the      *)
(* other.                                                                  *)
(***************************************************************************)
EXTENDS PyVerify

CONSTANTS A, B, C, bodyA, bodyB, moduleB, x, y, none

MCSplice == 1 .. 5
MCFile   == {A, B, C}

\* Places 1, 2, 4 and 11 are in the function of A, 3 and 13 in that of B; 10, 20, 30
\* are outside every body.  A warning is at a place below 10.
MCPlace   == {1, 2, 3, 4, 10, 11, 13, 20, 30}
MCWarning == 1 .. 4
MCAt      == [pl \in MCPlace |->
                CASE pl \in {1, 2, 4, 10, 11} -> A [] pl \in {3, 13, 20} -> B [] OTHER -> C]
MCNames   == [pl \in MCPlace |->
                CASE pl = 1 -> {x} [] pl = 2 -> {x, y} [] pl = 3 -> {x} [] OTHER -> {}]
MCRel     == [p \in MCSplice |-> IF p <= 2 THEN A ELSE B]
MCBody    == [p \in MCSplice |->
                IF p <= 2 THEN {1, 2, 4, 11} ELSE IF p = 3 THEN {3, 13} ELSE {}]
MCWatched == [p \in MCSplice |->
                IF p = 1 THEN {B} ELSE IF p = 2 THEN {B, C} ELSE {}]
MCAll     == {4, 5}
MCCallee  == [p \in MCSplice |->
                IF p <= 2 THEN bodyA ELSE IF p = 3 THEN bodyB ELSE moduleB]
MCParam   == [p \in MCSplice |->
                CASE p \in {1, 3} -> x [] p = 2 -> y [] OTHER -> none]
MCBatches == {{}, {1}, {2, 3}, {1, 2}, {1, 3}, {1, 2, 3}, {3, 4, 5}, {1, 3, 4}, MCSplice}

\* The errors each splice raises, and its warnings, in its own body.
MCErrors ==
  {e \in [MCSplice -> {0, 10, 11, 13, 20, 30}] :
     /\ e[1] \in {0, 11, 20} /\ e[2] \in {0, 30} /\ e[3] \in {0, 13, 10}
     /\ e[4] \in {0, 30} /\ e[5] = e[4]}
OwnHints == {h \in [1 .. 3 -> SUBSET {1, 2, 3, 4}] :
               h[1] \subseteq {1, 2, 4} /\ h[2] \in {{}, {2}, {4}} /\ h[3] \subseteq {3}}

MCRaises(c, w) ==
  {c.errors[p] : p \in {q \in w : c.errors[q] # 0}}
  \union UNION {c.own[p] : p \in w \intersect (1 .. 3)}

LocalCheckers == [errors : MCErrors, own : OwnHints]
=============================================================================
