----------------------------- MODULE MCFixDiff -----------------------------
(***************************************************************************)
(* Six fixes in two files.  In A, lines 1 to 6: fix 1 annotates line 1,    *)
(* fix 2 deletes lines 1 to 3 (the def line 1 opens) and edits line 6, fix *)
(* 3 deletes line 3, fix 4 deletes lines 4 to 6.  In B, fix 5 deletes line *)
(* 11 and fix 6 annotates line 12.                                         *)
(***************************************************************************)
EXTENDS FixDiff

CONSTANTS A, B     \* two files

MCFile    == {A, B}
MCSplice  == 1 .. 6
MCRel     == [p \in MCSplice |-> IF p >= 5 THEN B ELSE A]
MCLine    == 1 .. 12
MCTakes   == [p \in MCSplice |->
                CASE p = 1 -> {} [] p = 2 -> 1 .. 3 [] p = 3 -> {3}
                  [] p = 4 -> 4 .. 6 [] p = 5 -> {11} [] OTHER -> {}]
MCTouches == [p \in MCSplice |-> CASE p = 1 -> {1} [] p = 2 -> {6} [] p = 6 -> {12} [] OTHER -> {}]

\* Errors are seen at the place of a splice's own, or, where two raise one only
\* together, in file B.
MCPlace   == MCSplice \union {20}
MCWarning == {}
MCAt      == [pl \in MCPlace |-> IF pl <= 4 THEN A ELSE B]
MCBody    == [p \in MCSplice |-> {p}]
MCWatched == [p \in MCSplice |-> IF p = 4 THEN {B} ELSE {}]
MCAll     == {3}
MCBatches == {MCSplice}

MCCheckers == [guilty : SUBSET MCSplice,
               joint : {{}} \union {{p, q} : p, q \in MCSplice}]
MCRaises(c, w) ==
  (w \intersect c.guilty) \union 
    (IF Cardinality(c.joint) = 2 /\ c.joint \subseteq w THEN {20} ELSE {})

\* Two deletions that empty their block leave text that does not parse.
MCParses(f, S) == ~(f = A /\ {3, 4} \subseteq S)
=============================================================================
