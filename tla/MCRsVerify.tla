----------------------------- MODULE MCRsVerify -----------------------------
(***************************************************************************)
(* Three project roots, 1 reading 2 and 2 reading 3, with a file each, and *)
(* a fourth file under no root; a splice in each.  A splice breaks nothing,*)
(* its own root or one that reads it, and two break root 1 together.       *)
(***************************************************************************)
EXTENDS RsVerify

CONSTANTS A, B, C, D     \* files

MCFile    == {A, B, C, D}
MCSplice  == 1 .. 4
MCRel     == [p \in MCSplice |-> CASE p = 1 -> A [] p = 2 -> B [] p = 3 -> C [] OTHER -> D]
MCRoot    == 1 .. 3
MCRootOf  == [f \in MCFile |->
                CASE f = A -> 1 [] f = B -> 2 [] f = C -> 3 [] OTHER -> NoRoot]
MCReads   == [r \in MCRoot |-> IF r = 3 THEN {} ELSE {r + 1}]
MCWorlds  == (SUBSET MCSplice) \ {{}}
MCGroups  == {gs \in SUBSET MCWorlds : gs # {} /\ \A g, h \in gs : g = h \/ g \intersect h = {}}
MCBatches == {InOrder(gs) : gs \in MCGroups}
MCOwn     == {o \in [MCSplice -> {{}, {1}, {2}, {3}}] :
                o[1] # {2} /\ o[1] # {3} /\ o[2] # {3} /\ o[3] # {2} /\ o[4] \in {{}, {2}}}
MCChecker == [own : MCOwn, joint : {{}, {2, 3}}, at : {{1}}]
MCProposals == {{1, 2, 3, 4}, {2, 3}}

MCClean == [r \in MCRoot |-> {}]
=============================================================================
