------------------------------ MODULE MCRatchet ------------------------------
(***************************************************************************)
(* Three symbols in two files, two bodies and one rule.                    *)
(***************************************************************************)
EXTENDS Ratchet

CONSTANTS A, B     \* two files

MCSymbol == 1 .. 3
MCFile   == {A, B}
MCFileOf == [s \in MCSymbol |-> IF s = 2 THEN B ELSE A]
=============================================================================
