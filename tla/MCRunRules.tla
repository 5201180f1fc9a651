----------------------------- MODULE MCRunRules -----------------------------
(* The Python stack on a pool of two. *)
EXTENDS RunRules, PyMemos

CONSTANTS w1, w2, main
MCMain == main
MCWorker == {w1, w2}
=============================================================================
