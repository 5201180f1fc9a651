------------------------------ MODULE Closures ------------------------------
(***************************************************************************)
(* Walks along a table from an entry to more of them: each call of a walk  *)
(* visits what it has not seen, until a turn adds nothing.                 *)
(***************************************************************************)
EXTENDS Naturals, FiniteSets

\* A step taken n times from x.
Iterate(step, x, n) ==
  LET run[k \in 0..n] == IF k = 0 THEN x ELSE step[run[k - 1]] IN run[n]

\* Everything a walk along the table `next` sees from `from`.
Closure(next, from) ==
  Iterate([seen \in SUBSET DOMAIN next |-> seen \cup UNION {next[c] : c \in seen}],
          from, Cardinality(DOMAIN next))
=============================================================================
