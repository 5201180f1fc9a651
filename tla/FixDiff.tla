------------------------------- MODULE FixDiff -------------------------------
(***************************************************************************)
(* The diff `sightline fix` prints.  Rules verify their splices in passes  *)
(* of their own, before and while the emitter runs; each verified splice   *)
(* becomes a finding's fix; the emitter settles the fixes that share a     *)
(* site (`compose`, crates/core/src/patch.rs), then patches one file after *)
(* another and ships a file's part where the patched text parses.          *)
(*                                                                         *)
(* A pass is IsolatedVerdicts: Vetoed implements it.  A line of source     *)
(* belongs to one file, so an edit is the line it sits on.                 *)
(***************************************************************************)
EXTENDS Worlds

CONSTANTS
  Line,
  Takes,        \* Takes[p]: the lines p's edits delete whole
  Touches,      \* Touches[p]: the lines its other edits sit on
  Parses(_, _)  \* Parses(f, S): f parses with the edits of the fixes S in it

ASSUME EditsAssumption ==
  /\ IsFiniteSet(Line)
  /\ Takes \in [Splice -> SUBSET Line] /\ Touches \in [Splice -> SUBSET Line]
  /\ \A p \in Splice : Takes[p] \union Touches[p] # {}
  /\ \A p, q \in Splice :
       (Takes[p] \union Touches[p]) \intersect (Takes[q] \union Touches[q]) # {} => Rel[p] = Rel[q]

VARIABLES
  checker,
  proposed,  \* the splices no pass has verified yet
  fixed,     \* the findings' fixes
  step,      \* "passes", "files", "printed"
  files,     \* the files the emitter has still to patch
  shipped    \* the fixes in the diff

vars == <<checker, proposed, fixed, step, files, shipped>>

-----------------------------------------------------------------------------
\* The lines some fix of S deletes whole.
Deleted(S) == UNION {Takes[p] : p \in S}

Lines(p) == Takes[p] \union Touches[p]

\* Mutant of Dropped: a deletion inside a larger one stays.
DroppedInside(S) == {p \in S : Touches[p] \intersect Deleted(S) # {}}

\* A fix is dropped where it edits a line some fix deletes, or where all it does lies in
\* a larger deletion.
Dropped(S) ==
  {p \in S : \/ Touches[p] \intersect Deleted(S) # {}
             \/ \E q \in S \ {p} :
                  /\ Lines(p) \subseteq Takes[q]
                  /\ Cardinality(Lines(p)) < Cardinality(Takes[q])}

Init ==
  /\ checker \in Checker
  /\ proposed \in Batches
  /\ fixed = {}
  /\ step = "passes"
  /\ files = {}
  /\ shipped = {}

\* Mutant of Verify: a vetoed splice becomes a fix too.
VerifyNone(batch) ==
  /\ step = "passes"
  /\ batch \in (SUBSET proposed) \ {{}}
  /\ proposed' = proposed \ batch
  /\ \E kept \in SUBSET batch : fixed' = fixed \union kept
  /\ UNCHANGED <<checker, step, files, shipped>>

\* One rule's splices go through a pass: none is verified where the checker stopped, and
\* the findings of some are suppressed.
Verify(batch) ==
  /\ step = "passes"
  /\ batch \in (SUBSET proposed) \ {{}}
  /\ proposed' = proposed \ batch
  /\ \E kept \in SUBSET {p \in batch : ~ErrsAlone(checker, p)} : fixed' = fixed \union kept
  /\ UNCHANGED <<checker, step, files, shipped>>

Compose ==
  /\ step = "passes" /\ proposed = {}
  /\ fixed' = fixed \ Dropped(fixed)
  /\ files' = {Rel[p] : p \in fixed'}
  /\ step' = "files"
  /\ UNCHANGED <<checker, proposed, shipped>>

Emit(f) ==
  /\ step = "files" /\ f \in files
  /\ LET group == {p \in fixed : Rel[p] = f}
     IN  shipped' = IF Parses(f, group) THEN shipped \union group ELSE shipped
  /\ files' = files \ {f}
  /\ UNCHANGED <<checker, proposed, fixed, step>>

Printed ==
  /\ step = "files" /\ files = {}
  /\ step' = "printed"
  /\ UNCHANGED <<checker, proposed, fixed, files, shipped>>

Next ==
  \/ \E batch \in SUBSET proposed : Verify(batch)
  \/ Compose
  \/ \E f \in File : Emit(f)
  \/ Printed

Spec == Init /\ [][Next]_vars
-----------------------------------------------------------------------------
TypeOK ==
  /\ checker \in Checker
  /\ proposed \subseteq Splice /\ fixed \subseteq Splice
  /\ step \in {"passes", "files", "printed"}
  /\ files \subseteq File
  /\ shipped \subseteq fixed

\* Each splice errs alone or not, and worlds only add up what their splices raise, in
\* files the splice itself watches.
Independent(c) ==
  /\ \A w \in SUBSET Splice : Raises(c, w) = UNION {Raises(c, {p}) : p \in w}
  /\ \A p \in Splice : Raises(c, {p}) \ Warning \subseteq Watches(p)

\* Where splices do not interact, the diff is clean as a whole: whatever passes
\* verified its fixes, and whatever compose and the parse check left out of them.
IndependentDiffIsClean ==
  (step = "printed" /\ Independent(checker)) => Raises(checker, shipped) \subseteq Warning

\* patch.rs:13, "one patch per site": `apply_edits` reads spans as disjoint, so no fix in
\* the diff edits a line another deletes, and none repeats part of a larger deletion.
SitesAreSettled == \A p, q \in shipped :
  /\ Touches[p] \intersect Takes[q] = {}
  /\ Takes[p] # {} => ~(Lines(p) \subseteq Takes[q] /\ Lines(p) # Takes[q])
=============================================================================
