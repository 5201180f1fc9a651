------------------------------ MODULE PyVerify ------------------------------
(***************************************************************************)
(* `Provers::verify_splice` of the Python stack: one call, from the batch  *)
(* of placed splices to the map of verified ones.  The veto half is Vetoed *)
(* with the checker reached through the oracle, which answers a batch of   *)
(* worlds whole or crashes and stays down, and which looks only at the     *)
(* files the batch watches.  The receipt half decides, for the splices not *)
(* vetoed, whether a check in their callee body became redundant: from the *)
(* merged world where the body or the operand attributes it, from isolated *)
(* worlds where neither does.                                              *)
(***************************************************************************)
EXTENDS Vetoed

CONSTANTS
  Callee,       \* Callee[p]: the body p is placed in, a file's own for module owners
  Param,        \* Param[p]: the parameter p annotates
  NoParam,      \* ... or none
  Names,        \* Names[pl]: the identifiers the source spells from place pl on
  MaxWatched,   \* past this many watched files a world is checked whole
  MaxGone       \* bound: splices of a batch whose file is missing

ASSUME CalleeAssumption ==
  /\ \A p, q \in Splice : Callee[p] = Callee[q] => Rel[p] = Rel[q] /\ Body[p] = Body[q]
  /\ \A p \in Splice : NoParam \notin UNION {Names[pl] : pl \in Body[p]}
  /\ MaxWatched \in Nat /\ MaxGone \in Nat

VARIABLES
  gone,     \* the placed splices whose file is not on disk when the pass starts
  step,     \* "open", "attributed", "judged", "returned"
  down,     \* the oracle's failure is set
  hints,    \* what the merged world returned
  outcome,  \* the outcome map of `verify`; "none" where it has no entry
  alone,    \* the splices no operand resolves
  lost,     \* some world asked for in this call came back without an answer
  result    \* what verify_splice returns; "absent" where it has no entry

pyVars == <<gone, step, down, hints, outcome, alone, lost, result>>
allVars == <<vars, pyVars>>

-----------------------------------------------------------------------------
\* Mutant of FilesOf: looks at the edited files and not at their callers.
FilesEdited(group) == {Rel[p] : p \in group}

\* The places the checker looks at for a batch whose worlds hold these splices.
FilesOf(group) == UNION {Watched[p] \union {Rel[p]} : p \in group}

Reached(group) ==
  IF group \intersect WatchesAll # {} \/ Cardinality(FilesOf(group)) > MaxWatched
  THEN Place
  ELSE {pl \in Place : At[pl] \in FilesOf(group)}

\* One oracle pass over a batch of worlds: every world, cut to what the batch
\* reaches, or none because the checker panicked in this pass or an earlier one.
Answered(batch) ==
  [w \in batch |-> Raises(checker, w) \intersect Reached(UNION batch)]

Silence == [w \in {} |-> {}]

Pass(batch, added) ==
  IF batch = {} THEN added = Silence /\ UNCHANGED down
  ELSE \/ ~down /\ added = Answered(batch) /\ UNCHANGED down
       \/ added = Silence /\ down' = TRUE

-----------------------------------------------------------------------------
\* The redundancy warnings in p's callee body.
BodyHints(p, seen) == Body[p] \intersect seen \intersect Warning

ReceiptOf(p, seen) == IF BodyHints(p, seen) # {} THEN "receipt" ELSE "clean"

Judge(p, seen) == IF Errored(p, seen) THEN "veto" ELSE ReceiptOf(p, seen)

\* The splices placed in the same callee body as p.
Mates(p) == {q \in live : Callee[q] = Callee[p]}

Owners(mates, pl) == {q \in mates : Param[q] \in Names[pl]}

\* Mutant of OperandsResolve: a warning that names no mate's parameter is let pass.
OperandsResolveOrNone(mates, seen) ==
  /\ \A q \in mates : Param[q] # NoParam
  /\ \A q, r \in mates : Param[q] = Param[r] => q = r
  /\ \A q \in mates : \A pl \in BodyHints(q, seen) : Cardinality(Owners(mates, pl)) <= 1

\* Every mate annotates a parameter of its own, and each warning names one of them.
OperandsResolve(mates, seen) ==
  /\ \A q \in mates : Param[q] # NoParam
  /\ \A q, r \in mates : Param[q] = Param[r] => q = r
  /\ \A q \in mates : \A pl \in BodyHints(q, seen) : Cardinality(Owners(mates, pl)) = 1

\* The receipt p earns in the merged world, where something attributes it.
MergedReceipt(p, seen) ==
  IF Mates(p) = {p} THEN ReceiptOf(p, seen)
  ELSE IF \E pl \in BodyHints(p, seen) : Owners(Mates(p), pl) = {p} THEN "receipt"
  ELSE "clean"

Unresolved(seen) ==
  {p \in live : Mates(p) # {p} /\ ~OperandsResolve(Mates(p), seen)}

-----------------------------------------------------------------------------
PyInit ==
  /\ Init
  /\ gone \in SUBSET (Splice \ live) /\ Cardinality(gone) <= MaxGone
  /\ step = "open"
  /\ down \in BOOLEAN
  /\ hints = {}
  /\ outcome = [p \in Splice |-> "none"]
  /\ alone = {}
  /\ lost = FALSE
  /\ result = [p \in Splice |-> "absent"]

\* No working oracle: the call returns an empty map at once.
Refuse ==
  /\ step = "open" /\ phase = "merged" /\ down
  /\ step' = "returned"
  /\ UNCHANGED <<vars, gone, down, hints, outcome, alone, lost, result>>

PyMerged ==
  /\ step = "open" /\ phase = "merged"
  /\ live # {} /\ ~down
  /\ \E added \in {Answered({live}), Silence} :
       /\ Pass({live}, added)
       /\ Merged(added)
       /\ hints' = IF added = Silence THEN {}
                   ELSE Answered({live})[live]
       /\ lost' = (added = Silence)
  /\ UNCHANGED <<gone, step, outcome, alone, result>>

\* verify.rs:106-108: nothing on disk to verify, no world is asked.
NothingLive ==
  /\ step = "open" /\ phase = "merged" /\ ~down
  /\ live = {}
  /\ step' = "judged"
  /\ UNCHANGED <<vars, gone, down, hints, outcome, alone, lost, result>>

PyLevel ==
  /\ step = "open" /\ phase = "splitting"
  /\ \E added \in {Answered(groups), Silence} :
       /\ Pass(groups, added)
       /\ Level(added)
       /\ lost' = (lost \/ added = Silence)
  /\ UNCHANGED <<gone, step, hints, outcome, alone, result>>

\* Vetoes, then a receipt for every other splice whose body attributes it.
Attribute ==
  /\ step = "open" /\ phase = "resolved"
  /\ alone' = Unresolved(hints) \ banned
  /\ outcome' = [p \in Splice |->
       IF p \in banned THEN "veto"
       ELSE IF p \in live \ alone' THEN MergedReceipt(p, hints)
       ELSE "none"]
  /\ step' = "attributed"
  /\ UNCHANGED <<vars, gone, down, hints, lost, result>>

\* Mutant of Isolate: waits for a splice to isolate.
IsolateSome ==
  /\ step = "attributed" /\ alone # {}
  /\ \E added \in {Answered({{p} : p \in alone}), Silence} :
       /\ Pass({{p} : p \in alone}, added)
       /\ outcome' = [p \in Splice |->
            IF p \notin alone THEN outcome[p]
            ELSE IF {p} \in DOMAIN added
            THEN Judge(p, added[{p}])
            ELSE "clean"]
       /\ lost' = (lost \/ added = Silence)
  /\ step' = "judged"
  /\ UNCHANGED <<vars, gone, hints, alone, result>>

\* The rest get a world each; the call is made even when there is none.
Isolate ==
  /\ step = "attributed"
  /\ \E added \in {Answered({{p} : p \in alone}), Silence} :
       /\ Pass({{p} : p \in alone}, added)
       /\ outcome' = [p \in Splice |->
            IF p \notin alone THEN outcome[p]
            ELSE IF {p} \in DOMAIN added
            THEN Judge(p, added[{p}])
            ELSE "clean"]
       /\ lost' = (lost \/ (alone # {} /\ added = Silence))
  /\ step' = "judged"
  /\ UNCHANGED <<vars, gone, hints, alone, result>>

\* Mutant of Return: does not look whether the checker crashed under the call.
ReturnCrashed ==
  /\ step = "judged"
  /\ result' = [p \in Splice |->
       IF p \notin live \union gone \/ outcome[p] = "veto" THEN "absent"
       ELSE IF outcome[p] = "receipt" THEN "receipt"
       ELSE "clean"]
  /\ step' = "returned"
  /\ UNCHANGED <<vars, gone, down, hints, outcome, alone, lost>>

\* verify_splice drops the vetoed ones, and everything where the checker crashed.
Return ==
  /\ step = "judged"
  /\ result' = [p \in Splice |->
       IF down \/ p \notin live \union gone \/ outcome[p] = "veto" THEN "absent"
       ELSE IF outcome[p] = "receipt" THEN "receipt"
       ELSE "clean"]
  /\ step' = "returned"
  /\ UNCHANGED <<vars, gone, down, hints, outcome, alone, lost>>

PyNext ==
  Refuse \/ PyMerged \/ NothingLive \/ PyLevel \/ Attribute \/ Isolate \/ Return

PySpec == PyInit /\ [][PyNext]_allVars

\* One thread runs the call to its end.
PyFairSpec == PySpec /\ WF_allVars(PyNext)
-----------------------------------------------------------------------------
\* The verdict of the world holding p alone (verify.rs:30-31).
OwnVerdict(p) == Judge(p, Raises(checker, {p}))

Hints(w) == Raises(checker, w) \intersect Warning

\* A warning a splice raises is in its own callee body, no matter who else is in the
\* world, and spells its parameter wherever it spells a neighbour's.
OperandFaithful ==
  /\ \A w \in SUBSET Splice : Hints(w) = UNION {Hints({p}) : p \in w}
  /\ \A p, q \in Splice : \A pl \in Hints({p}) \intersect Body[q] :
       /\ Callee[p] = Callee[q]
       /\ Param[q] \in Names[pl] => Param[p] \in Names[pl]

\* lib.rs:453-456 and splice.rs's "silence verifies nothing": a crash in any pass of the
\* call, the first, the last or one between, leaves no splice verified.
SilenceVerifiesNothing ==
  (step = "returned" /\ lost) => \A p \in Splice : result[p] = "absent"

\* verify.rs:90: "every verdict the one an isolated world gives", vetoes and receipts
\* both, where the checker is veto-monotone and its warnings operand-faithful.
VerdictsReproduced ==
  (step = "returned" /\ ~down /\ VetoMonotone(checker) /\ OperandFaithful) =>
    \A p \in live : OwnVerdict(p) = (IF result[p] = "absent" THEN "veto" ELSE result[p])

\* The file cut hides nothing from the loop: with each batch checked only in the files
\* it watches, the call still behaves as the loop over whole-world answers.
ImplementsVetoed == Spec

\* The call returns.
PyReturns == <>(step = "returned")
=============================================================================
