------------------------------ MODULE RsVerify ------------------------------
(***************************************************************************)
(* The Rust `verify_splice` (crates/rs-provers/src/splice.rs): the loop of *)
(* core::worlds over the worlds of RsWorlds.  Every splice deletes an item *)
(* and is owned by its module, so an error anywhere implicates it and no   *)
(* span hosts one.  A `cargo check` that dies after its first error counts *)
(* as one that ended (worlds.rs:61), with the rows it had written.         *)
(*                                                                         *)
(* An error is abstracted to a place: the project root whose check reports *)
(* it, and whether the splices broke it or the audited tree had it.        *)
(***************************************************************************)
EXTENDS RsWorlds

CONSTANTS
  Checker,    \* what the compiler may say: [own, joint, at]
  Proposals,  \* the sets of splices the rule may propose
  Old         \* Old[r]: the errors root r of the audited tree has as it is

\* Splices are numbered in id order, and a pass without one returns before it asks
\* (splice.rs:140-142).
ASSUME VerifyAssumption ==
  /\ Splice \subseteq Nat /\ IsFiniteSet(Splice)
  /\ Proposals \subseteq (SUBSET Splice) \ {{}}

VARIABLES
  checker, live,
  phase, groups, banned,   \* as in Vetoed
  missing,                 \* a world asked for was not answered
  tested, turns,           \* worlds the loop asked for, and its turns
  waiting,                 \* a batch is with the oracle
  base,                    \* the errors the base check reported
  rows                     \* what the worlds of the call added, as <<world, place>>

prog  == <<checker, live>>
loop  == <<phase, groups, banned, missing, tested, turns>>
pvars == <<vars, prog, loop, waiting, base, rows>>

New(r) == <<r, "new">>

\* The roots in which world w breaks: p breaks own[p] alone, the members of `joint`
\* together break `at`.
Breaks(c, w) ==
  (UNION {c.own[p] : p \in w}) \union (IF c.joint # {} /\ c.joint \subseteq w THEN c.at ELSE {})

\* What cargo writes of world w in root r when it ends.
Writes(c, w, r) == Old[r] \union {New(q) : q \in Breaks(c, w) \intersect {r}}

\* The compiler as the loop meets it: over the roots the recorded member list has a world
\* checked in, against what the base check reported.
Met == [says |-> checker, reads |-> reads, base |-> base]

\* What a complete pass over world w adds.
Adds(m, w) == (UNION {Writes(m.says, w, r) : r \in OwnersGiven(m.reads, w)}) \ m.base

Loop == INSTANCE Vetoed WITH
  File <- {0}, Place <- (Root \X {"new"}) \union UNION {Old[r] : r \in Root}, Warning <- {},
  At <- [pl \in (Root \X {"new"}) \union UNION {Old[r] : r \in Root} |-> 0],
  Rel <- [p \in Splice |-> 0], Body <- [p \in Splice |-> {}],
  Watched <- [p \in Splice |-> {}], WatchesAll <- Splice, Batches <- Proposals,
  Raises <- Adds, checker <- Met, absent <- missing, asked <- tested, passes <- turns

InitV ==
  /\ Init
  /\ checker \in Checker /\ live \in Proposals
  /\ phase = "merged" /\ groups = {} /\ banned = {} /\ missing = FALSE
  /\ tested = 0 /\ turns = 0 /\ waiting = FALSE
  /\ base = {} /\ rows = {}

-----------------------------------------------------------------------------
\* Mutant of Heard: a killed cargo is an answer whatever it wrote.
HeardAny(ends) == SUBSET ends

\* What may be heard of a cargo that would write `ends`: a killed one counts when an error
\* is among the rows it had written.
Heard(ends) == {ends} \union ((SUBSET ends) \ {{}})

OpeningPass ==
  /\ Load \/ Loaded \/ Members
  /\ UNCHANGED <<prog, loop, waiting, base, rows>>

BaseReport ==
  /\ BaseCheck
  /\ \/ UNCHANGED base /\ First(todo) \in down'
     \/ First(todo) \notin down /\ \E wrote \in Heard(Old[First(todo)]) : base' = base \union wrote
  /\ UNCHANGED <<prog, loop, waiting, rows>>

\* The groups as the loop asks for them: cut by position, they stay in the order of the ids.
InOrder(gs) ==
  [i \in 1 .. Cardinality(gs) |->
     CHOOSE g \in gs : Cardinality({h \in gs : First(h) < First(g)}) = i - 1]

AskFor(gs) ==
  /\ ~waiting
  /\ Ask(InOrder(gs))
  /\ waiting' = TRUE /\ rows' = {}
  /\ UNCHANGED <<prog, loop, base>>

AskMerged == phase = "merged" /\ AskFor({live})
AskLevel  == phase = "splitting" /\ AskFor(groups)

\* One root's check of the world at hand.
Report(r) ==
  /\ Check(r)
  /\ \E wrote \in Heard(Writes(checker, World, r)) :
       rows' = rows \union {<<World, e>> : e \in wrote \ base}
  /\ UNCHANGED <<prog, loop, waiting, base>>

Serving ==
  /\ \/ Open \/ CopyFails \/ LayFails \/ Laid \/ Answer
     \/ \E f \in File : Restore(f) \/ Write(f)
     \/ \E r \in Root : CheckFails(r)
  /\ UNCHANGED <<prog, loop, waiting, base, rows>>

\* The call is over; the worlds it answered, and what the loop reads of each.
Back == waiting /\ step = "idle"

Added == [w \in Answered |-> {row[2] : row \in {q \in rows : q[1] = w}}]

\* Mutant of TakeLevel: the missing worlds of a level are not noted.
TakeLevelDeaf ==
  /\ Back /\ phase = "splitting"
  /\ banned' = banned \union UNION {Loop!Convicted(g, Loop!Reply(Added, g)) : g \in groups}
  /\ groups' = UNION {Loop!Regrouped(g, Loop!Reply(Added, g)) : g \in groups}
  /\ phase' = IF groups' = {} THEN "resolved" ELSE "splitting"
  /\ tested' = tested + Cardinality(groups) /\ turns' = turns + 1
  /\ waiting' = FALSE
  /\ UNCHANGED <<vars, prog, missing, base, rows>>

TakeMerged ==
  /\ Back /\ phase = "merged"
  /\ LET errs     == Loop!Reply(Added, live)
         suspects == Loop!Live(live, errs)
     IN  groups' = IF suspects = {} THEN {} ELSE Loop!Split(suspects, errs)
  /\ phase' = IF groups' = {} THEN "resolved" ELSE "splitting"
  /\ missing' = (live \notin Answered)
  /\ waiting' = FALSE
  /\ UNCHANGED <<vars, prog, banned, tested, turns, base, rows>>

TakeLevel ==
  /\ Back /\ phase = "splitting"
  /\ banned' = banned \union UNION {Loop!Convicted(g, Loop!Reply(Added, g)) : g \in groups}
  /\ groups' = UNION {Loop!Regrouped(g, Loop!Reply(Added, g)) : g \in groups}
  /\ phase' = IF groups' = {} THEN "resolved" ELSE "splitting"
  /\ missing' = (missing \/ Answered # groups)
  /\ tested' = tested + Cardinality(groups) /\ turns' = turns + 1
  /\ waiting' = FALSE
  /\ UNCHANGED <<vars, prog, base, rows>>

\* The one thread that runs the pass.
Running == OpeningPass \/ BaseReport \/ AskMerged \/ AskLevel \/ Serving
           \/ (\E r \in Root : Report(r)) \/ TakeMerged \/ TakeLevel

SpecV == InitV /\ [][Running]_pvars

FairSpecV == SpecV /\ WF_pvars(Running)
-----------------------------------------------------------------------------
\* What verify_splice returns: nothing at all where a world went missing.
Verified == IF phase # "resolved" \/ missing THEN {} ELSE live \ banned

\* worlds.rs of core: "the one loop both stacks run".  Over this oracle, whose answers stop
\* half way and whose cargo dies, each turn is the loop's turn on complete answers.
CallIsTheLoop == [][pass = "ready" => Loop!Next \/ UNCHANGED Loop!vars]_pvars

\* splice.rs:127-130: each splice verified is one "no world raised a new error under", and
\* "silence verifies nothing": its own world, complete, adds no error in any root that the
\* recorded member list gives it, whatever stopped and whichever cargo died.
VerifiedAreClean == \A p \in Verified : Adds(Met, {p}) = {}

\* cargo.rs:311-314: "an edit is checked in every root whose build reads it", so "a splice
\* only a downstream crate breaks is vetoed rather than verified".
DownstreamBreaksAreVetoed == \A p \in Verified : Breaks(checker, {p}) = {}

\* The pass returns, whatever stops in it.
VerifyReturns == <>(phase = "resolved")
=============================================================================
