------------------------------- MODULE Vetoed -------------------------------
(***************************************************************************)
(* The group-testing loop of crates/core/src/worlds.rs (`vetoed`) together *)
(* with the merged world both callers open it with.  One Level step is one *)
(* turn of the while loop: a batch of worlds, one per pending group, goes  *)
(* to the checker, which may leave any of them unanswered because it       *)
(* crashed under the pass.  An unanswered world reads as a world without   *)
(* diagnostics (worlds.rs:107-111).                                        *)
(***************************************************************************)
EXTENDS Worlds

VARIABLES
  checker,  \* the checker this run of the program meets
  live,     \* the splices under verification
  phase,    \* "merged", then "splitting", then "resolved"
  groups,   \* the pending groups; each stays in id order, so a set will do
  banned,   \* the ids `vetoed` returns
  absent,   \* some world asked for was not answered
  asked,    \* worlds asked of the checker by the loop
  passes    \* turns of the loop, one checker pass each

world == <<checker, live>>
vars  == <<checker, live, phase, groups, banned, absent, asked, passes>>

\* The diagnostics the checker returns for a batch of worlds.
Truth(batch) == [w \in batch |-> Raises(checker, w)]

\* Mutant of Reply: a world without an answer reads as one that errs everywhere.
ReplyErrs(added, w) == IF w \in DOMAIN added THEN added[w] ELSE Place

\* What the loop reads for one world of the batch.
Reply(added, w) == IF w \in DOMAIN added THEN added[w] ELSE {}

Init ==
  /\ checker \in Checker
  /\ live \in Batches
  /\ phase = "merged"
  /\ groups = {}
  /\ banned = {}
  /\ absent = FALSE
  /\ asked = 0
  /\ passes = 0

\* Every splice in one world; the ones it implicates are split.
Merged(added) ==
  /\ phase = "merged"
  /\ LET errs     == Reply(added, live)
         suspects == Live(live, errs)
     IN  groups' = IF suspects = {} THEN {} ELSE Split(suspects, errs)
  /\ phase' = IF groups' = {} THEN "resolved" ELSE "splitting"
  /\ absent' = (live \notin DOMAIN added)
  /\ UNCHANGED <<checker, live, banned, asked, passes>>

\* Mutant of Level: the loop goes on only for a group it can split.
LevelOfPairs(added) ==
  /\ phase = "splitting"
  /\ \E g \in groups : Cardinality(g) > 1
  /\ banned' = banned \union UNION {Convicted(g, Reply(added, g)) : g \in groups}
  /\ groups' = UNION {Regrouped(g, Reply(added, g)) : g \in groups}
  /\ phase' = IF groups' = {} THEN "resolved" ELSE "splitting"
  /\ absent' = (absent \/ DOMAIN added # groups)
  /\ asked' = asked + Cardinality(groups)
  /\ passes' = passes + 1
  /\ UNCHANGED world

Level(added) ==
  /\ phase = "splitting"
  /\ banned' = banned \union UNION {Convicted(g, Reply(added, g)) : g \in groups}
  /\ groups' = UNION {Regrouped(g, Reply(added, g)) : g \in groups}
  /\ phase' = IF groups' = {} THEN "resolved" ELSE "splitting"
  /\ absent' = (absent \/ DOMAIN added # groups)
  /\ asked' = asked + Cardinality(groups)
  /\ passes' = passes + 1
  /\ UNCHANGED world

Next ==
  \/ \E answered \in SUBSET {live} : Merged(Truth(answered))
  \/ \E answered \in SUBSET groups : Level(Truth(answered))

Spec == Init /\ [][Next]_vars

\* The loop runs on one thread that does nothing else until it returns.
FairSpec == Spec /\ WF_vars(Next)

-----------------------------------------------------------------------------
TypeOK ==
  /\ checker \in Checker
  /\ live \in Batches
  /\ phase \in {"merged", "splitting", "resolved"}
  /\ groups \in SUBSET SUBSET live
  /\ banned \in SUBSET live
  /\ absent \in BOOLEAN
  /\ asked \in Nat
  /\ passes \in Nat

Guilty   == {p \in live : ErrsAlone(checker, p)}
Suspects == Live(live, Raises(checker, live))

\* "A neighbour's breakage never vetoes by contamination" (verify.rs:92-93): a
\* splice is vetoed only for an error its own world raises, whatever the checker
\* answers and whichever worlds it loses.
NoContamination == banned \subseteq Guilty

\* No group is dropped with a guilty splice in it: while every world was answered, a
\* splice that errs alone is still waiting in a group or is already vetoed.
GuiltyAccounted ==
  (phase # "merged" /\ ~absent /\ VetoMonotone(checker)) =>
    Guilty \subseteq banned \union UNION groups

\* The doc of `vetoed` (worlds.rs:74): the set returned is "the suspects an isolated
\* world would veto", for a veto-monotone checker that answered every world.
VerdictsAreIsolated ==
  (phase = "resolved" /\ ~absent /\ VetoMonotone(checker)) => banned = Guilty

\* The same as a refinement: seen from its caller the loop is one step that gives every
\* splice the verdict of its own world, or loses the pass (IsolatedVerdicts).
Isolated == INSTANCE IsolatedVerdicts WITH verdict <-
  [state |-> IF phase # "resolved" THEN "pending"
             ELSE IF absent THEN "lost" ELSE "given",
   vetoed |-> IF phase = "resolved" /\ ~absent THEN banned ELSE {}]

ImplementsIsolated == Isolated!Spec

\* A pass never tests an empty world, nor a splice in two worlds, nor a vetoed splice
\* again.
TestedOnce ==
  /\ {} \notin groups
  /\ \A g, h \in groups : g = h \/ g \intersect h = {}
  /\ \A g \in groups : g \intersect banned = {}

\* worlds.rs:80-82: "an all-veto set costs the isolated count plus the two worlds
\* that learned so".
AllVetoCost ==
  (~absent /\ VetoMonotone(checker) /\ phase = "resolved" /\ Suspects \subseteq Guilty) =>
    asked <= Cardinality(Suspects) + 2

\* One pass per level, and only halving buys a level: a group that is not yet a
\* singleton has at most n / 2^passes members of the n suspects.
PassDepth ==
  \A g \in groups :
    Cardinality(g) > 1 => Cardinality(g) * 2 ^ passes <= Cardinality(Suspects)

\* What a pass may cost, in worlds and in turns of the loop.
LoopCost == AllVetoCost /\ PassDepth

\* The loop ends: every group shrinks until its members are cleared or vetoed.
Resolves == <>(phase = "resolved")
=============================================================================
