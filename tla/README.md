# A TLA+ model of sightline

sightline is a linter for agent-written Python and Rust. It builds facts about a tree,
asks provers about them (an in-process type checker for Python, `cargo check` and a
call index for Rust), runs rules that emit findings, and acts on the findings through its
verbs: `audit` prints them, `gate` blocks on them against a baseline, `baseline` writes
and prunes that file, `fix` prints a diff of the edits it verified.

The parts that can go wrong without a test noticing are those with a protocol in them:
the group testing of edits in counterfactual worlds and the two oracles under it, the
memos and rules that share a thread pool, the build cache all audits share, the life of the
baseline file, the way two gates read a git work tree, the way separately verified edits
meet in one diff, and the graph analyses whose verdicts combine what several passes know.
Those are what is modelled here. Paths below are under `src/crates/` unless they name a
document.

## The system's parts

| part | state it keeps | operations | with whom | what is hard | what makes it correct |
|---|---|---|---|---|---|
| `core::worlds` | pending groups, vetoed ids, per call | `errored`, `split`, `vetoed` | called by both stacks' `verify`; calls the oracle through a closure | lost answers, errors that appear only in company, termination | each splice has the verdict of its own world, at bounded cost |
| Python counterfactual pass (`py-provers/src/counterfactual*`, `lib.rs`) | the outcome map of a call | `placed`, `verify`, `verify_splice` | rules and `fix` call it; it calls `vetoed` and the oracle | a crash in any pass, receipts in shared bodies, the cut to watched files | nothing is verified by silence; the cut hides nothing |
| Python oracle (`py-provers/src/oracle*`) | database, `failure`, base pass | `pass`, `base`, `verify_worlds` | behind a mutex | a panic poisons every later pass | after a failure no pass answers |
| memo products (`py-provers/src/lib.rs`) and the rule runner (`core/src/rule.rs`) | fifteen `OnceLock`s, the pool's queue | `warm`, the accessors, `run_split` | rules under rayon | work stealing into a running initializer | no worker waits for itself; world owners run alone |
| Rust oracle (`rs-provers/src/oracle/`) | roots that are down, recorded reads, the world tree, its overlay set | `graph`, `diagnostics`, `members`, `dependents`, `verify_worlds`, `lay`, `close` | spawns cargo; one lock per call | roots fail one by one; one tree serves all worlds; cargo is killed half way | a check sees its own world and nothing else; a world is checked everywhere it is read |
| Rust splices (`rs-provers/src/splice.rs`) | none | `verify_splice` | `vetoed` over `RsAnswers::verify_worlds` | worlds that go missing inside a level | as Python, without receipts |
| build cache (`oracle/cache.rs`) | a marker per root's directory, on disk | `sweep` at close | other audits of the user | check-then-remove against a running audit | a directory in use is not removed; one nobody uses is |
| ratchet (`core/src/ratchet.rs`) | `.sightline-baseline`, the legacy file | `load`, `diff`, `prune`, `save`, `snapshot` | `gate`, `baseline` | renames, merges, crashes in the write, a partial view in the fast gate | debt only falls; a move costs nothing |
| gates (`sightline/src/verbs/gate.rs`, `core/src/git.rs`, `pipeline.rs`) | none; they read HEAD, the index, the work tree, config and baseline | `run_fast`, `run_full`, `blockers`, `changed_files` | git, pipeline, ratchet | the fast gate sees part of the tree and runs part of the rules | it blocks no more than the full gate, and leaves it only repo-wide rules; both block what a change adds to the trunk |
| composition and emission (`core/src/patch.rs`, both `emit.rs`) | none | `compose`, `attach_fixes`, `unified_diff` | `fix` | edits verified apart are shipped together | one patch per site; the diff is clean |
| graph (`core/src/graph.rs`), effects, heat | per analysis | `tarjan_scc`, `summaries`, `hot_reachable` | call graph | cycles | components are mutual reachability; folding over them loses nothing |
| call resolution and call graph (`py-facts/src/resolve.rs`, `py-provers/src/callgraph*`, `closed_world.rs`) | tables built once | `resolve_call`, `judged`, `reasons` | oracle edges | guesses, overrides, escapes | what is reported dead, pure or hot is |
| dead-code rules (`py-rules/src/dead.rs`) | none | #32, #56, #60 | the graph and the closed world | the absence of evidence read as evidence | no finding on code that runs |
| facts, other rules, ranking, rendering, configuration | tables built once | pure functions | pipeline | syntax | the repository's fixtures |
| cli, testkit, xtask | none | argument parsing, tests, tooling | | | |

## The modules

| module | models | state and actions |
|---|---|---|
| `Worlds` | the static half of `core/src/worlds.rs`: which errors veto a splice, how a group is cut | operators only; splices are numbered in id order, a diagnostic is the place it is reported at |
| `IsolatedVerdicts` | what a pass promises its caller | one step, `Judge` (every splice gets the verdict of the world holding it alone) or `Lose` |
| `Vetoed` | the loop; extends `Worlds` | `Merged` is the world with every splice, `Level` one turn of the `while` loop; `added` is what the checker answers, any part of which may be missing |
| `PyVerify` | a whole `Provers::verify_splice` call; extends `Vetoed` and uses its actions as parts of its own | `Refuse`, `PyMerged`, `NothingLive`, `PyLevel`, `Attribute`, `Isolate`, `Return` |
| `RsWorlds` | the Rust oracle | `Load`, `Loaded`, `BaseCheck`, `Members` are the passes of `answers_of`; `Ask` is a call of `verify_worlds`; `Open`, `Restore`, `Write`, `Laid`, `Check`, `Answer` lay and check one world after another; `CopyFails`, `LayFails`, `CheckFails` are its early returns |
| `RsVerify` | the Rust `verify_splice`: composes the loop (an instance of `Vetoed`) with the oracle (`RsWorlds`) | every step of the oracle with what it reports (`BaseReport`, `Report`), `AskMerged`/`AskLevel` hand a batch over, `TakeMerged`/`TakeLevel` are the loop's turns on what came back |
| `RunRules`, `PyMemos` | `warm`, rayon's workers, the rules | a thread's calls nest (`top`, `under`); `Build`/`Read` are `get_or_init`, `Fork`/`Take` rayon's jobs and stealing, `Warm`, `Split`, `Joined`, `OwnWorld`, `Collect` the main thread. `PyMemos` is the Python stack's table of which product asks for which |
| `CacheSweep` | the cache under several audits | `Begin`, `Compile`, `Close`, `List`, `Enter`, `Judge`, `RemoveMarker`, `Remove`, `Closed` per audit; `Kill`; `Tick` is a day |
| `Ratchet` | the baseline file, the tree it describes and the two gates' ratchet side | `Edit`, `Rename`, `UnionMerge`, `RemoveFile` are developers and git; `Baseline`, `BaselinePrune` truncate the file, `Written` and `RemoveLegacy` finish a save, `Crash` ends it in between |
| `Gates` | both gates over a work tree with a base commit, HEAD and an index | `Write`, `Add`, `Untrack`, `Commit`, `Configure`, `Baseline`, `Inherit`; what a gate does is an operator of the state (`FastBlockers`, `FullBlockers`) |
| `FixDiff` | the way of a fix into the diff; extends `Worlds` | `Verify` (a pass over some of the splices, some of whose findings are then suppressed), `Compose`, `Emit` (one file), `Printed` |
| `Condensation` | the iterative Tarjan search and the two walks over its components | `Start`, `Descend`, `Close` are turns of the search; `FoldNext` folds one component's effects; `SeedHeat`, `Spread` |
| `PyProgram` | a Python program's classes, functions and calls, what Python runs at a call, and the verdict of `resolve_call` | `Call` adds one call site |
| `PyCalls` | the analyses over such a program, with and without the checker; extends `PyProgram` | operators of the state: `Full`, `Degraded`, `Reasons`, `Effects`, `Hot`, `Dead32`, `Dead56`, `Dead60` |
| `Closures` | a walk along a table until a turn adds nothing; used by `PyProgram` and `Condensation` | operators only: the code's class walks, call-graph walks and hot walk are all this one |
| `PyVerifyProofs`, `RsVerifyProofs` | the theorems about the Python and the Rust call, and about the parts each extends: `Vetoed`, `RsWorlds` | |
| `PyAnalysesProofs` | the theorems about `Condensation` and `PyCalls`, which rest on the same lemmas about closures | |
| other `...Proofs` | the theorems about the module each is named after | |
| `MC...` | the instances TLC checks | |

`Vetoed` is shared: the Python and the Rust stack call the same Rust function. A checker
is any function from the world (a set of splices) to the places it adds diagnostics at.
`VetoMonotone` is the one property the code relies on, and it is weaker than the comment
at `core/src/worlds.rs:74-77` says: not that a smaller world raises no more errors, only
that a splice that errs alone is implicated in every world that holds it. Errors that two
splices raise only together are allowed, and do not veto either of them.

The abstract specifications and what implements them: `IsolatedVerdicts` by `Vetoed`
(`ImplementsIsolated`), `Vetoed` by `PyVerify` (`ImplementsVetoed`) and by `RsVerify`
(`CallIsTheLoop`, stated as an action property once the oracle is open).

`Condensation` and `PyCalls` split one piece of code between them: the first shows that the
walk over components computes what a function reaches, the second states effects and heat
by reachability. Two theorems join them (`FoldsNeverClaimClean`, `HeatReachesTheHotSet`).

Each module also holds a few definitions commented "Mutant of ...": the same definition
with a plausible bug. With it in place the property named beside it in PROJECT.json fails,
which shows that the property looks at that code.

## What the runs check

| run | question | bounds | result |
|---|---|---|---|
| `Vetoed` | does the loop give every splice its own world's verdict, whatever answers are lost, at the promised cost, and end? | five splices in two files, one watching a caller, one watching everything; errors and warnings alone and in pairs | holds |
| `PyVerify` | is the Python call as a whole faithful with crashes, cuts and shared bodies? | five splices, two in one function, two module owners; the cut is off past two files; one file may be gone | holds |
| `RsVerify` | is the Rust call the same loop, when worlds end a call half way and cargo dies between rows? | three roots in a chain of path dependencies, a file under none, four splices, up to five calls of the oracle | holds |
| `RsDownstream` | is a splice that only a downstream crate breaks vetoed? | as `RsVerify` | violated |
| `RunRules` | can a thread wait for a cell it is building; do world owners run alone; do the rules end? | the Python stack's seventeen cells, two workers, two jobs per forking cell, six rules of which two own worlds | holds |
| `CacheSweep` | is a directory in use kept, and a forgotten one removed? | two audits, two roots, stale after two days, a sweep at most a day long, no bound on time | holds |
| `Ratchet` | does debt only fall, do moves cost nothing, does the fast gate report a subset? | three symbols, two bodies, up to two findings per key, one edit or merge and any number of renames, saves and crashes | holds |
| `Gates` | does the fast gate stay within the full one and leave it only repo-wide rules; does what a change adds block, and nothing else? | three files of two languages, four texts, six readings of three ids, three steps of a developer | holds |
| `GatesBelowTop` | the same diff with the root below the repository's top | as `Gates` | violated |
| `FixDiff` | is the diff one patch per site, and clean where fixes do not interact? | six fixes in two files, every partition into passes | holds |
| `Condensation` | does the search find the components, and do the folds over them compute reachability? | all 4096 graphs over four functions without self calls | holds |
| `PyCalls` | is what is reported dead, test-only, pure or hot so, with and without the checker? | three classes in four hierarchies, a module function, one method name, constructors, nine ways a function escapes or none, every program of two calls | holds |

The bounds are those at which every branch is taken. Five splices give a group that is
split by hosts, one that is halved and one that falls to the majority rule. Three roots
are the fewest with a dependent of a dependent. Two workers are the fewest between which
work can be stolen, and one job beyond the first lets a fork be half done. Two audits are the
fewest of which one sweeps what the other builds. Three symbols are the fewest with one
that keeps its name, one that moves and one whose entry is up for a claim; two counts are
the fewest that tell a claim of the wrong entry from the right one. Four functions are the
fewest with a cycle that is entered, left and passed by. Two calls are the fewest with a
caller of a caller, or with a guess beside the call it competes with.
`MaxEdits` = 1 in `Ratchet` and `MaxSteps` = 3 in `Gates` are the bounds to know of: in the
first, one change of a body or one merge already reaches every kind of mismatch between an
entry and the tree because renames are unbounded; in the second, three steps are a write,
a staging and a commit, and the theorems below remove the bound.

`CHECK_DEADLOCK FALSE` is given for the modules that model a call or a bounded number of
steps that ends: `Vetoed`, `PyVerify`, `FixDiff`, `RsVerify`, `Gates`, `PyCalls`.
`RunRules` and `Condensation` have an explicit last stutter and check deadlock: a stuck
thread or walk would be one.

### Fairness

- `vetoed`, a Python `verify_splice` call and a Rust one are run by one thread with nothing
  else to do: weak fairness of the call's own next step.
- `RunRules`: weak fairness of the main thread and of each worker, which the operating
  system runs while they are not blocked. No fairness is assumed of which work a worker
  takes.
- `CacheSweep`: time passes, and an audit that is not killed runs on. `ForgottenGoes` has a
  hypothesis (`Orderly`): from some time on sweeps come to their end, without deaths and
  not two at once. Without it a killed sweep may undo another's work for ever, and a
  directory whose marker went first is marked anew.

No fairness is assumed of callers, developers, or of the checker answering at all: a pass
that never returns is outside the model, as the code has no timeout either.

### Where code and text differ

Two differences have a run:

- `RsDownstream`. A root that stops before the member list is taken loses its outgoing
  reads, and worlds over its dependencies are answered without it; had it stopped after,
  those calls would have ended without an answer (`oracle/cargo.rs:112`, against
  `cargo.rs:314-315`).
- `GatesBelowTop`. `git diff --name-only` spells files from the top of the repository, and
  the gate looks them up below its root (`core/src/git.rs:151`, `gate.rs:147-155`, against
  `docs/reference.md:43`).

Others were met while modelling. The models follow the code, and the properties are stated
so that they hold of it:

- `core/src/worlds.rs:42-46` speaks of errors in a member's body; the split goes by every
  diagnostic there, warnings too. No property depends on which.
- `verify.rs:90` promises every verdict is "the one an isolated world gives". A splice
  alone in its body takes its receipt from the merged world (`verify.rs:178`), where a
  warning may come from another splice. `VerdictsReproduced` speaks of checkers whose
  warnings stay in the body of the splice that raises them (`OperandFaithful`).
- `baseline --prune` drops an entry that a renamed symbol's finding claims
  (`ratchet.rs:274`, `docs/reference.md:48`), and a green tree turns red.
- The fast gate sees fewer keys, so entries another file owns look free; a moved symbol can
  claim a smaller one than in the full gate and be blocked (`ratchet.rs:207`,
  `docs/reference.md:133`). `FastReportsSubset` speaks of equal counts per shape; `Gates`
  keeps entries fixed and states the rest of the sentence.
- The diff as a whole is parsed and never checked (`py-rules/src/emit.rs:382`): two fixes
  that err only together are verified apart and shipped together. `IndependentDiffIsClean`
  speaks of fixes that do not interact.
- A killed cargo counts as an answer if it wrote an error (`oracle/worlds.rs:61`). Over a
  tree that had errors of its own, that error may be an old one, and the world reads as
  clean. `VerifiedAreClean` is checked, and proved, over a tree that compiles (`CleanTree`).
- #60 without the checker is not a subset of #60 with it: a call behind a chain
  (`self.a.g()`) of a name two definitions share leaves no guess to count against the
  claim. `GuessesCountAgainst` says that is the only way.
- Inside a cycle `hot_reachable` raises only the direct callees of a loop's edges
  (`hotness.rs:309`); `HeatFlows` says what that still gives.
- The walk for a constructor takes the last base of a class first (`CtorUp`), where Python
  takes the first. `EffectsAreSound` holds all the same, because the body not taken is an
  override and taints its caller.

A symbol renamed to a name the baseline still holds takes that name's count. The
reference says as much (`docs/reference.md:180`, "a finding whose key the baseline
lacks"), so `MovesAreFree` speaks of names the file does not hold.

## What is proved

All proofs are for any value of the constants: any number of splices, files, roots, memos,
workers, rules, audits, days and steps, and any checker.

`PyVerifyProofs` on `Vetoed`, from the named assumptions of `Worlds` (splices are finitely
many numbers, a place is in one file, a body is in the file its splice edits):

- `TypeCorrect`. Groups and vetoes stay within the splices under verification.
- `NeverContaminated`. Inductive as it stands with the types: only a world of one splice
  convicts.
- `NoneEscapes`. `GuiltyAccounted` is not preserved alone. The invariant adds that each
  pending group consists of splices under verification and that nothing is pending once
  the loop has resolved; the step then needs that a cut loses no member (`SplitCovers`),
  that a world implicates every guilty member it holds (`GuiltyShows`) and that a group of
  more than one keeps all its implicated members (`RegroupedCovers`).
- `Faithful` puts the two together: a resolved loop returns exactly the guilty.
- `NoneTestedTwice`. Pending groups have members, share none and hold no vetoed splice.
  Inductive with the types; that a group of two or more is cut into two halves that both
  have members goes by a pigeonhole argument over the ranks of its members.
- `Refinement`. Where all checkers are veto-monotone, every step of the loop is a step or a
  stutter of `IsolatedVerdicts`.
- `CostIsBounded`. Two bounds. A group of two or more after `n` levels was `2^n` times as
  large (`PassDepth`, with `Doubles` for the powers of two): a cut leaves no half larger
  than half, and a group is only kept as it is when it is a singleton. And where
  every suspect is guilty the invariant `Priced` follows the loop through its three turns:
  a pair of groups, their singletons, nothing.

`PyVerifyProofs` on the call, from the assumptions of `Worlds` and `CalleeAssumption`:

- `CallImplementsLoop`. Every step of the call is a step or a stutter of `Vetoed`: the
  cut keeps everything a splice of the batch watches and everything in its body
  (`CutReaches`), so the loop decides the same of every group (`CutHidesNothing`). All
  theorems about `Vetoed` carry over to the call by it.
- `CallKeepsThePromise`. With `Refinement`: the call as a whole implements
  `IsolatedVerdicts`, under checkers that are veto-monotone.
- `NothingBySilence`. The invariant `Crashes`: a lost world means the oracle is down, it
  stays down, and the loop only asks for a level while groups are pending.
- `OwnWorldsReproduced`. The vetoes are `Faithful` applied to the call. The receipts rest
  on `MergedReceiptIsOwn`: where every mate of a body annotates a parameter of its own and
  each warning names exactly one of them, an operand-faithful warning belongs to the
  splice it names. The invariant `Reproduced` carries both through the isolated worlds to
  the returned map.

`RsVerifyProofs` on the oracle, from `RsAssumption`:

- `WorldsDoNotLeak` and `OverlaySetIsReal`. The invariant says what the copy holds in each
  phase: between worlds every file outside the overlay set is the audited one (`Resting`),
  while a world is laid each file is done, still to do or untouched (`Laying`), and while
  it is checked the tree is the world (`Checking`). It is needed because the property
  about checks says nothing of the tree a later check will see. `Resting` is claimed of an
  idle oracle only while some root is up: after a write that failed the overlay set is
  wrong, and what saves the code is that the failure took every root down.
- `AnsweredEverywhere`. The invariant `Settled`: answered worlds were checked in all their
  owners, the one at hand in all that are no longer left, and what the owners are computed
  from was settled before the first call.

`RsVerifyProofs` on the call, from `RsAssumption`, `VerifyAssumption` (a call proposes at
least one splice, splices are finitely many numbers) and, but for the last, the hypothesis
`CleanTree`:

- `SilenceVerifiesNothing`. The invariant has three parts. The base check reports nothing.
  Every root an answered world was checked in kept a row of it where the world breaks
  there (`Told`, `Telling`): a cargo that died counts only if it left a row, and it had no
  other row to leave. And while no world went missing, every splice that breaks alone is
  vetoed or in a pending group (`Looping`): it breaks every world it is in, in a root that
  world is checked in (`BreaksInEvery`), so its group has a row, and an error anywhere
  sends a whole group on (`BreakerGoesOn`, `KeptOrVetoed`).
- `RustCallIsTheLoop`. The loop of `Vetoed` takes one step where the Rust call asks,
  serves the worlds one by one, stops or loses a cargo, and then takes its turn. The
  invariant `LInv` adds to the three parts above that the pending groups are apart, that a
  call that runs was asked for exactly those in their order and is not past the last, and
  that every row is of a check the world is due. `InOrder` lists every group because groups
  that are apart have different least members (`CountsAgree`).
- `CallsAreServed`. Every step of the composed call is a step of the oracle or leaves it
  alone, so `ChecksSeeTheWorld` and `AnswersAreWhole` hold inside a pass too. `RsWorlds`
  takes the calls it may get as a constant; the hypothesis `AnyBatch` says that those include
  any worlds with members and none in common, and the proof that the loop asks no others.
  The run's instance satisfies `AnyBatch` and `CleanTree`.

`RunRulesProofs`, from the assumptions of `RunRules`. Two of them are about the code's
memos and checked by TLC of the Python stack's table: `JobAssumption`, that no job of a
forking cell comes to ask for a cell that forks, and `WarmAssumption`, that building what
`warm` names builds every cell that forks or runs a checker pass.

- `NobodyWaitsForItself`. The invariant says a thread's busy cells lie on its own stack,
  each shallower than what it interrupted, and that once a rule is queued every forking cell
  is built, so that the only work a waiting thread can take is jobs, whose cells do not
  fork; a cell a thread asks for is then shallower than all it is building.
- `WorldOwnersRunAlone`, `GroupKeepsTheChecker`. The same invariant with which thread may
  hold which task in which phase: an owner is on the main thread only, after every rule of
  the group and every job have run.

`RatchetProofs`, from the assumptions of `Ratchet`:

- `DebtOnlyFalls`. No count in sight of a gate allows more of a rule than was accepted:
  not the file's, not the legacy file's while it is still the one read, and, because a save
  truncates before it writes, not those a save holds in memory (`Bounded`). A cut file
  keeps the lines before the cut and, if it can still be read, the one it falls in with no
  larger count (`CutIsLess`). A gate that passes has given each group an entry of its own that is as
  large: claims are made in rank order, and no entry is claimed twice (`ClaimsDiffer`), so
  the groups found are fewer than the entries (`PassingIsWithin`). Sums are counted as sets of units, a
  finding being one of the first `n` of its key, so that a bound on a sum is a map between
  finite sets.
- `MovesCostNothing`. While only renames, moves and saves have happened since a
  baseline, there is a map that gives each group an entry of its own, its name's where the file
  has that name (`Traced`); such a tree passes whatever order the groups come in.
- `FastIsASubset`. In every state of the right types: the fast gate's groups are among the
  full one's, and entries of a shape that agree are as good as each other.

`PyAnalysesProofs`, from the assumptions of `PyProgram`, `PyCalls` and `Condensation`, none
of which bounds the number of classes, functions, sites or edges. It starts from
`ClosureIsLeast`: what a walk sees is the least set that holds its start and what follows
each of its members. It is proved from the finite number of table entries, which the walk
cannot add to more often than it has them.

On `Condensation`:

- `ComponentsAreSound`. The invariant of the search, `Searching`, is the argument for the
  iterative form of Tarjan's algorithm. Numbers are given in the order of the stack
  (`Numbered`, `Stacked`); a node met is on the stack or in one component (`Shared`), and a
  component is mutual and left only for earlier ones (`Mutual`); a node on the stack
  reaches all above it and a frame at or below it (`Chained`); a lowlink is the number of a
  node on the stack that is reached, and no larger than the number of any stack node that
  an edge read under its frame leads to (`Lowlinks`); and every edge of a node met leads to
  a node met, unless a frame has still to read it (`ReadOut`). When a node closes as its own
  lowlink, nothing above it on the stack has an edge to below it, so what is popped
  is one component.
- `SummariesAreSound`, `ReceiversAreSound`. `Summarised` says both of the components folded so
  far. A component's members reach each other and what the members' callees outside
  reach, all in components folded before.
- `HeatIsSound`. `Heated`: the hot functions are among the reached ones, an edge out of a hot
  function behind the front has handed its heat on, and no heat is more than the loops of
  the components behind the front (`Loops`), where a component's own loops count once and
  each edge out of it under a loop counts once. One component may raise heat by one inside
  and by one across, and by both only where it has both kinds of loop.

On `PyCalls`, whose only step adds a call, so that the theorems are about every
program (`WellFormed`) and not about an order of steps:

- `NothingDeadRuns`. Where the checker types every call, a call that may run a function is
  an edge to it, an ambiguity it is among, or a name the graph cannot speak for, and #32
  and #60 ask about all three. That a method nobody overrides is the only one a lookup
  finds (`OnlyDefiner`) rests on the closed world's walk over the linked hierarchy
  holding both the walks up and down (`LinkedHoldsUpAndDown`).
- `TestsAloneReachIt`. A call may run a method only where its name is spelled or a class is
  built, and #56 asks about both.
- `NeverClaimsClean`. By the shape of the call. The hard case is a class that is built: the
  constructor walk, a stack popped from its end, finds a constructor if any class above
  has one (`VisitWalks`, `CtorUpIs`); if it is not the one Python runs, the latter
  overrides it in the linked hierarchy, which taints it.
- `DegradedHeatsNoMore`. An edge of the degraded run that is no guess is an edge of the
  full run (`SameCallees`), and closures grow with their table.
- `GuessesAreHeldAgainst`. An ambiguity that the checker opens over a method nobody
  overrides was one without it (`NoNewGuess`), and an edge it draws to it was a guess, an
  edge or a name that counted already; what is left is the call behind a chain, which
  hierarchy analysis guesses nothing at.

On both together, for a graph that is the program's calls with its functions numbered in
any order (`Numbering`, `GraphOf`):

- `FoldsNeverClaimClean`, `HeatReachesTheHotSet`. `PyCalls` states effects and heat by
  reachability and `Condensation` computes them over components. Walks along two tables that
  are one but for the names of their entries see the same (`ClosuresAgree`), so the folded
  summaries hold the writes of what the call graph reaches and never claim clean, and heat
  is spread over exactly the hot set.

`CacheSweepProofs`, from `CacheAssumption`:

- `UsedRootsAreKept`. An action property; the invariant it needs is that a marker older
  than `Stale` is of a lapsed root and that whatever a sweep has doomed is lapsed, across
  days that pass in the middle of a sweep and markers touched behind its back.

`GatesProofs`, from `GatesAssumption`:

- `FastIsASubset`. About every state of the right type: what a rule of
  file scope fires in a file does not depend on which other files are built.
- `AddedFindingsBlock`. Both ways between what a change adds to the trunk and what blocks,
  over the edited tree, the trunk and the baseline written from it. It needs an invariant
  of the history: the trunk's baseline allows a file no more of a rule than the trunk held
  in it (`AllowedOnTrunk`), because a key has one reading that can fire in its file
  (`SnapshotAllows`). It covers RATCHET findings, which are all that block today, and GATE
  findings, which no registered rule has. Two things are left to hypotheses: a baseline
  other than the trunk's may absorb more, and a language the trunk did not run may block on
  what nobody added.
- `BranchesAreCovered`. Needs the type invariant: with the trunk's settings a file that
  fires on the branch and not on the trunk has changed, and every way it can have changed
  is in one of the three listings, or removes the language's last file.
- `DiffsAreGated`, with the root at the top (`AtTop`); `GatesBelowTop` is what happens
  without.

`FixDiffProofs`, from the assumptions of `Worlds` and `EditsAssumption`:

- `OnePatchPerSite`. What compose leaves of any set of fixes is settled
  (`ComposeSettles`, where the finiteness of the lines makes a proper part smaller), and
  the emitter only takes subsets of it.
- `CleanApartCleanTogether`. Every fix erred in no world of its own; where worlds only add
  up, neither does the diff.

## What is only model-checked, and what is not modelled

Every invariant and action property of a passing run is stated by one of these theorems.
Only TLC checks the five liveness properties (`Resolves`, `PyReturns`, `VerifyReturns`,
`Finishes`, `ForgottenGoes`): the prover has no rule for fairness. The two runs that end
in a violation show their counterexamples and nothing else. `CallIsTheLoop` is checked and
proved over a tree that compiles; over one that does not, a killed cargo's row may be an
old error, and the turn is not the loop's.

Trying to prove found these places where a model said less than it seemed to:

- Two `CASE`s in `PyCalls` had arms whose guards overlap, where TLA+ leaves open which arm is
  taken. They are now `IF`s in the order of the code's early returns.
- `UNION A \ B` is `(UNION A) \ B` to one tool and `UNION (A \ B)` to the other. Both
  modules that had one now have the parentheses.
- `RsVerify` allowed a call without a splice, which `splice.rs:140-142` returns from at
  once; it is now an assumption that there is one.

Not modelled:

- How a splice is placed and respelled, the text of files and hunks, import placement, the
  parsing of cargo's messages and of source: functions of text, whose cases the
  repository's fixtures hold.
- The rules other than the dead-code three, ranking, rendering, configuration parsing, the
  command line, testkit and xtask: each is a predicate or a function over one syntax tree or
  one set of findings, without a state. They are most of the repository's lines.
- Of the dead-code rules, imports, parameters, classes and #34; of #60 the exemptions for
  protocol methods and published publics; keyword forwarding and splats at calls; records,
  call-site types and reveals of the checker.
- Differences in data that no property tells apart. The findings of a Python run without
  its checker are not composed (`py-rules/src/emit.rs:52-54`; only annotation fixes are left
  there). A receiver with no method of the name in the repository is external to `Cha`,
  where `py-facts/src/resolve.rs:561-590` is more careful about proxied trees, names that are
  not local and library annotations. Of two competing bases `EdgeTargets` holds both
  definitions, where the checker follows the order of the bases to one
  (`py-provers/src/oracle/edges.rs:83-138`). Of the effects only writes to the receiver are folded.
- What a union merge accepts: `blessed` takes the larger count of each key, as `load` reads
  the merged file, so `DebtNeverGrows` speaks of what follows a merge and takes that rule
  from the code.
- Of the gates, suppression markers and git's quoting of names that are not ASCII. The fast
  gate reads the work tree and not the index, and the full gate reads ignored files: both are
  in the model and excluded from the properties that would fail for it.
- Of the cache, a clock that steps back, and removals that fail for another reason than a file
  written behind them. A build that starts in a directory whose marker is already stale, or
  takes longer than `STALE_DAYS`, touches the marker only at close, and another audit's
  sweep may take the directory from under it: the model has these steps, and
  `KeptWhileUsed` excepts them (`lapsed`).
- A tree that changes under an audit, except for a file that vanishes before a pass (`gone`)
  and renames during a save.

## What is left

1. The suppression markers between findings and gates, and the entries of `Ratchet` under
   the git work tree of `Gates`.
2. `CallIsTheLoop` without `CleanTree`, for calls in which no cargo is killed.
