--------------------------- MODULE RsVerifyProofs ---------------------------
(***************************************************************************)
(* The one copy of the tree, for every layout of roots, every batch and    *)
(* any number of calls: what it holds between two worlds, while a world is *)
(* laid over it and while that world is checked.  Then what the Rust call  *)
(* verifies, for any splices, compiler and passes that stop or die, over   *)
(* an audited tree without errors, and that each of its turns is the       *)
(* loop's.                                                                 *)
(***************************************************************************)
EXTENDS RsVerify, FiniteSetTheorems, SequenceTheorems, WellFoundedInduction, TLAPS

\* The files of the copy, and the world at hand.
Sorts ==
  /\ step \in {"idle", "open", "lay", "check"}
  /\ tree \in [File -> Contents]
  /\ asked \in Batches \union {<<>>}
  /\ done \in Nat
  /\ step # "idle" => asked \in Batches /\ done < Len(asked)

\* Before the first call the tree is the audited one.
Opening == pass # "ready" => step = "idle" /\ \A f \in File : tree[f] = {}

\* Between two worlds nothing is overlaid but what the oracle knows of.
Resting ==
  step = "open" \/ (step = "idle" /\ down # Root) =>
    \A f \in File \ held : tree[f] = {}

\* While a world is laid, a file has its content of this world, is still to be
\* restored or written, or was never touched.
Laying ==
  step = "lay" =>
    /\ stale \subseteq held \ Edited(World) /\ fresh \subseteq Edited(World)
    /\ \A f \in File \ Edited(World) : tree[f] = {} \/ f \in stale
    /\ \A f \in Edited(World) \ fresh : tree[f] = Overlaid(World)[f]
    /\ \A f \in fresh : tree[f] = {} \/ f \in held

\* While it is checked, the tree is the audited one with this world's overlay.
Checking ==
  step = "check" => held = Edited(World) /\ tree = Overlaid(World)

IInv == Sorts /\ Opening /\ Resting /\ Laying /\ Checking /\ ChecksSeeTheWorld

-----------------------------------------------------------------------------
\* The world at hand is a set of splices.
LEMMA WorldIsSplices ==
  ASSUME Sorts, step # "idle"
  PROVE  World \subseteq Splice
<1>1. asked \in Seq((SUBSET Splice) \ {{}}) /\ done + 1 \in 1 .. Len(asked)
  BY RsAssumption DEF Sorts
<1> QED
  BY <1>1 DEF World

\* A world edits files of the tree, and leaves every other as it is.
LEMMA OverlayIsEdits ==
  ASSUME NEW w \in SUBSET Splice
  PROVE  /\ Edited(w) \subseteq File
         /\ Overlaid(w) \in [File -> Contents]
         /\ \A f \in File \ Edited(w) : Overlaid(w)[f] = {}
BY RsAssumption DEF Edited, Overlaid, Contents

\* The tree before any pass.
LEMMA Start == Init => IInv
BY DEF Init, IInv, Sorts, Opening, Resting, Laying, Checking, ChecksSeeTheWorld, Contents

\* The opening passes touch neither the tree nor a call.
LEMMA OpeningSteps ==
  ASSUME IInv, Load \/ Loaded \/ BaseCheck \/ Members
  PROVE  IInv'
<1>1. UNCHANGED <<copy, call>> /\ pass # "ready"
  BY DEF Load, Loaded, BaseCheck, Members
<1> QED
  BY <1>1 DEF IInv, Sorts, Opening, Resting, Laying, Checking, ChecksSeeTheWorld,
              copy, call, World

\* A batch comes in: its first world is one of its own.
LEMMA AskStep ==
  ASSUME IInv, NEW batch \in Batches, Ask(batch)
  PROVE  IInv'
<1> USE DEF Ask, opening, copy
<1>1. batch \in Seq((SUBSET Splice) \ {{}}) /\ batch # <<>>
  BY RsAssumption
<1>2. 0 < Len(batch)
  BY <1>1
<1>3. Sorts'
  BY <1>2 DEF IInv, Sorts
<1>4. Resting'
  BY DEF IInv, Resting
<1> QED
  BY <1>3, <1>4 DEF IInv, Opening, Laying, Checking, ChecksSeeTheWorld

\* The copy is there, and what the last world left is known to be stale.
LEMMA OpenStep ==
  ASSUME IInv, Open
  PROVE  IInv'
<1> USE DEF Open, opening
<1>1. World' = World
  BY DEF World
<1>2. \A f \in File : tree'[f] = tree[f] \/ tree'[f] = {}
  OBVIOUS
<1>3. Sorts'
  BY DEF IInv, Sorts, Contents
<1>4. Laying'
  <2>1. stale' = held \ Edited(World) /\ fresh' = Edited(World) /\ held' = held
    OBVIOUS
  <2>2. \A f \in File \ held : tree'[f] = {}
    BY <1>2 DEF IInv, Resting
  <2>3. Edited(World) \subseteq File
    BY WorldIsSplices, OverlayIsEdits DEF IInv
  <2> QED
    BY <1>1, <2>1, <2>2, <2>3 DEF Laying, Edited
<1> QED
  BY <1>3, <1>4 DEF IInv, Opening, Resting, Checking, ChecksSeeTheWorld

\* A call that ends because the tree cannot be copied or written leaves no root up, and
\* one that ends in a check leaves the tree as its world had it.
LEMMA FailSteps ==
  ASSUME IInv, CopyFails \/ LayFails \/ \E r \in Root : CheckFails(r)
  PROVE  IInv'
<1> USE DEF opening, copy
<1>1. ASSUME CopyFails PROVE IInv'
  BY <1>1 DEF CopyFails, IInv, Sorts, Opening, Resting, Laying, Checking, ChecksSeeTheWorld
<1>2. ASSUME LayFails PROVE IInv'
  <2>1. tree' \in [File -> Contents]
    BY <1>2 DEF LayFails, IInv, Sorts, Contents
  <2>2. Opening'
    BY <1>2 DEF LayFails, IInv, Opening
  <2> QED
    BY <1>2, <2>1, <2>2 DEF LayFails, IInv, Sorts, Resting, Laying, Checking, ChecksSeeTheWorld
<1>3. ASSUME NEW r \in Root, CheckFails(r) PROVE IInv'
  <2>1. \A f \in File \ held : tree[f] = {}
    BY <1>3, WorldIsSplices, OverlayIsEdits DEF CheckFails, IInv, Checking
  <2> QED
    BY <1>3, <2>1
    DEF CheckFails, IInv, Sorts, Opening, Resting, Laying, Checking, ChecksSeeTheWorld
<1> QED
  BY <1>1, <1>2, <1>3

\* Each file restored or written brings the tree one file closer to the world.
LEMMA LaySteps ==
  ASSUME IInv, NEW f \in File, Restore(f) \/ Write(f)
  PROVE  IInv'
<1> USE DEF opening
<1>1. World' = World
  BY DEF World, Restore, Write
<1>2. World \subseteq Splice
  BY WorldIsSplices DEF IInv, Restore, Write
<1>3. tree' = [tree EXCEPT ![f] = tree'[f]] /\ tree'[f] \in Contents
  BY <1>2, OverlayIsEdits DEF Restore, Write, IInv, Sorts, Contents
<1>4. Sorts'
  BY <1>3 DEF IInv, Sorts, Restore, Write
<1>5. \A g \in File \ {f} : tree'[g] = tree[g]
  BY <1>3 DEF IInv, Sorts
<1>6. Laying'
  <2>1. ASSUME Restore(f) PROVE Laying'
    <3>1. tree'[f] = {} /\ stale' = stale \ {f}
      BY <2>1 DEF Restore, IInv, Sorts
    <3> QED
      BY <1>1, <1>2, <1>5, <2>1, <3>1, OverlayIsEdits DEF Restore, IInv, Laying
  <2>2. ASSUME Write(f) PROVE Laying'
    <3>1. tree'[f] = Overlaid(World)[f] /\ fresh' = fresh \ {f}
      BY <2>2 DEF Write, IInv, Sorts
    <3> QED
      BY <1>1, <1>2, <1>5, <2>2, <3>1, OverlayIsEdits DEF Write, IInv, Laying
  <2> QED
    BY <2>1, <2>2
<1> QED
  BY <1>4, <1>6
  DEF Restore, Write, IInv, Opening, Resting, Checking, ChecksSeeTheWorld

\* Once all are, it is the world.
LEMMA LaidStep ==
  ASSUME IInv, Laid
  PROVE  IInv'
<1> USE DEF Laid, opening
<1>1. World' = World
  BY DEF World
<1>2. World \subseteq Splice
  BY WorldIsSplices DEF IInv
<1>3. \A f \in File : tree[f] = Overlaid(World)[f]
  BY <1>2, OverlayIsEdits DEF IInv, Laying
<1>4. tree = Overlaid(World)
  BY <1>2, <1>3, OverlayIsEdits DEF IInv, Sorts
<1> QED
  BY <1>1, <1>4 DEF IInv, Sorts, Opening, Resting, Laying, Checking, ChecksSeeTheWorld

\* A check changes nothing, and the next world, if there is one, finds what it saw.
LEMMA CheckSteps ==
  ASSUME IInv, Answer \/ \E r \in Root : Check(r)
  PROVE  IInv'
<1> USE DEF opening, copy
<1>1. ASSUME NEW r \in Root, Check(r) PROVE IInv'
  <2>1. World' = World
    BY <1>1 DEF World, Check
  <2> QED
    BY <1>1, <2>1
    DEF Check, IInv, Sorts, Opening, Resting, Laying, Checking, ChecksSeeTheWorld
<1>2. ASSUME Answer PROVE IInv'
  <2>1. \A f \in File \ held : tree[f] = {}
    BY <1>2, WorldIsSplices, OverlayIsEdits DEF Answer, IInv, Checking
  <2>2. asked \in Seq((SUBSET Splice) \ {{}})
    BY <1>2, RsAssumption DEF Answer, IInv, Sorts
  <2>3. Sorts'
    BY <1>2, <2>2 DEF Answer, IInv, Sorts
  <2> QED
    BY <1>2, <2>1, <2>3
    DEF Answer, IInv, Opening, Resting, Laying, Checking, ChecksSeeTheWorld
<1> QED
  BY <1>1, <1>2

-----------------------------------------------------------------------------
LEMMA Invariance == Spec => []IInv
<1>1. Init => IInv
  BY Start
<1>2. IInv /\ [Next]_vars => IInv'
  <2> SUFFICES ASSUME IInv, [Next]_vars
               PROVE  IInv'
    OBVIOUS
  <2>1. CASE UNCHANGED vars
    BY <2>1 DEF vars, opening, copy, call, IInv, Sorts, Opening, Resting, Laying, Checking,
                ChecksSeeTheWorld, World
  <2>2. CASE Serve
    BY <2>2, OpenStep, FailSteps, LaySteps, LaidStep, CheckSteps DEF Serve
  <2> QED
    BY <2>1, <2>2, OpeningSteps, AskStep DEF Next
<1> QED
  BY <1>1, <1>2, PTL DEF Spec

\* Whatever world the copy held before, in this call or in one that failed, a check
\* compiles exactly the audited tree with its own world's overlay.
THEOREM WorldsDoNotLeak == Spec => []ChecksSeeTheWorld
<1>1. IInv => ChecksSeeTheWorld
  BY DEF IInv
<1> QED
  BY <1>1, Invariance, PTL

\* While a root is up, every file of the copy that differs from the audited tree is in
\* the overlay set, or is being written by the world at hand.
THEOREM OverlaySetIsReal == Spec => []HeldIsTheRealState
<1>1. IInv => HeldIsTheRealState
  <2> SUFFICES ASSUME IInv, down # Root, NEW f \in File, tree[f] # {}
               PROVE  f \in held \/ (step = "lay" /\ f \in Edited(World) \ fresh)
    BY DEF HeldIsTheRealState
  <2>1. CASE step \in {"idle", "open"}
    BY <2>1 DEF IInv, Resting
  <2>2. CASE step = "lay"
    BY <2>2 DEF IInv, Laying
  <2>3. CASE step = "check"
    BY <2>3, WorldIsSplices, OverlayIsEdits DEF IInv, Checking
  <2> QED
    BY <2>1, <2>2, <2>3 DEF IInv, Sorts
<1> QED
  BY <1>1, Invariance, PTL

-----------------------------------------------------------------------------
\* What the answers of a call rest on: each answered world was checked in its owners,
\* the world being checked in those that are no longer left, and who they are was
\* settled before the first call.
Settled ==
  /\ pass # "ready" => step = "idle" /\ done = 0
  /\ done <= Len(asked)
  /\ \A i \in 1 .. done : Owners(asked[i]) \subseteq CheckedIn(asked[i])
  /\ step = "check" => Owners(World) \ left \subseteq CheckedIn(World)

\* A check adds to what was checked; the last one completes its world.
LEMMA SettledSteps ==
  ASSUME Sorts, Settled, Serve
  PROVE  Settled'
<1>1. pass = "ready" /\ reads' = reads /\ pass' = pass /\ asked' = asked /\ step # "idle"
  BY DEF Serve, Open, CopyFails, LayFails, Laid, Answer, Restore, Write, Check, CheckFails,
         Settled, opening
<1>2. \A w : Owners(w)' = Owners(w)
  BY <1>1 DEF Owners, OwnersGiven, Dependents, Leads
<1>3. checked \subseteq checked' /\ (done' = done => World' = World)
  BY DEF Serve, Open, CopyFails, LayFails, Laid, Answer, Restore, Write, Check, CheckFails, World
<1>4. \A w : CheckedIn(w) \subseteq CheckedIn(w)'
  BY <1>3 DEF CheckedIn
<1>5. CASE Answer
  <2>1. Owners(World) \subseteq CheckedIn(World)
    BY <1>5 DEF Answer, Settled
  <2>2. \A i \in 1 .. done + 1 : Owners(asked[i]) \subseteq CheckedIn(asked[i])
    <3>1. \A i \in 1 .. done + 1 : i = done + 1 \/ i \in 1 .. done
      BY DEF Sorts
    <3> QED
      BY <2>1, <3>1 DEF Settled, World
  <2>3. done' = done + 1 /\ step' # "check" /\ done + 1 <= Len(asked)
    <3>1. Len(asked) \in Nat
      BY <1>1, RsAssumption DEF Sorts
    <3> QED
      BY <1>1, <1>5, <3>1 DEF Answer, Sorts
  <2> QED
    BY <1>1, <1>2, <1>4, <2>2, <2>3 DEF Settled
<1>6. CASE \E r \in Root : Check(r)
  <2>1. PICK r \in Root : Check(r)
    BY <1>6
  <2>2. [world |-> World, root |-> r, saw |-> tree] \in checked'
    BY <2>1 DEF Check
  <2>3. World' = World /\ left' = left \ {r} /\ done' = done /\ step = "check"
    BY <1>3, <2>1 DEF Check
  <2>4. r \in CheckedIn(World)'
    BY <2>2, <2>3 DEF CheckedIn
  <2>5. Owners(World)' \ left' \subseteq CheckedIn(World)'
    BY <1>2, <1>4, <2>3, <2>4 DEF Settled
  <2> QED
    BY <1>1, <1>2, <1>4, <2>3, <2>5 DEF Settled
<1>7. CASE Laid
  BY <1>1, <1>2, <1>3, <1>4, <1>7 DEF Settled, Laid
<1>8. CASE Open \/ CopyFails \/ LayFails \/ (\E f \in File : Restore(f) \/ Write(f))
           \/ (\E r \in Root : CheckFails(r))
  <2>1. done' = done /\ step' # "check"
    BY <1>8 DEF Open, CopyFails, LayFails, Restore, Write, CheckFails
  <2> QED
    BY <1>1, <1>2, <1>4, <2>1 DEF Settled
<1> QED
  BY <1>5, <1>6, <1>7, <1>8 DEF Serve

\* Each root a world's edits can reach is among its owners, where every root gave its
\* path dependencies.
LEMMA OwnersAreWhole ==
  ASSUME NEW w \in SUBSET Splice, NEW f \in Edited(w), reads = Reads
  PROVE  (IF RootOf[f] = NoRoot THEN Root ELSE {RootOf[f]} \union Dependents(Reads, RootOf[f]))
           \subseteq Owners(w)
<1>1. f \in File
  BY OverlayIsEdits
<1>2. RootOf[f] \in Root \union {NoRoot} /\ Dependents(Reads, RootOf[f]) \subseteq Root
  BY <1>1, RsAssumption DEF Dependents
<1> QED
  BY <1>2 DEF Owners, OwnersGiven

\* A world is answered only once every root that reads one of its edits compiled it,
\* where every root gave its member list.
THEOREM AnsweredEverywhere == Spec => []AnswersAreWhole
<1>1. Init => Settled
  BY DEF Init, Settled
<1>2. IInv /\ Settled /\ [Next]_vars => Settled'
  <2> SUFFICES ASSUME IInv, Settled, [Next]_vars
               PROVE  Settled'
    OBVIOUS
  <2>1. CASE UNCHANGED vars
    <3>1. UNCHANGED <<pass, reads, step, asked, done, left, checked>>
      BY <2>1 DEF vars, opening, call
    <3>2. \A w : Owners(w)' = Owners(w) /\ CheckedIn(w)' = CheckedIn(w)
      BY <3>1 DEF Owners, Dependents, Leads, CheckedIn
    <3> QED
      BY <3>1, <3>2 DEF Settled, World
  <2>2. ASSUME Load \/ Loaded \/ BaseCheck \/ Members PROVE Settled'
    <3>1. step' = "idle" /\ done' = 0
      BY <2>2 DEF Load, Loaded, BaseCheck, Members, Settled, call
    <3> QED
      BY <3>1 DEF Settled
  <2>3. ASSUME NEW batch \in Batches, Ask(batch) PROVE Settled'
    BY <2>3 DEF Ask, Settled, opening
  <2> QED
    BY <2>1, <2>2, <2>3, SettledSteps DEF Next, IInv, Sorts
<1>3. IInv /\ Settled => AnswersAreWhole
  <2> SUFFICES ASSUME IInv, Settled, reads = Reads, NEW i \in 1 .. done, NEW f \in Edited(asked[i])
               PROVE  (IF RootOf[f] = NoRoot THEN Root
                       ELSE {RootOf[f]} \union Dependents(Reads, RootOf[f]))
                        \subseteq CheckedIn(asked[i])
    BY DEF AnswersAreWhole, Answered
  <2>1. asked[i] \in SUBSET Splice
    <3>1. asked \in Seq((SUBSET Splice) \ {{}}) /\ i \in 1 .. Len(asked)
      BY RsAssumption DEF IInv, Sorts, Settled
    <3> QED
      BY <3>1
  <2> QED
    BY <2>1, OwnersAreWhole DEF Settled
<1> QED
  BY <1>1, <1>2, <1>3, Invariance, PTL DEF Spec

-----------------------------------------------------------------------------
\* The audited tree compiles.
CleanTree == \A r \in Root : Old[r] = {}

\* World w is broken in root r, and a row of it was kept.
Told(w, r) == r \in Breaks(checker, w) => \E row \in rows : row[1] = w

\* What the oracle answers rests on complete checks: every root a world is checked in
\* kept a row of it, where the world breaks there.
Telling ==
  /\ pass # "ready" => step = "idle" /\ done = 0
  /\ done \in Nat
  /\ \A i \in 1 .. done : \A r \in Owners(asked[i]) : Told(asked[i], r)
  /\ step = "check" => \A r \in Owners(World) \ left : Told(World, r)
  /\ \A row \in rows : row[2] \in Root \X {"new"}

\* The splices that break alone.
Breakers == {p \in live : \E r \in OwnersGiven(reads, {p}) : r \in Breaks(checker, {p})}

\* Where the loop stands, and that no breaker is dropped while every world is answered.
Looping ==
  /\ live \in Proposals
  /\ phase \in {"merged", "splitting", "resolved"}
  /\ waiting \/ phase # "merged" => pass = "ready"
  /\ groups \subseteq SUBSET live
  /\ phase = "resolved" => groups = {}
  /\ phase # "merged" /\ ~missing => Breakers \subseteq banned \union UNION groups

VInv == todo \subseteq Root /\ base = {} /\ Telling /\ Looping

-----------------------------------------------------------------------------
\* A splice that breaks alone breaks every world it is in, in a root that is checked.
LEMMA BreaksInEvery ==
  ASSUME NEW w \in SUBSET Splice, NEW p \in w
  PROVE  /\ Breaks(checker, {p}) \subseteq Breaks(checker, w)
         /\ OwnersGiven(reads, {p}) \subseteq OwnersGiven(reads, w)
<1>1. Breaks(checker, {p}) \subseteq Breaks(checker, w)
  BY DEF Breaks
<1>2. Edited({p}) \subseteq Edited(w) /\ Edited(w) \subseteq File
  BY RsAssumption DEF Edited
<1> DEFINE roots(v) == {RootOf[f] : f \in Edited(v)}
<1>3. roots({p}) \subseteq roots(w) /\ roots({p}) \subseteq Root \union {NoRoot}
  BY <1>2, RsAssumption
<1>4. OwnersGiven(reads, {p}) \subseteq OwnersGiven(reads, w)
  <2>1. \A v : OwnersGiven(reads, v) =
           IF Cardinality(Root) = 1 \/ NoRoot \in roots(v) THEN Root
           ELSE roots(v) \union UNION {Dependents(reads, q) : q \in roots(v)}
    BY DEF OwnersGiven
  <2>2. \A q : Dependents(reads, q) \subseteq Root
    BY DEF Dependents
  <2> HIDE DEF roots
  <2>3. CASE Cardinality(Root) = 1 \/ NoRoot \in roots(w)
    BY <1>3, <2>1, <2>2, <2>3
  <2>4. CASE ~(Cardinality(Root) = 1 \/ NoRoot \in roots(w))
    <3>1. NoRoot \notin roots({p})
      BY <1>3, <2>4
    <3>2. OwnersGiven(reads, {p}) = roots({p}) \union UNION {Dependents(reads, q) : q \in roots({p})}
      BY <2>1, <2>4, <3>1
    <3>3. OwnersGiven(reads, w) = roots(w) \union UNION {Dependents(reads, q) : q \in roots(w)}
      BY <2>1, <2>4
    <3> QED
      BY <1>3, <3>2, <3>3
  <2> QED
    BY <2>3, <2>4
<1> QED
  BY <1>1, <1>4

\* An error anywhere implicates every splice of a world, and none hosts one.
LEMMA LiveOf ==
  ASSUME NEW g \in SUBSET Splice, NEW errs \in SUBSET (Root \X {"new"}), errs # {}
  PROVE  Loop!Live(g, errs) = g
BY DEF Loop!Live, Loop!Errored, Loop!Watches

LEMMA SplitOf ==
  ASSUME NEW g, NEW errs
  PROVE  UNION Loop!Split(g, errs) = g
BY DEF Loop!Split, Loop!Hosts, Loop!FirstHalf

\* A world with a breaker in it that was answered has rows, so all of it goes on: to the
\* vetoed, if it is alone, else to the groups.
LEMMA BreakerGoesOn ==
  ASSUME VInv, NEW g \in SUBSET live, g \in Answered, NEW p \in g, p \in Breakers
  PROVE  Loop!Live(g, Loop!Reply(Added, g)) = g
<1>1. g \in SUBSET Splice
  BY VerifyAssumption DEF VInv, Looping
<1>2. PICK i \in 1 .. done : g = asked[i]
  BY DEF Answered
<1>3. PICK r \in Owners(g) : r \in Breaks(checker, g)
  BY <1>1, BreaksInEvery DEF Breakers, Owners
<1>4. PICK row \in rows : row[1] = g
  BY <1>2, <1>3 DEF VInv, Telling, Told
<1>5. Loop!Reply(Added, g) = {row2[2] : row2 \in {q \in rows : q[1] = g}}
  BY DEF Loop!Reply, Added
<1>6. row[2] \in Loop!Reply(Added, g) /\ Loop!Reply(Added, g) \subseteq Root \X {"new"}
  BY <1>4, <1>5 DEF VInv, Telling
<1> QED
  BY <1>1, <1>6, LiveOf

\* The least of some numbers is one of them.
LEMMA FirstIn ==
  ASSUME NEW S \in SUBSET Nat, S # {}
  PROVE  First(S) \in S
<1> DEFINE R == OpToRel(<, Nat)
<1>1. PICK r \in S : \A q \in S : <<q, r>> \notin R
  <2> HIDE DEF R
  <2>1. IsWellFoundedOn(R, Nat)
    BY NatLessThanWellFounded DEF R
  <2> QED
    BY <2>1, WFMin
<1>2. ASSUME NEW q \in S PROVE r <= q
  <2>1. q \in Nat /\ r \in Nat
    OBVIOUS
  <2>2. q < r => <<q, r>> \in R
    BY <2>1 DEF OpToRel
  <2> HIDE DEF R
  <2> QED
    BY <1>1, <2>1, <2>2
<1> QED
  BY <1>2 DEF First

\* What a group leaves to do is part of it.
LEMMA NextOf ==
  ASSUME NEW g, NEW errs
  PROVE  UNION Loop!Regrouped(g, errs) \subseteq g
<1> DEFINE l == Loop!Live(g, errs)
<1>1. l \subseteq g
  BY DEF Loop!Live
<1>2. UNION Loop!Split(l, errs) = l
  BY SplitOf
<1>3. UNION {{p} : p \in l} = l
  OBVIOUS
<1>4. Loop!Regrouped(g, errs) \in {{}, {{p} : p \in l}, Loop!Split(l, errs)}
  BY DEF Loop!Regrouped
<1> QED
  BY <1>1, <1>2, <1>3, <1>4

\* A member of a group all of which goes on is vetoed, or in a group of the next level.
LEMMA KeptOrVetoed ==
  ASSUME NEW g, NEW errs, NEW p \in g, Loop!Live(g, errs) = g
  PROVE  p \in Loop!Convicted(g, errs) \union UNION Loop!Regrouped(g, errs)
<1>1. CASE Loop!Cardinality(g) = 1
  BY <1>1 DEF Loop!Convicted
<1>2. CASE Loop!Cardinality(g) # 1
  <2>1. UNION {{q} : q \in g} = g
    OBVIOUS
  <2>2. UNION Loop!Split(g, errs) = g
    BY SplitOf
  <2>3. Loop!Regrouped(g, errs) \in {{{q} : q \in g}, Loop!Split(g, errs)}
    BY <1>2 DEF Loop!Regrouped
  <2> QED
    BY <2>1, <2>2, <2>3
<1> QED
  BY <1>1, <1>2

-----------------------------------------------------------------------------
LEMMA Starts == InitV => VInv
<1> SUFFICES ASSUME InitV PROVE VInv
  OBVIOUS
<1> USE DEF InitV, Init
<1>1. Telling
  BY DEF Telling
<1>2. Looping
  BY DEF Looping
<1> QED
  BY <1>1, <1>2 DEF VInv

\* Nothing that the loop's standing rests on moves.
LEMMA LoopStands ==
  ASSUME Looping, UNCHANGED <<reads, prog, loop>>, waiting' = waiting,
         pass = "ready" => pass' = "ready"
  PROVE  Looping'
<1>1. \A w : OwnersGiven(reads, w)' = OwnersGiven(reads, w)
  BY DEF OwnersGiven, Dependents, Leads
<1>2. Breakers' = Breakers
  BY <1>1 DEF Breakers, Breaks, prog
<1> QED
  BY <1>2 DEF Looping, prog, loop

\* The same while the oracle opens: the loop has not asked yet.
LEMMA Opens ==
  ASSUME VInv, OpeningPass
  PROVE  VInv'
<1> USE DEF OpeningPass, Load, Loaded, Members, call, prog, loop
<1>1. pass # "ready" /\ todo' \subseteq Root
  BY DEF VInv
<1>2. Telling'
  BY <1>1 DEF VInv, Telling
<1>3. Looping'
  BY <1>1 DEF VInv, Looping
<1> QED
  BY <1>1, <1>2, <1>3 DEF VInv

\* A clean tree gives the base check nothing to report, whichever cargo dies.
LEMMA BaseKeeps ==
  ASSUME CleanTree, VInv, BaseReport
  PROVE  VInv'
<1> USE DEF BaseReport, BaseCheck, call, prog, loop
<1>1. pass # "ready" /\ todo' \subseteq Root
  BY DEF VInv
<1>2. Telling'
  BY <1>1 DEF VInv, Telling
<1>3. Looping'
  BY <1>1 DEF VInv, Looping
<1>4. First(todo) \in Root
  BY FirstIn, RsAssumption DEF VInv
<1>5. base' = {}
  BY <1>4 DEF CleanTree, VInv, Heard
<1> QED
  BY <1>1, <1>2, <1>3, <1>5 DEF VInv

\* A call starts with no row and no answer.
LEMMA AskKeeps ==
  ASSUME VInv, NEW gs, AskFor(gs)
  PROVE  VInv'
<1> USE DEF AskFor, Ask, opening, prog, loop
<1>1. Telling'
  BY DEF VInv, Telling
<1>2. Looping'
  <2>1. \A w : OwnersGiven(reads, w)' = OwnersGiven(reads, w)
    BY DEF OwnersGiven, Dependents, Leads
  <2>2. Breakers' = Breakers
    BY <2>1 DEF Breakers, Breaks
  <2> QED
    BY <2>2 DEF VInv, Looping
<1> QED
  BY <1>1, <1>2 DEF VInv

\* What tells a root told: rows only grow while a call runs.
LEMMA ToldStays ==
  ASSUME rows \subseteq rows', checker' = checker, NEW w, NEW r, Told(w, r)
  PROVE  Told(w, r)'
BY DEF Told, Breaks

LEMMA ServeKeeps ==
  ASSUME VInv, Serving
  PROVE  VInv'
<1>1. /\ UNCHANGED <<prog, loop, waiting, base, rows>>
      /\ UNCHANGED <<pass, todo, reads, asked>>
      /\ step # "idle"
  BY DEF Serving, Open, CopyFails, LayFails, Laid, Answer, Restore, Write, CheckFails,
         opening, copy, call
<1>2. Looping'
  BY <1>1, LoopStands DEF VInv
<1>3. \A w, r : Told(w, r) => Told(w, r)'
  BY <1>1, ToldStays DEF prog
<1>4. \A w : Owners(w)' = Owners(w)
  BY <1>1 DEF Owners, OwnersGiven, Dependents, Leads
<1>5. pass = "ready"
  BY <1>1 DEF VInv, Telling
<1>6. ASSUME done' = done, step' # "check" PROVE Telling'
  BY <1>1, <1>3, <1>4, <1>5, <1>6 DEF VInv, Telling
<1>7. CASE Laid
  <2>1. done' = done /\ left' = Owners(World) /\ World' = World
    BY <1>1, <1>7 DEF Laid, World
  <2>2. Owners(World)' = Owners(World)
    BY <2>1, <1>1 DEF Owners, OwnersGiven, Dependents, Leads
  <2> QED
    BY <1>1, <1>3, <1>4, <1>5, <2>1, <2>2, <1>2 DEF VInv, Telling
<1>8. CASE Answer
  <2>1. /\ step = "check" /\ left = {} /\ done' = done + 1 /\ step' # "check"
    BY <1>8 DEF Answer
  <2>2. \A i \in 1 .. done' : i \in 1 .. done \/ asked[i] = World
    BY <2>1 DEF VInv, Telling, World
  <2>3. \A i \in 1 .. done' : \A r \in Owners(asked[i]) : Told(asked[i], r)
    BY <2>1, <2>2 DEF VInv, Telling
  <2> QED
    BY <1>1, <1>2, <1>3, <1>4, <1>5, <2>1, <2>3 DEF VInv, Telling
<1>9. CASE ~Laid /\ ~Answer
  <2>1. done' = done /\ step' # "check"
    BY <1>9 DEF Serving, Open, CopyFails, LayFails, Restore, Write, CheckFails, call
  <2> QED
    BY <1>1, <1>2, <1>6, <2>1 DEF VInv
<1> QED
  BY <1>7, <1>8, <1>9

\* A check that ends, or that died after a row, told its root.
LEMMA ReportKeeps ==
  ASSUME CleanTree, VInv, NEW r \in Root, Report(r)
  PROVE  VInv'
<1>1. PICK wrote \in Heard(Writes(checker, World, r)) :
        rows' = rows \union {<<World, e>> : e \in wrote}
  BY DEF Report, VInv
<1>2. /\ UNCHANGED <<prog, loop, waiting, base>>
      /\ UNCHANGED <<pass, todo, reads, asked, done, step>>
      /\ step = "check" /\ left' = left \ {r} /\ World' = World
  BY DEF Report, Check, opening, World
<1>3. Writes(checker, World, r) = {New(q) : q \in Breaks(checker, World) \intersect {r}}
  BY DEF Writes, CleanTree
<1>4. wrote \subseteq Writes(checker, World, r) /\ (Writes(checker, World, r) # {} => wrote # {})
  BY <1>1 DEF Heard
<1>5. wrote \subseteq Root \X {"new"}
  BY <1>3, <1>4 DEF New
<1>6. Told(World, r)'
  <2>1. Breaks(checker, World)' = Breaks(checker, World)
    BY <1>2 DEF Breaks, prog
  <2>2. ASSUME r \in Breaks(checker, World) PROVE \E row \in rows' : row[1] = World
    <3>1. PICK e \in wrote : TRUE
      BY <1>3, <1>4, <2>2
    <3>2. <<World, e>> \in rows'
      BY <1>1
    <3> QED
      BY <3>2
  <2> QED
    BY <1>2, <2>1, <2>2 DEF Told
<1>7. Looping'
  BY <1>2, LoopStands DEF VInv
<1>8. \A w, q : Told(w, q) => Told(w, q)'
  BY <1>1, <1>2, ToldStays DEF prog
<1>9. \A w : Owners(w)' = Owners(w)
  BY <1>2 DEF Owners, OwnersGiven, Dependents, Leads
<1>10. \A q \in Owners(World) \ left' : Told(World, q)'
  BY <1>2, <1>6, <1>8 DEF VInv, Telling
<1>11. \A row \in rows' : row[2] \in Root \X {"new"}
  BY <1>1, <1>5 DEF VInv, Telling
<1>12. Telling'
  BY <1>2, <1>8, <1>9, <1>10, <1>11 DEF VInv, Telling
<1> QED
  BY <1>2, <1>7, <1>12 DEF VInv

\* The merged world was answered: a breaker in it sends all of it on.
LEMMA MergedKeeps ==
  ASSUME VInv, TakeMerged
  PROVE  VInv'
<1> DEFINE errs == Loop!Reply(Added, live)
           suspects == Loop!Live(live, errs)
<1>1. /\ waiting /\ pass = "ready" /\ phase = "merged"
      /\ UNCHANGED <<vars, prog, banned, base, rows>>
      /\ groups' = IF suspects = {} THEN {} ELSE Loop!Split(suspects, errs)
      /\ phase' = IF groups' = {} THEN "resolved" ELSE "splitting"
      /\ missing' = (live \notin Answered) /\ waiting' = FALSE
  BY DEF TakeMerged, Back, VInv, Looping
<1>2. /\ UNCHANGED <<pass, todo, reads, step, asked, done, left>>
      /\ live' = live /\ checker' = checker
  BY <1>1 DEF vars, opening, call, prog
<1>3. Telling'
  <2>1. \A w : Owners(w)' = Owners(w)
    BY <1>2 DEF Owners, OwnersGiven, Dependents, Leads
  <2>2. \A w, r : Told(w, r) => Told(w, r)'
    BY <1>1, <1>2, ToldStays
  <2>3. World' = World
    BY <1>2 DEF World
  <2> QED
    BY <1>1, <1>2, <2>1, <2>2, <2>3 DEF VInv, Telling
<1>4. Breakers' = Breakers
  <2>1. \A w : OwnersGiven(reads, w)' = OwnersGiven(reads, w)
    BY <1>2 DEF OwnersGiven, Dependents, Leads
  <2> QED
    BY <1>2, <2>1 DEF Breakers, Breaks
<1>5. suspects \subseteq live /\ UNION Loop!Split(suspects, errs) = suspects
  BY SplitOf DEF Loop!Live
<1>6. groups' \subseteq SUBSET live
  <2> HIDE DEF suspects, errs
  <2> QED
    BY <1>1, <1>5
<1>7. ASSUME ~missing', NEW p \in Breakers PROVE p \in UNION groups'
  <2>1. live \in Answered /\ p \in live
    BY <1>1, <1>7 DEF Breakers
  <2>2. suspects = live
    BY <2>1, <1>7, BreakerGoesOn
  <2> HIDE DEF suspects, errs
  <2> QED
    BY <1>1, <1>5, <2>1, <2>2
<1>8. Looping'
  <2> HIDE DEF suspects, errs
  <2> QED
    BY <1>1, <1>2, <1>4, <1>6, <1>7 DEF VInv, Looping
<1> QED
  BY <1>1, <1>2, <1>3, <1>8 DEF VInv

\* A level was answered: a breaker in a group of it is vetoed or goes on.
LEMMA LevelKeeps ==
  ASSUME VInv, TakeLevel
  PROVE  VInv'
<1> DEFINE errs(g) == Loop!Reply(Added, g)
<1>1. /\ waiting /\ pass = "ready" /\ phase = "splitting"
      /\ UNCHANGED <<vars, prog, base, rows>>
      /\ banned' = banned \union UNION {Loop!Convicted(g, errs(g)) : g \in groups}
      /\ groups' = UNION {Loop!Regrouped(g, errs(g)) : g \in groups}
      /\ phase' = IF groups' = {} THEN "resolved" ELSE "splitting"
      /\ missing' = (missing \/ Answered # groups) /\ waiting' = FALSE
  BY DEF TakeLevel, Back, VInv, Looping
<1>2. /\ UNCHANGED <<pass, todo, reads, step, asked, done, left>>
      /\ live' = live /\ checker' = checker
  BY <1>1 DEF vars, opening, call, prog
<1>3. Telling'
  <2>1. \A w : Owners(w)' = Owners(w)
    BY <1>2 DEF Owners, OwnersGiven, Dependents, Leads
  <2>2. \A w, r : Told(w, r) => Told(w, r)'
    BY <1>1, <1>2, ToldStays
  <2>3. World' = World
    BY <1>2 DEF World
  <2> QED
    BY <1>1, <1>2, <2>1, <2>2, <2>3 DEF VInv, Telling
<1>4. Breakers' = Breakers
  <2>1. \A w : OwnersGiven(reads, w)' = OwnersGiven(reads, w)
    BY <1>2 DEF OwnersGiven, Dependents, Leads
  <2> QED
    BY <1>2, <2>1 DEF Breakers, Breaks
<1>5. \A g \in groups : UNION Loop!Regrouped(g, errs(g)) \subseteq g /\ g \subseteq live
  BY NextOf DEF VInv, Looping
<1>6. groups' \subseteq SUBSET live
  <2> HIDE DEF errs
  <2> QED
    BY <1>1, <1>5
<1>7. ASSUME ~missing', NEW p \in Breakers, p \notin banned
      PROVE  p \in banned' \union UNION groups'
  <2>1. PICK g \in groups : p \in g
    BY <1>1, <1>7 DEF VInv, Looping
  <2>2. g \in Answered /\ g \in SUBSET live
    BY <1>1, <1>5, <1>7
  <2>3. Loop!Live(g, errs(g)) = g
    BY <2>1, <2>2, BreakerGoesOn
  <2> HIDE DEF errs
  <2>4. p \in Loop!Convicted(g, errs(g)) \union UNION Loop!Regrouped(g, errs(g))
    BY <2>1, <2>3, KeptOrVetoed
  <2> QED
    BY <1>1, <2>4
<1>8. Looping'
  <2> HIDE DEF errs
  <2> QED
    BY <1>1, <1>2, <1>4, <1>6, <1>7 DEF VInv, Looping
<1> QED
  BY <1>1, <1>2, <1>3, <1>8 DEF VInv

LEMMA Stutters ==
  ASSUME VInv, UNCHANGED pvars
  PROVE  VInv'
<1>1. /\ UNCHANGED <<prog, loop, waiting, base, rows>>
      /\ UNCHANGED <<pass, todo, reads, step, asked, done, left>>
  BY DEF pvars, vars, opening, call
<1>2. Looping'
  BY <1>1, LoopStands DEF VInv
<1>3. \A w : Owners(w)' = Owners(w)
  BY <1>1 DEF Owners, OwnersGiven, Dependents, Leads
<1>4. \A w, r : Told(w, r) => Told(w, r)'
  BY <1>1, ToldStays DEF prog
<1>5. World' = World
  BY <1>1 DEF World
<1>6. Telling'
  BY <1>1, <1>3, <1>4, <1>5 DEF VInv, Telling
<1> QED
  BY <1>1, <1>2, <1>6 DEF VInv

\* A breaker is never verified once every world asked for was answered, and a splice
\* that is no breaker adds nothing to a clean tree.
LEMMA CleanOnceResolved == CleanTree /\ VInv => VerifiedAreClean
<1> SUFFICES ASSUME CleanTree, VInv, NEW p \in Verified
             PROVE  Adds(Met, {p}) = {}
  BY DEF VerifiedAreClean
<1>1. p \in live /\ p \notin Breakers
  BY DEF Verified, VInv, Looping
<1>2. \A r \in OwnersGiven(reads, {p}) : r \notin Breaks(checker, {p})
  BY <1>1 DEF Breakers
<1>3. OwnersGiven(reads, {p}) \subseteq Root
  <2>1. \A q \in {RootOf[f] : f \in Edited({p})} : q \in Root \union {NoRoot}
    BY <1>1, RsAssumption, VerifyAssumption DEF Edited, VInv, Looping
  <2> QED
    BY <2>1 DEF OwnersGiven, Dependents
<1>4. \A r \in OwnersGiven(reads, {p}) : Writes(checker, {p}, r) = {}
  BY <1>2, <1>3 DEF Writes, CleanTree
<1>5. Met.says = checker /\ Met.reads = reads
  BY DEF Met
<1> QED
  BY <1>4, <1>5 DEF Adds

\* What the Rust pass verifies over a tree that compiles adds no error in any root the
\* recorded member list gives it, for any splices, roots, dependencies and compiler, and
\* whichever passes stop and cargos die.
THEOREM SilenceVerifiesNothing ==
  ASSUME CleanTree
  PROVE  SpecV => []VerifiedAreClean
<1>1. VInv /\ [Running]_pvars => VInv'
  <2> SUFFICES ASSUME VInv, [Running]_pvars PROVE VInv'
    OBVIOUS
  <2> QED
    BY Opens, BaseKeeps, AskKeeps, ServeKeeps, ReportKeeps, MergedKeeps, LevelKeeps, Stutters
    DEF Running, AskMerged, AskLevel
<1>2. SpecV => []VInv
  BY <1>1, Starts, PTL DEF SpecV
<1>3. VInv => VerifiedAreClean
  BY CleanOnceResolved
<1> QED
  BY <1>2, <1>3, PTL

-----------------------------------------------------------------------------
\* The members of S numbered below e.
Below(S, v, e) == {f \in S : v[f] < v[e]}

\* In a finite set whose members have distinct numbers, each rank below its size is the
\* rank of a member.
LEMMA Ranked ==
  ASSUME NEW S, IsFiniteSet(S), NEW v \in [S -> Nat],
         \A e, f \in S : v[e] = v[f] => e = f,
         NEW n \in Nat
  PROVE  /\ n < Cardinality(S) => \E e \in S : Cardinality(Below(S, v, e)) = n
         /\ \A e \in S : Cardinality(Below(S, v, e)) = n => n < Cardinality(S)
         /\ \A d, e \in S : Cardinality(Below(S, v, d)) = Cardinality(Below(S, v, e)) => d = e
<1> DEFINE Rank     == [e \in S |-> Cardinality(Below(S, v, e))]
           Size     == Cardinality(S)
           Range1   == 0 .. (Size - 1)
<1>0. Size \in Nat
  BY FS_CardinalityType
<1>1. ASSUME NEW e \in S
      PROVE  IsFiniteSet(Below(S, v, e)) /\ Cardinality(Below(S, v, e)) \in Nat
             /\ Cardinality(Below(S, v, e)) < Size
  <2>1. IsFiniteSet(Below(S, v, e)) /\ Cardinality(Below(S, v, e)) \in Nat
    <3>1. Below(S, v, e) \subseteq S
      BY DEF Below
    <3> QED
      BY <3>1, FS_Subset, FS_CardinalityType
  <2>2. e \notin Below(S, v, e) /\ Below(S, v, e) \union {e} \subseteq S
    BY DEF Below
  <2>3. Cardinality(Below(S, v, e) \union {e}) = Cardinality(Below(S, v, e)) + 1
    BY <2>1, <2>2, FS_AddElement
  <2>4. Cardinality(Below(S, v, e) \union {e}) <= Size
    BY <2>2, FS_Subset
  <2> QED
    BY <1>0, <2>1, <2>3, <2>4
<1>2. ASSUME NEW d \in S, NEW e \in S, v[d] < v[e]
      PROVE  Cardinality(Below(S, v, d)) < Cardinality(Below(S, v, e))
  <2>1. d \notin Below(S, v, d) /\ Below(S, v, d) \union {d} \subseteq Below(S, v, e)
    <3>1. v[d] \in Nat /\ v[e] \in Nat /\ \A f \in S : v[f] \in Nat
      OBVIOUS
    <3>2. d \notin Below(S, v, d) /\ d \in Below(S, v, e)
      BY <1>2, <3>1 DEF Below
    <3>3. \A f \in Below(S, v, d) : f \in Below(S, v, e)
      BY <1>2, <3>1 DEF Below
    <3> QED
      BY <3>2, <3>3
  <2>2. Cardinality(Below(S, v, d) \union {d}) = Cardinality(Below(S, v, d)) + 1
    BY <1>1, <2>1, FS_AddElement
  <2>3. Cardinality(Below(S, v, d) \union {d}) <= Cardinality(Below(S, v, e))
    BY <1>1, <2>1, FS_Subset
  <2>4. Cardinality(Below(S, v, d)) \in Nat /\ Cardinality(Below(S, v, e)) \in Nat
    BY <1>1
  <2> QED
    BY <2>2, <2>3, <2>4
<1>3. ASSUME NEW d \in S, NEW e \in S, Cardinality(Below(S, v, d)) = Cardinality(Below(S, v, e))
      PROVE  d = e
  <2>1. v[d] \in Nat /\ v[e] \in Nat
    OBVIOUS
  <2>2. Cardinality(Below(S, v, d)) \in Nat /\ Cardinality(Below(S, v, e)) \in Nat
    BY <1>1
  <2>3. ~(v[d] < v[e])
    <3> SUFFICES ASSUME v[d] < v[e] PROVE FALSE
      OBVIOUS
    <3>1. Cardinality(Below(S, v, d)) < Cardinality(Below(S, v, e))
      BY <1>2
    <3> QED
      BY <1>3, <2>2, <3>1
  <2>4. ~(v[e] < v[d])
    <3> SUFFICES ASSUME v[e] < v[d] PROVE FALSE
      OBVIOUS
    <3>1. Cardinality(Below(S, v, e)) < Cardinality(Below(S, v, d))
      BY <1>2
    <3> QED
      BY <1>3, <2>2, <3>1
  <2> QED
    BY <2>1, <2>3, <2>4
<1>4. IsFiniteSet(Range1) /\ Cardinality(Range1) = Size
  BY <1>0, FS_Interval, SMTT(30)
<1> HIDE DEF Size
<1>5. Rank \in Injection(S, Range1)
  <2>1. Rank \in [S -> Range1]
    BY <1>0, <1>1
  <2> QED
    BY <1>3, <2>1 DEF Injection, IsInjective
<1>6. Rank \in Surjection(S, Range1)
  BY <1>4, <1>5, FS_Injection DEF Size
<1>7. ASSUME n < Size PROVE \E e \in S : Cardinality(Below(S, v, e)) = n
  <2>1. n \in Range1
    BY <1>0, <1>7
  <2>2. PICK e \in S : Rank[e] = n
    BY <1>6, <2>1 DEF Surjection
  <2> QED
    BY <2>2
<1>8. \A e \in S : Cardinality(Below(S, v, e)) = n => n < Size
  BY <1>1
<1> QED
  BY <1>3, <1>7, <1>8 DEF Size

\* The loop of core counts as the call does.
LEMMA CountsAgree ==
  ASSUME NEW S
  PROVE  Loop!Cardinality(S) = Cardinality(S)
BY DEF Loop!Cardinality, Cardinality

LEMMA GroupsAreFinite ==
  ASSUME NEW gs \in SUBSET SUBSET Splice
  PROVE  IsFiniteSet(gs) /\ Cardinality(gs) \in Nat
<1>1. IsFiniteSet(SUBSET Splice)
  BY VerifyAssumption, FS_SUBSET
<1> QED
  BY <1>1, FS_Subset, FS_CardinalityType

\* Groups with members and none in common are asked for one by one.
LEMMA BatchIsGroups ==
  ASSUME NEW gs \in SUBSET SUBSET Splice, {} \notin gs,
         \A g, h \in gs : g = h \/ g \cap h = {}
  PROVE  /\ Len(InOrder(gs)) = Cardinality(gs)
         /\ \A i \in 1 .. Cardinality(gs) : InOrder(gs)[i] \in gs
<1> DEFINE v == [g \in gs |-> First(g)]
           n == Cardinality(gs)
           at(i) == CHOOSE g \in gs : Cardinality({h \in gs : First(h) < First(g)}) = i - 1
<1>1. IsFiniteSet(gs) /\ n \in Nat
  BY GroupsAreFinite
<1>2. ASSUME NEW g \in gs PROVE First(g) \in g /\ First(g) \in Nat
  <2>1. g \in SUBSET Nat /\ g # {}
    BY VerifyAssumption
  <2> QED
    BY <2>1, FirstIn
<1>3. v \in [gs -> Nat]
  BY <1>2
<1>4. \A g, h \in gs : v[g] = v[h] => g = h
  BY <1>2
<1>5. \A g \in gs : Below(gs, v, g) = {h \in gs : First(h) < First(g)}
  BY DEF Below
<1> HIDE DEF n, v
<1>6. ASSUME NEW i \in 1 .. n PROVE at(i) \in gs
  <2>1. PICK m \in Nat : m = i - 1 /\ m < n
    BY <1>1
  <2>2. \E g \in gs : Cardinality(Below(gs, v, g)) = m
    BY <1>1, <1>3, <1>4, <2>1, Ranked DEF n
  <2>3. \E g \in gs : Cardinality({h \in gs : First(h) < First(g)}) = i - 1
    BY <1>5, <2>1, <2>2
  <2> QED
    BY <2>3
<1>7. InOrder(gs) = [i \in 1 .. n |-> at(i)]
  BY DEF InOrder, n
<1> HIDE DEF at
<1>8. InOrder(gs) \in [1 .. n -> gs]
  BY <1>6, <1>7
<1>9. InOrder(gs) \in Seq(gs) /\ Len(InOrder(gs)) = n
  BY <1>1, <1>8
<1> QED
  BY <1>8, <1>9 DEF n

-----------------------------------------------------------------------------
\* A group is cut, if it is cut, into halves with members.
LEMMA SplitApart ==
  ASSUME NEW g \in SUBSET Splice, g # {}, NEW errs
  PROVE  /\ {} \notin Loop!Split(g, errs)
         /\ \A a, b \in Loop!Split(g, errs) : a = b \/ a \cap b = {}
<1> DEFINE n == Cardinality(g)
           v == [p \in g |-> p]
           half == {p \in g : Cardinality({q \in g : q < p}) < n \div 2}
<1>1. IsFiniteSet(g) /\ n \in Nat /\ g \subseteq Nat
  BY VerifyAssumption, FS_Subset, FS_CardinalityType
<1>2. Loop!Hosts(g, errs) = {}
  BY DEF Loop!Hosts
<1>3. Loop!FirstHalf(g) = half
  BY CountsAgree DEF Loop!FirstHalf
<1>4. Loop!Split(g, errs) = IF n \div 2 = 0 THEN {g} ELSE {half, g \ half}
  BY <1>2, <1>3, CountsAgree DEF Loop!Split
<1>5. ASSUME n \div 2 # 0 PROVE half # {} /\ g \ half # {}
  <2>1. v \in [g -> Nat] /\ \A p, q \in g : v[p] = v[q] => p = q
    BY <1>1
  <2>2. \A p \in g : Below(g, v, p) = {q \in g : q < p}
    BY DEF Below
  <2>3. half = {p \in g : Cardinality(Below(g, v, p)) < n \div 2}
    BY <2>2
  <2> HIDE DEF v, half
  <2>4. PICK last \in Nat : last + 1 = n /\ ~(last < n \div 2) /\ last < n /\ 0 < n \div 2 /\ 0 < n
    <3>1. n - 1 \in Nat /\ (n - 1) + 1 = n /\ ~(n - 1 < n \div 2) /\ n - 1 < n /\ 0 < n \div 2 /\ 0 < n
      <4> HIDE DEF n
      <4> QED
        BY <1>1, <1>5
    <3> QED
      BY <3>1
  <2>5. ASSUME NEW m \in Nat, m < Cardinality(g)
        PROVE  \E p \in g : Cardinality(Below(g, v, p)) = m
    <3>1. IsFiniteSet(g) /\ v \in [g -> Nat] /\ \A p, q \in g : v[p] = v[q] => p = q
      BY <1>1, <2>1
    <3>2. m < Cardinality(g) => \E p \in g : Cardinality(Below(g, v, p)) = m
      BY <3>1, Ranked
    <3> QED
      BY <2>5, <3>2
  <2>6. PICK p \in g : Cardinality(Below(g, v, p)) = 0
    BY <2>4, <2>5
  <2>7. PICK q \in g : Cardinality(Below(g, v, q)) = last
    BY <2>4, <2>5
  <2> HIDE DEF n
  <2> QED
    BY <2>3, <2>4, <2>6, <2>7
<1> HIDE DEF half, n
<1>6. CASE n \div 2 = 0
  BY <1>4, <1>6
<1>7. CASE n \div 2 # 0
  <2>1. half # {} /\ g \ half # {} /\ Loop!Split(g, errs) = {half, g \ half}
    BY <1>4, <1>5, <1>7
  <2> QED
    BY <2>1
<1> QED
  BY <1>6, <1>7

\* The same of all that a group leaves to do.
LEMMA RegroupedApart ==
  ASSUME NEW g \in SUBSET Splice, NEW errs
  PROVE  /\ {} \notin Loop!Regrouped(g, errs)
         /\ \A a, b \in Loop!Regrouped(g, errs) : a = b \/ a \cap b = {}
<1> DEFINE l == Loop!Live(g, errs)
<1>1. l \in SUBSET Splice
  BY DEF Loop!Live
<1>2. CASE Loop!Regrouped(g, errs) = {}
  BY <1>2
<1>3. CASE Loop!Regrouped(g, errs) = {{p} : p \in l}
  BY <1>3
<1>4. CASE Loop!Regrouped(g, errs) = Loop!Split(l, errs) /\ l # {}
  <2> HIDE DEF l
  <2> QED
    BY <1>1, <1>4, SplitApart
<1>5. \/ Loop!Regrouped(g, errs) = {}
      \/ Loop!Regrouped(g, errs) = {{p} : p \in l}
      \/ Loop!Regrouped(g, errs) = Loop!Split(l, errs) /\ l # {}
  BY DEF Loop!Regrouped
<1> QED
  BY <1>2, <1>3, <1>4, <1>5

-----------------------------------------------------------------------------
\* The groups the next call, or the call that runs, asks a world for.
Pending == IF phase = "merged" THEN {live} ELSE groups

\* The groups of a level have members and none in common.
Apart ==
  /\ phase = "splitting" => groups # {}
  /\ {} \notin groups
  /\ \A g, h \in groups : g = h \/ g \cap h = {}

\* A call runs over the pending groups, and is not past their last.
Asking ==
  waiting => /\ phase # "resolved"
             /\ asked = InOrder(Pending)
             /\ done <= Cardinality(Pending)
             /\ step # "idle" => done < Cardinality(Pending)

\* A row is of a check the world is due, and so of what a complete pass over it adds.
Reported ==
  /\ pass # "ready" => rows = {}
  /\ step = "check" => left \subseteq Owners(World)
  /\ \A row \in rows : row[2] \in Adds(Met, row[1])

LInv == VInv /\ Apart /\ Asking /\ Reported

\* The pending groups are such as a batch can be made of.
LEMMA PendingIsBatch ==
  ASSUME LInv, phase # "resolved"
  PROVE  /\ Pending \in SUBSET SUBSET Splice /\ Cardinality(Pending) \in Nat
         /\ Cardinality(Pending) > 0
         /\ Len(InOrder(Pending)) = Cardinality(Pending)
         /\ \A i \in 1 .. Cardinality(Pending) : InOrder(Pending)[i] \in Pending
<1>1. live \in SUBSET Splice /\ live # {}
  BY VerifyAssumption DEF LInv, VInv, Looping
<1>2. /\ Pending \in SUBSET SUBSET Splice /\ Pending # {} /\ {} \notin Pending
      /\ \A g, h \in Pending : g = h \/ g \cap h = {}
  BY <1>1 DEF LInv, VInv, Looping, Apart, Pending
<1>3. IsFiniteSet(Pending) /\ Cardinality(Pending) \in Nat
  BY <1>2, GroupsAreFinite
<1>4. Cardinality(Pending) # 0
  BY <1>2, <1>3, FS_EmptySet
<1>5. /\ Len(InOrder(Pending)) = Cardinality(Pending)
      /\ \A i \in 1 .. Cardinality(Pending) : InOrder(Pending)[i] \in Pending
  BY <1>2, BatchIsGroups
<1> QED
  BY <1>2, <1>3, <1>4, <1>5

\* A call answers no world but those of the pending groups.
LEMMA AnswersArePending ==
  ASSUME LInv, waiting
  PROVE  Answered \subseteq Pending
<1>1. /\ phase # "resolved" /\ asked = InOrder(Pending) /\ done \in Nat
      /\ done <= Cardinality(Pending)
  BY DEF LInv, VInv, Telling, Asking
<1>2. \A i \in 1 .. Cardinality(Pending) : asked[i] \in Pending
  BY <1>1, PendingIsBatch
<1>3. Cardinality(Pending) \in Nat
  BY <1>1, PendingIsBatch
<1>4. \A i \in 1 .. done : i \in 1 .. Cardinality(Pending)
  BY <1>1, <1>3
<1> QED
  BY <1>2, <1>4 DEF Answered

\* Over a clean tree, what the call read of a world it answered and what a complete pass
\* adds to it implicate the same splices: all of them, or none.
LEMMA ReadsAgree ==
  ASSUME CleanTree, LInv, NEW g \in SUBSET Splice, g \in Answered
  PROVE  /\ (Added[g] # {} <=> Adds(Met, g) # {})
         /\ Added[g] \subseteq Root \X {"new"} /\ Adds(Met, g) \subseteq Root \X {"new"}
<1>1. Added[g] = {row[2] : row \in {q \in rows : q[1] = g}}
  BY DEF Added
<1>2. Added[g] \subseteq Adds(Met, g)
  BY <1>1 DEF LInv, Reported
<1>3. Adds(Met, g) = (UNION {Writes(checker, g, r) : r \in Owners(g)}) \ base
  BY DEF Adds, Met, Owners
<1>4. base = {} /\ Owners(g) \subseteq Root
  <2>1. \A q \in {RootOf[f] : f \in Edited(g)} : q \in Root \union {NoRoot}
    BY RsAssumption DEF Edited
  <2> QED
    BY <2>1 DEF LInv, VInv, Owners, OwnersGiven, Dependents
<1>5. \A r \in Owners(g) : Writes(checker, g, r) = {New(q) : q \in Breaks(checker, g) \cap {r}}
  BY <1>4 DEF Writes, CleanTree
<1>6. Adds(Met, g) \subseteq Root \X {"new"}
  BY <1>3, <1>4, <1>5 DEF New
<1>7. ASSUME Adds(Met, g) # {} PROVE Added[g] # {}
  <2>1. PICK r \in Owners(g) : Writes(checker, g, r) # {}
    BY <1>3, <1>7
  <2>2. r \in Breaks(checker, g)
    BY <1>5, <2>1
  <2>3. PICK i \in 1 .. done : g = asked[i]
    BY DEF Answered
  <2>4. \E row \in rows : row[1] = g
    BY <2>1, <2>2, <2>3 DEF LInv, VInv, Telling, Told
  <2> QED
    BY <1>1, <2>4
<1> QED
  BY <1>2, <1>6, <1>7

\* So each turn the call takes is the loop's turn on complete answers.
LEMMA TurnsAgree ==
  ASSUME CleanTree, LInv, NEW g \in SUBSET Splice
  PROVE  LET heard == Loop!Reply(Added, g)
             said  == Loop!Reply(Loop!Truth(Answered), g)
         IN  /\ Loop!Live(g, heard) = Loop!Live(g, said)
             /\ \A s \in SUBSET Splice : Loop!Split(s, heard) = Loop!Split(s, said)
             /\ Loop!Convicted(g, heard) = Loop!Convicted(g, said)
             /\ Loop!Regrouped(g, heard) = Loop!Regrouped(g, said)
<1> DEFINE heard == Loop!Reply(Added, g)
           said  == Loop!Reply(Loop!Truth(Answered), g)
<1>1. /\ heard = IF g \in Answered THEN Added[g] ELSE {}
      /\ said = IF g \in Answered THEN Adds(Met, g) ELSE {}
  BY DEF Loop!Reply, Loop!Truth, Added
<1>2. (heard # {} <=> said # {}) /\ heard \in SUBSET (Root \X {"new"})
        /\ said \in SUBSET (Root \X {"new"})
  <2>1. CASE g \in Answered
    BY <1>1, <2>1, ReadsAgree
  <2>2. CASE g \notin Answered
    BY <1>1, <2>2
  <2> QED
    BY <2>1, <2>2
<1> HIDE DEF heard, said
<1>3. Loop!Live(g, heard) = Loop!Live(g, said)
  <2>1. CASE heard # {}
    BY <1>2, <2>1, LiveOf
  <2>2. CASE heard = {}
    BY <1>2, <2>2
  <2> QED
    BY <2>1, <2>2
<1>4. ASSUME NEW s \in SUBSET Splice PROVE Loop!Split(s, heard) = Loop!Split(s, said)
  <2>1. Loop!Hosts(s, heard) = {} /\ Loop!Hosts(s, said) = {}
    BY DEF Loop!Hosts
  <2> QED
    BY <2>1 DEF Loop!Split
<1>5. Loop!Convicted(g, heard) = Loop!Convicted(g, said)
  BY <1>3 DEF Loop!Convicted
<1>6. Loop!Regrouped(g, heard) = Loop!Regrouped(g, said)
  <2>1. Loop!Live(g, said) \in SUBSET Splice
    BY DEF Loop!Live
  <2> QED
    BY <1>3, <1>4, <2>1 DEF Loop!Regrouped
<1> QED
  BY <1>3, <1>4, <1>5, <1>6 DEF heard, said

LEMMA MergedIsTheLoop ==
  ASSUME CleanTree, LInv, TakeMerged
  PROVE  Loop!Next
<1> DEFINE heard == Loop!Reply(Added, live)
           said  == Loop!Reply(Loop!Truth(Answered), live)
<1>1. waiting /\ phase = "merged" /\ live \in SUBSET Splice
  BY VerifyAssumption DEF TakeMerged, Back, LInv, VInv, Looping
<1>2. Answered \in SUBSET {live}
  BY <1>1, AnswersArePending DEF Pending
<1>3. Loop!Live(live, heard) = Loop!Live(live, said)
        /\ \A s \in SUBSET Splice : Loop!Split(s, heard) = Loop!Split(s, said)
  BY <1>1, TurnsAgree
<1>4. /\ groups' = IF Loop!Live(live, heard) = {} THEN {}
                   ELSE Loop!Split(Loop!Live(live, heard), heard)
      /\ phase' = IF groups' = {} THEN "resolved" ELSE "splitting"
      /\ missing' = (live \notin Answered)
      /\ UNCHANGED <<vars, prog, banned, tested, turns, base, rows>>
  BY DEF TakeMerged
<1> HIDE DEF heard
<1>5. groups' = IF Loop!Live(live, said) = {} THEN {}
                ELSE Loop!Split(Loop!Live(live, said), said)
  <2> HIDE DEF said
  <2>1. Loop!Live(live, said) \in SUBSET Splice
    BY <1>1 DEF Loop!Live
  <2> QED
    BY <1>3, <1>4, <2>1
<1>6. UNCHANGED <<Met, live, banned, tested, turns>>
  BY <1>4 DEF Met, prog, vars, opening
<1>7. DOMAIN Loop!Truth(Answered) = Answered
  BY DEF Loop!Truth
<1>8. Loop!Merged(Loop!Truth(Answered))
  BY <1>1, <1>4, <1>5, <1>6, <1>7 DEF Loop!Merged
<1> QED
  BY <1>2, <1>8 DEF Loop!Next

LEMMA LevelIsTheLoop ==
  ASSUME CleanTree, LInv, TakeLevel
  PROVE  Loop!Next
<1> DEFINE heard(g) == Loop!Reply(Added, g)
           said(g)  == Loop!Reply(Loop!Truth(Answered), g)
<1>1. waiting /\ phase = "splitting" /\ groups \in SUBSET SUBSET Splice
  BY VerifyAssumption DEF TakeLevel, Back, LInv, VInv, Looping
<1>2. Answered \in SUBSET groups
  BY <1>1, AnswersArePending DEF Pending
<1>3. ASSUME NEW g \in groups
      PROVE  /\ Loop!Convicted(g, heard(g)) = Loop!Convicted(g, said(g))
             /\ Loop!Regrouped(g, heard(g)) = Loop!Regrouped(g, said(g))
  BY <1>1, TurnsAgree
<1>4. /\ banned' = banned \union UNION {Loop!Convicted(g, heard(g)) : g \in groups}
      /\ groups' = UNION {Loop!Regrouped(g, heard(g)) : g \in groups}
      /\ phase' = IF groups' = {} THEN "resolved" ELSE "splitting"
      /\ missing' = (missing \/ Answered # groups)
      /\ tested' = tested + Cardinality(groups) /\ turns' = turns + 1
      /\ UNCHANGED <<vars, prog, base, rows>>
  BY DEF TakeLevel
<1> HIDE DEF heard
<1>5. /\ banned' = banned \union UNION {Loop!Convicted(g, said(g)) : g \in groups}
      /\ groups' = UNION {Loop!Regrouped(g, said(g)) : g \in groups}
  <2> HIDE DEF said
  <2>1. /\ {Loop!Convicted(g, heard(g)) : g \in groups} = {Loop!Convicted(g, said(g)) : g \in groups}
        /\ {Loop!Regrouped(g, heard(g)) : g \in groups} = {Loop!Regrouped(g, said(g)) : g \in groups}
    BY <1>3
  <2> QED
    BY <1>4, <2>1
<1>6. UNCHANGED <<Met, live>>
  BY <1>4 DEF Met, prog, vars, opening
<1>7. DOMAIN Loop!Truth(Answered) = Answered /\ Loop!Cardinality(groups) = Cardinality(groups)
  BY CountsAgree DEF Loop!Truth
<1>8. Loop!Level(Loop!Truth(Answered))
  BY <1>1, <1>4, <1>5, <1>6, <1>7 DEF Loop!Level, Loop!world
<1> QED
  BY <1>2, <1>8 DEF Loop!Next

\* No other step moves the loop while it has the call.
LEMMA OthersStutter ==
  ASSUME [Running]_pvars, ~ TakeMerged, ~ TakeLevel, LInv, pass = "ready"
  PROVE  UNCHANGED Loop!vars
<1>1. UNCHANGED <<checker, reads, base, live, phase, groups, banned, missing, tested, turns>>
  <2>1. CASE OpeningPass \/ BaseReport
    BY <2>1 DEF OpeningPass, BaseReport, Load, Loaded, Members, BaseCheck
  <2>2. CASE AskMerged \/ AskLevel
    BY <2>2 DEF AskMerged, AskLevel, AskFor, Ask, opening, prog, loop
  <2>3. CASE Serving
    BY <2>3 DEF Serving, Open, CopyFails, LayFails, Laid, Answer, Restore, Write, CheckFails,
                opening, prog, loop
  <2>4. CASE \E r \in Root : Report(r)
    BY <2>4 DEF Report, Check, opening, prog, loop
  <2>5. CASE UNCHANGED pvars
    BY <2>5 DEF pvars, vars, opening, prog, loop
  <2> QED
    BY <2>1, <2>2, <2>3, <2>4, <2>5 DEF Running
<1> QED
  BY <1>1 DEF Loop!vars, Met

-----------------------------------------------------------------------------
\* A turn that was taken leaves groups that have members and share none.
LEMMA TurnsStayApart ==
  ASSUME live \in Proposals, groups \subseteq SUBSET live, Apart, TakeMerged \/ TakeLevel
  PROVE  Apart'
<1>1. live \in SUBSET Splice /\ groups \in SUBSET SUBSET live
  BY VerifyAssumption
<1>2. phase' = IF groups' = {} THEN "resolved" ELSE "splitting"
  BY DEF TakeMerged, TakeLevel
<1>3. CASE TakeMerged
  <2> DEFINE errs == Loop!Reply(Added, live)
             s    == Loop!Live(live, errs)
  <2>1. groups' = IF s = {} THEN {} ELSE Loop!Split(s, errs)
    BY <1>3 DEF TakeMerged
  <2>2. s \in SUBSET Splice
    BY <1>1 DEF Loop!Live
  <2> HIDE DEF s, errs
  <2> QED
    BY <1>2, <2>1, <2>2, SplitApart DEF Apart
<1>4. CASE TakeLevel
  <2> DEFINE errs(g) == Loop!Reply(Added, g)
             next(g) == Loop!Regrouped(g, errs(g))
  <2>1. groups' = UNION {next(g) : g \in groups}
    BY <1>4 DEF TakeLevel
  <2>2. \A g \in groups : UNION next(g) \subseteq g
    BY NextOf
  <2>3. \A g \in groups : {} \notin next(g) /\ \A a, b \in next(g) : a = b \/ a \cap b = {}
    BY <1>1, RegroupedApart
  <2> HIDE DEF next, errs
  <2>4. {} \notin groups'
    BY <2>1, <2>3
  <2>5. ASSUME NEW a \in groups', NEW b \in groups' PROVE a = b \/ a \cap b = {}
    <3>1. PICK g \in groups : a \in next(g)
      BY <2>1
    <3>2. PICK h \in groups : b \in next(h)
      BY <2>1
    <3>3. CASE g = h
      BY <2>3, <3>1, <3>2, <3>3
    <3>4. CASE g \cap h = {}
      BY <2>2, <3>1, <3>2, <3>4
    <3> QED
      BY <3>3, <3>4 DEF Apart
  <2> QED
    BY <1>2, <2>4, <2>5 DEF Apart
<1> QED
  BY <1>3, <1>4

LEMMA LStarts == InitV => LInv
<1>1. InitV => Apart /\ Asking /\ Reported
  BY DEF InitV, Init, Apart, Asking, Reported
<1> QED
  BY <1>1, Starts DEF LInv

\* What the loop's standing is read of, where it and the member list stay.
LEMMA ReadingStays ==
  ASSUME UNCHANGED <<checker, reads, base>>
  PROVE  \A w : Adds(Met, w)' = Adds(Met, w) /\ Owners(w)' = Owners(w)
<1>1. \A w : OwnersGiven(reads, w)' = OwnersGiven(reads, w)
  BY DEF OwnersGiven, Dependents, Leads
<1>2. \A w, r : Writes(checker, w, r)' = Writes(checker, w, r)
  BY DEF Writes, Breaks
<1>3. \A w : Adds(Met, w) = (UNION {Writes(checker, w, r) : r \in OwnersGiven(reads, w)}) \ base
  BY DEF Adds, Met
<1>4. \A w : Adds(Met, w)' = (UNION {Writes(checker, w, r)' : r \in OwnersGiven(reads, w)'}) \ base'
  BY DEF Adds, Met
<1>5. ASSUME NEW w PROVE Adds(Met, w)' = Adds(Met, w)
  <2>1. {Writes(checker, w, r)' : r \in OwnersGiven(reads, w)'}
          = {Writes(checker, w, r) : r \in OwnersGiven(reads, w)}
    BY <1>1, <1>2
  <2> QED
    BY <1>3, <1>4, <2>1
<1> QED
  BY <1>1, <1>5 DEF Owners

LEMMA OpeningAsks ==
  ASSUME LInv, OpeningPass \/ BaseReport
  PROVE  Apart' /\ Asking' /\ Reported'
<1>1. /\ UNCHANGED <<prog, loop, waiting, rows, call>> /\ pass # "ready"
  BY DEF OpeningPass, BaseReport, Load, Loaded, Members, BaseCheck
<1>2. ~ waiting /\ rows = {} /\ step = "idle"
  BY <1>1 DEF LInv, VInv, Looping, Telling, Reported
<1> QED
  BY <1>1, <1>2 DEF LInv, Apart, Asking, Reported, prog, loop, call

LEMMA AskAsks ==
  ASSUME LInv, AskMerged \/ AskLevel
  PROVE  Apart' /\ Asking' /\ Reported'
<1>1. /\ asked' = InOrder(Pending) /\ done' = 0 /\ waiting' /\ rows' = {}
      /\ step' \in {"idle", "open"} /\ phase # "resolved"
      /\ UNCHANGED <<loop, prog, pass>>
  BY DEF AskMerged, AskLevel, AskFor, Ask, Pending, opening
<1>2. InOrder(Pending)' = InOrder(Pending) /\ Pending' = Pending
  BY <1>1 DEF Pending, InOrder, loop, prog
<1>3. Cardinality(Pending) \in Nat /\ Cardinality(Pending) > 0
  BY <1>1, PendingIsBatch
<1>4. Asking'
  BY <1>1, <1>2, <1>3 DEF Asking, loop
<1> QED
  BY <1>1, <1>4 DEF LInv, Apart, Reported, loop

LEMMA ServingAsks ==
  ASSUME LInv, Serving
  PROVE  Apart' /\ Asking' /\ Reported'
<1>1. /\ UNCHANGED <<prog, loop, waiting, base, rows>>
      /\ UNCHANGED <<pass, todo, reads, asked>>
      /\ step # "idle"
  BY DEF Serving, Open, CopyFails, LayFails, Laid, Answer, Restore, Write, CheckFails,
         opening, copy, call
<1>2. InOrder(Pending)' = InOrder(Pending) /\ Pending' = Pending
  BY <1>1 DEF Pending, InOrder, loop, prog
<1>3. \A w : Adds(Met, w)' = Adds(Met, w) /\ Owners(w)' = Owners(w)
  BY <1>1, ReadingStays DEF prog
<1>4. /\ step' = "check" => Laid
      /\ Laid => left' = Owners(World) /\ World' = World
      /\ Answer => done' = done + 1 /\ step' = IF done' = Len(asked) THEN "idle" ELSE "open"
      /\ ~ Answer => done' = done
  BY DEF Serving, Open, CopyFails, LayFails, Laid, Answer, Restore, Write, CheckFails, call, World
<1>5. Reported'
  BY <1>1, <1>3, <1>4 DEF LInv, Reported
<1>6. Asking'
  <2> SUFFICES ASSUME waiting PROVE /\ phase # "resolved" /\ done' <= Cardinality(Pending)
                                    /\ step' # "idle" => done' < Cardinality(Pending)
    BY <1>1, <1>2 DEF LInv, Asking, loop
  <2>1. /\ phase # "resolved" /\ asked = InOrder(Pending) /\ done \in Nat
        /\ done < Cardinality(Pending)
    BY <1>1 DEF LInv, VInv, Telling, Asking
  <2>2. Cardinality(Pending) \in Nat /\ Len(asked) = Cardinality(Pending)
    BY <2>1, PendingIsBatch
  <2>3. CASE Answer
    BY <1>4, <2>1, <2>2, <2>3
  <2>4. CASE ~ Answer
    BY <1>4, <2>1, <2>2, <2>4
  <2> QED
    BY <2>1, <2>3, <2>4
<1> QED
  BY <1>1, <1>5, <1>6 DEF LInv, Apart, loop

LEMMA ReportAsks ==
  ASSUME LInv, NEW r \in Root, Report(r)
  PROVE  Apart' /\ Asking' /\ Reported'
<1>1. PICK wrote \in Heard(Writes(checker, World, r)) :
        rows' = rows \union {<<World, e>> : e \in wrote \ base}
  BY DEF Report
<1>2. /\ UNCHANGED <<prog, loop, waiting, base>>
      /\ UNCHANGED <<pass, todo, reads, asked, done, step>>
      /\ step = "check" /\ left' = left \ {r} /\ World' = World /\ r \in left
  BY DEF Report, Check, opening, World
<1>3. InOrder(Pending)' = InOrder(Pending) /\ Pending' = Pending
  BY <1>2 DEF Pending, InOrder, loop, prog
<1>4. \A w : Adds(Met, w)' = Adds(Met, w) /\ Owners(w)' = Owners(w)
  BY <1>2, ReadingStays DEF prog
<1>5. wrote \subseteq Writes(checker, World, r)
  BY <1>1 DEF Heard
<1>6. r \in Owners(World) /\ pass = "ready"
  BY <1>2 DEF LInv, VInv, Telling, Reported
<1>7. \A e \in wrote \ base : e \in Adds(Met, World)
  <2>1. Adds(Met, World) = (UNION {Writes(checker, World, q) : q \in Owners(World)}) \ base
    BY DEF Adds, Met, Owners
  <2>2. Writes(checker, World, r) \in {Writes(checker, World, q) : q \in Owners(World)}
    BY <1>6
  <2>3. Writes(checker, World, r) \subseteq UNION {Writes(checker, World, q) : q \in Owners(World)}
    BY <2>2
  <2> QED
    BY <1>5, <2>1, <2>3
<1>8. ASSUME NEW row \in rows' PROVE row[2] \in Adds(Met, row[1])
  BY <1>1, <1>7, <1>8 DEF LInv, Reported
<1>9. Reported'
  BY <1>2, <1>4, <1>6, <1>8 DEF LInv, Reported
<1>10. Asking'
  BY <1>2, <1>3 DEF LInv, Asking, loop
<1> QED
  BY <1>2, <1>9, <1>10 DEF LInv, Apart, loop

LEMMA TurnsAsk ==
  ASSUME LInv, TakeMerged \/ TakeLevel
  PROVE  Apart' /\ Asking' /\ Reported'
<1>1. UNCHANGED <<vars, prog, base, rows>> /\ ~ waiting' /\ step = "idle"
  BY DEF TakeMerged, TakeLevel, Back
<1>2. \A w : Adds(Met, w)' = Adds(Met, w)
  BY <1>1, ReadingStays DEF vars, opening, prog
<1>3. Reported'
  BY <1>1, <1>2 DEF LInv, Reported, vars, opening, call
<1> QED
  BY <1>1, <1>3, TurnsStayApart DEF Asking, LInv, VInv, Looping

LEMMA StutterAsks ==
  ASSUME LInv, UNCHANGED pvars
  PROVE  Apart' /\ Asking' /\ Reported'
<1>1. /\ UNCHANGED <<prog, loop, waiting, base, rows>>
      /\ UNCHANGED <<pass, todo, reads, step, asked, done, left>>
  BY DEF pvars, vars, opening, call
<1>2. InOrder(Pending)' = InOrder(Pending) /\ Pending' = Pending
  BY <1>1 DEF Pending, InOrder, loop, prog
<1>3. \A w : Adds(Met, w)' = Adds(Met, w) /\ Owners(w)' = Owners(w)
  BY <1>1, ReadingStays DEF prog
<1>4. World' = World
  BY <1>1 DEF World
<1>5. Reported'
  BY <1>1, <1>3, <1>4 DEF LInv, Reported
<1> QED
  BY <1>1, <1>2, <1>5 DEF LInv, Apart, Asking, loop

\* core/src/worlds.rs is "the one loop both stacks run": over a clean tree every turn the
\* Rust call takes, on answers that stop half way and rows a killed cargo left, is the turn
\* the loop takes on complete answers to the worlds that were answered.
THEOREM RustCallIsTheLoop ==
  ASSUME CleanTree
  PROVE  SpecV => CallIsTheLoop
<1>1. LInv /\ [Running]_pvars => LInv'
  <2> SUFFICES ASSUME LInv, [Running]_pvars PROVE LInv'
    OBVIOUS
  <2>1. VInv'
    BY Opens, BaseKeeps, AskKeeps, ServeKeeps, ReportKeeps, MergedKeeps, LevelKeeps, Stutters
    DEF LInv, Running, AskMerged, AskLevel
  <2>2. Apart' /\ Asking' /\ Reported'
    BY OpeningAsks, AskAsks, ServingAsks, ReportAsks, TurnsAsk, StutterAsks DEF Running
  <2> QED
    BY <2>1, <2>2 DEF LInv
<1>2. LInv /\ [Running]_pvars =>
        [pass = "ready" => Loop!Next \/ UNCHANGED Loop!vars]_pvars
  BY MergedIsTheLoop, LevelIsTheLoop, OthersStutter
<1>3. SpecV => []LInv
  BY <1>1, LStarts, PTL DEF SpecV
<1> QED
  BY <1>2, <1>3, PTL DEF SpecV, CallIsTheLoop

-----------------------------------------------------------------------------
\* The groups are of the splices proposed, and apart.
Grouped ==
  /\ live \in Proposals /\ phase \in {"merged", "splitting", "resolved"}
  /\ groups \subseteq SUBSET live
  /\ Apart

\* A turn leaves them so.
LEMMA TurnsKeepGroups ==
  ASSUME Grouped, TakeMerged \/ TakeLevel
  PROVE  groups' \subseteq SUBSET live
<1>1. CASE TakeMerged
  <2> DEFINE errs == Loop!Reply(Added, live)
             s    == Loop!Live(live, errs)
  <2>1. groups' = IF s = {} THEN {} ELSE Loop!Split(s, errs)
    BY <1>1 DEF TakeMerged
  <2>2. s \subseteq live /\ UNION Loop!Split(s, errs) = s
    BY SplitOf DEF Loop!Live
  <2> HIDE DEF s, errs
  <2> QED
    BY <2>1, <2>2
<1>2. CASE TakeLevel
  <2> DEFINE next(g) == Loop!Regrouped(g, Loop!Reply(Added, g))
  <2>1. groups' = UNION {next(g) : g \in groups}
    BY <1>2 DEF TakeLevel
  <2>2. \A g \in groups : UNION next(g) \subseteq g
    BY NextOf
  <2> HIDE DEF next
  <2> QED
    BY <2>1, <2>2 DEF Grouped
<1> QED
  BY <1>1, <1>2

\* What the call asks of the oracle, whatever it is answered: worlds with members.
LEMMA GroupsStay == Grouped /\ [Running]_pvars => Grouped'
<1> SUFFICES ASSUME Grouped, [Running]_pvars PROVE Grouped'
  OBVIOUS
<1>1. CASE TakeMerged \/ TakeLevel
  <2>1. live' = live /\ phase' = IF groups' = {} THEN "resolved" ELSE "splitting"
    BY <1>1 DEF TakeMerged, TakeLevel, prog
  <2> QED
    BY <1>1, <2>1, TurnsStayApart, TurnsKeepGroups DEF Grouped
<1>2. CASE ~ TakeMerged /\ ~ TakeLevel
  <2>1. UNCHANGED <<prog, loop>>
    BY <1>2 DEF Running, OpeningPass, BaseReport, AskMerged, AskLevel, AskFor, Serving, Report,
               pvars
  <2> QED
    BY <2>1 DEF Grouped, Apart, prog, loop
<1> QED
  BY <1>1, <1>2

\* The oracle is asked for any worlds with members and none in common, in their order.
AnyBatch ==
  \A gs \in SUBSET SUBSET Splice :
    gs # {} /\ {} \notin gs /\ (\A g, h \in gs : g = h \/ g \cap h = {}) => InOrder(gs) \in Batches

\* cargo.rs:311-314 and worlds.rs:31-33, of the calls the loop makes: a check compiles its
\* own world's tree, and a world is answered only once every root that reads it compiled.
THEOREM CallsAreServed ==
  ASSUME AnyBatch
  PROVE  SpecV => [](ChecksSeeTheWorld /\ AnswersAreWhole)
<1>1. InitV => Init /\ Grouped
  BY DEF InitV, Grouped, Apart
<1>2. Grouped /\ [Running]_pvars => [Next]_vars
  <2> SUFFICES ASSUME Grouped, [Running]_pvars PROVE [Next]_vars
    OBVIOUS
  <2>1. CASE OpeningPass \/ BaseReport
    BY <2>1 DEF OpeningPass, BaseReport, Next
  <2>2. CASE AskMerged
    <3>1. live \in SUBSET Splice /\ live # {}
      BY VerifyAssumption DEF Grouped
    <3>2. InOrder({live}) \in Batches
      BY <3>1 DEF AnyBatch
    <3> QED
      BY <2>2, <3>2 DEF AskMerged, AskFor, Next
  <2>3. CASE AskLevel
    <3>1. groups \in SUBSET SUBSET Splice /\ groups # {}
      BY <2>3, VerifyAssumption DEF Grouped, Apart, AskLevel
    <3>2. InOrder(groups) \in Batches
      BY <3>1 DEF AnyBatch, Grouped, Apart
    <3> QED
      BY <2>3, <3>2 DEF AskLevel, AskFor, Next
  <2>4. CASE Serving
    BY <2>4 DEF Serving, Serve, Next
  <2>5. CASE \E r \in Root : Report(r)
    BY <2>5 DEF Report, Serve, Next
  <2>6. CASE TakeMerged \/ TakeLevel
    BY <2>6 DEF TakeMerged, TakeLevel
  <2>7. CASE UNCHANGED pvars
    BY <2>7 DEF pvars
  <2> QED
    BY <2>1, <2>2, <2>3, <2>4, <2>5, <2>6, <2>7 DEF Running
<1>3. SpecV => Spec
  BY <1>1, <1>2, GroupsStay, PTL DEF SpecV, Spec
<1> QED
  BY <1>3, WorldsDoNotLeak, AnsweredEverywhere, PTL
=============================================================================
