--------------------------- MODULE PyVerifyProofs ---------------------------
(***************************************************************************)
(* The loop of Vetoed for every set of splices, placement and checker.     *)
(* Then the Python call over it: that the cut to the watched files changes *)
(* no step of the loop, and that a pass the checker crashed under verifies *)
(* nothing.                                                                *)
(***************************************************************************)
EXTENDS PyVerify, FiniteSetTheorems, TLAPS

\* Either way a group is cut, its members are in one of the two halves.
LEMMA SplitCovers ==
  ASSUME NEW group, NEW errs
  PROVE  UNION Split(group, errs) = group
BY DEF Split, Hosts, FirstHalf

\* What a group leaves pending are groups of its own implicated members.
LEMMA RegroupedShrinks ==
  ASSUME NEW group, NEW errs
  PROVE  \A h \in Regrouped(group, errs) : h \subseteq Live(group, errs)
<1>1. \A h \in Split(Live(group, errs), errs) : h \subseteq Live(group, errs)
  BY SplitCovers
<1> QED
  BY <1>1 DEF Regrouped

\* A group of more than one loses no implicated member.
LEMMA RegroupedCovers ==
  ASSUME NEW group, NEW errs, Cardinality(group) # 1
  PROVE  UNION Regrouped(group, errs) = Live(group, errs)
<1>1. UNION Split(Live(group, errs), errs) = Live(group, errs)
  BY SplitCovers
<1> QED
  BY <1>1 DEF Regrouped

-----------------------------------------------------------------------------
LEMMA TypeStart == Init => TypeOK
<1> SUFFICES ASSUME Init PROVE TypeOK
  OBVIOUS
<1>1. groups \in SUBSET SUBSET live
  BY DEF Init
<1> QED
  BY <1>1 DEF Init, TypeOK

\* A step of the loop keeps its state within its types.
LEMMA TypeStep == TypeOK /\ [Next]_vars => TypeOK'
<1> SUFFICES ASSUME TypeOK, [Next]_vars
             PROVE  TypeOK'
  OBVIOUS
<1>1. ASSUME NEW answered \in SUBSET {live}, Merged(Truth(answered))
      PROVE  TypeOK'
  <2>1. groups' \subseteq SUBSET live
    BY <1>1, SplitCovers DEF Merged, Live
  <2> QED
    BY <1>1, <2>1 DEF Merged, TypeOK
<1>2. ASSUME NEW answered \in SUBSET groups, Level(Truth(answered))
      PROVE  TypeOK'
  <2>1. groups' \subseteq SUBSET live
    BY <1>2, RegroupedShrinks DEF Level, TypeOK, Live
  <2>2. banned' \subseteq live
    BY <1>2 DEF Level, TypeOK, Convicted, Live
  <2>3. Cardinality(groups) \in Nat
    <3>1. live \subseteq Splice
      BY BatchesAssumption DEF TypeOK
    <3>2. IsFiniteSet(SUBSET live)
      BY <3>1, SpliceAssumption, FS_Subset, FS_SUBSET
    <3> QED
      BY <3>2, FS_Subset, FS_CardinalityType DEF TypeOK
  <2> QED
    BY <1>2, <2>1, <2>2, <2>3 DEF Level, world, TypeOK
<1>3. CASE UNCHANGED vars
  BY <1>3 DEF vars, TypeOK
<1> QED
  BY <1>1, <1>2, <1>3 DEF Next

\* The type invariant: the loop only ever groups and bans splices under verification.
THEOREM TypeCorrect == Spec => []TypeOK
BY TypeStart, TypeStep, PTL DEF Spec

-----------------------------------------------------------------------------
\* A singleton world convicts only its own member, and only for what it raises alone.
LEMMA ConvictedIsGuilty ==
  ASSUME TypeOK, NEW batch, NEW g \in SUBSET live
  PROVE  Convicted(g, Reply(Truth(batch), g)) \subseteq Guilty
<1> SUFFICES ASSUME NEW p \in Convicted(g, Reply(Truth(batch), g))
             PROVE  p \in Guilty
  OBVIOUS
<1>1. Cardinality(g) = 1 /\ p \in g /\ Errored(p, Reply(Truth(batch), g))
  BY DEF Convicted, Live
<1>2. IsFiniteSet(g)
  BY SpliceAssumption, BatchesAssumption, FS_Subset DEF TypeOK
<1>3. g = {p}
  BY <1>1, <1>2, FS_Singleton
<1>4. Errored(p, Raises(checker, g))
  BY <1>1 DEF Reply, Truth, Errored
<1> QED
  BY <1>1, <1>3, <1>4 DEF Guilty, ErrsAlone

\* No splice is vetoed by a neighbour's breakage, for any checker at all and whatever
\* worlds it leaves unanswered.
THEOREM NeverContaminated == Spec => []NoContamination
<1>1. Init => NoContamination
  BY DEF Init, NoContamination
<1>2. TypeOK /\ NoContamination /\ [Next]_vars => NoContamination'
  <2> SUFFICES ASSUME TypeOK, NoContamination, [Next]_vars
               PROVE  NoContamination'
    OBVIOUS
  <2>1. ASSUME NEW answered \in SUBSET {live}, Merged(Truth(answered))
        PROVE  NoContamination'
    BY <2>1 DEF Merged, NoContamination, Guilty
  <2>2. ASSUME NEW answered \in SUBSET groups, Level(Truth(answered))
        PROVE  NoContamination'
    <3>1. Guilty' = Guilty
      BY <2>2 DEF Level, world, Guilty
    <3>2. \A g \in groups : Convicted(g, Reply(Truth(answered), g)) \subseteq Guilty
      BY ConvictedIsGuilty DEF TypeOK
    <3> QED
      BY <2>2, <3>1, <3>2 DEF Level, NoContamination
  <2>3. CASE UNCHANGED vars
    BY <2>3 DEF vars, NoContamination, Guilty
  <2> QED
    BY <2>1, <2>2, <2>3 DEF Next
<1> QED
  BY <1>1, <1>2, TypeCorrect, PTL DEF Spec

-----------------------------------------------------------------------------
\* Of two members of a group, the later one has more before it.
LEMMA RanksDiffer ==
  ASSUME NEW g \in SUBSET Splice, NEW p \in g, NEW q \in g, p < q
  PROVE  Cardinality({r \in g : r < p}) # Cardinality({r \in g : r < q})
<1> DEFINE below(x) == {r \in g : r < x}
<1>1. IsFiniteSet(below(q))
  <2>1. below(q) \in SUBSET Splice
    OBVIOUS
  <2> QED
    BY <2>1, SpliceAssumption, FS_Subset
<1>2. below(p) \subseteq below(q) /\ p \in below(q) /\ p \notin below(p)
  <2>1. \A r \in g : r \in Nat
    BY SpliceAssumption
  <2>2. \A r \in g : r < p => r < q
    BY <2>1
  <2> QED
    BY <2>1, <2>2
<1>3. below(p) \in SUBSET below(q) /\ below(p) # below(q)
  BY <1>2
<1> HIDE DEF below
<1>4. Cardinality(below(p)) # Cardinality(below(q))
  BY <1>1, <1>3, FS_Subset
<1> QED
  BY <1>4 DEF below

\* A member has at most all the others before it.
LEMMA RankOf ==
  ASSUME NEW g \in SUBSET Splice, NEW p \in g
  PROVE  Cardinality({q \in g : q < p}) \in 0 .. Cardinality(g) - 1
<1> DEFINE below == {q \in g : q < p}
<1>1. IsFiniteSet(g) /\ below \in SUBSET g
  BY SpliceAssumption, FS_Subset
<1>2. p \notin below
  <2>1. p \in Nat
    BY SpliceAssumption
  <2> QED
    BY <2>1
<1>3. below # g
  BY <1>2
<1>6. IsFiniteSet(below)
  BY <1>1, FS_Subset
<1> HIDE DEF below
<1>4. /\ Cardinality(below) <= Cardinality(g)
      /\ Cardinality(below) # Cardinality(g)
  BY <1>1, <1>3, FS_Subset
<1>5. Cardinality(below) \in Nat /\ Cardinality(g) \in Nat
  BY <1>1, <1>6, FS_CardinalityType
<1>7. Cardinality(below) \in 0 .. Cardinality(g) - 1
  BY <1>4, <1>5
<1> QED
  BY <1>7 DEF below

\* A group of two or more is cut into two halves that both have members: the ranks in a
\* group of n are the numbers below n, so some member has rank 0 and one n - 1.
LEMMA HalvesAreProper ==
  ASSUME NEW g \in SUBSET Splice, g # {}, Cardinality(g) # 1
  PROVE  FirstHalf(g) # {} /\ g \ FirstHalf(g) # {}
<1> DEFINE n       == Cardinality(g)
           rank(p) == Cardinality({q \in g : q < p})
<1>1. IsFiniteSet(g)
  BY SpliceAssumption, FS_Subset
<1>2. n \in Nat /\ n > 1
  BY <1>1, FS_CardinalityType, FS_EmptySet
<1>3. \A p \in g : rank(p) \in 0 .. n - 1
  BY RankOf
<1>4. \A p, q \in g : rank(p) = rank(q) => p = q
  <2> SUFFICES ASSUME NEW p \in g, NEW q \in g, p # q
               PROVE  rank(p) # rank(q)
    OBVIOUS
  <2>1. p < q \/ q < p
    BY SpliceAssumption
  <2> QED
    BY <2>1, RanksDiffer
<1>5. FirstHalf(g) = {p \in g : rank(p) < n \div 2}
  BY DEF FirstHalf
<1> HIDE DEF rank, n
<1>6. ASSUME NEW m \in 0 .. n - 1
      PROVE  \E p \in g : rank(p) = m
  <2> SUFFICES ASSUME \A p \in g : rank(p) # m
               PROVE  FALSE
    OBVIOUS
  <2> DEFINE all    == 0 .. n - 1
             others == all \ {m}
             f      == [p \in g |-> rank(p)]
  <2>1. f \in [g -> others]
    BY <1>3
  <2>2. m \in all /\ IsFiniteSet(all) /\ Cardinality(all) = n
    BY <1>2, FS_Interval
  <2>3. IsFiniteSet(others) /\ Cardinality(others) = n - 1
    <3> HIDE DEF all
    <3> QED
      BY <2>2, FS_RemoveElement
  <2> HIDE DEF others
  <2>4. Cardinality(others) < Cardinality(g)
    BY <1>2, <2>3 DEF n
  <2>5. \E p, q \in g : p # q /\ f[p] = f[q]
    <3> HIDE DEF f
    <3> QED
      BY <1>1, <2>1, <2>3, <2>4, FS_PigeonHole
  <2> QED
    BY <1>4, <2>5
<1>7. 0 \in 0 .. n - 1 /\ n - 1 \in 0 .. n - 1 /\ 0 < n \div 2 /\ ~(n - 1 < n \div 2)
  BY <1>2
<1> QED
  BY <1>5, <1>6, <1>7

\* The groups a cut makes have members and share none.
LEMMA SplitParts ==
  ASSUME NEW g \in SUBSET Splice, g # {}, NEW errs
  PROVE  /\ {} \notin Split(g, errs)
         /\ \A h, k \in Split(g, errs) : h = k \/ h \intersect k = {}
<1>1. CASE Hosts(g, errs) # {} /\ g \ Hosts(g, errs) # {}
  BY <1>1 DEF Split
<1>2. CASE ~(Hosts(g, errs) # {} /\ g \ Hosts(g, errs) # {}) /\ Cardinality(g) \div 2 = 0
  BY <1>2 DEF Split
<1>3. CASE ~(Hosts(g, errs) # {} /\ g \ Hosts(g, errs) # {}) /\ Cardinality(g) \div 2 # 0
  <2>1. Cardinality(g) # 1
    BY <1>3
  <2>2. FirstHalf(g) # {} /\ g \ FirstHalf(g) # {}
    BY <2>1, HalvesAreProper
  <2>3. Split(g, errs) = {FirstHalf(g), g \ FirstHalf(g)}
    BY <1>3 DEF Split
  <2> QED
    BY <2>2, <2>3
<1> QED
  BY <1>1, <1>2, <1>3

\* ... and so have those a tested group leaves.
LEMMA RegroupedParts ==
  ASSUME NEW g \in SUBSET Splice, NEW errs
  PROVE  /\ {} \notin Regrouped(g, errs)
         /\ \A h, k \in Regrouped(g, errs) : h = k \/ h \intersect k = {}
<1> DEFINE implicated == Live(g, errs)
<1>1. implicated \in SUBSET Splice
  BY DEF Live
<1>2. \/ Regrouped(g, errs) = {}
      \/ Regrouped(g, errs) = {{p} : p \in implicated}
      \/ implicated # {} /\ Regrouped(g, errs) = Split(implicated, errs)
  BY DEF Regrouped
<1> HIDE DEF implicated
<1>3. CASE Regrouped(g, errs) = {{p} : p \in implicated}
  BY <1>3
<1>4. CASE implicated # {} /\ Regrouped(g, errs) = Split(implicated, errs)
  BY <1>1, <1>4, SplitParts
<1> QED
  BY <1>2, <1>3, <1>4

\* A checker pass never compiles an empty world, a splice twice or a vetoed splice again.
THEOREM NoneTestedTwice == Spec => []TestedOnce
<1> DEFINE Fresh == phase = "merged" => banned = {}
<1>1. Init => TestedOnce /\ Fresh
  BY DEF Init, TestedOnce
<1>2. TypeOK /\ TestedOnce /\ Fresh /\ [Next]_vars => TestedOnce' /\ Fresh'
  <2> SUFFICES ASSUME TypeOK, TestedOnce, Fresh, [Next]_vars
               PROVE  TestedOnce' /\ Fresh'
    OBVIOUS
  <2>1. ASSUME NEW answered \in SUBSET {live}, Merged(Truth(answered))
        PROVE  TestedOnce' /\ Fresh'
    <3> DEFINE errs == Reply(Truth(answered), live)
    <3>1. Live(live, errs) \in SUBSET Splice
      BY BatchesAssumption DEF TypeOK, Live
    <3>2. groups' = IF Live(live, errs) = {} THEN {} ELSE Split(Live(live, errs), errs)
      BY <2>1 DEF Merged
    <3>3. {} \notin groups' /\ \A h, k \in groups' : h = k \/ h \intersect k = {}
      BY <3>1, <3>2, SplitParts
    <3>4. banned' = {} /\ phase' # "merged"
      BY <2>1 DEF Merged
    <3> QED
      BY <3>3, <3>4 DEF TestedOnce
  <2>2. ASSUME NEW answered \in SUBSET groups, Level(Truth(answered))
        PROVE  TestedOnce' /\ Fresh'
    <3> DEFINE errs(g) == Reply(Truth(answered), g)
               parts(g) == Regrouped(g, errs(g))
    <3>1. \A g \in groups : g \in SUBSET Splice
      BY BatchesAssumption DEF TypeOK
    <3>2. \A g \in groups : {} \notin parts(g) /\ \A h, k \in parts(g) : h = k \/ h \intersect k = {}
      BY <3>1, RegroupedParts
    <3>3. \A g \in groups : \A h \in parts(g) : h \subseteq g
      BY RegroupedShrinks DEF Live
    <3>4. \A g \in groups : Convicted(g, errs(g)) \subseteq g
      BY DEF Convicted, Live
    <3>5. \A g \in groups : parts(g) = {} \/ Convicted(g, errs(g)) = {}
      BY DEF Convicted, Regrouped
    <3>6. /\ groups' = UNION {parts(g) : g \in groups}
          /\ banned' = banned \union UNION {Convicted(g, errs(g)) : g \in groups}
          /\ phase' # "merged"
      BY <2>2 DEF Level
    <3> HIDE DEF errs, parts
    <3>7. {} \notin groups'
      BY <3>2, <3>6
    <3>8. ASSUME NEW h \in groups', NEW k \in groups'
          PROVE  h = k \/ h \intersect k = {}
      <4>1. PICK g \in groups : h \in parts(g)
        BY <3>6
      <4>2. PICK i \in groups : k \in parts(i)
        BY <3>6
      <4>3. g = i \/ g \intersect i = {}
        BY DEF TestedOnce
      <4> QED
        BY <3>2, <3>3, <4>1, <4>2, <4>3
    <3>9. ASSUME NEW h \in groups'
          PROVE  h \intersect banned' = {}
      <4>1. PICK g \in groups : h \in parts(g)
        BY <3>6
      <4>2. g \intersect banned = {}
        BY DEF TestedOnce
      <4>3. \A i \in groups : h \intersect Convicted(i, errs(i)) = {}
        <5> SUFFICES ASSUME NEW i \in groups
                     PROVE  h \intersect Convicted(i, errs(i)) = {}
          OBVIOUS
        <5>1. CASE i = g
          BY <3>5, <4>1, <5>1
        <5>2. CASE i # g
          <6>1. g \intersect i = {}
            BY <5>2 DEF TestedOnce
          <6> QED
            BY <3>3, <3>4, <4>1, <6>1
        <5> QED
          BY <5>1, <5>2
      <4> QED
        BY <3>3, <3>6, <4>1, <4>2, <4>3
    <3> QED
      BY <3>6, <3>7, <3>8, <3>9 DEF TestedOnce
  <2>3. CASE UNCHANGED vars
    BY <2>3 DEF vars, TestedOnce
  <2> QED
    BY <2>1, <2>2, <2>3 DEF Next
<1> QED
  BY <1>1, <1>2, TypeCorrect, PTL DEF Spec

-----------------------------------------------------------------------------
\* The strengthening that carries the verdicts: groups are exhausted when the loop ends,
\* and no guilty splice fell out of them on the way.
IInv ==
  /\ TypeOK
  /\ NoContamination
  /\ GuiltyAccounted
  /\ phase = "resolved" => groups = {}

\* In an answered world every guilty member shows.
LEMMA GuiltyShows ==
  ASSUME TypeOK, VetoMonotone(checker), NEW batch, NEW g \in batch,
         g \in SUBSET Splice, NEW p \in g, p \in Guilty
  PROVE  p \in Live(g, Reply(Truth(batch), g))
<1>1. p \in Splice /\ ErrsAlone(checker, p)
  BY DEF Guilty
<1>2. Errored(p, Raises(checker, g))
  BY <1>1 DEF VetoMonotone
<1>3. Reply(Truth(batch), g) = Raises(checker, g)
  BY DEF Reply, Truth
<1> QED
  BY <1>2, <1>3 DEF Live

LEMMA MergedKeepsGuilty ==
  ASSUME TypeOK, NEW answered \in SUBSET {live}, Merged(Truth(answered))
  PROVE  GuiltyAccounted'
<1> SUFFICES ASSUME ~absent', VetoMonotone(checker), NEW p \in Guilty
             PROVE  p \in UNION groups'
  BY DEF GuiltyAccounted, Merged, Guilty
<1> DEFINE errs == Reply(Truth(answered), live)
<1>1. answered = {live} /\ live \in SUBSET Splice
  BY BatchesAssumption DEF Merged, Truth, TypeOK
<1>2. p \in Live(live, errs)
  BY <1>1, GuiltyShows DEF Guilty
<1>3. groups' = Split(Live(live, errs), errs)
  BY <1>2 DEF Merged
<1> QED
  BY <1>2, <1>3, SplitCovers

LEMMA LevelKeepsGuilty ==
  ASSUME TypeOK, GuiltyAccounted, NEW answered \in SUBSET groups, Level(Truth(answered))
  PROVE  GuiltyAccounted'
<1> SUFFICES ASSUME ~absent', VetoMonotone(checker), NEW p \in Guilty
             PROVE  p \in banned' \union UNION groups'
  BY DEF GuiltyAccounted, Level, world, Guilty
<1>1. answered = groups /\ ~absent
  BY DEF Level, Truth
<1>2. p \in banned \union UNION groups
  BY <1>1 DEF GuiltyAccounted, Level
<1>3. CASE p \in banned
  BY <1>3 DEF Level
<1>4. ASSUME NEW g \in groups, p \in g
      PROVE  p \in banned' \union UNION groups'
  <2> DEFINE errs == Reply(Truth(answered), g)
  <2>1. g \in SUBSET Splice
    BY BatchesAssumption DEF TypeOK
  <2>2. p \in Live(g, errs)
    BY <1>1, <1>4, <2>1, GuiltyShows
  <2>3. CASE Cardinality(g) = 1
    BY <2>2, <2>3 DEF Level, Convicted
  <2>4. CASE Cardinality(g) # 1
    <3>1. p \in UNION Regrouped(g, errs)
      BY <2>2, <2>4, RegroupedCovers
    <3> QED
      BY <3>1 DEF Level
  <2> QED
    BY <2>3, <2>4
<1> QED
  BY <1>2, <1>3, <1>4

LEMMA Inductive == IInv /\ [Next]_vars => GuiltyAccounted' /\ (phase = "resolved" => groups = {})'
<1> SUFFICES ASSUME IInv, [Next]_vars
             PROVE  GuiltyAccounted' /\ (phase = "resolved" => groups = {})'
  OBVIOUS
<1>1. ASSUME NEW answered \in SUBSET {live}, Merged(Truth(answered))
      PROVE  GuiltyAccounted' /\ (phase = "resolved" => groups = {})'
  BY <1>1, MergedKeepsGuilty DEF IInv, Merged
<1>2. ASSUME NEW answered \in SUBSET groups, Level(Truth(answered))
      PROVE  GuiltyAccounted' /\ (phase = "resolved" => groups = {})'
  BY <1>2, LevelKeepsGuilty DEF IInv, Level
<1>3. CASE UNCHANGED vars
  BY <1>3 DEF vars, IInv, GuiltyAccounted, Guilty
<1> QED
  BY <1>1, <1>2, <1>3 DEF Next

LEMMA Invariance == Spec => []IInv
<1>1. Init => GuiltyAccounted /\ (phase = "resolved" => groups = {})
  BY DEF Init, GuiltyAccounted
<1> QED
  BY <1>1, Inductive, TypeCorrect, NeverContaminated, PTL DEF Spec, IInv

\* While every world is answered no guilty splice escapes the groups.
THEOREM NoneEscapes == Spec => []GuiltyAccounted
BY Invariance, PTL DEF IInv

\* The set returned is the set an isolated world each would veto, for every
\* veto-monotone checker that answered every world.
THEOREM Faithful == Spec => []VerdictsAreIsolated
<1>1. IInv => VerdictsAreIsolated
  BY DEF IInv, VerdictsAreIsolated, GuiltyAccounted, NoContamination, TypeOK
<1> QED
  BY <1>1, Invariance, PTL

-----------------------------------------------------------------------------
(* What a pass may cost. *)

\* One member more doubles the subsets.
LEMMA Doubles ==
  ASSUME NEW n \in Nat
  PROVE  2 ^ n \in Nat /\ 2 ^ (n + 1) \in Nat /\ 2 ^ (n + 1) = 2 * 2 ^ n
<1> DEFINE S == 1 .. n
           T == 1 .. n + 1
           f == [s \in SUBSET S |-> s \union {n + 1}]
           U == {s \in SUBSET T : n + 1 \in s}
<1>1. IsFiniteSet(S) /\ Cardinality(S) = n
  <2>1. Cardinality(S) = IF 1 <= n THEN n - 1 + 1 ELSE 0
    BY FS_Interval
  <2> QED
    BY <2>1, FS_Interval
<1>2. IsFiniteSet(T) /\ Cardinality(T) = n + 1
  <2>1. PICK m \in Nat : m = n + 1
    OBVIOUS
  <2>2. Cardinality(1 .. m) = IF 1 <= m THEN m - 1 + 1 ELSE 0
    BY FS_Interval
  <2> QED
    BY <2>1, <2>2, FS_Interval
<1>3. n + 1 \notin S /\ T = S \union {n + 1}
  OBVIOUS
<1>4. IsFiniteSet(SUBSET S) /\ Cardinality(SUBSET S) = 2 ^ n
  BY <1>1, FS_SUBSET
<1>5. IsFiniteSet(SUBSET T) /\ Cardinality(SUBSET T) = 2 ^ (n + 1)
  BY <1>2, FS_SUBSET
<1> HIDE DEF S, T
<1>6. f \in Bijection(SUBSET S, U)
  <2>1. f \in [SUBSET S -> U]
    BY <1>3
  <2>2. ASSUME NEW s \in SUBSET S, NEW t \in SUBSET S, f[s] = f[t]
        PROVE  s = t
    BY <1>3, <2>2
  <2>3. ASSUME NEW u \in U
        PROVE  \E s \in SUBSET S : f[s] = u
    <3>1. u \ {n + 1} \in SUBSET S /\ (u \ {n + 1}) \union {n + 1} = u
      BY <1>3
    <3>2. f[u \ {n + 1}] = u
      BY <3>1
    <3> QED
      BY <3>1, <3>2
  <2> QED
    BY <2>1, <2>2, <2>3 DEF Bijection, Injection, Surjection, IsInjective
<1>7. IsFiniteSet(U) /\ Cardinality(U) = Cardinality(SUBSET S)
  BY <1>4, <1>6, FS_Bijection DEF ExistsBijection
<1>8. SUBSET T = (SUBSET S) \union U /\ (SUBSET S) \intersect U = {}
  BY <1>3
<1> HIDE DEF U
<1>9. Cardinality(SUBSET T) = Cardinality(SUBSET S) + Cardinality(U) - Cardinality({})
  BY <1>4, <1>7, <1>8, FS_Union
<1>10. Cardinality({}) = 0
  BY FS_EmptySet
<1>11. Cardinality(SUBSET S) \in Nat /\ Cardinality(SUBSET T) \in Nat
  BY <1>4, <1>5, FS_CardinalityType
<1> QED
  BY <1>4, <1>5, <1>7, <1>9, <1>10, <1>11

\* Sizes along a chain of sets of splices.
LEMMA Sizes ==
  ASSUME NEW g \in SUBSET Splice
  PROVE  /\ IsFiniteSet(g) /\ Cardinality(g) \in Nat /\ (Cardinality(g) = 0 <=> g = {})
         /\ \A h \in SUBSET g : Cardinality(h) <= Cardinality(g)
BY SpliceAssumption, FS_Subset, FS_CardinalityType, FS_EmptySet

\* A group of more than one comes of a tested group at least twice its size.
LEMMA RegroupedHalves ==
  ASSUME NEW g \in SUBSET Splice, NEW errs, NEW h \in Regrouped(g, errs), Cardinality(h) > 1
  PROVE  2 * Cardinality(h) <= Cardinality(g) /\ Cardinality(g) > 1
<1> DEFINE implicated == Live(g, errs)
<1>1. h \subseteq implicated /\ implicated \in SUBSET g
  BY RegroupedShrinks DEF Live
<1>2. Cardinality(h) <= Cardinality(implicated) /\ Cardinality(h) \in Nat
        /\ Cardinality(implicated) \in Nat /\ Cardinality(g) \in Nat
        /\ Cardinality(implicated) <= Cardinality(g)
  <2>1. implicated \in SUBSET Splice /\ h \in SUBSET Splice
    BY <1>1
  <2> HIDE DEF implicated
  <2> QED
    BY <1>1, <2>1, Sizes
<1>3. CASE 2 * Cardinality(implicated) > Cardinality(g)
  <2>1. Regrouped(g, errs) = {} \/ Regrouped(g, errs) = {{p} : p \in implicated}
    BY <1>3 DEF Regrouped
  <2>2. PICK p : h = {p}
    BY <2>1
  <2>3. Cardinality(h) = 1
    BY <2>2, FS_Singleton
  <2> QED
    BY <2>3
<1>4. CASE ~ (2 * Cardinality(implicated) > Cardinality(g))
  <2> HIDE DEF implicated
  <2> QED
    BY <1>2, <1>4
<1> QED
  BY <1>3, <1>4

\* Before the merged world answers nothing was asked; after it, groups hold suspects.
Opening == phase = "merged" => groups = {} /\ passes = 0 /\ asked = 0 /\ ~ absent

DepthInv == TypeOK /\ Opening /\ PassDepth

LEMMA SuspectsStay ==
  ASSUME UNCHANGED world
  PROVE  Suspects' = Suspects /\ Guilty' = Guilty /\ VetoMonotone(checker)' = VetoMonotone(checker)
BY DEF world, Suspects, Guilty, VetoMonotone

\* The suspects the merged world leaves, where it was answered; nothing where it was not.
LEMMA MergedSplits ==
  ASSUME TypeOK, NEW answered \in SUBSET {live}, Merged(Truth(answered))
  PROVE  groups' = {} \/ groups' \in {Split(Suspects, errs) : errs \in {Raises(checker, live)}}
<1> DEFINE errs == Reply(Truth(answered), live)
<1>1. groups' = IF Live(live, errs) = {} THEN {} ELSE Split(Live(live, errs), errs)
  BY DEF Merged
<1>2. CASE answered = {live}
  <2>1. errs = Raises(checker, live)
    BY <1>2 DEF Reply, Truth
  <2> QED
    BY <1>1, <2>1 DEF Suspects
<1>3. CASE answered = {}
  <2>1. errs = {}
    BY <1>3 DEF Reply, Truth
  <2>2. Live(live, errs) = {}
    BY <2>1 DEF Live, Errored
  <2> QED
    BY <1>1, <2>2
<1> QED
  BY <1>2, <1>3

\* Each turn of the loop halves what is not a singleton yet.
LEMMA DepthStep == DepthInv /\ [Next]_vars => DepthInv'
<1> SUFFICES ASSUME DepthInv, [Next]_vars
             PROVE  Opening' /\ PassDepth'
  BY TypeStep DEF DepthInv
<1>0. TypeOK /\ Opening /\ PassDepth /\ live \in SUBSET Splice
  BY BatchesAssumption DEF DepthInv, TypeOK
<1>1. ASSUME NEW answered \in SUBSET {live}, Merged(Truth(answered))
      PROVE  Opening' /\ PassDepth'
  <2>1. phase' # "merged" /\ passes' = passes /\ passes = 0 /\ UNCHANGED world
    BY <1>0, <1>1 DEF Merged, Opening, world
  <2>2. Suspects' = Suspects
    BY <2>1, SuspectsStay
  <2>3. Suspects \in SUBSET Splice
    BY <1>0 DEF Suspects, Live
  <2>4. \A g \in groups' : g \in SUBSET Suspects
    BY <1>0, <1>1, MergedSplits, SplitCovers
  <2>5. ASSUME NEW g \in groups'
        PROVE  Cardinality(g) * 2 ^ passes' <= Cardinality(Suspects')
    <3>1. Cardinality(g) <= Cardinality(Suspects) /\ Cardinality(g) \in Nat
      <4>1. g \in SUBSET Suspects /\ g \in SUBSET Splice
        BY <2>3, <2>4
      <4> QED
        BY <2>3, <4>1, Sizes
    <3>2. 2 ^ passes' = 1
      <4>1. 2 ^ 0 = 1
        OBVIOUS
      <4> QED
        BY <2>1, <4>1
    <3> QED
      BY <2>2, <3>1, <3>2
  <2> QED
    BY <2>1, <2>5 DEF Opening, PassDepth
<1>2. ASSUME NEW answered \in SUBSET groups, Level(Truth(answered))
      PROVE  Opening' /\ PassDepth'
  <2> DEFINE errs(g) == Reply(Truth(answered), g)
  <2>1. /\ phase' # "merged" /\ passes' = passes + 1 /\ UNCHANGED world
        /\ groups' = UNION {Regrouped(g, errs(g)) : g \in groups}
    BY <1>2 DEF Level
  <2>2. Suspects' = Suspects /\ passes \in Nat
    BY <1>0, <2>1, SuspectsStay DEF TypeOK
  <2> HIDE DEF errs
  <2>3. ASSUME NEW h \in groups', Cardinality(h) > 1
        PROVE  Cardinality(h) * 2 ^ passes' <= Cardinality(Suspects')
    <3>1. PICK g \in groups : h \in Regrouped(g, errs(g))
      BY <2>1
    <3>2. g \in SUBSET Splice /\ Suspects \in SUBSET Splice
      BY <1>0 DEF TypeOK, Suspects, Live
    <3>3. 2 * Cardinality(h) <= Cardinality(g) /\ Cardinality(g) > 1
      BY <2>3, <3>1, <3>2, RegroupedHalves
    <3>4. Cardinality(g) * 2 ^ passes <= Cardinality(Suspects)
      BY <1>0, <3>3 DEF PassDepth
    <3>5. 2 ^ passes \in Nat /\ 2 ^ (passes + 1) = 2 * 2 ^ passes
      BY <2>2, Doubles
    <3>6. h \in SUBSET Splice
      BY <3>1, <3>2, RegroupedShrinks DEF Live
    <3>7. Cardinality(h) \in Nat /\ Cardinality(g) \in Nat /\ Cardinality(Suspects) \in Nat
      BY <3>2, <3>6, Sizes
    <3>8. \A a, b, p, n \in Nat : 2 * a <= b /\ b * p <= n => a * (2 * p) <= n
      <4> SUFFICES ASSUME NEW a \in Nat, NEW b \in Nat, NEW p \in Nat, NEW n \in Nat,
                          2 * a <= b, b * p <= n
                   PROVE  a * (2 * p) <= n
        OBVIOUS
      <4>1. PICK d \in Nat : b = 2 * a + d
        <5>1. b - 2 * a \in Nat /\ b = 2 * a + (b - 2 * a)
          OBVIOUS
        <5> QED
          BY <5>1
      <4>2. b * p = a * (2 * p) + d * p
        BY <4>1
      <4>3. d * p \in Nat /\ a * (2 * p) \in Nat
        OBVIOUS
      <4> QED
        BY <4>2, <4>3
    <3>9. Cardinality(h) * (2 * 2 ^ passes) <= Cardinality(Suspects)
      BY <3>3, <3>4, <3>5, <3>7, <3>8
    <3> QED
      BY <2>1, <2>2, <3>5, <3>9
  <2> QED
    BY <2>1, <2>3 DEF Opening, PassDepth
<1>3. CASE UNCHANGED vars
  <2>1. UNCHANGED <<world, phase, groups, passes, asked, absent>>
    BY <1>3 DEF vars, world
  <2>2. Suspects' = Suspects
    BY <2>1, SuspectsStay
  <2> QED
    BY <1>0, <2>1, <2>2 DEF Opening, PassDepth
<1> QED
  BY <1>1, <1>2, <1>3 DEF Next

\* Each turn of an all-veto set: two groups, then their singletons, then none.
Priced ==
  phase # "merged" =>
    /\ \A g \in groups : g \subseteq Suspects /\ g # {}
    /\ passes = 0 => asked = 0 /\ \E h, k : groups \subseteq {h, k}
    /\ passes = 1 => asked <= 2 /\ \A g \in groups : \E p \in g : g = {p}
    /\ passes > 1 => asked <= Cardinality(Suspects) + 2 /\ groups = {}

AllGuilty == ~ absent /\ VetoMonotone(checker) /\ Suspects \subseteq Guilty

CostInv == TypeOK /\ Opening /\ (AllGuilty => Priced)

\* A set of singletons is no larger than the set they are of.
LEMMA Singletons ==
  ASSUME NEW S, IsFiniteSet(S), NEW G, \A g \in G : \E p \in S : g = {p}
  PROVE  IsFiniteSet(G) /\ Cardinality(G) <= Cardinality(S)
<1> DEFINE T == {p \in S : {p} \in G}
           f == [p \in T |-> {p}]
<1>1. IsFiniteSet(T) /\ Cardinality(T) <= Cardinality(S)
  BY FS_Subset
<1>2. f \in Surjection(T, G)
  <2>1. f \in [T -> G]
    OBVIOUS
  <2>2. \A g \in G : \E p \in T : f[p] = g
    OBVIOUS
  <2> QED
    BY <2>1, <2>2 DEF Surjection
<1> HIDE DEF T, f
<1>3. IsFiniteSet(G) /\ Cardinality(G) <= Cardinality(T)
  BY <1>1, <1>2, FS_Surjection
<1>4. Cardinality(G) \in Nat /\ Cardinality(T) \in Nat /\ Cardinality(S) \in Nat
  BY <1>1, <1>3, FS_CardinalityType
<1> QED
  BY <1>1, <1>3, <1>4

\* A world of suspects that all err alone implicates every one.
LEMMA AllImplicated ==
  ASSUME TypeOK, VetoMonotone(checker), Suspects \subseteq Guilty,
         NEW g \in SUBSET Suspects, g # {}
  PROVE  /\ Live(g, Raises(checker, g)) = g
         /\ (\E p \in g : g = {p}) => Regrouped(g, Raises(checker, g)) = {}
         /\ \A h \in Regrouped(g, Raises(checker, g)) : h \subseteq g /\ \E p \in h : h = {p}
<1>1. g \in SUBSET Splice
  BY BatchesAssumption DEF TypeOK, Suspects, Live
<1>2. Live(g, Raises(checker, g)) = g
  <2> SUFFICES ASSUME NEW p \in g
               PROVE  Errored(p, Raises(checker, g))
    BY DEF Live
  <2>1. ErrsAlone(checker, p) /\ p \in Splice
    BY <1>1 DEF Guilty
  <2> QED
    BY <1>1, <2>1 DEF VetoMonotone
<1>3. Cardinality(g) \in Nat /\ Cardinality(g) # 0
  BY <1>1, Sizes
<1>4. 2 * Cardinality(g) > Cardinality(g)
  BY <1>3
<1>5. Regrouped(g, Raises(checker, g)) =
        IF Cardinality(g) = 1 THEN {} ELSE {{p} : p \in g}
  BY <1>2, <1>4 DEF Regrouped
<1>6. (\E p \in g : g = {p}) => Cardinality(g) = 1
  BY FS_Singleton
<1>7. \A h \in Regrouped(g, Raises(checker, g)) : h \subseteq g /\ \E p \in h : h = {p}
  BY <1>5
<1> QED
  BY <1>2, <1>5, <1>6, <1>7

\* "An all-veto set costs the isolated count plus the two worlds that learned so."
LEMMA CostStep == CostInv /\ [Next]_vars => CostInv'
<1> SUFFICES ASSUME CostInv, [Next]_vars
             PROVE  Opening' /\ (AllGuilty => Priced)'
  BY TypeStep DEF CostInv
<1>0. TypeOK /\ Opening /\ (AllGuilty => Priced) /\ live \in SUBSET Splice
  BY BatchesAssumption DEF CostInv, TypeOK
<1>1. ASSUME NEW answered \in SUBSET {live}, Merged(Truth(answered))
      PROVE  Opening' /\ (AllGuilty => Priced)'
  <2>1. /\ phase' # "merged" /\ passes' = passes /\ passes = 0 /\ asked' = asked /\ asked = 0
        /\ UNCHANGED world
    BY <1>0, <1>1 DEF Merged, Opening, world
  <2>2. Suspects' = Suspects /\ Suspects \in SUBSET Splice
    BY <1>0, <2>1, SuspectsStay DEF Suspects, Live
  <2>3. \A g \in groups' : g \subseteq Suspects /\ g # {}
    <3>1. CASE groups' = {}
      BY <3>1
    <3>2. CASE groups' # {} /\ groups' = Split(Suspects, Raises(checker, live))
      <4>1. Suspects # {}
        <5>1. live = live /\ groups' = IF Live(live, Reply(Truth(answered), live)) = {} THEN {}
                ELSE Split(Live(live, Reply(Truth(answered), live)), Reply(Truth(answered), live))
          BY <1>1 DEF Merged
        <5>2. Live(live, Reply(Truth(answered), live)) # {}
          BY <3>2, <5>1
        <5>3. answered # {}
          BY <5>2 DEF Reply, Truth, Live, Errored
        <5>4. Reply(Truth(answered), live) = Raises(checker, live)
          BY <5>3 DEF Reply, Truth
        <5> QED
          BY <5>2, <5>4 DEF Suspects
      <4>2. {} \notin groups'
        BY <2>2, <3>2, <4>1, SplitParts
      <4>3. UNION groups' = Suspects
        BY <3>2, SplitCovers
      <4> QED
        BY <4>2, <4>3
    <3> QED
      BY <1>0, <1>1, <3>1, <3>2, MergedSplits
  <2>4. \E h, k : groups' \subseteq {h, k}
    <3>1. CASE groups' = {}
      BY <3>1
    <3>2. CASE groups' = Split(Suspects, Raises(checker, live))
      BY <3>2 DEF Split
    <3> QED
      BY <1>0, <1>1, <3>1, <3>2, MergedSplits
  <2> QED
    BY <2>1, <2>2, <2>3, <2>4 DEF Opening, Priced
<1>2. ASSUME NEW answered \in SUBSET groups, Level(Truth(answered))
      PROVE  Opening' /\ (AllGuilty => Priced)'
  <2> DEFINE truth == Truth(answered)
  <2>1. /\ phase = "splitting" /\ phase' # "merged" /\ passes' = passes + 1 /\ UNCHANGED world
        /\ groups' = UNION {Regrouped(g, Reply(truth, g)) : g \in groups}
        /\ asked' = asked + Cardinality(groups)
        /\ absent' = (absent \/ DOMAIN truth # groups)
    BY <1>2 DEF Level
  <2>2. Suspects' = Suspects /\ passes \in Nat /\ asked \in Nat /\ Guilty' = Guilty
          /\ VetoMonotone(checker)' = VetoMonotone(checker)
    BY <1>0, <2>1, SuspectsStay DEF TypeOK
  <2> SUFFICES ASSUME AllGuilty'
               PROVE  Priced'
    BY <2>1 DEF Opening
  <2>3. ~ absent /\ DOMAIN truth = groups /\ VetoMonotone(checker) /\ Suspects \subseteq Guilty
    BY <2>1, <2>2 DEF AllGuilty
  <2>4. \A g \in groups : Reply(truth, g) = Raises(checker, g)
    BY <2>3 DEF Reply, Truth
  <2>5. Priced
    BY <1>0, <2>3 DEF AllGuilty
  <2> HIDE DEF truth
  <2>6. \A g \in groups : g \in SUBSET Suspects /\ g # {}
    BY <2>1, <2>5 DEF Priced
  <2>7. ASSUME NEW h \in groups'
        PROVE  h \subseteq Suspects /\ h # {} /\ \E p \in h : h = {p}
    <3>1. PICK g \in groups : h \in Regrouped(g, Raises(checker, g))
      BY <2>1, <2>4
    <3>2. h \subseteq g /\ \E p \in h : h = {p}
      BY <1>0, <2>3, <2>6, <3>1, AllImplicated
    <3> QED
      BY <2>6, <3>2
  <2>8. (\A g \in groups : \E p \in g : g = {p}) => groups' = {}
    <3> SUFFICES ASSUME \A g \in groups : \E p \in g : g = {p}
                 PROVE  groups' = {}
      OBVIOUS
    <3>1. \A g \in groups : Regrouped(g, Raises(checker, g)) = {}
      BY <1>0, <2>3, <2>6, AllImplicated
    <3> QED
      BY <2>1, <2>4, <3>1
  <2>9. IsFiniteSet(Suspects) /\ Cardinality(Suspects) \in Nat
    <3>1. Suspects \in SUBSET Splice
      BY <1>0 DEF Suspects, Live
    <3> QED
      BY <3>1, Sizes
  <2>10. CASE passes = 0
    <3>1. asked = 0 /\ \E h, k : groups \subseteq {h, k}
      BY <2>1, <2>5, <2>10 DEF Priced
    <3>2. PICK h, k : groups \subseteq {h, k}
      BY <3>1
    <3>3. IsFiniteSet({h, k}) /\ Cardinality({h, k}) <= 2
      <4>1. IsFiniteSet({h}) /\ Cardinality({h}) = 1 /\ {h, k} = {h} \union {k}
        BY FS_Singleton
      <4>2. IsFiniteSet({h} \union {k}) /\ (Cardinality({h} \union {k}) = 1
              \/ Cardinality({h} \union {k}) = 1 + 1)
        <5>1. CASE k \in {h}
          BY <4>1, <5>1
        <5>2. CASE k \notin {h}
          BY <4>1, <5>2, FS_AddElement
        <5> QED
          BY <5>1, <5>2
      <4> QED
        BY <4>1, <4>2
    <3>4. Cardinality(groups) \in Nat /\ Cardinality(groups) <= 2
      <4>1. IsFiniteSet(groups) /\ Cardinality(groups) <= Cardinality({h, k})
        BY <3>2, <3>3, FS_Subset
      <4>2. Cardinality(groups) \in Nat /\ Cardinality({h, k}) \in Nat
        BY <3>3, <4>1, FS_CardinalityType
      <4> QED
        BY <3>3, <4>1, <4>2
    <3>5. passes' = 1 /\ asked' <= 2
      BY <2>1, <2>10, <3>1, <3>4
    <3> QED
      BY <2>2, <2>7, <3>5 DEF Priced
  <2>11. CASE passes = 1
    <3>1. asked <= 2 /\ \A g \in groups : \E p \in g : g = {p}
      BY <2>1, <2>5, <2>11 DEF Priced
    <3>2. \A g \in groups : \E p \in Suspects : g = {p}
      BY <2>6, <3>1
    <3>3. IsFiniteSet(groups) /\ Cardinality(groups) <= Cardinality(Suspects)
      BY <2>9, <3>2, Singletons
    <3>4. Cardinality(groups) \in Nat
      BY <3>3, FS_CardinalityType
    <3>5. passes' = 2 /\ asked' <= Cardinality(Suspects) + 2 /\ groups' = {}
      BY <2>1, <2>2, <2>8, <2>9, <2>11, <3>1, <3>3, <3>4
    <3> QED
      BY <2>2, <3>5 DEF Priced
  <2>12. CASE passes > 1
    <3>1. asked <= Cardinality(Suspects) + 2 /\ groups = {}
      BY <2>1, <2>5, <2>12 DEF Priced
    <3>2. Cardinality(groups) = 0 /\ groups' = {}
      BY <2>8, <3>1, FS_EmptySet
    <3>3. passes' > 1 /\ asked' <= Cardinality(Suspects) + 2
      BY <2>1, <2>2, <2>9, <2>12, <3>1, <3>2
    <3> QED
      BY <2>2, <3>2, <3>3 DEF Priced
  <2> QED
    BY <2>2, <2>10, <2>11, <2>12
<1>3. CASE UNCHANGED vars
  <2>1. UNCHANGED <<world, phase, groups, passes, asked, absent>>
    BY <1>3 DEF vars, world
  <2>2. Suspects' = Suspects /\ Guilty' = Guilty
          /\ VetoMonotone(checker)' = VetoMonotone(checker)
    BY <2>1, SuspectsStay
  <2> QED
    BY <1>0, <2>1, <2>2 DEF Opening, Priced, AllGuilty
<1> QED
  BY <1>1, <1>2, <1>3 DEF Next

\* LoopCost: an all-veto set costs its isolated worlds and two more, and a group that is no
\* singleton yet was halved in every turn (core/src/worlds.rs:80-82), for any splices.
THEOREM CostIsBounded == Spec => []LoopCost
<1>1. Init => Opening /\ PassDepth /\ (AllGuilty => Priced)
  BY DEF Init, Opening, PassDepth, Priced
<1>2. DepthInv /\ CostInv => LoopCost
  <2> SUFFICES ASSUME DepthInv, CostInv, ~ absent, VetoMonotone(checker),
                      phase = "resolved", Suspects \subseteq Guilty
               PROVE  asked <= Cardinality(Suspects) + 2
    BY DEF LoopCost, AllVetoCost, DepthInv
  <2>1. Priced /\ passes \in Nat
    BY DEF CostInv, AllGuilty, TypeOK
  <2>2. Cardinality(Suspects) \in Nat
    <3>1. Suspects \in SUBSET Splice
      BY BatchesAssumption DEF CostInv, TypeOK, Suspects, Live
    <3> QED
      BY <3>1, Sizes
  <2>3. phase # "merged" /\ asked \in Nat
    BY DEF CostInv, TypeOK
  <2>4. CASE passes = 0
    BY <2>1, <2>2, <2>3, <2>4 DEF Priced
  <2>5. CASE passes = 1
    BY <2>1, <2>2, <2>3, <2>5 DEF Priced
  <2>6. CASE passes > 1
    BY <2>1, <2>3, <2>6 DEF Priced
  <2> QED
    BY <2>1, <2>4, <2>5, <2>6
<1>3. Init => DepthInv /\ CostInv
  BY <1>1, TypeStart DEF DepthInv, CostInv
<1> QED
  BY <1>2, <1>3, DepthStep, CostStep, PTL DEF Spec

-----------------------------------------------------------------------------
\* The abstract module reads the same placement and the same checker.
LEMMA SameVerdicts ==
  ASSUME NEW p
  PROVE  Isolated!ErrsAlone(checker, p) = ErrsAlone(checker, p)
BY DEF Isolated!ErrsAlone, Isolated!Errored, Isolated!Watches, ErrsAlone, Errored, Watches

\* Seen from its caller the loop is a single judging step, for checkers that are all
\* veto-monotone: every step of the loop maps to that step or to a stutter.
THEOREM Refinement ==
  ASSUME \A c \in Checker : VetoMonotone(c)
  PROVE  Spec => ImplementsIsolated
<1> USE DEF Isolated!Next, Isolated!Judge, Isolated!Lose, Isolated!vars
<1>1. Init => Isolated!Init
  BY DEF Init, Isolated!Init
<1>2. IInv /\ IInv' /\ VerdictsAreIsolated' /\ [Next]_vars => [Isolated!Next]_(Isolated!vars)
  <2> SUFFICES ASSUME IInv, IInv', VerdictsAreIsolated', [Next]_vars
               PROVE  [Isolated!Next]_(Isolated!vars)
    OBVIOUS
  <2>1. VetoMonotone(checker) /\ VetoMonotone(checker)'
    BY DEF IInv, TypeOK
  <2>2. ASSUME phase # "resolved", UNCHANGED world,
               phase' \in {"splitting", "resolved"}
        PROVE  [Isolated!Next]_(Isolated!vars)
    <3>1. CASE phase' # "resolved"
      BY <2>2, <3>1 DEF world
    <3>2. CASE phase' = "resolved" /\ absent'
      <4>1. Isolated!Lose
        BY <2>2, <3>2 DEF world
      <4> QED
        BY <4>1
    <3>3. CASE phase' = "resolved" /\ ~absent'
      <4>1. banned' = {p \in live : ErrsAlone(checker, p)}
        BY <2>1, <2>2, <3>3 DEF VerdictsAreIsolated, Guilty, world
      <4>2. banned' = {p \in live : Isolated!ErrsAlone(checker, p)}
        BY <4>1, SameVerdicts
      <4>3. Isolated!Judge
        BY <2>2, <3>3, <4>2 DEF world
      <4> QED
        BY <4>3
    <3>4. absent' \in BOOLEAN
      BY DEF IInv, TypeOK
    <3> QED
      BY <2>2, <3>1, <3>2, <3>3, <3>4
  <2>3. ASSUME NEW answered \in SUBSET {live}, Merged(Truth(answered))
        PROVE  [Isolated!Next]_(Isolated!vars)
    BY <2>2, <2>3 DEF Merged, world
  <2>4. ASSUME NEW answered \in SUBSET groups, Level(Truth(answered))
        PROVE  [Isolated!Next]_(Isolated!vars)
    BY <2>2, <2>4 DEF Level
  <2>5. CASE UNCHANGED vars
    <3>1. /\ UNCHANGED <<checker, live, phase, absent, banned>>
      BY <2>5 DEF vars
    <3> QED
      BY <3>1
  <2> QED
    BY <2>3, <2>4, <2>5 DEF Next
<1> QED
  BY <1>1, <1>2, Invariance, Faithful, PTL DEF Spec, ImplementsIsolated, Isolated!Spec

-----------------------------------------------------------------------------
\* A batch is checked wherever one of its splices watches or has its body.
LEMMA CutReaches ==
  ASSUME NEW S \in SUBSET Splice, NEW p \in S
  PROVE  Watches(p) \subseteq Reached(S) /\ Body[p] \subseteq Reached(S)
<1>1. Watches(p) \subseteq Place /\ Body[p] \subseteq Place
  BY PlacementAssumption DEF Watches
<1>2. CASE S \intersect WatchesAll # {} \/ Cardinality(FilesOf(S)) > MaxWatched
  BY <1>1, <1>2 DEF Reached
<1>3. CASE ~(S \intersect WatchesAll # {} \/ Cardinality(FilesOf(S)) > MaxWatched)
  <2>1. Reached(S) = {pl \in Place : At[pl] \in FilesOf(S)} /\ p \notin WatchesAll
    BY <1>3 DEF Reached
  <2>2. Watched[p] \union {Rel[p]} \subseteq FilesOf(S)
    BY DEF FilesOf
  <2>3. \A pl \in Body[p] : At[pl] = Rel[p]
    BY PlacementAssumption
  <2> QED
    BY <1>1, <2>1, <2>2, <2>3 DEF Watches
<1> QED
  BY <1>2, <1>3

\* So the loop decides the same of a group of the batch, cut or whole.
LEMMA CutHidesNothing ==
  ASSUME NEW S \in SUBSET Splice, NEW g \in SUBSET S, NEW errs
  PROVE  LET cut == errs \intersect Reached(S)
         IN  /\ Live(g, cut) = Live(g, errs)
             /\ Split(Live(g, cut), cut) = Split(Live(g, errs), errs)
             /\ Convicted(g, cut) = Convicted(g, errs)
             /\ Regrouped(g, cut) = Regrouped(g, errs)
<1> DEFINE cut == errs \intersect Reached(S)
<1>1. \A p \in S : cut \intersect Watches(p) = errs \intersect Watches(p)
                   /\ cut \intersect Body[p] = errs \intersect Body[p]
  BY CutReaches
<1> HIDE DEF cut
<1>2. Live(g, cut) = Live(g, errs)
  BY <1>1 DEF Live, Errored
<1>3. Hosts(Live(g, errs), cut) = Hosts(Live(g, errs), errs)
  BY <1>1 DEF Live, Hosts
<1>4. Split(Live(g, cut), cut) = Split(Live(g, errs), errs)
  BY <1>2, <1>3 DEF Split
<1> QED
  BY <1>2, <1>4 DEF cut, Convicted, Regrouped

\* A pass without an answer is a pass of the loop in which no world was answered.
LEMMA SilenceIsTruth == Silence = Truth({})
BY DEF Silence, Truth

LEMMA MergedImplements ==
  ASSUME TypeOK, PyMerged
  PROVE  Next
<1>1. PICK added \in {Answered({live}), Silence} : Merged(added)
  BY DEF PyMerged
<1>2. CASE added = Silence
  <2>1. Merged(Truth({}))
    BY <1>1, <1>2, SilenceIsTruth
  <2> QED
    BY <2>1 DEF Next
<1>3. CASE added = Answered({live})
  <2>1. live \in SUBSET Splice /\ UNION {live} = live
    BY BatchesAssumption DEF TypeOK
  <2>2. /\ Reply(added, live) = Raises(checker, live) \intersect Reached(live)
        /\ Reply(Truth({live}), live) = Raises(checker, live)
    BY <1>3, <2>1 DEF Reply, Answered, Truth
  <2>3. /\ Live(live, Reply(added, live)) = Live(live, Reply(Truth({live}), live))
        /\ Split(Live(live, Reply(added, live)), Reply(added, live))
             = Split(Live(live, Reply(Truth({live}), live)), Reply(Truth({live}), live))
    BY <2>1, <2>2, CutHidesNothing
  <2>4. DOMAIN added = {live} /\ DOMAIN Truth({live}) = {live}
    BY <1>3 DEF Answered, Truth
  <2>5. Merged(Truth({live}))
    BY <1>1, <2>3, <2>4 DEF Merged
  <2> QED
    BY <2>5 DEF Next
<1> QED
  BY <1>1, <1>2, <1>3

LEMMA LevelImplements ==
  ASSUME TypeOK, PyLevel
  PROVE  Next
<1>1. PICK added \in {Answered(groups), Silence} : Level(added)
  BY DEF PyLevel
<1>2. CASE added = Silence
  <2>1. Level(Truth({}))
    BY <1>1, <1>2, SilenceIsTruth
  <2> QED
    BY <2>1 DEF Next
<1>3. CASE added = Answered(groups)
  <2> DEFINE all == UNION groups
  <2>1. all \in SUBSET Splice /\ \A g \in groups : g \in SUBSET all
    BY BatchesAssumption DEF TypeOK
  <2>2. \A g \in groups :
          /\ Reply(added, g) = Raises(checker, g) \intersect Reached(all)
          /\ Reply(Truth(groups), g) = Raises(checker, g)
    BY <1>3 DEF Reply, Answered, Truth
  <2> HIDE DEF all
  <2>3. \A g \in groups :
          /\ Convicted(g, Reply(added, g)) = Convicted(g, Reply(Truth(groups), g))
          /\ Regrouped(g, Reply(added, g)) = Regrouped(g, Reply(Truth(groups), g))
    BY <2>1, <2>2, CutHidesNothing
  <2>4. DOMAIN added = groups /\ DOMAIN Truth(groups) = groups
    BY <1>3 DEF Answered, Truth
  <2>5. Level(Truth(groups))
    BY <1>1, <2>3, <2>4 DEF Level
  <2> QED
    BY <2>5 DEF Next
<1> QED
  BY <1>1, <1>2, <1>3

LEMMA StepImplements == TypeOK /\ [PyNext]_allVars => [Next]_vars
<1> SUFFICES ASSUME TypeOK, [PyNext]_allVars
             PROVE  [Next]_vars
  OBVIOUS
<1>1. CASE PyMerged
  BY <1>1, MergedImplements
<1>2. CASE PyLevel
  BY <1>2, LevelImplements
<1>3. CASE Refuse \/ NothingLive \/ Attribute \/ Isolate \/ Return
  BY <1>3 DEF Refuse, NothingLive, Attribute, Isolate, Return
<1>4. CASE UNCHANGED allVars
  BY <1>4 DEF allVars
<1> QED
  BY <1>1, <1>2, <1>3, <1>4 DEF PyNext

\* The types of the loop, along the call.
LEMMA CallTypes == PySpec => []TypeOK
<1>1. PyInit => Init
  BY DEF PyInit
<1> QED
  BY <1>1, TypeStart, StepImplements, TypeStep, PTL DEF PySpec

\* With each batch checked only in the files it watches, the call behaves as the loop
\* over whole-world answers; so whatever holds of the loop holds of the call.
THEOREM CallImplementsLoop == PySpec => ImplementsVetoed
<1>1. PyInit => Init
  BY DEF PyInit
<1> QED
  BY <1>1, StepImplements, CallTypes, PTL DEF PySpec, Spec, ImplementsVetoed

\* counterfactual/verify.rs:90: the call keeps the promise of a pass.  Batches, the cut to the
\* watched files, receipts and crashes hidden, it takes one step that gives each splice the
\* verdict of its own world, or none.
THEOREM CallKeepsThePromise ==
  ASSUME \A c \in Checker : VetoMonotone(c)
  PROVE  PySpec => ImplementsIsolated
<1>1. PySpec => Spec
  BY CallImplementsLoop DEF ImplementsVetoed
<1>2. Spec => ImplementsIsolated
  BY Refinement
<1> QED
  BY <1>1, <1>2

-----------------------------------------------------------------------------
\* A world without an answer means the oracle is down, and it stays down.  The loop only
\* asks for a level while groups are pending, so it never mistakes an empty batch for a
\* lost one.
Crashes ==
  /\ TypeOK
  /\ result \in [Splice -> {"receipt", "clean", "absent"}]
  /\ lost => down
  /\ phase = "splitting" => groups # {}
  /\ step # "returned" => \A p \in Splice : result[p] = "absent"
  /\ step = "returned" /\ down => \A p \in Splice : result[p] = "absent"

\* A pass over some worlds that answers none is the oracle going down.
LEMMA SilenceIsDown ==
  ASSUME NEW batch, batch # {}, NEW added, Pass(batch, added)
  PROVE  (added = Silence => down') /\ (down => down')
<1>1. Answered(batch) # Silence
  <2>1. DOMAIN Answered(batch) = batch /\ DOMAIN Silence = {}
    BY DEF Answered, Silence
  <2> QED
    BY <2>1
<1> QED
  BY <1>1 DEF Pass

LEMMA CrashSteps == Crashes /\ [PyNext]_allVars => Crashes'
<1> SUFFICES ASSUME Crashes, [PyNext]_allVars
             PROVE  Crashes'
  OBVIOUS
<1>1. TypeOK'
  BY StepImplements, TypeStep DEF Crashes
<1>2. CASE PyMerged
  <2>1. PICK added \in {Answered({live}), Silence} :
          Pass({live}, added) /\ Merged(added) /\ lost' = (added = Silence)
    BY <1>2 DEF PyMerged
  <2>2. lost' => down'
    BY <2>1, SilenceIsDown
  <2>3. phase' = "splitting" => groups' # {}
    BY <2>1 DEF Merged
  <2> QED
    BY <1>1, <1>2, <2>2, <2>3 DEF PyMerged, Crashes
<1>3. CASE PyLevel
  <2>1. PICK added \in {Answered(groups), Silence} :
          Pass(groups, added) /\ Level(added) /\ lost' = (lost \/ added = Silence)
    BY <1>3 DEF PyLevel
  <2>2. groups # {}
    BY <1>3 DEF PyLevel, Crashes
  <2>3. lost' => down'
    BY <2>1, <2>2, SilenceIsDown DEF Crashes
  <2>4. phase' = "splitting" => groups' # {}
    BY <2>1 DEF Level
  <2> QED
    BY <1>1, <1>3, <2>3, <2>4 DEF PyLevel, Crashes
<1>4. CASE Isolate
  <2> DEFINE batch == {{p} : p \in alone}
  <2>1. PICK added \in {Answered(batch), Silence} :
          Pass(batch, added) /\ lost' = (lost \/ (alone # {} /\ added = Silence))
    BY <1>4 DEF Isolate
  <2>2. alone # {} => batch # {}
    OBVIOUS
  <2>3. batch = {} => down' = down
    BY <2>1 DEF Pass
  <2> HIDE DEF batch
  <2>4. lost' => down'
    BY <2>1, <2>2, <2>3, SilenceIsDown DEF Crashes
  <2> QED
    BY <1>1, <1>4, <2>4 DEF Isolate, Crashes, vars
<1>5. CASE Return
  <2>1. result' \in [Splice -> {"receipt", "clean", "absent"}]
    BY <1>5 DEF Return
  <2>2. down' => \A p \in Splice : result'[p] = "absent"
    BY <1>5 DEF Return
  <2> QED
    BY <1>1, <1>5, <2>1, <2>2 DEF Return, Crashes, vars
<1>6. CASE Refuse \/ NothingLive \/ Attribute
  BY <1>1, <1>6 DEF Refuse, NothingLive, Attribute, Crashes, vars
<1>7. CASE UNCHANGED allVars
  BY <1>1, <1>7 DEF allVars, pyVars, vars, Crashes
<1> QED
  BY <1>2, <1>3, <1>4, <1>5, <1>6, <1>7 DEF PyNext

\* A crash in any pass of the call, at any level, leaves no splice verified.
THEOREM NothingBySilence == PySpec => []SilenceVerifiesNothing
<1>1. PyInit => Crashes
  BY TypeStart DEF PyInit, Init, Crashes
<1>2. Crashes => SilenceVerifiesNothing
  BY DEF Crashes, SilenceVerifiesNothing
<1> QED
  BY <1>1, <1>2, CrashSteps, PTL DEF PySpec

-----------------------------------------------------------------------------
(***************************************************************************)
(* Receipts.  Where warnings are operand-faithful, the merged world says   *)
(* of each splice it attributes a receipt to what the splice's own world   *)
(* says.                                                                   *)
(***************************************************************************)
MergedSeen == Raises(checker, live) \intersect Reached(live)

\* A warning of the merged world in p's body is one of a mate's own.
LEMMA HintsAreMates ==
  ASSUME TypeOK, OperandFaithful, NEW p \in live
  PROVE  \A pl : pl \in BodyHints(p, MergedSeen) <=>
                   \E q \in Mates(p) : pl \in Body[p] /\ pl \in Hints({q})
<1>1. live \in SUBSET Splice
  BY BatchesAssumption DEF TypeOK
<1>2. Hints(live) = UNION {Hints({q}) : q \in live}
  BY <1>1 DEF OperandFaithful
<1>3. BodyHints(p, MergedSeen) = Body[p] \intersect Hints(live)
  BY <1>1, CutReaches DEF BodyHints, MergedSeen, Hints
<1>4. \A q \in live : \A pl \in Body[p] \intersect Hints({q}) : q \in Mates(p)
  BY <1>1 DEF OperandFaithful, Mates
<1>5. Mates(p) \subseteq live
  BY DEF Mates
<1> QED
  BY <1>2, <1>3, <1>4, <1>5

LEMMA MergedReceiptIsOwn ==
  ASSUME TypeOK, OperandFaithful, NEW p \in live \ Unresolved(MergedSeen)
  PROVE  MergedReceipt(p, MergedSeen) = ReceiptOf(p, Raises(checker, {p}))
<1>1. live \in SUBSET Splice /\ IsFiniteSet(live)
  BY BatchesAssumption, SpliceAssumption, FS_Subset DEF TypeOK
<1>2. p \in Mates(p)
  BY DEF Mates
<1>3. BodyHints(p, Raises(checker, {p})) = Body[p] \intersect Hints({p})
  BY DEF BodyHints, Hints
<1>4. CASE Mates(p) = {p}
  <2>1. BodyHints(p, MergedSeen) = BodyHints(p, Raises(checker, {p}))
    BY <1>3, <1>4, HintsAreMates
  <2> QED
    BY <1>4, <2>1 DEF MergedReceipt, ReceiptOf
<1>5. CASE Mates(p) # {p}
  <2>1. OperandsResolve(Mates(p), MergedSeen)
    BY <1>5 DEF Unresolved
  <2>2. \A pl \in BodyHints(p, MergedSeen) : Cardinality(Owners(Mates(p), pl)) = 1
    BY <1>2, <2>1 DEF OperandsResolve
  <2>3. ASSUME NEW pl \in BodyHints(p, MergedSeen)
        PROVE  \E o \in Mates(p) : Owners(Mates(p), pl) = {o} /\ Param[o] \in Names[pl]
    <3>1. Owners(Mates(p), pl) \in SUBSET live
      BY DEF Owners, Mates
    <3>2. \E o : Owners(Mates(p), pl) = {o}
      BY <1>1, <2>2, <3>1, FS_Subset, FS_Singleton
    <3> QED
      BY <3>2 DEF Owners
  <2>4. \A q \in Mates(p) : Body[q] = Body[p]
    BY <1>1, CalleeAssumption DEF Mates
  <2>5. ASSUME NEW pl \in Body[p] \intersect Hints({p})
        PROVE  pl \in BodyHints(p, MergedSeen) /\ Owners(Mates(p), pl) = {p}
    <3>1. pl \in BodyHints(p, MergedSeen)
      BY <1>2, HintsAreMates
    <3>2. PICK o \in Mates(p) : Owners(Mates(p), pl) = {o} /\ Param[o] \in Names[pl]
      BY <2>3, <3>1
    <3>3. Param[p] \in Names[pl]
      BY <1>1, <2>4, <3>2 DEF OperandFaithful, Mates
    <3>4. p \in Owners(Mates(p), pl)
      BY <1>2, <3>3 DEF Owners
    <3> QED
      BY <3>1, <3>2, <3>4
  <2>6. ASSUME NEW pl \in BodyHints(p, MergedSeen), Owners(Mates(p), pl) = {p}
        PROVE  pl \in Body[p] \intersect Hints({p})
    <3>1. PICK q \in Mates(p) : pl \in Body[p] /\ pl \in Hints({q})
      BY HintsAreMates
    <3>2. Param[p] \in Names[pl]
      BY <2>6 DEF Owners
    <3>3. Param[q] \in Names[pl]
      BY <1>1, <3>1, <3>2 DEF OperandFaithful, Mates
    <3>4. q = p
      BY <2>6, <3>3 DEF Owners
    <3> QED
      BY <3>1, <3>4
  <2>7. (\E pl \in BodyHints(p, MergedSeen) : Owners(Mates(p), pl) = {p})
          <=> BodyHints(p, Raises(checker, {p})) # {}
    BY <1>3, <2>5, <2>6
  <2> QED
    BY <1>5, <2>7 DEF MergedReceipt, ReceiptOf
<1> QED
  BY <1>4, <1>5

-----------------------------------------------------------------------------
Good == VetoMonotone(checker) /\ OperandFaithful

\* While no world is lost, each splice that has an outcome has its own world's: first
\* those the merged world attributes, then all.
Reproduced ==
  /\ absent => lost
  /\ phase # "merged" /\ ~lost => hints = MergedSeen
  /\ alone \subseteq live
  /\ step = "attributed" /\ ~down /\ Good => \A p \in live \ alone : outcome[p] = OwnVerdict(p)
  /\ step = "judged" /\ ~down /\ Good => \A p \in live : outcome[p] = OwnVerdict(p)
  /\ VerdictsReproduced

CallInv == Crashes /\ VerdictsAreIsolated /\ Reproduced

\* The checker and the batch stay what they are, and with them every world's verdict.
LEMMA SameWorlds ==
  ASSUME UNCHANGED <<checker, live>>
  PROVE  Good' = Good /\ MergedSeen' = MergedSeen /\ \A p : OwnVerdict(p)' = OwnVerdict(p)
BY DEF Good, VetoMonotone, ErrsAlone, OperandFaithful, Hints, MergedSeen, OwnVerdict

\* The loop's turns record what the merged world said and notice what they lost.
LEMMA LoopSteps ==
  ASSUME CallInv, PyMerged \/ PyLevel
  PROVE  Reproduced'
<1>1. CASE PyMerged
  <2>1. PICK added \in {Answered({live}), Silence} :
          /\ Merged(added)
          /\ hints' = IF added = Silence THEN {} ELSE Answered({live})[live]
          /\ lost' = (added = Silence)
    BY <1>1 DEF PyMerged
  <2>2. UNCHANGED <<checker, live>>
    BY <2>1 DEF Merged
  <2>3. Answered({live})[live] = MergedSeen /\ DOMAIN Answered({live}) = {live}
    BY DEF Answered, MergedSeen
  <2>4. absent' => lost'
    BY <2>1, <2>3 DEF Merged
  <2>5. ~lost' => hints' = MergedSeen'
    BY <2>1, <2>2, <2>3, SameWorlds
  <2> QED
    BY <1>1, <2>2, <2>4, <2>5 DEF PyMerged, CallInv, Reproduced, VerdictsReproduced
<1>2. CASE PyLevel
  <2>1. PICK added \in {Answered(groups), Silence} :
          Level(added) /\ lost' = (lost \/ added = Silence)
    BY <1>2 DEF PyLevel
  <2>2. UNCHANGED <<checker, live>>
    BY <2>1 DEF Level, world
  <2>3. DOMAIN Answered(groups) = groups
    BY DEF Answered
  <2>4. absent' => lost'
    BY <2>1, <2>3 DEF Level, CallInv, Reproduced
  <2>5. phase # "merged"
    BY <1>2 DEF PyLevel
  <2>6. ~lost' => hints' = MergedSeen'
    BY <1>2, <2>1, <2>2, <2>5, SameWorlds DEF PyLevel, CallInv, Reproduced
  <2> QED
    BY <1>2, <2>2, <2>4, <2>6 DEF PyLevel, CallInv, Reproduced, VerdictsReproduced
<1> QED
  BY <1>1, <1>2

\* The loop vetoes the guilty, and the merged world gives the rest their receipts.
LEMMA AttributeStep ==
  ASSUME CallInv, Attribute
  PROVE  Reproduced'
<1>1. UNCHANGED <<checker, live, down, lost, hints, absent, phase>> /\ step' = "attributed"
  BY DEF Attribute, vars
<1>2. alone' = Unresolved(hints) \ banned /\ alone' \subseteq live
  BY DEF Attribute, Unresolved
<1>3. ASSUME ~down, Good, NEW p \in live \ alone'
      PROVE  outcome'[p] = OwnVerdict(p)
  <2>1. TypeOK /\ p \in Splice /\ phase = "resolved"
    BY BatchesAssumption DEF CallInv, Crashes, TypeOK, Attribute
  <2>2. ~lost /\ ~absent
    BY <1>3 DEF CallInv, Crashes, Reproduced
  <2>3. banned = Guilty
    BY <1>3, <2>1, <2>2 DEF CallInv, VerdictsAreIsolated, Good
  <2>4. hints = MergedSeen
    BY <2>1, <2>2 DEF CallInv, Reproduced
  <2>5. CASE p \in banned
    BY <2>1, <2>3, <2>5 DEF Attribute, Guilty, OwnVerdict, Judge, ErrsAlone
  <2>6. CASE p \notin banned
    <3>1. outcome'[p] = MergedReceipt(p, MergedSeen)
      BY <2>1, <2>4, <2>6 DEF Attribute
    <3>2. p \in live \ Unresolved(MergedSeen)
      BY <1>2, <2>4, <2>6
    <3>3. ~Errored(p, Raises(checker, {p}))
      BY <2>3, <2>6 DEF Guilty, ErrsAlone
    <3> QED
      BY <1>3, <2>1, <3>1, <3>2, <3>3, MergedReceiptIsOwn DEF Good, OwnVerdict, Judge
  <2> QED
    BY <2>5, <2>6
<1> QED
  BY <1>1, <1>2, <1>3, SameWorlds DEF CallInv, Reproduced, VerdictsReproduced

\* The splices left over get a world of their own, cut to what they watch.
LEMMA IsolateStep ==
  ASSUME CallInv, Isolate
  PROVE  Reproduced'
<1> DEFINE batch == {{p} : p \in alone}
<1>1. PICK added \in {Answered(batch), Silence} :
        /\ Pass(batch, added)
        /\ outcome' = [p \in Splice |->
             IF p \notin alone THEN outcome[p]
             ELSE IF {p} \in DOMAIN added THEN Judge(p, added[{p}]) ELSE "clean"]
        /\ lost' = (lost \/ (alone # {} /\ added = Silence))
  BY DEF Isolate
<1>2. /\ UNCHANGED <<checker, live, hints, absent, phase, alone>>
      /\ step = "attributed" /\ step' = "judged"
  BY DEF Isolate, vars
<1>3. alone \subseteq live /\ live \subseteq Splice
  BY BatchesAssumption DEF CallInv, Crashes, Reproduced, TypeOK
<1>4. ASSUME ~down', Good, NEW p \in live
      PROVE  outcome'[p] = OwnVerdict(p)
  <2>1. CASE p \notin alone
    <3>1. ~down
      BY <1>1, <1>4 DEF Pass
    <3> QED
      BY <1>1, <1>2, <1>3, <1>4, <2>1, <3>1 DEF CallInv, Reproduced
  <2>2. CASE p \in alone
    <3>1. batch # {} /\ {p} \in batch /\ UNION batch = alone
      BY <2>2
    <3>2. added = Answered(batch)
      BY <1>1, <1>4, <3>1, SilenceIsDown
    <3>3. {p} \in DOMAIN added /\ added[{p}] = Raises(checker, {p}) \intersect Reached(alone)
      BY <3>1, <3>2 DEF Answered
    <3>4. Watches(p) \subseteq Reached(alone) /\ Body[p] \subseteq Reached(alone)
      BY <1>3, <2>2, CutReaches
    <3>5. Judge(p, added[{p}]) = OwnVerdict(p)
      <4>1. Errored(p, added[{p}]) = Errored(p, Raises(checker, {p}))
        BY <3>3, <3>4 DEF Errored
      <4>2. BodyHints(p, added[{p}]) = BodyHints(p, Raises(checker, {p}))
        BY <3>3, <3>4 DEF BodyHints
      <4> QED
        BY <4>1, <4>2 DEF Judge, ReceiptOf, OwnVerdict
    <3> QED
      BY <1>1, <1>3, <2>2, <3>3, <3>5
  <2> QED
    BY <2>1, <2>2
<1>5. absent' => lost'
  BY <1>1, <1>2 DEF CallInv, Reproduced
<1>6. ~lost' => ~lost
  BY <1>1
<1> QED
  BY <1>2, <1>3, <1>4, <1>5, <1>6, SameWorlds DEF CallInv, Reproduced, VerdictsReproduced

\* What is returned is the outcomes but the vetoes.
LEMMA ReturnStep ==
  ASSUME CallInv, Return
  PROVE  Reproduced'
<1>1. /\ UNCHANGED <<checker, live, down, lost, hints, absent, phase, alone>>
      /\ step = "judged" /\ step' = "returned"
  BY DEF Return, vars
<1>2. ASSUME ~down, Good, NEW p \in live
      PROVE  OwnVerdict(p) = IF result'[p] = "absent" THEN "veto" ELSE result'[p]
  <2>1. outcome[p] = OwnVerdict(p) /\ p \in Splice
    BY <1>1, <1>2, BatchesAssumption DEF CallInv, Crashes, Reproduced, TypeOK
  <2>2. OwnVerdict(p) \in {"veto", "receipt", "clean"}
    BY DEF OwnVerdict, Judge, ReceiptOf
  <2> QED
    BY <1>2, <2>1, <2>2 DEF Return
<1> QED
  BY <1>1, <1>2, SameWorlds DEF CallInv, Reproduced, VerdictsReproduced, Good

LEMMA ReproducedSteps ==
  CallInv /\ [PyNext]_allVars => Reproduced'
<1> SUFFICES ASSUME CallInv, [PyNext]_allVars
             PROVE  Reproduced'
  OBVIOUS
<1>1. CASE Refuse
  <2>1. UNCHANGED <<checker, live, down, lost, hints, absent, phase, alone>> /\ down
        /\ step' = "returned"
    BY <1>1 DEF Refuse, vars
  <2> QED
    BY <2>1, SameWorlds DEF CallInv, Reproduced, VerdictsReproduced
<1>2. CASE NothingLive
  <2>1. UNCHANGED <<checker, live, down, lost, hints, absent, phase, alone>> /\ live = {}
        /\ step' = "judged"
    BY <1>2 DEF NothingLive, vars
  <2> QED
    BY <2>1, SameWorlds DEF CallInv, Reproduced, VerdictsReproduced
<1>3. CASE UNCHANGED allVars
  <2>1. UNCHANGED <<checker, live, down, lost, hints, absent, phase, alone, step, outcome, result>>
    BY <1>3 DEF allVars, vars, pyVars
  <2> QED
    BY <2>1, SameWorlds DEF CallInv, Reproduced, VerdictsReproduced, Good
<1> QED
  BY <1>1, <1>2, <1>3, LoopSteps, AttributeStep, IsolateStep, ReturnStep DEF PyNext

\* Under a veto-monotone checker whose warnings are operand-faithful, a call that no
\* crash ended returns for each splice the verdict and the receipt of its own world.
THEOREM OwnWorldsReproduced == PySpec => []VerdictsReproduced
<1>1. PyInit => Crashes /\ Reproduced
  BY TypeStart DEF PyInit, Init, Crashes, Reproduced, VerdictsReproduced
<1>2. Reproduced => VerdictsReproduced
  BY DEF Reproduced
<1> QED
  BY <1>1, <1>2, CrashSteps, ReproducedSteps, Faithful, CallImplementsLoop, PTL
  DEF PySpec, CallInv, ImplementsVetoed
=============================================================================
