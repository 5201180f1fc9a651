-------------------------- MODULE CacheSweepProofs --------------------------
(***************************************************************************)
(* No sweep takes the directory of a root in use, for any number of        *)
(* audits and roots, any STALE_DAYS and any length of a sweep.  What ties  *)
(* one audit's sweep to another's touch is `lapsed`: a marker beyond Stale *)
(* and a removal under way both imply it.                                  *)
(***************************************************************************)
EXTENDS CacheSweep, TLAPS

\* A marker that a sweep would take for stale is lapsed.
OldIsLapsed == \A r \in Root : mark[r] # None /\ mark[r] > Stale => lapsed[r]

\* So is the directory that a sweep is removing.
DoomedIsLapsed == \A a \in Audit : doomed[a] => entry[a] \in Root /\ lapsed[entry[a]]

IInv == TypeOK /\ OldIsLapsed /\ DoomedIsLapsed

LEMMA CapIsNat == Cap \in Nat /\ Stale < Cap
BY CacheAssumption DEF Cap

\* Nothing has an age yet.
LEMMA Start == Init => IInv
<1> SUFFICES ASSUME Init
             PROVE  IInv
  OBVIOUS
<1>1. mark \in [Root -> {None} \union (0 .. Cap)]
  BY CapIsNat DEF Init
<1>2. \A r \in Root : mark[r] # None => exist[r]
  BY DEF Init
<1>3. OldIsLapsed
  BY CacheAssumption DEF Init, OldIsLapsed
<1>4. since \in [Audit -> 0 .. MaxSweep]
  BY CacheAssumption DEF Init
<1> QED
  BY <1>1, <1>2, <1>3, <1>4 DEF Init, IInv, TypeOK, DoomedIsLapsed

\* A touch makes a marker young, and lapsed only where a removal is under way.
LEMMA TouchKeeps ==
  ASSUME IInv, NEW d \in Root, Touched(d)
  PROVE  /\ exist' \in [Root -> BOOLEAN] /\ mark' \in [Root -> {None} \union (0 .. Cap)]
         /\ lapsed' \in [Root -> BOOLEAN]
         /\ \A r \in Root : mark'[r] # None => exist'[r]
         /\ OldIsLapsed'
         /\ \A b \in Audit : doomed[b] => entry[b] \in Root /\ lapsed'[entry[b]]
         /\ \A r \in Root : exist[r] => exist'[r]
         /\ \A r \in Root : mark[r] # None => mark'[r] # None
<1>1. 0 \in 0 .. Cap /\ ~(0 > Stale) /\ 0 # None
  BY CapIsNat, CacheAssumption
<1>2. exist' \in [Root -> BOOLEAN] /\ mark' \in [Root -> {None} \union (0 .. Cap)]
  BY <1>1 DEF Touched, IInv, TypeOK
<1>3. lapsed' \in [Root -> BOOLEAN]
  BY DEF Touched, IInv, TypeOK
<1>4. /\ exist'[d] /\ mark'[d] = 0
      /\ lapsed'[d] = \E b \in Audit : entry[b] = d /\ doomed[b]
  BY DEF Touched, IInv, TypeOK
<1>5. \A r \in Root \ {d} : exist'[r] = exist[r] /\ mark'[r] = mark[r] /\ lapsed'[r] = lapsed[r]
  BY DEF Touched, IInv, TypeOK
<1>6. OldIsLapsed'
  BY <1>1, <1>4, <1>5 DEF IInv, OldIsLapsed
<1>7. \A b \in Audit : doomed[b] => entry[b] \in Root /\ lapsed'[entry[b]]
  BY <1>4, <1>5 DEF IInv, DoomedIsLapsed
<1> QED
  BY <1>1, <1>2, <1>3, <1>4, <1>5, <1>6, <1>7 DEF IInv, TypeOK

\* Building touches no marker, and unmakes no directory.
LEMMA BuildSteps ==
  ASSUME IInv, NEW a \in Audit, Compile(a) \/ \E r \in Root : Begin(a, r)
  PROVE  IInv'
<1>1. UNCHANGED <<mark, lapsed, since, todo, entry, doomed>>
  BY DEF Compile, Begin
<1>2. PICK d \in Root : exist' = [exist EXCEPT ![d] = TRUE]
  BY DEF Compile, Begin, IInv, TypeOK
<1>3. pc' \in [Audit -> {"off", "build", "list", "sweep", "closed"}] /\ root' \in [Audit -> Root]
  BY DEF Compile, Begin, IInv, TypeOK
<1>4. TypeOK'
  BY <1>1, <1>2, <1>3 DEF IInv, TypeOK
<1> QED
  BY <1>1, <1>4 DEF IInv, OldIsLapsed, DoomedIsLapsed

LEMMA CloseStep ==
  ASSUME IInv, NEW a \in Audit, Close(a)
  PROVE  IInv'
<1>1. root[a] \in Root /\ Touched(root[a])
  BY DEF Close, IInv, TypeOK
<1>2. since' \in [Audit -> 0 .. MaxSweep]
  BY CacheAssumption DEF Close, IInv, TypeOK
<1>3. TypeOK'
  BY <1>1, <1>2, TouchKeeps DEF Close, IInv, TypeOK
<1>4. DoomedIsLapsed'
  BY <1>1, TouchKeeps DEF Close, DoomedIsLapsed
<1> QED
  BY <1>1, <1>3, <1>4, TouchKeeps DEF IInv

\* Listing, entering, ending and dying only move the sweep on.
LEMMA SweepSteps ==
  ASSUME IInv, NEW a \in Audit, List(a) \/ Enter(a) \/ Closed(a) \/ Kill(a)
  PROVE  IInv'
<1>1. CASE List(a) \/ Closed(a)
  BY <1>1 DEF List, Closed, IInv, TypeOK, OldIsLapsed, DoomedIsLapsed
<1>2. CASE Enter(a)
  BY <1>2, CacheAssumption DEF Enter, IInv, TypeOK, OldIsLapsed, DoomedIsLapsed
<1>3. CASE Kill(a)
  BY <1>3 DEF Kill, Released, IInv, TypeOK, OldIsLapsed, DoomedIsLapsed
<1> QED
  BY <1>1, <1>2, <1>3

\* A verdict of stale is about a marker that lapsed: the clock of the sweep is not ahead.
LEMMA JudgeStep ==
  ASSUME IInv, NEW a \in Audit, Judge(a)
  PROVE  IInv'
<1> DEFINE d == entry[a]
<1>1. d \in Root /\ ~doomed[a] /\ UNCHANGED <<pc, root, since, todo>>
  BY DEF Judge, IInv, TypeOK
<1>2. CASE mark[d] # None /\ Age(a, d) > Stale /\ doomed' = [doomed EXCEPT ![a] = TRUE]
           /\ UNCHANGED <<exist, mark, lapsed, entry>>
  <2>1. mark[d] \in Int /\ since[a] \in Nat /\ Stale \in Nat
    BY <1>1, <1>2, CapIsNat, CacheAssumption DEF IInv, TypeOK
  <2>2. lapsed[d]
    BY <1>1, <1>2, <2>1 DEF Age, IInv, OldIsLapsed
  <2> QED
    BY <1>1, <1>2, <2>2 DEF IInv, TypeOK, OldIsLapsed, DoomedIsLapsed
<1>3. CASE entry' = [entry EXCEPT ![a] = None] /\ UNCHANGED <<exist, mark, lapsed, doomed>>
  BY <1>1, <1>3 DEF IInv, TypeOK, OldIsLapsed, DoomedIsLapsed
<1>4. CASE Touched(d) /\ entry' = [entry EXCEPT ![a] = None] /\ UNCHANGED doomed
  <2>1. TypeOK' /\ OldIsLapsed'
    BY <1>1, <1>4, TouchKeeps DEF IInv, TypeOK
  <2>2. DoomedIsLapsed'
    BY <1>1, <1>4, TouchKeeps DEF IInv, TypeOK, DoomedIsLapsed
  <2> QED
    BY <2>1, <2>2 DEF IInv
<1> QED
  BY <1>1, <1>2, <1>3, <1>4 DEF Judge

LEMMA RemoveSteps ==
  ASSUME IInv, NEW a \in Audit, RemoveMarker(a) \/ Remove(a)
  PROVE  IInv'
<1> DEFINE d == entry[a]
<1>1. doomed[a] /\ d \in Root /\ UNCHANGED <<pc, root, since, todo>>
  BY DEF RemoveMarker, Remove, IInv, DoomedIsLapsed
<1>2. CASE RemoveMarker(a)
  BY <1>1, <1>2 DEF RemoveMarker, IInv, TypeOK, OldIsLapsed, DoomedIsLapsed
<1>3. CASE Remove(a)
  <2>1. /\ entry' = [entry EXCEPT ![a] = None] /\ doomed' = [doomed EXCEPT ![a] = FALSE]
        /\ lapsed'[d] = (\/ \E b \in Audit \ {a} : entry[b] = d /\ doomed[b]
                         \/ mark'[d] # None /\ mark'[d] > Stale)
        /\ \A r \in Root \ {d} : lapsed'[r] = lapsed[r]
        /\ lapsed' \in [Root -> BOOLEAN]
    BY <1>1, <1>3 DEF Remove, Released, IInv, TypeOK
  <2>2. \/ exist' = [exist EXCEPT ![d] = FALSE] /\ mark' = [mark EXCEPT ![d] = None]
        \/ UNCHANGED <<exist, mark>>
    BY <1>3 DEF Remove
  <2>3. TypeOK'
    <3>1. /\ exist' \in [Root -> BOOLEAN]
          /\ mark' \in [Root -> {None} \union (0 .. Cap)]
          /\ \A r \in Root : mark'[r] # None => exist'[r]
      <4>1. d \in Root /\ exist \in [Root -> BOOLEAN]
            /\ mark \in [Root -> {None} \union (0 .. Cap)]
            /\ \A r \in Root : mark[r] # None => exist[r]
        BY <1>1 DEF IInv, TypeOK
      <4> HIDE DEF d
      <4>2. CASE UNCHANGED <<exist, mark>>
        BY <4>1, <4>2
      <4>3. CASE exist' = [exist EXCEPT ![d] = FALSE] /\ mark' = [mark EXCEPT ![d] = None]
        <5>1. exist' \in [Root -> BOOLEAN]
          BY <4>1, <4>3
        <5>2. mark' \in [Root -> {None} \union (0 .. Cap)]
          BY <4>1, <4>3
        <5>3. ASSUME NEW r \in Root, mark'[r] # None PROVE exist'[r]
          BY <4>1, <4>3, <5>3
        <5> QED
          BY <5>1, <5>2, <5>3
      <4> QED
        BY <2>2, <4>2, <4>3
    <3>2. entry' \in [Audit -> Root \union {None}] /\ doomed' \in [Audit -> BOOLEAN]
      BY <2>1 DEF IInv, TypeOK
    <3> QED
      BY <1>1, <2>1, <3>1, <3>2 DEF IInv, TypeOK
  <2>4. OldIsLapsed'
    <3>1. \A r \in Root \ {d} : mark'[r] = mark[r] /\ lapsed'[r] = lapsed[r]
      BY <2>1, <2>2 DEF IInv, TypeOK
    <3> HIDE DEF d
    <3> QED
      BY <2>1, <3>1 DEF IInv, TypeOK, OldIsLapsed
  <2>5. DoomedIsLapsed'
    BY <1>1, <2>1 DEF IInv, TypeOK, DoomedIsLapsed
  <2> QED
    BY <2>3, <2>4, <2>5 DEF IInv
<1> QED
  BY <1>2, <1>3

\* The day a marker passes Stale its root lapses.
LEMMA TickStep ==
  ASSUME IInv, Tick
  PROVE  IInv'
<1> USE CapIsNat, CacheAssumption
<1>1. \A r \in Root : mark[r] # None => mark[r] \in 0 .. Cap
  BY DEF IInv, TypeOK
<1>2. \A r \in Root :
        mark'[r] = IF mark[r] = None THEN None ELSE IF mark[r] < Cap THEN mark[r] + 1 ELSE Cap
  BY DEF Tick
<1>3. mark' \in [Root -> {None} \union (0 .. Cap)]
  BY <1>1 DEF Tick
<1>4. since' \in [Audit -> 0 .. MaxSweep]
  BY DEF Tick, IInv, TypeOK
<1>5. \A r \in Root : lapsed'[r] = (lapsed[r] \/ (mark[r] # None /\ mark[r] >= Stale))
  BY DEF Tick
<1>6. TypeOK'
  BY <1>2, <1>3, <1>4 DEF Tick, IInv, TypeOK
<1>7. OldIsLapsed'
  <2> SUFFICES ASSUME NEW r \in Root, mark'[r] # None, mark'[r] > Stale
               PROVE  lapsed'[r]
    BY DEF OldIsLapsed
  <2>1. mark[r] # None /\ mark[r] \in 0 .. Cap
    BY <1>1, <1>2
  <2>2. mark[r] >= Stale
    BY <1>2, <2>1
  <2> QED
    BY <1>5, <2>1, <2>2
<1>8. DoomedIsLapsed'
  BY <1>5 DEF Tick, IInv, DoomedIsLapsed
<1> QED
  BY <1>6, <1>7, <1>8 DEF IInv

LEMMA Invariance == Spec => []IInv
<1>1. IInv /\ [Next]_vars => IInv'
  <2> SUFFICES ASSUME IInv, [Next]_vars
               PROVE  IInv'
    OBVIOUS
  <2>1. CASE UNCHANGED vars
    BY <2>1 DEF vars, IInv, TypeOK, OldIsLapsed, DoomedIsLapsed
  <2>2. CASE Next
    BY <2>2, BuildSteps, CloseStep, SweepSteps, JudgeStep, RemoveSteps, TickStep DEF Next, Sweep
  <2> QED
    BY <2>1, <2>2
<1> QED
  BY <1>1, Start, PTL DEF Spec

-----------------------------------------------------------------------------
\* A root whose audits never left a gap of Stale days keeps its directory and its marker,
\* whatever audits overlap and whichever are killed.
THEOREM UsedRootsAreKept == Spec => KeptWhileUsed
<1> DEFINE Kept ==
      \A r \in Root : exist[r] /\ ~lapsed[r] =>
        exist'[r] /\ (mark[r] # None => mark'[r] # None)
<1>1. IInv /\ [Next]_vars => [Kept]_vars
  <2> SUFFICES ASSUME IInv, Next
               PROVE  Kept
    OBVIOUS
  <2>1. CASE Tick
    BY <2>1, CapIsNat, CacheAssumption DEF Tick, IInv, TypeOK
  <2>2. ASSUME NEW a \in Audit, Compile(a) \/ Kill(a) \/ \E r \in Root : Begin(a, r)
        PROVE  Kept
    BY <2>2 DEF Compile, Kill, Begin, IInv, TypeOK
  <2>3. ASSUME NEW a \in Audit, List(a) \/ Enter(a) \/ Closed(a) PROVE Kept
    BY <2>3 DEF List, Enter, Closed
  <2>4. ASSUME NEW a \in Audit, Close(a) PROVE Kept
    <3>1. root[a] \in Root /\ Touched(root[a])
      BY <2>4 DEF Close, IInv, TypeOK
    <3> QED
      BY <3>1, TouchKeeps
  <2>5. ASSUME NEW a \in Audit, Judge(a) PROVE Kept
    <3>1. UNCHANGED <<exist, mark>> \/ (entry[a] \in Root /\ Touched(entry[a]))
      BY <2>5 DEF Judge, IInv, TypeOK
    <3> QED
      BY <3>1, TouchKeeps
  <2>6. ASSUME NEW a \in Audit, RemoveMarker(a) \/ Remove(a) PROVE Kept
    <3>1. entry[a] \in Root /\ lapsed[entry[a]]
      BY <2>6 DEF RemoveMarker, Remove, IInv, DoomedIsLapsed
    <3>2. \A r \in Root \ {entry[a]} : exist'[r] = exist[r] /\ mark'[r] = mark[r]
      BY <2>6, <3>1 DEF RemoveMarker, Remove, IInv, TypeOK
    <3> QED
      BY <3>1, <3>2
  <2> QED
    BY <2>1, <2>2, <2>3, <2>4, <2>5, <2>6 DEF Next, Sweep
<1> QED
  BY <1>1, Invariance, PTL DEF Spec, KeptWhileUsed
=============================================================================
