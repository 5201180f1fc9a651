---------------------------- MODULE FixDiffProofs ----------------------------
(***************************************************************************)
(* The diff of `fix` for any number of fixes, files and lines, any         *)
(* partition of the fixes into passes, and any checker.                    *)
(***************************************************************************)
EXTENDS FixDiff, FiniteSetTheorems, TLAPS

\* The fixes of S share no line one of them deletes, and none lies inside a larger
\* deletion.
Settled(S) == \A p, q \in S :
  /\ Touches[p] \intersect Takes[q] = {}
  /\ Takes[p] # {} => ~(Lines(p) \subseteq Takes[q] /\ Lines(p) # Takes[q])

\* Nothing ships before the fixes are composed; each fix was verified in a world of its
\* own, and what compose left is settled.
IInv ==
  /\ TypeOK
  /\ step = "passes" => shipped = {}
  /\ \A p \in fixed : ~ErrsAlone(checker, p)
  /\ step # "passes" => Settled(fixed)

\* What compose leaves of any set of fixes is settled.
LEMMA ComposeSettles ==
  ASSUME NEW S \in SUBSET Splice
  PROVE  Settled(S \ Dropped(S))
<1> SUFFICES ASSUME NEW p \in S \ Dropped(S), NEW q \in S \ Dropped(S)
             PROVE  /\ Touches[p] \intersect Takes[q] = {}
                    /\ ~(Lines(p) \subseteq Takes[q] /\ Lines(p) # Takes[q])
  BY DEF Settled
<1>1. Touches[p] \intersect Takes[q] = {}
  BY DEF Dropped, Deleted
<1>2. ASSUME Lines(p) \subseteq Takes[q], Lines(p) # Takes[q]
      PROVE  FALSE
  <2>1. p # q
    BY <1>2 DEF Lines
  <2>2. IsFiniteSet(Takes[q])
    BY EditsAssumption, FS_Subset
  <2>3. IsFiniteSet(Lines(p)) /\ Cardinality(Lines(p)) <= Cardinality(Takes[q])
    BY <1>2, <2>2, FS_Subset
  <2>4. Cardinality(Lines(p)) # Cardinality(Takes[q])
    BY <1>2, <2>2, FS_Subset
  <2>5. Cardinality(Lines(p)) < Cardinality(Takes[q])
    BY <2>2, <2>3, <2>4, FS_CardinalityType
  <2> QED
    BY <1>2, <2>1, <2>5 DEF Dropped
<1> QED
  BY <1>1, <1>2

LEMMA Invariance == Spec => []IInv
<1>1. Init => IInv
  BY BatchesAssumption DEF Init, IInv, TypeOK
<1>2. IInv /\ [Next]_vars => IInv'
  <2> SUFFICES ASSUME IInv, [Next]_vars
               PROVE  IInv'
    OBVIOUS
  <2>1. ASSUME NEW batch \in SUBSET proposed, Verify(batch)
        PROVE  IInv'
    <3>1. PICK kept \in SUBSET {p \in batch : ~ErrsAlone(checker, p)} :
                 fixed' = fixed \union kept
      BY <2>1 DEF Verify
    <3>2. \A p \in fixed' : p \in Splice /\ ~ErrsAlone(checker, p)
      BY <3>1 DEF IInv, TypeOK
    <3> QED
      BY <2>1, <3>2 DEF Verify, IInv, TypeOK
  <2>2. ASSUME Compose
        PROVE  IInv'
    <3>1. Settled(fixed')
      BY <2>2, ComposeSettles DEF Compose, IInv, TypeOK
    <3>2. files' \subseteq File
      BY <2>2, PlacementAssumption DEF Compose, IInv, TypeOK
    <3> QED
      BY <2>2, <3>1, <3>2 DEF Compose, IInv, TypeOK
  <2>3. ASSUME NEW f \in File, Emit(f)
        PROVE  IInv'
    BY <2>3 DEF Emit, IInv, TypeOK
  <2>4. ASSUME Printed
        PROVE  IInv'
    BY <2>4 DEF Printed, IInv, TypeOK
  <2>5. CASE UNCHANGED vars
    BY <2>5 DEF vars, IInv, TypeOK
  <2> QED
    BY <2>1, <2>2, <2>3, <2>4, <2>5 DEF Next
<1> QED
  BY <1>1, <1>2, PTL DEF Spec

\* `apply_edits` may read the edits of any file of the diff as disjoint: one patch per
\* site, whatever the rules proposed.
THEOREM OnePatchPerSite == Spec => []SitesAreSettled
<1>1. IInv => SitesAreSettled
  BY DEF IInv, TypeOK, Settled, SitesAreSettled
<1> QED
  BY <1>1, Invariance, PTL

\* Where splices do not interact, fixes verified in any passes make a diff that raises no
\* error at all, whatever compose and the parse check left out of it.
THEOREM CleanApartCleanTogether == Spec => []IndependentDiffIsClean
<1>1. IInv => IndependentDiffIsClean
  <2> SUFFICES ASSUME IInv, Independent(checker)
               PROVE  Raises(checker, shipped) \subseteq Warning
    BY DEF IndependentDiffIsClean
  <2>1. shipped \in SUBSET Splice
    BY DEF IInv, TypeOK
  <2>2. Raises(checker, shipped) = UNION {Raises(checker, {p}) : p \in shipped}
    BY <2>1 DEF Independent
  <2>3. \A p \in shipped : Raises(checker, {p}) \subseteq Warning
    <3> SUFFICES ASSUME NEW p \in shipped
                 PROVE  Raises(checker, {p}) \subseteq Warning
      OBVIOUS
    <3>1. Raises(checker, {p}) \ Warning \subseteq Watches(p)
      BY <2>1 DEF Independent
    <3>2. Raises(checker, {p}) \intersect Watches(p) = {}
      BY DEF IInv, TypeOK, ErrsAlone, Errored
    <3> QED
      BY <3>1, <3>2 DEF Watches
  <2> QED
    BY <2>2, <2>3
<1> QED
  BY <1>1, Invariance, PTL
=============================================================================
