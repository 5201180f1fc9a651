--------------------------- MODULE RatchetProofs ---------------------------
(***************************************************************************)
(* The ratchet for any tree, any number of edits and any findings: that    *)
(* debt never grows, that a move is free, and that the fast gate reports   *)
(* no more than the full one.                                              *)
(***************************************************************************)
EXTENDS Ratchet, FiniteSetTheorems, TLAPS

IsCounts(c) == DOMAIN c \subseteq Key /\ c \in [DOMAIN c -> Entry]

\* The counts of a file or of a save are entries of keys of the tree.
Sorts ==
  /\ body \in [Symbol -> Shape \union {Gone}]
  /\ found \in [Key -> 0 .. MaxFound]
  /\ \A k \in Key : body[k[2]] = Gone => found[k] = 0
  /\ file \in Text \union {NoFile}
  /\ legacy = NoFile \/ IsCounts(legacy)
  /\ saving \in {"none", "baseline", "prune", "legacy"}
  /\ IsCounts(target)
  /\ blessed \in [Rule -> Nat]

\* No source of allowances, nor the save that will replace it, allows more of a rule than
\* was accepted.
Within(counts) == \A r \in Rule : Total(counts, r) <= blessed[r]

Bounded ==
  /\ saving \in {"baseline", "prune"} => file = [lines |-> {}] /\ Within(target)
  /\ file # NoFile /\ Loadable => Within(Parsed(file.lines))
  /\ file = NoFile /\ legacy # NoFile => Within(legacy)

-----------------------------------------------------------------------------
\* Finitely many keys.
LEMMA KeysAreFinite ==
  /\ IsFiniteSet(Key)
  /\ \A S \in SUBSET Key : IsFiniteSet(S) /\ Cardinality(S) \in Nat
<1>1. IsFiniteSet(Key)
  BY FS_Product, RatchetAssumption DEF Key
<1>2. ASSUME NEW S \in SUBSET Key PROVE IsFiniteSet(S) /\ Cardinality(S) \in Nat
  BY <1>1, FS_Subset, FS_CardinalityType
<1> QED
  BY <1>1, <1>2

\* The members of S numbered below e.
Below(S, v, e) == {f \in S : v[f] < v[e]}

\* In a finite set whose members have distinct numbers, each rank below its size is the
\* rank of a member.
LEMMA Ranked ==
  ASSUME NEW S, IsFiniteSet(S), NEW v \in [S -> Nat],
         \A e, f \in S : v[e] = v[f] => e = f,
         NEW n \in Nat
  PROVE  /\ n < Cardinality(S) => \E e \in S : Cardinality(Below(S, v, e)) = n
         /\ \A e \in S : Cardinality(Below(S, v, e)) = n => n < Cardinality(S)
         /\ \A d, e \in S : Cardinality(Below(S, v, d)) = Cardinality(Below(S, v, e)) => d = e
<1> DEFINE Rank     == [e \in S |-> Cardinality(Below(S, v, e))]
           Size     == Cardinality(S)
           Range1   == 0 .. (Size - 1)
<1>0. Size \in Nat
  BY FS_CardinalityType
<1>1. ASSUME NEW e \in S
      PROVE  IsFiniteSet(Below(S, v, e)) /\ Cardinality(Below(S, v, e)) \in Nat
             /\ Cardinality(Below(S, v, e)) < Size
  <2>1. IsFiniteSet(Below(S, v, e)) /\ Cardinality(Below(S, v, e)) \in Nat
    <3>1. Below(S, v, e) \subseteq S
      BY DEF Below
    <3> QED
      BY <3>1, FS_Subset, FS_CardinalityType
  <2>2. e \notin Below(S, v, e) /\ Below(S, v, e) \union {e} \subseteq S
    BY DEF Below
  <2>3. Cardinality(Below(S, v, e) \union {e}) = Cardinality(Below(S, v, e)) + 1
    BY <2>1, <2>2, FS_AddElement
  <2>4. Cardinality(Below(S, v, e) \union {e}) <= Size
    BY <2>2, FS_Subset
  <2> QED
    BY <1>0, <2>1, <2>3, <2>4
<1>2. ASSUME NEW d \in S, NEW e \in S, v[d] < v[e]
      PROVE  Cardinality(Below(S, v, d)) < Cardinality(Below(S, v, e))
  <2>1. d \notin Below(S, v, d) /\ Below(S, v, d) \union {d} \subseteq Below(S, v, e)
    <3>1. v[d] \in Nat /\ v[e] \in Nat /\ \A f \in S : v[f] \in Nat
      OBVIOUS
    <3>2. d \notin Below(S, v, d) /\ d \in Below(S, v, e)
      BY <1>2, <3>1 DEF Below
    <3>3. \A f \in Below(S, v, d) : f \in Below(S, v, e)
      BY <1>2, <3>1 DEF Below
    <3> QED
      BY <3>2, <3>3
  <2>2. Cardinality(Below(S, v, d) \union {d}) = Cardinality(Below(S, v, d)) + 1
    BY <1>1, <2>1, FS_AddElement
  <2>3. Cardinality(Below(S, v, d) \union {d}) <= Cardinality(Below(S, v, e))
    BY <1>1, <2>1, FS_Subset
  <2>4. Cardinality(Below(S, v, d)) \in Nat /\ Cardinality(Below(S, v, e)) \in Nat
    BY <1>1
  <2> QED
    BY <2>2, <2>3, <2>4
<1>3. ASSUME NEW d \in S, NEW e \in S, Cardinality(Below(S, v, d)) = Cardinality(Below(S, v, e))
      PROVE  d = e
  <2>1. v[d] \in Nat /\ v[e] \in Nat
    OBVIOUS
  <2>2. Cardinality(Below(S, v, d)) \in Nat /\ Cardinality(Below(S, v, e)) \in Nat
    BY <1>1
  <2>3. ~(v[d] < v[e])
    <3> SUFFICES ASSUME v[d] < v[e] PROVE FALSE
      OBVIOUS
    <3>1. Cardinality(Below(S, v, d)) < Cardinality(Below(S, v, e))
      BY <1>2
    <3> QED
      BY <1>3, <2>2, <3>1
  <2>4. ~(v[e] < v[d])
    <3> SUFFICES ASSUME v[e] < v[d] PROVE FALSE
      OBVIOUS
    <3>1. Cardinality(Below(S, v, e)) < Cardinality(Below(S, v, d))
      BY <1>2
    <3> QED
      BY <1>3, <2>2, <3>1
  <2> QED
    BY <2>1, <2>3, <2>4
<1>4. IsFiniteSet(Range1) /\ Cardinality(Range1) = Size
  BY <1>0, FS_Interval, SMTT(30)
<1> HIDE DEF Size
<1>5. Rank \in Injection(S, Range1)
  <2>1. Rank \in [S -> Range1]
    BY <1>0, <1>1
  <2> QED
    BY <1>3, <2>1 DEF Injection, IsInjective
<1>6. Rank \in Surjection(S, Range1)
  BY <1>4, <1>5, FS_Injection DEF Size
<1>7. ASSUME n < Size PROVE \E e \in S : Cardinality(Below(S, v, e)) = n
  <2>1. n \in Range1
    BY <1>0, <1>7
  <2>2. PICK e \in S : Rank[e] = n
    BY <1>6, <2>1 DEF Surjection
  <2> QED
    BY <2>2
<1>8. \A e \in S : Cardinality(Below(S, v, e)) = n => n < Size
  BY <1>1
<1> QED
  BY <1>3, <1>7, <1>8 DEF Size

-----------------------------------------------------------------------------
\* Where some order of a group's findings has the entries it claims.
LEMMA FreeIsFinite ==
  ASSUME NEW c, IsCounts(c), NEW gs \in SUBSET Key, NEW k \in Key, NEW o \in Orders
  PROVE  /\ Free(c, gs, k) \subseteq Key /\ IsFiniteSet(Free(c, gs, k))
         /\ Cardinality(Free(c, gs, k)) \in Nat
         /\ Ahead(c, gs, o, k) \subseteq Key /\ IsFiniteSet(Ahead(c, gs, o, k))
         /\ Cardinality(Ahead(c, gs, o, k)) \in Nat
<1>1. Free(c, gs, k) \subseteq Key /\ Ahead(c, gs, o, k) \subseteq Key
  BY DEF IsCounts, Free, Ahead
<1> QED
  BY <1>1, KeysAreFinite

\* A group claims an entry exactly where fewer groups are ahead of it than entries match,
\* and the entry it claims matches.
LEMMA ClaimExists ==
  ASSUME NEW c, IsCounts(c), NEW gs \in SUBSET Key, NEW k \in Key, NEW o \in Orders
  PROVE  /\ Claimed(c, gs, o, k) # {}
              <=> Cardinality(Ahead(c, gs, o, k)) < Cardinality(Free(c, gs, k))
         /\ Claimed(c, gs, o, k) \subseteq Free(c, gs, k)
<1> DEFINE S == Free(c, gs, k)
           n == Cardinality(Ahead(c, gs, o, k))
           v == [e \in S |-> e[2]]
<1>1. S \subseteq Key /\ IsFiniteSet(S) /\ n \in Nat
  BY FreeIsFinite
<1>2. v \in [S -> Nat]
  BY <1>1, RatchetAssumption DEF Key
<1>3. \A e, f \in S : v[e] = v[f] => e = f
  BY <1>1 DEF Free, Matches, Key
<1>4. \A e \in S : Below(S, v, e) = {f \in S : f[2] < e[2]}
  BY DEF Below
<1> HIDE DEF v
<1> HIDE DEF n
<1>5. n < Cardinality(S) => \E e \in S : Cardinality(Below(S, v, e)) = n
  BY <1>1, <1>2, <1>3, Ranked
<1>6. \A e \in S : Cardinality(Below(S, v, e)) = n => n < Cardinality(S)
  BY <1>1, <1>2, <1>3, Ranked
<1> QED
  BY <1>4, <1>5, <1>6 DEF Claimed, n

\* What a group without an entry of its own is allowed: nothing, or what some entry it
\* claims allows.
LEMMA BudgetOfClaim ==
  ASSUME NEW c, IsCounts(c), NEW gs \in SUBSET Key, NEW k \in Key, NEW o \in Orders
  PROVE  /\ Budget(c, gs, o, k) \in Nat
         /\ k \in DOMAIN c => Budget(c, gs, o, k) = c[k].count
         /\ k \notin DOMAIN c /\ Claimed(c, gs, o, k) = {} => Budget(c, gs, o, k) = 0
         /\ k \notin DOMAIN c /\ Claimed(c, gs, o, k) # {} =>
              \E e \in Claimed(c, gs, o, k) : Budget(c, gs, o, k) = c[e].count
<1>1. \A e \in DOMAIN c : c[e].count \in Nat
  BY RatchetAssumption DEF IsCounts, Entry
<1>2. Claimed(c, gs, o, k) \subseteq DOMAIN c
  BY DEF Claimed, Free
<1>3. CASE k \in DOMAIN c
  BY <1>1, <1>3 DEF Budget
<1>4. CASE k \notin DOMAIN c /\ Claimed(c, gs, o, k) = {}
  BY <1>4 DEF Budget
<1>5. CASE k \notin DOMAIN c /\ Claimed(c, gs, o, k) # {}
  <2> DEFINE d == CHOOSE e \in Claimed(c, gs, o, k) : TRUE
  <2>1. d \in Claimed(c, gs, o, k)
    BY <1>5
  <2>2. Budget(c, gs, o, k) = c[d].count
    BY <1>5 DEF Budget
  <2> HIDE DEF d
  <2> QED
    BY <1>1, <1>2, <1>5, <2>1, <2>2
<1> QED
  BY <1>3, <1>4, <1>5

\* With fewer groups to share the entries with, a group is allowed no less.
LEMMA FewerGroups ==
  ASSUME NEW c, IsCounts(c), Uniform(c), NEW hs \in SUBSET Key, NEW gs \in SUBSET hs,
         NEW k \in Key, NEW o \in Orders
  PROVE  Budget(c, hs, o, k) <= Budget(c, gs, o, k)
<1> DEFINE F(g) == Free(c, g, k)
           A(g) == Ahead(c, g, o, k)
           B(g) == Budget(c, g, o, k)
<1>1. gs \in SUBSET Key
  OBVIOUS
<1>2. B(hs) \in Nat /\ B(gs) \in Nat
  BY <1>1, BudgetOfClaim
<1>3. CASE k \in DOMAIN c
  <2>1. B(gs) = c[k].count
    BY <1>1, <1>3, BudgetOfClaim
  <2>2. B(hs) = c[k].count
    BY <1>3, BudgetOfClaim
  <2> QED
    BY <1>2, <2>1, <2>2
<1>4. CASE k \notin DOMAIN c /\ Claimed(c, hs, o, k) = {}
  BY <1>2, <1>4, BudgetOfClaim
<1>5. CASE k \notin DOMAIN c /\ Claimed(c, hs, o, k) # {}
  <2>1. F(hs) \subseteq F(gs) /\ A(gs) \subseteq A(hs)
    BY DEF Free, Ahead
  <2>2. /\ IsFiniteSet(F(gs)) /\ Cardinality(F(gs)) \in Nat /\ Cardinality(F(hs)) \in Nat
        /\ IsFiniteSet(A(hs)) /\ Cardinality(A(hs)) \in Nat /\ Cardinality(A(gs)) \in Nat
    BY <1>1, FreeIsFinite
  <2>3. Cardinality(F(hs)) <= Cardinality(F(gs)) /\ Cardinality(A(gs)) <= Cardinality(A(hs))
    BY <2>1, <2>2, FS_Subset
  <2>4. Cardinality(A(hs)) < Cardinality(F(hs))
    BY <1>5, ClaimExists
  <2>5. Cardinality(A(gs)) < Cardinality(F(gs))
    <3> HIDE DEF F, A
    <3> QED
      BY <2>2, <2>3, <2>4
  <2>6. Claimed(c, gs, o, k) # {}
    BY <1>1, <2>5, ClaimExists
  <2>7. PICK e \in Claimed(c, gs, o, k) : B(gs) = c[e].count
    BY <1>1, <1>5, <2>6, BudgetOfClaim
  <2>8. PICK d \in Claimed(c, hs, o, k) : B(hs) = c[d].count
    BY <1>5, BudgetOfClaim
  <2>9. d \in F(gs) /\ e \in F(gs)
    BY <1>1, <2>1, <2>7, <2>8, ClaimExists
  <2>10. c[d].count = c[e].count
    BY <2>9 DEF Free, Matches, Uniform
  <2>11. B(hs) = B(gs)
    BY <2>7, <2>8, <2>10
  <2> QED
    BY <1>2, <2>11
<1> QED
  BY <1>3, <1>4, <1>5

\* What the gate blocks on is what goes over the budget.
LEMMA ExcessIsOver ==
  ASSUME Sorts, NEW c, IsCounts(c), NEW gs \in SUBSET Key, NEW k \in Key, NEW o \in Orders
  PROVE  /\ found[k] \in Nat /\ Excess(c, gs, o, k) \in Nat
         /\ Excess(c, gs, o, k) > 0 <=> Budget(c, gs, o, k) < found[k]
         /\ \A hs \in SUBSET Key :
              Budget(c, gs, o, k) <= Budget(c, hs, o, k) =>
                Excess(c, hs, o, k) <= Excess(c, gs, o, k)
<1>1. found[k] \in Nat
  BY RatchetAssumption DEF Sorts
<1>2. Budget(c, gs, o, k) \in Nat /\ \A hs \in SUBSET Key : Budget(c, hs, o, k) \in Nat
  BY BudgetOfClaim
<1> QED
  BY <1>1, <1>2 DEF Excess, Lower

\* ... and where there is one, some member has the largest number.
LEMMA Largest ==
  ASSUME NEW S, IsFiniteSet(S), NEW v \in [S -> Nat],
         \A e, f \in S : v[e] = v[f] => e = f,
         S # {}
  PROVE  \E m \in S : \A n \in S : v[n] <= v[m]
<1>1. Cardinality(S) \in Nat /\ Cardinality(S) # 0
  BY FS_CardinalityType, FS_EmptySet
<1>2. PICK last \in Nat : last + 1 = Cardinality(S) /\ last < Cardinality(S)
  <2>1. Cardinality(S) - 1 \in Nat /\ (Cardinality(S) - 1) + 1 = Cardinality(S)
        /\ Cardinality(S) - 1 < Cardinality(S)
    BY <1>1
  <2> QED
    BY <2>1
<1>3. PICK m \in S : Cardinality(Below(S, v, m)) = last
  BY <1>2, Ranked
<1>4. m \notin Below(S, v, m) /\ Below(S, v, m) \subseteq S /\ IsFiniteSet(Below(S, v, m))
  <2>1. m \notin Below(S, v, m) /\ Below(S, v, m) \subseteq S
    BY DEF Below
  <2> QED
    BY <2>1, FS_Subset
<1>5. Cardinality(Below(S, v, m) \union {m}) = Cardinality(S)
  BY <1>2, <1>3, <1>4, FS_AddElement
<1>6. Below(S, v, m) \union {m} = S
  BY <1>4, <1>5, FS_Subset
<1>7. ASSUME NEW n \in S PROVE v[n] <= v[m]
  <2>1. n = m \/ v[n] < v[m]
    BY <1>6 DEF Below
  <2> QED
    BY <2>1
<1> QED
  BY <1>7

\* Of the lines a file has for a key, one has the largest count.
LEMMA LargestLine ==
  ASSUME NEW lines \in SUBSET [key : Key, count : 0 .. MaxFound, shape : Shape \union {NoShape}],
         NEW k \in {l.key : l \in lines}
  PROVE  \E l \in lines : l.key = k /\ \A m \in lines : m.key = k => m.count <= l.count
<1> DEFINE S == {l.count : l \in {x \in lines : x.key = k}}
           v == [n \in S |-> n]
<1>1. S \subseteq 0 .. MaxFound /\ S # {}
  OBVIOUS
<1>2. IsFiniteSet(S)
  <2>1. IsFiniteSet(0 .. MaxFound)
    BY FS_Interval, RatchetAssumption
  <2> HIDE DEF S
  <2> QED
    BY <1>1, <2>1, FS_Subset
<1>3. v \in [S -> Nat]
  BY <1>1, RatchetAssumption
<1>4. \A e, f \in S : v[e] = v[f] => e = f
  OBVIOUS
<1>5. \E m \in S : \A n \in S : v[n] <= v[m]
  <2> HIDE DEF v, S
  <2> QED
    BY <1>1, <1>2, <1>3, <1>4, Largest
<1>6. PICK m \in S : \A n \in S : n <= m
  BY <1>5
<1>7. PICK l \in lines : l.key = k /\ l.count = m
  OBVIOUS
<1> QED
  BY <1>6, <1>7

\* The allowances a gate reads are entries of keys, where the file can be read.
LEMMA ParsedAreCounts ==
  ASSUME NEW lines \in SUBSET Line, CutBefore \notin lines
  PROVE  /\ IsCounts(Parsed(lines))
         /\ DOMAIN Parsed(lines) = {l.key : l \in lines}
         /\ \A k \in DOMAIN Parsed(lines) :
              \E l \in lines : /\ l.key = k /\ Parsed(lines)[k].count = l.count
                              /\ Parsed(lines)[k].shape = l.shape
                              /\ \A m \in lines : m.key = k => m.count <= l.count
<1> DEFINE Best(k) == CHOOSE l \in lines :
                        l.key = k /\ \A m \in lines : m.key = k => m.count <= l.count
           keys    == {l.key : l \in lines}
<1>1. lines \subseteq [key : Key, count : 0 .. MaxFound, shape : Shape \union {NoShape}]
  BY DEF Line
<1>2. ASSUME NEW k \in keys
      PROVE  Best(k) \in lines /\ Best(k).key = k
             /\ \A m \in lines : m.key = k => m.count <= Best(k).count
  <2>1. \E l \in lines : l.key = k /\ \A m \in lines : m.key = k => m.count <= l.count
    BY <1>1, LargestLine
  <2> QED
    BY <2>1
<1>3. Parsed(lines) = [k \in keys |-> [count |-> Best(k).count, shape |-> Best(k).shape]]
  BY DEF Parsed
<1> HIDE DEF Best
<1>4. keys \subseteq Key
  BY <1>1
<1>5. \A k \in keys : [count |-> Best(k).count, shape |-> Best(k).shape] \in Entry
  BY <1>1, <1>2 DEF Entry
<1>6. IsCounts(Parsed(lines))
  BY <1>3, <1>4, <1>5 DEF IsCounts
<1>7. DOMAIN Parsed(lines) = keys
  BY <1>3
<1>8. ASSUME NEW k \in keys
      PROVE  \E l \in lines : /\ l.key = k /\ Parsed(lines)[k].count = l.count
                              /\ Parsed(lines)[k].shape = l.shape
                              /\ \A m \in lines : m.key = k => m.count <= l.count
  <2>1. Parsed(lines)[k] = [count |-> Best(k).count, shape |-> Best(k).shape]
    BY <1>3
  <2> QED
    BY <1>2, <2>1
<1> HIDE DEF keys
<1> QED
  BY <1>6, <1>7, <1>8 DEF keys

\* The count and the shape of a group are those of one of its lines.
LEMMA ParsedFromALine ==
  ASSUME NEW lines \in SUBSET Line, CutBefore \notin lines, NEW k \in DOMAIN Parsed(lines)
  PROVE  \E l \in lines : /\ l.key = k /\ Parsed(lines)[k].count = l.count
                          /\ Parsed(lines)[k].shape = l.shape
<1> DEFINE P == Parsed(lines)
<1>1. \A j \in DOMAIN P : \E l \in lines : /\ l.key = j /\ P[j].count = l.count
                                         /\ P[j].shape = l.shape
                                         /\ \A m \in lines : m.key = j => m.count <= l.count
  BY ParsedAreCounts
<1>2. k \in DOMAIN P
  OBVIOUS
<1> HIDE DEF P
<1>3. \E l \in lines : l.key = k /\ P[k].count = l.count /\ P[k].shape = l.shape
  BY <1>1, <1>2
<1> QED
  BY <1>3 DEF P

\* So are the ones of a gate, of whatever file it reads them from.
LEMMA AllowedAreCounts ==
  ASSUME Sorts, Loadable
  PROVE  IsCounts(Allowed)
<1>1. CASE Loaded = NoFile
  BY <1>1 DEF Allowed, NoCounts, IsCounts
<1>2. CASE Loaded # NoFile /\ file # NoFile
  <2>1. file.lines \in SUBSET Line /\ CutBefore \notin file.lines
    BY <1>2 DEF Sorts, Loadable, Text
  <2> QED
    BY <1>2, <2>1, ParsedAreCounts DEF Allowed, Loaded
<1>3. CASE Loaded # NoFile /\ file = NoFile
  BY <1>3 DEF Allowed, Loaded, Sorts
<1> QED
  BY <1>1, <1>2, <1>3

\* ratchet.rs and docs/reference.md:133: where the tree's own types hold.
LEMMA FastGateReportsLess == Sorts => FastReportsSubset
<1> SUFFICES ASSUME Sorts, Loadable, Uniform(Allowed), NEW fs \in SUBSET File, NEW o \in Orders,
                    NEW k \in FastGroups(fs)
             PROVE  Excess(Allowed, FastGroups(fs), o, k) <= Excess(Allowed, AllGroups, o, k)
  BY DEF FastReportsSubset
<1>1. FastGroups(fs) \in SUBSET AllGroups /\ AllGroups \in SUBSET Key /\ FastGroups(fs) \in SUBSET Key
  BY RatchetAssumption DEF FastGroups, AllGroups, Groups, Key
<1>2. k \in Key /\ IsCounts(Allowed)
  BY <1>1, AllowedAreCounts
<1>3. Budget(Allowed, AllGroups, o, k) <= Budget(Allowed, FastGroups(fs), o, k)
  BY <1>1, <1>2, FewerGroups
<1> QED
  BY <1>1, <1>2, <1>3, ExcessIsOver

-----------------------------------------------------------------------------
\* One unit per finding that is allowed, and one per finding there is: finitely many.
LEMMA UnitsAreFinite ==
  ASSUME NEW r
  PROVE  /\ \A c : IsCounts(c) => IsFiniteSet(Allowances(c, r)) /\ Total(c, r) \in Nat
         /\ Sorts /\ r \in Rule => IsFiniteSet(Findings(r)) /\ Debt(r) \in Nat
<1> DEFINE Units == Key \X (1 .. MaxFound)
<1>1. IsFiniteSet(Units)
  <2>1. IsFiniteSet(1 .. MaxFound)
    BY FS_Interval, RatchetAssumption
  <2> QED
    BY <2>1, KeysAreFinite, FS_Product
<1>2. ASSUME NEW c, IsCounts(c)
      PROVE  Allowances(c, r) \subseteq Units
  <2>1. \A k \in DOMAIN c : k \in Key /\ c[k].count \in 0 .. MaxFound
    BY <1>2 DEF IsCounts, Entry
  <2> QED
    BY <2>1, RatchetAssumption DEF Allowances
<1>3. ASSUME Sorts, r \in Rule
      PROVE  Findings(r) \subseteq Units
  <2>1. \A s \in Symbol : <<r, s>> \in Key
    BY <1>3 DEF Key
  <2>2. \A s \in Symbol : found[<<r, s>>] \in 0 .. MaxFound
    BY <1>3, <2>1 DEF Sorts
  <2>3. \A s \in Symbol : {<<r, s>>} \X (1 .. found[<<r, s>>]) \subseteq Units
    BY <2>1, <2>2, RatchetAssumption
  <2> HIDE DEF Units
  <2> QED
    BY <2>3 DEF Findings
<1> HIDE DEF Units
<1> QED
  BY <1>1, <1>2, <1>3, FS_Subset, FS_CardinalityType DEF Total, Debt

\* Fewer entries with smaller counts allow no more.
LEMMA LessAllowed ==
  ASSUME NEW c, NEW d, IsCounts(c), DOMAIN d \subseteq DOMAIN c, IsCounts(d),
         \A k \in DOMAIN d : d[k].count <= c[k].count,
         NEW r
  PROVE  Total(d, r) <= Total(c, r)
<1>1. \A k \in DOMAIN d : d[k].count \in 0 .. MaxFound /\ c[k].count \in 0 .. MaxFound
  BY DEF IsCounts, Entry
<1>2. Allowances(d, r) \subseteq Allowances(c, r)
  BY <1>1, RatchetAssumption DEF Allowances
<1> QED
  BY <1>2, UnitsAreFinite, FS_Subset DEF Total

\* Counts that are no larger than the tree's allow no more than the tree holds.
LEMMA TreeAllowsItself ==
  ASSUME Sorts, NEW c, IsCounts(c), \A k \in DOMAIN c : c[k].count <= found[k], NEW r \in Rule
  PROVE  Total(c, r) <= Debt(r)
<1>1. \A k \in DOMAIN c : k \in Key /\ c[k].count \in 0 .. MaxFound
  BY DEF IsCounts, Entry
<1>2. \A k \in Key : found[k] \in 0 .. MaxFound
  BY DEF Sorts
<1>3. ASSUME NEW k \in DOMAIN c, k[1] = r, NEW i \in 1 .. c[k].count
      PROVE  <<k, i>> \in Findings(r)
  <2>1. k = <<r, k[2]>> /\ k[2] \in Symbol
    BY <1>1, <1>3 DEF Key
  <2>2. i \in 1 .. found[k]
    BY <1>1, <1>2, <1>3, RatchetAssumption
  <2> QED
    BY <2>1, <2>2 DEF Findings
<1>4. Allowances(c, r) \subseteq Findings(r)
  BY <1>3 DEF Allowances
<1> QED
  BY <1>4, UnitsAreFinite, FS_Subset DEF Total, Debt

\* Two groups without entries of their own claim different ones.
LEMMA ClaimsDiffer ==
  ASSUME NEW c, IsCounts(c), NEW gs \in SUBSET Key, NEW o \in Orders,
         NEW k \in gs \ DOMAIN c, NEW l \in gs \ DOMAIN c, k # l, k[1] = l[1],
         NEW e \in Claimed(c, gs, o, k)
  PROVE  e \notin Claimed(c, gs, o, l)
<1> DEFINE A(g) == Ahead(c, gs, o, g)
<1> SUFFICES ASSUME e \in Claimed(c, gs, o, l)
             PROVE  FALSE
  OBVIOUS
<1>1. k \in Key /\ l \in Key /\ k[2] \in Symbol /\ l[2] \in Symbol /\ k[2] # l[2]
  BY DEF Key
<1>2. o[k[2]] \in Nat /\ o[l[2]] \in Nat /\ o[k[2]] # o[l[2]]
  <2>1. Cardinality(Symbol) \in Nat
    BY RatchetAssumption, FS_CardinalityType
  <2> QED
    BY <1>1, <2>1 DEF Orders
<1>3. e \in Free(c, gs, k) /\ e \in Free(c, gs, l)
  BY DEF Claimed
<1>4. ShapeOf(k) = ShapeOf(l)
  BY <1>3 DEF Free, Matches
<1>5. Free(c, gs, k) = Free(c, gs, l)
  BY <1>4 DEF Free, Matches
<1>6. Cardinality(A(k)) = Cardinality(A(l))
  BY <1>5 DEF Claimed
<1>7. /\ IsFiniteSet(A(k)) /\ Cardinality(A(k)) \in Nat
      /\ IsFiniteSet(A(l)) /\ Cardinality(A(l)) \in Nat
  BY <1>1, FreeIsFinite
<1>8. ASSUME NEW g \in {k, l}, NEW h \in {k, l}, o[g[2]] < o[h[2]]
      PROVE  Cardinality(A(g)) < Cardinality(A(h))
  <2>1. g \notin A(g) /\ A(g) \union {g} \subseteq A(h)
    <3>1. o[g[2]] \in Nat /\ o[h[2]] \in Nat /\ \A m \in gs : o[m[2]] \in Nat
      <4>1. \A m \in gs : m[2] \in Symbol
        BY DEF Key
      <4>2. Cardinality(Symbol) \in Nat
        BY RatchetAssumption, FS_CardinalityType
      <4> QED
        BY <1>2, <4>1, <4>2 DEF Orders
    <3>2. g \notin A(g) /\ g \in A(h)
      BY <1>4, <1>8, <3>1 DEF Ahead
    <3>3. ASSUME NEW m \in A(g) PROVE m \in A(h)
      BY <1>4, <1>8, <3>1 DEF Ahead
    <3> QED
      BY <3>2, <3>3
  <2> HIDE DEF A
  <2>2. Cardinality(A(g) \union {g}) = Cardinality(A(g)) + 1
    BY <1>7, <2>1, FS_AddElement
  <2>3. Cardinality(A(g) \union {g}) <= Cardinality(A(h))
    BY <1>7, <2>1, FS_Subset
  <2>4. Cardinality(A(g)) \in Nat /\ Cardinality(A(h)) \in Nat
    BY <1>7
  <2> QED
    BY <2>2, <2>3, <2>4
<1>9. Cardinality(A(k)) < Cardinality(A(l)) \/ Cardinality(A(l)) < Cardinality(A(k))
  <2>1. o[k[2]] < o[l[2]] \/ o[l[2]] < o[k[2]]
    BY <1>2
  <2> HIDE DEF A
  <2> QED
    BY <1>8, <2>1
<1> HIDE DEF A
<1> QED
  BY <1>6, <1>7, <1>9

\* Where the gate passes, each finding of a rule is one some entry allows, and no two are
\* the same one.
LEMMA PassingIsWithin ==
  ASSUME Sorts, NEW o \in Orders, Passes(o), NEW r \in Rule
  PROVE  Debt(r) <= Total(Allowed, r)
<1> DEFINE c == Allowed
           gs == AllGroups
           Mine(k) == IF k \in DOMAIN c THEN k
                      ELSE CHOOSE e \in Claimed(c, gs, o, k) : Budget(c, gs, o, k) = c[e].count
           F == Findings(r)
           A == Allowances(c, r)
           Map == [u \in F |-> <<Mine(u[1]), u[2]>>]
<1>1. IsCounts(c)
  BY AllowedAreCounts DEF Passes
<1>2. gs \in SUBSET Key
  BY DEF AllGroups, Groups
<1>3. ASSUME NEW u \in F
      PROVE  u = <<u[1], u[2]>> /\ u[1] \in gs /\ u[1][1] = r /\ u[2] \in 1 .. found[u[1]]
  <2>0. PICK s \in Symbol : u \in {<<r, s>>} \X (1 .. found[<<r, s>>])
    BY DEF Findings
  <2>1. u[1] = <<r, s>> /\ u[2] \in 1 .. found[<<r, s>>] /\ u = <<u[1], u[2]>>
    BY <2>0
  <2>2. <<r, s>> \in Key
    BY DEF Key
  <2>3. found[<<r, s>>] \in Nat /\ found[<<r, s>>] > 0
    BY <2>1, <2>2, RatchetAssumption DEF Sorts
  <2>4. <<r, s>> \in gs
    BY <2>2, <2>3, RatchetAssumption DEF AllGroups, Groups
  <2> QED
    BY <2>1, <2>4
<1> HIDE DEF c, gs
<1>4. ASSUME NEW k \in gs
      PROVE  /\ Mine(k) \in DOMAIN c /\ Mine(k)[1] = k[1]
             /\ found[k] \in Nat /\ c[Mine(k)].count \in Nat /\ found[k] <= c[Mine(k)].count
             /\ k \in DOMAIN c => Mine(k) = k
             /\ k \notin DOMAIN c => Mine(k) \in Claimed(c, gs, o, k)
  <2>1. k \in Key /\ found[k] \in Nat /\ Budget(c, gs, o, k) \in Nat
    BY <1>1, <1>2, ExcessIsOver, BudgetOfClaim
  <2>2. found[k] <= Budget(c, gs, o, k)
    <3>1. ~(Excess(c, gs, o, k) > 0)
      BY DEF Passes, Blocked, c, gs
    <3>2. ~(Budget(c, gs, o, k) < found[k])
      BY <1>1, <1>2, <2>1, <3>1, ExcessIsOver
    <3> QED
      BY <2>1, <3>2
  <2>3. \A e \in DOMAIN c : c[e].count \in Nat
    BY <1>1, RatchetAssumption DEF IsCounts, Entry
  <2>4. CASE k \in DOMAIN c
    <3>1. Budget(c, gs, o, k) = c[k].count
      BY <1>1, <1>2, <2>1, <2>4, BudgetOfClaim
    <3> QED
      BY <2>1, <2>2, <2>3, <2>4, <3>1
  <2>5. CASE k \notin DOMAIN c
    <3>1. found[k] > 0
      BY DEF gs, AllGroups, Groups
    <3>2. Claimed(c, gs, o, k) # {}
      <4> SUFFICES ASSUME Claimed(c, gs, o, k) = {} PROVE FALSE
        OBVIOUS
      <4>1. Budget(c, gs, o, k) = 0
        BY <1>1, <1>2, <2>1, <2>5, BudgetOfClaim
      <4> QED
        BY <2>1, <2>2, <3>1, <4>1
    <3>3. \E e \in Claimed(c, gs, o, k) : Budget(c, gs, o, k) = c[e].count
      BY <1>1, <1>2, <2>1, <2>5, <3>2, BudgetOfClaim
    <3>4. Mine(k) \in Claimed(c, gs, o, k) /\ Budget(c, gs, o, k) = c[Mine(k)].count
      BY <2>5, <3>3
    <3>5. Mine(k) \in DOMAIN c /\ Mine(k)[1] = k[1]
      BY <3>4 DEF Claimed, Free, Matches
    <3> HIDE DEF Mine
    <3> QED
      BY <2>1, <2>2, <2>3, <2>5, <3>4, <3>5
  <2> QED
    BY <2>4, <2>5
<1>5. ASSUME NEW k \in gs, NEW l \in gs, k[1] = l[1], Mine(k) = Mine(l)
      PROVE  k = l
  <2>1. \A g \in gs : g \notin DOMAIN c => Mine(g) \notin gs
    BY <1>4 DEF Claimed, Free
  <2>2. CASE k \in DOMAIN c \/ l \in DOMAIN c
    <3> HIDE DEF Mine
    <3> QED
      BY <1>4, <1>5, <2>1, <2>2
  <2>3. CASE k \notin DOMAIN c /\ l \notin DOMAIN c
    <3> SUFFICES ASSUME k # l PROVE FALSE
      OBVIOUS
    <3>1. Mine(k) \in Claimed(c, gs, o, k) /\ Mine(k) \in Claimed(c, gs, o, l)
      BY <1>4, <1>5, <2>3
    <3> HIDE DEF Mine
    <3> QED
      BY <1>1, <1>2, <1>5, <2>3, <3>1, ClaimsDiffer
  <2> QED
    BY <2>2, <2>3
<1> HIDE DEF Mine, F
<1>6. Map \in Injection(F, A)
  <2>1. ASSUME NEW u \in F PROVE Map[u] \in A
    <3>1. u[1] \in gs /\ u[1][1] = r /\ u[2] \in 1 .. found[u[1]]
      BY <1>3
    <3>2. Mine(u[1]) \in DOMAIN c /\ Mine(u[1])[1] = r /\ u[2] \in 1 .. c[Mine(u[1])].count
      BY <1>4, <3>1
    <3> QED
      BY <3>2 DEF Allowances
  <2>2. ASSUME NEW u \in F, NEW w \in F, Map[u] = Map[w] PROVE u = w
    <3>1. Mine(u[1]) = Mine(w[1]) /\ u[2] = w[2]
      BY <2>2
    <3>2. u[1] = w[1]
      BY <1>3, <1>5, <3>1
    <3> QED
      BY <1>3, <3>1, <3>2
  <2> HIDE DEF A
  <2>3. Map \in [F -> A]
    BY <2>1
  <2> HIDE DEF Map
  <2> QED
    BY <2>2, <2>3 DEF Injection, IsInjective
<1>7. IsFiniteSet(A)
  BY <1>1, UnitsAreFinite
<1>8. Cardinality(F) <= Cardinality(A)
  BY <1>6, <1>7, FS_Injection
<1> QED
  BY <1>8 DEF Debt, Total, F, A, c

-----------------------------------------------------------------------------
\* What a save writes is what `load` reads back.
LEMMA WrittenIsRead ==
  ASSUME NEW c, IsCounts(c)
  PROVE  /\ Lines(c) \in SUBSET Line /\ CutBefore \notin Lines(c)
         /\ \A l \in Lines(c) : l.key \in DOMAIN c /\ l.count = c[l.key].count
         /\ Parsed(Lines(c)) = c
<1>1. ASSUME NEW k \in DOMAIN c
      PROVE  k \in Key /\ c[k] \in Entry
  BY DEF IsCounts
<1>2. ASSUME NEW l \in Lines(c)
      PROVE  /\ l.key \in DOMAIN c /\ l.count = c[l.key].count /\ l.shape = c[l.key].shape
             /\ l \in Line /\ l # CutBefore
  <2>1. PICK k \in DOMAIN c : l = [key |-> k, count |-> c[k].count, shape |-> c[k].shape]
    BY DEF Lines
  <2>2. k \in Key /\ c[k] \in Entry /\ NoKey # k
    BY <1>1, SentinelAssumption
  <2> QED
    BY <2>1, <2>2 DEF Line, Entry, CutBefore
<1>3. Lines(c) \in SUBSET Line /\ CutBefore \notin Lines(c)
  BY <1>2
<1>4. {l.key : l \in Lines(c)} = DOMAIN c
  <2>1. ASSUME NEW k \in DOMAIN c PROVE \E l \in Lines(c) : l.key = k
    <3>1. [key |-> k, count |-> c[k].count, shape |-> c[k].shape] \in Lines(c)
      BY DEF Lines
    <3> QED
      BY <3>1
  <2> QED
    BY <1>2, <2>1
<1>5. ASSUME NEW k \in DOMAIN c
      PROVE  Parsed(Lines(c))[k] = c[k]
  <2>1. k \in DOMAIN Parsed(Lines(c))
    BY <1>3, <1>4, ParsedAreCounts
  <2>2. PICK l \in Lines(c) : /\ l.key = k /\ Parsed(Lines(c))[k].count = l.count
                             /\ Parsed(Lines(c))[k].shape = l.shape
    BY <1>3, <2>1, ParsedFromALine
  <2>3. Parsed(Lines(c))[k] \in Entry /\ c[k] \in Entry
    BY <1>1, <1>3, <2>1, ParsedAreCounts DEF IsCounts
  <2> QED
    BY <1>2, <2>2, <2>3 DEF Entry
<1>6. Parsed(Lines(c)) = c
  <2>1. DOMAIN Parsed(Lines(c)) = DOMAIN c /\ IsCounts(Parsed(Lines(c)))
    BY <1>3, <1>4, ParsedAreCounts
  <2> QED
    BY <1>5, <2>1 DEF IsCounts
<1> QED
  BY <1>2, <1>3, <1>6

\* The counts of the tree, and those a prune leaves of others.
LEMMA SavesAreCounts ==
  ASSUME Sorts
  PROVE  /\ IsCounts(Snapshot) /\ DOMAIN Snapshot = AllGroups
         /\ \A k \in AllGroups : Snapshot[k] = [count |-> found[k], shape |-> ShapeOf(k)]
         /\ \A c : IsCounts(c) =>
              /\ IsCounts(Prune(c))
              /\ DOMAIN Prune(c) = DOMAIN c \intersect AllGroups
              /\ \A k \in DOMAIN Prune(c) :
                   Prune(c)[k] = [count |-> Lower(c[k].count, found[k]), shape |-> ShapeOf(k)]
<1>1. AllGroups \subseteq Key
  BY DEF AllGroups, Groups
<1>2. ASSUME NEW k \in AllGroups
      PROVE  found[k] \in 0 .. MaxFound /\ ShapeOf(k) \in Shape \union {NoShape}
  <2>1. k \in Key /\ found[k] > 0
    BY DEF AllGroups, Groups
  <2>2. body[k[2]] # Gone
    <3>1. body[k[2]] = Gone => found[k] = 0
      BY <2>1 DEF Sorts
    <3> QED
      BY <2>1, <3>1
  <2>3. k[2] \in Symbol
    BY <2>1 DEF Key
  <2>4. body[k[2]] \in Shape
    BY <2>2, <2>3 DEF Sorts
  <2> QED
    BY <2>1, <2>4 DEF ShapeOf, Sorts
<1>3. IsCounts(Snapshot)
  BY <1>1, <1>2 DEF Snapshot, IsCounts, Entry
<1>4. ASSUME NEW c, IsCounts(c)
      PROVE  IsCounts(Prune(c))
  <2>1. \A k \in DOMAIN c : c[k].count \in 0 .. MaxFound
    BY <1>4 DEF IsCounts, Entry
  <2>2. \A k \in DOMAIN c \intersect AllGroups :
          [count |-> Lower(c[k].count, found[k]), shape |-> ShapeOf(k)] \in Entry
    BY <1>2, <2>1, RatchetAssumption DEF Lower, Entry
  <2> QED
    BY <1>1, <2>2 DEF Prune, IsCounts
<1> QED
  BY <1>3, <1>4 DEF Snapshot, Prune

\* What a crash leaves of a save allows no more than the save would have.
LEMMA CutIsLess ==
  ASSUME Sorts, NEW last \in DOMAIN target, NEW cut \in CutLines(last),
         NEW lines, lines = {l \in Lines(target) : Precedes(l.key, last)} \union cut
  PROVE  /\ lines \in SUBSET Line
         /\ CutBefore \notin lines => \A r \in Rule : Total(Parsed(lines), r) <= Total(target, r)
<1>1. IsCounts(target)
  BY DEF Sorts
<1>2. last \in Key /\ target[last].count \in 0 .. MaxFound
  BY <1>1 DEF IsCounts, Entry
<1>3. ASSUME NEW l \in lines
      PROVE  /\ l \in Line
             /\ l # CutBefore => l.key \in DOMAIN target /\ l.count <= target[l.key].count
  <2>1. CASE l \in Lines(target)
    <3>1. l \in Line /\ l.key \in DOMAIN target /\ l.count = target[l.key].count
      BY <1>1, <2>1, WrittenIsRead
    <3>2. l.count \in Nat
      BY <1>1, <3>1, RatchetAssumption DEF IsCounts, Entry
    <3> QED
      BY <3>1, <3>2
  <2>2. CASE l = CutBefore
    BY <2>2 DEF Line
  <2>3. CASE \E n \in 1 .. target[last].count : l = [key |-> last, count |-> n, shape |-> NoShape]
    BY <1>2, <2>3, RatchetAssumption DEF Line
  <2> QED
    BY <2>1, <2>2, <2>3 DEF CutLines
<1>4. ASSUME CutBefore \notin lines, NEW r \in Rule
      PROVE  Total(Parsed(lines), r) <= Total(target, r)
  <2>1. lines \in SUBSET Line
    BY <1>3
  <2>2. IsCounts(Parsed(lines)) /\ DOMAIN Parsed(lines) = {l.key : l \in lines}
    BY <1>4, <2>1, ParsedAreCounts
  <2>3. DOMAIN Parsed(lines) \subseteq DOMAIN target
    BY <1>3, <1>4, <2>2
  <2>4. \A k \in DOMAIN Parsed(lines) : Parsed(lines)[k].count <= target[k].count
    <3> TAKE k \in DOMAIN Parsed(lines)
    <3>1. PICK l \in lines : l.key = k /\ Parsed(lines)[k].count = l.count
      BY <1>4, <2>1, ParsedFromALine
    <3> QED
      BY <1>3, <1>4, <3>1
  <2> QED
    BY <1>1, <2>2, <2>3, <2>4, LessAllowed
<1> QED
  BY <1>3, <1>4

\* A line a merge brings in is another of a key the file has.
LEMMA MergedIsRead ==
  ASSUME Sorts, UnionMerge
  PROVE  file' \in Text /\ IsCounts(Parsed(file'.lines)) /\ file' # NoFile
<1>1. PICK l \in file.lines, n \in 1 .. MaxFound, b \in Shape \union {NoShape} :
        file' = [lines |-> file.lines \union {[key |-> l.key, count |-> n, shape |-> b]}]
  BY DEF UnionMerge
<1>2. file \in Text /\ CutBefore \notin file.lines
  BY DEF UnionMerge, Sorts, Loadable
<1>3. l \in [key : Key, count : 0 .. MaxFound, shape : Shape \union {NoShape}]
  BY <1>2 DEF Text, Line
<1> DEFINE new == [key |-> l.key, count |-> n, shape |-> b]
<1>4. new \in Line /\ new # CutBefore
  BY <1>3, SentinelAssumption, RatchetAssumption DEF Line, CutBefore
<1>5. file'.lines = file.lines \union {new}
  BY <1>1
<1> HIDE DEF new
<1>6. file'.lines \in SUBSET Line /\ CutBefore \notin file'.lines
  BY <1>2, <1>4, <1>5 DEF Text
<1>7. file' \in Text
  BY <1>1, <1>5, <1>6 DEF Text
<1> QED
  BY <1>6, <1>7, ParsedAreCounts, SentinelAssumption

\* No step leaves the types.
LEMMA SortsStep ==
  ASSUME Sorts, [Next]_vars
  PROVE  Sorts'
<1>1. \A r \in Rule : Debt(r) \in Nat /\ \A c : IsCounts(c) => Total(c, r) \in Nat
  BY UnitsAreFinite
<1>2. ASSUME NEW s \in Symbol, Edit(s) PROVE Sorts'
  <2>1. PICK b \in Shape \union {Gone}, f \in [Rule -> 0 .. MaxFound] :
          /\ body' = [body EXCEPT ![s] = b]
          /\ body'[s] = Gone => \A r \in Rule : f[r] = 0
          /\ found' = [k \in Key |-> IF k[2] = s THEN f[k[1]] ELSE found[k]]
    BY <1>2 DEF Edit
  <2>2. body' \in [Symbol -> Shape \union {Gone}]
    BY <2>1 DEF Sorts
  <2>3. found' \in [Key -> 0 .. MaxFound]
    BY <2>1 DEF Sorts, Key
  <2>4. \A k \in Key : body'[k[2]] = Gone => found'[k] = 0
    BY <2>1 DEF Sorts, Key
  <2> QED
    BY <1>2, <2>2, <2>3, <2>4 DEF Edit, disk, Sorts, IsCounts
<1>3. ASSUME NEW s \in Symbol, NEW t \in Symbol, Rename(s, t) PROVE Sorts'
  <2>1. /\ body' = [body EXCEPT ![s] = Gone, ![t] = body[s]] /\ s # t
        /\ found' = [k \in Key |-> IF k[2] = t THEN found[<<k[1], s>>]
                                    ELSE IF k[2] = s THEN 0 ELSE found[k]]
    BY <1>3 DEF Rename
  <2>2. body' \in [Symbol -> Shape \union {Gone}]
    BY <2>1 DEF Sorts
  <2>3. \A k \in Key : <<k[1], s>> \in Key
    BY DEF Key
  <2>4. found' \in [Key -> 0 .. MaxFound]
    BY <2>1, <2>3, RatchetAssumption DEF Sorts
  <2>5. \A k \in Key : body'[k[2]] = Gone => found'[k] = 0
    <3> TAKE k \in Key
    <3>1. k[2] \in Symbol
      BY DEF Key
    <3>2. CASE k[2] = t
      <4>1. body'[k[2]] = body[s] /\ found'[k] = found[<<k[1], s>>]
        BY <2>1, <3>1, <3>2 DEF Sorts
      <4> QED
        BY <2>3, <4>1 DEF Sorts
    <3>3. CASE k[2] # t /\ k[2] # s
      BY <2>1, <3>1, <3>3 DEF Sorts
    <3>4. CASE k[2] = s
      BY <2>1, <3>1, <3>4 DEF Sorts
    <3> QED
      BY <3>2, <3>3, <3>4
  <2> QED
    BY <1>3, <2>2, <2>4, <2>5 DEF Rename, disk, Sorts, IsCounts
<1>4. ASSUME Baseline \/ BaselinePrune PROVE Sorts'
  <2>1. IsCounts(target')
    <3>1. CASE Baseline
      BY <3>1, SavesAreCounts DEF Baseline
    <3>2. CASE BaselinePrune
      <4>1. IsCounts(Loaded)
        BY <3>2, AllowedAreCounts DEF BaselinePrune, Allowed
      <4> QED
        BY <3>2, <4>1, SavesAreCounts DEF BaselinePrune
    <3> QED
      BY <1>4, <3>1, <3>2
  <2>2. file' \in Text
    BY <1>4 DEF Baseline, BaselinePrune, Text
  <2>3. blessed' \in [Rule -> Nat]
    BY <1>1, <1>4 DEF Baseline, BaselinePrune, Sorts
  <2> QED
    BY <1>4, <2>1, <2>2, <2>3 DEF Baseline, BaselinePrune, tree, Sorts, IsCounts
<1>5. ASSUME Written PROVE Sorts'
  <2>1. file' \in Text
    BY <1>5, WrittenIsRead DEF Written, Sorts, Text
  <2>2. IsCounts(NoCounts)
    BY DEF IsCounts, NoCounts
  <2> QED
    BY <1>5, <2>1, <2>2 DEF Written, tree, Sorts, IsCounts
<1>6. ASSUME RemoveLegacy PROVE Sorts'
  BY <1>6 DEF RemoveLegacy, tree, Sorts, IsCounts
<1>7. ASSUME Crash PROVE Sorts'
  <2>1. file' \in Text \union {NoFile}
    <3>1. CASE saving = "legacy"
      BY <1>7, <3>1 DEF Crash, Sorts
    <3>2. CASE saving # "legacy"
      <4>1. \E last \in DOMAIN target : \E cut \in CutLines(last) :
              file' = [lines |-> {l \in Lines(target) : Precedes(l.key, last)} \union cut]
        BY <1>7, <3>2 DEF Crash
      <4> QED
        BY <4>1, CutIsLess DEF Text
    <3> QED
      BY <3>1, <3>2
  <2>2. IsCounts(NoCounts)
    BY DEF IsCounts, NoCounts
  <2> QED
    BY <1>7, <2>1, <2>2 DEF Crash, tree, Sorts, IsCounts
<1>8. ASSUME RemoveFile PROVE Sorts'
  <2>1. blessed' \in [Rule -> Nat]
    BY <1>1, <1>8 DEF RemoveFile, Sorts
  <2> QED
    BY <1>8, <2>1 DEF RemoveFile, tree, Sorts, IsCounts
<1>9. ASSUME UnionMerge PROVE Sorts'
  <2>1. file' \in Text /\ IsCounts(Parsed(file'.lines))
    BY <1>9, MergedIsRead
  <2>2. blessed' \in [Rule -> Nat]
    BY <1>1, <1>9, <2>1 DEF UnionMerge
  <2> QED
    BY <1>9, <2>1, <2>2 DEF UnionMerge, tree, Sorts, IsCounts
<1>10. ASSUME UNCHANGED vars PROVE Sorts'
  BY <1>10 DEF vars, Sorts, IsCounts
<1> QED
  BY <1>2, <1>3, <1>4, <1>5, <1>6, <1>7, <1>8, <1>9, <1>10 DEF Next

-----------------------------------------------------------------------------
\* What a file there is, or one that is read, allows.
LEMMA BoundedStep ==
  ASSUME Sorts, Bounded, [Next]_vars
  PROVE  Bounded'
<1>1. Sorts'
  BY SortsStep
<1>2. ASSUME UNCHANGED <<file, legacy, saving, target, blessed>> PROVE Bounded'
  BY <1>2 DEF Bounded, Loadable, Within
<1>3. Within([k \in {} |-> k])' /\ Within(Parsed({}))'
  <2>1. Parsed({}) = [k \in {} |-> k]
    BY DEF Parsed
  <2>2. \A r \in Rule : Allowances([k \in {} |-> k], r) = {}
    BY DEF Allowances
  <2>3. \A r \in Rule : blessed'[r] \in Nat
    BY <1>1 DEF Sorts
  <2>4. \A r \in Rule : Total([k \in {} |-> k], r) = 0
    BY <2>2, FS_EmptySet DEF Total
  <2>5. \A r \in Rule : Total([k \in {} |-> k], r) <= blessed'[r]
    BY <2>3, <2>4
  <2>6. Within([k \in {} |-> k])'
    BY <2>5 DEF Within
  <2> QED
    BY <2>1, <2>6
<1>4. [lines |-> {}] \in Text
  BY DEF Text
<1>5. ASSUME Baseline PROVE Bounded'
  <2>1. IsCounts(Snapshot) /\ \A k \in DOMAIN Snapshot : Snapshot[k].count <= found[k]
    <3>1. \A k \in AllGroups : found[k] \in Nat
      BY RatchetAssumption DEF AllGroups, Groups, Sorts
    <3> QED
      BY <3>1, SavesAreCounts
  <2>2. Within(target)'
    BY <1>5, <2>1, TreeAllowsItself DEF Baseline, Within
  <2> QED
    BY <1>3, <1>4, <1>5, <2>2, SentinelAssumption DEF Baseline, Bounded
<1>6. ASSUME BaselinePrune PROVE Bounded'
  <2>1. Loadable /\ Loaded # NoFile /\ blessed' = blessed /\ target' = Prune(Loaded)
    BY <1>6 DEF BaselinePrune
  <2>2. IsCounts(Loaded)
    BY <2>1, AllowedAreCounts DEF Allowed
  <2>3. Within(Loaded)
    BY <2>1 DEF Bounded, Loaded
  <2>4. \A k \in DOMAIN Prune(Loaded) : Prune(Loaded)[k].count <= Loaded[k].count
    <3>1. \A k \in DOMAIN Loaded \intersect AllGroups : found[k] \in Nat /\ Loaded[k].count \in Nat
      BY <2>2, RatchetAssumption DEF AllGroups, Groups, Sorts, IsCounts, Entry
    <3> TAKE k \in DOMAIN Prune(Loaded)
    <3>2. k \in DOMAIN Loaded \intersect AllGroups
          /\ Prune(Loaded)[k] = [count |-> Lower(Loaded[k].count, found[k]), shape |-> ShapeOf(k)]
      BY <2>2, SavesAreCounts
    <3>3. Prune(Loaded)[k].count = Lower(Loaded[k].count, found[k])
      BY <3>2
    <3> QED
      BY <3>1, <3>2, <3>3 DEF Lower
  <2>5. IsCounts(Prune(Loaded)) /\ DOMAIN Prune(Loaded) \subseteq DOMAIN Loaded
    BY <2>2, SavesAreCounts
  <2>6. ASSUME NEW r \in Rule PROVE Total(Prune(Loaded), r) <= blessed[r]
    <3>1. Total(Prune(Loaded), r) <= Total(Loaded, r)
      BY <2>2, <2>4, <2>5, LessAllowed
    <3>2. Total(Loaded, r) <= blessed[r] /\ blessed[r] \in Nat
      BY <2>3 DEF Within, Sorts
    <3>3. Total(Prune(Loaded), r) \in Nat /\ Total(Loaded, r) \in Nat
      BY <2>2, <2>5, UnitsAreFinite
    <3> QED
      BY <3>1, <3>2, <3>3
  <2>7. Within(target)'
    BY <2>1, <2>6 DEF Within
  <2> QED
    BY <1>3, <1>4, <1>6, <2>7, SentinelAssumption DEF BaselinePrune, Bounded
<1>7. ASSUME Written PROVE Bounded'
  <2>1. IsCounts(target) /\ Within(target) /\ blessed' = blessed
    BY <1>7 DEF Written, Sorts, Bounded
  <2>2. file' = [lines |-> Lines(target)] /\ file' \in Text /\ Parsed(file'.lines) = target
    BY <1>7, <2>1, WrittenIsRead DEF Written, Text
  <2>3. Within(Parsed(file.lines))'
    BY <2>1, <2>2 DEF Within
  <2>4. saving' \notin {"baseline", "prune"}
    BY <1>7 DEF Written
  <2> QED
    BY <2>2, <2>3, <2>4, SentinelAssumption DEF Bounded
<1>8. ASSUME RemoveLegacy PROVE Bounded'
  BY <1>8 DEF RemoveLegacy, tree, Bounded, Loadable, Within
<1>9. ASSUME Crash PROVE Bounded'
  <2>1. CASE saving = "legacy"
    BY <1>9, <2>1 DEF Crash, tree, Bounded, Loadable, Within
  <2>2. CASE saving # "legacy"
    <3>1. \E last \in DOMAIN target : \E cut \in CutLines(last) :
            file' = [lines |-> {l \in Lines(target) : Precedes(l.key, last)} \union cut]
      BY <1>9, <2>2 DEF Crash
    <3>2. file' \in Text
          /\ (CutBefore \notin file'.lines =>
               \A r \in Rule : Total(Parsed(file'.lines), r) <= Total(target, r)
                              /\ IsCounts(Parsed(file'.lines)))
      <4>1. PICK last \in DOMAIN target : \E cut \in CutLines(last) :
              file' = [lines |-> {l \in Lines(target) : Precedes(l.key, last)} \union cut]
        BY <3>1
      <4>2. PICK cut \in CutLines(last) :
              file' = [lines |-> {l \in Lines(target) : Precedes(l.key, last)} \union cut]
        BY <4>1
      <4> DEFINE ls == {l \in Lines(target) : Precedes(l.key, last)} \union cut
      <4>3. file' = [lines |-> ls] /\ file'.lines = ls
        BY <4>2
      <4>4. /\ ls \in SUBSET Line
            /\ CutBefore \notin ls => \A r \in Rule : Total(Parsed(ls), r) <= Total(target, r)
        BY CutIsLess
      <4> HIDE DEF ls
      <4>5. CutBefore \notin ls => IsCounts(Parsed(ls))
        BY <4>4, ParsedAreCounts
      <4> QED
        BY <4>3, <4>4, <4>5 DEF Text
    <3>3. Within(target) /\ IsCounts(target) /\ blessed' = blessed
      BY <1>9, <2>2 DEF Crash, Bounded, Sorts
    <3>4. ASSUME CutBefore \notin file'.lines, NEW r \in Rule
          PROVE  Total(Parsed(file'.lines), r) <= blessed[r]
      <4>1. Total(Parsed(file'.lines), r) <= Total(target, r) /\ Total(target, r) <= blessed[r]
        BY <3>2, <3>3, <3>4 DEF Within
      <4>2. Total(Parsed(file'.lines), r) \in Nat /\ Total(target, r) \in Nat /\ blessed[r] \in Nat
        BY <3>2, <3>3, <3>4, UnitsAreFinite DEF Sorts
      <4> QED
        BY <4>1, <4>2
    <3>5. Loadable' => Within(Parsed(file.lines))'
      BY <3>2, <3>3, <3>4, SentinelAssumption DEF Loadable, Within
    <3> QED
      BY <1>9, <3>2, <3>5, SentinelAssumption DEF Crash, Bounded
  <2> QED
    BY <2>1, <2>2
<1>10. ASSUME RemoveFile PROVE Bounded'
  <2>1. legacy # NoFile => \A r \in Rule : Total(legacy, r) \in Nat
    BY UnitsAreFinite DEF Sorts
  <2>2. legacy # NoFile => Within(legacy)'
    BY <1>10, <2>1 DEF RemoveFile, Within
  <2> QED
    BY <1>10, <2>2 DEF RemoveFile, Bounded
<1>11. ASSUME UnionMerge PROVE Bounded'
  <2>1. file' # NoFile /\ IsCounts(Parsed(file'.lines))
    BY <1>11, MergedIsRead
  <2>2. \A r \in Rule : Total(Parsed(file'.lines), r) \in Nat
    BY <2>1, UnitsAreFinite
  <2>3. Within(Parsed(file.lines))'
    BY <1>11, <2>2 DEF UnionMerge, Within
  <2> QED
    BY <1>11, <2>1, <2>3 DEF UnionMerge, Bounded
<1>12. ASSUME NEW s \in Symbol, NEW t \in Symbol, Edit(s) \/ Rename(s, t) PROVE Bounded'
  BY <1>2, <1>12 DEF Edit, Rename, disk
<1> QED
  BY <1>2, <1>5, <1>6, <1>7, <1>8, <1>9, <1>10, <1>11, <1>12 DEF Next, vars

\* A tree, with or without the baseline of an earlier release.
LEMMA Start == Init => Sorts /\ Bounded
<1> SUFFICES ASSUME Init PROVE Sorts /\ Bounded
  OBVIOUS
<1> DEFINE old == [k \in AllGroups |-> [count |-> found[k], shape |-> NoShape]]
<1>1. /\ body \in [Symbol -> Shape \union {Gone}] /\ found \in [Key -> 0 .. MaxFound]
      /\ \A k \in Key : body[k[2]] = Gone => found[k] = 0
  BY DEF Init
<1>2. AllGroups \subseteq Key
  BY DEF AllGroups, Groups
<1>3. IsCounts(old) /\ \A k \in DOMAIN old : old[k].count <= found[k]
  <2>1. \A k \in AllGroups : found[k] \in 0 .. MaxFound /\ found[k] <= found[k]
    BY <1>1, <1>2, RatchetAssumption
  <2> QED
    BY <1>2, <2>1 DEF IsCounts, Entry
<1>4. IsCounts(NoCounts)
  BY DEF IsCounts, NoCounts
<1>5. legacy = NoFile \/ legacy = old
  BY DEF Init
<1> HIDE DEF old
<1>6. Sorts
  <2>1. blessed = [r \in Rule |-> Debt(r)] /\ target = NoCounts /\ file = NoFile /\ saving = "none"
    BY DEF Init
  <2>2. ASSUME NEW r \in Rule PROVE Debt(r) \in Nat
    <3>1. /\ \A s \in Symbol : found[<<r, s>>] \in 0 .. MaxFound
      BY <1>1 DEF Key
    <3>2. Findings(r) \subseteq Key \X (1 .. MaxFound)
      <4>1. \A s \in Symbol :
              {<<r, s>>} \X (1 .. found[<<r, s>>]) \subseteq Key \X (1 .. MaxFound)
        BY <3>1, RatchetAssumption DEF Key
      <4> QED
        BY <4>1 DEF Findings
    <3>3. IsFiniteSet(1 .. MaxFound)
      BY FS_Interval, RatchetAssumption
    <3>4. IsFiniteSet(Key \X (1 .. MaxFound))
      BY <3>3, KeysAreFinite, FS_Product
    <3>5. IsFiniteSet(Findings(r))
      BY <3>2, <3>4, FS_Subset
    <3> QED
      BY <3>5, FS_CardinalityType DEF Debt
  <2> QED
    BY <1>1, <1>3, <1>4, <1>5, <2>1, <2>2 DEF Sorts
<1>7. Bounded
  <2>1. legacy # NoFile => Within(legacy)
    BY <1>3, <1>5, <1>6, TreeAllowsItself DEF Within, Init
  <2> QED
    BY <2>1 DEF Init, Bounded
<1> QED
  BY <1>6, <1>7

LEMMA Invariance == Spec => [](Sorts /\ Bounded)
<1>1. Sorts /\ Bounded /\ [Next]_vars => (Sorts /\ Bounded)'
  BY SortsStep, BoundedStep
<1> QED
  BY <1>1, Start, PTL DEF Spec

\* ratchet.rs:4-8, "counts only decrease per key": whatever was moved, pruned, merged, half
\* written or crashed since, a tree the full gate passes holds no more findings of a rule
\* than the last `baseline` or merge accepted.
THEOREM DebtOnlyFalls == Spec => []DebtNeverGrows
<1>1. Sorts /\ Bounded => DebtNeverGrows
  <2> SUFFICES ASSUME Sorts, Bounded, NEW o \in Orders, Passes(o), NEW r \in Rule
               PROVE  Debt(r) <= blessed[r]
    BY DEF DebtNeverGrows
  <2>1. Debt(r) <= Total(Allowed, r) /\ Loadable
    BY PassingIsWithin DEF Passes
  <2>2. Debt(r) \in Nat /\ Total(Allowed, r) \in Nat /\ blessed[r] \in Nat
    BY <2>1, AllowedAreCounts, UnitsAreFinite DEF Sorts
  <2>3. Total(Allowed, r) <= blessed[r]
    <3>1. CASE Loaded = NoFile
      <4>1. Allowances(Allowed, r) = {}
        BY <3>1 DEF Allowed, NoCounts, Allowances
      <4> QED
        BY <2>2, <4>1, FS_EmptySet DEF Total
    <3>2. CASE Loaded # NoFile
      BY <2>1, <3>2 DEF Allowed, Loaded, Bounded, Within
    <3> QED
      BY <3>1, <3>2
  <2> QED
    BY <2>1, <2>2, <2>3
<1> QED
  BY <1>1, Invariance, PTL

\* docs/reference.md:133: whichever files changed, the fast gate blocks on nothing the full
\* one would absorb, where entries of one shape agree.
THEOREM FastIsASubset == Spec => []FastReportsSubset
<1>1. Sorts /\ Bounded => FastReportsSubset
  BY FastGateReportsLess
<1> QED
  BY <1>1, Invariance, PTL

-----------------------------------------------------------------------------
\* Each group has an entry of its own: under its name where there is one, else under the
\* name it had, with its shape.
Traces(c, m) ==
  /\ m \in [AllGroups -> DOMAIN c]
  /\ \A k, l \in AllGroups : m[k] = m[l] => k = l
  /\ \A k \in AllGroups :
       /\ m[k][1] = k[1] /\ c[m[k]].shape = ShapeOf(k) /\ found[k] <= c[m[k]].count
       /\ k \in DOMAIN c \/ k[2] \in Module => m[k] = k

Covers(c) == IsCounts(c) /\ \E m : Traces(c, m)

Traced ==
  since = "blessed" =>
    /\ saving \in {"baseline", "prune"} => Covers(target)
    /\ saving \in {"none", "legacy"} =>
         file # NoFile /\ Loadable /\ Covers(Parsed(file.lines))

\* Counts that give each group its own entry cover the tree.
LEMMA OwnEntries ==
  ASSUME Sorts, NEW c, IsCounts(c), AllGroups \subseteq DOMAIN c,
         \A k \in AllGroups : c[k].shape = ShapeOf(k) /\ found[k] <= c[k].count
  PROVE  Covers(c)
<1> DEFINE m == [k \in AllGroups |-> k]
<1>1. Traces(c, m)
  BY DEF Traces
<1> HIDE DEF m
<1> QED
  BY <1>1 DEF Covers

\* In a covered tree the gate is green, where entries of one shape agree.
LEMMA CoveredIsGreen ==
  ASSUME Sorts, NEW c, Covers(c), Uniform(c), NEW o \in Orders, NEW k \in AllGroups
  PROVE  found[k] <= Budget(c, AllGroups, o, k)
<1> DEFINE gs == AllGroups
           F == Free(c, gs, k)
           A == Ahead(c, gs, o, k)
           L == {l \in gs \ DOMAIN c : l[1] = k[1] /\ ShapeOf(l) = ShapeOf(k)}
<1>1. PICK m : Traces(c, m)
  BY DEF Covers
<1>2. IsCounts(c) /\ gs \in SUBSET Key /\ k \in Key /\ found[k] \in Nat
  BY RatchetAssumption DEF Covers, AllGroups, Groups, Sorts
<1>3. CASE k \in DOMAIN c
  <2>1. Budget(c, gs, o, k) = c[k].count
    BY <1>2, <1>3, BudgetOfClaim
  <2>2. found[k] <= c[k].count
    BY <1>1, <1>3 DEF Traces
  <2> QED
    BY <2>1, <2>2
<1>4. CASE k \notin DOMAIN c
  <2>1. ShapeOf(k) # NoShape
    <3>1. k[2] \notin Module
      BY <1>1, <1>4 DEF Traces
    <3>2. body[k[2]] # Gone /\ k[2] \in Symbol
      <4>1. found[k] > 0 /\ k[2] \in Symbol
        BY DEF AllGroups, Groups, Key
      <4> QED
        BY <1>2, <4>1 DEF Sorts
    <3> QED
      BY <3>1, <3>2, RatchetAssumption DEF ShapeOf, Sorts
  <2>2. ASSUME NEW l \in gs \ DOMAIN c PROVE m[l] \in DOMAIN c \ gs
    BY <1>1 DEF Traces
  <2>3. ASSUME NEW l \in L PROVE m[l] \in F
    <3>1. m[l] \in DOMAIN c \ gs
      BY <2>2
    <3>2. m[l][1] = k[1] /\ c[m[l]].shape = ShapeOf(k)
      BY <1>1 DEF Traces
    <3> QED
      BY <2>1, <3>1, <3>2 DEF Free, Matches
  <2>4. IsFiniteSet(F) /\ Cardinality(F) \in Nat /\ IsFiniteSet(A) /\ Cardinality(A) \in Nat
    BY <1>2, FreeIsFinite
  <2>5. IsFiniteSet(L) /\ Cardinality(L) \in Nat
    <3>1. L \in SUBSET Key
      BY <1>2
    <3> QED
      BY <3>1, KeysAreFinite
  <2>6. Cardinality(L) <= Cardinality(F)
    <3> DEFINE f == [l \in L |-> m[l]]
    <3>1. f \in [L -> F]
      BY <2>3
    <3>2. \A g, h \in L : f[g] = f[h] => g = h
      BY <1>1 DEF Traces
    <3> HIDE DEF f, L, F
    <3>3. f \in Injection(L, F)
      BY <3>1, <3>2 DEF Injection, IsInjective
    <3> QED
      BY <2>4, <3>3, FS_Injection
  <2>7. Cardinality(A) < Cardinality(L)
    <3>1. k \in L /\ k \notin A /\ A \subseteq L
      <4>1. k[2] \in Symbol /\ Cardinality(Symbol) \in Nat
        BY <1>2, RatchetAssumption, FS_CardinalityType DEF Key
      <4>2. o[k[2]] \in Nat
        BY <4>1 DEF Orders
      <4> QED
        BY <1>4, <4>2 DEF Ahead
    <3> HIDE DEF A, L
    <3>2. Cardinality(A \union {k}) = Cardinality(A) + 1
      BY <2>4, <3>1, FS_AddElement
    <3>3. Cardinality(A \union {k}) <= Cardinality(L)
      BY <2>5, <3>1, FS_Subset
    <3> QED
      BY <2>4, <2>5, <3>2, <3>3
  <2>8. Cardinality(A) < Cardinality(F)
    <3> HIDE DEF A, F, L
    <3> QED
      BY <2>4, <2>5, <2>6, <2>7
  <2>9. Claimed(c, gs, o, k) # {} /\ Claimed(c, gs, o, k) \subseteq F
    BY <1>2, <2>8, ClaimExists
  <2>10. PICK e \in Claimed(c, gs, o, k) : Budget(c, gs, o, k) = c[e].count
    BY <1>2, <1>4, <2>9, BudgetOfClaim
  <2>11. k \in L
    BY <1>4
  <2>12. m[k] \in F /\ e \in F
    BY <2>3, <2>9, <2>11
  <2>13. c[e].count = c[m[k]].count
    BY <2>12 DEF Free, Matches, Uniform
  <2> QED
    BY <1>1, <2>10, <2>13 DEF Traces
<1> QED
  BY <1>3, <1>4

\* Findings come in some order.
LEMMA SomeOrder == Orders # {}
<1> DEFINE n == Cardinality(Symbol)
<1>1. PICK f : f \in Bijection(1 .. n, Symbol)
  BY RatchetAssumption, FS_CardinalityType DEF ExistsBijection
<1> DEFINE o == [s \in Symbol |-> CHOOSE i \in 1 .. n : f[i] = s]
<1>2. \A s \in Symbol : o[s] \in 1 .. n /\ f[o[s]] = s
  BY <1>1 DEF Bijection, Surjection
<1>3. o \in Orders
  <2> HIDE DEF o
  <2>1. \A s, t \in Symbol : o[s] = o[t] => s = t
    BY <1>2
  <2>2. o \in [Symbol -> 1 .. n]
    <3>1. o = [s \in Symbol |-> o[s]]
      BY DEF o
    <3> QED
      BY <1>2, <3>1
  <2> QED
    BY <2>1, <2>2 DEF Orders
<1> QED
  BY <1>3

\* A rename to a name the counts do not hold leaves the tree covered.
LEMMA RenameCovers ==
  ASSUME Sorts, NEW s \in Symbol, NEW t \in Symbol, Rename(s, t),
         NEW c, Covers(c), \A k \in DOMAIN c : k[2] # t
  PROVE  Covers(c)'
<1>1. PICK m : Traces(c, m)
  BY DEF Covers
<1>2. /\ s # t /\ s \notin Module /\ t \notin Module
      /\ body' = [body EXCEPT ![s] = Gone, ![t] = body[s]]
      /\ found' = [k \in Key |-> IF k[2] = t THEN found[<<k[1], s>>]
                                  ELSE IF k[2] = s THEN 0 ELSE found[k]]
  BY DEF Rename
<1> DEFINE Was(k) == IF k[2] = t THEN <<k[1], s>> ELSE k
           n == [k \in AllGroups' |-> m[Was(k)]]
<1>3. ASSUME NEW k \in AllGroups'
      PROVE  /\ k \in Key /\ k[2] # s /\ Was(k) \in AllGroups
             /\ found'[k] = found[Was(k)] /\ ShapeOf(k)' = ShapeOf(Was(k)) /\ Was(k)[1] = k[1]
  <2>1. k \in Key /\ found'[k] > 0 /\ k[1] \in Rule /\ k[2] \in Symbol
    BY DEF AllGroups, Groups, Key
  <2>2. k[2] # s
    BY <1>2, <2>1
  <2>3. Was(k) \in Key /\ found'[k] = found[Was(k)] /\ Was(k)[1] = k[1]
    BY <1>2, <2>1, <2>2 DEF Key
  <2>4. Was(k) \in AllGroups
    <3>1. Was(k)[1] \in Rule /\ Was(k)[2] \in Symbol
      BY <2>3 DEF Key
    <3> QED
      BY <2>1, <2>3, <3>1, RatchetAssumption DEF AllGroups, Groups
  <2>5. ShapeOf(k)' = ShapeOf(Was(k))
    <3>1. CASE k[2] = t
      BY <1>2, <3>1 DEF ShapeOf, Sorts
    <3>2. CASE k[2] # t
      BY <1>2, <2>1, <2>2, <3>2 DEF ShapeOf, Sorts
    <3> QED
      BY <3>1, <3>2
  <2> QED
    BY <2>1, <2>2, <2>3, <2>4, <2>5
<1>4. ASSUME NEW k \in AllGroups', NEW l \in AllGroups', Was(k) = Was(l)
      PROVE  k = l
  BY <1>3, <1>4 DEF Key
<1> HIDE DEF Was
<1>5. ASSUME NEW k \in AllGroups'
      PROVE  /\ n[k] \in DOMAIN c /\ n[k][1] = k[1] /\ c[n[k]].shape = ShapeOf(k)'
             /\ found'[k] <= c[n[k]].count
             /\ k \in DOMAIN c \/ k[2] \in Module => n[k] = k
  <2>1. n[k] = m[Was(k)] /\ Was(k) \in AllGroups
    BY <1>3
  <2>2. /\ n[k] \in DOMAIN c /\ n[k][1] = k[1] /\ c[n[k]].shape = ShapeOf(k)'
        /\ found'[k] <= c[n[k]].count
    <3>1. /\ m[Was(k)] \in DOMAIN c /\ m[Was(k)][1] = Was(k)[1]
          /\ c[m[Was(k)]].shape = ShapeOf(Was(k)) /\ found[Was(k)] <= c[m[Was(k)]].count
      BY <1>1, <2>1 DEF Traces
    <3> QED
      BY <1>3, <2>1, <3>1
  <2>3. ASSUME k \in DOMAIN c \/ k[2] \in Module PROVE n[k] = k
    <3>1. Was(k) = k
      BY <1>2, <2>3 DEF Was
    <3> QED
      BY <1>1, <2>1, <2>3, <3>1 DEF Traces
  <2> QED
    BY <2>2, <2>3
<1>6. ASSUME NEW k \in AllGroups', NEW l \in AllGroups', n[k] = n[l]
      PROVE  k = l
  <2>1. m[Was(k)] = m[Was(l)] /\ Was(k) \in AllGroups /\ Was(l) \in AllGroups
    BY <1>3, <1>6
  <2>2. Was(k) = Was(l)
    BY <1>1, <2>1 DEF Traces
  <2> QED
    BY <1>4, <2>2
<1>7. n \in [AllGroups' -> DOMAIN c]
  BY <1>5
<1>8. PICK p : p = n
  OBVIOUS
<1>9. Traces(c, p)'
  <2> HIDE DEF n
  <2>1. p \in [AllGroups' -> DOMAIN c]
    BY <1>7, <1>8
  <2>2. \A k, l \in AllGroups' : p[k] = p[l] => k = l
    BY <1>6, <1>8
  <2> QED
    BY <1>5, <1>8, <2>1, <2>2 DEF Traces
<1> QED
  BY <1>9 DEF Covers, IsCounts

\* So does every step that leaves the tree as it is.
LEMMA CoversStays ==
  ASSUME UNCHANGED tree, NEW c, Covers(c)
  PROVE  Covers(c)'
<1>1. PICK m : Traces(c, m)
  BY DEF Covers
<1>2. AllGroups' = AllGroups /\ found' = found /\ \A k : ShapeOf(k)' = ShapeOf(k)
  BY DEF tree, AllGroups, Groups, ShapeOf
<1>3. Traces(c, m)'
  BY <1>1, <1>2 DEF Traces
<1> QED
  BY <1>3 DEF Covers, IsCounts

\* Each step keeps the tree covered or gives up the claim.
LEMMA TracedStep ==
  ASSUME Sorts, Traced, [Next]_vars
  PROVE  Traced'
<1>2. ASSUME Baseline PROVE Traced'
  <2>1. Covers(Snapshot)
    <3>1. \A k \in AllGroups : found[k] \in Nat /\ found[k] <= found[k]
      BY RatchetAssumption DEF AllGroups, Groups, Sorts
    <3> QED
      BY <3>1, SavesAreCounts, OwnEntries
  <2>2. Covers(target)'
    <3>1. target' = Snapshot /\ UNCHANGED tree
      BY <1>2 DEF Baseline
    <3>2. \A c : c = Snapshot => Covers(c)'
      BY <2>1, <3>1, CoversStays
    <3> QED
      BY <3>1, <3>2 DEF Covers, Traces, IsCounts
  <2> QED
    BY <1>2, <2>2 DEF Baseline, Traced
<1>3. ASSUME BaselinePrune PROVE Traced'
  <2> SUFFICES ASSUME since' = "blessed" PROVE Covers(target)'
    BY <1>3 DEF BaselinePrune, Traced
  <2> DEFINE c == Prune(Loaded)
  <2>1. /\ Green /\ AllGroups \subseteq DOMAIN Loaded /\ Loadable /\ Loaded # NoFile
        /\ UNCHANGED tree /\ target' = c
    BY <1>3 DEF BaselinePrune
  <2>2. Allowed = Loaded /\ IsCounts(Loaded)
    BY <2>1, AllowedAreCounts DEF Allowed
  <2>3. PICK o \in Orders : Passes(o)
    BY <2>1, SomeOrder DEF Green
  <2>4. ASSUME NEW k \in AllGroups
        PROVE  /\ found[k] \in Nat /\ Loaded[k].count \in Nat /\ found[k] <= Loaded[k].count
    <3>1. k \in Key /\ k \in DOMAIN Loaded /\ AllGroups \in SUBSET Key
      BY <2>1 DEF AllGroups, Groups
    <3>2. ~(Excess(Allowed, AllGroups, o, k) > 0)
      BY <2>3 DEF Passes, Blocked
    <3>3. ~(Budget(Loaded, AllGroups, o, k) < found[k])
      BY <2>2, <3>1, <3>2, ExcessIsOver
    <3>4. Budget(Loaded, AllGroups, o, k) = Loaded[k].count /\ Loaded[k].count \in Nat
      <4>1. /\ Budget(Loaded, AllGroups, o, k) \in Nat
            /\ k \in DOMAIN Loaded => Budget(Loaded, AllGroups, o, k) = Loaded[k].count
        BY <2>2, <3>1, BudgetOfClaim
      <4> QED
        BY <3>1, <4>1
    <3>5. found[k] \in Nat
      BY <3>1, RatchetAssumption DEF Sorts
    <3> QED
      BY <3>3, <3>4, <3>5
  <2>5. IsCounts(c) /\ DOMAIN c = AllGroups
    BY <2>1, <2>2, SavesAreCounts
  <2>6. ASSUME NEW k \in AllGroups
        PROVE  c[k].shape = ShapeOf(k) /\ found[k] <= c[k].count
    <3>1. c[k] = [count |-> Lower(Loaded[k].count, found[k]), shape |-> ShapeOf(k)]
      BY <2>2, <2>5, SavesAreCounts
    <3>2. c[k].shape = ShapeOf(k) /\ c[k].count = Lower(Loaded[k].count, found[k])
      BY <3>1
    <3> QED
      BY <2>4, <3>2 DEF Lower
  <2> HIDE DEF c
  <2>7. Covers(c)
    BY <2>5, <2>6, OwnEntries
  <2>8. \A d : d = c => Covers(d)'
    BY <2>1, <2>7, CoversStays
  <2> QED
    BY <2>1, <2>8 DEF Covers, Traces, IsCounts
<1>4. ASSUME Written PROVE Traced'
  <2> SUFFICES ASSUME since' = "blessed" PROVE file' # NoFile /\ Loadable' /\ Covers(Parsed(file.lines))'
    BY <1>4 DEF Written, Traced
  <2>1. IsCounts(target) /\ Covers(target) /\ UNCHANGED tree /\ file' = [lines |-> Lines(target)]
    BY <1>4 DEF Written, Traced, Sorts
  <2>2. file'.lines = Lines(target) /\ file' \in Text /\ CutBefore \notin file'.lines
        /\ Parsed(file'.lines) = target
    BY <2>1, WrittenIsRead DEF Text
  <2>3. Covers(Parsed(file.lines))'
    <3>1. \A c : c = target => Covers(c)'
      BY <2>1, CoversStays
    <3> QED
      BY <2>2, <3>1 DEF Covers, Traces, IsCounts
  <2> QED
    BY <2>2, <2>3, SentinelAssumption DEF Loadable
<1>5. ASSUME NEW s \in Symbol, NEW t \in Symbol, Rename(s, t) PROVE Traced'
  <2> SUFFICES ASSUME since' = "blessed" PROVE Traced'
    BY DEF Traced
  <2>1. since = "blessed" /\ t \notin Held /\ UNCHANGED <<file, legacy, saving, target>>
    BY <1>5 DEF Rename, disk
  <2>2. ASSUME saving \in {"baseline", "prune"} PROVE Covers(target)'
    <3>1. Covers(target) /\ \A k \in DOMAIN target : k[2] # t
      BY <2>1, <2>2 DEF Traced, Held
    <3>2. \A c : c = target => Covers(c)'
      BY <1>5, <3>1, RenameCovers
    <3> QED
      BY <2>1, <3>2 DEF Covers, Traces, IsCounts
  <2>3. ASSUME saving \in {"none", "legacy"}
        PROVE  file' # NoFile /\ Loadable' /\ Covers(Parsed(file.lines))'
    <3>1. file # NoFile /\ Loadable /\ Covers(Parsed(file.lines))
      BY <2>1, <2>3 DEF Traced
    <3>2. \A k \in DOMAIN Parsed(file.lines) : k[2] # t
      <4>1. Allowed = Parsed(file.lines) \/ Parsed(file.lines) = NoFile
        BY <3>1 DEF Allowed, Loaded
      <4>2. Parsed(file.lines) # NoFile
        BY <3>1, SentinelAssumption DEF Covers, IsCounts
      <4> QED
        BY <2>1, <3>1, <4>1, <4>2 DEF Held
    <3>3. \A c : c = Parsed(file.lines) => Covers(c)'
      BY <1>5, <3>1, <3>2, RenameCovers
    <3> QED
      BY <2>1, <3>1, <3>3 DEF Loadable, Covers, Traces, IsCounts
  <2> QED
    BY <2>1, <2>2, <2>3 DEF Traced
<1>6. ASSUME RemoveLegacy \/ Crash PROVE Traced'
  <2> SUFFICES ASSUME since' = "blessed" PROVE Traced'
    BY DEF Traced
  <2>1. since = "blessed" /\ saving = "legacy" /\ saving' = "none" /\ file' = file /\ UNCHANGED tree
    BY <1>6 DEF RemoveLegacy, Crash
  <2>2. file # NoFile /\ Loadable /\ Covers(Parsed(file.lines))
    BY <2>1 DEF Traced
  <2>3. \A c : c = Parsed(file.lines) => Covers(c)'
    BY <2>1, <2>2, CoversStays
  <2>4. Covers(Parsed(file.lines))'
    BY <2>1, <2>3 DEF Covers, Traces, IsCounts
  <2> QED
    BY <2>1, <2>2, <2>4 DEF Traced, Loadable
<1>7. ASSUME RemoveFile \/ UnionMerge \/ \E s \in Symbol : Edit(s) PROVE Traced'
  BY <1>7 DEF RemoveFile, UnionMerge, Edit, Traced
<1>8. ASSUME UNCHANGED vars PROVE Traced'
  <2>1. UNCHANGED <<tree, file, saving, target, since>>
    BY <1>8 DEF vars, tree
  <2>2. ASSUME Covers(target) PROVE Covers(target)'
    <3>1. \A c : c = target => Covers(c)'
      BY <2>1, <2>2, CoversStays
    <3> QED
      BY <2>1, <3>1 DEF Covers, Traces, IsCounts
  <2>3. ASSUME Covers(Parsed(file.lines)) PROVE Covers(Parsed(file.lines))'
    <3>1. \A c : c = Parsed(file.lines) => Covers(c)'
      BY <2>1, <2>3, CoversStays
    <3> QED
      BY <2>1, <3>1 DEF Covers, Traces, IsCounts
  <2> QED
    BY <2>1, <2>2, <2>3 DEF Traced, Loadable
<1> QED
  BY <1>2, <1>3, <1>4, <1>5, <1>6, <1>7, <1>8 DEF Next

\* ratchet.rs:4-8, "the ratchet blocks what a change adds and not what it moves": symbols
\* renamed since a `baseline`, or a `--prune` with each finding under its own key, leave
\* every gate green, in any order of the findings.
THEOREM MovesCostNothing == Spec => []MovesAreFree
<1>1. Init => Traced
  BY DEF Init, Traced
<1>2. Sorts /\ Traced => MovesAreFree
  <2> SUFFICES ASSUME Sorts, Traced, since = "blessed", Described, Uniform(Allowed), NEW o \in Orders
               PROVE  Passes(o)
    BY DEF MovesAreFree, Green
  <2>1. file # NoFile /\ Loadable /\ Covers(Parsed(file.lines))
    BY DEF Described, Traced
  <2>2. Allowed = Parsed(file.lines)
    BY <2>1, SentinelAssumption DEF Allowed, Loaded, Covers, IsCounts
  <2>3. AllGroups \in SUBSET Key /\ IsCounts(Allowed)
    BY <2>1, AllowedAreCounts DEF AllGroups, Groups
  <2>4. ASSUME NEW k \in AllGroups PROVE ~(Excess(Allowed, AllGroups, o, k) > 0)
    <3>1. found[k] <= Budget(Allowed, AllGroups, o, k)
      BY <2>1, <2>2, CoveredIsGreen
    <3>2. k \in Key /\ found[k] \in Nat /\ Budget(Allowed, AllGroups, o, k) \in Nat
      BY <2>3, ExcessIsOver, BudgetOfClaim
    <3>3. ~(Budget(Allowed, AllGroups, o, k) < found[k])
      BY <3>1, <3>2
    <3> QED
      BY <2>3, <3>2, <3>3, ExcessIsOver
  <2> QED
    BY <2>1, <2>4 DEF Passes, Blocked
<1> QED
  BY <1>1, <1>2, TracedStep, Invariance, PTL DEF Spec
=============================================================================
