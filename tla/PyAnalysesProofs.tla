-------------------------- MODULE PyAnalysesProofs --------------------------
(***************************************************************************)
(* What the Python analyses conclude.  First the walks along a table that  *)
(* all of them take; then the condensation of a call graph and what effects*)
(* and heat make of it, for every graph, every set of hot roots and every  *)
(* receiver; then the audit's verdicts on a program's calls, for every     *)
(* hierarchy, every set of functions, marks and call sites.                *)
(***************************************************************************)
EXTENDS PyCalls, Condensation, FiniteSetTheorems, SequenceTheorems, WellFoundedInduction, TLAPS

-----------------------------------------------------------------------------
(* Steps taken n times, and what a walk sees. *)

\* A set with 0 and the successor of each of its members has every number.
LEMMA Inductive ==
  ASSUME NEW S, 0 \in S, \A n \in S \cap Nat : n + 1 \in S
  PROVE  Nat \subseteq S
<1> SUFFICES ASSUME Nat \ S # {} PROVE FALSE
  OBVIOUS
<1>1. PICK least \in Nat \ S : \A m \in Nat \ S : ~(<<m, least>> \in OpToRel(<, Nat))
  BY NatLessThanWellFounded, WFMin
<1>2. \A m \in Nat : m < least => m \in S
  BY <1>1 DEF OpToRel
<1>3. least # 0 /\ least - 1 \in Nat /\ least - 1 < least /\ (least - 1) + 1 = least
  OBVIOUS
<1> QED
  BY <1>1, <1>2, <1>3

\* g lists the first n steps from x.
Runs(step, x, n, g) == g = [k \in 0 .. n |-> IF k = 0 THEN x ELSE step[g[k - 1]]]

LEMMA RunExists ==
  ASSUME NEW step, NEW x, NEW n \in Nat
  PROVE  \E g : Runs(step, x, n, g)
<1> DEFINE S == {m \in Nat : \E g : Runs(step, x, m, g)}
<1>1. 0 \in S
  <2> DEFINE g == [k \in 0 .. 0 |-> x]
  <2>1. Runs(step, x, 0, g)
    BY DEF Runs
  <2> QED
    BY <2>1
<1>2. ASSUME NEW m \in Nat, m \in S
      PROVE  m + 1 \in S
  <2>1. PICK g : Runs(step, x, m, g)
    BY <1>2
  <2> DEFINE h == [k \in 0 .. m + 1 |-> IF k = m + 1 THEN step[g[m]] ELSE g[k]]
  <2>2. ASSUME NEW k \in 0 .. m + 1
        PROVE  h[k] = IF k = 0 THEN x ELSE step[h[k - 1]]
    <3>1. CASE k = m + 1
      <4>1. h[k] = step[g[m]] /\ k # 0 /\ k - 1 = m /\ m \in 0 .. m + 1 /\ m # m + 1
        BY <3>1
      <4>2. h[m] = g[m]
        BY <4>1
      <4> QED
        BY <4>1, <4>2
    <3>2. CASE k # m + 1 /\ k # 0
      <4>1. k \in 0 .. m /\ k - 1 \in 0 .. m /\ k - 1 \in 0 .. m + 1 /\ k - 1 # m + 1
        BY <3>2
      <4>2. h[k] = g[k] /\ h[k - 1] = g[k - 1]
        BY <3>2, <4>1
      <4>3. g[k] = step[g[k - 1]]
        BY <2>1, <3>2, <4>1 DEF Runs
      <4> QED
        BY <3>2, <4>2, <4>3
    <3>3. CASE k = 0
      <4>1. h[k] = g[0] /\ 0 \in 0 .. m
        BY <3>3
      <4>2. g[0] = x
        BY <2>1, <4>1 DEF Runs
      <4> QED
        BY <3>3, <4>1, <4>2
    <3> QED
      BY <3>1, <3>2, <3>3
  <2>3. h = [k \in 0 .. m + 1 |-> h[k]]
    OBVIOUS
  <2> HIDE DEF h
  <2>4. Runs(step, x, m + 1, h)
    BY <2>2, <2>3 DEF Runs
  <2> QED
    BY <2>4
<1> HIDE DEF S
<1>3. n \in S
  BY <1>1, <1>2, Inductive
<1> QED
  BY <1>3 DEF S

\* Two of them agree as far as both go.
LEMMA RunsAgree ==
  ASSUME NEW step, NEW x, NEW m \in Nat, NEW n \in Nat, NEW g, NEW h,
         Runs(step, x, m, g), Runs(step, x, n, h),
         NEW k \in Nat, k <= m, k <= n
  PROVE  g[k] = h[k]
<1> DEFINE S == {i \in Nat : i <= m /\ i <= n => g[i] = h[i]}
<1>1. 0 \in S
  BY DEF Runs
<1>2. ASSUME NEW i \in Nat, i \in S
      PROVE  i + 1 \in S
  <2> SUFFICES ASSUME i + 1 <= m, i + 1 <= n PROVE g[i + 1] = h[i + 1]
    OBVIOUS
  <2>1. i <= m /\ i <= n /\ i + 1 \in 0 .. m /\ i + 1 \in 0 .. n /\ i + 1 # 0 /\ (i + 1) - 1 = i
    OBVIOUS
  <2>2. g[i] = h[i]
    BY <1>2, <2>1
  <2>3. g[i + 1] = step[g[i]]
    BY <2>1 DEF Runs
  <2>4. h[i + 1] = step[h[i]]
    BY <2>1 DEF Runs
  <2> QED
    BY <2>2, <2>3, <2>4
<1> HIDE DEF S
<1>3. k \in S
  BY <1>1, <1>2, Inductive
<1> QED
  BY <1>3 DEF S

Run(step, x, n) == CHOOSE g : Runs(step, x, n, g)

\* Iterate is the n-th of them.
LEMMA Iterated ==
  ASSUME NEW step, NEW x
  PROVE  /\ Iterate(step, x, 0) = x
         /\ \A n \in Nat : Iterate(step, x, n + 1) = step[Iterate(step, x, n)]
<1>1. ASSUME NEW n \in Nat
      PROVE  Runs(step, x, n, Run(step, x, n))
  <2>1. \E g : Runs(step, x, n, g)
    BY RunExists
  <2> QED
    BY <2>1, Zenon DEF Run
<1>2. ASSUME NEW n \in Nat
      PROVE  Iterate(step, x, n) = Run(step, x, n)[n]
  BY DEF Iterate, Run, Runs
<1>3. Iterate(step, x, 0) = x
  <2>1. Iterate(step, x, 0) = Run(step, x, 0)[0] /\ Runs(step, x, 0, Run(step, x, 0))
    BY <1>1, <1>2
  <2> QED
    BY <2>1 DEF Runs
<1>4. ASSUME NEW n \in Nat
      PROVE  Iterate(step, x, n + 1) = step[Iterate(step, x, n)]
  <2>1. PICK next \in Nat : next = n + 1
    OBVIOUS
  <2> DEFINE g == Run(step, x, n)
             h == Run(step, x, next)
  <2>2. /\ Runs(step, x, n, g) /\ Iterate(step, x, n) = g[n]
        /\ Runs(step, x, next, h) /\ Iterate(step, x, next) = h[next]
    BY <1>1, <1>2
  <2> HIDE DEF g, h
  <2>3. g[n] = h[n]
    <3>1. n <= n /\ n <= next
      BY <2>1
    <3> QED
      BY <2>2, <3>1, RunsAgree
  <2>4. h[next] = step[h[n]]
    <3>1. next \in 0 .. next /\ next # 0 /\ next - 1 = n
      BY <2>1
    <3> QED
      BY <2>2, <3>1 DEF Runs
  <2> QED
    BY <2>1, <2>2, <2>3, <2>4
<1> QED
  BY <1>3, <1>4

\* A closure is the least set that holds where the walk starts and what follows each member.
LEMMA ClosureIsLeast ==
  ASSUME NEW D, IsFiniteSet(D), NEW next \in [D -> SUBSET D], NEW from \in SUBSET D
  PROVE  /\ Closure(next, from) \in SUBSET D
         /\ from \subseteq Closure(next, from)
         /\ \A c \in Closure(next, from) : next[c] \subseteq Closure(next, from)
         /\ \A T : from \subseteq T /\ (\A c \in T \cap D : next[c] \subseteq T)
                     => Closure(next, from) \subseteq T
<1> DEFINE step == [seen \in SUBSET D |-> seen \cup UNION {next[c] : c \in seen}]
           G(n) == Iterate(step, from, n)
<1>1. Closure(next, from) = G(Cardinality(D))
  <2>1. DOMAIN next = D
    OBVIOUS
  <2> QED
    BY <2>1 DEF Closure
<1>2. G(0) = from /\ \A n \in Nat : G(n + 1) = step[G(n)]
  BY Iterated
<1>3. \A seen \in SUBSET D :
        /\ step[seen] = seen \cup UNION {next[c] : c \in seen}
        /\ step[seen] \in SUBSET D
        /\ \A c \in seen : next[c] \subseteq step[seen]
  OBVIOUS
<1> HIDE DEF G
<1>4. \A n \in Nat : G(n) \in SUBSET D
  <2> DEFINE S == {n \in Nat : G(n) \in SUBSET D}
  <2>1. 0 \in S
    BY <1>2
  <2>2. ASSUME NEW n \in S \cap Nat
        PROVE  n + 1 \in S
    <3>1. G(n + 1) = step[G(n)] /\ G(n) \in SUBSET D /\ n + 1 \in Nat
      <4>1. n \in Nat /\ n + 1 \in Nat /\ G(n) \in SUBSET D
        OBVIOUS
      <4> HIDE DEF step
      <4> QED
        BY <1>2, <4>1
    <3>2. step[G(n)] \in SUBSET D
      <4>1. \A seen \in SUBSET D : step[seen] \in SUBSET D
        BY <1>3
      <4> HIDE DEF step
      <4> QED
        BY <3>1, <4>1
    <3> QED
      BY <3>1, <3>2
  <2>3. Nat \subseteq S
    <3> HIDE DEF S
    <3> QED
      BY <2>1, <2>2, Inductive
  <2> QED
    BY <2>3
<1> HIDE DEF step
<1>5. ASSUME NEW n \in Nat
      PROVE  G(n) \subseteq G(n + 1) /\ \A c \in G(n) : next[c] \subseteq G(n + 1)
  <2>1. G(n) \in SUBSET D
    BY <1>4
  <2>2. G(n) \subseteq step[G(n)] /\ \A c \in G(n) : next[c] \subseteq step[G(n)]
    BY <1>3, <2>1
  <2>3. G(n + 1) = step[G(n)]
    BY <1>2
  <2> QED
    BY <2>2, <2>3
<1>6. \A n \in Nat : from \subseteq G(n)
  <2> DEFINE S == {n \in Nat : from \subseteq G(n)}
  <2>1. 0 \in S
    BY <1>2
  <2>2. \A n \in S \cap Nat : n + 1 \in S
    BY <1>5
  <2>3. Nat \subseteq S
    <3> HIDE DEF S
    <3> QED
      BY <2>1, <2>2, Inductive
  <2> QED
    BY <2>3
<1>7. ASSUME NEW T, from \subseteq T, \A c \in T \cap D : next[c] \subseteq T
      PROVE  \A n \in Nat : G(n) \subseteq T
  <2> DEFINE S == {n \in Nat : G(n) \subseteq T}
  <2>1. 0 \in S
    BY <1>2, <1>7
  <2>2. ASSUME NEW n \in S \cap Nat
        PROVE  n + 1 \in S
    <3>1. G(n + 1) = G(n) \cup UNION {next[c] : c \in G(n)}
      BY <1>2, <1>3, <1>4
    <3>2. \A c \in G(n) : next[c] \subseteq T
      BY <1>4, <1>7
    <3> QED
      BY <3>1, <3>2
  <2>3. Nat \subseteq S
    <3> HIDE DEF S
    <3> QED
      BY <2>1, <2>2, Inductive
  <2> QED
    BY <2>3
\* It has stopped growing after as many steps as D has members.
<1>8. \A n \in Nat : IsFiniteSet(G(n)) /\ Cardinality(G(n)) \in Nat
                       /\ Cardinality(G(n)) <= Cardinality(D)
  BY <1>4, FS_Subset, FS_CardinalityType
<1>9. ASSUME NEW n \in Nat, G(n) # G(n + 1)
      PROVE  Cardinality(G(n + 1)) >= Cardinality(G(n)) + 1
  <2>1. PICK m \in Nat : m = n + 1
    OBVIOUS
  <2>2. PICK c \in G(m) : c \notin G(n)
    BY <1>5, <1>9, <2>1
  <2>3. G(n) \cup {c} \subseteq G(m)
    BY <1>5, <2>1, <2>2
  <2>4. Cardinality(G(n) \cup {c}) = Cardinality(G(n)) + 1
    BY <1>8, <2>2, FS_AddElement
  <2>5. Cardinality(G(n) \cup {c}) <= Cardinality(G(m))
    BY <1>8, <2>3, FS_Subset
  <2>6. Cardinality(G(n)) \in Nat /\ Cardinality(G(m)) \in Nat
    BY <1>8
  <2> QED
    BY <2>1, <2>4, <2>5, <2>6
<1>10. \A n \in Nat : G(n) = G(n + 1) \/ Cardinality(G(n + 1)) >= n + 1
  <2> DEFINE S == {n \in Nat : G(n) = G(n + 1) \/ Cardinality(G(n + 1)) >= n + 1}
  <2>1. 0 \in S
    <3>1. CASE G(0) # G(1)
      <4>1. Cardinality(G(1)) >= Cardinality(G(0)) + 1
        BY <1>9, <3>1
      <4>2. Cardinality(G(0)) \in Nat /\ Cardinality(G(1)) \in Nat
        BY <1>8
      <4> QED
        BY <4>1, <4>2
    <3> QED
      BY <3>1
  <2>2. ASSUME NEW n \in S \cap Nat
        PROVE  n + 1 \in S
    <3>1. PICK m \in Nat : m = n + 1
      OBVIOUS
    <3>2. CASE G(n) = G(m)
      <4>1. G(m + 1) = step[G(m)] /\ G(m) = step[G(n)]
        BY <1>2, <3>1
      <4> QED
        BY <3>1, <3>2, <4>1
    <3>3. CASE G(n) # G(m) /\ G(m) # G(m + 1)
      <4>1. Cardinality(G(m)) >= m
        BY <3>1, <3>3
      <4>2. Cardinality(G(m + 1)) >= Cardinality(G(m)) + 1
        BY <1>9, <3>3
      <4>3. Cardinality(G(m)) \in Nat /\ Cardinality(G(m + 1)) \in Nat
        BY <1>8
      <4>4. Cardinality(G(m + 1)) >= m + 1
        BY <4>1, <4>2, <4>3
      <4> QED
        BY <3>1, <4>4
    <3> QED
      BY <3>1, <3>2, <3>3
  <2>3. Nat \subseteq S
    <3> HIDE DEF S
    <3> QED
      BY <2>1, <2>2, Inductive
  <2> QED
    BY <2>3
<1>11. PICK size \in Nat : size = Cardinality(D)
  BY FS_CardinalityType
<1>12. G(size) = G(size + 1)
  <2>1. size + 1 \in Nat
    OBVIOUS
  <2>2. Cardinality(G(size + 1)) \in Nat /\ Cardinality(G(size + 1)) <= size
    BY <1>8, <1>11, <2>1
  <2>3. ~ (Cardinality(G(size + 1)) >= size + 1)
    BY <2>2
  <2> QED
    BY <1>10, <2>3
<1>13. Closure(next, from) = G(size)
  BY <1>1, <1>11
<1>14. \A c \in G(size) : next[c] \subseteq G(size)
  BY <1>5, <1>12
<1> QED
  BY <1>4, <1>6, <1>7, <1>13, <1>14

-----------------------------------------------------------------------------
(* The component search of core/src/graph.rs. *)

\* What a node reaches.
From(n) == Reached({n})

Placed(n) == \E ci \in 1 .. Len(comps) : n \in Members(ci)

\* The search numbers the nodes it meets, and keeps the ones it has not placed yet on a
\* stack in the order of their numbers.
Mapped ==
  /\ edges \in SUBSET (Nodes \X Nodes)
  /\ Indexed \subseteq Nodes
  /\ index \in [Indexed -> Nat]
  /\ stack \in Seq(Indexed)
  /\ comps \in Seq(Seq(Nodes))

Numbered ==
  /\ \A n \in Indexed : index[n] < Cardinality(Indexed)
  /\ \A n, m \in Indexed : index[n] = index[m] => n = m

Stacked == \A i, j \in 1 .. Len(stack) : i < j => index[stack[i]] < index[stack[j]]

\* Each node met is on the stack or in one component.
Shared ==
  /\ \A n \in Indexed : n \in Range(stack) <=> ~ Placed(n)
  /\ \A ci \in 1 .. Len(comps) : Members(ci) \subseteq Indexed
  /\ \A ci, cj \in 1 .. Len(comps) : ci = cj \/ Members(ci) \cap Members(cj) = {}

\* A component's members reach each other, and it is left only for earlier ones.
Mutual ==
  \A ci \in 1 .. Len(comps) : \A n \in Members(ci) :
    /\ \A m \in Members(ci) : m \in From(n)
    /\ \A m \in Neighbours(n) : \E cj \in 1 .. ci : m \in Members(cj)

\* The frames at work are of nodes on the stack, in its order.
Framed(frames) ==
  /\ frames \in Seq(Indexed \X SUBSET Nodes)
  /\ \A i \in 1 .. Len(frames) :
       frames[i][1] \in Range(stack) /\ frames[i][2] \subseteq Neighbours(frames[i][1])
  /\ \A i, j \in 1 .. Len(frames) : i < j => index[frames[i][1]] < index[frames[j][1]]

\* A node on the stack reaches those above it, and a frame at or below it.
Chained(frames) ==
  /\ \A n, m \in Range(stack) : index[n] <= index[m] => m \in From(n)
  /\ \A n \in Range(stack) : \E i \in 1 .. Len(frames) :
       index[frames[i][1]] <= index[n] /\ frames[i][1] \in From(n)

\* A lowlink is the number of a node on the stack that is reached, and is no larger than
\* that of any node on the stack that an edge read under the frame leads to.
Lowlinks(lows, frames) ==
  /\ lows \in [Indexed -> Nat]
  /\ \A n \in Range(stack) :
       /\ lows[n] <= index[n]
       /\ \E m \in Range(stack) : lows[n] = index[m] /\ m \in From(n)
  /\ \A i \in 1 .. Len(frames) : \A n \in Range(stack) :
       /\ index[frames[i][1]] <= index[n]
       /\ i < Len(frames) => index[n] < index[frames[i + 1][1]]
       => \A m \in Neighbours(n) \cap Range(stack) :
            (n = frames[i][1] /\ m \in frames[i][2]) \/ lows[frames[i][1]] <= index[m]

\* An edge of a node met leads to a node met, unless a frame is still to read it, or it is
\* the edge to the next node.
ReadOut(frames, next) ==
  \A n \in Indexed : \A m \in Neighbours(n) :
    \/ m \in Indexed \cup next
    \/ \E i \in 1 .. Len(frames) : frames[i][1] = n /\ m \in frames[i][2]

Met == Mapped /\ Numbered /\ Stacked /\ Shared /\ Mutual
Held(lows, frames) == Framed(frames) /\ Chained(frames) /\ Lowlinks(lows, frames)
Searching == Met /\ Held(low, work) /\ ReadOut(work, {})

-----------------------------------------------------------------------------
\* What is reached from some nodes is the least set that has them and is closed.
LEMMA ReachedIs ==
  ASSUME edges \in SUBSET (Nodes \X Nodes), NEW from \in SUBSET Nodes
  PROVE  /\ Reached(from) \in SUBSET Nodes /\ from \subseteq Reached(from)
         /\ \A n \in Reached(from) : Neighbours(n) \subseteq Reached(from)
         /\ \A T : from \subseteq T /\ (\A n \in T \cap Nodes : Neighbours(n) \subseteq T)
                     => Reached(from) \subseteq T
<1> DEFINE next == [n \in Nodes |-> Neighbours(n)]
<1>1. next \in [Nodes -> SUBSET Nodes] /\ IsFiniteSet(Nodes)
  BY NodesAreNumbers DEF Neighbours
<1>2. Reached(from) = Closure(next, from)
  BY DEF Reached
<1>3. \A n \in Nodes : next[n] = Neighbours(n)
  OBVIOUS
<1> HIDE DEF next
<1>4. /\ Closure(next, from) \in SUBSET Nodes /\ from \subseteq Closure(next, from)
      /\ \A c \in Closure(next, from) : next[c] \subseteq Closure(next, from)
      /\ \A T : from \subseteq T /\ (\A c \in T \cap Nodes : next[c] \subseteq T)
                  => Closure(next, from) \subseteq T
  BY <1>1, ClosureIsLeast
<1>5. ASSUME NEW T, from \subseteq T, \A n \in T \cap Nodes : Neighbours(n) \subseteq T
      PROVE  Reached(from) \subseteq T
  <2>1. \A c \in T \cap Nodes : next[c] \subseteq T
    BY <1>3, <1>5
  <2> QED
    BY <1>2, <1>4, <1>5, <2>1
<1>6. \A n \in Reached(from) : Neighbours(n) \subseteq Reached(from)
  BY <1>2, <1>3, <1>4
<1> QED
  BY <1>2, <1>4, <1>5, <1>6

LEMMA FromIs ==
  ASSUME edges \in SUBSET (Nodes \X Nodes), NEW n \in Nodes
  PROVE  /\ From(n) \in SUBSET Nodes /\ n \in From(n)
         /\ \A m \in From(n) : Neighbours(m) \subseteq From(n)
         /\ \A m \in From(n) : From(m) \subseteq From(n)
<1>1. /\ From(n) \in SUBSET Nodes /\ n \in From(n)
      /\ \A m \in From(n) : Neighbours(m) \subseteq From(n)
  BY ReachedIs DEF From
<1>2. ASSUME NEW m \in From(n) PROVE From(m) \subseteq From(n)
  <2>1. {m} \in SUBSET Nodes /\ {m} \subseteq From(n)
    BY <1>1
  <2> QED
    BY <1>1, <2>1, ReachedIs DEF From
<1> QED
  BY <1>1, <1>2

\* The least of some numbers.
LEMMA MinIs ==
  ASSUME NEW S \in SUBSET Nat, S # {}
  PROVE  Min(S) \in S /\ \A n \in S : Min(S) <= n
<1>1. PICK n \in S : \A m \in S : ~(<<m, n>> \in OpToRel(<, Nat))
  BY NatLessThanWellFounded, WFMin
<1>2. ASSUME NEW m \in S PROVE n <= m
  <2>1. n \in Nat /\ m \in Nat /\ ~ (<<m, n>> \in OpToRel(<, Nat))
    BY <1>1
  <2> QED
    BY <2>1 DEF OpToRel
<1>3. Min(S) = CHOOSE i \in S : \A j \in S : i <= j
  BY DEF Min
<1> QED
  BY <1>2, <1>3

\* What a longer sequence holds.
LEMMA RangeOfAppend ==
  ASSUME NEW S, NEW s \in Seq(S), NEW e
  PROVE  Range(Append(s, e)) = Range(s) \cup {e}
<1>1. /\ Len(Append(s, e)) = Len(s) + 1 /\ Len(s) \in Nat
      /\ \A i \in 1 .. Len(s) : Append(s, e)[i] = s[i]
      /\ Append(s, e)[Len(s) + 1] = e
  OBVIOUS
<1>2. DOMAIN s = 1 .. Len(s) /\ DOMAIN Append(s, e) = 1 .. Len(s) + 1
  <2>1. Append(s, e) \in Seq(S \cup {e})
    OBVIOUS
  <2> QED
    BY <1>1, <2>1
<1>3. ASSUME NEW x \in Range(Append(s, e)) PROVE x \in Range(s) \cup {e}
  <2>1. PICK i \in 1 .. Len(s) + 1 : x = Append(s, e)[i]
    BY <1>2 DEF Range
  <2>2. i \in 1 .. Len(s) \/ i = Len(s) + 1
    BY <1>1
  <2> QED
    BY <1>1, <1>2, <2>1, <2>2 DEF Range
<1>4. ASSUME NEW x \in Range(s) \cup {e} PROVE x \in Range(Append(s, e))
  <2>1. CASE x = e
    <3>1. Len(s) + 1 \in 1 .. Len(s) + 1
      BY <1>1
    <3> QED
      BY <1>1, <1>2, <2>1, <3>1 DEF Range
  <2>2. CASE x \in Range(s)
    <3>1. PICK i \in 1 .. Len(s) : x = s[i]
      BY <1>2, <2>2 DEF Range
    <3>2. i \in 1 .. Len(s) + 1
      BY <1>1
    <3> QED
      BY <1>1, <1>2, <3>1, <3>2 DEF Range
  <2> QED
    BY <2>1, <2>2
<1> QED
  BY <1>3, <1>4

LEMMA EdgesStay ==
  ASSUME UNCHANGED edges
  PROVE  \A n : Neighbours(n)' = Neighbours(n) /\ From(n)' = From(n)
<1>1. ASSUME NEW n PROVE Neighbours(n)' = Neighbours(n)
  BY DEF Neighbours
<1>2. ASSUME NEW n PROVE From(n)' = From(n)
  BY DEF From, Reached, Neighbours
<1> QED
  BY <1>1, <1>2

\* A node that gets the next number and is pushed, with a frame of its own, leaves the
\* search as it should be: everything on the stack reaches it.
LEMMA PushKeeps ==
  ASSUME UNCHANGED edges, NEW lows, NEW frames, NEW n \in Nodes \ Indexed,
         Met, Held(lows, frames), ReadOut(frames, {n}),
         \A s \in Range(stack) : n \in From(s),
         Pushed(n, lows, frames)
  PROVE  Searching'
<1> DEFINE count == Cardinality(Indexed)
<1>1. /\ edges \in SUBSET (Nodes \X Nodes) /\ Indexed \subseteq Nodes
      /\ index \in [Indexed -> Nat] /\ stack \in Seq(Indexed) /\ comps \in Seq(Seq(Nodes))
  BY DEF Met, Mapped
<1>2. /\ \A x : Neighbours(x)' = Neighbours(x) /\ From(x)' = From(x)
      /\ comps' = comps /\ edges' = edges
  BY EdgesStay DEF Pushed
<1>3. IsFiniteSet(Indexed) /\ count \in Nat
  BY <1>1, NodesAreNumbers, FS_Subset, FS_CardinalityType
<1>4. /\ Indexed' = Indexed \cup {n} /\ index' \in [Indexed' -> Nat] /\ index'[n] = count
      /\ \A x \in Indexed : x # n /\ index'[x] = index[x] /\ index[x] \in Nat /\ index[x] < count
  <2>1. index' = [x \in Indexed \cup {n} |-> IF x = n THEN count ELSE index[x]]
    BY DEF Pushed, Put, Indexed
  <2>2. \A x \in Indexed : x # n /\ index[x] \in Nat /\ index[x] < count
    BY <1>1 DEF Met, Numbered
  <2>3. Indexed' = Indexed \cup {n}
    BY <2>1 DEF Indexed
  <2> HIDE DEF count
  <2> QED
    BY <1>3, <2>1, <2>2, <2>3
<1>5. Cardinality(Indexed') = count + 1
  BY <1>3, <1>4, FS_AddElement
<1>6. /\ low' \in [Indexed' -> Nat] /\ low'[n] = count
      /\ \A x \in Indexed : low'[x] = lows[x] /\ lows[x] \in Nat
  <2>1. lows \in [Indexed -> Nat]
    BY DEF Held, Lowlinks
  <2>2. low' = [x \in Indexed \cup {n} |-> IF x = n THEN count ELSE lows[x]]
    BY <2>1 DEF Pushed, Put
  <2> HIDE DEF count
  <2> QED
    BY <1>3, <1>4, <2>1, <2>2
<1>7. /\ stack' \in Seq(Indexed') /\ Len(stack') = Len(stack) + 1 /\ Len(stack) \in Nat
      /\ \A i \in 1 .. Len(stack) : stack'[i] = stack[i]
      /\ stack'[Len(stack) + 1] = n
      /\ Range(stack') = Range(stack) \cup {n}
      /\ Range(stack) \subseteq Indexed
  <2>1. stack' = Append(stack, n)
    BY DEF Pushed
  <2>2. Range(stack) \subseteq Indexed
    BY <1>1 DEF Range
  <2>3. Range(Append(stack, n)) = Range(stack) \cup {n}
    BY <1>1, RangeOfAppend
  <2>4. stack \in Seq(Indexed') /\ n \in Indexed'
    BY <1>1, <1>4
  <2>5. /\ Append(stack, n) \in Seq(Indexed') /\ Len(Append(stack, n)) = Len(stack) + 1
        /\ Len(stack) \in Nat
        /\ \A i \in 1 .. Len(stack) : Append(stack, n)[i] = stack[i]
        /\ Append(stack, n)[Len(stack) + 1] = n
    BY <2>4
  <2> QED
    BY <2>1, <2>2, <2>3, <2>5, Zenon
<1> DEFINE last == <<n, Neighbours(n)>>
<1>8. /\ frames \in Seq(Indexed \X SUBSET Nodes)
      /\ work' \in Seq(Indexed' \X SUBSET Nodes)
      /\ Len(work') = Len(frames) + 1 /\ Len(frames) \in Nat
      /\ \A i \in 1 .. Len(frames) : work'[i] = frames[i]
      /\ work'[Len(frames) + 1] = last
  <2>1. work' = Append(frames, last) /\ frames \in Seq(Indexed \X SUBSET Nodes)
    BY DEF Pushed, Held, Framed
  <2>2. last \in Indexed' \X SUBSET Nodes /\ Indexed \subseteq Indexed'
    BY <1>4 DEF Neighbours
  <2>3. frames \in Seq(Indexed' \X SUBSET Nodes)
    BY <2>1, <2>2
  <2> HIDE DEF last
  <2> QED
    BY <2>1, <2>2, <2>3
<1> HIDE DEF count
<1>9. Mapped'
  BY <1>1, <1>2, <1>4, <1>7 DEF Mapped
<1>10. Numbered'
  <2>1. \A x \in Indexed' : index'[x] < Cardinality(Indexed')
    BY <1>3, <1>4, <1>5
  <2>2. ASSUME NEW x \in Indexed', NEW y \in Indexed', index'[x] = index'[y] PROVE x = y
    BY <1>3, <1>4, <2>2 DEF Met, Numbered
  <2> QED
    BY <2>1, <2>2 DEF Numbered
<1>11. Stacked'
  <2>1. ASSUME NEW i \in 1 .. Len(stack'), NEW j \in 1 .. Len(stack'), i < j
        PROVE  index'[stack'[i]] < index'[stack'[j]]
    <3>1. i \in 1 .. Len(stack) /\ (j \in 1 .. Len(stack) \/ j = Len(stack) + 1)
      BY <1>7, <2>1
    <3>2. stack'[i] = stack[i] /\ stack[i] \in Indexed
      BY <1>1, <1>7, <3>1
    <3>3. CASE j \in 1 .. Len(stack)
      <4>1. stack'[j] = stack[j] /\ stack[j] \in Indexed
        BY <1>1, <1>7, <3>3
      <4>2. index[stack[i]] < index[stack[j]]
        BY <2>1, <3>1, <3>3 DEF Met, Stacked
      <4> QED
        BY <1>4, <3>2, <4>1, <4>2
    <3>4. CASE j = Len(stack) + 1
      BY <1>4, <1>7, <3>2, <3>4
    <3> QED
      BY <3>1, <3>3, <3>4
  <2> QED
    BY <2>1 DEF Stacked
<1>12. \A ci : Members(ci)' = Members(ci)
  BY <1>2 DEF Members
<1>13. Shared'
  <2>1. \A x : Placed(x)' <=> Placed(x)
    BY <1>2, <1>12 DEF Placed
  <2>2. /\ \A x \in Indexed : x \in Range(stack) <=> ~ Placed(x)
        /\ \A ci \in 1 .. Len(comps) : Members(ci) \subseteq Indexed
        /\ \A ci, cj \in 1 .. Len(comps) : ci = cj \/ Members(ci) \cap Members(cj) = {}
    BY DEF Met, Shared
  <2>3. ~ Placed(n)
    BY <2>2 DEF Placed
  <2>4. \A x \in Indexed' : x \in Range(stack') <=> ~ Placed(x)'
    BY <1>4, <1>7, <2>1, <2>2, <2>3
  <2>5. \A ci \in 1 .. Len(comps') : Members(ci)' \subseteq Indexed'
    BY <1>2, <1>4, <1>12, <2>2
  <2>6. \A ci, cj \in 1 .. Len(comps') : ci = cj \/ Members(ci)' \cap Members(cj)' = {}
    BY <1>2, <1>12, <2>2
  <2> QED
    BY <2>4, <2>5, <2>6 DEF Shared
<1>14. Mutual'
  BY <1>2, <1>12 DEF Met, Mutual
<1>15. Met'
  BY <1>9, <1>10, <1>11, <1>13, <1>14 DEF Met
\* The frames: the ones there were, and the new node's own.
<1>20. \A i \in 1 .. Len(frames) :
         /\ frames[i][1] \in Range(stack) /\ frames[i][2] \subseteq Neighbours(frames[i][1])
         /\ frames[i][1] \in Indexed
  BY <1>7 DEF Held, Framed
<1>21. last[1] = n /\ last[2] = Neighbours(n)
  OBVIOUS
<1> HIDE DEF last
<1>22. ASSUME NEW i \in 1 .. Len(work')
       PROVE  \/ i \in 1 .. Len(frames) /\ work'[i] = frames[i]
              \/ i = Len(frames) + 1 /\ work'[i] = last
  BY <1>8
<1>23. Framed(work)'
  <2>1. ASSUME NEW i \in 1 .. Len(work')
        PROVE  work'[i][1] \in Range(stack') /\ work'[i][2] \subseteq Neighbours(work'[i][1])
    <3>1. CASE i \in 1 .. Len(frames) /\ work'[i] = frames[i]
      BY <1>7, <1>20, <3>1
    <3>2. CASE work'[i] = last
      BY <1>7, <1>21, <3>2
    <3> QED
      BY <1>22, <3>1, <3>2
  <2>2. ASSUME NEW i \in 1 .. Len(work'), NEW j \in 1 .. Len(work'), i < j
        PROVE  index'[work'[i][1]] < index'[work'[j][1]]
    <3>1. i \in 1 .. Len(frames) /\ work'[i] = frames[i] /\ frames[i][1] \in Indexed
      BY <1>8, <1>20, <1>22, <2>2
    <3>2. CASE j \in 1 .. Len(frames) /\ work'[j] = frames[j]
      <4>1. index[frames[i][1]] < index[frames[j][1]] /\ frames[j][1] \in Indexed
        BY <1>20, <2>2, <3>1, <3>2 DEF Held, Framed
      <4> QED
        BY <1>4, <3>1, <3>2, <4>1
    <3>3. CASE work'[j] = last
      BY <1>4, <1>21, <3>1, <3>3
    <3> QED
      BY <1>22, <3>2, <3>3
  <2>3. \A i \in 1 .. Len(work') :
          work'[i][1] \in Range(stack') /\ work'[i][2] \subseteq Neighbours(work[i][1])'
    <3> TAKE i \in 1 .. Len(work')
    <3>1. Neighbours(work[i][1])' = Neighbours(work'[i][1])
      BY <1>2 DEF Neighbours
    <3> QED
      BY <2>1, <3>1
  <2> QED
    BY <1>8, <2>2, <2>3 DEF Framed
<1>24. Chained(work)'
  <2>1. ASSUME NEW x \in Range(stack'), NEW y \in Range(stack'), index'[x] <= index'[y]
        PROVE  y \in From(x)
    <3>1. CASE x \in Range(stack) /\ y \in Range(stack)
      <4>1. x \in Indexed /\ y \in Indexed /\ index[x] <= index[y]
        BY <1>4, <1>7, <2>1, <3>1
      <4> QED
        BY <3>1, <4>1 DEF Held, Chained
    <3>2. CASE x \in Range(stack) /\ y = n
      BY <3>2
    <3>3. CASE x = n /\ y \in Range(stack)
      <4>1. y \in Indexed
        BY <1>7, <3>3
      <4> QED
        BY <1>3, <1>4, <2>1, <3>3, <4>1
    <3>4. CASE x = n /\ y = n
      BY <1>1, <3>4, FromIs
    <3> QED
      BY <1>7, <3>1, <3>2, <3>3, <3>4
  <2>2. ASSUME NEW x \in Range(stack')
        PROVE  \E i \in 1 .. Len(work') : index'[work'[i][1]] <= index'[x] /\ work'[i][1] \in From(x)
    <3>1. CASE x \in Range(stack)
      <4>1. PICK i \in 1 .. Len(frames) : index[frames[i][1]] <= index[x] /\ frames[i][1] \in From(x)
        BY <3>1 DEF Held, Chained
      <4>2. i \in 1 .. Len(work') /\ work'[i] = frames[i] /\ frames[i][1] \in Indexed /\ x \in Indexed
        BY <1>7, <1>8, <1>20, <3>1
      <4> QED
        BY <1>4, <4>1, <4>2
    <3>2. CASE x = n
      <4>1. n \in From(n)
        BY <1>1, FromIs
      <4>2. Len(frames) + 1 \in 1 .. Len(work') /\ work'[Len(frames) + 1] = last
        BY <1>8
      <4> QED
        BY <1>3, <1>4, <1>21, <3>2, <4>1, <4>2
    <3> QED
      BY <1>7, <3>1, <3>2
  <2>3. \A x, y \in Range(stack') : index'[x] <= index'[y] => y \in From(x)'
    BY <1>2, <2>1
  <2>4. \A x \in Range(stack') : \E i \in 1 .. Len(work') :
          index'[work'[i][1]] <= index'[x] /\ work'[i][1] \in From(x)'
    BY <1>2, <2>2
  <2> QED
    BY <2>3, <2>4 DEF Chained
<1>25. Lowlinks(low, work)'
  <2>1. ASSUME NEW x \in Range(stack')
        PROVE  /\ low'[x] <= index'[x]
               /\ \E m \in Range(stack') : low'[x] = index'[m] /\ m \in From(x)
    <3>1. CASE x \in Range(stack)
      <4>1. lows[x] <= index[x]
        BY <3>1 DEF Held, Lowlinks
      <4>2. PICK m \in Range(stack) : lows[x] = index[m] /\ m \in From(x)
        BY <3>1 DEF Held, Lowlinks
      <4>3. x \in Indexed /\ m \in Indexed /\ m \in Range(stack')
        BY <1>7, <3>1
      <4> QED
        BY <1>4, <1>6, <4>1, <4>2, <4>3
    <3>2. CASE x = n
      <4>1. n \in From(n) /\ n \in Range(stack')
        BY <1>1, <1>7, FromIs
      <4> QED
        BY <1>3, <1>4, <1>6, <3>2, <4>1
    <3> QED
      BY <1>7, <3>1, <3>2
  <2>2. ASSUME NEW i \in 1 .. Len(work'), NEW x \in Range(stack'),
               index'[work'[i][1]] <= index'[x],
               i < Len(work') => index'[x] < index'[work'[i + 1][1]],
               NEW m \in Neighbours(x) \cap Range(stack')
        PROVE  (x = work'[i][1] /\ m \in work'[i][2]) \/ low'[work'[i][1]] <= index'[m]
    <3>1. CASE i \in 1 .. Len(frames) /\ work'[i] = frames[i]
      <4>1. i + 1 \in 1 .. Len(work') /\ i < Len(work') /\ frames[i][1] \in Indexed
        BY <1>8, <1>20, <3>1
      <4>2. x # n
        <5>1. CASE i + 1 \in 1 .. Len(frames) /\ work'[i + 1] = frames[i + 1]
          <6>1. frames[i + 1][1] \in Indexed
            BY <1>20, <5>1
          <6>2. index'[frames[i + 1][1]] < count
            BY <1>4, <6>1
          <6> QED
            BY <1>3, <1>4, <2>2, <4>1, <5>1, <6>1, <6>2
        <5>2. CASE work'[i + 1] = last
          BY <1>3, <1>4, <1>21, <2>2, <4>1, <5>2
        <5> QED
          BY <1>22, <4>1, <5>1, <5>2
      <4>3. x \in Range(stack) /\ x \in Indexed
        BY <1>7, <4>2
      <4>4. index[frames[i][1]] <= index[x]
        BY <1>4, <2>2, <3>1, <4>1, <4>3
      <4>5. i < Len(frames) => index[x] < index[frames[i + 1][1]]
        <5> SUFFICES ASSUME i < Len(frames) PROVE index[x] < index[frames[i + 1][1]]
          OBVIOUS
        <5>1. i + 1 \in 1 .. Len(frames)
          BY <1>8, <3>1
        <5>2. work'[i + 1] = frames[i + 1] /\ frames[i + 1][1] \in Indexed
          BY <1>8, <1>20, <5>1
        <5> QED
          BY <1>4, <2>2, <4>1, <4>3, <5>2
      <4>6. CASE m \in Range(stack)
        <5>1. (x = frames[i][1] /\ m \in frames[i][2]) \/ lows[frames[i][1]] <= index[m]
          BY <2>2, <3>1, <4>3, <4>4, <4>5, <4>6 DEF Held, Lowlinks
        <5>2. m \in Indexed
          BY <1>7, <4>6
        <5> QED
          BY <1>4, <1>6, <3>1, <4>1, <5>1, <5>2
      <4>7. CASE m = n
        <5>1. lows[frames[i][1]] <= index[frames[i][1]]
          BY <1>20, <3>1 DEF Held, Lowlinks
        <5> QED
          BY <1>3, <1>4, <1>6, <3>1, <4>1, <4>7, <5>1
      <4> QED
        BY <1>7, <4>6, <4>7
    <3>2. CASE work'[i] = last
      <4>1. index'[x] >= count
        BY <1>4, <1>21, <2>2, <3>2
      <4>2. x = n
        <5> SUFFICES ASSUME x \in Range(stack) PROVE FALSE
          BY <1>7
        <5>1. x \in Indexed
          BY <1>7
        <5> QED
          BY <1>3, <1>4, <4>1, <5>1
      <4> QED
        BY <1>21, <2>2, <3>2, <4>2
    <3> QED
      BY <1>22, <3>1, <3>2
  <2>3. \A x \in Range(stack') :
          /\ low'[x] <= index'[x]
          /\ \E m \in Range(stack') : low'[x] = index'[m] /\ m \in From(x)'
    BY <1>2, <2>1
  <2>4. \A i \in 1 .. Len(work') : \A x \in Range(stack') :
          /\ index'[work'[i][1]] <= index'[x]
          /\ i < Len(work') => index'[x] < index'[work'[i + 1][1]]
          => \A m \in Neighbours(x)' \cap Range(stack') :
               (x = work'[i][1] /\ m \in work'[i][2]) \/ low'[work'[i][1]] <= index'[m]
    BY <1>2, <2>2
  <2> QED
    BY <1>6, <2>3, <2>4 DEF Lowlinks
<1>26. ReadOut(work, {})'
  <2>1. ASSUME NEW x \in Indexed', NEW m \in Neighbours(x)
        PROVE  \/ m \in Indexed'
               \/ \E i \in 1 .. Len(work') : work'[i][1] = x /\ m \in work'[i][2]
    <3>1. CASE x = n
      <4>1. Len(frames) + 1 \in 1 .. Len(work') /\ work'[Len(frames) + 1] = last
        BY <1>8
      <4> QED
        BY <1>21, <2>1, <3>1, <4>1
    <3>2. CASE x \in Indexed
      <4>1. \/ m \in Indexed \cup {n}
            \/ \E i \in 1 .. Len(frames) : frames[i][1] = x /\ m \in frames[i][2]
        BY <2>1, <3>2 DEF ReadOut
      <4>2. \A i \in 1 .. Len(frames) : i \in 1 .. Len(work') /\ work'[i] = frames[i]
        BY <1>8
      <4> QED
        BY <1>4, <4>1, <4>2
    <3> QED
      BY <1>4, <3>1, <3>2
  <2>2. \A x \in Indexed' : \A m \in Neighbours(x)' :
          \/ m \in Indexed' \cup {}
          \/ \E i \in 1 .. Len(work') : work'[i][1] = x /\ m \in work'[i][2]
    BY <1>2, <2>1
  <2> QED
    BY <2>2 DEF ReadOut
<1> QED
  BY <1>15, <1>23, <1>24, <1>25, <1>26 DEF Searching, Held

LEMMA FrontIs ==
  ASSUME NEW S, NEW s \in Seq(S), s # << >>
  PROVE  /\ Len(s) \in Nat /\ Len(s) >= 1 /\ Len(s) \in 1 .. Len(s)
         /\ Last(s) = s[Len(s)] /\ Last(s) \in S
         /\ Front(s) \in Seq(S) /\ Len(Front(s)) = Len(s) - 1
         /\ \A i \in 1 .. Len(s) - 1 : Front(s)[i] = s[i]
<1>1. Len(s) \in Nat /\ Len(s) >= 1 /\ Len(s) \in 1 .. Len(s)
  <2>1. Len(s) \in Nat \ {0}
    BY EmptySeq
  <2> QED
    BY <2>1
<1>2. \A i \in 1 .. Len(s) - 1 : s[i] \in S
  BY <1>1, ElementOfSeq
<1> DEFINE last == Len(s) - 1
<1>3. 1 \in Int /\ last \in Int
  BY <1>1
<1>4. /\ SubSeq(s, 1, last) \in Seq(S)
      /\ Len(SubSeq(s, 1, last)) = IF 1 <= last THEN last - 1 + 1 ELSE 0
      /\ \A i \in 1 .. last - 1 + 1 : SubSeq(s, 1, last)[i] = s[1 + i - 1]
  <2>1. \A i \in 1 .. last : s[i] \in S
    BY <1>2
  <2> HIDE DEF last
  <2> QED
    BY <1>3, <2>1, SubSeqProperties
<1>5. Front(s) = SubSeq(s, 1, last)
  BY DEF Front
<1>6. \A i \in 1 .. Len(s) - 1 : i \in 1 .. last - 1 + 1 /\ 1 + i - 1 = i
  BY <1>1
<1>7. Len(Front(s)) = Len(s) - 1
  <2>1. Len(Front(s)) = IF 1 <= last THEN last - 1 + 1 ELSE 0
    BY <1>4, <1>5
  <2>2. last = Len(s) - 1
    OBVIOUS
  <2> HIDE DEF last
  <2> QED
    BY <1>1, <2>1, <2>2
<1>8. \A i \in 1 .. Len(s) - 1 : Front(s)[i] = s[i]
  BY <1>4, <1>5, <1>6
<1>9. Last(s) = s[Len(s)] /\ Last(s) \in S
  BY <1>1, ElementOfSeq DEF Last
<1> QED
  BY <1>1, <1>4, <1>5, <1>7, <1>8, <1>9

LEMMA FrontOfAppend ==
  ASSUME NEW S, NEW s \in Seq(S), NEW e \in S
  PROVE  Front(Append(s, e)) = s
<1>1. /\ Append(s, e) \in Seq(S) /\ Len(Append(s, e)) = Len(s) + 1 /\ Len(s) \in Nat
      /\ \A i \in 1 .. Len(s) : Append(s, e)[i] = s[i]
  OBVIOUS
<1> DEFINE t == Append(s, e)
<1> HIDE DEF t
<1>2. t \in Seq(S) /\ t # << >> /\ Len(t) = Len(s) + 1 /\ \A i \in 1 .. Len(s) : t[i] = s[i]
  <2>1. t \in Seq(S) /\ Len(t) = Len(s) + 1 /\ \A i \in 1 .. Len(s) : t[i] = s[i]
    BY <1>1 DEF t
  <2>2. Len(<< >>) = 0
    BY EmptySeq
  <2> QED
    BY <1>1, <2>1, <2>2
<1>3. /\ Front(t) \in Seq(S) /\ Len(Front(t)) = Len(t) - 1
      /\ \A i \in 1 .. Len(t) - 1 : Front(t)[i] = t[i]
  BY <1>2, FrontIs
<1>4. Len(t) - 1 = Len(s)
  BY <1>1, <1>2
<1>5. \A i \in 1 .. Len(Front(t)) : Front(t)[i] = s[i]
  BY <1>2, <1>3, <1>4
<1> QED
  BY <1>3, <1>4, <1>5, SeqEqual DEF t

\* The neighbours the walk reads on a turn, and the lowlink they leave the frame's node,
\* keep what the frames hold; what is left to read stays in the frame.
LEMMA ReadKeeps ==
  ASSUME Searching, work # << >>,
         NEW rest \in SUBSET Frame[2], NEW seen \in SUBSET (Frame[2] \cap Indexed),
         Frame[2] \cap Indexed \subseteq seen \cup rest,
         NEW lows, lows = [low EXCEPT ![Frame[1]] = LowOf(seen)],
         NEW frames, frames = Append(Front(work), <<Frame[1], rest>>)
  PROVE  /\ Held(lows, frames)
         /\ ReadOut(frames, Frame[2] \ (Indexed \cup rest))
         /\ Frame[1] \in Range(stack) /\ Frame[2] \subseteq Neighbours(Frame[1])
         /\ lows[Frame[1]] = LowOf(seen) /\ Front(frames) = Front(work)
<1> DEFINE L == Len(work)
           node == Frame[1]
           below == LowOf(seen)
           onStack == Range(stack)
<1>1. /\ edges \in SUBSET (Nodes \X Nodes) /\ Indexed \subseteq Nodes
      /\ index \in [Indexed -> Nat] /\ stack \in Seq(Indexed)
      /\ work \in Seq(Indexed \X SUBSET Nodes) /\ low \in [Indexed -> Nat]
      /\ onStack \subseteq Indexed
  <2>1. stack \in Seq(Indexed)
    BY DEF Searching, Met, Mapped
  <2>2. onStack \subseteq Indexed
    BY <2>1 DEF Range
  <2> QED
    BY <2>2 DEF Searching, Met, Mapped, Held, Framed, Lowlinks
<1>2. /\ L \in Nat /\ L >= 1 /\ L \in 1 .. L /\ Frame = work[L]
      /\ Front(work) \in Seq(Indexed \X SUBSET Nodes) /\ Len(Front(work)) = L - 1
      /\ \A i \in 1 .. L - 1 : Front(work)[i] = work[i]
  BY <1>1, FrontIs DEF Frame
<1>3. /\ \A i \in 1 .. L : work[i][1] \in onStack /\ work[i][2] \subseteq Neighbours(work[i][1])
      /\ \A i, j \in 1 .. L : i < j => index[work[i][1]] < index[work[j][1]]
      /\ \A n \in onStack : low[n] <= index[n]
      /\ \A n \in onStack : \E m \in onStack : low[n] = index[m] /\ m \in From(n)
  BY DEF Searching, Held, Framed, Lowlinks
<1>4. node \in onStack /\ node \in Indexed /\ Frame[2] \subseteq Neighbours(node) /\ Frame[2] \subseteq Nodes
  <2>1. Frame[1] = work[L][1] /\ Frame[2] = work[L][2]
    BY <1>2
  <2> QED
    BY <1>1, <1>2, <1>3, <2>1 DEF Neighbours
<1>5. /\ frames \in Seq(Indexed \X SUBSET Nodes) /\ Len(frames) = L
      /\ \A i \in 1 .. L - 1 : frames[i] = work[i]
      /\ frames[L] = <<node, rest>>
      /\ Front(frames) = Front(work)
  <2> DEFINE up == Front(work)
             top == <<Frame[1], rest>>
  <2>1. top \in Indexed \X SUBSET Nodes /\ up \in Seq(Indexed \X SUBSET Nodes) /\ Len(up) = L - 1
    BY <1>2, <1>4
  <2>2. \A i \in 1 .. L - 1 : up[i] = work[i]
    BY <1>2
  <2> HIDE DEF up, top, L
  <2>3. frames = Append(up, top)
    BY DEF up, top
  <2> DEFINE A == Indexed \X SUBSET Nodes
  <2>0. top \in A /\ up \in Seq(A)
    BY <2>1
  <2>6. L - 1 + 1 = L
    BY <1>2
  <2> HIDE DEF A
  <2>4. /\ frames \in Seq(A) /\ Len(frames) = Len(up) + 1
        /\ \A i \in 1 .. Len(up) : frames[i] = up[i]
        /\ frames[Len(up) + 1] = top
    <3>1. /\ Append(up, top) \in Seq(A) /\ Len(Append(up, top)) = Len(up) + 1
          /\ \A i \in 1 .. Len(up) : Append(up, top)[i] = up[i]
          /\ Append(up, top)[Len(up) + 1] = top
      BY <2>0
    <3> QED
      BY <2>3, <3>1
  <2>5. Front(frames) = up
    BY <2>0, <2>3, FrontOfAppend
  <2>7. /\ frames \in Seq(Indexed \X SUBSET Nodes) /\ Len(frames) = L
        /\ \A i \in 1 .. L - 1 : frames[i] = up[i]
        /\ frames[L] = top
    BY <2>1, <2>4, <2>6 DEF A
  <2> QED
    BY <2>2, <2>5, <2>7 DEF up, top
<1>6. /\ below \in Nat /\ below <= low[node]
      /\ \A m \in seen \cap onStack : below <= index[m]
      /\ below = low[node] \/ \E m \in seen \cap onStack : below = index[m]
  <2> DEFINE V == {low[Frame[1]]} \cup {index[m] : m \in {m \in seen : m \in Range(stack)}}
  <2>1. V \in SUBSET Nat /\ V # {}
    BY <1>1, <1>4
  <2>2. below = Min(V)
    BY DEF LowOf
  <2> HIDE DEF below
  <2>3. below \in V /\ \A v \in V : below <= v
    <3> HIDE DEF V
    <3> QED
      BY <2>1, <2>2, MinIs
  <2> QED
    BY <2>1, <2>3
<1> HIDE DEF below, L
<1>7. /\ lows \in [Indexed -> Nat] /\ lows[node] = below
      /\ \A x \in Indexed : x # node => lows[x] = low[x]
      /\ \A x \in Indexed : lows[x] <= low[x]
  <2>1. lows = [low EXCEPT ![node] = below]
    BY DEF below
  <2>2. low[node] \in Nat
    BY <1>1, <1>4
  <2> HIDE DEF node
  <2>3. lows \in [Indexed -> Nat]
    BY <1>1, <1>6, <2>1
  <2>4. lows[node] = below /\ \A x \in Indexed : x # node => lows[x] = low[x]
    BY <1>1, <1>4, <2>1
  <2>5. \A x \in Indexed : lows[x] <= low[x]
    <3> TAKE x \in Indexed
    <3>1. low[x] \in Nat
      BY <1>1
    <3> QED
      BY <1>6, <2>2, <2>4, <3>1
  <2> QED
    BY <2>3, <2>4, <2>5
<1>8. /\ \A i \in 1 .. L : frames[i][1] = work[i][1] /\ frames[i][2] \subseteq work[i][2]
      /\ frames[L][1] = node /\ frames[L][2] = rest /\ work[L][1] = node /\ work[L][2] = Frame[2]
  <2>1. /\ frames[L][1] = node /\ frames[L][2] = rest /\ work[L][1] = node /\ work[L][2] = Frame[2]
    BY <1>2, <1>5
  <2> HIDE DEF node
  <2>2. \A i \in 1 .. L : i = L \/ i \in 1 .. L - 1
    BY <1>2
  <2> QED
    BY <1>5, <2>1, <2>2
<1> HIDE DEF node
<1>9. Framed(frames)
  <2>1. frames \in Seq(Indexed \X SUBSET Nodes) /\ Len(frames) = L
    BY <1>5
  <2>2. ASSUME NEW i \in 1 .. L
        PROVE  frames[i][1] \in Range(stack) /\ frames[i][2] \subseteq Neighbours(frames[i][1])
    <3>1. frames[i][1] = work[i][1] /\ frames[i][2] \subseteq work[i][2]
      BY <1>8
    <3> QED
      BY <1>3, <3>1 DEF Framed
  <2>3. \A i, j \in 1 .. L : i < j => index[frames[i][1]] < index[frames[j][1]]
    BY <1>3, <1>8 DEF Framed
  <2> QED
    BY <2>1, <2>2, <2>3 DEF Framed
<1>10. Chained(frames)
  <2>1. Chained(work)
    BY DEF Searching, Held
  <2> QED
    BY <1>5, <1>8, <2>1 DEF Chained, L
<1>11. Lowlinks(lows, frames)
  <2>1. ASSUME NEW n \in onStack
        PROVE  /\ lows[n] <= index[n]
               /\ \E m \in onStack : lows[n] = index[m] /\ m \in From(n)
    <3>1. CASE n # node \/ lows[n] = low[n]
      <4>1. n \in Indexed /\ lows[n] = low[n]
        BY <1>1, <1>7, <3>1
      <4> QED
        BY <1>3, <4>1
    <3>2. CASE n = node /\ lows[n] # low[n]
      <4>1. PICK m \in seen \cap onStack : below = index[m]
        BY <1>6, <1>7, <3>2
      <4>2. m \in From(n)
        BY <1>1, <1>4, <3>2, <4>1, FromIs
      <4>3. below <= index[node]
        <5>1. low[node] <= index[node]
          BY <1>3, <1>4
        <5> QED
          BY <1>1, <1>4, <1>6, <5>1
      <4> QED
        BY <1>7, <3>2, <4>1, <4>2, <4>3
    <3> QED
      BY <3>1, <3>2
  <2>2. ASSUME NEW i \in 1 .. Len(frames), NEW n \in onStack,
               index[frames[i][1]] <= index[n],
               i < Len(frames) => index[n] < index[frames[i + 1][1]],
               NEW m \in Neighbours(n) \cap onStack
        PROVE  (n = frames[i][1] /\ m \in frames[i][2]) \/ lows[frames[i][1]] <= index[m]
    <3>1. i \in 1 .. L /\ frames[i][1] = work[i][1]
      BY <1>5, <1>8
    <3>2. i < L => index[n] < index[work[i + 1][1]]
      <4> SUFFICES ASSUME i < L PROVE index[n] < index[work[i + 1][1]]
        OBVIOUS
      <4>1. i + 1 \in 1 .. L
        BY <1>2, <3>1
      <4> QED
        BY <1>5, <1>8, <2>2, <4>1
    <3>3. (n = work[i][1] /\ m \in work[i][2]) \/ low[work[i][1]] <= index[m]
      <4>1. Lowlinks(low, work)
        BY DEF Searching, Held
      <4> QED
        BY <2>2, <3>1, <3>2, <4>1 DEF Lowlinks, L
    <3>4. work[i][1] \in Indexed /\ m \in Indexed
      BY <1>1, <1>3, <3>1
    <3>5. CASE low[work[i][1]] <= index[m]
      <4>1. /\ low[work[i][1]] \in Nat /\ lows[work[i][1]] \in Nat /\ index[m] \in Nat
            /\ lows[work[i][1]] <= low[work[i][1]]
        BY <1>1, <1>7, <3>4
      <4>2. lows[work[i][1]] <= index[m]
        BY <3>5, <4>1
      <4> QED
        BY <3>1, <4>2
    <3>6. CASE n = work[i][1] /\ m \in work[i][2] /\ i # L
      BY <1>2, <1>5, <3>1, <3>6
    <3>7. CASE n = work[i][1] /\ m \in work[i][2] /\ i = L
      <4>1. m \in seen \/ m \in rest
        BY <1>8, <3>4, <3>7
      <4> QED
        BY <1>6, <1>7, <1>8, <2>2, <3>7, <4>1
    <3> QED
      BY <3>3, <3>5, <3>6, <3>7
  <2> QED
    BY <1>7, <2>1, <2>2 DEF Lowlinks
<1>12. ReadOut(frames, Frame[2] \ (Indexed \cup rest))
  <2> SUFFICES ASSUME NEW n \in Indexed, NEW m \in Neighbours(n), m \notin Indexed
               PROVE  \/ m \in Frame[2] \ (Indexed \cup rest)
                      \/ \E i \in 1 .. Len(frames) : frames[i][1] = n /\ m \in frames[i][2]
    BY DEF ReadOut
  <2>1. PICK i \in 1 .. L : work[i][1] = n /\ m \in work[i][2]
    BY DEF Searching, ReadOut, L
  <2>2. CASE i = L
    BY <1>5, <1>8, <2>1, <2>2
  <2>3. CASE i # L
    <3>1. i \in 1 .. L - 1
      BY <1>2, <2>1, <2>3
    <3> QED
      BY <1>5, <2>1, <3>1
  <2> QED
    BY <2>2, <2>3
<1> QED
  BY <1>4, <1>5, <1>7, <1>9, <1>10, <1>11, <1>12 DEF Held, node, below

\* A sequence cut in two, the upper part turned round.
LEMMA CutParts ==
  ASSUME NEW S, NEW s \in Seq(S), NEW c \in 1 .. Len(s)
  PROVE  /\ SubSeq(s, 1, c - 1) \in Seq(S) /\ Len(SubSeq(s, 1, c - 1)) = c - 1
         /\ \A i \in 1 .. c - 1 : SubSeq(s, 1, c - 1)[i] = s[i]
         /\ Reverse(SubSeq(s, c, Len(s))) \in Seq(S)
         /\ Range(Reverse(SubSeq(s, c, Len(s)))) = {s[i] : i \in c .. Len(s)}
<1>1. PICK L \in Nat : L = Len(s)
  OBVIOUS
<1>2. c \in Nat /\ c >= 1 /\ c <= L
  BY <1>1
<1>3. \A i \in 1 .. L : s[i] \in S
  BY <1>1, ElementOfSeq
<1>4. PICK d \in Nat : d = c - 1
  BY <1>2
<1>5. /\ SubSeq(s, 1, d) \in Seq(S) /\ Len(SubSeq(s, 1, d)) = d
      /\ \A i \in 1 .. d : SubSeq(s, 1, d)[i] = s[i]
  <2>1. 1 \in Int /\ d \in Int /\ \A i \in 1 .. d : s[i] \in S
    BY <1>2, <1>3, <1>4
  <2>2. /\ SubSeq(s, 1, d) \in Seq(S)
        /\ Len(SubSeq(s, 1, d)) = IF 1 <= d THEN d - 1 + 1 ELSE 0
        /\ \A i \in 1 .. d - 1 + 1 : SubSeq(s, 1, d)[i] = s[1 + i - 1]
    BY <2>1, SubSeqProperties
  <2>3. d - 1 + 1 = d /\ (IF 1 <= d THEN d - 1 + 1 ELSE 0) = d /\ \A i \in 1 .. d : 1 + i - 1 = i
    BY <1>4
  <2>4. SubSeq(s, 1, d) \in Seq(S) /\ Len(SubSeq(s, 1, d)) = d
    BY <2>2, <2>3
  <2>5. ASSUME NEW i \in 1 .. d PROVE SubSeq(s, 1, d)[i] = s[i]
    BY <2>2, <2>3
  <2> QED
    BY <2>4, <2>5
<1> DEFINE t == SubSeq(s, c, L)
<1>6. /\ t \in Seq(S) /\ Len(t) = L - c + 1
      /\ \A i \in 1 .. L - c + 1 : t[i] = s[c + i - 1]
  <2>1. c \in Int /\ L \in Int /\ \A i \in c .. L : s[i] \in S
    BY <1>2, <1>3
  <2> HIDE DEF t
  <2>2. /\ t \in Seq(S) /\ Len(t) = IF c <= L THEN L - c + 1 ELSE 0
        /\ \A i \in 1 .. L - c + 1 : t[i] = s[c + i - 1]
    BY <2>1, SubSeqProperties DEF t
  <2> QED
    BY <1>2, <2>2
<1> HIDE DEF t
<1>7. PICK m \in Nat : m = L - c + 1
  BY <1>2
<1>8. Reverse(t) = [i \in 1 .. m |-> t[m - i + 1]]
  BY <1>6, <1>7 DEF Reverse
<1>9. \A i \in 1 .. m : m - i + 1 \in 1 .. m /\ t[m - i + 1] = s[c + (m - i + 1) - 1]
  BY <1>6, <1>7
<1>10. \A i \in 1 .. m : t[m - i + 1] \in S
  <2> TAKE i \in 1 .. m
  <2>1. m - i + 1 \in 1 .. Len(t)
    BY <1>6, <1>7, <1>9
  <2> QED
    BY <1>6, <2>1, ElementOfSeq
<1>11. Reverse(t) \in Seq(S)
  BY <1>8, <1>10
<1>12. Range(Reverse(t)) = {s[i] : i \in c .. L}
  <2>1. Range(Reverse(t)) = {t[m - i + 1] : i \in 1 .. m}
    BY <1>8 DEF Range
  <2>2. ASSUME NEW i \in 1 .. m PROVE t[m - i + 1] \in {s[j] : j \in c .. L}
    <3>1. c + (m - i + 1) - 1 \in c .. L
      BY <1>2, <1>7
    <3> QED
      BY <1>9, <3>1
  <2>3. ASSUME NEW j \in c .. L PROVE s[j] \in {t[m - i + 1] : i \in 1 .. m}
    <3>1. PICK i \in 1 .. m : i = m - (j - c)
      BY <1>2, <1>7
    <3>2. c + (m - i + 1) - 1 = j
      BY <1>2, <1>7, <3>1
    <3>3. t[m - i + 1] = s[j]
      BY <1>9, <3>2
    <3> QED
      BY <3>3
  <2> QED
    BY <2>1, <2>2, <2>3
<1> QED
  BY <1>1, <1>4, <1>5, <1>11, <1>12 DEF t

\* What the stack keeps, and what is popped, when it is cut at a node.
CutAt(node, kept, popped) ==
  /\ kept \in Seq(Indexed) /\ Len(kept) <= Len(stack)
  /\ \A i \in 1 .. Len(kept) : kept[i] = stack[i]
  /\ \A n : n \in Range(kept) <=> n \in Range(stack) /\ index[n] < index[node]
  /\ popped \in Seq(Nodes)
  /\ \A n : n \in Range(popped) <=> n \in Range(stack) /\ index[n] >= index[node]

LEMMA PopParts ==
  ASSUME Mapped, Stacked, NEW cut \in 1 .. Len(stack)
  PROVE  CutAt(stack[cut], SubSeq(stack, 1, cut - 1), Reverse(SubSeq(stack, cut, Len(stack))))
<1> DEFINE node   == stack[cut]
           kept   == SubSeq(stack, 1, cut - 1)
           popped == Reverse(SubSeq(stack, cut, Len(stack)))
<1>1. stack \in Seq(Indexed) /\ Indexed \subseteq Nodes /\ index \in [Indexed -> Nat]
  BY DEF Mapped
<1>2. PICK L \in Nat : L = Len(stack)
  BY <1>1
<1>3. Range(stack) = {stack[i] : i \in 1 .. L}
  BY <1>1, <1>2 DEF Range
<1>4. cut \in 1 .. L /\ stack[cut] = node
  BY <1>2
<1>5. cut \in Nat /\ cut >= 1 /\ cut <= L
  BY <1>4
<1>6. /\ kept \in Seq(Indexed) /\ Len(kept) = cut - 1
      /\ \A i \in 1 .. cut - 1 : kept[i] = stack[i]
      /\ popped \in Seq(Indexed)
      /\ Range(popped) = {stack[i] : i \in cut .. L}
  BY <1>1, <1>2, <1>4, CutParts
<1> HIDE DEF node, kept, popped
<1>7. \A i \in 1 .. L : stack[i] \in Indexed /\ index[stack[i]] \in Nat
  BY <1>1, <1>2
<1>8. \A i \in 1 .. L : (i < cut => index[stack[i]] < index[node])
                      /\ (i > cut => index[stack[i]] > index[node])
  BY <1>2, <1>4, <1>7 DEF Stacked
<1>9. Range(kept) = {stack[i] : i \in 1 .. cut - 1}
  <2>1. DOMAIN kept = 1 .. cut - 1
    <3>1. DOMAIN kept = 1 .. Len(kept)
      BY <1>6, LenProperties
    <3> QED
      BY <1>6, <3>1
  <2>2. Range(kept) = {kept[i] : i \in 1 .. cut - 1}
    BY <2>1 DEF Range
  <2>3. \A i \in 1 .. cut - 1 : kept[i] = stack[i]
    BY <1>6
  <2>4. {kept[i] : i \in 1 .. cut - 1} = {stack[i] : i \in 1 .. cut - 1}
    BY <2>3, Zenon
  <2> QED
    BY <2>2, <2>4, Zenon
<1>10. \A n : n \in Range(kept) <=> n \in Range(stack) /\ index[n] < index[node]
  <2>1. ASSUME NEW n \in Range(kept) PROVE n \in Range(stack) /\ index[n] < index[node]
    <3>1. PICK i \in 1 .. cut - 1 : n = stack[i]
      BY <1>9
    <3>2. i \in 1 .. L /\ i < cut
      BY <1>5, <3>1
    <3> QED
      BY <1>3, <1>8, <3>1, <3>2
  <2>2. ASSUME NEW n \in Range(stack), index[n] < index[node] PROVE n \in Range(kept)
    <3>1. PICK i \in 1 .. L : n = stack[i]
      BY <1>3
    <3>2. i < cut
      BY <1>4, <1>5, <1>7, <1>8, <2>2, <3>1
    <3>3. i \in 1 .. cut - 1
      BY <1>5, <3>1, <3>2
    <3> QED
      BY <1>9, <3>1, <3>3
  <2> QED
    BY <2>1, <2>2
<1>11. \A n : n \in Range(popped) <=> n \in Range(stack) /\ index[n] >= index[node]
  <2>1. ASSUME NEW n \in Range(popped) PROVE n \in Range(stack) /\ index[n] >= index[node]
    <3>1. PICK i \in cut .. L : n = stack[i]
      BY <1>6
    <3>2. i \in 1 .. L /\ (i > cut \/ i = cut)
      BY <1>5, <3>1
    <3>3. index[stack[i]] \in Nat /\ index[node] \in Nat
      BY <1>4, <1>7, <3>2
    <3>4. index[stack[i]] >= index[node]
      <4>1. CASE i = cut
        BY <1>4, <3>3, <4>1
      <4>2. CASE i > cut
        <5>1. index[stack[i]] > index[node]
          BY <1>8, <3>2, <4>2
        <5> QED
          BY <3>3, <5>1
      <4> QED
        BY <3>2, <4>1, <4>2
    <3> QED
      BY <1>3, <3>1, <3>2, <3>4
  <2>2. ASSUME NEW n \in Range(stack), index[n] >= index[node] PROVE n \in Range(popped)
    <3>1. PICK i \in 1 .. L : n = stack[i]
      BY <1>3
    <3>2. ~ (i < cut)
      BY <1>4, <1>7, <1>8, <2>2, <3>1
    <3>3. i \in cut .. L
      BY <1>5, <3>1, <3>2
    <3> QED
      BY <1>6, <3>1, <3>3
  <2> QED
    BY <2>1, <2>2
<1>12. popped \in Seq(Nodes)
  BY <1>1, <1>6, SeqMonotonic
<1>13. Len(kept) <= Len(stack) /\ \A i \in 1 .. Len(kept) : kept[i] = stack[i]
  <2>1. Len(kept) = cut - 1
    BY <1>6
  <2>2. cut - 1 <= L
    BY <1>5
  <2>3. \A i \in 1 .. cut - 1 : kept[i] = stack[i]
    BY <1>6
  <2> QED
    BY <1>2, <2>1, <2>2, <2>3
<1> QED
  BY <1>6, <1>10, <1>11, <1>12, <1>13 DEF CutAt, node, kept, popped

\* A frame that has nothing left to read closes: its node either waits below a node it
\* reaches, or takes all that is above it off the stack as one component.
LEMMA ClosedKeeps ==
  ASSUME UNCHANGED <<edges, index>>, NEW lows, NEW frames, NEW node, NEW cut,
         Met, Held(lows, frames), ReadOut(frames, {}),
         frames # << >>, node = frames[Len(frames)][1], frames[Len(frames)][2] = {},
         cut = CHOOSE i \in 1 .. Len(stack) : stack[i] = node,
         work' = Front(frames),
         low' = IF work' = << >> THEN lows
                ELSE [lows EXCEPT ![Last(work')[1]] = Min({@, lows[node]})],
         IF lows[node] = index[node]
         THEN /\ comps' = Append(comps, Reverse(SubSeq(stack, cut, Len(stack))))
              /\ stack' = SubSeq(stack, 1, cut - 1)
         ELSE UNCHANGED <<comps, stack>>
  PROVE  Searching'
<1> DEFINE L == Len(frames)
           onStack == Range(stack)
<1>1. /\ edges \in SUBSET (Nodes \X Nodes) /\ Indexed \subseteq Nodes
      /\ index \in [Indexed -> Nat] /\ stack \in Seq(Indexed)
      /\ comps \in Seq(Seq(Nodes)) /\ lows \in [Indexed -> Nat]
      /\ frames \in Seq(Indexed \X SUBSET Nodes)
      /\ onStack \subseteq Indexed
  <2>1. stack \in Seq(Indexed)
    BY DEF Met, Mapped
  <2>2. onStack \subseteq Indexed
    BY <2>1 DEF Range
  <2> QED
    BY <2>2 DEF Met, Mapped, Held, Framed, Lowlinks
<1>2. /\ \A x : Neighbours(x)' = Neighbours(x) /\ From(x)' = From(x)
      /\ edges' = edges /\ index' = index /\ Indexed' = Indexed
  BY EdgesStay DEF Indexed
<1>3. /\ L \in Nat /\ L >= 1 /\ L \in 1 .. L
      /\ work' \in Seq(Indexed \X SUBSET Nodes) /\ Len(work') = L - 1
      /\ \A i \in 1 .. L - 1 : work'[i] = frames[i]
  BY <1>1, FrontIs
<1>4. /\ \A i \in 1 .. L : /\ frames[i][1] \in onStack /\ frames[i][1] \in Indexed
                           /\ index[frames[i][1]] \in Nat
                           /\ frames[i][2] \subseteq Neighbours(frames[i][1])
      /\ \A i, j \in 1 .. L : i < j => index[frames[i][1]] < index[frames[j][1]]
      /\ node \in onStack /\ node \in Indexed
  <2>1. \A i \in 1 .. L : frames[i][1] \in onStack /\ frames[i][2] \subseteq Neighbours(frames[i][1])
    BY DEF Held, Framed
  <2>2. \A i, j \in 1 .. L : i < j => index[frames[i][1]] < index[frames[j][1]]
    BY DEF Held, Framed
  <2>3. node = frames[L][1]
    OBVIOUS
  <2> QED
    BY <1>1, <1>3, <2>1, <2>2, <2>3
<1>5. \A i \in 1 .. L - 1 : i \in 1 .. L /\ index[frames[i][1]] < index[node]
  BY <1>3, <1>4
<1> DEFINE up == frames[L - 1][1]
<1>6. L > 1 => L - 1 \in 1 .. L - 1 /\ up \in Indexed /\ up # node /\ index[up] < index[node]
  <2> SUFFICES ASSUME L > 1
               PROVE  L - 1 \in 1 .. L - 1 /\ up \in Indexed /\ up # node /\ index[up] < index[node]
    OBVIOUS
  <2>1. L - 1 \in 1 .. L - 1
    BY <1>3
  <2>2. L - 1 \in 1 .. L /\ index[up] < index[node]
    BY <1>5, <2>1
  <2>3. up \in Indexed /\ index[up] \in Nat /\ index[node] \in Nat
    BY <1>1, <1>4, <2>2
  <2> HIDE DEF up
  <2> QED
    BY <2>1, <2>2, <2>3
<1>7. /\ low' \in [Indexed -> Nat]
      /\ \A x \in Indexed : L = 1 \/ x # up => low'[x] = lows[x]
      /\ L > 1 => /\ low'[up] <= lows[up] /\ low'[up] <= lows[node]
                  /\ low'[up] = lows[up] \/ low'[up] = lows[node]
  <2>1. CASE L = 1
    <3>1. work' = << >>
      <4>1. Len(work') = 0
        BY <1>3, <2>1
      <4> QED
        BY <1>3, <4>1, EmptySeq
    <3>2. low' = lows
      BY <3>1
    <3> QED
      BY <1>1, <1>3, <2>1, <3>2
  <2>2. CASE L # 1
    <3>1. L > 1 /\ L - 1 \in 1 .. L - 1
      BY <1>3, <2>2
    <3>2. work' # << >> /\ Last(work')[1] = up
      <4>1. Len(work') # 0
        BY <1>3, <3>1
      <4>2. Last(work') = work'[L - 1]
        BY <1>3 DEF Last
      <4>3. work'[L - 1] = frames[L - 1]
        BY <1>3, <3>1
      <4> QED
        BY <4>1, <4>2, <4>3, EmptySeq
    <3> DEFINE least == Min({lows[up], lows[node]})
    <3>3. lows[up] \in Nat /\ lows[node] \in Nat /\ up \in Indexed
      BY <1>1, <1>4, <1>6, <3>1
    <3>4. least \in {lows[up], lows[node]} /\ \A v \in {lows[up], lows[node]} : least <= v
      <4> DEFINE V == {lows[up], lows[node]}
      <4>1. V \in SUBSET Nat /\ V # {}
        BY <3>3
      <4> HIDE DEF V
      <4>2. Min(V) \in V /\ \A v \in V : Min(V) <= v
        BY <4>1, MinIs
      <4> QED
        BY <4>2 DEF V
    <3>5. low' = [lows EXCEPT ![up] = least]
      <4>1. low' = [lows EXCEPT ![Last(work')[1]] = Min({@, lows[node]})]
        BY <3>2
      <4> HIDE DEF up
      <4> QED
        BY <1>1, <3>2, <4>1
    <3> HIDE DEF least, up
    <3>6. least \in Nat /\ least <= lows[up] /\ least <= lows[node]
      BY <3>3, <3>4
    <3>7. low' \in [Indexed -> Nat] /\ low'[up] = least /\ \A x \in Indexed : x # up => low'[x] = lows[x]
      <4>1. lows \in [Indexed -> Nat]
        BY <1>1
      <4>2. DOMAIN lows = Indexed /\ low' = [x \in Indexed |-> IF x = up THEN least ELSE lows[x]]
        BY <3>5, <4>1
      <4>3. \A x \in Indexed : x # up => low'[x] = lows[x]
        BY <4>2
      <4>4. low'[up] = least
        BY <3>3, <4>2
      <4>5. low' \in [Indexed -> Nat]
        BY <3>6, <4>1, <4>2
      <4> QED
        BY <4>3, <4>4, <4>5
    <3>8. least = lows[up] \/ least = lows[node]
      BY <3>4
    <3>9. \A x \in Indexed : L = 1 \/ x # up => low'[x] = lows[x]
      BY <2>2, <3>7
    <3> QED
      BY <3>6, <3>7, <3>8, <3>9
  <2> QED
    BY <2>1, <2>2
<1> HIDE DEF up
<1>8. \A x \in Indexed : low'[x] <= lows[x]
  <2> TAKE x \in Indexed
  <2>1. lows[x] \in Nat /\ low'[x] \in Nat
    BY <1>1, <1>7
  <2>2. L > 1 \/ L = 1
    BY <1>3
  <2>3. CASE L = 1 \/ x # up
    <3>1. low'[x] = lows[x]
      BY <1>7, <2>3
    <3> QED
      BY <2>1, <3>1
  <2>4. CASE L > 1 /\ x = up
    BY <1>7, <2>4
  <2> QED
    BY <2>2, <2>3, <2>4
\* Of the stack and the frames that are left.
<1> DEFINE Left ==
      /\ Range(stack') \subseteq onStack
      /\ \A i \in 1 .. L - 1 : frames[i][1] \in Range(stack')
      /\ \A n \in Range(stack') : \E i \in 1 .. L - 1 :
           index[frames[i][1]] <= index[n] /\ frames[i][1] \in From(n)
      /\ \A n \in Range(stack') :
           \E m \in Range(stack') : low'[n] = index[m] /\ m \in From(n)
      /\ \A n \in Range(stack') : index[n] >= index[node] => L > 1
<1>9. ASSUME Left PROVE Held(low, work)'
  <2>1. Framed(work)'
    <3>1. ASSUME NEW i \in 1 .. Len(work')
          PROVE  work'[i][1] \in Range(stack') /\ work'[i][2] \subseteq Neighbours(work[i][1])'
      <4>1. i \in 1 .. L - 1 /\ i \in 1 .. L /\ work'[i] = frames[i]
        BY <1>3, <1>5
      <4>2. Neighbours(work[i][1])' = Neighbours(work'[i][1])
        BY <1>2 DEF Neighbours
      <4> QED
        BY <1>4, <1>9, <4>1, <4>2
    <3>2. ASSUME NEW i \in 1 .. Len(work'), NEW j \in 1 .. Len(work'), i < j
          PROVE  index'[work'[i][1]] < index'[work'[j][1]]
      <4>1. i \in 1 .. L /\ work'[i] = frames[i] /\ j \in 1 .. L /\ work'[j] = frames[j]
        BY <1>3, <1>5
      <4> QED
        BY <1>2, <1>4, <3>2, <4>1
    <3> QED
      BY <1>2, <1>3, <3>1, <3>2 DEF Framed
  <2>2. Chained(work)'
    <3>1. ASSUME NEW n \in Range(stack'), NEW m \in Range(stack'), index'[n] <= index'[m]
          PROVE  m \in From(n)
      BY <1>2, <1>9, <3>1 DEF Held, Chained
    <3>2. ASSUME NEW n \in Range(stack')
          PROVE  \E i \in 1 .. Len(work') : index'[work'[i][1]] <= index'[n] /\ work'[i][1] \in From(n)
      <4>1. PICK i \in 1 .. L - 1 : index[frames[i][1]] <= index[n] /\ frames[i][1] \in From(n)
        BY <1>9
      <4> QED
        BY <1>2, <1>3, <4>1
    <3>3. \A n, m \in Range(stack') : index'[n] <= index'[m] => m \in From(n)'
      BY <1>2, <3>1
    <3>4. \A n \in Range(stack') : \E i \in 1 .. Len(work') :
            index'[work'[i][1]] <= index'[n] /\ work'[i][1] \in From(n)'
      BY <1>2, <3>2
    <3> QED
      BY <3>3, <3>4 DEF Chained
  <2>3. Lowlinks(low, work)'
    <3>1. ASSUME NEW n \in Range(stack') PROVE low'[n] <= index'[n]
      <4>1. n \in onStack /\ n \in Indexed /\ lows[n] \in Nat /\ low'[n] \in Nat /\ index[n] \in Nat
        BY <1>1, <1>7, <1>9
      <4>2. lows[n] <= index[n] /\ low'[n] <= lows[n]
        BY <1>8, <4>1 DEF Held, Lowlinks
      <4> QED
        BY <1>2, <4>1, <4>2
    <3>2. ASSUME NEW i \in 1 .. Len(work'), NEW n \in Range(stack'),
                 index'[work'[i][1]] <= index'[n],
                 i < Len(work') => index'[n] < index'[work'[i + 1][1]],
                 NEW m \in Neighbours(n) \cap Range(stack')
          PROVE  (n = work'[i][1] /\ m \in work'[i][2]) \/ low'[work'[i][1]] <= index'[m]
      <4>1. /\ i \in 1 .. L - 1 /\ i \in 1 .. L /\ work'[i] = frames[i]
            /\ index[frames[i][1]] <= index[n] /\ n \in onStack /\ m \in onStack
            /\ frames[i][1] \in Indexed /\ n \in Indexed /\ m \in Indexed
        BY <1>1, <1>2, <1>3, <1>4, <1>5, <1>9, <3>2
      <4>2. i < L - 1 => index[n] < index[frames[i + 1][1]]
        <5> SUFFICES ASSUME i < L - 1 PROVE index[n] < index[frames[i + 1][1]]
          OBVIOUS
        <5>1. i + 1 \in 1 .. L - 1 /\ i < Len(work')
          BY <1>3, <4>1
        <5> QED
          BY <1>2, <1>3, <3>2, <5>1
      <4>3. /\ low'[frames[i][1]] \in Nat /\ lows[frames[i][1]] \in Nat /\ index[m] \in Nat
            /\ index[n] \in Nat /\ index[node] \in Nat /\ lows[node] \in Nat
            /\ low'[frames[i][1]] <= lows[frames[i][1]]
        BY <1>1, <1>4, <1>7, <1>8, <4>1
      <4>4. CASE index[n] < index[node]
        <5>1. i < L => index[n] < index[frames[i + 1][1]]
          <6>1. CASE i = L - 1
            <7>1. i + 1 = L
              BY <1>3, <6>1
            <7> QED
              BY <4>4, <7>1
          <6>2. CASE i # L - 1
            <7>1. i < L - 1
              BY <1>3, <4>1, <6>2
            <7> QED
              BY <4>2, <7>1
          <6> QED
            BY <6>1, <6>2
        <5>2. (n = frames[i][1] /\ m \in frames[i][2]) \/ lows[frames[i][1]] <= index[m]
          BY <3>2, <4>1, <5>1 DEF Held, Lowlinks
        <5>3. lows[frames[i][1]] <= index[m] => low'[frames[i][1]] <= index[m]
          BY <4>3
        <5> QED
          BY <1>2, <4>1, <5>2, <5>3
      <4>5. CASE ~ (index[n] < index[node])
        <5>1. i = L - 1 /\ L > 1 /\ frames[i][1] = up
          <6>1. L > 1
            BY <1>3, <4>1
          <6>2. ~ (i < L - 1)
            <7> SUFFICES ASSUME i < L - 1 PROVE FALSE
              OBVIOUS
            <7>1. i + 1 \in 1 .. L - 1
              BY <1>3, <4>1
            <7>2. index[frames[i + 1][1]] < index[node] /\ index[frames[i + 1][1]] \in Nat
              BY <1>4, <1>5, <7>1
            <7> QED
              BY <4>2, <4>3, <4>5, <7>2
          <6>3. i = L - 1
            BY <1>3, <4>1, <6>2
          <6> QED
            BY <6>1, <6>3 DEF up
        <5>2. lows[node] <= index[m]
          <6>1. index[node] <= index[n] /\ ~ (L < L)
            BY <1>3, <4>3, <4>5
          <6>2. (n = frames[L][1] /\ m \in frames[L][2]) \/ lows[frames[L][1]] <= index[m]
            BY <1>3, <3>2, <4>1, <6>1 DEF Held, Lowlinks
          <6> QED
            BY <6>2
        <5>3. low'[up] <= lows[node]
          BY <1>7, <5>1
        <5>4. low'[up] <= index[m]
          BY <4>3, <5>1, <5>2, <5>3
        <5> QED
          BY <1>2, <4>1, <5>1, <5>4
      <4> QED
        BY <4>4, <4>5
    <3>3. \A n \in Range(stack') :
            /\ low'[n] <= index'[n]
            /\ \E m \in Range(stack') : low'[n] = index'[m] /\ m \in From(n)'
      BY <1>2, <1>9, <3>1
    <3>4. \A i \in 1 .. Len(work') : \A n \in Range(stack') :
            /\ index'[work'[i][1]] <= index'[n]
            /\ i < Len(work') => index'[n] < index'[work'[i + 1][1]]
            => \A m \in Neighbours(n)' \cap Range(stack') :
                 (n = work'[i][1] /\ m \in work'[i][2]) \/ low'[work'[i][1]] <= index'[m]
      BY <1>2, <3>2
    <3> QED
      BY <1>2, <1>7, <3>3, <3>4 DEF Lowlinks
  <2> QED
    BY <2>1, <2>2, <2>3 DEF Held
<1>10. ReadOut(work, {})'
  <2>1. ASSUME NEW n \in Indexed, NEW m \in Neighbours(n)
        PROVE  \/ m \in Indexed
               \/ \E i \in 1 .. Len(work') : work'[i][1] = n /\ m \in work'[i][2]
    <3> SUFFICES ASSUME m \notin Indexed
                 PROVE  \E i \in 1 .. Len(work') : work'[i][1] = n /\ m \in work'[i][2]
      OBVIOUS
    <3>1. PICK i \in 1 .. L : frames[i][1] = n /\ m \in frames[i][2]
      BY <2>1 DEF ReadOut
    <3>2. i # L
      BY <3>1
    <3>3. i \in 1 .. L - 1
      BY <1>3, <3>1, <3>2
    <3> QED
      BY <1>3, <3>1, <3>3
  <2>2. \A n \in Indexed' : \A m \in Neighbours(n)' :
          \/ m \in Indexed' \cup {}
          \/ \E i \in 1 .. Len(work') : work'[i][1] = n /\ m \in work'[i][2]
    BY <1>2, <2>1
  <2> QED
    BY <2>2 DEF ReadOut
<1>11. \A i \in 1 .. L : index[frames[i][1]] <= index[node]
  <2> TAKE i \in 1 .. L
  <2>1. i = L \/ i \in 1 .. L - 1
    BY <1>3
  <2>2. index[node] \in Nat /\ index[frames[i][1]] \in Nat /\ node = frames[L][1]
    BY <1>1, <1>4
  <2> QED
    BY <1>5, <2>1, <2>2
<1>12. CASE lows[node] # index[node]
  <2>1. comps' = comps /\ stack' = stack
    BY <1>12
  <2>2. PICK m \in onStack : lows[node] = index[m] /\ m \in From(node)
    BY <1>4 DEF Held, Lowlinks
  <2>3. index[m] < index[node] /\ index[m] \in Nat /\ index[node] \in Nat
    <3>1. index[m] \in Nat /\ index[node] \in Nat
      BY <1>1, <1>4
    <3>2. lows[node] <= index[node]
      BY <1>4 DEF Held, Lowlinks
    <3> QED
      BY <1>12, <2>2, <3>1, <3>2
  <2>4. PICK j \in 1 .. L : index[frames[j][1]] <= index[m] /\ frames[j][1] \in From(m)
    BY DEF Held, Chained
  <2>5. j \in 1 .. L - 1 /\ L > 1
    <3>1. index[frames[j][1]] \in Nat
      BY <1>4
    <3>2. j # L
      BY <2>3, <2>4, <3>1
    <3> QED
      BY <1>3, <2>4, <3>2
  <2>6. frames[j][1] \in From(node)
    BY <1>1, <1>4, <2>2, <2>4, FromIs
  <2>7. Left
    <3>1. \A i \in 1 .. L - 1 : frames[i][1] \in Range(stack')
      BY <1>4, <1>5, <2>1
    <3>2. ASSUME NEW n \in Range(stack')
          PROVE  \E i \in 1 .. L - 1 : index[frames[i][1]] <= index[n] /\ frames[i][1] \in From(n)
      <4>1. PICK i \in 1 .. L : index[frames[i][1]] <= index[n] /\ frames[i][1] \in From(n)
        BY <2>1 DEF Held, Chained
      <4>2. CASE i # L
        <5>1. i \in 1 .. L - 1
          BY <1>3, <4>2
        <5> QED
          BY <4>1, <5>1
      <4>3. CASE i = L
        <5>1. n \in Nodes /\ node \in From(n) /\ index[node] <= index[n]
          BY <1>1, <2>1, <4>1, <4>3
        <5>2. frames[j][1] \in From(n)
          BY <1>1, <2>6, <5>1, FromIs
        <5>3. index[frames[j][1]] <= index[n]
          <6>1. index[frames[j][1]] \in Nat /\ index[n] \in Nat
            BY <1>1, <1>4, <2>1
          <6> QED
            BY <2>3, <2>4, <5>1, <6>1
        <5> QED
          BY <2>5, <5>2, <5>3
      <4> QED
        BY <4>2, <4>3
    <3>3. ASSUME NEW n \in Range(stack')
          PROVE  \E k \in Range(stack') : low'[n] = index[k] /\ k \in From(n)
      <4>1. n \in onStack /\ n \in Indexed
        BY <1>1, <2>1
      <4>2. CASE low'[n] = lows[n]
        BY <2>1, <4>1, <4>2 DEF Held, Lowlinks
      <4>3. CASE low'[n] # lows[n]
        <5>1. n = up /\ L > 1
          BY <1>3, <1>7, <2>5, <4>1, <4>3
        <5>2. low'[n] = index[m]
          BY <1>7, <2>2, <4>3, <5>1
        <5>3. index[n] <= index[node]
          <6>1. index[up] < index[node]
            BY <1>6, <5>1
          <6>2. index[n] \in Nat /\ index[node] \in Nat
            BY <1>1, <1>4, <4>1
          <6> QED
            BY <5>1, <6>1, <6>2
        <5>4. node \in From(n)
          BY <1>4, <4>1, <5>3 DEF Held, Chained
        <5>5. m \in From(n)
          BY <1>1, <2>2, <4>1, <5>4, FromIs
        <5> QED
          BY <2>1, <2>2, <5>2, <5>5
      <4> QED
        BY <4>2, <4>3
    <3> QED
      BY <2>1, <2>5, <3>1, <3>2, <3>3
  <2>8. Met'
    <3>1. Mapped'
      BY <1>1, <1>2, <2>1 DEF Mapped
    <3>2. Numbered' /\ Stacked'
      BY <1>2, <2>1 DEF Met, Numbered, Stacked
    <3>3. \A ci : Members(ci)' = Members(ci)
      BY <2>1 DEF Members
    <3>4. \A x : Placed(x)' <=> Placed(x)
      BY <2>1, <3>3 DEF Placed
    <3>5. Shared'
      BY <1>2, <2>1, <3>3, <3>4 DEF Met, Shared
    <3>6. Mutual'
      BY <1>2, <2>1, <3>3 DEF Met, Mutual
    <3> QED
      BY <3>1, <3>2, <3>5, <3>6 DEF Met
  <2> HIDE DEF Left
  <2> QED
    BY <1>9, <1>10, <2>7, <2>8 DEF Searching
<1>13. CASE lows[node] = index[node]
  <2> DEFINE popped == Reverse(SubSeq(stack, cut, Len(stack)))
  <2>1. comps' = Append(comps, popped) /\ stack' = SubSeq(stack, 1, cut - 1)
    BY <1>13
  <2>2. /\ stack' \in Seq(Indexed) /\ Len(stack') <= Len(stack)
        /\ \A i \in 1 .. Len(stack') : stack'[i] = stack[i]
        /\ Range(stack') = {n \in onStack : index[n] < index[node]}
        /\ popped \in Seq(Nodes)
        /\ Range(popped) = {n \in onStack : index[n] >= index[node]}
    <3>1. Mapped /\ Stacked
      BY DEF Met
    <3>3. cut \in 1 .. Len(stack) /\ stack[cut] = node
      <4>1. \E i \in 1 .. Len(stack) : stack[i] = node
        <5>1. DOMAIN stack = 1 .. Len(stack)
          BY <1>1
        <5> QED
          BY <1>4, <5>1 DEF Range
      <4> QED
        BY <4>1, Zenon
    <3>2. CutAt(node, stack', popped)
      BY <2>1, <3>1, <3>3, PopParts
    <3> HIDE DEF popped
    <3> QED
      BY <3>2 DEF CutAt
  <2> HIDE DEF popped
  <2>0. PICK K \in Nat : K = Len(comps)
    BY <1>1
  <2>3. /\ K \in Nat /\ comps' \in Seq(Seq(Nodes)) /\ Len(comps') = K + 1
        /\ \A ci \in 1 .. K : comps'[ci] = comps[ci]
        /\ comps'[K + 1] = popped
    BY <1>1, <2>0, <2>1, <2>2
  <2> DEFINE New == {n \in onStack : index[n] >= index[node]}
  <2>4. /\ \A ci \in 1 .. K : Members(ci)' = Members(ci)
        /\ Members(K + 1)' = New
    BY <2>2, <2>3 DEF Members
  <2>5. ASSUME NEW n \in Indexed
        PROVE  /\ n \in Range(stack') => n \in onStack /\ index[n] < index[node]
               /\ n \in onStack => n \in Range(stack') \/ n \in New
               /\ ~ (n \in Range(stack') /\ n \in New)
    <3>1. index[n] \in Nat /\ index[node] \in Nat
      BY <1>1, <1>4
    <3>2. index[n] < index[node] <=> ~ (index[n] >= index[node])
      BY <3>1
    <3> QED
      BY <2>2, <3>2
  <2>6. /\ \A n \in Indexed : n \in onStack <=> ~ Placed(n)
        /\ \A ci \in 1 .. K : Members(ci) \subseteq Indexed
        /\ \A ci, cj \in 1 .. K : ci = cj \/ Members(ci) \cap Members(cj) = {}
    BY <2>0 DEF Met, Shared
  <2>7. \A n : Placed(n)' <=> Placed(n) \/ n \in New
    <3>1. ASSUME NEW n, Placed(n)' PROVE Placed(n) \/ n \in New
      <4>1. PICK ci \in 1 .. K + 1 : n \in Members(ci)'
        BY <2>3, <3>1 DEF Placed
      <4>2. CASE ci = K + 1
        BY <2>4, <4>1, <4>2
      <4>3. CASE ci # K + 1
        <5>1. ci \in 1 .. K
          BY <2>3, <4>1, <4>3
        <5> QED
          BY <2>0, <2>4, <4>1, <5>1 DEF Placed
      <4> QED
        BY <4>2, <4>3
    <3>2. ASSUME NEW n, Placed(n) PROVE Placed(n)'
      <4>1. PICK ci \in 1 .. K : n \in Members(ci)
        BY <2>0, <3>2 DEF Placed
      <4>2. ci \in 1 .. Len(comps') /\ n \in Members(ci)'
        BY <2>3, <2>4, <4>1
      <4> QED
        BY <4>2 DEF Placed
    <3>3. ASSUME NEW n \in New PROVE Placed(n)'
      <4>1. K + 1 \in 1 .. Len(comps') /\ n \in Members(K + 1)'
        BY <2>3, <2>4
      <4> QED
        BY <4>1 DEF Placed
    <3> QED
      BY <3>1, <3>2, <3>3
  <2>8. Mapped'
    <3>1. stack' \in Seq(Indexed') /\ comps' \in Seq(Seq(Nodes))
      BY <1>2, <2>2, <2>3
    <3> QED
      BY <1>1, <1>2, <3>1 DEF Mapped
  <2>9. Numbered'
    BY <1>2 DEF Met, Numbered
  <2>10. Stacked'
    <3>1. ASSUME NEW i \in 1 .. Len(stack'), NEW j \in 1 .. Len(stack'), i < j
          PROVE  index'[stack'[i]] < index'[stack'[j]]
      <4>1. Len(stack') \in Nat /\ Len(stack) \in Nat
        <5>1. stack' \in Seq(Indexed)
          BY <2>2
        <5> QED
          BY <1>1, <5>1, LenProperties
      <4>2. i \in 1 .. Len(stack) /\ j \in 1 .. Len(stack)
        BY <2>2, <4>1
      <4>3. index[stack[i]] < index[stack[j]]
        BY <3>1, <4>2 DEF Met, Stacked
      <4> QED
        BY <1>2, <2>2, <4>3
    <3> QED
      BY <3>1 DEF Stacked
  <2>11. Shared'
    <3>1. \A n \in Indexed' : n \in Range(stack') <=> ~ Placed(n)'
      BY <1>2, <2>5, <2>6, <2>7
    <3>2. ASSUME NEW ci \in 1 .. Len(comps')
          PROVE  (ci \in 1 .. K /\ Members(ci)' = Members(ci)) \/ (ci = K + 1 /\ Members(ci)' = New)
      <4>1. ci \in 1 .. K \/ ci = K + 1
        BY <2>3
      <4> QED
        BY <2>4, <4>1
    <3>3. ASSUME NEW ci \in 1 .. Len(comps') PROVE Members(ci)' \subseteq Indexed'
      BY <1>1, <1>2, <2>6, <3>2
    <3>4. \A ci \in 1 .. K : Members(ci) \cap New = {}
      <4> SUFFICES ASSUME NEW ci \in 1 .. K, NEW n \in Members(ci), n \in onStack PROVE FALSE
        OBVIOUS
      <4>1. Placed(n) /\ n \in Indexed
        BY <2>0, <2>6 DEF Placed
      <4> QED
        BY <2>6, <4>1
    <3>5. ASSUME NEW ci \in 1 .. Len(comps'), NEW cj \in 1 .. Len(comps')
          PROVE  ci = cj \/ Members(ci)' \cap Members(cj)' = {}
      <4>1. CASE ci \in 1 .. K /\ cj \in 1 .. K
        BY <2>4, <2>6, <4>1
      <4>2. CASE ci \in 1 .. K /\ cj = K + 1
        BY <2>4, <3>4, <4>2
      <4>3. CASE ci = K + 1 /\ cj \in 1 .. K
        BY <2>4, <3>4, <4>3
      <4> QED
        BY <3>2, <4>1, <4>2, <4>3
    <3> QED
      BY <3>1, <3>3, <3>5 DEF Shared
  <2>12. ASSUME NEW n \in New
         PROVE  /\ \A m \in New : m \in From(n)
                /\ \A m \in Neighbours(n) : \E cj \in 1 .. K + 1 : m \in Members(cj)'
    <3>1. n \in onStack /\ n \in Indexed /\ n \in Nodes /\ index[n] \in Nat /\ index[node] \in Nat
          /\ index[n] >= index[node]
      BY <1>1, <1>4
    <3>2. PICK i \in 1 .. L : index[frames[i][1]] <= index[n] /\ frames[i][1] \in From(n)
      BY <3>1 DEF Held, Chained
    <3>3. node \in From(frames[i][1])
      BY <1>4, <1>11 DEF Held, Chained
    <3>4. node \in From(n)
      BY <1>1, <3>1, <3>2, <3>3, FromIs
    <3>5. ASSUME NEW m \in New PROVE m \in From(n)
      <4>1. index[node] <= index[m] /\ m \in onStack
        BY <1>1, <1>4
      <4>2. m \in From(node)
        BY <1>4, <4>1 DEF Held, Chained
      <4> QED
        BY <1>1, <3>1, <3>4, <4>2, FromIs
    <3>6. ASSUME NEW m \in Neighbours(n) PROVE \E cj \in 1 .. K + 1 : m \in Members(cj)'
      <4>1. m \in Indexed
        <5> SUFFICES ASSUME m \notin Indexed PROVE FALSE
          OBVIOUS
        <5>1. PICK k \in 1 .. L : frames[k][1] = n /\ m \in frames[k][2]
          BY <3>1, <3>6 DEF ReadOut
        <5>2. k # L
          BY <5>1
        <5>3. k \in 1 .. L - 1
          BY <1>3, <5>1, <5>2
        <5>4. index[n] < index[node]
          BY <1>5, <5>1, <5>3
        <5> QED
          BY <3>1, <5>4
      <4>2. CASE m \in onStack
        <5>1. index[frames[L][1]] <= index[n] /\ ~ (L < L)
          BY <1>3, <3>1
        <5>2. (n = frames[L][1] /\ m \in frames[L][2]) \/ lows[frames[L][1]] <= index[m]
          BY <1>3, <3>1, <3>6, <4>2, <5>1 DEF Held, Lowlinks
        <5>3. index[node] <= index[m]
          BY <1>13, <5>2
        <5>4. m \in New
          BY <1>1, <3>1, <4>1, <4>2, <5>3
        <5> QED
          BY <2>3, <2>4, <5>4
      <4>3. CASE m \notin onStack
        <5>1. PICK cj \in 1 .. K : m \in Members(cj)
          BY <2>0, <2>6, <4>1, <4>3 DEF Placed
        <5>2. cj \in 1 .. K + 1 /\ m \in Members(cj)'
          BY <2>3, <2>4, <5>1
        <5> QED
          BY <5>2
      <4> QED
        BY <4>2, <4>3
    <3> QED
      BY <3>5, <3>6
  <2>13. Mutual'
    <3>1. ASSUME NEW ci \in 1 .. Len(comps'), NEW n \in Members(ci)'
          PROVE  /\ \A m \in Members(ci)' : m \in From(n)
                 /\ \A m \in Neighbours(n) : \E cj \in 1 .. ci : m \in Members(cj)'
      <4>1. ci \in 1 .. K \/ ci = K + 1
        BY <2>3
      <4>2. CASE ci = K + 1
        BY <2>4, <2>12, <3>1, <4>2
      <4>3. CASE ci \in 1 .. K
        <5>1. n \in Members(ci) /\ Members(ci)' = Members(ci)
          BY <2>4, <3>1, <4>3
        <5>2. /\ \A m \in Members(ci) : m \in From(n)
              /\ \A m \in Neighbours(n) : \E cj \in 1 .. ci : m \in Members(cj)
          BY <2>0, <4>3, <5>1 DEF Met, Mutual
        <5>3. \A cj \in 1 .. ci : Members(cj)' = Members(cj)
          BY <2>3, <2>4, <4>3
        <5> QED
          BY <5>1, <5>2, <5>3
      <4> QED
        BY <4>1, <4>2, <4>3
    <3>2. \A ci \in 1 .. Len(comps') : \A n \in Members(ci)' :
            /\ \A m \in Members(ci)' : m \in From(n)'
            /\ \A m \in Neighbours(n)' : \E cj \in 1 .. ci : m \in Members(cj)'
      BY <1>2, <3>1
    <3> QED
      BY <3>2 DEF Mutual
  <2>14. Left
    <3>1. Range(stack') \subseteq onStack
      BY <2>2
    <3>2. ASSUME NEW i \in 1 .. L - 1 PROVE frames[i][1] \in Range(stack')
      BY <1>4, <1>5, <2>2
    <3>3. ASSUME NEW n \in Range(stack')
          PROVE  \E i \in 1 .. L - 1 : index[frames[i][1]] <= index[n] /\ frames[i][1] \in From(n)
      <4>1. PICK i \in 1 .. L : index[frames[i][1]] <= index[n] /\ frames[i][1] \in From(n)
        BY <3>1 DEF Held, Chained
      <4>2. i # L
        <5>1. index[n] < index[node] /\ index[n] \in Nat /\ index[node] \in Nat
          BY <1>1, <1>4, <2>2
        <5> QED
          BY <4>1, <5>1
      <4>3. i \in 1 .. L - 1
        BY <1>3, <4>1, <4>2
      <4> QED
        BY <4>1, <4>3
    <3>4. ASSUME NEW n \in Range(stack')
          PROVE  \E m \in Range(stack') : low'[n] = index[m] /\ m \in From(n)
      <4>1. n \in onStack /\ n \in Indexed /\ index[n] < index[node]
        BY <1>1, <2>2
      <4>2. PICK m \in onStack : lows[n] = index[m] /\ m \in From(n)
        BY <4>1 DEF Held, Lowlinks
      <4>3. /\ index[n] \in Nat /\ index[m] \in Nat /\ index[node] \in Nat /\ lows[n] \in Nat
            /\ lows[n] <= index[n]
        BY <1>1, <1>4, <4>1 DEF Held, Lowlinks
      <4>4. m \in Range(stack')
        BY <2>2, <4>1, <4>2, <4>3
      <4>5. low'[n] = lows[n]
        <5> SUFFICES ASSUME low'[n] # lows[n] PROVE FALSE
          OBVIOUS
        <5>1. n = up /\ L > 1
          <6>1. ~ (L = 1 \/ n # up)
            BY <1>7, <4>1
          <6> QED
            BY <1>3, <6>1
        <5>2. low'[n] = lows[node] /\ low'[n] <= lows[n]
          BY <1>7, <5>1
        <5> QED
          BY <1>13, <4>1, <4>3, <5>2
      <4> QED
        BY <4>2, <4>4, <4>5
    <3>5. ASSUME NEW n \in Range(stack'), index[n] >= index[node] PROVE FALSE
      BY <1>1, <1>4, <2>2, <3>5
    <3> QED
      BY <3>1, <3>2, <3>3, <3>4, <3>5
  <2>15. Met'
    BY <2>8, <2>9, <2>10, <2>11, <2>13 DEF Met
  <2> HIDE DEF Left
  <2> QED
    BY <1>9, <1>10, <2>14, <2>15 DEF Searching
<1> QED
  BY <1>12, <1>13

LEMMA StartKeeps ==
  ASSUME Searching, Start
  PROVE  Searching'
<1> DEFINE n == Min(Nodes \ Indexed)
<1>1. n \in Nodes \ Indexed
  <2>1. Indexed \subseteq Nodes
    BY DEF Searching, Met, Mapped
  <2>2. (Nodes \ Indexed) \in SUBSET Nat /\ Nodes \ Indexed # {}
    BY <2>1, NodesAreNumbers DEF Start
  <2> QED
    BY <2>2, MinIs
<1> HIDE DEF n
<1>2. Pushed(n, low, work) /\ UNCHANGED edges /\ work = << >>
  BY DEF Start, n
<1>3. Range(stack) = {}
  <2>1. 1 .. Len(work) = {}
    BY <1>2, EmptySeq
  <2> QED
    BY <2>1 DEF Searching, Held, Chained
<1>4. ReadOut(work, {n})
  BY DEF Searching, ReadOut
<1> QED
  BY <1>1, <1>2, <1>3, <1>4, PushKeeps DEF Searching

\* Everything on the stack reaches the neighbours of the node whose frame is at work.
LEMMA FrameIsReached ==
  ASSUME Searching, work # << >>
  PROVE  /\ Frame[1] \in Nodes /\ Frame[2] \subseteq Neighbours(Frame[1])
         /\ \A s \in Range(stack) : \A n \in Neighbours(Frame[1]) : n \in From(s)
<1> DEFINE L == Len(work)
<1>1. /\ edges \in SUBSET (Nodes \X Nodes) /\ Indexed \subseteq Nodes
      /\ index \in [Indexed -> Nat] /\ stack \in Seq(Indexed)
      /\ work \in Seq(Indexed \X SUBSET Nodes)
  BY DEF Searching, Met, Mapped, Held, Framed
<1>2. Range(stack) \subseteq Indexed
  BY <1>1 DEF Range
<1>3. L \in Nat /\ L \in 1 .. L /\ Frame = work[L]
  BY <1>1, FrontIs DEF Frame
<1>4. /\ \A i \in 1 .. L : work[i][1] \in Range(stack) /\ work[i][2] \subseteq Neighbours(work[i][1])
      /\ \A i, j \in 1 .. L : i < j => index[work[i][1]] < index[work[j][1]]
  BY DEF Searching, Held, Framed
<1>5. Frame[1] \in Range(stack) /\ Frame[2] \subseteq Neighbours(Frame[1])
  <2>1. Frame[1] = work[L][1] /\ Frame[2] = work[L][2]
    BY <1>3
  <2> QED
    BY <1>3, <1>4, <2>1
<1>6. ASSUME NEW s \in Range(stack), NEW n \in Neighbours(Frame[1])
      PROVE  n \in From(s)
  <2>1. PICK i \in 1 .. L : index[work[i][1]] <= index[s] /\ work[i][1] \in From(s)
    BY DEF Searching, Held, Chained
  <2>2. index[work[i][1]] <= index[Frame[1]]
    <3>1. i < L \/ i = L
      BY <1>3, <2>1
    <3>2. index[work[i][1]] \in Nat /\ index[Frame[1]] \in Nat
      BY <1>1, <1>2, <1>4, <1>5
    <3> QED
      BY <1>3, <1>4, <3>1, <3>2
  <2>3. Frame[1] \in From(work[i][1])
    BY <1>4, <1>5, <2>2 DEF Searching, Held, Chained
  <2>4. s \in Nodes /\ Frame[1] \in From(s)
    BY <1>1, <1>2, <2>1, <2>3, FromIs
  <2> QED
    BY <1>1, <1>6, <2>4, FromIs
<1> QED
  BY <1>1, <1>2, <1>5, <1>6

LEMMA DescendKeeps ==
  ASSUME Searching, Descend
  PROVE  Searching'
<1> DEFINE n      == Min(Unseen)
           rest   == {m \in Frame[2] : m > n}
           lows   == [low EXCEPT ![Frame[1]] = LowOf(Read)]
           frames == Append(Front(work), <<Frame[1], rest>>)
<1>1. work # << >> /\ Unseen # {} /\ UNCHANGED edges /\ Pushed(n, lows, frames)
  BY DEF Descend
<1>2. Frame[1] \in Nodes /\ Frame[2] \subseteq Neighbours(Frame[1]) /\ Frame[2] \subseteq Nat
  BY <1>1, FrameIsReached, NodesAreNumbers DEF Neighbours
<1>3. n \in Unseen /\ \A m \in Unseen : n <= m
  <2>1. Unseen \in SUBSET Nat
    BY <1>2 DEF Unseen
  <2> QED
    BY <1>1, <2>1, MinIs
<1> HIDE DEF n
<1>4. n \in Frame[2] /\ n \notin Indexed /\ n \in Nat
  BY <1>2, <1>3 DEF Unseen
<1>5. Read \subseteq Frame[2] \cap Indexed
  <2> SUFFICES ASSUME NEW m \in Read, m \notin Indexed PROVE FALSE
    BY DEF Read
  <2>1. m \in Unseen /\ m \in Nat
    BY <1>2 DEF Read, Unseen
  <2>2. m < m
    BY <2>1 DEF Read
  <2> QED
    BY <2>1, <2>2
<1>6. Frame[2] \cap Indexed \subseteq Read \cup rest
  <2> SUFFICES ASSUME NEW m \in Frame[2] \cap Indexed, m \notin rest PROVE m \in Read
    OBVIOUS
  <2>1. m < n
    BY <1>2, <1>4
  <2>2. ASSUME NEW f \in Unseen PROVE m < f
    <3>1. f \in Nat /\ m \in Nat /\ n <= f
      BY <1>2, <1>3 DEF Unseen
    <3> QED
      BY <1>4, <2>1, <3>1
  <2> QED
    BY <2>2 DEF Read
<1>7. Frame[2] \ (Indexed \cup rest) \subseteq {n}
  <2> SUFFICES ASSUME NEW m \in Frame[2], m \notin Indexed, m \notin rest PROVE m = n
    OBVIOUS
  <2>1. m \in Unseen /\ m \in Nat
    BY <1>2 DEF Unseen
  <2> QED
    BY <1>3, <1>4, <2>1
<1>8. /\ Held(lows, frames)
      /\ ReadOut(frames, Frame[2] \ (Indexed \cup rest))
  <2>1. rest \in SUBSET Frame[2]
    OBVIOUS
  <2> DEFINE seen == Read
  <2>2. seen \in SUBSET (Frame[2] \cap Indexed) /\ Frame[2] \cap Indexed \subseteq seen \cup rest
    BY <1>5, <1>6
  <2>3. lows = [low EXCEPT ![Frame[1]] = LowOf(seen)]
    OBVIOUS
  <2>4. frames = Append(Front(work), <<Frame[1], rest>>)
    OBVIOUS
  <2> HIDE DEF lows, frames, rest, seen
  <2> QED
    BY <1>1, <2>1, <2>2, <2>3, <2>4, ReadKeeps
<1> HIDE DEF lows, frames, rest
<1>9. ReadOut(frames, {n})
  BY <1>7, <1>8 DEF ReadOut
<1>10. n \in Nodes \ Indexed /\ \A s \in Range(stack) : n \in From(s)
  BY <1>1, <1>2, <1>4, FrameIsReached DEF Neighbours
<1> QED
  BY <1>1, <1>8, <1>9, <1>10, PushKeeps DEF Searching

LEMMA CloseKeeps ==
  ASSUME Searching, Close
  PROVE  Searching'
<1> DEFINE node   == Frame[1]
           seen   == Read
           lows   == [low EXCEPT ![node] = LowOf(seen)]
           frames == Append(Front(work), <<node, {}>>)
           cut    == CHOOSE i \in 1 .. Len(stack) : stack[i] = node
<1>1. work # << >> /\ Unseen = {} /\ UNCHANGED <<edges, index>>
  BY DEF Close
<1>2. Frame[2] \subseteq Indexed /\ seen = Frame[2]
  BY <1>1 DEF Unseen, Read
<1>3. /\ work' = Front(work)
      /\ low' = IF Front(work) = << >> THEN lows
                ELSE [lows EXCEPT ![Last(Front(work))[1]] = Min({@, LowOf(seen)})]
      /\ IF LowOf(seen) = index[node]
         THEN /\ comps' = Append(comps, Reverse(SubSeq(stack, cut, Len(stack))))
              /\ stack' = SubSeq(stack, 1, cut - 1)
         ELSE UNCHANGED <<comps, stack>>
  BY DEF Close
<1> HIDE DEF seen
<1>4. /\ Held(lows, frames) /\ ReadOut(frames, Frame[2] \ (Indexed \cup {}))
      /\ lows[node] = LowOf(seen) /\ Front(frames) = Front(work)
  <2>1. /\ {} \in SUBSET Frame[2] /\ seen \in SUBSET (Frame[2] \cap Indexed)
        /\ Frame[2] \cap Indexed \subseteq seen \cup {}
        /\ lows = [low EXCEPT ![Frame[1]] = LowOf(seen)]
        /\ frames = Append(Front(work), <<Frame[1], {}>>)
    BY <1>2
  <2> HIDE DEF lows, frames
  <2> QED
    BY <1>1, <2>1, ReadKeeps
<1>5. frames # << >> /\ frames[Len(frames)] = <<node, {}>>
  <2> DEFINE A == Indexed \X SUBSET Nodes
  <2>1. work \in Seq(A)
    BY DEF Searching, Held, Framed
  <2>2. Last(work) \in A
    <3> HIDE DEF A
    <3> QED
      BY <1>1, <2>1, FrontIs
  <2>3. <<node, {}>> \in A
    BY <2>2 DEF Frame
  <2> HIDE DEF A, node
  <2>4. Front(work) \in Seq(A)
    BY <1>1, <2>1, FrontIs
  <2>5. Len(frames) = Len(Front(work)) + 1 /\ Len(Front(work)) \in Nat
    BY <2>3, <2>4
  <2> QED
    BY <2>3, <2>4, <2>5, EmptySeq
<1>6. node = frames[Len(frames)][1] /\ frames[Len(frames)][2] = {}
  BY <1>5
<1>7. ReadOut(frames, {})
  <2>1. Frame[2] \ (Indexed \cup {}) = {}
    BY <1>2
  <2> QED
    BY <1>4, <2>1
<1>8. cut = CHOOSE i \in 1 .. Len(stack) : stack[i] = node
  OBVIOUS
<1>9. Met
  BY DEF Searching
<1> HIDE DEF lows, frames, cut, node
<1>10. /\ work' = Front(frames)
       /\ low' = IF work' = << >> THEN lows
                 ELSE [lows EXCEPT ![Last(work')[1]] = Min({@, lows[node]})]
       /\ IF lows[node] = index[node]
          THEN /\ comps' = Append(comps, Reverse(SubSeq(stack, cut, Len(stack))))
               /\ stack' = SubSeq(stack, 1, cut - 1)
          ELSE UNCHANGED <<comps, stack>>
  BY <1>3, <1>4
<1> QED
  BY <1>1, <1>4, <1>5, <1>6, <1>7, <1>8, <1>9, <1>10, ClosedKeeps

LEMMA SearchStays ==
  ASSUME Searching, UNCHANGED <<edges, tarjan>>
  PROVE  Searching'
<1>1. UNCHANGED <<edges, index, low, stack, work, comps>>
  BY DEF tarjan
<1>2. \A x : Neighbours(x)' = Neighbours(x) /\ From(x)' = From(x)
  BY <1>1, EdgesStay
<1>3. \A ci : Members(ci)' = Members(ci)
  BY <1>1 DEF Members
<1>4. \A x : Placed(x)' <=> Placed(x)
  BY <1>1, <1>3 DEF Placed
<1>5. Indexed' = Indexed
  BY <1>1 DEF Indexed
<1>6. Mapped' /\ Numbered' /\ Stacked'
  BY <1>1, <1>5 DEF Searching, Met, Mapped, Numbered, Stacked
<1>7. Shared'
  BY <1>1, <1>3, <1>4, <1>5 DEF Searching, Met, Shared
<1>8. Mutual'
  BY <1>1, <1>2, <1>3 DEF Searching, Met, Mutual
<1>9. Framed(work)'
  <2>1. \A i \in 1 .. Len(work) : Neighbours(work[i][1])' = Neighbours(work[i][1])
    BY <1>1 DEF Neighbours
  <2> QED
    BY <1>1, <1>5, <2>1 DEF Searching, Held, Framed
<1>10. Chained(work)'
  BY <1>1, <1>2 DEF Searching, Held, Chained
<1>11. Lowlinks(low, work)'
  BY <1>1, <1>2, <1>5 DEF Searching, Held, Lowlinks
<1>12. ReadOut(work, {})'
  BY <1>1, <1>2, <1>5 DEF Searching, ReadOut
<1> QED
  BY <1>6, <1>7, <1>8, <1>9, <1>10, <1>11, <1>12 DEF Searching, Met, Held

LEMMA SearchStarts ==
  ASSUME GraphInit
  PROVE  Searching
<1>1. /\ edges \in SUBSET (Nodes \X Nodes)
      /\ index = << >> /\ low = << >> /\ stack = << >> /\ work = << >> /\ comps = << >>
  BY GraphsAreGraphs DEF GraphInit
<1>2. Indexed = {} /\ Range(stack) = {}
  BY <1>1 DEF Indexed, Range
<1>3. /\ Len(work) = 0 /\ Len(comps) = 0 /\ Len(stack) = 0
      /\ 1 .. Len(work) = {} /\ 1 .. Len(comps) = {} /\ 1 .. Len(stack) = {}
      /\ << >> \in Seq(Indexed) /\ << >> \in Seq(Seq(Nodes)) /\ << >> \in Seq(Indexed \X SUBSET Nodes)
  BY <1>1
<1>4. index \in [Indexed -> Nat] /\ low \in [Indexed -> Nat]
  BY <1>1, <1>2
<1>5. Mapped /\ Numbered /\ Stacked /\ Shared /\ Mutual
  BY <1>1, <1>2, <1>3, <1>4 DEF Mapped, Numbered, Stacked, Shared, Mutual
<1>6. Framed(work) /\ Chained(work) /\ Lowlinks(low, work) /\ ReadOut(work, {})
  BY <1>1, <1>2, <1>3, <1>4 DEF Framed, Chained, Lowlinks, ReadOut
<1> QED
  BY <1>5, <1>6 DEF Searching, Met, Held

LEMMA SearchGoes == GraphSpec => []Searching
<1>1. GraphInit => Searching
  BY SearchStarts
<1>2. Searching /\ [GraphNext]_vars => Searching'
  <2> SUFFICES ASSUME Searching, [GraphNext]_vars PROVE Searching'
    OBVIOUS
  <2>1. CASE Start
    BY <2>1, StartKeeps
  <2>2. CASE Descend
    BY <2>2, DescendKeeps
  <2>3. CASE Close
    BY <2>3, CloseKeeps
  <2>4. CASE FoldNext \/ SeedHeat \/ Spread
    BY <2>4, SearchStays DEF FoldNext, SeedHeat, Spread
  <2>5. CASE Done \/ UNCHANGED vars
    BY <2>5, SearchStays DEF Done, vars, tarjan
  <2> QED
    BY <2>1, <2>2, <2>3, <2>4, <2>5 DEF GraphNext
<1> QED
  BY <1>1, <1>2, PTL DEF GraphSpec

\* Once the search is over every node is in one component, and what a node reaches is in no
\* later one: in the same one only when it is reached back.
LEMMA ComponentsAre ==
  ASSUME Searching, Condensed
  PROVE  /\ Len(comps) \in Nat
         /\ \A n \in Nodes : /\ CompOf(n) \in 1 .. Len(comps) /\ n \in Members(CompOf(n))
                             /\ \A ci \in 1 .. Len(comps) : n \in Members(ci) => ci = CompOf(n)
         /\ \A ci \in 1 .. Len(comps) : Members(ci) \subseteq Nodes
         /\ \A n \in Nodes : \A m \in From(n) : m \in Nodes /\ CompOf(m) <= CompOf(n)
         /\ \A n, m \in Nodes : CompOf(n) = CompOf(m) => m \in From(n)
<1>1. /\ edges \in SUBSET (Nodes \X Nodes) /\ comps \in Seq(Seq(Nodes))
      /\ work = << >> /\ Indexed = Nodes
  BY DEF Searching, Met, Mapped, Condensed
<1>2. Len(comps) \in Nat
  BY <1>1
<1>3. Range(stack) = {}
  <2>1. 1 .. Len(work) = {}
    BY <1>1, EmptySeq
  <2> QED
    BY <2>1 DEF Searching, Held, Chained
<1>4. /\ \A n \in Nodes : Placed(n)
      /\ \A ci \in 1 .. Len(comps) : Members(ci) \subseteq Nodes
      /\ \A ci, cj \in 1 .. Len(comps) : ci = cj \/ Members(ci) \cap Members(cj) = {}
  BY <1>1, <1>3 DEF Searching, Met, Shared
<1>5. ASSUME NEW n \in Nodes
      PROVE  /\ CompOf(n) \in 1 .. Len(comps) /\ n \in Members(CompOf(n))
             /\ \A ci \in 1 .. Len(comps) : n \in Members(ci) => ci = CompOf(n)
  <2>1. \E ci \in 1 .. Len(comps) : n \in Members(ci)
    BY <1>4 DEF Placed
  <2>2. CompOf(n) \in 1 .. Len(comps) /\ n \in Members(CompOf(n))
    BY <2>1, Zenon DEF CompOf
  <2> QED
    BY <1>4, <2>2
<1>6. ASSUME NEW n \in Nodes, NEW m \in Neighbours(n)
      PROVE  CompOf(m) <= CompOf(n)
  <2>1. m \in Nodes
    BY DEF Neighbours
  <2>2. PICK cj \in 1 .. CompOf(n) : m \in Members(cj)
    BY <1>5, <1>6 DEF Searching, Met, Mutual
  <2>3. cj \in 1 .. Len(comps) /\ cj <= CompOf(n)
    BY <1>2, <1>5, <2>2
  <2> QED
    BY <1>5, <2>1, <2>2, <2>3
<1>7. ASSUME NEW n \in Nodes, NEW m \in From(n)
      PROVE  m \in Nodes /\ CompOf(m) <= CompOf(n)
  <2> DEFINE T == {k \in Nodes : CompOf(k) <= CompOf(n)}
  <2>1. {n} \subseteq T
    BY <1>2, <1>5
  <2>2. ASSUME NEW k \in T \cap Nodes PROVE Neighbours(k) \subseteq T
    <3> SUFFICES ASSUME NEW j \in Neighbours(k) PROVE j \in T
      OBVIOUS
    <3>1. j \in Nodes /\ CompOf(j) <= CompOf(k) /\ CompOf(k) <= CompOf(n)
      BY <1>6 DEF Neighbours
    <3>2. CompOf(j) \in Nat /\ CompOf(k) \in Nat /\ CompOf(n) \in Nat
      BY <1>2, <1>5, <3>1
    <3> QED
      BY <3>1, <3>2
  <2> HIDE DEF T
  <2>3. Reached({n}) \subseteq T
    BY <1>1, <2>1, <2>2, ReachedIs
  <2> QED
    BY <1>7, <2>3 DEF From, T
<1>8. ASSUME NEW n \in Nodes, NEW m \in Nodes, CompOf(n) = CompOf(m)
      PROVE  m \in From(n)
  BY <1>5, <1>8 DEF Searching, Met, Mutual
<1> QED
  BY <1>2, <1>4, <1>5, <1>7, <1>8

LEMMA SearchIsMutual == Searching => ComponentsAreMutual
<1> SUFFICES ASSUME Searching, Condensed
             PROVE  LET reach == [n \in Nodes |-> Reached({n})]
                        of    == [n \in Nodes |-> CompOf(n)]
                    IN
                    /\ \A n \in Nodes : Cardinality({ci \in 1..Len(comps) : n \in Members(ci)}) = 1
                    /\ \A n, m \in Nodes : (of[n] = of[m]) <=> (m \in reach[n] /\ n \in reach[m])
                    /\ \A e \in edges : of[e[2]] <= of[e[1]]
  BY DEF ComponentsAreMutual
<1>1. ASSUME NEW n \in Nodes
      PROVE  Cardinality({ci \in 1..Len(comps) : n \in Members(ci)}) = 1
  <2>1. {ci \in 1..Len(comps) : n \in Members(ci)} = {CompOf(n)}
    BY ComponentsAre
  <2> QED
    BY <2>1, FS_Singleton
<1>2. ASSUME NEW n \in Nodes, NEW m \in Nodes
      PROVE  (CompOf(n) = CompOf(m)) <=> (m \in From(n) /\ n \in From(m))
  <2>1. CompOf(n) = CompOf(m) => m \in From(n) /\ n \in From(m)
    BY ComponentsAre
  <2>2. ASSUME m \in From(n), n \in From(m) PROVE CompOf(n) = CompOf(m)
    <3>1. CompOf(m) <= CompOf(n) /\ CompOf(n) <= CompOf(m)
      BY <2>2, ComponentsAre
    <3>2. CompOf(n) \in 1 .. Len(comps) /\ CompOf(m) \in 1 .. Len(comps) /\ Len(comps) \in Nat
      BY ComponentsAre
    <3> QED
      BY <3>1, <3>2
  <2> QED
    BY <2>1, <2>2
<1>3. ASSUME NEW e \in edges
      PROVE  e[1] \in Nodes /\ e[2] \in Nodes /\ CompOf(e[2]) <= CompOf(e[1])
  <2>1. edges \in SUBSET (Nodes \X Nodes)
    BY DEF Searching, Met, Mapped
  <2>2. e[1] \in Nodes /\ e[2] \in Nodes /\ e = <<e[1], e[2]>>
    BY <2>1
  <2>3. e[2] \in Neighbours(e[1])
    BY <2>2 DEF Neighbours
  <2>4. e[2] \in From(e[1])
    BY <2>1, <2>2, <2>3, FromIs
  <2> QED
    BY <2>2, <2>4, ComponentsAre
<1> QED
  BY <1>1, <1>2, <1>3 DEF From

\* ComponentsAreMutual (core/src/graph.rs), for every graph: whatever the edges, the
\* iterative walk ends with each function in one component, two in the same exactly when
\* each reaches the other, and no edge leads to a component emitted later.
THEOREM ComponentsAreSound == GraphSpec => []ComponentsAreMutual
<1>1. Searching => ComponentsAreMutual
  BY SearchIsMutual
<1> QED
  BY <1>1, SearchGoes, PTL

-----------------------------------------------------------------------------
(* The summaries of py-provers/src/effects.rs. *)

Atom == {Writes(n) : n \in Nodes} \cup {MutatesSelf}

\* The folded components have the writes of what their members reach, are unknown where
\* that is, and kept or handed on what their callees write of their receivers.
Summarised ==
  /\ summary \in Seq([atoms : SUBSET Atom, unknown : BOOLEAN])
  /\ Len(summary) <= Len(comps)
  /\ \A ci \in 1 .. Len(summary) : \A n \in Members(ci) :
       /\ \A m \in Nodes : Writes(m) \in summary[ci].atoms <=> m \in From(n)
       /\ From(n) \cap Unknown # {} => summary[ci].unknown
  /\ \A ci \in 1 .. Len(summary) : \A e \in edges :
       /\ e[1] \in Members(ci) /\ e[2] \notin Members(ci)
       /\ MutatesSelf \in SummaryOf(e[2]).atoms
       => \/ Handing[e] = "fresh"
          \/ Handing[e] = "self" /\ MutatesSelf \in summary[ci].atoms
          \/ Handing[e] = "unknown" /\ summary[ci].unknown

\* What comes after the search comes when it is over.
Phased ==
  /\ summary = << >> \/ Condensed
  /\ (todo = << >> /\ amp = << >>) \/ Folded

\* A step of the search happens only while it is not over, so it finds nothing folded.
LEMMA SearchComesFirst ==
  ASSUME Phased, Start \/ Descend \/ Close
  PROVE  ~ Condensed /\ summary = << >> /\ todo = << >> /\ amp = << >>
<1>1. ~ Condensed
  BY DEF Condensed, Start, Descend, Close
<1> QED
  BY <1>1 DEF Phased, Folded

LEMMA PhaseKeeps ==
  ASSUME Phased, [GraphNext]_vars
  PROVE  Phased'
<1>1. CASE Start \/ Descend \/ Close
  <2>1. UNCHANGED <<summary, todo, amp>>
    BY <1>1 DEF Start, Descend, Close
  <2> QED
    BY <1>1, <2>1, SearchComesFirst DEF Phased
<1>2. ASSUME UNCHANGED tarjan PROVE Condensed' = Condensed
  BY <1>2 DEF tarjan, Condensed, Indexed
<1>3. CASE FoldNext
  <2>1. Condensed /\ UNCHANGED <<tarjan, todo, amp>> /\ Len(summary) < Len(comps)
    BY <1>3 DEF FoldNext
  <2>2. todo = << >> /\ amp = << >>
    BY <2>1 DEF Phased, Folded
  <2> QED
    BY <1>2, <2>1, <2>2 DEF Phased
<1>4. CASE SeedHeat \/ Spread \/ Done \/ UNCHANGED vars
  <2>1. UNCHANGED <<tarjan, summary>>
    BY <1>4 DEF SeedHeat, Spread, Done, vars, tarjan
  <2>2. Condensed' = Condensed /\ Folded' = Folded
    BY <1>2, <2>1 DEF Folded, tarjan
  <2>3. Folded \/ UNCHANGED <<todo, amp>>
    BY <1>4 DEF SeedHeat, Spread, Done, vars, Phased
  <2> QED
    BY <2>1, <2>2, <2>3 DEF Phased
<1> QED
  BY <1>1, <1>3, <1>4 DEF GraphNext

\* What a component inherits over one edge.
LEMMA FoldIs ==
  ASSUME NEW callee \in [atoms : SUBSET Atom, unknown : BOOLEAN], NEW e \in Nodes \X Nodes
  PROVE  /\ Fold(callee, e) \in [atoms : SUBSET Atom, unknown : BOOLEAN]
         /\ \A m \in Nodes : Writes(m) \in Fold(callee, e).atoms <=> Writes(m) \in callee.atoms
         /\ callee.unknown => Fold(callee, e).unknown
         /\ MutatesSelf \in callee.atoms =>
              \/ Handing[e] = "fresh"
              \/ Handing[e] = "self" /\ MutatesSelf \in Fold(callee, e).atoms
              \/ Handing[e] = "unknown" /\ Fold(callee, e).unknown
<1>1. callee.atoms \in SUBSET Atom /\ callee.unknown \in BOOLEAN
  OBVIOUS
<1>2. \A m : Writes(m) # MutatesSelf
  BY DEF Writes, MutatesSelf
<1>3. MutatesSelf \in Atom
  BY DEF Atom
<1>4. Handing[e] \in {"self", "fresh", "unknown"}
  BY GraphsAreGraphs
<1> DEFINE onSelf == MutatesSelf \in callee.atoms
           kept   == IF onSelf /\ Handing[e] = "self" THEN {MutatesSelf} ELSE {}
           atoms  == (callee.atoms \ {MutatesSelf}) \cup kept
           blind  == callee.unknown \/ (onSelf /\ Handing[e] = "unknown")
<1>5. Fold(callee, e) = [atoms |-> atoms, unknown |-> blind]
  BY DEF Fold
<1>6. atoms \in SUBSET Atom /\ blind \in BOOLEAN
  BY <1>1, <1>3
<1>7. \A m \in Nodes : Writes(m) \in atoms <=> Writes(m) \in callee.atoms
  BY <1>2
<1>8. callee.unknown => blind
  OBVIOUS
<1>9. onSelf => \/ Handing[e] = "fresh"
                \/ Handing[e] = "self" /\ MutatesSelf \in atoms
                \/ Handing[e] = "unknown" /\ blind
  BY <1>4
<1> HIDE DEF atoms, blind
<1> QED
  BY <1>5, <1>6, <1>7, <1>8, <1>9

\* The next component's summary has what its members reach, given those of the ones before.
LEMMA FoldKeeps ==
  ASSUME Searching, Summarised, FoldNext
  PROVE  Summarised'
<1> DEFINE S == [atoms : SUBSET Atom, unknown : BOOLEAN]
<1>1. PICK ci \in Nat : ci = Len(summary) + 1
  BY DEF Summarised
<1>2. Condensed /\ Len(summary) < Len(comps) /\ UNCHANGED <<edges, index, low, stack, work, comps>>
  BY DEF FoldNext, tarjan
<1>3. /\ Len(comps) \in Nat
      /\ \A n \in Nodes : /\ CompOf(n) \in 1 .. Len(comps) /\ n \in Members(CompOf(n))
                          /\ \A cj \in 1 .. Len(comps) : n \in Members(cj) => cj = CompOf(n)
      /\ \A cj \in 1 .. Len(comps) : Members(cj) \subseteq Nodes
      /\ \A n \in Nodes : \A m \in From(n) : m \in Nodes /\ CompOf(m) <= CompOf(n)
      /\ \A n, m \in Nodes : CompOf(n) = CompOf(m) => m \in From(n)
  BY <1>2, ComponentsAre
<1>4. /\ summary \in Seq(S) /\ Len(summary) \in Nat /\ ci \in 1 .. Len(comps)
      /\ edges \in SUBSET (Nodes \X Nodes)
  BY <1>1, <1>2, <1>3 DEF Summarised, Searching, Met, Mapped
<1> HIDE DEF S
<1> DEFINE out == {e \in edges : e[1] \in Members(ci) /\ e[2] \notin Members(ci)}
           handed(e) == Fold(summary[CompOf(e[2])], e)
           inherited == {handed(e) : e \in out}
           atoms == (UNION {Own(n) : n \in Members(ci)}) \cup UNION {i.atoms : i \in inherited}
           blind == Members(ci) \cap Unknown # {} \/ \E i \in inherited : i.unknown
           new == [atoms |-> atoms, unknown |-> blind]
<1>5. summary' = Append(summary, new)
  BY <1>1 DEF FoldNext
<1>6. ASSUME NEW e \in out
      PROVE  /\ e \in Nodes \X Nodes /\ e[1] \in Nodes /\ e[2] \in Nodes
             /\ e[2] \in Neighbours(e[1])
             /\ CompOf(e[1]) = ci /\ CompOf(e[2]) \in 1 .. Len(summary)
             /\ summary[CompOf(e[2])] \in S
  <2>1. e \in edges /\ e \in Nodes \X Nodes /\ e[1] \in Nodes /\ e[2] \in Nodes /\ e = <<e[1], e[2]>>
    BY <1>4
  <2>2. e[2] \in Neighbours(e[1])
    BY <2>1 DEF Neighbours
  <2>3. e[2] \in From(e[1])
    BY <1>4, <2>1, <2>2, FromIs
  <2>4. CompOf(e[1]) = ci
    BY <1>3, <1>4, <2>1
  <2>5. CompOf(e[2]) <= ci /\ CompOf(e[2]) # ci /\ CompOf(e[2]) \in 1 .. Len(comps)
    BY <1>3, <2>1, <2>3, <2>4
  <2>6. CompOf(e[2]) \in 1 .. Len(summary)
    BY <1>1, <1>4, <2>5
  <2> QED
    BY <1>4, <2>1, <2>2, <2>4, <2>6, ElementOfSeq
<1>7. ASSUME NEW e \in out
      PROVE  /\ handed(e) \in inherited /\ handed(e) \in S
             /\ \A m \in Nodes : Writes(m) \in handed(e).atoms <=> m \in From(e[2])
             /\ From(e[2]) \cap Unknown # {} => handed(e).unknown
             /\ MutatesSelf \in SummaryOf(e[2]).atoms =>
                  \/ Handing[e] = "fresh"
                  \/ Handing[e] = "self" /\ MutatesSelf \in handed(e).atoms
                  \/ Handing[e] = "unknown" /\ handed(e).unknown
  <2> DEFINE callee == summary[CompOf(e[2])]
  <2>1. /\ \A m \in Nodes : Writes(m) \in callee.atoms <=> m \in From(e[2])
        /\ From(e[2]) \cap Unknown # {} => callee.unknown
    BY <1>3, <1>6 DEF Summarised
  <2>2. callee \in S /\ e \in Nodes \X Nodes /\ SummaryOf(e[2]) = callee
    BY <1>6 DEF SummaryOf
  <2>3. handed(e) = Fold(callee, e)
    OBVIOUS
  <2>4. handed(e) \in inherited
    OBVIOUS
  <2> HIDE DEF callee, handed, inherited, out
  <2>5. /\ Fold(callee, e) \in S
        /\ \A m \in Nodes : Writes(m) \in Fold(callee, e).atoms <=> Writes(m) \in callee.atoms
        /\ callee.unknown => Fold(callee, e).unknown
        /\ MutatesSelf \in callee.atoms =>
             \/ Handing[e] = "fresh"
             \/ Handing[e] = "self" /\ MutatesSelf \in Fold(callee, e).atoms
             \/ Handing[e] = "unknown" /\ Fold(callee, e).unknown
    BY <2>2, FoldIs DEF S
  <2> QED
    BY <2>1, <2>2, <2>3, <2>4, <2>5
<1>8. \A n \in Members(ci) : Own(n) \subseteq Atom
                             /\ \A m \in Nodes : Writes(m) \in Own(n) <=> m = n
  <2> TAKE n \in Members(ci)
  <2>1. n \in Nodes
    BY <1>3, <1>4
  <2>2. \A m : Writes(m) # MutatesSelf /\ (Writes(m) = Writes(n) => m = n)
    BY DEF Writes, MutatesSelf
  <2> QED
    BY <2>1, <2>2 DEF Own, Atom
<1> HIDE DEF handed
<1>9. new \in S
  <2>1. \A i \in inherited : i \in S
    BY <1>7
  <2>2. \A i \in inherited : i.atoms \subseteq Atom
    BY <2>1 DEF S
  <2>3. atoms \subseteq Atom
    <3> HIDE DEF inherited
    <3> QED
      BY <1>8, <2>2
  <2>4. blind \in BOOLEAN
    OBVIOUS
  <2> HIDE DEF atoms, blind
  <2> QED
    BY <2>3, <2>4 DEF S
<1>10. ASSUME NEW m \in Nodes
       PROVE  Writes(m) \in atoms <=> (m \in Members(ci) \/ \E e \in out : m \in From(e[2]))
  <2>1. ASSUME Writes(m) \in atoms PROVE m \in Members(ci) \/ \E e \in out : m \in From(e[2])
    <3>1. CASE \E n \in Members(ci) : Writes(m) \in Own(n)
      BY <1>8, <3>1
    <3>2. CASE \E e \in out : Writes(m) \in handed(e).atoms
      BY <1>7, <3>2
    <3>3. \/ \E n \in Members(ci) : Writes(m) \in Own(n)
          \/ \E e \in out : Writes(m) \in handed(e).atoms
      <4> HIDE DEF out
      <4> QED
        BY <2>1
    <3> QED
      BY <3>1, <3>2, <3>3
  <2>2. ASSUME m \in Members(ci) PROVE Writes(m) \in atoms
    <3>1. Writes(m) \in Own(m)
      BY <1>8, <2>2
    <3> HIDE DEF inherited
    <3> QED
      BY <2>2, <3>1
  <2>3. ASSUME NEW e \in out, m \in From(e[2]) PROVE Writes(m) \in atoms
    <3>1. handed(e) \in inherited /\ Writes(m) \in handed(e).atoms
      BY <1>7, <2>3
    <3> HIDE DEF inherited, out
    <3> QED
      BY <3>1
  <2> QED
    BY <2>1, <2>2, <2>3
<1>11. ASSUME NEW n \in Members(ci), NEW m \in Nodes
       PROVE  (m \in Members(ci) \/ \E e \in out : m \in From(e[2])) <=> m \in From(n)
  <2>0. n \in Nodes /\ Members(ci) \subseteq Nodes /\ CompOf(n) = ci
    BY <1>3, <1>4
  <2>1. m \in Members(ci) => m \in From(n)
    BY <1>3, <1>4, <2>0
  <2>2. ASSUME NEW e \in out, m \in From(e[2]) PROVE m \in From(n)
    <3>1. e[1] \in From(n)
      BY <1>3, <1>6, <2>0
    <3>2. e[2] \in From(n)
      BY <1>4, <1>6, <2>0, <3>1, FromIs
    <3> QED
      BY <1>4, <2>0, <2>2, <3>2, FromIs
  <2>3. ASSUME m \in From(n) PROVE m \in Members(ci) \/ \E e \in out : m \in From(e[2])
    <3> DEFINE T == {k \in Nodes : k \in Members(ci) \/ \E e \in out : k \in From(e[2])}
    <3>1. {n} \subseteq T
      BY <2>0
    <3>2. ASSUME NEW k \in T \cap Nodes, NEW j \in Neighbours(k) PROVE j \in T
      <4>1. j \in Nodes /\ <<k, j>> \in edges
        BY DEF Neighbours
      <4>2. CASE k \in Members(ci) /\ j \in Members(ci)
        BY <4>1, <4>2
      <4>3. CASE k \in Members(ci) /\ j \notin Members(ci)
        <5>1. <<k, j>> \in out /\ <<k, j>>[2] = j
          BY <4>1, <4>3
        <5>2. j \in From(j)
          BY <1>4, <4>1, FromIs
        <5>3. \E e \in out : j \in From(e[2])
          BY <5>1, <5>2
        <5> HIDE DEF out
        <5> QED
          BY <4>1, <5>3
      <4>4. CASE \E e \in out : k \in From(e[2])
        <5>1. PICK e \in out : k \in From(e[2])
          BY <4>4
        <5>2. j \in From(e[2])
          BY <1>4, <1>6, <3>2, <5>1, FromIs
        <5> HIDE DEF out
        <5> QED
          BY <4>1, <5>2
      <4> QED
        BY <4>2, <4>3, <4>4
    <3> HIDE DEF T
    <3>3. Reached({n}) \subseteq T
      BY <1>4, <2>0, <3>1, <3>2, ReachedIs
    <3> QED
      BY <2>3, <3>3 DEF From, T
  <2> QED
    BY <2>1, <2>2, <2>3
<1>12. ASSUME NEW n \in Members(ci), From(n) \cap Unknown # {}
       PROVE  blind
  <2>1. PICK u \in Unknown : u \in From(n)
    BY <1>12
  <2>2. u \in Nodes
    BY <1>3, <1>4, <2>1
  <2>3. CASE u \in Members(ci)
    BY <2>1, <2>3
  <2>4. CASE \E e \in out : u \in From(e[2])
    <3>1. PICK e \in out : u \in From(e[2])
      BY <2>4
    <3>2. handed(e) \in inherited /\ handed(e).unknown
      BY <1>7, <2>1, <3>1
    <3> HIDE DEF inherited
    <3> QED
      BY <3>2
  <2> QED
    BY <1>11, <2>1, <2>2, <2>3, <2>4
<1>13. ASSUME NEW e \in out, MutatesSelf \in SummaryOf(e[2]).atoms
       PROVE  \/ Handing[e] = "fresh"
              \/ Handing[e] = "self" /\ MutatesSelf \in atoms
              \/ Handing[e] = "unknown" /\ blind
  <2>1. /\ handed(e) \in inherited
        /\ \/ Handing[e] = "fresh"
           \/ Handing[e] = "self" /\ MutatesSelf \in handed(e).atoms
           \/ Handing[e] = "unknown" /\ handed(e).unknown
    BY <1>7, <1>13
  <2> HIDE DEF inherited, out
  <2> QED
    BY <2>1
<1>14. new.atoms = atoms /\ new.unknown = blind
  OBVIOUS
<1> HIDE DEF new, atoms, blind
\* The summaries after the step: those before it, and the new one.
<1>15. /\ summary' \in Seq(S) /\ Len(summary') = ci
       /\ \A cj \in 1 .. Len(summary) : summary'[cj] = summary[cj]
       /\ summary'[ci] = new
  BY <1>1, <1>4, <1>5, <1>9
<1>16. /\ \A x : Neighbours(x)' = Neighbours(x) /\ From(x)' = From(x)
       /\ \A cj : Members(cj)' = Members(cj)
       /\ \A x : CompOf(x)' = CompOf(x)
       /\ comps' = comps /\ edges' = edges
  <2>1. UNCHANGED edges /\ comps' = comps
    BY <1>2
  <2>2. \A cj : Members(cj)' = Members(cj)
    BY <2>1 DEF Members
  <2>3. \A x : CompOf(x)' = CompOf(x)
    BY <2>1 DEF CompOf, Members
  <2> QED
    BY <2>1, <2>2, <2>3, EdgesStay
<1>17. ASSUME NEW cj \in 1 .. ci
       PROVE  cj = ci \/ cj \in 1 .. Len(summary)
  BY <1>1, <1>4
<1>18. ASSUME NEW cj \in 1 .. ci, NEW n \in Members(cj)
       PROVE  /\ \A m \in Nodes : Writes(m) \in summary'[cj].atoms <=> m \in From(n)
              /\ From(n) \cap Unknown # {} => summary'[cj].unknown
  <2>1. CASE cj = ci
    <3>1. \A m \in Nodes : Writes(m) \in atoms <=> m \in From(n)
      BY <1>10, <1>11, <1>18, <2>1
    <3>2. From(n) \cap Unknown # {} => blind
      BY <1>12, <1>18, <2>1
    <3> QED
      BY <1>14, <1>15, <2>1, <3>1, <3>2
  <2>2. CASE cj \in 1 .. Len(summary)
    <3>1. summary'[cj] = summary[cj]
      BY <1>15, <2>2
    <3> QED
      BY <1>18, <2>2, <3>1 DEF Summarised
  <2> QED
    BY <1>17, <2>1, <2>2
<1>19. ASSUME NEW cj \in 1 .. ci, NEW e \in edges,
              e[1] \in Members(cj), e[2] \notin Members(cj),
              MutatesSelf \in SummaryOf(e[2])'.atoms
       PROVE  \/ Handing[e] = "fresh"
              \/ Handing[e] = "self" /\ MutatesSelf \in summary'[cj].atoms
              \/ Handing[e] = "unknown" /\ summary'[cj].unknown
  <2>1. CompOf(e[2]) \in 1 .. Len(summary)
    <3>1. e[1] \in Nodes /\ e[2] \in Nodes /\ e = <<e[1], e[2]>>
      BY <1>4
    <3>2. e[2] \in From(e[1])
      <4>1. e[2] \in Neighbours(e[1])
        BY <3>1 DEF Neighbours
      <4> QED
        BY <1>4, <3>1, <4>1, FromIs
    <3>3. cj \in 1 .. Len(comps)
      BY <1>3, <1>4
    <3>4. CompOf(e[1]) = cj /\ CompOf(e[2]) # cj /\ CompOf(e[2]) <= cj /\ CompOf(e[2]) \in 1 .. Len(comps)
      BY <1>3, <1>19, <3>1, <3>2, <3>3
    <3> QED
      BY <1>1, <1>3, <1>4, <3>3, <3>4
  <2>2. SummaryOf(e[2])' = SummaryOf(e[2])
    BY <1>15, <1>16, <2>1 DEF SummaryOf
  <2>3. MutatesSelf \in SummaryOf(e[2]).atoms
    BY <1>19, <2>2
  <2>4. CASE cj = ci
    <3>1. e \in out
      BY <1>19, <2>4
    <3> HIDE DEF out
    <3> QED
      BY <1>13, <1>14, <1>15, <2>3, <2>4, <3>1
  <2>5. CASE cj \in 1 .. Len(summary)
    <3>1. summary'[cj] = summary[cj]
      BY <1>15, <2>5
    <3> QED
      BY <1>19, <2>3, <2>5, <3>1 DEF Summarised
  <2> QED
    BY <1>17, <2>4, <2>5
<1>20. Len(summary') <= Len(comps')
  BY <1>3, <1>4, <1>15, <1>16
<1>21. \A cj \in 1 .. Len(summary') : \A n \in Members(cj)' :
         /\ \A m \in Nodes : Writes(m) \in summary'[cj].atoms <=> m \in From(n)'
         /\ From(n)' \cap Unknown # {} => summary'[cj].unknown
  BY <1>15, <1>16, <1>18
<1>22. \A cj \in 1 .. Len(summary') : \A e \in edges' :
         /\ e[1] \in Members(cj)' /\ e[2] \notin Members(cj)'
         /\ MutatesSelf \in SummaryOf(e[2])'.atoms
         => \/ Handing[e] = "fresh"
            \/ Handing[e] = "self" /\ MutatesSelf \in summary'[cj].atoms
            \/ Handing[e] = "unknown" /\ summary'[cj].unknown
  BY <1>15, <1>16, <1>19
<1> QED
  BY <1>15, <1>20, <1>21, <1>22 DEF Summarised, S

LEMMA SummariesStay ==
  ASSUME Summarised, UNCHANGED <<edges, comps, summary>>
  PROVE  Summarised'
<1>1. UNCHANGED edges
  OBVIOUS
<1>2. \A x : From(x)' = From(x)
  BY <1>1, EdgesStay
<1>3. \A cj : Members(cj)' = Members(cj)
  BY DEF Members
<1>4. \A x : SummaryOf(x)' = SummaryOf(x)
  BY DEF SummaryOf, CompOf, Members
<1> QED
  BY <1>2, <1>3, <1>4 DEF Summarised

LEMMA NothingSummarised ==
  ASSUME summary = << >>, Len(comps) \in Nat
  PROVE  Summarised
<1>1. Len(summary) = 0 /\ summary \in Seq([atoms : SUBSET Atom, unknown : BOOLEAN])
  BY EmptySeq
<1>2. 1 .. Len(summary) = {}
  BY <1>1
<1> QED
  BY <1>1, <1>2 DEF Summarised

SInv == Searching /\ Phased /\ Summarised

LEMMA SummariesGo == GraphSpec => []SInv
<1>1. GraphInit => SInv
  <2> SUFFICES ASSUME GraphInit PROVE SInv
    OBVIOUS
  <2>1. Searching /\ summary = << >> /\ comps = << >>
    BY SearchStarts DEF GraphInit
  <2>2. Len(comps) \in Nat
    BY <2>1, EmptySeq
  <2>3. [q \in {} |-> 0] = << >>
    BY EmptySeq, SeqEqual
  <2>4. Phased
    BY <2>3 DEF GraphInit, Phased
  <2> QED
    BY <2>1, <2>2, <2>4, NothingSummarised DEF SInv
<1>2. SInv /\ [GraphNext]_vars => SInv'
  <2> SUFFICES ASSUME SInv, [GraphNext]_vars PROVE SInv'
    OBVIOUS
  <2>1. Searching' /\ Phased'
    <3>1. Searching /\ Phased
      BY DEF SInv
    <3>2. CASE Start
      BY <3>1, <3>2, StartKeeps, PhaseKeeps
    <3>3. CASE Descend
      BY <3>1, <3>3, DescendKeeps, PhaseKeeps
    <3>4. CASE Close
      BY <3>1, <3>4, CloseKeeps, PhaseKeeps
    <3>5. CASE FoldNext \/ SeedHeat \/ Spread
      BY <3>1, <3>5, SearchStays, PhaseKeeps DEF FoldNext, SeedHeat, Spread
    <3>6. CASE Done \/ UNCHANGED vars
      BY <3>1, <3>6, SearchStays, PhaseKeeps DEF Done, vars, tarjan
    <3> QED
      BY <3>2, <3>3, <3>4, <3>5, <3>6 DEF GraphNext
  <2>2. Summarised'
    <3>1. CASE Start \/ Descend \/ Close
      <4>1. summary' = << >>
        BY <3>1, SearchComesFirst DEF SInv, Start, Descend, Close
      <4>2. comps' \in Seq(Seq(Nodes))
        BY <2>1 DEF Searching, Met, Mapped
      <4>3. Len(comps') \in Nat
        BY <4>2
      <4>4. (summary = << >> /\ Len(comps) \in Nat => Summarised)'
        BY NothingSummarised, PTL
      <4> QED
        BY <4>1, <4>3, <4>4
    <3>2. CASE FoldNext
      BY <3>2, FoldKeeps DEF SInv
    <3>3. CASE SeedHeat \/ Spread \/ Done \/ UNCHANGED vars
      BY <3>3, SummariesStay DEF SInv, SeedHeat, Spread, Done, vars, tarjan
    <3> QED
      BY <3>1, <3>2, <3>3 DEF GraphNext
  <2> QED
    BY <2>1, <2>2 DEF SInv
<1> QED
  BY <1>1, <1>2, PTL DEF GraphSpec

LEMMA SummariesAre == SInv => SummariesAreReachable /\ ReceiversAreKept
<1> SUFFICES ASSUME SInv, Folded PROVE SummariesAreReachable /\ ReceiversAreKept
  BY DEF SummariesAreReachable, ReceiversAreKept
<1>1. Searching /\ Summarised /\ Condensed /\ Len(summary) = Len(comps)
  BY DEF SInv, Folded
<1>2. /\ \A n \in Nodes : /\ CompOf(n) \in 1 .. Len(comps) /\ n \in Members(CompOf(n))
                          /\ \A ci \in 1 .. Len(comps) : n \in Members(ci) => ci = CompOf(n)
      /\ \A n \in Nodes : \A m \in From(n) : m \in Nodes
  BY <1>1, ComponentsAre
<1>3. ASSUME NEW n \in Nodes
      PROVE  /\ {m \in Nodes : Writes(m) \in SummaryOf(n).atoms} = From(n)
             /\ From(n) \cap Unknown # {} => SummaryOf(n).unknown
  <2>1. CompOf(n) \in 1 .. Len(summary) /\ n \in Members(CompOf(n))
    BY <1>1, <1>2
  <2>2. /\ \A m \in Nodes : Writes(m) \in summary[CompOf(n)].atoms <=> m \in From(n)
        /\ From(n) \cap Unknown # {} => summary[CompOf(n)].unknown
    BY <1>1, <2>1 DEF Summarised
  <2>3. From(n) \subseteq Nodes
    BY <1>2
  <2> QED
    BY <2>2, <2>3 DEF SummaryOf
<1>4. SummariesAreReachable
  BY <1>3 DEF SummariesAreReachable, From
<1>5. ASSUME NEW e \in edges, CompOf(e[1]) # CompOf(e[2]), MutatesSelf \in SummaryOf(e[2]).atoms
      PROVE  \/ Handing[e] = "fresh"
             \/ Handing[e] = "self" /\ MutatesSelf \in SummaryOf(e[1]).atoms
             \/ Handing[e] = "unknown" /\ SummaryOf(e[1]).unknown
  <2>1. edges \in SUBSET (Nodes \X Nodes)
    BY <1>1 DEF Searching, Met, Mapped
  <2>2. e[1] \in Nodes /\ e[2] \in Nodes
    BY <2>1
  <2>3. CompOf(e[1]) \in 1 .. Len(summary) /\ e[1] \in Members(CompOf(e[1])) /\ e[2] \notin Members(CompOf(e[1]))
    BY <1>1, <1>2, <1>5, <2>2
  <2> QED
    BY <1>1, <1>5, <2>3 DEF Summarised, SummaryOf
<1>6. ReceiversAreKept
  BY <1>5 DEF ReceiversAreKept
<1> QED
  BY <1>4, <1>6

\* SummariesAreReachable (py-provers/src/effects.rs), for every graph: a summary has the
\* writes of exactly what its function reaches, and hides nothing unknown that it reaches.
THEOREM SummariesAreSound == GraphSpec => []SummariesAreReachable
<1>1. SInv => SummariesAreReachable
  BY SummariesAre
<1> QED
  BY <1>1, SummariesGo, PTL

\* ReceiversAreKept (py-provers/src/effects.rs), for every graph and whatever the sites hand
\* over: a write to the receiver stays with the object it was made on.
THEOREM ReceiversAreSound == GraphSpec => []ReceiversAreKept
<1>1. SInv => ReceiversAreKept
  BY SummariesAre
<1> QED
  BY <1>1, SummariesGo, PTL

-----------------------------------------------------------------------------
(* The heat of py-provers/src/hotness.rs. *)

\* The loops of the components heat has been through, and the edges under a loop that
\* lead out of them.
Within(t) == {ci \in 1 .. Len(comps) : ci > t /\ \E e \in edges :
                Depth(e) = 1 /\ CompOf(e[1]) = ci /\ CompOf(e[2]) = ci}
Across(t) == {e \in edges : Depth(e) = 1 /\ CompOf(e[1]) > t /\ CompOf(e[1]) # CompOf(e[2])}
Loops(t)  == Cardinality(Within(t)) + Cardinality(Across(t))

\* What heat is once it has gone over the components after t: an edge that leaves a hot
\* function of theirs hands it on, and none is more than the loops of theirs.
Carried(t, heat) ==
  /\ heat \in [DOMAIN heat -> Nat]
  /\ roots \subseteq DOMAIN heat /\ DOMAIN heat \subseteq Reached(roots)
  /\ \A e \in edges : e[1] \in DOMAIN heat /\ CompOf(e[1]) > t =>
       /\ e[2] \in DOMAIN heat
       /\ CompOf(e[1]) # CompOf(e[2]) => heat[e[2]] >= heat[e[1]] + Depth(e)
       /\ CompOf(e[1]) = CompOf(e[2]) => heat[e[2]] >= Depth(e)
  /\ \A q \in DOMAIN heat : heat[q] <= Loops(t)

\* The components it has not reached are the first ones, the last of them next.
Queued(rest) ==
  /\ rest \in Seq(Seq(Nodes)) /\ Len(rest) <= Len(comps)
  /\ \A i \in 1 .. Len(rest) : rest[i] = comps[Len(rest) + 1 - i]

Heated == Queued(todo) /\ Carried(Len(todo), amp)

HInv == SInv /\ roots \in SUBSET Nodes /\ (amp = << >> \/ Heated)

\* The greatest of some numbers that have a bound.
LEMMA MaxIs ==
  ASSUME NEW b \in Nat, NEW S \in SUBSET (0 .. b), S # {}
  PROVE  Max(S) \in S /\ Max(S) \in Nat /\ \A n \in S : n <= Max(S)
<1> DEFINE D == {b - n : n \in S}
<1>1. D \in SUBSET Nat /\ D # {}
  <2>1. \A n \in S : n \in 0 .. b
    OBVIOUS
  <2>2. \A n \in S : b - n \in Nat
    BY <2>1
  <2> QED
    BY <2>2
<1>2. PICK d \in D : \A m \in D : ~(<<m, d>> \in OpToRel(<, Nat))
  <2> HIDE DEF D
  <2> QED
    BY <1>1, NatLessThanWellFounded, WFMin
<1>3. PICK top \in S : d = b - top
  BY <1>2
<1>4. ASSUME NEW n \in S PROVE n <= top
  <2>1. b - n \in D /\ b - n \in Nat /\ d \in Nat
    BY <1>1, <1>2
  <2> HIDE DEF D
  <2>2. ~ (b - n < d)
    BY <1>2, <2>1 DEF OpToRel
  <2>3. n \in Nat /\ top \in Nat
    BY <1>3
  <2> QED
    BY <1>3, <2>2, <2>3
<1>5. top \in S /\ \A n \in S : top >= n
  BY <1>4
<1>6. Max(S) \in S /\ \A n \in S : Max(S) >= n
  <2>1. Max(S) = CHOOSE x \in S : \A y \in S : x >= y
    BY DEF Max
  <2> HIDE DEF Max
  <2> QED
    BY <1>5, <2>1, Zenon
<1>7. Max(S) \in Nat
  <2>1. \A n \in S : n \in 0 .. b
    OBVIOUS
  <2>2. \A n \in S : n \in Nat
    BY <2>1
  <2> QED
    BY <1>6, <2>2, Zenon
<1>8. ASSUME NEW n \in S PROVE n <= Max(S)
  <2>1. n \in Nat /\ Max(S) >= n
    BY <1>6
  <2> QED
    BY <1>7, <2>1
<1> QED
  BY <1>6, <1>7, <1>8

LEMMA EdgesAre ==
  ASSUME Searching, Condensed, NEW e \in edges
  PROVE  /\ e[1] \in Nodes /\ e[2] \in Nodes /\ e[2] \in Neighbours(e[1])
         /\ CompOf(e[1]) \in 1 .. Len(comps) /\ CompOf(e[2]) \in 1 .. Len(comps)
         /\ CompOf(e[2]) <= CompOf(e[1])
         /\ Depth(e) \in {0, 1}
<1>1. edges \in SUBSET (Nodes \X Nodes)
  BY DEF Searching, Met, Mapped
<1>2. e[1] \in Nodes /\ e[2] \in Nodes /\ e = <<e[1], e[2]>>
  BY <1>1
<1>3. e[2] \in Neighbours(e[1])
  BY <1>2 DEF Neighbours
<1>4. e[2] \in From(e[1])
  BY <1>1, <1>2, <1>3, FromIs
<1>5. Depth(e) \in {0, 1}
  BY DEF Depth
<1> QED
  BY <1>2, <1>3, <1>4, <1>5, ComponentsAre

\* The loops behind a component are the ones behind the next, and its own.
LEMMA LoopsAre ==
  ASSUME Searching, Condensed, NEW t \in 1 .. Len(comps), NEW s \in Nat, s = t - 1
  PROVE  /\ Cardinality(Within(t)) \in Nat /\ Cardinality(Within(s)) \in Nat
         /\ Cardinality(Across(t)) \in Nat /\ Cardinality(Across(s)) \in Nat
         /\ Cardinality(Within(t)) <= Cardinality(Within(s))
         /\ Cardinality(Across(t)) <= Cardinality(Across(s))
         /\ \A e \in edges : Depth(e) = 1 /\ CompOf(e[1]) = t /\ CompOf(e[2]) = t
              => Cardinality(Within(t)) + 1 <= Cardinality(Within(s))
         /\ \A e \in edges : Depth(e) = 1 /\ CompOf(e[1]) = t /\ CompOf(e[2]) # t
              => Cardinality(Across(t)) + 1 <= Cardinality(Across(s))
<1>1. Len(comps) \in Nat /\ t \in Nat /\ t <= Len(comps)
  BY ComponentsAre
<1>2. IsFiniteSet(edges)
  <2>1. IsFiniteSet(Nodes \X Nodes)
    BY NodesAreNumbers, FS_Product
  <2>2. edges \subseteq Nodes \X Nodes
    BY DEF Searching, Met, Mapped
  <2> QED
    BY <2>1, <2>2, FS_Subset
<1>3. IsFiniteSet(1 .. Len(comps))
  BY <1>1, FS_Interval
<1>4. \A k : IsFiniteSet(Within(k)) /\ IsFiniteSet(Across(k))
  <2> TAKE k
  <2>1. Within(k) \subseteq 1 .. Len(comps) /\ Across(k) \subseteq edges
    BY DEF Within, Across
  <2> QED
    BY <1>2, <1>3, <2>1, FS_Subset
<1>5. \A k : Cardinality(Within(k)) \in Nat /\ Cardinality(Across(k)) \in Nat
  BY <1>4, FS_CardinalityType
<1>6. Within(t) \subseteq Within(s)
  <2> SUFFICES ASSUME NEW ci \in Within(t) PROVE ci \in Within(s)
    OBVIOUS
  <2>1. ci \in 1 .. Len(comps) /\ ci > t
    BY DEF Within
  <2>2. ci > s
    BY <1>1, <2>1
  <2> QED
    BY <2>2 DEF Within
<1>7. Across(t) \subseteq Across(s)
  <2> SUFFICES ASSUME NEW e \in Across(t) PROVE e \in Across(s)
    OBVIOUS
  <2>1. e \in edges /\ CompOf(e[1]) > t
    BY DEF Across
  <2>2. CompOf(e[1]) > s
    BY <1>1, <2>1, EdgesAre
  <2> QED
    BY <2>2 DEF Across
<1>8. ASSUME NEW A, NEW B, A \subseteq B, IsFiniteSet(B), NEW x, x \in B, x \notin A,
             Cardinality(A) \in Nat, Cardinality(B) \in Nat
      PROVE  Cardinality(A) + 1 <= Cardinality(B)
  <2>1. IsFiniteSet(A)
    BY <1>8, FS_Subset
  <2>2. Cardinality(A \cup {x}) = Cardinality(A) + 1
    BY <1>8, <2>1, FS_AddElement
  <2>3. A \cup {x} \subseteq B
    BY <1>8
  <2>4. Cardinality(A \cup {x}) <= Cardinality(B)
    BY <1>8, <2>3, FS_Subset
  <2> QED
    BY <2>2, <2>4
<1>9. ASSUME NEW e \in edges, Depth(e) = 1, CompOf(e[1]) = t, CompOf(e[2]) = t
      PROVE  Cardinality(Within(t)) + 1 <= Cardinality(Within(s))
  <2>1. t > s /\ ~ (t > t)
    BY <1>1
  <2>2. t \in Within(s) /\ t \notin Within(t)
    BY <1>9, <2>1 DEF Within
  <2> QED
    BY <1>4, <1>5, <1>6, <1>8, <2>2
<1>10. ASSUME NEW e \in edges, Depth(e) = 1, CompOf(e[1]) = t, CompOf(e[2]) # t
       PROVE  Cardinality(Across(t)) + 1 <= Cardinality(Across(s))
  <2>1. t > s /\ ~ (t > t)
    BY <1>1
  <2>2. e \in Across(s) /\ e \notin Across(t)
    BY <1>10, <2>1 DEF Across
  <2> QED
    BY <1>4, <1>5, <1>7, <1>8, <2>2
<1>11. /\ Cardinality(Within(t)) <= Cardinality(Within(s))
       /\ Cardinality(Across(t)) <= Cardinality(Across(s))
  BY <1>4, <1>6, <1>7, FS_Subset
<1> QED
  BY <1>5, <1>9, <1>10, <1>11

\* What is reached from what is reached is reached.
LEMMA ReachedOn ==
  ASSUME edges \in SUBSET (Nodes \X Nodes), NEW from \in SUBSET Nodes, NEW n \in Reached(from)
  PROVE  From(n) \subseteq Reached(from)
<1>1. /\ Reached(from) \in SUBSET Nodes
      /\ \A k \in Reached(from) : Neighbours(k) \subseteq Reached(from)
  BY ReachedIs
<1>2. {n} \in SUBSET Nodes /\ {n} \subseteq Reached(from)
  BY <1>1
<1>3. \A k \in Reached(from) \cap Nodes : Neighbours(k) \subseteq Reached(from)
  BY <1>1
<1> QED
  BY <1>2, <1>3, ReachedIs DEF From

\* What a component that heat has reached makes of it.
LEMMA InsideIs ==
  ASSUME Searching, Condensed, Heated, NEW t \in 1 .. Len(comps), t = Len(todo),
         NEW s \in Nat, s = t - 1,
         NEW comp, comp = Members(t), comp \cap DOMAIN amp # {}
  PROVE  /\ HottestEntry(comp) \in Nat
         /\ \A q \in comp : /\ Inside(comp)[q] \in Nat
                            /\ HottestEntry(comp) <= Inside(comp)[q]
                            /\ Inside(comp)[q] <= Cardinality(Within(s)) + Cardinality(Across(t))
         /\ \A q \in comp \cap DOMAIN amp : amp[q] <= Inside(comp)[q]
         /\ \A e \in edges : e[1] \in comp /\ e[2] \in comp => Depth(e) <= Inside(comp)[e[2]]
<1> DEFINE h == HottestEntry(comp)
           B == Loops(t)
           E == {amp[q] : q \in comp \cap DOMAIN amp}
           V(q) == {h} \cup {h + Depth(e) : e \in {e \in edges : e[1] \in comp /\ e[2] = q}}
<1>1. /\ Cardinality(Within(t)) \in Nat /\ Cardinality(Within(s)) \in Nat /\ Cardinality(Across(t)) \in Nat
      /\ Cardinality(Within(t)) <= Cardinality(Within(s))
      /\ \A e \in edges : Depth(e) = 1 /\ CompOf(e[1]) = t /\ CompOf(e[2]) = t
              => Cardinality(Within(t)) + 1 <= Cardinality(Within(s))
  BY LoopsAre
<1>2. B = Cardinality(Within(t)) + Cardinality(Across(t)) /\ B \in Nat
  BY <1>1 DEF Loops
<1>3. \A q \in DOMAIN amp : amp[q] \in Nat /\ amp[q] <= B
  BY DEF Heated, Carried
<1> HIDE DEF B
<1>4. h \in Nat /\ h <= B /\ \A q \in comp \cap DOMAIN amp : amp[q] <= h
  <2>1. E \in SUBSET (0 .. B) /\ E # {}
    BY <1>2, <1>3
  <2>2. h = Max(E)
    BY DEF HottestEntry
  <2>3. \A q \in comp \cap DOMAIN amp : amp[q] \in E
    OBVIOUS
  <2> HIDE DEF E, h
  <2>4. h \in E /\ h \in Nat /\ \A n \in E : n <= h
    BY <1>2, <2>1, <2>2, MaxIs
  <2>5. h <= B
    BY <1>2, <2>1, <2>4
  <2> QED
    BY <2>3, <2>4, <2>5
<1> HIDE DEF h
<1>5. \A q \in comp : Inside(comp)[q] = Max(V(q))
  BY DEF Inside, h
<1>6. \A n \in comp : n \in Nodes /\ CompOf(n) = t
  BY ComponentsAre
<1>7. \A e \in edges : Depth(e) \in {0, 1}
  BY EdgesAre
<1>8. ASSUME NEW q \in comp
      PROVE  /\ V(q) \in SUBSET (0 .. (h + 1)) /\ h \in V(q)
             /\ \A e \in edges : e[1] \in comp /\ e[2] = q => h + Depth(e) \in V(q)
             /\ \A v \in V(q) : v <= Cardinality(Within(s)) + Cardinality(Across(t))
  <2>1. V(q) \in SUBSET (0 .. (h + 1)) /\ h \in V(q)
    BY <1>4, <1>7
  <2>2. \A e \in edges : e[1] \in comp /\ e[2] = q => h + Depth(e) \in V(q)
    OBVIOUS
  <2>3. h <= Cardinality(Within(s)) + Cardinality(Across(t))
    BY <1>1, <1>2, <1>4
  <2>4. ASSUME NEW e \in edges, e[1] \in comp, e[2] = q
        PROVE  h + Depth(e) <= Cardinality(Within(s)) + Cardinality(Across(t))
    <3>1. CASE Depth(e) = 0
      BY <1>4, <2>3, <3>1
    <3>2. CASE Depth(e) = 1
      <4>1. Cardinality(Within(t)) + 1 <= Cardinality(Within(s))
        BY <1>1, <1>6, <2>4, <3>2
      <4> QED
        BY <1>1, <1>2, <1>4, <3>2, <4>1
    <3> QED
      BY <1>7, <3>1, <3>2
  <2>5. \A v \in V(q) : v = h \/ \E e \in edges : e[1] \in comp /\ e[2] = q /\ v = h + Depth(e)
    OBVIOUS
  <2>6. ASSUME NEW v \in V(q) PROVE v <= Cardinality(Within(s)) + Cardinality(Across(t))
    <3> HIDE DEF V
    <3> QED
      BY <2>3, <2>4, <2>5
  <2> QED
    BY <2>1, <2>2, <2>6
<1> HIDE DEF V
<1>9. ASSUME NEW q \in comp
      PROVE  /\ Inside(comp)[q] \in Nat /\ h <= Inside(comp)[q]
             /\ Inside(comp)[q] <= Cardinality(Within(s)) + Cardinality(Across(t))
             /\ \A e \in edges : e[1] \in comp /\ e[2] = q => h + Depth(e) <= Inside(comp)[q]
  <2>1. V(q) # {} /\ h + 1 \in Nat
    BY <1>4, <1>8
  <2>2. Max(V(q)) \in V(q) /\ Max(V(q)) \in Nat /\ \A n \in V(q) : n <= Max(V(q))
    BY <1>8, <2>1, MaxIs
  <2> QED
    BY <1>5, <1>8, <2>2
<1>10. ASSUME NEW q \in comp \cap DOMAIN amp PROVE amp[q] <= Inside(comp)[q]
  <2>1. amp[q] \in Nat /\ amp[q] <= h /\ h <= Inside(comp)[q] /\ Inside(comp)[q] \in Nat
    BY <1>3, <1>4, <1>9
  <2> QED
    BY <1>4, <2>1
<1>11. ASSUME NEW e \in edges, e[1] \in comp, e[2] \in comp PROVE Depth(e) <= Inside(comp)[e[2]]
  <2>1. h + Depth(e) <= Inside(comp)[e[2]] /\ Inside(comp)[e[2]] \in Nat
    BY <1>9, <1>11
  <2> QED
    BY <1>4, <1>7, <2>1
<1> QED
  BY <1>4, <1>9, <1>10, <1>11 DEF h

Outward(comp) == {e \in edges : e[1] \in comp /\ e[2] \notin comp}

\* The heat `next` is what a component makes of the heat `amp` that reached it, the
\* component's loops and the ones it leads out of counted from s.
Spreads(comp, t, s, next) ==
  /\ next \in [DOMAIN next -> Nat]
  /\ DOMAIN next = DOMAIN amp \cup comp \cup {e[2] : e \in Outward(comp)}
  /\ \A q \in comp : next[q] = Inside(comp)[q]
  /\ \A q \in DOMAIN amp : amp[q] <= next[q]
  /\ \A q \in DOMAIN amp : CompOf(q) > t => next[q] = amp[q]
  /\ \A q \in DOMAIN next : next[q] <= Loops(s)
  /\ \A e \in Outward(comp) : next[e[2]] >= next[e[1]] + Depth(e)

LEMMA PropagatedIs ==
  ASSUME Searching, Condensed, Heated, NEW t \in 1 .. Len(comps), t = Len(todo),
         NEW s \in Nat, s = t - 1,
         NEW comp, comp = Members(t), comp \cap DOMAIN amp # {}
  PROVE  Spreads(comp, t, s, Propagated(comp))
<1> DEFINE heat == Inside(comp)
           hot  == DOMAIN amp \cup comp \cup {e[2] : e \in Outward(comp)}
           had(q) == IF q \in comp THEN {heat[q]}
                     ELSE IF q \in DOMAIN amp THEN {amp[q]} ELSE {}
           over(q) == {heat[e[1]] + Depth(e) : e \in {e \in Outward(comp) : e[2] = q}}
           V(q) == had(q) \cup over(q)
           next == Propagated(comp)
           B == Loops(s)
<1>1. next = [q \in hot |-> Max(V(q))]
  BY DEF Propagated, Outward
<1>2. DOMAIN next = hot /\ \A q \in hot : next[q] = Max(V(q))
  BY <1>1
<1> HIDE DEF next
<1>3. /\ Cardinality(Within(t)) \in Nat /\ Cardinality(Within(s)) \in Nat
      /\ Cardinality(Across(t)) \in Nat /\ Cardinality(Across(s)) \in Nat
      /\ Cardinality(Within(t)) <= Cardinality(Within(s))
      /\ Cardinality(Across(t)) <= Cardinality(Across(s))
      /\ \A e \in edges : Depth(e) = 1 /\ CompOf(e[1]) = t /\ CompOf(e[2]) # t
              => Cardinality(Across(t)) + 1 <= Cardinality(Across(s))
  BY LoopsAre
<1>4. B = Cardinality(Within(s)) + Cardinality(Across(s)) /\ B \in Nat
  BY <1>3 DEF Loops
<1>5. Loops(t) \in Nat /\ Loops(t) <= B
  BY <1>3, <1>4 DEF Loops
<1> HIDE DEF B
<1>6. \A q \in DOMAIN amp : amp[q] \in Nat /\ amp[q] <= B
  <2> TAKE q \in DOMAIN amp
  <2>1. amp[q] \in Nat /\ amp[q] <= Loops(t)
    BY DEF Heated, Carried
  <2> QED
    BY <1>4, <1>5, <2>1
<1>7. /\ \A q \in comp : heat[q] \in Nat /\ heat[q] <= Cardinality(Within(s)) + Cardinality(Across(t))
      /\ \A q \in comp \cap DOMAIN amp : amp[q] <= heat[q]
  BY InsideIs
<1> HIDE DEF heat
<1>8. \A q \in comp : heat[q] <= B
  BY <1>3, <1>4, <1>7
<1>9. \A n \in comp : n \in Nodes /\ CompOf(n) = t
  BY ComponentsAre
<1>10. ASSUME NEW e \in Outward(comp)
       PROVE  /\ e \in edges /\ e[1] \in comp /\ e[2] \notin comp /\ CompOf(e[2]) <= t
              /\ heat[e[1]] + Depth(e) \in Nat /\ heat[e[1]] + Depth(e) <= B
  <2>1. e \in edges /\ e[1] \in comp /\ e[2] \notin comp
    BY DEF Outward
  <2>2. /\ CompOf(e[1]) = t /\ CompOf(e[2]) <= CompOf(e[1]) /\ Depth(e) \in {0, 1}
        /\ e[2] \in Nodes
    BY <1>9, <2>1, EdgesAre
  <2>3. CompOf(e[2]) # t
    <3>1. e[2] \in Members(CompOf(e[2]))
      BY <2>2, ComponentsAre
    <3> QED
      BY <2>1, <3>1
  <2>4. heat[e[1]] \in Nat /\ heat[e[1]] <= Cardinality(Within(s)) + Cardinality(Across(t))
    BY <1>7, <2>1
  <2>5. heat[e[1]] + Depth(e) <= B
    <3>1. CASE Depth(e) = 0
      BY <1>3, <1>4, <2>4, <3>1
    <3>2. CASE Depth(e) = 1
      <4>1. Cardinality(Across(t)) + 1 <= Cardinality(Across(s))
        BY <1>3, <2>1, <2>2, <2>3, <3>2
      <4> QED
        BY <1>3, <1>4, <2>4, <3>2, <4>1
    <3> QED
      BY <2>2, <3>1, <3>2
  <2>6. heat[e[1]] + Depth(e) \in Nat
    BY <2>2, <2>4
  <2> QED
    BY <2>1, <2>2, <2>5, <2>6
<1>11. ASSUME NEW q \in hot
       PROVE  /\ next[q] \in V(q) /\ next[q] \in Nat /\ next[q] <= B
              /\ \A v \in V(q) : v <= next[q]
  <2>1. over(q) \in SUBSET (0 .. B)
    <3> SUFFICES ASSUME NEW e \in Outward(comp) PROVE heat[e[1]] + Depth(e) \in 0 .. B
      OBVIOUS
    <3> QED
      BY <1>4, <1>10
  <2>2. had(q) \in SUBSET (0 .. B)
    BY <1>4, <1>6, <1>7, <1>8
  <2>3. V(q) # {}
    <3>1. CASE q \in DOMAIN amp \/ q \in comp
      <4>1. had(q) # {}
        BY <3>1
      <4> HIDE DEF had, over
      <4> QED
        BY <4>1
    <3>2. CASE \E e \in Outward(comp) : e[2] = q
      <4>1. PICK e \in Outward(comp) : e[2] = q
        BY <3>2
      <4>2. heat[e[1]] + Depth(e) \in over(q)
        BY <4>1
      <4> HIDE DEF had, over
      <4> QED
        BY <4>2
    <3> QED
      BY <3>1, <3>2
  <2>4. V(q) \in SUBSET (0 .. B)
    <3> HIDE DEF had, over
    <3> QED
      BY <2>1, <2>2
  <2> HIDE DEF V
  <2>5. Max(V(q)) \in V(q) /\ Max(V(q)) \in Nat /\ \A n \in V(q) : n <= Max(V(q))
    BY <1>4, <2>3, <2>4, MaxIs
  <2>6. Max(V(q)) <= B
    BY <1>4, <2>4, <2>5
  <2>7. next[q] = Max(V(q))
    BY <1>2
  <2> QED
    BY <2>5, <2>6, <2>7
<1>12. ASSUME NEW q, q \in comp \/ (q \in DOMAIN amp /\ CompOf(q) > t)
       PROVE  over(q) = {}
  <2> SUFFICES ASSUME NEW e \in Outward(comp), e[2] = q PROVE FALSE
    OBVIOUS
  <2>1. e \in edges /\ e[2] \notin comp /\ CompOf(e[2]) <= t
    BY <1>10
  <2>2. CompOf(e[2]) \in 1 .. Len(comps) /\ Len(comps) \in Nat
    BY <2>1, EdgesAre, ComponentsAre
  <2> QED
    BY <1>12, <2>1, <2>2
<1>13. ASSUME NEW q \in comp PROVE next[q] = heat[q]
  <2>1. next[q] \in V(q)
    BY <1>11
  <2>2. V(q) = {heat[q]}
    BY <1>12
  <2> QED
    BY <2>1, <2>2
<1>14. ASSUME NEW q \in DOMAIN amp PROVE amp[q] <= next[q]
  <2>1. CASE q \in comp
    BY <1>7, <1>13, <2>1
  <2>2. CASE q \notin comp
    <3>1. amp[q] \in V(q)
      BY <2>2
    <3> QED
      BY <1>11, <3>1
  <2> QED
    BY <2>1, <2>2
<1>15. ASSUME NEW q \in DOMAIN amp, CompOf(q) > t PROVE next[q] = amp[q]
  <2>1. next[q] \in V(q)
    BY <1>11
  <2>2. q \notin comp
    BY <1>9, <1>15
  <2>3. V(q) = {amp[q]}
    BY <1>12, <1>15, <2>2
  <2> QED
    BY <2>1, <2>3
<1>16. ASSUME NEW e \in Outward(comp) PROVE next[e[2]] >= next[e[1]] + Depth(e)
  <2>1. next[e[1]] = heat[e[1]] /\ e[2] \in hot
    BY <1>10, <1>13
  <2>2. heat[e[1]] + Depth(e) \in over(e[2])
    OBVIOUS
  <2>3. heat[e[1]] + Depth(e) \in V(e[2])
    <3> HIDE DEF over, had
    <3> QED
      BY <2>2
  <2>4. heat[e[1]] + Depth(e) <= next[e[2]] /\ next[e[2]] \in Nat
    BY <1>11, <2>1, <2>3
  <2> QED
    BY <1>10, <2>1, <2>4
<1>17. next \in [DOMAIN next -> Nat]
  <2>1. \A q \in DOMAIN next : next[q] \in Nat
    BY <1>2, <1>11
  <2>2. next = [q \in DOMAIN next |-> next[q]]
    BY <1>1, <1>2
  <2> QED
    BY <2>1, <2>2
<1>18. \A q \in DOMAIN next : next[q] <= B
  BY <1>2, <1>11
<1> HIDE DEF V, had, over
<1>19. DOMAIN next = DOMAIN amp \cup comp \cup {e[2] : e \in Outward(comp)}
  BY <1>2
<1> QED
  <2> HIDE DEF hot
  <2>1. Spreads(comp, t, s, next)
    BY <1>13, <1>14, <1>15, <1>16, <1>17, <1>18, <1>19 DEF Spreads, heat, B
  <2> QED
    BY <2>1 DEF next

\* The next component spreads its heat.
LEMMA SpreadIsHot ==
  ASSUME Searching, Condensed, roots \in SUBSET Nodes, Heated,
         NEW t \in 1 .. Len(comps), t = Len(todo), NEW s \in Nat, s = t - 1,
         NEW comp, comp = Members(t), NEW next,
         next = IF comp \cap DOMAIN amp = {} THEN amp ELSE Propagated(comp)
  PROVE  Carried(s, next)
<1>1. Carried(t, amp)
  BY DEF Heated
<1>2. /\ Len(comps) \in Nat /\ t \in Nat
      /\ \A n \in Nodes : /\ CompOf(n) \in 1 .. Len(comps) /\ n \in Members(CompOf(n))
                          /\ \A ci \in 1 .. Len(comps) : n \in Members(ci) => ci = CompOf(n)
      /\ \A n, m \in Nodes : CompOf(n) = CompOf(m) => m \in From(n)
      /\ comp \subseteq Nodes
  BY ComponentsAre
<1>3. \A e \in edges : /\ e[1] \in Nodes /\ e[2] \in Nodes /\ e[2] \in Neighbours(e[1])
                       /\ CompOf(e[1]) \in Nat /\ CompOf(e[2]) \in Nat
                       /\ CompOf(e[2]) <= CompOf(e[1]) /\ Depth(e) \in {0, 1}
  BY <1>2, EdgesAre
<1>4. \A n \in Nodes : CompOf(n) \in Nat /\ (n \in comp <=> CompOf(n) = t)
  BY <1>2
<1>5. \A k \in Nat : k > s <=> k > t \/ k = t
  BY <1>2
<1>6. Loops(t) <= Loops(s) /\ Loops(t) \in Nat /\ Loops(s) \in Nat
  BY LoopsAre DEF Loops
<1>7. CASE comp \cap DOMAIN amp = {}
  <2>1. next = amp
    BY <1>7
  <2>2. \A e \in edges : e[1] \in DOMAIN amp /\ CompOf(e[1]) > s => CompOf(e[1]) > t
    BY <1>3, <1>4, <1>5, <1>7
  <2>3. \A q \in DOMAIN amp : amp[q] <= Loops(s)
    <3> TAKE q \in DOMAIN amp
    <3>1. amp[q] \in Nat /\ amp[q] <= Loops(t)
      BY <1>1 DEF Carried
    <3> QED
      BY <1>6, <3>1
  <2> QED
    BY <1>1, <2>1, <2>2, <2>3 DEF Carried
<1>8. CASE comp \cap DOMAIN amp # {}
  <2>1. next = Propagated(comp)
    BY <1>8
  <2>2. Spreads(comp, t, s, next)
    BY <1>8, <2>1, PropagatedIs
  <2>3. edges \in SUBSET (Nodes \X Nodes)
    BY DEF Searching, Met, Mapped
  <2>4. Outward(comp) \subseteq edges /\ \A e \in edges : e \in Outward(comp) <=> e[1] \in comp /\ e[2] \notin comp
    BY DEF Outward
  <2>5. DOMAIN next \subseteq Reached(roots)
    <3>1. DOMAIN amp \subseteq Reached(roots)
      BY <1>1 DEF Carried
    <3>2. comp \subseteq Reached(roots)
      <4>1. PICK n \in comp : n \in DOMAIN amp
        BY <1>8
      <4>2. comp \subseteq From(n)
        BY <1>2, <1>4
      <4>3. From(n) \subseteq Reached(roots)
        BY <2>3, <3>1, <4>1, ReachedOn
      <4> QED
        BY <4>2, <4>3
    <3>3. {e[2] : e \in Outward(comp)} \subseteq Reached(roots)
      <4> SUFFICES ASSUME NEW e \in Outward(comp) PROVE e[2] \in Reached(roots)
        OBVIOUS
      <4>1. e[1] \in Reached(roots) /\ e[2] \in Neighbours(e[1])
        BY <1>3, <2>4, <3>2
      <4> QED
        BY <2>3, <4>1, ReachedIs
    <3> QED
      BY <2>2, <3>1, <3>2, <3>3 DEF Spreads
  <2>6. roots \subseteq DOMAIN next
    BY <1>1, <2>2 DEF Carried, Spreads
  <2>7. ASSUME NEW e \in edges, e[1] \in DOMAIN next, CompOf(e[1]) > s
        PROVE  /\ e[2] \in DOMAIN next
               /\ CompOf(e[1]) # CompOf(e[2]) => next[e[2]] >= next[e[1]] + Depth(e)
               /\ CompOf(e[1]) = CompOf(e[2]) => next[e[2]] >= Depth(e)
    <3>1. CASE e[1] \in comp /\ e[2] \notin comp
      <4>1. e \in Outward(comp) /\ CompOf(e[1]) # CompOf(e[2])
        BY <1>3, <1>4, <2>4, <3>1
      <4> QED
        BY <2>2, <4>1 DEF Spreads
    <3>2. CASE e[1] \in comp /\ e[2] \in comp
      <4>1. Depth(e) <= Inside(comp)[e[2]] /\ Inside(comp)[e[2]] \in Nat
        BY <1>8, <3>2, InsideIs
      <4>2. next[e[2]] = Inside(comp)[e[2]] /\ e[2] \in DOMAIN next
        BY <2>2, <3>2 DEF Spreads
      <4>3. CompOf(e[1]) = CompOf(e[2])
        BY <1>3, <1>4, <3>2
      <4> QED
        BY <1>3, <4>1, <4>2, <4>3
    <3>3. CASE e[1] \notin comp
      <4>1. CompOf(e[1]) > t
        BY <1>3, <1>4, <1>5, <2>7, <3>3
      <4>2. e[1] \in DOMAIN amp
        <5>1. ASSUME NEW d \in Outward(comp) PROVE d[2] # e[1]
          <6>1. CompOf(d[1]) = t /\ CompOf(d[2]) <= CompOf(d[1]) /\ CompOf(d[2]) \in Nat
            BY <1>3, <1>4, <2>4
          <6> QED
            BY <1>2, <1>3, <4>1, <6>1
        <5> QED
          BY <2>2, <2>7, <3>3, <5>1 DEF Spreads
      <4>3. /\ e[2] \in DOMAIN amp
            /\ CompOf(e[1]) # CompOf(e[2]) => amp[e[2]] >= amp[e[1]] + Depth(e)
            /\ CompOf(e[1]) = CompOf(e[2]) => amp[e[2]] >= Depth(e)
        BY <1>1, <4>1, <4>2 DEF Carried
      <4>4. next[e[1]] = amp[e[1]] /\ amp[e[2]] <= next[e[2]] /\ e[2] \in DOMAIN next
        BY <2>2, <4>1, <4>2, <4>3 DEF Spreads
      <4>5. amp[e[1]] \in Nat /\ amp[e[2]] \in Nat
        BY <1>1, <4>2, <4>3 DEF Carried
      <4>6. next[e[2]] \in Nat
        BY <2>2, <4>4 DEF Spreads
      <4> QED
        BY <1>3, <4>3, <4>4, <4>5, <4>6
    <3> QED
      BY <3>1, <3>2, <3>3
  <2> QED
    BY <2>2, <2>5, <2>6, <2>7 DEF Spreads, Carried
<1> QED
  BY <1>7, <1>8

\* What is hot stays so while the graph and its components do.
LEMMA HotStays ==
  ASSUME UNCHANGED <<edges, roots, comps>>, Queued(todo'), Carried(Len(todo'), amp')
  PROVE  Heated'
<1>1. UNCHANGED edges /\ UNCHANGED roots /\ UNCHANGED comps
  OBVIOUS
<1>2. Queued(todo)'
  BY <1>1 DEF Queued
<1>3. Carried(Len(todo), amp)'
  BY <1>1 DEF Carried, Loops, Within, Across, CompOf, Members, Reached, Neighbours
<1> QED
  BY <1>2, <1>3 DEF Heated

\* The roots are seeded with every component to do.
LEMMA SeedIsHot ==
  ASSUME Searching, Condensed, roots \in SUBSET Nodes
  PROVE  Queued(Reverse(comps)) /\ Carried(Len(Reverse(comps)), [q \in roots |-> 0])
<1> DEFINE rest == Reverse(comps)
           heat == [q \in roots |-> 0]
<1>1. comps \in Seq(Seq(Nodes)) /\ edges \in SUBSET (Nodes \X Nodes)
  BY DEF Searching, Met, Mapped
<1>2. PICK l \in Nat : l = Len(comps)
  BY <1>1
<1>3. rest = [i \in 1 .. l |-> comps[(l - i) + 1]]
  BY <1>2 DEF Reverse
<1> HIDE DEF rest
<1>4. Len(rest) = l /\ \A i \in 1 .. l : rest[i] = comps[(l - i) + 1]
  BY <1>3
<1>5. \A i \in 1 .. l : (l - i) + 1 = l + 1 - i /\ (l - i) + 1 \in 1 .. l
  OBVIOUS
<1>6. Queued(rest)
  <2>1. \A i \in 1 .. l : comps[(l - i) + 1] \in Seq(Nodes)
    BY <1>1, <1>2, <1>5, ElementOfSeq
  <2>2. rest \in Seq(Seq(Nodes))
    BY <1>3, <2>1
  <2>3. \A i \in 1 .. Len(rest) : rest[i] = comps[Len(rest) + 1 - i]
    BY <1>4, <1>5
  <2>4. Len(rest) <= Len(comps)
    BY <1>2, <1>4
  <2> QED
    BY <2>2, <2>3, <2>4 DEF Queued
<1>7. Carried(l, heat)
  <2>1. DOMAIN heat = roots /\ heat \in [DOMAIN heat -> Nat] /\ \A q \in DOMAIN heat : heat[q] = 0
    OBVIOUS
  <2> HIDE DEF heat
  <2>2. roots \subseteq Reached(roots)
    BY <1>1, ReachedIs
  <2>3. \A e \in edges : ~ (CompOf(e[1]) > l)
    BY <1>2, EdgesAre
  <2>4. Loops(l) \in Nat
    <3>1. IsFiniteSet(Within(l)) /\ IsFiniteSet(Across(l))
      <4>1. IsFiniteSet(1 .. Len(comps))
        BY <1>2, FS_Interval
      <4>2. IsFiniteSet(Nodes \X Nodes)
        BY NodesAreNumbers, FS_Product
      <4>3. Within(l) \subseteq 1 .. Len(comps) /\ Across(l) \subseteq Nodes \X Nodes
        BY <1>1 DEF Within, Across
      <4> QED
        BY <4>1, <4>2, <4>3, FS_Subset
    <3>2. Cardinality(Within(l)) \in Nat /\ Cardinality(Across(l)) \in Nat
      BY <3>1, FS_CardinalityType
    <3> QED
      BY <3>2 DEF Loops
  <2>5. \A q \in DOMAIN heat : heat[q] <= Loops(l)
    BY <2>1, <2>4
  <2> QED
    BY <2>1, <2>2, <2>3, <2>5 DEF Carried
<1> QED
  BY <1>4, <1>6, <1>7 DEF rest

LEMMA SpreadKeeps ==
  ASSUME Searching, Phased, roots \in SUBSET Nodes, amp = << >> \/ Heated, Spread
  PROVE  (amp = << >> \/ Heated)'
<1>1. /\ todo # << >> /\ todo' = Tail(todo)
      /\ UNCHANGED <<edges, roots, comps>>
      /\ amp' = IF Range(Head(todo)) \cap DOMAIN amp = {} THEN amp ELSE Propagated(Range(Head(todo)))
  BY DEF Spread, tarjan
<1>2. Condensed
  BY <1>1 DEF Phased, Folded
<1>3. CASE amp = << >>
  <2>1. DOMAIN amp = {}
    BY <1>3
  <2> QED
    BY <1>1, <1>3, <2>1
<1>4. CASE Heated
  <2>1. Len(comps) \in Nat
    BY <1>2, ComponentsAre
  <2>2. todo \in Seq(Seq(Nodes)) /\ Len(todo) <= Len(comps) /\ \A i \in 1 .. Len(todo) : todo[i] = comps[Len(todo) + 1 - i]
    BY <1>4 DEF Heated, Queued
  <2>3. PICK t \in 1 .. Len(comps) : t = Len(todo)
    BY <1>1, <2>1, <2>2
  <2>4. PICK s \in Nat : s = t - 1
    OBVIOUS
  <2>5. Head(todo) = comps[t]
    BY <1>1, <2>2, <2>3
  <2>6. Range(Head(todo)) = Members(t)
    BY <2>5 DEF Members
  <2>7. Carried(s, amp')
    BY <1>1, <1>2, <1>4, <2>3, <2>4, <2>6, SpreadIsHot
  <2>8. PICK rest : rest = todo'
    OBVIOUS
  <2>9. rest \in Seq(Seq(Nodes)) /\ Len(rest) = s /\ \A i \in 1 .. s : rest[i] = todo[i + 1]
    BY <1>1, <2>2, <2>3, <2>4, <2>8, HeadTailProperties
  <2>10. Queued(rest)
    <3>1. \A i \in 1 .. s : i + 1 \in 1 .. t /\ t + 1 - (i + 1) = s + 1 - i
      BY <2>3, <2>4
    <3>2. \A i \in 1 .. s : rest[i] = comps[s + 1 - i]
      BY <2>2, <2>3, <2>9, <3>1
    <3>3. s <= Len(comps)
      BY <2>1, <2>3, <2>4
    <3> QED
      BY <2>9, <3>2, <3>3 DEF Queued
  <2>11. Heated'
    BY <1>1, <2>7, <2>8, <2>9, <2>10, HotStays
  <2> QED
    BY <2>11
<1> QED
  BY <1>3, <1>4

LEMMA HeatGoes == GraphSpec => []HInv
<1>1. GraphInit => roots \in SUBSET Nodes /\ amp = << >>
  <2>1. [q \in {} |-> 0] = << >>
    BY EmptySeq, SeqEqual
  <2> QED
    BY <2>1, GraphsAreGraphs DEF GraphInit
<1> DEFINE H == roots \in SUBSET Nodes /\ (amp = << >> \/ Heated)
<1>2. SInv /\ H /\ [GraphNext]_vars => H'
  <2> SUFFICES ASSUME SInv, H, [GraphNext]_vars PROVE H'
    OBVIOUS
  <2>1. Searching /\ Phased
    BY DEF SInv
  <2>2. UNCHANGED roots
    BY DEF GraphNext, Start, Descend, Close, FoldNext, SeedHeat, Spread, Done, vars
  <2>3. CASE Start \/ Descend \/ Close \/ FoldNext
    <3>1. amp = << >>
      BY <2>1, <2>3, SearchComesFirst DEF Phased, Folded, FoldNext
    <3> QED
      BY <2>2, <2>3, <3>1 DEF Start, Descend, Close, FoldNext
  <2>4. CASE SeedHeat
    <3>1. /\ UNCHANGED <<edges, roots, comps>> /\ Condensed
          /\ todo' = Reverse(comps) /\ amp' = [q \in roots |-> 0]
      BY <2>4 DEF SeedHeat, tarjan, Folded
    <3>2. Queued(todo') /\ Carried(Len(todo'), amp')
      BY <2>1, <3>1, SeedIsHot
    <3> QED
      BY <2>2, <3>1, <3>2, HotStays
  <2>5. CASE Spread
    BY <2>1, <2>2, <2>5, SpreadKeeps
  <2>6. CASE Done \/ UNCHANGED vars
    <3>1. UNCHANGED <<edges, roots, comps, todo, amp>>
      BY <2>6 DEF Done, vars
    <3>2. CASE amp = << >>
      BY <2>2, <3>1, <3>2
    <3>3. CASE Heated
      <4>1. Queued(todo') /\ Carried(Len(todo'), amp')
        BY <3>1, <3>3 DEF Heated
      <4> QED
        BY <2>2, <3>1, <4>1, HotStays
    <3> QED
      BY <3>2, <3>3
  <2> QED
    BY <2>3, <2>4, <2>5, <2>6 DEF GraphNext
<1>3. GraphInit => H
  BY <1>1
<1> HIDE DEF H
<1>4. GraphSpec => []H
  BY <1>2, <1>3, SummariesGo, PTL DEF GraphSpec
<1>5. SInv /\ H => HInv
  BY DEF H, HInv
<1> QED
  BY <1>4, <1>5, SummariesGo, PTL

LEMMA HeatIs == HInv => HeatFlows
<1> SUFFICES ASSUME HInv, Hotspread
             PROVE  LET of     == [n \in Nodes |-> CompOf(n)]
                        hot    == {e \in edges : e[1] \in DOMAIN amp}
                        loops  == {e \in edges : Depth(e) = 1}
                        within == {of[e[1]] : e \in {e \in loops : of[e[1]] = of[e[2]]}}
                        across == {e \in loops : of[e[1]] # of[e[2]]}
                    IN
                    /\ DOMAIN amp = Reached(roots)
                    /\ \A e \in hot : of[e[1]] # of[e[2]] => amp[e[2]] >= amp[e[1]] + Depth(e)
                    /\ \A e \in hot : of[e[1]] = of[e[2]] => amp[e[2]] >= Depth(e)
                    /\ \A q \in DOMAIN amp : amp[q] <= Cardinality(within) + Cardinality(across)
  BY DEF HeatFlows
<1> DEFINE of     == [n \in Nodes |-> CompOf(n)]
           loops  == {e \in edges : Depth(e) = 1}
           within == {of[e[1]] : e \in {e \in loops : of[e[1]] = of[e[2]]}}
           across == {e \in loops : of[e[1]] # of[e[2]]}
<1>1. Searching /\ Condensed /\ Heated /\ todo = << >> /\ roots \in SUBSET Nodes
  BY DEF HInv, SInv, Hotspread, Folded
<1>2. Len(todo) = 0
  BY <1>1
<1>3. Carried(0, amp)
  BY <1>1, <1>2 DEF Heated
<1>4. /\ Len(comps) \in Nat
      /\ \A e \in edges : /\ e[1] \in Nodes /\ e[2] \in Nodes
                          /\ CompOf(e[1]) \in 1 .. Len(comps) /\ CompOf(e[1]) > 0
                          /\ of[e[1]] = CompOf(e[1]) /\ of[e[2]] = CompOf(e[2])
  BY <1>1, EdgesAre, ComponentsAre
<1>5. edges \in SUBSET (Nodes \X Nodes)
  BY <1>1 DEF Searching, Met, Mapped
<1>6. DOMAIN amp = Reached(roots)
  <2>1. roots \subseteq DOMAIN amp /\ DOMAIN amp \subseteq Reached(roots)
    BY <1>3 DEF Carried
  <2>2. ASSUME NEW n \in DOMAIN amp \cap Nodes PROVE Neighbours(n) \subseteq DOMAIN amp
    <3> SUFFICES ASSUME NEW m \in Nodes, <<n, m>> \in edges PROVE m \in DOMAIN amp
      BY DEF Neighbours
    <3>1. <<n, m>>[1] = n /\ <<n, m>>[2] = m
      OBVIOUS
    <3> QED
      BY <1>3, <1>4, <3>1 DEF Carried
  <2>3. Reached(roots) \subseteq DOMAIN amp
    BY <1>1, <1>5, <2>1, <2>2, ReachedIs
  <2> QED
    BY <2>1, <2>3
<1>7. ASSUME NEW e \in edges, e[1] \in DOMAIN amp
      PROVE  /\ of[e[1]] # of[e[2]] => amp[e[2]] >= amp[e[1]] + Depth(e)
             /\ of[e[1]] = of[e[2]] => amp[e[2]] >= Depth(e)
  BY <1>3, <1>4, <1>7 DEF Carried
<1>8. within = Within(0)
  <2>1. ASSUME NEW ci \in within PROVE ci \in Within(0)
    <3>1. PICK e \in edges : Depth(e) = 1 /\ of[e[1]] = of[e[2]] /\ ci = of[e[1]]
      BY <2>1
    <3> HIDE DEF of
    <3> QED
      BY <1>4, <3>1 DEF Within
  <2>2. ASSUME NEW ci \in Within(0) PROVE ci \in within
    <3>1. PICK e \in edges : Depth(e) = 1 /\ CompOf(e[1]) = ci /\ CompOf(e[2]) = ci
      BY <2>2 DEF Within
    <3>2. e \in loops /\ of[e[1]] = of[e[2]] /\ ci = of[e[1]]
      BY <1>4, <3>1
    <3> HIDE DEF of, loops
    <3> QED
      BY <3>2
  <2> QED
    BY <2>1, <2>2
<1>9. across = Across(0)
  <2> HIDE DEF of
  <2> QED
    BY <1>4 DEF Across
<1> HIDE DEF within, across
<1>10. \A q \in DOMAIN amp : amp[q] <= Cardinality(within) + Cardinality(across)
  BY <1>3, <1>8, <1>9 DEF Carried, Loops
<1> QED
  BY <1>6, <1>7, <1>10 DEF within, across

\* HeatFlows (py-provers/src/hotness.rs), for every graph, every set of roots and wherever
\* the loops lie: the hot functions are the reached ones, a call into another component
\* keeps the heat and the loop it crosses, and none is hotter than the loops there are.
THEOREM HeatIsSound == GraphSpec => []HeatFlows
<1>1. HInv => HeatFlows
  BY HeatIs
<1> QED
  BY <1>1, HeatGoes, PTL

-----------------------------------------------------------------------------
(* The program that was read. *)

WellFormed ==
  /\ bases \in Hierarchies /\ defs \in DefSets /\ marks \in MarkSets
  /\ sites \subseteq Shapes /\ \A s \in sites : s.in \in defs

\* Every call is written inside a function the tree defines.
LEMMA Written == Spec => []WellFormed
<1>1. Init => WellFormed
  BY DEF Init, WellFormed
<1>2. WellFormed /\ [Next]_program => WellFormed'
  <2> SUFFICES ASSUME WellFormed, [Next]_program
               PROVE  WellFormed'
    OBVIOUS
  <2>1. ASSUME NEW s \in Shapes, Call(s)
        PROVE  WellFormed'
    BY <2>1 DEF WellFormed, Call
  <2>2. CASE UNCHANGED program
    BY <2>2 DEF WellFormed, program
  <2> QED
    BY <2>1, <2>2 DEF Next
<1> QED
  BY <1>1, <1>2, PTL DEF Spec

\* A function the tree defines has an owner and a name, and there are finitely many.
LEMMA DefsAreFunctions ==
  ASSUME WellFormed
  PROVE  /\ IsFiniteSet(defs) /\ IsFiniteSet(Classes)
         /\ \A f \in defs : /\ f = <<f[1], f[2]>> /\ f[1] \in Owners /\ f[2] \in Names
                            /\ f # NoBody /\ f[2] # "class"
<1>1. defs \subseteq Functions /\ IsFiniteSet(defs) /\ IsFiniteSet(Classes)
  BY TreesAreFinite DEF WellFormed
<1>2. Outside \notin Owners /\ "class" \notin Names
  BY TreesAreFinite
<1> QED
  BY <1>1, <1>2 DEF Functions, NoBody

LEMMA BasesAreClasses ==
  ASSUME WellFormed
  PROVE  /\ \A c \in Classes : BasesOf(c) \subseteq Classes /\ SubclassesOf(c) \subseteq Classes
         /\ \A c, d \in Classes : d \in BasesOf(c) <=> c \in SubclassesOf(d)
BY DEF BasesOf, SubclassesOf

\* What a class has above it.
LEMMA UpIs ==
  ASSUME WellFormed, NEW c \in Classes
  PROVE  /\ Up(c) \subseteq Classes /\ c \in Up(c)
         /\ \A d \in Up(c) : BasesOf(d) \subseteq Up(c)
         /\ \A T : c \in T /\ (\A d \in T \cap Classes : BasesOf(d) \subseteq T) => Up(c) \subseteq T
<1> DEFINE next == [d \in Classes |-> BasesOf(d)]
<1>1. next \in [Classes -> SUBSET Classes] /\ \A d \in Classes : next[d] = BasesOf(d)
  BY BasesAreClasses
<1>2. IsFiniteSet(Classes) /\ {c} \in SUBSET Classes
  BY DefsAreFunctions
<1>3. Up(c) = Closure(next, {c})
  BY DEF Up
<1> HIDE DEF next
<1>4. /\ Closure(next, {c}) \in SUBSET Classes
      /\ {c} \subseteq Closure(next, {c})
      /\ \A d \in Closure(next, {c}) : next[d] \subseteq Closure(next, {c})
      /\ \A T : {c} \subseteq T /\ (\A d \in T \cap Classes : next[d] \subseteq T)
                  => Closure(next, {c}) \subseteq T
  BY <1>1, <1>2, ClosureIsLeast
<1>5. ASSUME NEW T, c \in T, \A d \in T \cap Classes : BasesOf(d) \subseteq T
      PROVE  Up(c) \subseteq T
  <2>1. {c} \subseteq T /\ \A d \in T \cap Classes : next[d] \subseteq T
    BY <1>1, <1>5
  <2> QED
    BY <1>3, <1>4, <2>1
<1>6. Up(c) \subseteq Classes /\ c \in Up(c)
  BY <1>3, <1>4
<1>7. ASSUME NEW d \in Up(c)
      PROVE  BasesOf(d) \subseteq Up(c)
  <2>1. d \in Classes /\ next[d] \subseteq Up(c)
    BY <1>3, <1>4, <1>6
  <2>2. next[d] = BasesOf(d)
    BY <1>1, <2>1
  <2> QED
    BY <2>1, <2>2
<1> QED
  BY <1>5, <1>6, <1>7

\* ... below it ...
LEMMA DownIs ==
  ASSUME WellFormed, NEW c \in Classes
  PROVE  /\ Down(c) \subseteq Classes /\ c \in Down(c)
         /\ \A d \in Down(c) : SubclassesOf(d) \subseteq Down(c)
         /\ \A T : c \in T /\ (\A d \in T \cap Classes : SubclassesOf(d) \subseteq T)
                     => Down(c) \subseteq T
<1> DEFINE next == [d \in Classes |-> SubclassesOf(d)]
<1>1. next \in [Classes -> SUBSET Classes] /\ \A d \in Classes : next[d] = SubclassesOf(d)
  BY BasesAreClasses
<1>2. IsFiniteSet(Classes) /\ {c} \in SUBSET Classes
  BY DefsAreFunctions
<1>3. Down(c) = Closure(next, {c})
  BY DEF Down
<1> HIDE DEF next
<1>4. /\ Closure(next, {c}) \in SUBSET Classes
      /\ {c} \subseteq Closure(next, {c})
      /\ \A d \in Closure(next, {c}) : next[d] \subseteq Closure(next, {c})
      /\ \A T : {c} \subseteq T /\ (\A d \in T \cap Classes : next[d] \subseteq T)
                  => Closure(next, {c}) \subseteq T
  BY <1>1, <1>2, ClosureIsLeast
<1>5. ASSUME NEW T, c \in T, \A d \in T \cap Classes : SubclassesOf(d) \subseteq T
      PROVE  Down(c) \subseteq T
  <2>1. {c} \subseteq T /\ \A d \in T \cap Classes : next[d] \subseteq T
    BY <1>1, <1>5
  <2> QED
    BY <1>3, <1>4, <2>1
<1>6. Down(c) \subseteq Classes /\ c \in Down(c)
  BY <1>3, <1>4
<1>7. ASSUME NEW d \in Down(c)
      PROVE  SubclassesOf(d) \subseteq Down(c)
  <2>1. d \in Classes /\ next[d] \subseteq Down(c)
    BY <1>3, <1>4, <1>6
  <2>2. next[d] = SubclassesOf(d)
    BY <1>1, <2>1
  <2> QED
    BY <2>1, <2>2
<1> QED
  BY <1>5, <1>6, <1>7

\* ... and in its hierarchy, either way at each step.
LEMMA LinkedIs ==
  ASSUME WellFormed, NEW c \in Classes
  PROVE  /\ Linked(c) \subseteq Classes /\ c \in Linked(c)
         /\ \A d \in Linked(c) : BasesOf(d) \cup SubclassesOf(d) \subseteq Linked(c)
         /\ \A T : c \in T /\ (\A d \in T \cap Classes : BasesOf(d) \cup SubclassesOf(d) \subseteq T)
                     => Linked(c) \subseteq T
<1> DEFINE next == [d \in Classes |-> BasesOf(d) \cup SubclassesOf(d)]
<1>1. /\ next \in [Classes -> SUBSET Classes]
      /\ \A d \in Classes : next[d] = BasesOf(d) \cup SubclassesOf(d)
  BY BasesAreClasses
<1>2. IsFiniteSet(Classes) /\ {c} \in SUBSET Classes
  BY DefsAreFunctions
<1>3. Linked(c) = Closure(next, {c})
  BY DEF Linked
<1> HIDE DEF next
<1>4. /\ Closure(next, {c}) \in SUBSET Classes
      /\ {c} \subseteq Closure(next, {c})
      /\ \A d \in Closure(next, {c}) : next[d] \subseteq Closure(next, {c})
      /\ \A T : {c} \subseteq T /\ (\A d \in T \cap Classes : next[d] \subseteq T)
                  => Closure(next, {c}) \subseteq T
  BY <1>1, <1>2, ClosureIsLeast
<1>5. ASSUME NEW T, c \in T, \A d \in T \cap Classes : BasesOf(d) \cup SubclassesOf(d) \subseteq T
      PROVE  Linked(c) \subseteq T
  <2>1. {c} \subseteq T /\ \A d \in T \cap Classes : next[d] \subseteq T
    BY <1>1, <1>5
  <2> QED
    BY <1>3, <1>4, <2>1
<1>6. Linked(c) \subseteq Classes /\ c \in Linked(c)
  BY <1>3, <1>4
<1>7. ASSUME NEW d \in Linked(c)
      PROVE  BasesOf(d) \cup SubclassesOf(d) \subseteq Linked(c)
  <2>1. d \in Classes /\ next[d] \subseteq Linked(c)
    BY <1>3, <1>4, <1>6
  <2>2. next[d] = BasesOf(d) \cup SubclassesOf(d)
    BY <1>1, <2>1
  <2> QED
    BY <2>1, <2>2
<1> QED
  BY <1>5, <1>6, <1>7

\* One hierarchy is the same from each of its classes.
LEMMA LinkedIsOne ==
  ASSUME WellFormed, NEW c \in Classes, NEW d \in Linked(c)
  PROVE  Linked(d) = Linked(c)
<1>1. ASSUME NEW a \in Classes, NEW b \in Linked(a)
      PROVE  Linked(b) \subseteq Linked(a)
  <2>1. b \in Classes
    BY LinkedIs
  <2>2. \A e \in Linked(a) \cap Classes : BasesOf(e) \cup SubclassesOf(e) \subseteq Linked(a)
    BY LinkedIs
  <2> QED
    BY <2>1, <2>2, LinkedIs
<1> DEFINE T == {e \in Classes : c \in Linked(e)}
<1>2. c \in T
  BY LinkedIs
<1>3. ASSUME NEW e \in T \cap Classes, NEW a \in BasesOf(e) \cup SubclassesOf(e)
      PROVE  a \in T
  <2>1. a \in Classes /\ e \in BasesOf(a) \cup SubclassesOf(a)
    BY BasesAreClasses
  <2>2. e \in Linked(a)
    BY <2>1, LinkedIs
  <2>3. Linked(e) \subseteq Linked(a)
    BY <1>1, <2>1, <2>2
  <2> QED
    BY <2>1, <2>3
<1>4. Linked(c) \subseteq T
  <2>1. \A e \in T \cap Classes : BasesOf(e) \cup SubclassesOf(e) \subseteq T
    BY <1>3
  <2> HIDE DEF T
  <2> QED
    BY <1>2, <2>1, LinkedIs
<1>5. d \in Classes /\ c \in Linked(d)
  BY <1>4
<1> QED
  BY <1>1, <1>5

LEMMA LinkedHoldsUpAndDown ==
  ASSUME WellFormed, NEW c \in Classes
  PROVE  Up(c) \subseteq Linked(c) /\ Down(c) \subseteq Linked(c)
<1>1. /\ c \in Linked(c)
      /\ \A d \in Linked(c) \cap Classes : BasesOf(d) \subseteq Linked(c)
      /\ \A d \in Linked(c) \cap Classes : SubclassesOf(d) \subseteq Linked(c)
  BY LinkedIs
<1>2. Up(c) \subseteq Linked(c)
  BY <1>1, UpIs
<1>3. Down(c) \subseteq Linked(c)
  BY <1>1, DownIs
<1> QED
  BY <1>2, <1>3

\* Where a method is not overridden its class alone defines the name in the hierarchy.
LEMMA OnlyDefiner ==
  ASSUME WellFormed, NEW f \in defs, f[1] \in Classes, ~ Overridden(f),
         NEW c \in Classes, f[1] \in Linked(c),
         NEW d \in Linked(c), <<d, f[2]>> \in defs
  PROVE  <<d, f[2]>> = f
<1>1. Linked(f[1]) = Linked(c)
  BY LinkedIsOne
<1>2. d = f[1]
  BY <1>1 DEF Overridden, Definers
<1>3. f = <<f[1], f[2]>>
  BY DefsAreFunctions
<1> QED
  BY <1>2, <1>3

-----------------------------------------------------------------------------
(* What runs, and what the verdicts name. *)

LEMMA DefinersIn ==
  ASSUME WellFormed, NEW cs, NEW name, NEW f \in MethodsNamed(cs, name)
  PROVE  f = <<f[1], name>> /\ f[2] = name /\ f[1] \in cs /\ f \in defs
<1>1. PICK c \in Definers(cs, name) : f = <<c, name>>
  BY DEF MethodsNamed
<1>2. c \in cs /\ <<c, name>> \in defs
  BY <1>1 DEF Definers
<1>3. f[1] = c /\ f[2] = name
  BY <1>1
<1> QED
  BY <1>1, <1>2, <1>3

LEMMA LookupIs ==
  ASSUME WellFormed, NEW c \in Classes, NEW name, NEW f \in Lookup(c, name)
  PROVE  f = <<f[1], name>> /\ f[2] = name /\ f[1] \in Up(c) /\ f \in defs
<1> DEFINE S == {d \in Definers(Up(c), name) : Down(d) \cap Definers(Up(c), name) = {d}}
<1>1. PICK d \in S : f = <<d, name>>
  BY DEF Lookup
<1>2. d \in Definers(Up(c), name)
  BY <1>1
<1>3. d \in Up(c) /\ <<d, name>> \in defs
  BY <1>2 DEF Definers
<1>4. f[1] = d /\ f[2] = name
  BY <1>1
<1> QED
  BY <1>1, <1>3, <1>4

LEMMA SitesAre ==
  ASSUME WellFormed, NEW s \in sites
  PROVE  /\ s.in \in defs /\ s.name \in Names /\ s.on \in Owners \cup {Outside}
         /\ s.how \in {"bare", "self", "plain", "chain", "new"} /\ s.typed \in BOOLEAN
         /\ s.how = "self" => s.on = s.in[1] /\ s.on \in Classes
         /\ s.how = "new"  => s.on \in Classes /\ s.name = Ctor
         /\ s.how = "bare" => s.on \in Modules
         /\ s.how \in {"plain", "chain"} => s.on \in Classes \cup {Outside}
<1>1. s \in Shapes /\ s.in \in defs
  BY DEF WellFormed
<1> QED
  BY <1>1, SitesAreWritten

\* What a call may run it names, and a method is in the hierarchy of the receiver's class.
LEMMA MayRunIs ==
  ASSUME WellFormed, NEW s \in sites, NEW f \in MayRun(s)
  PROVE  /\ f \in defs /\ f[2] = s.name
         /\ s.how = "bare" => f = <<s.on, s.name>>
         /\ s.how # "bare" => s.on \in Classes /\ f[1] \in Classes /\ f[1] \in Linked(s.on)
         /\ s.how = "new" => f[2] = Ctor /\ f[1] \in Up(s.on)
<1>1. s.on # Outside
  <2>1. Outside \notin Classes /\ Outside \notin Modules
    BY TreesAreFinite DEF Owners
  <2>2. s.on = Outside => s.how \notin {"bare", "new"}
    BY <2>1, SitesAre
  <2>3. s.on = Outside => MayRun(s) = {}
    BY <2>2 DEF MayRun
  <2> QED
    BY <2>3
<1>2. CASE s.how = "bare"
  BY <1>1, <1>2 DEF MayRun
<1>3. CASE s.how = "new"
  <2>1. s.on \in Classes /\ s.name = Ctor
    BY <1>3, SitesAre
  <2>2. f \in Lookup(s.on, Ctor)
    BY <1>1, <1>3 DEF MayRun
  <2>3. f[1] \in Up(s.on) /\ f[2] = Ctor /\ f \in defs
    BY <2>1, <2>2, LookupIs
  <2>4. f[1] \in Classes /\ f[1] \in Linked(s.on)
    BY <2>1, <2>3, UpIs, LinkedHoldsUpAndDown
  <2> QED
    BY <1>3, <2>1, <2>3, <2>4
<1>4. CASE s.how \notin {"bare", "new"}
  <2>1. s.on \in Classes
    BY <1>1, <1>4, SitesAre
  <2>2. \E c \in Down(s.on) : f \in Lookup(c, s.name)
    BY <1>1, <1>4 DEF MayRun
  <2>3. PICK c \in Down(s.on) : f \in Lookup(c, s.name)
    BY <2>2
  <2>4. c \in Classes /\ c \in Linked(s.on)
    BY <2>1, DownIs, LinkedHoldsUpAndDown
  <2>5. f[1] \in Up(c) /\ f[2] = s.name /\ f \in defs
    BY <2>3, <2>4, LookupIs
  <2>6. f[1] \in Classes /\ f[1] \in Linked(c)
    BY <2>4, <2>5, UpIs, LinkedHoldsUpAndDown
  <2>7. Linked(c) = Linked(s.on)
    BY <2>1, <2>4, LinkedIsOne
  <2> QED
    BY <1>4, <2>1, <2>5, <2>6, <2>7
<1> QED
  BY <1>2, <1>3, <1>4

\* A verdict of one candidate names it, and of several holds them.
LEMMA MethodCallIs ==
  ASSUME NEW candidates, IsFiniteSet(candidates), NEW one,
         one \notin {"ambiguous", "unresolved"}
  PROVE  LET v == MethodCall(candidates, one) IN
         /\ v.res \in {one, "ambiguous", "unresolved"}
         /\ v.res = one => candidates = {v.target}
         /\ v.res = "ambiguous" => v.among = candidates /\ \A f : candidates # {f}
         /\ v.res = "unresolved" => candidates = {} /\ v = Unresolved
         /\ v.res # "ambiguous" => v.among = {}
         /\ candidates = {} => v = Unresolved
         /\ \A f : candidates = {f} => v = Verdict(one, f, {})
<1> DEFINE v == MethodCall(candidates, one)
<1>1. CASE Cardinality(candidates) = 1
  <2>1. PICK f : candidates = {f}
    BY <1>1, FS_Singleton
  <2>2. v = Verdict(one, f, {})
    <3>1. v = Verdict(one, CHOOSE g \in candidates : TRUE, {})
      <4>1. candidates # {}
        BY <2>1
      <4> QED
        BY <1>1, <4>1 DEF MethodCall
    <3>2. (CHOOSE g \in candidates : TRUE) \in candidates
      BY <2>1
    <3> QED
      BY <2>1, <3>1, <3>2
  <2> QED
    BY <2>1, <2>2 DEF Verdict
<1>2. CASE Cardinality(candidates) # 1
  <2>1. \A f : candidates # {f}
    BY <1>2, FS_Singleton
  <2>2. CASE candidates = {}
    BY <1>2, <2>1, <2>2 DEF MethodCall, Verdict, Unresolved
  <2>3. CASE candidates # {}
    BY <1>2, <2>1, <2>3 DEF MethodCall, Verdict, Unresolved
  <2> QED
    BY <2>2, <2>3
<1> QED
  BY <1>1, <1>2

-----------------------------------------------------------------------------
(* The constructor walk. *)

LEMMA LargestExists ==
  ASSUME NEW S \in SUBSET Nat, S # {}, NEW n \in Nat, \A i \in S : i <= n
  PROVE  \E i \in S : \A j \in S : i >= j
<1> DEFINE U == {n - i : i \in S}
<1>1. U \subseteq Nat /\ U # {}
  <2>1. \A i \in S : n - i \in Nat
    OBVIOUS
  <2>2. \E i \in S : TRUE
    OBVIOUS
  <2> QED
    BY <2>1, <2>2
<1>2. PICK u \in U : \A v \in U : ~(<<v, u>> \in OpToRel(<, Nat))
  <2> HIDE DEF U
  <2>1. \E u \in U : \A v \in U : ~(<<v, u>> \in OpToRel(<, Nat))
    BY <1>1, NatLessThanWellFounded, WFMin
  <2> QED
    BY <2>1
<1>3. ASSUME NEW v \in U
      PROVE  u <= v
  <2> HIDE DEF U
  <2>1. u \in Nat /\ v \in Nat
    BY <1>1, <1>2
  <2>2. ~ (<<v, u>> \in OpToRel(<, Nat))
    BY <1>2
  <2>3. ~ (v < u)
    BY <2>1, <2>2 DEF OpToRel
  <2> QED
    BY <2>1, <2>3
<1>4. PICK i \in S : u = n - i
  OBVIOUS
<1>5. \A j \in S : n - j \in U
  OBVIOUS
<1>6. ASSUME NEW j \in S
      PROVE  i >= j
  <2>1. n - i <= n - j
    BY <1>3, <1>4, <1>5
  <2> QED
    BY <2>1
<1> QED
  BY <1>6

\* No class is left to take.
Finished(w) == w.body # NoBody \/ Fresh(w) = {}

\* What the walk up from c knows: each class it saw it looked at, and what is above one
\* it saw is seen or still in the frontier.
Walked(c, w) ==
  /\ w \in Walks
  /\ c \in w.seen \cup Range(w.front)
  /\ \A d \in w.seen : BasesOf(d) \subseteq w.seen \cup Range(w.front)
  /\ w.seen \subseteq Up(c) /\ Range(w.front) \cap Classes \subseteq Up(c)
  /\ w.body = NoBody => \A d \in w.seen : <<d, Ctor>> \notin defs
  /\ w.body # NoBody => w.body \in defs /\ w.body[1] \in Up(c) /\ w.body[2] = Ctor

\* The class on top: it is new, and whatever is above it in the frontier is not.
LEMMA TopIs ==
  ASSUME NEW w \in Walks, Fresh(w) # {}
  PROVE  /\ Max(Fresh(w)) \in Fresh(w)
         /\ \A i \in Fresh(w) : Max(Fresh(w)) >= i
<1>1. Fresh(w) \subseteq Nat /\ Len(w.front) \in Nat /\ \A i \in Fresh(w) : i <= Len(w.front)
  <2>1. w.front \in Seq(Classes \cup {Outside})
    BY DEF Walks
  <2>2. DOMAIN w.front = 1 .. Len(w.front) /\ Len(w.front) \in Nat
    BY <2>1
  <2> QED
    BY <2>2 DEF Fresh
<1>2. \E i \in Fresh(w) : \A j \in Fresh(w) : i >= j
  BY <1>1, LargestExists
<1>3. Max(Fresh(w)) = CHOOSE i \in Fresh(w) : \A j \in Fresh(w) : i >= j
  BY DEF Max
<1> HIDE DEF Max
<1> QED
  BY <1>2, <1>3

\* What a concatenation holds, place by place.
LEMMA Joined ==
  ASSUME NEW S, NEW s \in Seq(S), NEW t \in Seq(S)
  PROVE  /\ s \o t \in Seq(S)
         /\ Len(s \o t) = Len(s) + Len(t)
         /\ \A i \in 1 .. Len(s) + Len(t) :
              (s \o t)[i] = IF i <= Len(s) THEN s[i] ELSE t[i - Len(s)]
BY SMTT(30)

\* One more class taken keeps all of it.
LEMMA VisitWalks ==
  ASSUME WellFormed, NEW c \in Classes, NEW w, Walked(c, w), ~ Finished(w)
  PROVE  /\ Walked(c, Visit[w])
         /\ \E d \in Classes \ w.seen : Visit[w].seen = w.seen \cup {d}
<1> DEFINE top == Max(Fresh(w))
           d   == w.front[top]
           n   == [front |-> SubSeq(w.front, 1, top - 1) \o bases[d],
                   seen  |-> w.seen \cup {d},
                   body  |-> IF <<d, Ctor>> \in defs THEN <<d, Ctor>> ELSE NoBody]
<1>1. w \in Walks /\ w.front \in Seq(Classes \cup {Outside}) /\ w.seen \in SUBSET Classes
  BY DEF Walked, Walks
<1>2. Fresh(w) # {} /\ w.body = NoBody
  BY DEF Finished
<1>3. top \in Fresh(w) /\ \A i \in Fresh(w) : top >= i
  BY <1>1, <1>2, TopIs
<1>4. Visit[w] = n
  BY <1>1, <1>2 DEF Visit
<1> HIDE DEF top
<1>5. /\ top \in DOMAIN w.front /\ d \in Classes \ w.seen
      /\ DOMAIN w.front = 1 .. Len(w.front) /\ top \in 1 .. Len(w.front)
  BY <1>1, <1>3 DEF Fresh
<1>6. bases[d] \in Seq(Classes \cup {Outside})
  BY <1>5, TreesAreFinite DEF WellFormed
<1> DEFINE below == SubSeq(w.front, 1, top - 1)
<1>7. below \in Seq(Classes \cup {Outside}) /\ Len(below) = top - 1
        /\ \A i \in 1 .. top - 1 : below[i] = w.front[i]
  BY <1>1, <1>5
<1> HIDE DEF below
<1>8. Range(below \o bases[d]) = Range(below) \cup Range(bases[d])
  <2> DEFINE r == below \o bases[d]
  <2>1. /\ DOMAIN below = 1 .. Len(below) /\ Len(below) \in Nat
        /\ DOMAIN bases[d] = 1 .. Len(bases[d]) /\ Len(bases[d]) \in Nat
    BY <1>6, <1>7
  <2>2. /\ DOMAIN r = 1 .. Len(below) + Len(bases[d])
        /\ \A i \in 1 .. Len(below) : r[i] = below[i]
        /\ \A i \in 1 .. Len(bases[d]) : r[Len(below) + i] = bases[d][i]
    <3>1. /\ r \in Seq(Classes \cup {Outside})
          /\ Len(r) = Len(below) + Len(bases[d])
          /\ \A i \in 1 .. Len(below) + Len(bases[d]) :
               r[i] = IF i <= Len(below) THEN below[i] ELSE bases[d][i - Len(below)]
      BY <1>6, <1>7, Joined
    <3>2. DOMAIN r = 1 .. Len(below) + Len(bases[d])
      BY <3>1
    <3> HIDE DEF r
    <3>3. ASSUME NEW i \in 1 .. Len(below)
          PROVE  r[i] = below[i]
      BY <2>1, <3>1
    <3>4. ASSUME NEW i \in 1 .. Len(bases[d])
          PROVE  r[Len(below) + i] = bases[d][i]
      <4>1. PICK j \in Nat : j = Len(below) + i
        BY <2>1
      <4>2. j \in 1 .. Len(below) + Len(bases[d]) /\ ~ (j <= Len(below)) /\ j - Len(below) = i
        BY <2>1, <4>1
      <4>3. r[j] = bases[d][j - Len(below)]
        BY <3>1, <4>2
      <4> QED
        BY <4>1, <4>2, <4>3
    <3> QED
      BY <3>2, <3>3, <3>4
  <2>3. \A i \in DOMAIN r : i \in 1 .. Len(below) \/ (i - Len(below)) \in 1 .. Len(bases[d])
    BY <2>1, <2>2
  <2> HIDE DEF r
  <2>4. ASSUME NEW e \in Range(r)
        PROVE  e \in Range(below) \cup Range(bases[d])
    <3>1. PICK i \in DOMAIN r : e = r[i]
      BY DEF Range
    <3>2. CASE i \in 1 .. Len(below)
      BY <2>1, <2>2, <3>1, <3>2 DEF Range
    <3>3. CASE (i - Len(below)) \in 1 .. Len(bases[d])
      <4>1. PICK j \in 1 .. Len(bases[d]) : j = i - Len(below)
        BY <3>3
      <4>2. i = Len(below) + j
        BY <2>1, <2>2, <4>1
      <4>3. e = bases[d][j]
        BY <2>2, <3>1, <4>2
      <4> QED
        BY <2>1, <4>3 DEF Range
    <3> QED
      BY <2>3, <3>2, <3>3
  <2>5. ASSUME NEW e \in Range(below)
        PROVE  e \in Range(r)
    <3>1. PICK i \in DOMAIN below : e = below[i]
      BY DEF Range
    <3>2. r[i] = e /\ i \in DOMAIN r
      BY <2>1, <2>2, <3>1
    <3> QED
      BY <3>2 DEF Range
  <2>6. ASSUME NEW e \in Range(bases[d])
        PROVE  e \in Range(r)
    <3>1. PICK i \in DOMAIN bases[d] : e = bases[d][i]
      BY DEF Range
    <3>2. PICK j \in Nat : j = Len(below) + i
      BY <2>1
    <3>3. r[j] = e /\ j \in DOMAIN r
      BY <2>1, <2>2, <3>1, <3>2
    <3> QED
      BY <3>3 DEF Range
  <2> QED
    BY <2>4, <2>5, <2>6 DEF r
\* What the frontier held is there still, is the class taken, or was seen before.
<1>9. ASSUME NEW e \in Range(w.front) \cap Classes
      PROVE  e \in w.seen \cup {d} \cup Range(below)
  <2>1. PICK i \in DOMAIN w.front : e = w.front[i]
    BY DEF Range
  <2>2. CASE i = top
    BY <2>1, <2>2
  <2>3. CASE i < top
    <3>1. i \in 1 .. top - 1 /\ i \in DOMAIN below
      BY <1>5, <1>7, <2>3
    <3>2. below[i] = e
      BY <1>7, <2>1, <3>1
    <3> QED
      BY <3>1, <3>2 DEF Range
  <2>4. CASE i > top
    <3>1. i \notin Fresh(w)
      BY <1>3, <1>5, <2>4
    <3> QED
      BY <2>1, <3>1 DEF Fresh
  <2> QED
    BY <1>5, <2>2, <2>3, <2>4
<1>10. Range(below) \subseteq Range(w.front)
  <2>1. \A i \in DOMAIN below : i \in DOMAIN w.front /\ below[i] = w.front[i]
    BY <1>5, <1>7
  <2> QED
    BY <2>1 DEF Range
<1>11. Range(bases[d]) \cap Classes = BasesOf(d)
  BY DEF BasesOf
<1>12. d \in Up(c) /\ BasesOf(d) \subseteq Up(c)
  <2>1. d \in Range(w.front)
    BY <1>5 DEF Range
  <2> QED
    BY <1>5, <2>1, UpIs DEF Walked
<1> DEFINE f == below \o bases[d]
<1>13. n.front = f /\ n.seen = w.seen \cup {d}
        /\ n.body = (IF <<d, Ctor>> \in defs THEN <<d, Ctor>> ELSE NoBody)
  BY DEF below
<1>14. f \in Seq(Classes \cup {Outside})
  BY <1>6, <1>7
<1>15. n \in Walks
  <2>1. n.body \in (Classes \X {Ctor}) \cup {NoBody}
    BY <1>5, <1>13
  <2>2. n.seen \in SUBSET Classes /\ n.front \in Seq(Classes \cup {Outside})
    BY <1>1, <1>5, <1>13, <1>14
  <2> QED
    BY <2>1, <2>2 DEF Walks
<1> HIDE DEF n, f
<1>16. c \in n.seen \cup Range(n.front)
  <2>1. c \in w.seen \cup Range(w.front)
    BY DEF Walked
  <2> QED
    BY <1>8, <1>9, <1>13, <2>1 DEF f
<1>17. ASSUME NEW e \in n.seen
       PROVE  BasesOf(e) \subseteq n.seen \cup Range(n.front)
  <2>1. CASE e = d
    BY <1>8, <1>11, <1>13, <2>1 DEF f
  <2>2. CASE e \in w.seen
    <3>1. BasesOf(e) \subseteq w.seen \cup Range(w.front) /\ BasesOf(e) \subseteq Classes
      BY <2>2 DEF Walked, BasesOf
    <3> QED
      BY <1>8, <1>9, <1>13, <3>1 DEF f
  <2> QED
    BY <1>13, <2>1, <2>2
<1>18. n.seen \subseteq Up(c) /\ Range(n.front) \cap Classes \subseteq Up(c)
  <2>1. w.seen \subseteq Up(c) /\ Range(w.front) \cap Classes \subseteq Up(c)
    BY DEF Walked
  <2> QED
    BY <1>8, <1>10, <1>11, <1>12, <1>13, <2>1 DEF f
<1>19. n.body = NoBody => \A e \in n.seen : <<e, Ctor>> \notin defs
  <2>1. \A e \in w.seen : <<e, Ctor>> \notin defs
    BY <1>2 DEF Walked
  <2>2. <<d, Ctor>> # NoBody
    BY <1>5, TreesAreFinite DEF NoBody, Owners
  <2> QED
    BY <1>13, <2>1, <2>2
<1>20. n.body # NoBody => n.body \in defs /\ n.body[1] \in Up(c) /\ n.body[2] = Ctor
  BY <1>12, <1>13
<1>21. Walked(c, n)
  BY <1>15, <1>16, <1>17, <1>18, <1>19, <1>20 DEF Walked
<1> QED
  BY <1>4, <1>5, <1>13, <1>21

\* The walk finds a constructor at or above its class whenever one is there.
LEMMA CtorUpIs ==
  ASSUME WellFormed, NEW c \in Classes
  PROVE  /\ CtorUp(c) # NoBody =>
              CtorUp(c) \in defs /\ CtorUp(c)[1] \in Up(c) /\ CtorUp(c)[2] = Ctor
         /\ CtorUp(c) = NoBody => \A d \in Up(c) : <<d, Ctor>> \notin defs
<1> DEFINE first == [front |-> <<c>>, seen |-> {}, body |-> NoBody]
           W(n) == Iterate(Visit, first, n)
<1>1. W(0) = first /\ \A n \in Nat : W(n + 1) = Visit[W(n)]
  BY Iterated
<1>2. Walked(c, first)
  <2>1. <<c>> \in Seq(Classes \cup {Outside})
    OBVIOUS
  <2>2. first \in Walks
    BY <2>1 DEF Walks
  <2>3. Range(<<c>>) = {c}
    BY DEF Range
  <2>4. c \in Up(c)
    BY UpIs
  <2> QED
    BY <2>2, <2>3, <2>4 DEF Walked
<1>3. PICK size \in Nat : size = Cardinality(Classes) /\ IsFiniteSet(Classes)
  BY DefsAreFunctions, FS_CardinalityType
<1>4. CtorUp(c) = W(size).body
  BY <1>3 DEF CtorUp
<1>5. ASSUME NEW w, Walked(c, w), Finished(w)
      PROVE  Visit[w] = w
  BY <1>5 DEF Walked, Finished, Visit
<1>6. first.seen = {}
  OBVIOUS
<1> HIDE DEF W, first
<1> DEFINE S == {n \in Nat : /\ Walked(c, W(n))
                             /\ Finished(W(n)) \/ Cardinality(W(n).seen) = n}
<1>7. 0 \in S
  BY <1>1, <1>2, <1>6, FS_EmptySet
<1>8. ASSUME NEW n \in S \cap Nat
      PROVE  n + 1 \in S
  <2>1. PICK m \in Nat : m = n + 1
    OBVIOUS
  <2>2. W(m) = Visit[W(n)] /\ Walked(c, W(n))
    BY <1>1, <2>1
  <2>3. CASE Finished(W(n))
    <3>1. W(m) = W(n)
      BY <1>5, <2>2, <2>3
    <3> QED
      BY <2>1, <2>2, <2>3, <3>1
  <2>4. CASE ~ Finished(W(n))
    <3>1. Walked(c, W(m))
      BY <2>2, <2>4, VisitWalks
    <3>2. \E d \in Classes \ W(n).seen : W(m).seen = W(n).seen \cup {d}
      BY <2>2, <2>4, VisitWalks
    <3>3. PICK d \in Classes \ W(n).seen : W(m).seen = W(n).seen \cup {d}
      BY <3>2
    <3>4. W(n).seen \subseteq Classes
      BY <2>2 DEF Walked, Walks
    <3>5. IsFiniteSet(W(n).seen)
      BY <1>3, <3>4, FS_Subset
    <3>6. Cardinality(W(m).seen) = Cardinality(W(n).seen) + 1
      BY <3>3, <3>5, FS_AddElement
    <3>7. Cardinality(W(n).seen) = n
      BY <2>4
    <3> QED
      BY <2>1, <3>1, <3>6, <3>7
  <2> QED
    BY <2>3, <2>4
<1>9. size \in S
  <2>1. \A n \in S \cap Nat : n + 1 \in S
    BY <1>8
  <2> HIDE DEF S
  <2> QED
    BY <1>7, <2>1, Inductive
<1> DEFINE w == W(size)
<1>10. Walked(c, w) /\ (Finished(w) \/ Cardinality(w.seen) = size)
  BY <1>9
<1> HIDE DEF w
<1>11. w.seen \in SUBSET Classes /\ w.front \in Seq(Classes \cup {Outside})
  BY <1>10 DEF Walked, Walks
<1>12. Finished(w)
  <2>1. CASE Cardinality(w.seen) = size
    <3>1. w.seen = Classes
      BY <1>3, <1>11, <2>1, FS_Subset
    <3> QED
      BY <3>1 DEF Finished, Fresh
  <2> QED
    BY <1>10, <2>1
<1>13. w.body = NoBody => \A d \in Up(c) : <<d, Ctor>> \notin defs
  <2> SUFFICES ASSUME w.body = NoBody PROVE \A d \in Up(c) : <<d, Ctor>> \notin defs
    OBVIOUS
  <2>1. \A e \in Range(w.front) \cap Classes : e \in w.seen
    <3>1. Fresh(w) = {}
      BY <1>12 DEF Finished
    <3> QED
      BY <3>1 DEF Fresh, Range
  <2>2. c \in w.seen
    BY <1>10, <2>1 DEF Walked
  <2>3. \A d \in w.seen \cap Classes : BasesOf(d) \subseteq w.seen
    BY <1>10, <2>1 DEF Walked, BasesOf
  <2>4. Up(c) \subseteq w.seen
    BY <2>2, <2>3, UpIs
  <2> QED
    BY <1>10, <2>4 DEF Walked
<1>14. w.body # NoBody => w.body \in defs /\ w.body[1] \in Up(c) /\ w.body[2] = Ctor
  BY <1>10 DEF Walked
<1> QED
  BY <1>4, <1>13, <1>14 DEF w

-----------------------------------------------------------------------------
(* What is judged. *)

\* What each shape of a call gets by the class hierarchy alone.
LEMMA ChaIs ==
  ASSUME WellFormed, NEW s \in sites
  PROVE  /\ s.how = "bare" => Cha(s) = IF <<s.on, s.name>> \in defs
                                       THEN Resolved(<<s.on, s.name>>) ELSE Unresolved
         /\ s.how = "new" => Cha(s) = Resolved(ClassSymbol(s.on))
         /\ s.how = "self" => Cha(s) = MethodCall(OnSelf(s), "resolved")
         /\ s.how = "plain" => Cha(s) = IF ByName(s) = {} THEN External
                                        ELSE MethodCall(ByName(s), "by-name")
         /\ s.how = "chain" => Cha(s) = Unresolved
BY DEF Cha

\* Candidates are functions of the tree, of the name called.
LEMMA CandidatesAre ==
  ASSUME WellFormed, NEW s \in sites
  PROVE  /\ IsFiniteSet(OnSelf(s)) /\ IsFiniteSet(ByName(s))
         /\ IsFiniteSet(EdgeTargets(s)) /\ IsFiniteSet(Overrides(EdgeTargets(s)))
         /\ \A f \in OnSelf(s) \cup ByName(s) \cup Overrides(EdgeTargets(s)) :
              f \in defs /\ f[2] = s.name /\ f = <<f[1], s.name>>
         /\ EdgeTargets(s) \subseteq Overrides(EdgeTargets(s))
         /\ EdgeTargets(s) # {} => s.typed /\ s.on \in Classes
         /\ \A f \in EdgeTargets(s) : f[1] \in Up(s.on)
         /\ \A f \in Overrides(EdgeTargets(s)) : f[1] \in Linked(s.on)
         /\ s.how = "self" => \A f \in OnSelf(s) : f[1] \in Linked(s.on)
<1>1. ASSUME NEW f \in EdgeTargets(s)
      PROVE  /\ s.typed /\ s.on \in Classes /\ f = <<f[1], s.name>> /\ f[2] = s.name
             /\ f[1] \in Up(s.on) /\ f \in defs /\ f[1] \in Linked(s.on) /\ f[1] \in Classes
  <2>1. s.typed /\ s.on \in Classes /\ f \in Lookup(s.on, s.name)
    BY DEF EdgeTargets
  <2>2. f = <<f[1], s.name>> /\ f[2] = s.name /\ f[1] \in Up(s.on) /\ f \in defs
    BY <2>1, LookupIs
  <2>3. f[1] \in Linked(s.on) /\ f[1] \in Classes
    BY <2>1, <2>2, LinkedHoldsUpAndDown, UpIs
  <2> QED
    BY <2>1, <2>2, <2>3
<1>2. ASSUME NEW f \in Overrides(EdgeTargets(s)), f \notin EdgeTargets(s)
      PROVE  f \in defs /\ f[2] = s.name /\ f = <<f[1], s.name>> /\ f[1] \in Linked(s.on)
  <2>1. \E t \in EdgeTargets(s) : f \in MethodsNamed(Down(t[1]), t[2])
    BY <1>2 DEF Overrides
  <2>2. PICK t \in EdgeTargets(s) : f \in MethodsNamed(Down(t[1]), t[2])
    BY <2>1
  <2>3. t[2] = s.name /\ t[1] \in Linked(s.on) /\ t[1] \in Classes /\ s.on \in Classes
    BY <1>1
  <2>4. f = <<f[1], s.name>> /\ f[2] = s.name /\ f[1] \in Down(t[1]) /\ f \in defs
    BY <2>2, <2>3, DefinersIn
  <2>5. f[1] \in Linked(t[1]) /\ Linked(t[1]) = Linked(s.on)
    BY <2>3, <2>4, LinkedHoldsUpAndDown, LinkedIsOne
  <2> QED
    BY <2>4, <2>5
<1>3. ASSUME NEW f \in OnSelf(s)
      PROVE  /\ f \in defs /\ f[2] = s.name /\ f = <<f[1], s.name>>
             /\ f[1] \in Up(s.on) \cup Down(s.on)
  BY DefinersIn DEF OnSelf
<1>4. ASSUME NEW f \in ByName(s)
      PROVE  f \in defs /\ f[2] = s.name /\ f = <<f[1], s.name>>
  BY DefinersIn DEF ByName
<1>5. EdgeTargets(s) \subseteq Overrides(EdgeTargets(s))
  BY DEF Overrides
<1>6. \A f \in Overrides(EdgeTargets(s)) :
        f \in defs /\ f[2] = s.name /\ f = <<f[1], s.name>> /\ f[1] \in Linked(s.on)
  BY <1>1, <1>2
<1>7. IsFiniteSet(defs)
  BY DefsAreFunctions
<1>8. /\ OnSelf(s) \subseteq defs /\ ByName(s) \subseteq defs
      /\ EdgeTargets(s) \subseteq defs /\ Overrides(EdgeTargets(s)) \subseteq defs
  BY <1>3, <1>4, <1>5, <1>6
<1>9. s.how = "self" => \A f \in OnSelf(s) : f[1] \in Linked(s.on)
  <2>1. s.how = "self" => s.on \in Classes
    BY SitesAre
  <2> QED
    BY <1>3, <2>1, LinkedHoldsUpAndDown
<1>10. /\ IsFiniteSet(OnSelf(s)) /\ IsFiniteSet(ByName(s))
       /\ IsFiniteSet(EdgeTargets(s)) /\ IsFiniteSet(Overrides(EdgeTargets(s)))
  BY <1>7, <1>8, FS_Subset
<1> QED
  BY <1>1, <1>3, <1>4, <1>5, <1>6, <1>9, <1>10

LEMMA Kinds ==
  /\ \A f : Resolved(f).res = "resolved" /\ Resolved(f).target = f /\ Resolved(f).among = {}
  /\ Unresolved.res = "unresolved" /\ Unresolved.among = {}
  /\ External.res = "external" /\ External.among = {}
BY DEF Resolved, Unresolved, External, Verdict

\* A verdict, by its kind: which shapes have it and what it names.
LEMMA VerdictsAre ==
  ASSUME WellFormed, NEW s \in sites
  PROVE  LET v == Cha(s) IN
         /\ v.res \in {"resolved", "by-name", "unresolved", "ambiguous", "external"}
         /\ v.res = "resolved" =>
              \/ s.how = "bare" /\ v.target = <<s.on, s.name>> /\ v.target \in defs
              \/ s.how = "new" /\ v.target = ClassSymbol(s.on)
              \/ s.how = "self" /\ OnSelf(s) = {v.target}
         /\ v.res = "by-name" => s.how = "plain" /\ ByName(s) = {v.target}
         /\ v.res = "ambiguous" => \/ s.how = "self" /\ v.among = OnSelf(s)
                                   \/ s.how = "plain" /\ v.among = ByName(s)
         /\ v.res = "unresolved" => \/ s.how = "bare" /\ <<s.on, s.name>> \notin defs
                                    \/ s.how = "self" /\ OnSelf(s) = {}
                                    \/ s.how = "chain"
         /\ v.res = "external" => s.how = "plain" /\ ByName(s) = {}
<1>1. CASE s.how = "bare"
  <2>1. \/ Cha(s) = Resolved(<<s.on, s.name>>) /\ <<s.on, s.name>> \in defs
        \/ Cha(s) = Unresolved /\ <<s.on, s.name>> \notin defs
    <3>1. Cha(s) = IF <<s.on, s.name>> \in defs
                   THEN Resolved(<<s.on, s.name>>) ELSE Unresolved
      BY <1>1, ChaIs
    <3> QED
      BY <3>1
  <2> QED
    BY <1>1, <2>1, Kinds
<1>2. CASE s.how = "new"
  <2>1. Cha(s) = Resolved(ClassSymbol(s.on))
    BY <1>2, ChaIs
  <2> QED
    BY <1>2, <2>1, Kinds
<1>3. CASE s.how = "self"
  <2>1. Cha(s) = MethodCall(OnSelf(s), "resolved") /\ IsFiniteSet(OnSelf(s))
    BY <1>3, ChaIs, CandidatesAre
  <2>2. LET v == MethodCall(OnSelf(s), "resolved") IN
        /\ v.res \in {"resolved", "ambiguous", "unresolved"}
        /\ v.res = "resolved" => OnSelf(s) = {v.target}
        /\ v.res = "ambiguous" => v.among = OnSelf(s)
        /\ v.res = "unresolved" => OnSelf(s) = {}
    BY <2>1, MethodCallIs
  <2> QED
    BY <1>3, <2>1, <2>2
<1>4. CASE s.how = "plain" /\ ByName(s) = {}
  <2>1. Cha(s) = External
    BY <1>4, ChaIs
  <2> QED
    BY <1>4, <2>1, Kinds
<1>5. CASE s.how = "plain" /\ ByName(s) # {}
  <2>1. Cha(s) = MethodCall(ByName(s), "by-name") /\ IsFiniteSet(ByName(s))
    BY <1>5, ChaIs, CandidatesAre
  <2>2. LET v == MethodCall(ByName(s), "by-name") IN
        /\ v.res \in {"by-name", "ambiguous", "unresolved"}
        /\ v.res = "by-name" => ByName(s) = {v.target}
        /\ v.res = "ambiguous" => v.among = ByName(s)
        /\ v.res = "unresolved" => ByName(s) = {}
    BY <2>1, MethodCallIs
  <2> QED
    BY <1>5, <2>1, <2>2
<1>6. CASE s.how = "chain"
  <2>1. Cha(s) = Unresolved
    BY <1>6, ChaIs
  <2> QED
    BY <1>6, <2>1, Kinds
<1> QED
  BY <1>1, <1>2, <1>3, <1>4, <1>5, <1>6, SitesAre

\* The oracle's verdict, by what it has for the site.
LEMMA JudgedIs ==
  ASSUME WellFormed, NEW s \in sites
  PROVE  /\ Full[s] = OracleJudged(s)
         /\ Cha(s).res \notin Untyped => Full[s] = Cha(s)
         /\ Cha(s).res \in Untyped /\ EdgeExternal(s) => Full[s] = External
         /\ Cha(s).res \in Untyped /\ EdgeTargets(s) # {} =>
              Full[s] = MethodCall(Overrides(EdgeTargets(s)), "resolved")
         /\ Cha(s).res \in Untyped /\ ~ EdgeExternal(s) /\ EdgeTargets(s) = {} =>
              Full[s] = Unconfirmed(Cha(s))
<1>1. Full[s] = OracleJudged(s)
  BY DEF Full
<1>2. EdgeTargets(s) # {} => ~ EdgeExternal(s)
  <2>1. Outside \notin Classes
    BY TreesAreFinite DEF Owners
  <2> QED
    BY <2>1, CandidatesAre DEF EdgeExternal
<1>3. Cha(s).res \notin Untyped => Full[s] = Cha(s)
  BY <1>1 DEF OracleJudged
<1>4. Cha(s).res \in Untyped /\ EdgeExternal(s) => Full[s] = External
  BY <1>1, <1>2 DEF OracleJudged
<1>5. Cha(s).res \in Untyped /\ EdgeTargets(s) # {} =>
        Full[s] = MethodCall(Overrides(EdgeTargets(s)), "resolved")
  BY <1>1, <1>2 DEF OracleJudged
<1>6. Cha(s).res \in Untyped /\ ~ EdgeExternal(s) /\ EdgeTargets(s) = {} =>
        Full[s] = Unconfirmed(Cha(s))
  BY <1>1 DEF OracleJudged
<1> QED
  BY <1>1, <1>3, <1>4, <1>5, <1>6

\* A run without an oracle takes the hierarchy's verdict, and its guesses for resolved.
LEMMA DegradedIs ==
  ASSUME WellFormed, NEW s \in sites
  PROVE  /\ Cha(s).res # "by-name" => Degraded[s] = Cha(s)
         /\ Cha(s).res = "by-name" => Degraded[s] = Resolved(Cha(s).target)
BY DEF Degraded, NameChaStands

\* A site an oracle resolves: by the hierarchy, or by the one definition its edges leave.
LEMMA FullResolves ==
  ASSUME WellFormed, NEW s \in sites, Full[s].res = "resolved"
  PROVE  \/ Cha(s).res = "resolved" /\ Full[s] = Cha(s)
         \/ /\ Cha(s).res \in Untyped /\ EdgeTargets(s) # {}
            /\ Overrides(EdgeTargets(s)) = {Full[s].target}
<1>1. CASE Cha(s).res \notin Untyped
  BY <1>1, JudgedIs
<1>2. CASE Cha(s).res \in Untyped /\ EdgeExternal(s)
  BY <1>2, JudgedIs DEF External, Verdict
<1>3. CASE Cha(s).res \in Untyped /\ EdgeTargets(s) # {}
  <2> DEFINE c == Overrides(EdgeTargets(s))
  <2>1. Full[s] = MethodCall(c, "resolved") /\ IsFiniteSet(c)
    BY <1>3, JudgedIs, CandidatesAre
  <2> HIDE DEF c
  <2>2. LET v == MethodCall(c, "resolved") IN v.res = "resolved" => c = {v.target}
    BY <2>1, MethodCallIs
  <2> QED
    BY <1>3, <2>1, <2>2 DEF c
<1>4. CASE Cha(s).res \in Untyped /\ ~ EdgeExternal(s) /\ EdgeTargets(s) = {}
  BY <1>4, JudgedIs DEF Unconfirmed, Unresolved, Verdict, Untyped
<1> QED
  BY <1>1, <1>2, <1>3, <1>4

\* A site an oracle calls external: a plain receiver no class has the method for, or one
\* it types outside the tree.
LEMMA FullExternal ==
  ASSUME WellFormed, NEW s \in sites, Full[s].res = "external"
  PROVE  (s.how = "plain" /\ ByName(s) = {}) \/ s.on = Outside
<1>1. CASE Cha(s).res \notin Untyped
  BY <1>1, JudgedIs, VerdictsAre
<1>2. CASE Cha(s).res \in Untyped /\ EdgeExternal(s)
  BY <1>2 DEF EdgeExternal
<1>3. CASE Cha(s).res \in Untyped /\ EdgeTargets(s) # {}
  <2> DEFINE c == Overrides(EdgeTargets(s))
  <2>1. Full[s] = MethodCall(c, "resolved") /\ IsFiniteSet(c)
    BY <1>3, JudgedIs, CandidatesAre
  <2> HIDE DEF c
  <2>2. MethodCall(c, "resolved").res \in {"resolved", "ambiguous", "unresolved"}
    BY <2>1, MethodCallIs
  <2> QED
    BY <2>1, <2>2
<1>4. CASE Cha(s).res \in Untyped /\ ~ EdgeExternal(s) /\ EdgeTargets(s) = {}
  BY <1>4, JudgedIs DEF Unconfirmed, Unresolved, Verdict, Untyped
<1> QED
  BY <1>1, <1>2, <1>3, <1>4

\* Where a method a site may run is overridden nowhere, nothing else is a candidate there.
LEMMA SoleCandidate ==
  ASSUME WellFormed, NEW s \in sites, s.how \in {"self", "plain", "chain"},
         NEW f \in MayRun(s), ~ Overridden(f)
  PROVE  /\ Overrides(EdgeTargets(s)) \subseteq {f}
         /\ EdgeTargets(s) # {} => Overrides(EdgeTargets(s)) = {f} /\ EdgeTargets(s) = {f}
         /\ s.how = "self" => OnSelf(s) \subseteq {f}
<1>1. f \in defs /\ f[2] = s.name /\ s.on \in Classes /\ f[1] \in Classes /\ f[1] \in Linked(s.on)
  BY MayRunIs
<1>2. ASSUME NEW t, t \in defs, t = <<t[1], s.name>>, t[1] \in Linked(s.on)
      PROVE  t = f
  <2>1. PICK d : d = t[1]
    OBVIOUS
  <2>2. d \in Linked(s.on) /\ <<d, f[2]>> \in defs /\ <<d, f[2]>> = t
    BY <1>1, <1>2, <2>1
  <2>3. <<d, f[2]>> = f
    BY <1>1, <2>2, OnlyDefiner
  <2> QED
    BY <2>2, <2>3
<1>3. Overrides(EdgeTargets(s)) \subseteq {f}
  BY <1>2, CandidatesAre
<1>4. EdgeTargets(s) \subseteq Overrides(EdgeTargets(s))
  BY CandidatesAre
<1>5. s.how = "self" => OnSelf(s) \subseteq {f}
  BY <1>2, CandidatesAre
<1> QED
  BY <1>3, <1>4, <1>5

-----------------------------------------------------------------------------
(* Dead code *)

\* What is judged is no name a rule takes for alive, and no library runs it unseen.
LEMMA JudgedIsOurs ==
  ASSUME WellFormed, NEW f \in defs, Judged(f)
  PROVE  /\ f[2] # Ctor /\ ~ Marked(f, "unknown-decorator")
         /\ ~ (f[1] \in Classes /\ \E c \in Down(f[1]) : Up(c) \cap Library # {})
<1>1. f[2] \notin Exempt /\ ~ Marked(f, "unknown-decorator") /\ (f[1] \in Classes => ~ Coupled(f[1]))
  BY DEF Judged
<1> QED
  BY <1>1, TestsAreModules DEF Coupled

\* A function whose name no other scope spells is run by none: #32 needs no graph.
LEMMA Unspelled ==
  ASSUME WellFormed, NEW f \in defs, Judged(f), NEW s \in sites, f \in MayRun(s), s.in # f
  PROVE  s \in Spelling(f)
<1>1. f[2] = s.name /\ (s.how = "new" => f[2] = Ctor)
  BY MayRunIs
<1>2. s.how # "new"
  BY <1>1, JudgedIsOurs
<1> QED
  BY <1>1, <1>2 DEF Spelling

\* A call the closed world's methods leave open the oracle resolves to the one it runs.
LEMMA CalledByGraph ==
  ASSUME WellFormed, EveryCallIsTyped, NEW f \in defs, Judged(f), ~ Overridden(f),
         NEW s \in sites, f \in MayRun(s)
  PROVE  s \in CallsTo(Full, f)
<1> SUFFICES Full[s].res = "resolved" /\ Full[s].target = f
  BY DEF CallsTo
<1>1. f[2] = s.name /\ f[2] # Ctor /\ (s.how = "new" => f[2] = Ctor)
  BY MayRunIs, JudgedIsOurs
<1>2. CASE s.how = "bare"
  <2>1. f = <<s.on, s.name>>
    BY <1>2, MayRunIs
  <2>2. Cha(s) = Resolved(f)
    BY <1>2, <2>1, ChaIs
  <2>3. Cha(s).res = "resolved" /\ Cha(s).target = f
    BY <2>2 DEF Resolved, Verdict
  <2> QED
    BY <2>3, JudgedIs DEF Untyped
<1>3. CASE s.how \in {"self", "plain", "chain"}
  <2>1. s.on \in Classes /\ f[1] \in Classes
    BY <1>3, MayRunIs
  <2>2. ~ EdgeExternal(s)
    BY <2>1, TreesAreFinite DEF EdgeExternal, Owners
  <2>3. ASSUME Cha(s).res \in Untyped
        PROVE  Full[s].res = "resolved" /\ Full[s].target = f
    <3>1. EdgeTargets(s) # {}
      BY <2>2, <2>3 DEF EveryCallIsTyped
    <3>2. Overrides(EdgeTargets(s)) = {f}
      BY <1>3, <3>1, SoleCandidate
    <3>3. Full[s] = MethodCall(Overrides(EdgeTargets(s)), "resolved")
      BY <2>3, <3>1, JudgedIs
    <3>4. IsFiniteSet({f})
      BY FS_Singleton
    <3>5. MethodCall({f}, "resolved") = Verdict("resolved", f, {})
      BY <3>4, MethodCallIs
    <3> QED
      BY <3>2, <3>3, <3>5 DEF Verdict
  <2>4. ASSUME Cha(s).res \notin Untyped
        PROVE  Full[s].res = "resolved" /\ Full[s].target = f
    <3>1. Full[s] = Cha(s)
      BY <2>4, JudgedIs
    <3>2. CASE s.how = "plain"
      <4>1. f \in ByName(s)
        <5>1. <<f[1], s.name>> = f
          BY <1>1, DefsAreFunctions
        <5> QED
          BY <2>1, <5>1 DEF ByName, MethodsNamed, Definers
      <4>2. Cha(s).res = "by-name" \/ Cha(s).res = "ambiguous" \/ Cha(s).res = "external"
              \/ Cha(s).res = "unresolved"
        BY <3>2, VerdictsAre
      <4>3. Cha(s).res # "external"
        BY <4>1, VerdictsAre
      <4> QED
        BY <2>4, <4>2, <4>3 DEF Untyped
    <3>3. CASE s.how = "self"
      <4>1. Cha(s).res = "resolved"
        BY <2>4, <3>3, VerdictsAre DEF Untyped
      <4>2. OnSelf(s) = {Cha(s).target}
        BY <3>3, <4>1, VerdictsAre
      <4>3. OnSelf(s) \subseteq {f}
        BY <1>3, <3>3, SoleCandidate
      <4> QED
        BY <3>1, <4>1, <4>2, <4>3
    <3>4. CASE s.how = "chain"
      BY <2>4, <3>4, VerdictsAre DEF Untyped
    <3> QED
      BY <1>3, <3>2, <3>3, <3>4
  <2> QED
    BY <2>3, <2>4
<1> QED
  BY <1>1, <1>2, <1>3, SitesAre

\* Where the checker types every call, nothing reported dead can run but from its own body.
LEMMA DeadStaysDead ==
  ASSUME WellFormed
  PROVE  DeadIsDead
<1> SUFFICES ASSUME EveryCallIsTyped, NEW f \in Dead(Full)
             PROVE  ~ RunUnseen(f) /\ \A s \in sites : f \in MayRun(s) => s.in = f
  BY DEF DeadIsDead
<1>1. f \in defs /\ (Dead32(f) \/ Dead60(Full, f))
  BY DEF Dead
<1>2. Judged(f)
  BY <1>1 DEF Dead32, Dead60
<1>3. \A m \in {"published", "reference-escape", "dynamic-access", "unknown-decorator",
                "entry-point"} : ~ Marked(f, m)
  <2>1. CASE Dead32(f)
    BY <1>2, <2>1 DEF Dead32, Occurs, NamedElsewhere, Judged
  <2>2. CASE Dead60(Full, f)
    <3>1. Reasons(f) = {} /\ ~ Marked(f, "entry-point")
      BY <2>2 DEF Dead60, Passes
    <3>2. {m \in Escapes : Marked(f, m)} = {}
      BY <3>1 DEF Reasons
    <3> QED
      BY <3>1, <3>2 DEF Escapes
  <2> QED
    BY <1>1, <2>1, <2>2
<1>4. ~ RunUnseen(f)
  BY <1>1, <1>2, <1>3, JudgedIsOurs DEF RunUnseen
<1>5. ASSUME NEW s \in sites, f \in MayRun(s), s.in # f
      PROVE  FALSE
  <2>1. s \in Spelling(f)
    BY <1>1, <1>2, <1>5, Unspelled
  <2>2. CASE Dead32(f)
    BY <2>1, <2>2 DEF Dead32, Occurs
  <2>3. CASE Dead60(Full, f)
    <3>1. ~ Overridden(f) /\ CallsTo(Full, f) = {}
      <4>1. Reasons(f) = {} /\ CallsTo(Full, f) = {}
        BY <2>3 DEF Dead60, Passes
      <4> QED
        BY <4>1 DEF Reasons
    <3>2. s \in CallsTo(Full, f)
      BY <1>1, <1>2, <1>5, <3>1, CalledByGraph
    <3> QED
      BY <3>1, <3>2
  <2> QED
    BY <1>1, <2>2, <2>3
<1> QED
  BY <1>4, <1>5

\* DeadIsDead: what the audit reports dead under a checker that types every call is run by
\* no one but itself, for every program (dead.rs:454-545).
THEOREM NothingDeadRuns == Spec => []DeadIsDead
<1>1. WellFormed => DeadIsDead
  BY DeadStaysDead
<1> QED
  BY <1>1, Written, PTL

\* TestOnlyIsTestOnly: what is reported as reached by tests alone no production call runs,
\* whatever the checker knows (dead.rs:566-650).
THEOREM TestsAloneReachIt == Spec => []TestOnlyIsTestOnly
<1>1. ASSUME WellFormed
      PROVE  TestOnlyIsTestOnly
  <2> SUFFICES ASSUME NEW f \in defs, Dead56(f)
               PROVE  /\ ~ RunUnseen(f)
                      /\ \A s \in sites : f \in MayRun(s) => s.in = f \/ InTests(s.in)
    BY DEF TestOnlyIsTestOnly
  <2>1. /\ Judged(f) /\ ~ Marked(f, "published") /\ ~ NamedElsewhere(f)
        /\ \A s \in Spelling(f) : InTests(s.in)
    BY DEF Dead56
  <2>2. ~ RunUnseen(f)
    BY <1>1, <2>1, JudgedIsOurs DEF RunUnseen, NamedElsewhere
  <2>3. ASSUME NEW s \in sites, f \in MayRun(s), s.in # f
        PROVE  InTests(s.in)
    BY <1>1, <2>1, <2>3, Unspelled
  <2> QED
    BY <2>2, <2>3
<1> QED
  BY <1>1, Written, PTL

-----------------------------------------------------------------------------
(* Effects and heat *)

\* What a graph resolves a site to: the class it builds, or a function of the name called
\* that is the only one so named or lies in the receiver's hierarchy.
LEMMA TargetIs ==
  ASSUME WellFormed, NEW g \in {Full, Degraded}, NEW s \in sites, g[s].res = "resolved"
  PROVE  \/ s.how = "new" /\ g[s].target = ClassSymbol(s.on)
         \/ /\ s.how = "bare" /\ g[s].target = <<s.on, s.name>> /\ g[s].target \in defs
         \/ /\ s.how \in {"self", "plain", "chain"}
            /\ g[s].target \in defs /\ g[s].target[2] = s.name
            /\ ByName(s) = {g[s].target} \/ g[s].target[1] \in Linked(s.on)
<1>1. CASE Cha(s).res = "resolved" /\ g[s] = Cha(s)
  <2>1. CASE s.how = "self"
    <3>1. OnSelf(s) = {g[s].target}
      BY <1>1, <2>1, VerdictsAre
    <3>2. \A f \in OnSelf(s) : f \in defs /\ f[2] = s.name /\ f[1] \in Linked(s.on)
      BY <2>1, CandidatesAre
    <3> QED
      BY <2>1, <3>1, <3>2
  <2>2. CASE s.how # "self"
    BY <1>1, <2>2, VerdictsAre
  <2> QED
    BY <2>1, <2>2
<1>2. CASE Cha(s).res = "by-name" /\ g[s] = Resolved(Cha(s).target)
  <2>1. s.how = "plain" /\ ByName(s) = {g[s].target}
    <3>1. s.how = "plain" /\ ByName(s) = {Cha(s).target}
      BY <1>2, VerdictsAre
    <3>2. g[s].target = Cha(s).target
      BY <1>2, Kinds
    <3> QED
      BY <3>1, <3>2
  <2>2. \A f \in ByName(s) : f \in defs /\ f[2] = s.name
    BY CandidatesAre
  <2> QED
    BY <2>1, <2>2
<1>3. CASE /\ Cha(s).res \in Untyped /\ EdgeTargets(s) # {}
           /\ Overrides(EdgeTargets(s)) = {g[s].target}
  <2>1. s.on \in Classes /\ s.on \notin Modules
    BY <1>3, CandidatesAre, TreesAreFinite
  <2>2. s.how \notin {"bare", "new"}
    <3>1. s.how = "new" => Cha(s).res = "resolved"
      BY ChaIs, Kinds
    <3> QED
      BY <1>3, <2>1, <3>1, SitesAre DEF Untyped
  <2>3. \A f \in Overrides(EdgeTargets(s)) : f \in defs /\ f[2] = s.name /\ f[1] \in Linked(s.on)
    BY CandidatesAre
  <2> QED
    BY <1>3, <2>2, <2>3, SitesAre
<1>4. CASE g = Full
  BY <1>1, <1>3, <1>4, FullResolves
<1>5. CASE g = Degraded
  BY <1>1, <1>2, <1>5, DegradedIs
<1> QED
  BY <1>4, <1>5

LEMMA CalleesAre ==
  ASSUME WellFormed, NEW g \in {Full, Degraded}, NEW s \in sites
  PROVE  /\ g[s].res # "resolved" => CalleeOf(g[s]) = NoBody
         /\ g[s].res = "resolved" /\ s.how = "new" =>
              IsClass(g[s].target) /\ CalleeOf(g[s]) = CtorUp(s.on)
         /\ g[s].res = "resolved" /\ s.how # "new" =>
              /\ ~ IsClass(g[s].target) /\ CalleeOf(g[s]) = g[s].target
              /\ g[s].target \in defs /\ g[s].target # NoBody
         /\ CalleeOf(g[s]) \in defs \cup {NoBody}
<1>1. CASE g[s].res # "resolved"
  BY <1>1 DEF CalleeOf
<1>2. CASE g[s].res = "resolved" /\ s.how = "new"
  <2>1. g[s].target = ClassSymbol(s.on) /\ s.on \in Classes
    BY <1>2, TargetIs, SitesAre
  <2>2. IsClass(g[s].target) /\ g[s].target[1] = s.on
    BY <2>1 DEF ClassSymbol, IsClass
  <2>3. CalleeOf(g[s]) = CtorUp(s.on)
    BY <1>2, <2>2 DEF CalleeOf
  <2> QED
    BY <1>2, <2>1, <2>2, <2>3, CtorUpIs
<1>3. CASE g[s].res = "resolved" /\ s.how # "new"
  <2>1. g[s].target \in defs
    BY <1>3, TargetIs
  <2>2. ~ IsClass(g[s].target) /\ g[s].target # NoBody
    BY <2>1, DefsAreFunctions DEF IsClass
  <2> QED
    BY <1>3, <2>1, <2>2 DEF CalleeOf
<1> QED
  BY <1>1, <1>2, <1>3

\* A function's summary covers its own body and whatever its calls run.
LEMMA ReachIs ==
  ASSUME WellFormed, NEW g \in {Full, Degraded}, NEW f \in defs
  PROVE  /\ Reach(g, f) \subseteq defs /\ f \in Reach(g, f)
         /\ Callees(g, f) \subseteq Reach(g, f)
<1> DEFINE next == [d \in defs |-> Callees(g, d)]
<1>1. \A d \in defs : Callees(g, d) \subseteq defs
  BY CalleesAre DEF Callees
<1>2. next \in [defs -> SUBSET defs] /\ next[f] = Callees(g, f)
  BY <1>1
<1>3. Reach(g, f) = Closure(next, {f})
  BY DEF Reach
<1>4. IsFiniteSet(defs) /\ {f} \in SUBSET defs
  BY DefsAreFunctions
<1> HIDE DEF next
<1>5. /\ Closure(next, {f}) \in SUBSET defs
      /\ {f} \subseteq Closure(next, {f})
      /\ \A d \in Closure(next, {f}) : next[d] \subseteq Closure(next, {f})
  BY <1>2, <1>4, ClosureIsLeast
<1> QED
  BY <1>2, <1>3, <1>5

\* EffectsAreSound: whatever a call may run, the caller's summary holds its writes or says
\* it does not know, with the oracle and without it, for every program (effects.rs:1-5).
THEOREM NeverClaimsClean == Spec => []EffectsAreSound
<1>1. ASSUME WellFormed
      PROVE  EffectsAreSound
  <2> SUFFICES ASSUME NEW g \in {Full, Degraded}, NEW s \in sites, NEW f \in MayRun(s),
                      ~ Effects(g, s.in).unknown
               PROVE  f \in Effects(g, s.in).atoms /\ ~ Rebound(f)
    BY DEF EffectsAreSound
  <2> DEFINE R == Reach(g, s.in)
  <2>1. /\ \A r \in R : ~ DirectUnknown(g, r) /\ ~ EscapesWhenCalled(r)
        /\ Effects(g, s.in).atoms = R
    BY DEF Effects
  <2>2. s.in \in defs /\ R \subseteq defs /\ s.in \in R /\ Callees(g, s.in) \subseteq R
    BY <1>1, SitesAre, ReachIs
  <2> HIDE DEF R
  <2>3. g[s].res \in {"resolved", "external"}
    BY <2>1, <2>2 DEF DirectUnknown
  <2>4. CalleeOf(g[s]) # NoBody => CalleeOf(g[s]) \in R
    BY <2>2 DEF Callees
  <2>5. \A r \in R : ~ Overridden(r) /\ ~ Rebound(r)
    <3> SUFFICES ASSUME NEW r \in R
                 PROVE  ~ Overridden(r) /\ ~ Rebound(r)
      OBVIOUS
    <3>1. /\ ~ Marked(r, "stored")
          /\ Reasons(r) \cap {"unknown-decorator", "method-override", "dynamic-access"} = {}
      BY <2>1 DEF EscapesWhenCalled
    <3>2. ~ Overridden(r)
      BY <3>1 DEF Reasons
    <3>3. \A m \in {"unknown-decorator", "dynamic-access"} : ~ Marked(r, m)
      BY <3>1 DEF Reasons, Escapes
    <3> QED
      BY <3>1, <3>2, <3>3 DEF Rebound
  <2>6. SUFFICES f \in R
    BY <2>1, <2>5
  <2>7. f \in defs /\ f[2] = s.name /\ f = <<f[1], f[2]>>
    BY <1>1, MayRunIs, DefsAreFunctions
  <2>8. CASE s.how = "bare"
    <3>1. f = <<s.on, s.name>>
      BY <1>1, <2>8, MayRunIs
    <3>2. Cha(s).res = "resolved"
      BY <1>1, <2>7, <2>8, <3>1, ChaIs, Kinds
    <3>3. g[s].res = "resolved"
      BY <1>1, <3>2, JudgedIs, DegradedIs DEF Untyped
    <3>4. g[s].target = f
      BY <1>1, <2>8, <3>1, <3>3, TargetIs
    <3>5. CalleeOf(g[s]) = f /\ f # NoBody
      BY <1>1, <2>8, <3>3, <3>4, CalleesAre
    <3> QED
      BY <2>4, <3>5
  <2>9. CASE s.how = "new"
    <3>1. f[2] = Ctor /\ f[1] \in Up(s.on) /\ s.on \in Classes /\ f[1] \in Linked(s.on)
      BY <1>1, <2>9, MayRunIs
    <3>2. Cha(s).res = "resolved"
      BY <1>1, <2>9, ChaIs, Kinds
    <3>3. g[s].res = "resolved"
      BY <1>1, <3>2, JudgedIs, DegradedIs DEF Untyped
    <3>4. CalleeOf(g[s]) = CtorUp(s.on)
      BY <1>1, <2>9, <3>3, CalleesAre
    <3> DEFINE t == CtorUp(s.on)
    <3>5. t # NoBody
      BY <1>1, <2>7, <3>1, CtorUpIs
    <3>6. t \in defs /\ t[1] \in Up(s.on) /\ t[2] = Ctor
      BY <1>1, <3>1, <3>5, CtorUpIs
    <3>7. t \in R /\ ~ Overridden(t)
      BY <2>4, <2>5, <3>4, <3>5
    <3> HIDE DEF t
    <3>8. t[1] \in Classes /\ t[1] \in Linked(s.on)
      BY <1>1, <3>1, <3>6, UpIs, LinkedHoldsUpAndDown
    <3>9. PICK d : d = f[1]
      OBVIOUS
    <3>10. d \in Linked(s.on) /\ <<d, t[2]>> \in defs /\ <<d, t[2]>> = f
      BY <2>7, <3>1, <3>6, <3>9
    <3>11. <<d, t[2]>> = t
      BY <1>1, <3>1, <3>6, <3>7, <3>8, <3>10, OnlyDefiner
    <3> QED
      BY <3>7, <3>10, <3>11
  <2>10. CASE s.how \in {"self", "plain", "chain"}
    <3>1. s.on \in Classes /\ f[1] \in Classes /\ f[1] \in Linked(s.on) /\ s.on # Outside
      BY <1>1, <2>10, MayRunIs, TreesAreFinite DEF Owners
    <3>2. f \in ByName(s)
      BY <2>7, <3>1 DEF ByName, MethodsNamed, Definers
    <3>3. g[s].res # "external"
      <4>1. Full[s].res # "external"
        BY <1>1, <3>1, <3>2, FullExternal
      <4>2. Cha(s).res # "external"
        BY <1>1, <3>2, VerdictsAre
      <4>3. Degraded[s].res # "external"
        BY <1>1, <4>2, DegradedIs, Kinds
      <4> QED
        BY <4>1, <4>3
    <3>4. g[s].res = "resolved"
      BY <2>3, <3>3
    <3> DEFINE t == g[s].target
    <3>5. t \in defs /\ t[2] = s.name /\ (ByName(s) = {t} \/ t[1] \in Linked(s.on))
      BY <1>1, <2>10, <3>4, TargetIs
    <3>6. t \in R /\ ~ Overridden(t)
      BY <1>1, <2>4, <2>5, <2>10, <3>4, CalleesAre
    <3> HIDE DEF t
    <3>7. CASE ByName(s) = {t}
      BY <3>2, <3>6, <3>7
    <3>8. CASE t[1] \in Linked(s.on)
      <4>1. t[1] \in Classes
        BY <1>1, <3>1, <3>8, LinkedIs
      <4>2. PICK d : d = f[1]
        OBVIOUS
      <4>3. d \in Linked(s.on) /\ <<d, t[2]>> \in defs /\ <<d, t[2]>> = f
        BY <2>7, <3>1, <3>5, <4>2
      <4>4. <<d, t[2]>> = t
        BY <1>1, <3>1, <3>5, <3>6, <3>8, <4>1, <4>3, OnlyDefiner
      <4> QED
        BY <3>6, <4>3, <4>4
    <3> QED
      BY <3>5, <3>7, <3>8
  <2> QED
    BY <1>1, <2>8, <2>9, <2>10, SitesAre
<1> QED
  BY <1>1, Written, PTL

\* Without an oracle a site walked for heat has the callee the oracle's graph gives it.
LEMMA SameCallees ==
  ASSUME WellFormed, NEW f
  PROVE  /\ HotCallees(Degraded, TRUE, f) \subseteq HotCallees(Full, FALSE, f)
         /\ HotCallees(Degraded, TRUE, f) \subseteq defs
         /\ HotCallees(Full, FALSE, f) \subseteq defs
<1>1. ASSUME NEW g \in {Full, Degraded}, NEW degraded
      PROVE  HotCallees(g, degraded, f) \subseteq defs
  BY CalleesAre DEF HotCallees
<1>2. ASSUME NEW c \in HotCallees(Degraded, TRUE, f)
      PROVE  c \in HotCallees(Full, FALSE, f)
  <2>1. PICK s \in sites : s.in = f /\ Cha(s).res # "by-name" /\ c = CalleeOf(Degraded[s])
    BY DEF HotCallees
  <2>2. c # NoBody /\ Degraded[s] = Cha(s)
    BY <2>1, DegradedIs DEF HotCallees
  <2>3. Cha(s).res = "resolved"
    BY <2>1, <2>2, CalleesAre
  <2>4. Full[s] = Cha(s)
    BY <2>3, JudgedIs DEF Untyped
  <2> QED
    BY <2>1, <2>2, <2>4 DEF HotCallees
<1> QED
  BY <1>1, <1>2

\* DegradedHotIsASubset: no function is hot in a run without an oracle that is cold in the
\* run with one (hotness.rs:330-336).
THEOREM DegradedHeatsNoMore == Spec => []DegradedHotIsASubset
<1>1. ASSUME WellFormed
      PROVE  DegradedHotIsASubset
  <2> DEFINE guess == [d \in defs |-> HotCallees(Degraded, TRUE, d)]
             full  == [d \in defs |-> HotCallees(Full, FALSE, d)]
             from  == HotRoots \cap defs
  <2>1. \A d \in defs : /\ HotCallees(Degraded, TRUE, d) \subseteq HotCallees(Full, FALSE, d)
                        /\ HotCallees(Degraded, TRUE, d) \subseteq defs
                        /\ HotCallees(Full, FALSE, d) \subseteq defs
    BY <1>1, SameCallees
  <2>2. /\ guess \in [defs -> SUBSET defs] /\ full \in [defs -> SUBSET defs]
        /\ \A d \in defs : guess[d] \subseteq full[d]
    BY <2>1
  <2>3. Hot(Degraded, TRUE) = Closure(guess, from) /\ Hot(Full, FALSE) = Closure(full, from)
    BY DEF Hot
  <2>4. IsFiniteSet(defs) /\ from \in SUBSET defs
    BY <1>1, DefsAreFunctions
  <2> HIDE DEF guess, full, from
  <2>5. /\ Closure(full, from) \in SUBSET defs /\ from \subseteq Closure(full, from)
        /\ \A c \in Closure(full, from) : full[c] \subseteq Closure(full, from)
    BY <2>2, <2>4, ClosureIsLeast
  <2>6. \A c \in Closure(full, from) \cap defs : guess[c] \subseteq Closure(full, from)
    BY <2>2, <2>5
  <2>7. \A T : from \subseteq T /\ (\A c \in T \cap defs : guess[c] \subseteq T)
                 => Closure(guess, from) \subseteq T
    BY <2>2, <2>4, ClosureIsLeast
  <2>8. Closure(guess, from) \subseteq Closure(full, from)
    BY <2>5, <2>6, <2>7
  <2> QED
    BY <2>3, <2>8 DEF DegradedHotIsASubset
<1> QED
  BY <1>1, Written, PTL

-----------------------------------------------------------------------------
(* What a run without an oracle may report beyond one with it *)

\* A site only the oracle resolves to a method no class overrides is behind a chain.
LEMMA OnlyAChain ==
  ASSUME WellFormed, NEW f \in defs, NEW s \in CallsTo(Full, f),
         CallsTo(Degraded, f) = {}, f \notin Guessed(Degraded)
  PROVE  s \in sites /\ s.how = "chain" /\ s.typed /\ s.name = f[2] /\ Degraded[s].res # "resolved"
<1>1. s \in sites /\ Full[s].res = "resolved" /\ Full[s].target = f
  BY DEF CallsTo
<1>2. Degraded[s].res = "resolved" => Degraded[s].target # f
  BY <1>1 DEF CallsTo
<1>3. Cha(s).res # "resolved"
  BY <1>1, <1>2, JudgedIs, DegradedIs DEF Untyped
<1>4. /\ Cha(s).res \in Untyped /\ EdgeTargets(s) # {}
      /\ Overrides(EdgeTargets(s)) = {f}
  BY <1>1, <1>3, FullResolves
<1>5. f \in EdgeTargets(s) /\ f[1] \in Up(s.on) /\ f[2] = s.name /\ f = <<f[1], s.name>>
        /\ s.typed /\ s.on \in Classes /\ f[1] \in Classes
  <2>1. f \in EdgeTargets(s)
    BY <1>1, <1>4, CandidatesAre
  <2>2. s.typed /\ s.on \in Classes /\ f[1] \in Up(s.on) /\ f[2] = s.name /\ f = <<f[1], s.name>>
    BY <1>1, <1>4, <2>1, CandidatesAre
  <2> QED
    BY <2>1, <2>2, UpIs
<1>6. f \in ByName(s) /\ f \in OnSelf(s)
  BY <1>5 DEF ByName, OnSelf, MethodsNamed, Definers
<1>7. Cha(s).res # "by-name"
  <2>1. Cha(s).res = "by-name" => Cha(s).target = f
    BY <1>1, <1>6, VerdictsAre
  <2>2. Cha(s).res = "by-name" => Degraded[s].res = "resolved" /\ Degraded[s].target = Cha(s).target
    BY <1>1, DegradedIs, Kinds
  <2> QED
    BY <1>2, <2>1, <2>2
<1>8. Cha(s).res # "ambiguous"
  <2> SUFFICES ASSUME Cha(s).res = "ambiguous" PROVE FALSE
    OBVIOUS
  <2>1. f \in Cha(s).among
    BY <1>1, <1>6, VerdictsAre
  <2>2. Degraded[s].res = "ambiguous" /\ f \in Degraded[s].among
    BY <1>1, <2>1, DegradedIs
  <2> QED
    BY <1>1, <2>2 DEF Guessed
<1>9. Cha(s).res = "unresolved"
  BY <1>4, <1>7, <1>8 DEF Untyped
<1>10. s.how # "bare"
  BY <1>1, <1>5, TreesAreFinite, SitesAre
<1>11. s.how = "chain"
  BY <1>1, <1>6, <1>9, <1>10, VerdictsAre
<1> QED
  BY <1>1, <1>5, <1>9, <1>11, DegradedIs

\* The oracle's edges add no ambiguity over a method no class overrides.
LEMMA NoNewGuess ==
  ASSUME WellFormed, NEW f \in defs, ~ Overridden(f), f \in Guessed(Full)
  PROVE  f \in Guessed(Degraded)
<1>1. PICK s \in sites : Full[s].res = "ambiguous" /\ f \in Full[s].among
  BY DEF Guessed
<1>2. Cha(s).res \in Untyped
  BY <1>1, JudgedIs DEF Untyped
<1>3. CASE EdgeExternal(s)
  BY <1>1, <1>2, <1>3, JudgedIs, Kinds
<1>4. CASE ~ EdgeExternal(s) /\ EdgeTargets(s) = {}
  <2>1. Full[s] = Unconfirmed(Cha(s))
    BY <1>2, <1>4, JudgedIs
  <2>2. Cha(s).res # "by-name" /\ Full[s] = Cha(s)
    BY <1>1, <2>1, Kinds DEF Unconfirmed
  <2>3. Degraded[s] = Full[s]
    BY <2>2, DegradedIs
  <2> QED
    BY <1>1, <2>3 DEF Guessed
<1>5. CASE EdgeTargets(s) # {}
  <2> DEFINE c == Overrides(EdgeTargets(s))
  <2>1. Full[s] = MethodCall(c, "resolved") /\ IsFiniteSet(c)
    BY <1>2, <1>5, JudgedIs, CandidatesAre
  <2>2. \A t \in c : t \in defs /\ t[2] = s.name /\ t = <<t[1], s.name>> /\ t[1] \in Linked(s.on)
    BY CandidatesAre
  <2>3. s.on \in Classes
    BY <1>5, CandidatesAre
  <2> HIDE DEF c
  <2>4. c = Full[s].among /\ c # {f}
    BY <1>1, <2>1, MethodCallIs
  <2>5. f \in c /\ f[2] = s.name /\ f[1] \in Linked(s.on) /\ f[1] \in Classes
    BY <1>1, <2>2, <2>3, <2>4, LinkedIs
  <2>6. ASSUME NEW t \in c
        PROVE  t = f
    <3>1. PICK d : d = t[1]
      OBVIOUS
    <3>2. d \in Linked(s.on) /\ <<d, f[2]>> \in defs /\ <<d, f[2]>> = t
      BY <2>2, <2>5, <3>1
    <3> QED
      BY <2>3, <2>5, <3>2, OnlyDefiner
  <2> QED
    BY <2>4, <2>5, <2>6
<1> QED
  BY <1>3, <1>4, <1>5

\* GuessesCountAgainst: where #60 reports a function without an oracle and not with one, the
\* oracle found its caller behind a chain, at a name another function shares
\* (callgraph.rs:202).
THEOREM GuessesAreHeldAgainst == Spec => []GuessesCountAgainst
<1>1. ASSUME WellFormed
      PROVE  GuessesCountAgainst
  <2> SUFFICES ASSUME NEW f \in defs, Dead60(Degraded, f), ~ Dead60(Full, f)
               PROVE  /\ Homes(f[2]) # {f}
                      /\ \E s \in sites : s.how = "chain" /\ s.typed /\ s.name = f[2]
    BY DEF GuessesCountAgainst
  <2>1. /\ f \notin Guessed(Degraded) /\ CallsTo(Degraded, f) = {}
        /\ ~ (Unnamed(Degraded, f[2]) # {} /\ Homes(f[2]) = {f})
        /\ Passes(f)
    BY DEF Dead60
  <2>2. \/ f \in Guessed(Full) \/ CallsTo(Full, f) # {}
        \/ Unnamed(Full, f[2]) # {} /\ Homes(f[2]) = {f}
    BY DEF Dead60
  <2>3. ~ Overridden(f)
    BY <2>1 DEF Passes, Reasons
  <2>4. f \notin Guessed(Full)
    BY <1>1, <2>1, <2>3, NoNewGuess
  <2>5. ASSUME NEW s \in CallsTo(Full, f)
        PROVE  /\ Homes(f[2]) # {f}
               /\ \E t \in sites : t.how = "chain" /\ t.typed /\ t.name = f[2]
    <3>1. /\ s \in sites /\ s.how = "chain" /\ s.typed /\ s.name = f[2]
          /\ Degraded[s].res # "resolved"
      BY <1>1, <2>1, OnlyAChain
    <3>2. s \in Unnamed(Degraded, f[2])
      BY <3>1 DEF Unnamed
    <3> QED
      BY <2>1, <3>1, <3>2
  <2>6. ASSUME NEW s \in Unnamed(Full, f[2]), Homes(f[2]) = {f}
        PROVE  FALSE
    <3>1. s \in sites /\ Full[s].res # "resolved" /\ s.name = f[2] /\ s.how # "new"
      BY DEF Unnamed
    <3>2. Degraded[s].res = "resolved"
      BY <2>1, <2>6, <3>1 DEF Unnamed
    <3>3. CASE Cha(s).res # "by-name"
      <4>1. Cha(s).res = "resolved"
        BY <1>1, <3>1, <3>2, <3>3, DegradedIs
      <4> QED
        BY <1>1, <3>1, <4>1, JudgedIs DEF Untyped
    <3>4. CASE Cha(s).res = "by-name"
      <4>1. ByName(s) = {Cha(s).target} /\ Degraded[s].target = Cha(s).target
        BY <1>1, <3>1, <3>4, VerdictsAre, DegradedIs, Kinds
      <4>2. Degraded[s].target \in defs /\ Degraded[s].target[2] = f[2]
        BY <1>1, <3>1, <4>1, CandidatesAre
      <4>3. Degraded[s].target = f
        BY <2>6, <4>2 DEF Homes
      <4> QED
        BY <2>1, <3>1, <3>2, <4>3 DEF CallsTo
    <3> QED
      BY <3>3, <3>4
  <2> QED
    BY <2>2, <2>4, <2>5, <2>6
<1> QED
  BY <1>1, Written, PTL

-----------------------------------------------------------------------------
(* What the walk over components computes is what the verdicts speak of. *)

\* Walks along two tables that are one but for the names of their entries see the same.
LEMMA ClosuresAgree ==
  ASSUME NEW D, IsFiniteSet(D), NEW next \in [D -> SUBSET D], NEW from \in SUBSET D,
         NEW N, IsFiniteSet(N), NEW step \in [N -> SUBSET N],
         NEW id \in [D -> N], \A c, d \in D : id[c] = id[d] => c = d,
         \A n \in N : \E c \in D : id[c] = n,
         \A c \in D : step[id[c]] = {id[d] : d \in next[c]}
  PROVE  {id[c] : c \in Closure(next, from)} = Closure(step, {id[c] : c \in from})
<1> DEFINE C == Closure(next, from)
           start == {id[c] : c \in from}
           K == Closure(step, start)
<1>1. start \in SUBSET N
  OBVIOUS
<1> HIDE DEF start
<1>2. /\ C \in SUBSET D /\ from \subseteq C /\ \A c \in C : next[c] \subseteq C
      /\ \A T : from \subseteq T /\ (\A c \in T \cap D : next[c] \subseteq T) => C \subseteq T
  BY ClosureIsLeast
<1>3. /\ K \in SUBSET N /\ start \subseteq K /\ \A n \in K : step[n] \subseteq K
      /\ \A T : start \subseteq T /\ (\A n \in T \cap N : step[n] \subseteq T) => K \subseteq T
  BY <1>1, ClosureIsLeast
<1> HIDE DEF C, K
<1>4. K \subseteq {id[c] : c \in C}
  <2> DEFINE T == {id[c] : c \in C}
  <2>1. start \subseteq T
    BY <1>2 DEF start
  <2>2. ASSUME NEW n \in T \cap N PROVE step[n] \subseteq T
    <3>1. PICK c \in C : n = id[c]
      OBVIOUS
    <3>2. step[n] = {id[d] : d \in next[c]}
      BY <1>2, <3>1
    <3> QED
      BY <1>2, <3>2
  <2> HIDE DEF T
  <2>3. K \subseteq T
    BY <1>3, <2>1, <2>2
  <2> QED
    BY <2>3 DEF T
<1>5. C \subseteq {c \in D : id[c] \in K}
  <2> DEFINE T == {c \in D : id[c] \in K}
  <2>1. from \subseteq T
    BY <1>3 DEF start
  <2>2. ASSUME NEW c \in T \cap D PROVE next[c] \subseteq T
    <3>1. step[id[c]] \subseteq K /\ step[id[c]] = {id[d] : d \in next[c]}
      BY <1>3
    <3> QED
      BY <3>1
  <2> HIDE DEF T
  <2>3. C \subseteq T
    BY <1>2, <2>1, <2>2
  <2> QED
    BY <2>3 DEF T
<1> QED
  BY <1>4, <1>5 DEF C, K, start

\* The graph that is walked is the one of the calls in a table, each function under the
\* number it is sorted at.
Numbering(id) ==
  /\ id \in [defs -> Nodes]
  /\ \A f, h \in defs : id[f] = id[h] => f = h
  /\ \A n \in Nodes : \E f \in defs : id[f] = n
GraphOf(table, id) == \A f \in defs : Neighbours(id[f]) = {id[h] : h \in table[f]}

CallTable(g) == [f \in defs |-> Callees(g, f)]
HotTable(g, degraded) == [f \in defs |-> HotCallees(g, degraded, f)]

LEMMA WalksAgree ==
  ASSUME WellFormed, edges \in SUBSET (Nodes \X Nodes), NEW id, Numbering(id),
         NEW table \in [defs -> SUBSET defs], GraphOf(table, id), NEW from \in SUBSET defs
  PROVE  {id[f] : f \in Closure(table, from)} = Reached({id[f] : f \in from})
<1> DEFINE step == [n \in Nodes |-> Neighbours(n)]
<1>1. step \in [Nodes -> SUBSET Nodes] /\ IsFiniteSet(Nodes) /\ IsFiniteSet(defs)
  BY NodesAreNumbers, DefsAreFunctions DEF Neighbours
<1>2. /\ id \in [defs -> Nodes] /\ \A f, h \in defs : id[f] = id[h] => f = h
      /\ \A n \in Nodes : \E f \in defs : id[f] = n
  BY DEF Numbering
<1>3. \A f \in defs : step[id[f]] = {id[h] : h \in table[f]}
  BY <1>2 DEF GraphOf
<1>4. \A start : Reached(start) = Closure(step, start)
  BY DEF Reached
<1> HIDE DEF step
<1> QED
  BY <1>1, <1>2, <1>3, <1>4, ClosuresAgree

LEMMA CallTableIs ==
  ASSUME WellFormed, NEW g \in {Full, Degraded}
  PROVE  /\ CallTable(g) \in [defs -> SUBSET defs]
         /\ \A f \in defs : Reach(g, f) = Closure(CallTable(g), {f})
<1>1. \A f \in defs : Callees(g, f) \subseteq defs
  BY ReachIs
<1> QED
  BY <1>1 DEF CallTable, Reach

\* effects.rs:1-5 "never claim clean", of what the one fold per component leaves in a
\* summary: it holds the writes of exactly the functions the call graph reaches, and the
\* unknown of all of them; so whatever a call may run, its caller's summary holds that
\* body's writes, or it says it does not know, or the caller itself escapes.
FoldsAreSound ==
  \A g \in {Full, Degraded} : \A id \in [defs -> Nodes] :
    /\ Numbering(id) /\ GraphOf(CallTable(g), id)
    /\ \A f \in defs : DirectUnknown(g, f) \/ EscapesWhenCalled(f) => id[f] \in Unknown
    /\ Folded /\ amp = << >>
    => /\ \A f \in defs :
            {h \in defs : Writes(id[h]) \in SummaryOf(id[f]).atoms} = Effects(g, f).atoms
       /\ \A s \in sites : \A f \in MayRun(s) :
            \/ SummaryOf(id[s.in]).unknown
            \/ Reasons(s.in) \ {"framework-base"} # {}
            \/ Writes(id[f]) \in SummaryOf(id[s.in]).atoms /\ ~ Rebound(f)

LEMMA FoldsAreEffects ==
  ASSUME WellFormed, SInv, EffectsAreSound
  PROVE  FoldsAreSound
<1> SUFFICES ASSUME NEW g \in {Full, Degraded}, NEW id \in [defs -> Nodes],
                    Numbering(id), GraphOf(CallTable(g), id),
                    \A f \in defs : DirectUnknown(g, f) \/ EscapesWhenCalled(f) => id[f] \in Unknown,
                    Folded, amp = << >>
             PROVE  /\ \A f \in defs :
                         {h \in defs : Writes(id[h]) \in SummaryOf(id[f]).atoms} = Effects(g, f).atoms
                    /\ \A s \in sites : \A f \in MayRun(s) :
                         \/ SummaryOf(id[s.in]).unknown
                         \/ Reasons(s.in) \ {"framework-base"} # {}
                         \/ Writes(id[f]) \in SummaryOf(id[s.in]).atoms /\ ~ Rebound(f)
  BY DEF FoldsAreSound
<1>1. edges \in SUBSET (Nodes \X Nodes)
  BY DEF SInv, Searching, Met, Mapped
<1>2. SummariesAreReachable
  BY SummariesAre
<1>3. CallTable(g) \in [defs -> SUBSET defs] /\ \A f \in defs : Reach(g, f) = Closure(CallTable(g), {f})
  BY CallTableIs
<1>4. ASSUME NEW f \in defs
      PROVE  /\ Reach(g, f) \subseteq defs
             /\ {id[h] : h \in Reach(g, f)} = Reached({id[f]})
  <2>1. {f} \in SUBSET defs /\ {id[h] : h \in {f}} = {id[f]}
    OBVIOUS
  <2>2. {id[h] : h \in Closure(CallTable(g), {f})} = Reached({id[h] : h \in {f}})
    BY <1>1, <1>3, <2>1, WalksAgree
  <2> QED
    BY <1>3, <2>1, <2>2, ReachIs
<1>5. ASSUME NEW f \in defs
      PROVE  /\ {m \in Nodes : Writes(m) \in SummaryOf(id[f]).atoms} = Reached({id[f]})
             /\ Reached({id[f]}) \cap Unknown # {} => SummaryOf(id[f]).unknown
  BY <1>2 DEF SummariesAreReachable
<1>6. ASSUME NEW f \in defs
      PROVE  {h \in defs : Writes(id[h]) \in SummaryOf(id[f]).atoms} = Reach(g, f)
  <2>1. ASSUME NEW h \in defs
        PROVE  Writes(id[h]) \in SummaryOf(id[f]).atoms <=> h \in Reach(g, f)
    <3>1. Writes(id[h]) \in SummaryOf(id[f]).atoms <=> id[h] \in Reached({id[f]})
      BY <1>5
    <3>2. id[h] \in Reached({id[f]}) <=> h \in Reach(g, f)
      BY <1>4 DEF Numbering
    <3> QED
      BY <3>1, <3>2
  <2> QED
    BY <1>4, <2>1
<1>7. ASSUME NEW s \in sites, NEW f \in MayRun(s)
      PROVE  \/ SummaryOf(id[s.in]).unknown
             \/ Reasons(s.in) \ {"framework-base"} # {}
             \/ Writes(id[f]) \in SummaryOf(id[s.in]).atoms /\ ~ Rebound(f)
  <2>1. s.in \in defs /\ f \in defs
    BY SitesAre, MayRunIs
  <2>2. Effects(g, s.in).unknown \/ (f \in Reach(g, s.in) /\ ~ Rebound(f))
    BY DEF EffectsAreSound, Effects
  <2>3. CASE Effects(g, s.in).unknown
    <3>1. \/ \E r \in Reach(g, s.in) : DirectUnknown(g, r) \/ EscapesWhenCalled(r)
          \/ Reasons(s.in) \ {"framework-base"} # {}
      BY <2>3 DEF Effects
    <3>2. ASSUME NEW r \in Reach(g, s.in), DirectUnknown(g, r) \/ EscapesWhenCalled(r)
          PROVE  SummaryOf(id[s.in]).unknown
      <4>1. id[r] \in Reached({id[s.in]}) /\ id[r] \in Unknown
        BY <1>4, <2>1, <3>2
      <4> QED
        BY <1>5, <2>1, <4>1
    <3> QED
      BY <3>1, <3>2
  <2>4. CASE f \in Reach(g, s.in) /\ ~ Rebound(f)
    BY <1>6, <2>1, <2>4
  <2> QED
    BY <2>2, <2>3, <2>4
<1> QED
  BY <1>6, <1>7 DEF Effects

\* The promise of effects.rs for the search, the fold and the call graph together, for every
\* program and in whatever order its functions are sorted.
THEOREM FoldsNeverClaimClean == Spec /\ GraphSpec => []FoldsAreSound
<1>1. WellFormed /\ SInv /\ EffectsAreSound => FoldsAreSound
  BY FoldsAreEffects
<1> QED
  BY <1>1, Written, SummariesGo, NeverClaimsClean, PTL

\* The functions heat has reached, when it is spread, are the hot set of that run.
HeatReaches(g, degraded) ==
  \A id \in [defs -> Nodes] :
    /\ Numbering(id) /\ GraphOf(HotTable(g, degraded), id)
    /\ roots = {id[f] : f \in HotRoots \cap defs}
    /\ Hotspread
    => DOMAIN amp = {id[f] : f \in Hot(g, degraded)}

LEMMA SpreadIsTheHotSet ==
  ASSUME WellFormed, HInv, NEW g, NEW degraded,
         \A f \in defs : HotCallees(g, degraded, f) \subseteq defs
  PROVE  HeatReaches(g, degraded)
<1> SUFFICES ASSUME NEW id \in [defs -> Nodes],
                    Numbering(id), GraphOf(HotTable(g, degraded), id),
                    roots = {id[f] : f \in HotRoots \cap defs}, Hotspread
             PROVE  DOMAIN amp = {id[f] : f \in Hot(g, degraded)}
  BY DEF HeatReaches
<1>1. edges \in SUBSET (Nodes \X Nodes)
  BY DEF HInv, SInv, Searching, Met, Mapped
<1>2. PICK table : table = HotTable(g, degraded)
  OBVIOUS
<1>3. table \in [defs -> SUBSET defs]
  BY <1>2 DEF HotTable
<1>4. Hot(g, degraded) = Closure(table, HotRoots \cap defs)
  BY <1>2 DEF Hot, HotTable
<1>5. {id[f] : f \in Closure(table, HotRoots \cap defs)} = Reached(roots)
  BY <1>1, <1>2, <1>3, WalksAgree
<1>6. DOMAIN amp = Reached(roots)
  BY HeatIs DEF HeatFlows
<1> QED
  BY <1>4, <1>5, <1>6

\* hotness.rs:286-312: what heat spreads over, with the oracle and without it, is the hot
\* set DegradedHotIsASubset speaks of, for every program and in whatever order its functions
\* are sorted.
HeatIsTheHotSet == HeatReaches(Full, FALSE) /\ HeatReaches(Degraded, TRUE)

THEOREM HeatReachesTheHotSet == Spec /\ GraphSpec => []HeatIsTheHotSet
<1>1. WellFormed /\ HInv => HeatIsTheHotSet
  <2> SUFFICES ASSUME WellFormed, HInv PROVE HeatIsTheHotSet
    OBVIOUS
  <2>1. \A f \in defs : /\ HotCallees(Degraded, TRUE, f) \subseteq defs
                        /\ HotCallees(Full, FALSE, f) \subseteq defs
    BY SameCallees
  <2> QED
    BY <2>1, SpreadIsTheHotSet DEF HeatIsTheHotSet
<1> QED
  BY <1>1, Written, HeatGoes, PTL
=============================================================================
