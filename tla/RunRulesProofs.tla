--------------------------- MODULE RunRulesProofs ---------------------------
(***************************************************************************)
(* For any cells, rules, jobs and number of workers, under the assumptions *)
(* on what is warmed: no thread waits for a cell it is building itself,    *)
(* world owners run alone, and the parallel group runs no pass.            *)
(***************************************************************************)
EXTENDS RunRules, TLAPS

\* The cells thread t is building.
Mine(t) == {m \in Memo : cell[m] = "busy" /\ builder[m] = t}

\* A thread's cells nest: the one on top is the deepest of them, and below each is the
\* next.
Nested ==
  \A t \in Thread :
    /\ top[t] \in Memo => top[t] \in Mine(t)
    /\ \A m \in Mine(t) :
         /\ top[t] \in Memo /\ (m = top[t] \/ Depth[top[t]] < Depth[m])
         /\ under[m] \in Memo => under[m] \in Mine(t) /\ Depth[m] < Depth[under[m]]
         /\ \A n \in Mine(t) :
              /\ Depth[m] = Depth[n] => m = n
              /\ Depth[m] < Depth[n] => under[m] \in Memo /\ Depth[under[m]] <= Depth[n]

\* What is still to be asked for, and what was.
Asking ==
  /\ \A m \in Memo :
       /\ cell[m] = "busy" => left[m] \subseteq Needs[m]
       /\ cell[m] = "busy" => \A n \in Needs[m] \ left[m] : cell[n] = "built"
       /\ cell[m] = "built" => \A n \in Needs[m] : cell[n] = "built"
  /\ \A m \in Forks : \A x \in Job[m] : left[x] \subseteq JobNeeds[m]

\* A set of cells the jobs keep to, apart from every cell that forks.
Apart == CHOOSE Q \in SUBSET Memo : ApartFromForks(Q)

\* While cells are warmed no rule is queued, and workers build what jobs ask for.
Warming ==
  phase = "warm" =>
    /\ queue \subseteq Jobs /\ finished \subseteq Jobs
    /\ \A t \in Thread : top[t] \notin Rule
    /\ \A m \in Memo : under[m] \notin Rule
    /\ \A i \in 1 .. Len(Warmed) : i < at => cell[Warmed[i]] = "built"
    /\ \A w \in Worker : Mine(w) \subseteq Apart

\* Afterwards every cell that forks or runs a pass is built.
Warmth ==
  phase # "warm" => \A m \in Forks \union Passes : cell[m] = "built"

\* A task is begun on a thread that does nothing.
Bottom == \A x \in Task : under[x] = Idle

Cells == TypeOK /\ Nested /\ Bottom /\ Asking /\ Warming /\ Warmth

LEMMA ApartIs == Apart \in SUBSET Memo /\ ApartFromForks(Apart)
BY JobAssumption DEF Apart

\* A cell is begun on top of what the thread does: of nothing, of a task, or of a cell
\* that asks for it.
LEMMA BeginNests ==
  ASSUME TypeOK, Nested, NEW t \in Thread, NEW m \in Memo, Begin(t, m),
         top[t] \in Memo => Depth[m] < Depth[top[t]]
  PROVE  /\ Nested'
         /\ Mine(t)' = Mine(t) \union {m}
         /\ \A u \in Thread \ {t} : Mine(u)' = Mine(u)
<1> USE DEF Begin, Push, TypeOK
<1>1. /\ top' = [top EXCEPT ![t] = m] /\ under' = [under EXCEPT ![m] = top[t]]
      /\ cell' = [cell EXCEPT ![m] = "busy"] /\ builder' = [builder EXCEPT ![m] = t]
      /\ cell[m] = "empty"
  OBVIOUS
<1>2. \A u \in Thread : Mine(u)' = IF u = t THEN Mine(t) \union {m} ELSE Mine(u)
  BY <1>1 DEF Mine
<1>3. top'[t] = m /\ under'[m] = top[t] /\ \A u \in Thread \ {t} : top'[u] = top[u]
  BY <1>1 DEF Work
<1>4. \A n \in Memo \ {m} : under'[n] = under[n]
  BY <1>1 DEF Work
<1>5. \A u \in Thread : m \notin Mine(u)
  BY <1>1 DEF Mine
<1>6. Depth \in [Memo -> Nat]
  BY DepthAssumption
<1>7. \A u \in Thread : Mine(u) \subseteq Memo
  BY DEF Mine
<1> HIDE DEF Begin, Push, TypeOK, Mine
<1>8. ASSUME NEW n \in Mine(t) PROVE top[t] \in Memo /\ Depth[m] < Depth[n] /\ Depth[top[t]] <= Depth[n]
  BY <1>6, <1>7, <1>8 DEF Nested
<1>9. Nested'
  <2> SUFFICES ASSUME NEW u \in Thread
               PROVE  (/\ top[u] \in Memo => top[u] \in Mine(u)
                       /\ \A k \in Mine(u) :
                            /\ top[u] \in Memo /\ (k = top[u] \/ Depth[top[u]] < Depth[k])
                            /\ under[k] \in Memo => under[k] \in Mine(u) /\ Depth[k] < Depth[under[k]]
                            /\ \A n \in Mine(u) :
                                 /\ Depth[k] = Depth[n] => k = n
                                 /\ Depth[k] < Depth[n] => under[k] \in Memo /\ Depth[under[k]] <= Depth[n])'
    BY DEF Nested
  <2>1. CASE u # t
    BY <2>1, <1>2, <1>3, <1>4, <1>5, <1>7 DEF Nested
  <2>2. CASE u = t
    <3>1. ASSUME NEW k \in Mine(t)'
          PROVE  /\ k = m \/ Depth[m] < Depth[k]
                 /\ under'[k] \in Memo => under'[k] \in Mine(t)' /\ Depth[k] < Depth[under'[k]]
      BY <1>2, <1>3, <1>4, <1>5, <1>7, <1>8 DEF Nested
    <3>2. ASSUME NEW k \in Mine(t)', NEW n \in Mine(t)'
          PROVE  /\ Depth[k] = Depth[n] => k = n
                 /\ Depth[k] < Depth[n] => under'[k] \in Memo /\ Depth[under'[k]] <= Depth[n]
      <4>1. CASE k = m /\ n = m
        BY <4>1, <1>6
      <4>2. CASE k = m /\ n # m
        BY <4>2, <1>2, <1>3, <1>6, <1>7, <1>8
      <4>3. CASE k # m /\ n = m
        BY <4>3, <1>2, <1>6, <1>7, <1>8
      <4>4. CASE k # m /\ n # m
        BY <4>4, <1>2, <1>4, <1>7 DEF Nested
      <4> QED
        BY <4>1, <4>2, <4>3, <4>4
    <3> QED
      BY <2>2, <1>2, <1>3, <3>1, <3>2
  <2> QED
    BY <2>1, <2>2
<1> QED
  BY <1>2, <1>9

\* A cell that is built uncovers the one that asked for it.
LEMMA EndNests ==
  ASSUME TypeOK, Nested, NEW t \in Thread, top[t] \in Memo,
         cell' = [cell EXCEPT ![top[t]] = "built"], Pop(t), UNCHANGED <<builder, under>>
  PROVE  /\ Nested'
         /\ Mine(t)' = Mine(t) \ {top[t]}
         /\ \A u \in Thread \ {t} : Mine(u)' = Mine(u)
         /\ top[t] \in Mine(t) /\ (top'[t] \in Memo => top'[t] \in Mine(t))
<1> DEFINE m == top[t]
<1>1. m \in Mine(t) /\ m \in Memo
  BY DEF Nested
<1>2. \A u \in Thread : Mine(u)' = IF u = t THEN Mine(t) \ {m} ELSE Mine(u)
  BY <1>1 DEF Mine, TypeOK
<1>3. top'[t] = under[m] /\ \A u \in Thread \ {t} : top'[u] = top[u]
  BY DEF Pop, TypeOK
<1>4. Depth \in [Memo -> Nat] /\ \A u \in Thread : Mine(u) \subseteq Memo
  BY DepthAssumption DEF Mine
<1> HIDE DEF m, Mine
<1>5. ASSUME NEW n \in Mine(t) \ {m}
      PROVE  Depth[m] < Depth[n] /\ under[m] \in Mine(t) \ {m} /\ Depth[under[m]] <= Depth[n]
  BY <1>1, <1>4, <1>5 DEF Nested, m
<1>6. Nested'
  <2> SUFFICES ASSUME NEW u \in Thread
               PROVE  (/\ top[u] \in Memo => top[u] \in Mine(u)
                       /\ \A k \in Mine(u) :
                            /\ top[u] \in Memo /\ (k = top[u] \/ Depth[top[u]] < Depth[k])
                            /\ under[k] \in Memo => under[k] \in Mine(u) /\ Depth[k] < Depth[under[k]]
                            /\ \A n \in Mine(u) :
                                 /\ Depth[k] = Depth[n] => k = n
                                 /\ Depth[k] < Depth[n] => under[k] \in Memo /\ Depth[under[k]] <= Depth[n])'
    BY DEF Nested
  <2>1. CASE u # t
    BY <2>1, <1>2, <1>3, <1>4 DEF Nested
  <2>2. CASE u = t
    <3>1. under[m] \in Memo => under[m] \in Mine(t) \ {m}
      BY <1>1, <1>4 DEF Nested
    <3>2. ASSUME NEW k \in Mine(t) \ {m}
          PROVE  /\ under[m] \in Memo /\ (k = under[m] \/ Depth[under[m]] < Depth[k])
                 /\ under[k] \in Memo => under[k] \in Mine(t) \ {m} /\ Depth[k] < Depth[under[k]]
      <4>1. Depth[under[m]] = Depth[k] => under[m] = k
        BY <1>5, <3>2 DEF Nested
      <4>2. under[m] \in Memo /\ (k = under[m] \/ Depth[under[m]] < Depth[k])
        BY <1>4, <1>5, <3>2, <4>1
      <4>3. under[k] \in Memo => under[k] \in Mine(t) /\ Depth[k] < Depth[under[k]]
        BY <3>2 DEF Nested
      <4>4. Depth[m] < Depth[k]
        BY <1>5, <3>2
      <4> QED
        BY <1>1, <1>4, <3>2, <4>2, <4>3, <4>4
    <3>3. \A k, n \in Mine(t) :
            /\ Depth[k] = Depth[n] => k = n
            /\ Depth[k] < Depth[n] => under[k] \in Memo /\ Depth[under[k]] <= Depth[n]
      BY DEF Nested
    <3> QED
      BY <2>2, <1>2, <1>3, <3>1, <3>2, <3>3
  <2> QED
    BY <2>1, <2>2
<1> QED
  BY <1>1, <1>2, <1>3, <1>6 DEF Nested, m

\* A thread that is at no cell builds none.
LEMMA NoneBuilt ==
  ASSUME Nested, NEW t \in Thread, top[t] \notin Memo
  PROVE  Mine(t) = {}
BY DEF Nested

\* A task taken or finished leaves the cells as they are.
LEMMA TaskNests ==
  ASSUME TypeOK, Nested, NEW t \in Thread, NEW x, NEW y,
         top[t] \notin Memo, y \notin Memo, x \notin Memo,
         top' = [top EXCEPT ![t] = y], UNCHANGED <<cell, builder>>,
         \A m \in Memo : under'[m] = under[m]
  PROVE  Nested' /\ \A u \in Thread : Mine(u)' = Mine(u)
<1>1. \A u \in Thread : Mine(u)' = Mine(u) /\ Mine(u) \subseteq Memo
  BY DEF Mine
<1>2. top'[t] = y /\ \A u \in Thread \ {t} : top'[u] = top[u]
  BY DEF TypeOK
<1>3. Mine(t) = {}
  BY NoneBuilt
<1> HIDE DEF Mine
<1> QED
  BY <1>1, <1>2, <1>3 DEF Nested

-----------------------------------------------------------------------------
LEMMA Apartness ==
  /\ Idle \notin Memo /\ \A x \in Task : x \notin Memo
  /\ \A r \in Rule : r \notin Jobs
  /\ Jobs \subseteq Task /\ Rule \subseteq Task /\ Task \subseteq Work /\ Memo \subseteq Work
  /\ Worker \subseteq Thread /\ Main \in Thread
BY WorkAssumption DEF Work, Task, Thread

\* No worker is at a cell that forks.
LEMMA ForksAreMains ==
  ASSUME Cells, NEW w \in Worker
  PROVE  top[w] \notin Forks
<1> SUFFICES ASSUME top[w] \in Forks
             PROVE  FALSE
  OBVIOUS
<1>1. top[w] \in Mine(w) /\ top[w] \in Memo
  BY MemoAssumption, Apartness DEF Cells, Nested
<1>2. CASE phase = "warm"
  BY <1>1, <1>2, ApartIs DEF Cells, Warming, ApartFromForks
<1>3. CASE phase # "warm"
  BY <1>1, <1>3 DEF Cells, Warmth, Mine
<1> QED
  BY <1>2, <1>3

\* Nothing is begun.
LEMMA CellsStart == Init => Cells
<1> SUFFICES ASSUME Init
             PROVE  Cells
  OBVIOUS
<1>1. Len(Warmed) \in Nat
  BY MemoAssumption
<1>2. TypeOK
  <2>1. at \in 1 .. 1 + IF phase \in {"warm", "group"} THEN Len(Warmed) ELSE Len(Owners)
    BY <1>1 DEF Init
  <2> QED
    BY <2>1, Apartness DEF Init, TypeOK
<1>3. \A t \in Thread : Mine(t) = {}
  BY DEF Init, Mine
<1>4. Nested
  BY <1>3, Apartness DEF Init, Nested
<1>5. Bottom
  BY Apartness DEF Init, Bottom
<1>6. Asking
  BY Apartness, MemoAssumption DEF Init, Asking, Jobs
<1>7. Warming
  BY <1>1, <1>3, WorkAssumption, Apartness DEF Init, Warming, Work, Task
<1>8. Warmth
  BY DEF Init, Warmth
<1> QED
  BY <1>2, <1>4, <1>5, <1>6, <1>7, <1>8 DEF Cells

LEMMA ReadStep ==
  ASSUME Cells, NEW t \in Thread, NEW m \in Memo, Read(t, m)
  PROVE  Cells'
<1>1. /\ UNCHANGED <<phase, at, cell, builder, forked, queue, finished, top, under, down>>
      /\ left' = [left EXCEPT ![top[t]] = @ \ {m}] /\ cell[m] = "built"
      /\ top[t] \in Work
  BY DEF Read, Cells, TypeOK
<1>2. left' \in [Work -> SUBSET Memo]
  BY <1>1 DEF Cells, TypeOK
<1>3. \A x \in Work : left'[x] \subseteq left[x] /\ left[x] \subseteq left'[x] \union {m}
  BY <1>1 DEF Cells, TypeOK
<1>4. TypeOK'
  BY <1>1, <1>2 DEF Cells, TypeOK
<1>5. \A u \in Thread : Mine(u)' = Mine(u)
  BY <1>1 DEF Mine
<1>6. Nested' /\ Bottom' /\ Warming' /\ Warmth'
  <2>1. Nested'
    BY <1>1, <1>5 DEF Cells, Nested
  <2>2. Warming'
    BY <1>1, <1>5, Apartness DEF Cells, Warming
  <2> QED
    BY <1>1, <2>1, <2>2 DEF Cells, Bottom, Warmth
<1>7. Asking'
  BY <1>1, <1>3, Apartness DEF Cells, Asking, Jobs
<1> QED
  BY <1>4, <1>6, <1>7 DEF Cells

\* What a thread asks for nests in what it does, and a worker that warms keeps apart.
LEMMA AskedFor ==
  ASSUME Cells, NEW t \in Thread, NEW m \in Memo, top[t] # Idle, m \in left[top[t]]
  PROVE  /\ top[t] \in Memo => m \in Needs[top[t]] /\ Depth[m] < Depth[top[t]]
         /\ phase = "warm" /\ t \in Worker => m \in Apart
<1>1. top[t] \in Memo => top[t] \in Mine(t)
  BY DEF Cells, Nested
<1>2. top[t] \in Memo => m \in Needs[top[t]] /\ Depth[m] < Depth[top[t]]
  BY <1>1, DepthAssumption DEF Cells, Asking, Mine
<1>3. ASSUME phase = "warm", t \in Worker PROVE m \in Apart
  <2>1. CASE top[t] \in Memo
    BY <1>1, <1>2, <1>3, <2>1, ApartIs DEF Cells, Warming, ApartFromForks
  <2>2. CASE top[t] \notin Memo
    <3>1. top[t] \in Jobs
      BY <1>3, <2>2 DEF Cells, TypeOK, Warming, Work, Task
    <3>2. PICK n \in Forks : top[t] \in Job[n]
      BY <3>1 DEF Jobs
    <3> QED
      BY <3>2, ApartIs DEF Cells, Asking, ApartFromForks
  <2> QED
    BY <2>1, <2>2
<1> QED
  BY <1>2, <1>3

\* A cell that is begun, by a thread that may.
LEMMA BeginStep ==
  ASSUME Cells, NEW t \in Thread, NEW m \in Memo, Begin(t, m),
         top[t] \in Memo => Depth[m] < Depth[top[t]],
         phase = "warm" /\ t \in Worker => m \in Apart,
         UNCHANGED <<phase, at, forked, queue, finished, down>>
  PROVE  Cells'
<1>1. /\ top' = [top EXCEPT ![t] = m] /\ under' = [under EXCEPT ![m] = top[t]]
      /\ cell' = [cell EXCEPT ![m] = "busy"] /\ builder' = [builder EXCEPT ![m] = t]
      /\ left' = [left EXCEPT ![m] = Needs[m]] /\ cell[m] = "empty"
  BY DEF Begin, Push
<1>2. m \in Work /\ Needs[m] \in SUBSET Memo
  BY MemoAssumption, Apartness
<1>3. TypeOK'
  BY <1>1, <1>2 DEF Cells, TypeOK
<1>4. Nested' /\ Mine(t)' = Mine(t) \union {m} /\ \A u \in Thread \ {t} : Mine(u)' = Mine(u)
  BY BeginNests DEF Cells
<1>5. Bottom'
  BY <1>1, Apartness DEF Cells, TypeOK, Bottom
<1>6. \A n \in Memo \ {m} : cell'[n] = cell[n]
  BY <1>1 DEF Cells, TypeOK
<1>7. cell'[m] = "busy" /\ left'[m] = Needs[m] /\ \A x \in Work \ {m} : left'[x] = left[x]
  BY <1>1, <1>2 DEF Cells, TypeOK
<1>8. \A n \in Memo : cell[n] = "built" => cell'[n] = "built"
  BY <1>1, <1>6
<1>9. Asking'
  <2>1. ASSUME NEW n \in Memo
        PROVE  /\ cell'[n] = "busy" => left'[n] \subseteq Needs[n]
               /\ cell'[n] = "busy" => \A k \in Needs[n] \ left'[n] : cell'[k] = "built"
               /\ cell'[n] = "built" => \A k \in Needs[n] : cell'[k] = "built"
    <3>1. Needs[n] \subseteq Memo
      BY MemoAssumption
    <3>2. CASE n = m
      BY <1>7, <3>2
    <3>3. CASE n # m
      BY <1>6, <1>7, <1>8, <3>1, <3>3, Apartness DEF Cells, Asking
    <3> QED
      BY <3>2, <3>3
  <2>2. \A n \in Forks : \A x \in Job[n] : x \in Work \ {m}
    BY Apartness DEF Jobs
  <2>3. \A n \in Forks : \A x \in Job[n] : left'[x] \subseteq JobNeeds[n]
    BY <1>7, <2>2 DEF Cells, Asking
  <2> QED
    BY <2>1, <2>3 DEF Asking
<1>10. Warming'
  <2>1. under'[m] = top[t] /\ top'[t] = m /\ \A u \in Thread \ {t} : top'[u] = top[u]
    BY <1>1, <1>2 DEF Cells, TypeOK
  <2>2. \A n \in Memo \ {m} : under'[n] = under[n]
    BY <1>1, Apartness DEF Cells, TypeOK
  <2>3. \A i \in 1 .. Len(Warmed) : Warmed[i] \in Memo
    BY MemoAssumption
  <2>4. phase = "warm" => \A w \in Worker : Mine(w)' \subseteq Apart
    BY <1>4, Apartness DEF Cells, Warming
  <2>5. m \notin Rule
    BY WorkAssumption
  <2> QED
    BY <1>8, <2>1, <2>2, <2>3, <2>4, <2>5 DEF Cells, Warming
<1>11. Warmth'
  BY <1>8, MemoAssumption DEF Cells, Warmth
<1> QED
  BY <1>3, <1>4, <1>5, <1>9, <1>10, <1>11 DEF Cells

LEMMA BuildStep ==
  ASSUME Cells, NEW t \in Thread, NEW m \in Memo, Build(t, m)
  PROVE  Cells'
BY BeginStep, AskedFor DEF Build

LEMMA ForkStep ==
  ASSUME Cells, NEW t \in Thread, Fork(t)
  PROVE  Cells'
<1>1. top[t] \in Forks /\ Job[top[t]] \subseteq Jobs
  BY DEF Fork, Jobs
<1>2. UNCHANGED <<phase, at, cell, builder, finished, top, under, left, down>>
  BY DEF Fork
<1>3. TypeOK'
  BY <1>1, <1>2, Apartness DEF Fork, Cells, TypeOK
<1>4. \A u \in Thread : Mine(u)' = Mine(u)
  BY <1>2 DEF Mine
<1> QED
  BY <1>1, <1>2, <1>3, <1>4, Apartness DEF Fork, Cells, Nested, Bottom, Asking, Warming, Warmth

LEMMA EndStep ==
  ASSUME Cells, NEW t \in Thread, End(t)
  PROVE  Cells'
<1> DEFINE m == top[t]
<1>1. /\ m \in Memo /\ left[m] = {} /\ cell' = [cell EXCEPT ![m] = "built"]
      /\ top' = [top EXCEPT ![t] = under[m]]
      /\ UNCHANGED <<phase, at, builder, forked, queue, finished, under, left>>
  BY DEF End, Pop
<1>2. m \in Work
  BY <1>1, Apartness
<1>3. down' \in BOOLEAN
  BY DEF End, Cells, TypeOK
<1>4. TypeOK'
  BY <1>1, <1>2, <1>3 DEF Cells, TypeOK
<1>5. /\ Nested' /\ Mine(t)' = Mine(t) \ {m} /\ \A u \in Thread \ {t} : Mine(u)' = Mine(u)
      /\ m \in Mine(t)
  BY EndNests DEF End, Cells
<1>6. \A n \in Memo : cell'[n] = IF n = m THEN "built" ELSE cell[n]
  BY <1>1 DEF Cells, TypeOK
<1>7. Asking'
  <2>1. \A n \in Needs[m] : cell[n] = "built"
    BY <1>1, <1>5 DEF Cells, Asking, Mine
  <2>2. \A n \in Memo : Needs[n] \subseteq Memo
    BY MemoAssumption
  <2> QED
    BY <1>1, <1>6, <2>1, <2>2 DEF Cells, Asking
<1>8. Warming'
  <2>1. \A i \in 1 .. Len(Warmed) : Warmed[i] \in Memo
    BY MemoAssumption
  <2>2. \A w \in Worker : Mine(w)' \subseteq Mine(w)
    BY <1>5, Apartness
  <2>3. top'[t] = under[m] /\ \A u \in Thread \ {t} : top'[u] = top[u]
    BY <1>1 DEF Cells, TypeOK
  <2> QED
    BY <1>1, <1>6, <2>1, <2>2, <2>3 DEF Cells, Warming
<1>9. Bottom'
  BY <1>1 DEF Cells, Bottom
<1>10. Warmth'
  BY <1>1, <1>6, MemoAssumption DEF Cells, Warmth
<1> QED
  BY <1>4, <1>5, <1>7, <1>8, <1>9, <1>10 DEF Cells

\* A task is begun on a thread that does nothing.
LEMMA PushTask ==
  ASSUME Cells, NEW t \in Thread, NEW x \in Task, NEW asks \in SUBSET Memo, Push(t, x, asks),
         top[t] = Idle, phase = "warm" => x \in Jobs,
         \A m \in Forks : x \in Job[m] => asks \subseteq JobNeeds[m],
         UNCHANGED <<cell, builder>>, phase' = phase, phase = "warm" => at' = at,
         queue' \subseteq queue, finished' = finished
  PROVE  /\ Nested' /\ Bottom' /\ Asking' /\ Warming' /\ Warmth'
         /\ top' \in [Thread -> Work \union {Idle}] /\ under' \in [Work -> Work \union {Idle}]
         /\ left' \in [Work -> SUBSET Memo]
         /\ \A u \in Thread : Mine(u)' = Mine(u)
<1>1. /\ top' = [top EXCEPT ![t] = x] /\ under' = [under EXCEPT ![x] = Idle]
      /\ left' = [left EXCEPT ![x] = asks]
  BY DEF Push
<1>2. x \in Work /\ x \notin Memo /\ top[t] \notin Memo
  BY Apartness
<1>3. /\ top' \in [Thread -> Work \union {Idle}] /\ under' \in [Work -> Work \union {Idle}]
      /\ left' \in [Work -> SUBSET Memo]
  BY <1>1, <1>2 DEF Cells, TypeOK
<1>4. \A m \in Memo : under'[m] = under[m] /\ left'[m] = left[m]
  BY <1>1, <1>2, Apartness DEF Cells, TypeOK
<1>5. Nested' /\ \A u \in Thread : Mine(u)' = Mine(u)
  BY <1>1, <1>2, <1>4, TaskNests DEF Cells
<1>6. Bottom'
  BY <1>1, Apartness DEF Cells, TypeOK, Bottom
<1>7. left'[x] = asks /\ \A y \in Work \ {x} : left'[y] = left[y]
  BY <1>1, <1>2 DEF Cells, TypeOK
<1>8. Asking'
  <2>1. \A m \in Forks : \A y \in Job[m] : y \in Work
    BY Apartness DEF Jobs
  <2>2. \A m \in Forks : \A y \in Job[m] : left'[y] \subseteq JobNeeds[m]
    BY <1>7, <2>1 DEF Cells, Asking
  <2> QED
    BY <1>4, <2>2 DEF Cells, Asking
<1>9. Warming'
  <2>1. top'[t] = x /\ \A u \in Thread \ {t} : top'[u] = top[u]
    BY <1>1 DEF Cells, TypeOK
  <2>2. phase = "warm" => x \notin Rule
    BY Apartness
  <2> QED
    BY <1>4, <1>5, <2>1, <2>2, Apartness DEF Cells, Warming
<1>10. Warmth'
  BY DEF Cells, Warmth
<1> QED
  BY <1>3, <1>5, <1>6, <1>8, <1>9, <1>10

LEMMA TakeStep ==
  ASSUME Cells, NEW w \in Worker, NEW x \in Task, Take(w, x)
  PROVE  Cells' /\ top[w] = Idle /\ \A u \in Thread : Mine(u)' = Mine(u)
<1>1. top[w] = Idle
  BY ForksAreMains DEF Take
<1> DEFINE asks == IF x \in Rule THEN Asks[x] ELSE JobNeeds[CHOOSE m \in Forks : x \in Job[m]]
<1>2. x \in Jobs => (CHOOSE m \in Forks : x \in Job[m]) \in Forks
                    /\ x \in Job[CHOOSE m \in Forks : x \in Job[m]]
  BY DEF Jobs
<1>3. x \in Rule \/ x \in Jobs
  BY DEF Task
<1>4. asks \in SUBSET Memo
  BY <1>2, <1>3, MemoAssumption
<1>5. \A m \in Forks : x \in Job[m] => asks \subseteq JobNeeds[m]
  <2> SUFFICES ASSUME NEW m \in Forks, x \in Job[m]
               PROVE  asks \subseteq JobNeeds[m]
    OBVIOUS
  <2>1. x \in Jobs /\ x \notin Rule
    BY WorkAssumption DEF Jobs
  <2>2. m = CHOOSE n \in Forks : x \in Job[n]
    BY <1>2, <2>1, WorkAssumption
  <2> QED
    BY <2>1, <2>2
<1> HIDE DEF asks
<1>6. Push(w, x, asks) /\ queue' = queue \ {x} /\ x \in queue
      /\ UNCHANGED <<phase, at, cell, builder, forked, finished, down>>
  BY DEF Take, asks
<1>7. w \in Thread /\ (phase = "warm" => x \in Jobs)
  BY <1>6, Apartness DEF Cells, Warming
<1>8. /\ Nested' /\ Bottom' /\ Asking' /\ Warming' /\ Warmth'
      /\ top' \in [Thread -> Work \union {Idle}] /\ under' \in [Work -> Work \union {Idle}]
      /\ left' \in [Work -> SUBSET Memo]
      /\ \A u \in Thread : Mine(u)' = Mine(u)
  BY <1>1, <1>4, <1>5, <1>6, <1>7, PushTask
<1>9. TypeOK'
  BY <1>6, <1>8 DEF Cells, TypeOK
<1> QED
  BY <1>1, <1>8, <1>9 DEF Cells

LEMMA FinishStep ==
  ASSUME Cells, NEW t \in Thread, Finish(t)
  PROVE  Cells' /\ top'[t] = Idle /\ \A u \in Thread : Mine(u)' = Mine(u)
<1> DEFINE x == top[t]
<1>1. /\ x \in Task /\ x \notin Memo /\ under[x] = Idle
      /\ top' = [top EXCEPT ![t] = Idle] /\ finished' = finished \union {x}
      /\ UNCHANGED <<phase, at, cell, builder, forked, queue, under, left>>
  BY Apartness DEF Finish, Pop, Cells, Bottom
<1>2. down' \in BOOLEAN
  BY DEF Finish, Cells, TypeOK
<1>3. TypeOK'
  BY <1>1, <1>2 DEF Cells, TypeOK
<1>4. Nested' /\ \A u \in Thread : Mine(u)' = Mine(u)
  BY <1>1, TaskNests, Apartness DEF Cells
<1>5. top'[t] = Idle /\ \A u \in Thread \ {t} : top'[u] = top[u]
  BY <1>1 DEF Cells, TypeOK
<1>6. Warming'
  <2>1. phase = "warm" => x \in Jobs
    BY <1>1 DEF Cells, Warming, Task
  <2>2. Idle \notin Rule
    BY WorkAssumption DEF Work, Task
  <2> QED
    BY <1>1, <1>4, <1>5, <2>1, <2>2, Apartness DEF Cells, Warming
<1> QED
  BY <1>1, <1>3, <1>4, <1>5, <1>6 DEF Cells, Bottom, Asking, Warmth

LEMMA WarmStep ==
  ASSUME Cells, Warm
  PROVE  Cells'
<1>1. at \in 1 .. Len(Warmed) /\ Warmed[at] \in Memo /\ Len(Warmed) \in Nat
  BY MemoAssumption DEF Warm, Cells, TypeOK
<1>2. CASE cell[Warmed[at]] = "built" /\ at' = at + 1
           /\ UNCHANGED <<phase, cell, builder, forked, queue, finished, top, under, left, down>>
  <2>1. TypeOK'
    BY <1>1, <1>2 DEF Warm, Cells, TypeOK
  <2>2. \A u \in Thread : Mine(u)' = Mine(u)
    BY <1>2 DEF Mine
  <2>3. \A i \in 1 .. Len(Warmed) : i < at + 1 => i < at \/ i = at
    BY <1>1
  <2>4. Warming'
    BY <1>2, <2>2, <2>3, Apartness DEF Cells, Warming
  <2> QED
    BY <1>2, <2>1, <2>2, <2>4 DEF Cells, Nested, Bottom, Asking, Warmth
<1>3. CASE Begin(Main, Warmed[at]) /\ UNCHANGED <<phase, at, forked, queue, finished, down>>
  <2>1. Main \notin Worker /\ top[Main] \notin Memo
    BY MemoAssumption, Apartness DEF Warm
  <2> QED
    BY <1>1, <1>3, <2>1, BeginStep, Apartness
<1> QED
  BY <1>2, <1>3 DEF Warm

\* All that `warm` names is built, so all it covers is.
LEMMA SplitStep ==
  ASSUME Cells, Split
  PROVE  Cells'
<1>1. UNCHANGED <<at, cell, builder, forked, finished, top, under, left, down>> /\ phase' = "group"
  BY DEF Split
<1>2. TypeOK'
  BY <1>1, Apartness DEF Split, Cells, TypeOK, GroupA
<1>3. \A u \in Thread : Mine(u)' = Mine(u)
  BY <1>1 DEF Mine
<1>4. \A m \in Forks \union Passes : cell[m] = "built"
  <2> DEFINE S == {m \in Memo : cell[m] = "built"}
  <2>1. \A i \in 1 .. Len(Warmed) : i < at /\ Warmed[i] \in Memo
    BY MemoAssumption DEF Split, Cells, TypeOK
  <2>2. Built \subseteq S
    BY <2>1 DEF Split, Cells, Warming, Built
  <2>3. \A m \in S : Needs[m] \subseteq S
    BY MemoAssumption DEF Cells, Asking
  <2> QED
    BY <2>2, <2>3, WarmAssumption
<1> QED
  BY <1>1, <1>2, <1>3, <1>4 DEF Cells, Nested, Bottom, Asking, Warming, Warmth

LEMMA LeadSteps ==
  ASSUME Cells, Joined \/ OwnWorld \/ Collect
  PROVE  Cells'
<1>1. Len(Owners) \in Nat /\ \A i \in 1 .. Len(Owners) : Owners[i] \in Rule
  BY MemoAssumption
<1>2. CASE Joined \/ Collect
  <2>1. /\ UNCHANGED <<cell, builder, forked, queue, finished, top, under, left, down>>
        /\ phase # "warm" /\ phase' # "warm"
    BY <1>2 DEF Joined, Collect
  <2>2. TypeOK'
    BY <1>1, <1>2, <2>1 DEF Joined, Collect, Cells, TypeOK
  <2>3. \A u \in Thread : Mine(u)' = Mine(u)
    BY <2>1 DEF Mine
  <2> QED
    BY <2>1, <2>2, <2>3 DEF Cells, Nested, Bottom, Asking, Warming, Warmth
<1>3. CASE OwnWorld
  <2>1. at \in 1 .. Len(Owners) /\ Owners[at] \in Rule /\ phase = "owners"
    BY <1>1, <1>3 DEF OwnWorld, Cells, TypeOK
  <2>2. Asks[Owners[at]] \in SUBSET Memo /\ \A m \in Forks : Owners[at] \notin Job[m]
    BY <2>1, MemoAssumption, Apartness DEF Jobs
  <2>3. /\ Nested' /\ Bottom' /\ Asking' /\ Warming' /\ Warmth'
        /\ top' \in [Thread -> Work \union {Idle}] /\ under' \in [Work -> Work \union {Idle}]
        /\ left' \in [Work -> SUBSET Memo]
    BY <1>3, <2>1, <2>2, PushTask, Apartness DEF OwnWorld
  <2>4. TypeOK'
    BY <1>1, <1>3, <2>1, <2>3 DEF OwnWorld, Cells, TypeOK
  <2> QED
    BY <2>3, <2>4 DEF Cells
<1> QED
  BY <1>2, <1>3

LEMMA CellsStutter ==
  ASSUME Cells, UNCHANGED vars
  PROVE  Cells'
<1>1. \A u \in Thread : Mine(u)' = Mine(u)
  BY DEF vars, Mine
<1> QED
  <2>1. Nested'
    BY <1>1 DEF vars, Cells, Nested
  <2>2. TypeOK' /\ Bottom' /\ Asking'
    BY DEF vars, Cells, TypeOK, Bottom, Asking
  <2>3. Warming' /\ Warmth'
    BY <1>1, Apartness DEF vars, Cells, Warming, Warmth
  <2> QED
    BY <2>1, <2>2, <2>3 DEF Cells

LEMMA CellsHold == Spec => []Cells
<1>1. Cells /\ [Next]_vars => Cells'
  <2> SUFFICES ASSUME Cells, [Next]_vars
               PROVE  Cells'
    OBVIOUS
  <2>1. ASSUME NEW t \in Thread, Step(t) PROVE Cells'
    BY <2>1, ReadStep, BuildStep, ForkStep, EndStep, FinishStep DEF Step
  <2>2. ASSUME NEW w \in Worker, Run(w) PROVE Cells'
    BY <2>1, <2>2, TakeStep, Apartness DEF Run
  <2>3. CASE Lead
    BY <2>1, <2>3, WarmStep, SplitStep, LeadSteps, Apartness DEF Lead
  <2>4. CASE Returned \/ UNCHANGED vars
    BY <2>4, CellsStutter DEF Returned
  <2> QED
    BY <2>2, <2>3, <2>4 DEF Next
<1> QED
  BY <1>1, CellsStart, PTL DEF Spec

\* No thread asks for a cell it is itself building.
THEOREM NobodyWaitsForItself == Spec => []NeverReenters
<1>1. Cells => NeverReenters
  <2> SUFFICES ASSUME Cells, NEW t \in Thread, top[t] # Idle, NEW m \in left[top[t]],
                      cell[m] = "busy", builder[m] = t
               PROVE  FALSE
    BY DEF NeverReenters
  <2>1. m \in Memo /\ m \in Mine(t)
    BY DEF Cells, TypeOK, Mine
  <2>2. top[t] \in Memo /\ (m = top[t] \/ Depth[top[t]] < Depth[m])
    BY <2>1 DEF Cells, Nested
  <2>3. Depth[m] < Depth[top[t]]
    BY <2>1, <2>2, AskedFor
  <2> QED
    BY <2>1, <2>2, <2>3, DepthAssumption
<1> QED
  BY <1>1, CellsHold, PTL

-----------------------------------------------------------------------------
\* Task x is being run by thread t: it is on top, or beneath a cell t builds.
Runs(t, x) == top[t] = x \/ \E m \in Mine(t) : under[m] = x

\* A task is in the queue, on one thread or finished.  A worker runs tasks of the pool
\* alone, and the main thread world owners.
Tasks ==
  /\ \A w \in Worker, v \in Worker, x \in Task : Runs(w, x) /\ Runs(v, x) => w = v
  /\ \A w \in Worker, x \in Task :
       Runs(w, x) => x \in GroupA \union Jobs /\ x \notin queue /\ x \notin finished
  /\ \A x \in Task : Runs(Main, x) => x \in Owned /\ phase = "owners"
  /\ \A w \in Worker : top[w] # Idle => \E x \in Task : Runs(w, x)
  /\ queue \subseteq GroupA \union Jobs /\ queue \intersect finished = {}

\* The jobs of a cell come with its fork, and are done when it is built.
JobsOfForks ==
  \A m \in Forks :
    /\ m \notin forked =>
         \A x \in Job[m] : x \notin queue /\ x \notin finished /\ \A t \in Thread : ~Runs(t, x)
    /\ cell[m] = "built" => Job[m] \subseteq finished

\* The pool is empty before the first world owner.
Alone ==
  phase \in {"owners", "done"} =>
    GroupA \subseteq finished /\ queue = {} /\ \A w \in Worker : top[w] = Idle

IInv == Cells /\ Tasks /\ JobsOfForks /\ Alone

LEMMA WhoOwns ==
  /\ Owned \subseteq Rule /\ GroupA \subseteq Rule /\ GroupA \intersect Owned = {}
  /\ Jobs \intersect Rule = {} /\ \A w \in Worker : w # Main /\ w \in Thread
  /\ \A m, n \in Forks : m # n => Job[m] \intersect Job[n] = {}
  /\ \A m \in Forks : Job[m] \subseteq Jobs
BY MemoAssumption, WorkAssumption DEF Owned, GroupA, Jobs, Thread

\* A step that moves no task keeps them.
LEMMA TasksKept ==
  ASSUME IInv,
         \A t \in Thread, x \in Task : Runs(t, x)' <=> Runs(t, x),
         \A w \in Worker : top'[w] # Idle => top[w] # Idle,
         UNCHANGED <<phase, queue, finished>>, forked \subseteq forked',
         \A m \in Forks : cell'[m] = "built" => cell[m] = "built" \/ Job[m] \subseteq finished
  PROVE  Tasks' /\ JobsOfForks' /\ Alone'
<1> HIDE DEF Runs
<1>1. Tasks'
  BY WhoOwns, Apartness DEF IInv, Tasks
<1>2. JobsOfForks'
  <2>1. \A m \in Forks : \A x \in Job[m] : x \in Task
    BY WhoOwns, Apartness
  <2> QED
    BY <2>1 DEF IInv, JobsOfForks
<1>3. Alone'
  BY DEF IInv, Alone
<1> QED
  BY <1>1, <1>2, <1>3

LEMMA BeginTasks ==
  ASSUME IInv, NEW t \in Thread, NEW m \in Memo, Begin(t, m),
         top[t] \in Memo => Depth[m] < Depth[top[t]], t \in Worker => top[t] # Idle,
         UNCHANGED <<phase, forked, queue, finished>>
  PROVE  Tasks' /\ JobsOfForks' /\ Alone'
<1>1. Mine(t)' = Mine(t) \union {m} /\ \A u \in Thread \ {t} : Mine(u)' = Mine(u)
  BY BeginNests DEF IInv, Cells
<1>2. /\ top' = [top EXCEPT ![t] = m] /\ under' = [under EXCEPT ![m] = top[t]]
      /\ cell' = [cell EXCEPT ![m] = "busy"] /\ cell[m] = "empty"
  BY DEF Begin, Push
<1>3. m \notin Task /\ m # Idle /\ m \in Work
  BY Apartness
<1>4. top'[t] = m /\ under'[m] = top[t] /\ \A u \in Thread \ {t} : top'[u] = top[u]
  BY <1>2, <1>3 DEF IInv, Cells, TypeOK
<1>5. \A n \in Work \ {m} : under'[n] = under[n]
  BY <1>2 DEF IInv, Cells, TypeOK
<1>6. \A u \in Thread : m \notin Mine(u) /\ Mine(u) \subseteq Work
  BY <1>2, Apartness DEF Mine
<1>7. \A u \in Thread, x \in Task : Runs(u, x)' <=> Runs(u, x)
  BY <1>1, <1>3, <1>4, <1>5, <1>6 DEF Runs
<1>8. \A n \in Forks : cell'[n] = "built" => cell[n] = "built"
  BY <1>2, MemoAssumption DEF IInv, Cells, TypeOK
<1>9. \A w \in Worker : top'[w] # Idle => top[w] # Idle
  BY <1>4, Apartness
<1> QED
  BY <1>7, <1>8, <1>9, TasksKept

LEMMA EndTasks ==
  ASSUME IInv, NEW t \in Thread, End(t)
  PROVE  Tasks' /\ JobsOfForks' /\ Alone'
<1> DEFINE m == top[t]
<1>1. /\ m \in Memo /\ cell' = [cell EXCEPT ![m] = "built"] /\ top' = [top EXCEPT ![t] = under[m]]
      /\ m \in Forks => m \in forked /\ ~Waiting(m)
      /\ UNCHANGED <<phase, builder, forked, queue, finished, under>>
  BY DEF End, Pop
<1>2. /\ Mine(t)' = Mine(t) \ {m} /\ \A u \in Thread \ {t} : Mine(u)' = Mine(u)
      /\ m \in Mine(t)
  BY EndNests DEF End, IInv, Cells
<1>3. top'[t] = under[m] /\ \A u \in Thread \ {t} : top'[u] = top[u]
  BY <1>1 DEF IInv, Cells, TypeOK
<1>4. m \notin Task /\ m # Idle
  BY <1>1, Apartness
<1>5. \A u \in Thread, x \in Task : Runs(u, x)' <=> Runs(u, x)
  BY <1>1, <1>2, <1>3, <1>4 DEF Runs
<1>6. \A n \in Forks : cell'[n] = "built" => cell[n] = "built" \/ Job[n] \subseteq finished
  BY <1>1, MemoAssumption DEF IInv, Cells, TypeOK, Waiting
<1>7. \A w \in Worker : top'[w] # Idle => top[w] # Idle
  BY <1>3, <1>4, Apartness
<1> QED
  BY <1>1, <1>5, <1>6, <1>7, TasksKept

\* The cell whose jobs are queued is busy, so the pool is still to be emptied.
LEMMA ForkTasks ==
  ASSUME IInv, NEW t \in Thread, Fork(t)
  PROVE  Tasks' /\ JobsOfForks' /\ Alone'
<1> DEFINE m == top[t]
<1>1. /\ m \in Forks /\ m \notin forked /\ forked' = forked \union {m}
      /\ queue' = queue \union Job[m]
      /\ UNCHANGED <<phase, at, cell, builder, finished, top, under>>
  BY DEF Fork
<1>2. phase = "warm"
  BY <1>1, MemoAssumption DEF IInv, Cells, Nested, Warmth, Mine
<1>3. \A u \in Thread, x \in Task : Runs(u, x)' <=> Runs(u, x)
  BY <1>1 DEF Runs, Mine
<1> HIDE DEF m, Runs
<1>4. \A x \in Job[m] : x \in Task /\ x \notin finished /\ \A u \in Thread : ~Runs(u, x)
  BY <1>1, WhoOwns, Apartness DEF IInv, JobsOfForks
<1>5. Tasks'
  BY <1>1, <1>3, <1>4, WhoOwns, Apartness DEF IInv, Tasks
<1>6. JobsOfForks'
  <2>1. \A n \in Forks \ {m} : \A x \in Job[n] : x \in Task /\ x \notin Job[m]
    BY <1>1, WhoOwns, Apartness
  <2> QED
    BY <1>1, <1>3, <2>1 DEF IInv, JobsOfForks
<1>7. Alone'
  BY <1>1, <1>2 DEF Alone
<1> QED
  BY <1>5, <1>6, <1>7

LEMMA TakeTasks ==
  ASSUME IInv, NEW w \in Worker, NEW x \in Task, Take(w, x)
  PROVE  Tasks' /\ JobsOfForks' /\ Alone'
<1>1. top[w] = Idle /\ \A u \in Thread : Mine(u)' = Mine(u)
  BY TakeStep DEF IInv
<1>2. /\ top' = [top EXCEPT ![w] = x] /\ under' = [under EXCEPT ![x] = top[w]]
      /\ x \in queue /\ queue' = queue \ {x}
      /\ UNCHANGED <<phase, cell, forked, finished>>
  BY DEF Take, Push
<1>3. top'[w] = x /\ \A u \in Thread \ {w} : top'[u] = top[u]
  BY <1>2, WhoOwns DEF IInv, Cells, TypeOK
<1>4. \A u \in Thread : \A m \in Mine(u) : under'[m] = under[m]
  BY <1>2, Apartness DEF IInv, Cells, TypeOK, Mine
<1>5. Mine(w) = {}
  BY <1>1, NoneBuilt, WhoOwns, Apartness DEF IInv, Cells
<1>6. \A y \in Task : Runs(w, y)' <=> y = x
  BY <1>1, <1>3, <1>5, WhoOwns DEF Runs
<1>7. \A u \in Thread \ {w}, y \in Task : Runs(u, y)' <=> Runs(u, y)
  BY <1>1, <1>3, <1>4 DEF Runs
<1> HIDE DEF Runs
<1>8. Tasks'
  <2>1. x \in GroupA \union Jobs /\ x \notin finished /\ \A v \in Worker : ~Runs(v, x)
    BY <1>2 DEF IInv, Tasks
  <2> QED
    BY <1>2, <1>3, <1>6, <1>7, <2>1, WhoOwns, Apartness DEF IInv, Tasks
<1>9. JobsOfForks'
  <2>1. \A m \in Forks : \A y \in Job[m] : y \in Task
    BY WhoOwns, Apartness
  <2> QED
    BY <1>2, <1>6, <1>7, <2>1 DEF IInv, JobsOfForks
<1>10. Alone'
  BY <1>2 DEF IInv, Alone
<1> QED
  BY <1>8, <1>9, <1>10

LEMMA FinishTasks ==
  ASSUME IInv, NEW t \in Thread, Finish(t)
  PROVE  Tasks' /\ JobsOfForks' /\ Alone'
<1> DEFINE x == top[t]
<1>1. top'[t] = Idle /\ \A u \in Thread : Mine(u)' = Mine(u)
  BY FinishStep DEF IInv
<1>2. /\ x \in Task /\ x # Idle /\ finished' = finished \union {x}
      /\ UNCHANGED <<phase, cell, forked, queue, under>>
      /\ \A u \in Thread \ {t} : top'[u] = top[u]
  BY Apartness, WorkAssumption DEF Finish, Pop, IInv, Cells, TypeOK
<1>3. Mine(t) = {}
  BY <1>2, NoneBuilt, Apartness DEF IInv, Cells
<1>4. \A y \in Task : ~Runs(t, y)'
  BY <1>1, <1>3, WorkAssumption, Apartness DEF Runs
<1>5. \A u \in Thread \ {t}, y \in Task : Runs(u, y)' <=> Runs(u, y)
  BY <1>1, <1>2 DEF Runs
<1>6. Runs(t, x)
  BY DEF Runs
<1> HIDE DEF Runs, x
<1>7. x \notin queue /\ \A w \in Worker \ {t} : ~Runs(w, x)
  <2>1. CASE t = Main
    BY <2>1, <1>2, <1>6, WhoOwns DEF IInv, Tasks
  <2>2. CASE t \in Worker
    BY <2>2, <1>2, <1>6 DEF IInv, Tasks
  <2> QED
    BY <2>1, <2>2 DEF Thread
<1>8. Tasks'
  BY <1>1, <1>2, <1>4, <1>5, <1>7, WhoOwns, Apartness DEF IInv, Tasks
<1>9. JobsOfForks'
  <2>1. \A m \in Forks : \A y \in Job[m] : y \in Task
    BY WhoOwns, Apartness
  <2> QED
    BY <1>2, <1>4, <1>5, <1>6, <2>1 DEF IInv, JobsOfForks
<1>10. Alone'
  BY <1>1, <1>2, WhoOwns DEF IInv, Alone
<1> QED
  BY <1>8, <1>9, <1>10

\* The rules are queued for the first time.
LEMMA SplitTasks ==
  ASSUME IInv, Split
  PROVE  Tasks' /\ JobsOfForks' /\ Alone'
<1>1. /\ phase = "warm" /\ phase' = "group" /\ queue' = queue \union GroupA
      /\ UNCHANGED <<cell, builder, forked, finished, top, under>>
  BY DEF Split
<1>2. \A u \in Thread, x \in Task : Runs(u, x)' <=> Runs(u, x)
  BY <1>1 DEF Runs, Mine
<1>3. \A x \in GroupA : x \in Task /\ x \notin finished /\ \A u \in Thread : ~Runs(u, x)
  BY <1>1, WhoOwns, Apartness DEF IInv, Cells, Warming, Runs, Mine
<1> HIDE DEF Runs
<1>4. Tasks'
  BY <1>1, <1>2, <1>3, WhoOwns, Apartness DEF IInv, Tasks
<1>5. JobsOfForks'
  <2>1. \A m \in Forks : \A x \in Job[m] : x \in Task /\ x \notin GroupA
    BY WhoOwns, Apartness
  <2> QED
    BY <1>1, <1>2, <2>1 DEF IInv, JobsOfForks
<1>6. Alone'
  BY <1>1 DEF Alone
<1> QED
  BY <1>4, <1>5, <1>6

\* When the group is joined every job is done too, so the workers have nothing.
LEMMA JoinedTasks ==
  ASSUME IInv, Joined
  PROVE  Tasks' /\ JobsOfForks' /\ Alone'
<1>1. /\ phase = "group" /\ phase' = "owners" /\ GroupA \subseteq finished
      /\ UNCHANGED <<cell, builder, forked, queue, finished, top, under>>
  BY DEF Joined
<1>2. \A u \in Thread, x \in Task : Runs(u, x)' <=> Runs(u, x)
  BY <1>1 DEF Runs, Mine
<1> HIDE DEF Runs
<1>3. Jobs \subseteq finished
  BY <1>1 DEF IInv, Cells, Warmth, JobsOfForks, Jobs
<1>4. queue = {} /\ \A w \in Worker : top[w] = Idle
  BY <1>1, <1>3 DEF IInv, Tasks
<1>5. Alone'
  BY <1>1, <1>4 DEF Alone
<1>6. Tasks'
  BY <1>1, <1>2, WhoOwns, Apartness DEF IInv, Tasks
<1>7. JobsOfForks'
  <2>1. \A m \in Forks : \A x \in Job[m] : x \in Task
    BY WhoOwns, Apartness
  <2> QED
    BY <1>1, <1>2, <2>1 DEF IInv, JobsOfForks
<1> QED
  BY <1>5, <1>6, <1>7

LEMMA OwnWorldTasks ==
  ASSUME IInv, OwnWorld
  PROVE  Tasks' /\ JobsOfForks' /\ Alone'
<1> DEFINE x == Owners[at]
<1>1. x \in Owned /\ x \in Task /\ phase = "owners"
  <2>1. at \in 1 .. Len(Owners)
    BY MemoAssumption DEF OwnWorld, IInv, Cells, TypeOK
  <2> QED
    BY <2>1, WhoOwns, Apartness DEF OwnWorld, Owned
<1>2. /\ top' = [top EXCEPT ![Main] = x] /\ under' = [under EXCEPT ![x] = top[Main]]
      /\ top[Main] = Idle /\ UNCHANGED <<phase, cell, builder, forked, queue, finished>>
  BY DEF OwnWorld, Push
<1>3. top'[Main] = x /\ \A u \in Thread \ {Main} : top'[u] = top[u]
  BY <1>2, Apartness DEF IInv, Cells, TypeOK
<1>4. \A u \in Thread : Mine(u)' = Mine(u) /\ \A m \in Mine(u) : under'[m] = under[m]
  BY <1>1, <1>2, Apartness DEF IInv, Cells, TypeOK, Mine
<1>5. Mine(Main) = {}
  BY <1>2, NoneBuilt, Apartness DEF IInv, Cells
<1>6. \A y \in Task : Runs(Main, y)' <=> y = x
  BY <1>3, <1>4, <1>5, Apartness DEF Runs
<1>7. \A u \in Thread \ {Main}, y \in Task : Runs(u, y)' <=> Runs(u, y)
  BY <1>3, <1>4 DEF Runs
<1> HIDE DEF Runs, x
<1>8. Tasks'
  BY <1>1, <1>2, <1>3, <1>6, <1>7, WhoOwns DEF IInv, Tasks
<1>9. JobsOfForks'
  <2>1. \A m \in Forks : \A y \in Job[m] : y \in Task /\ y # x
    BY <1>1, WhoOwns, Apartness
  <2> QED
    BY <1>2, <1>6, <1>7, <2>1 DEF IInv, JobsOfForks
<1>10. Alone'
  BY <1>2, <1>3, WhoOwns DEF IInv, Alone
<1> QED
  BY <1>8, <1>9, <1>10

LEMMA StillTasks ==
  ASSUME IInv,
         \/ Collect \/ UNCHANGED vars
         \/ \E t \in Thread, m \in Memo : Read(t, m)
         \/ Warm /\ UNCHANGED <<cell, builder, top, under, left>>
  PROVE  Tasks' /\ JobsOfForks' /\ Alone'
<1>1. UNCHANGED <<cell, builder, forked, queue, finished, top, under>>
  BY DEF Collect, vars, Read, Warm
<1>2. \A u \in Thread, x \in Task : Runs(u, x)' <=> Runs(u, x)
  BY <1>1 DEF Runs, Mine
<1>3. CASE phase' = phase
  BY <1>1, <1>2, <1>3, TasksKept
<1>4. CASE Collect
  <2>1. \A x \in Task : ~Runs(Main, x)
    BY <1>4, NoneBuilt, Apartness, WorkAssumption DEF Collect, Runs, IInv, Cells
  <2>2. \A m \in Forks : \A x \in Job[m] : x \in Task
    BY WhoOwns, Apartness
  <2> HIDE DEF Runs
  <2>3. Tasks'
    BY <1>1, <1>2, <2>1, WhoOwns, Apartness DEF IInv, Tasks
  <2> QED
    BY <1>1, <1>2, <1>4, <2>2, <2>3 DEF Collect, IInv, JobsOfForks, Alone
<1> QED
  BY <1>3, <1>4 DEF vars, Read, Warm

LEMMA TasksStart == Init => IInv
<1> SUFFICES ASSUME Init
             PROVE  IInv
  OBVIOUS
<1>1. \A t \in Thread, x \in Task : ~Runs(t, x)
  BY Apartness, WorkAssumption DEF Init, Runs, Mine
<1>2. \A m \in Forks : \A x \in Job[m] : x \in Task
  BY WhoOwns, Apartness
<1> HIDE DEF Runs
<1> QED
  BY <1>1, <1>2, CellsStart, WhoOwns, Apartness, MemoAssumption
  DEF Init, IInv, Tasks, JobsOfForks, Alone

LEMMA StepTasks ==
  ASSUME IInv, NEW t \in Thread, Step(t)
  PROVE  Tasks' /\ JobsOfForks' /\ Alone'
<1>1. ASSUME NEW m \in Memo, Build(t, m) PROVE Tasks' /\ JobsOfForks' /\ Alone'
  BY <1>1, BeginTasks, AskedFor DEF Build, IInv
<1> QED
  BY <1>1, StillTasks, ForkTasks, EndTasks, FinishTasks DEF Step

LEMMA Invariance == Spec => []IInv
<1>1. IInv /\ Cells' /\ [Next]_vars => IInv'
  <2> SUFFICES ASSUME IInv, Cells', [Next]_vars
               PROVE  Tasks' /\ JobsOfForks' /\ Alone'
    BY DEF IInv
  <2>1. ASSUME NEW w \in Worker, Run(w) PROVE Tasks' /\ JobsOfForks' /\ Alone'
    BY <2>1, StepTasks, TakeTasks, Apartness DEF Run
  <2>2. ASSUME Warm PROVE Tasks' /\ JobsOfForks' /\ Alone'
    <3>1. CASE UNCHANGED <<cell, builder, top, under, left>>
      BY <2>2, <3>1, StillTasks
    <3>2. CASE Begin(Main, Warmed[at])
      <4>1. Warmed[at] \in Memo /\ Main \notin Worker /\ top[Main] \notin Memo
        BY <2>2, MemoAssumption, Apartness DEF Warm, IInv, Cells, TypeOK
      <4> QED
        BY <2>2, <3>2, <4>1, BeginTasks, Apartness DEF Warm
    <3> QED
      BY <2>2, <3>1, <3>2 DEF Warm
  <2>3. CASE Lead
    BY <2>2, <2>3, StepTasks, SplitTasks, JoinedTasks, OwnWorldTasks, StillTasks, Apartness
    DEF Lead
  <2>4. CASE Returned \/ UNCHANGED vars
    BY <2>4, StillTasks DEF Returned
  <2> QED
    BY <2>1, <2>3, <2>4 DEF Next
<1> QED
  BY <1>1, TasksStart, CellsHold, PTL DEF Spec

\* While a world owner runs, the parallel group is over and every worker does nothing.
THEOREM WorldOwnersRunAlone == Spec => []OwnersRunAlone
<1>1. IInv => OwnersRunAlone
  <2> SUFFICES ASSUME IInv, NEW t \in Thread, top[t] \in Owned
               PROVE  t = Main /\ GroupA \subseteq finished /\ \A w \in Worker : top[w] = Idle
    BY DEF OwnersRunAlone
  <2>1. Runs(t, top[t]) /\ top[t] \in Task /\ top[t] \notin GroupA \union Jobs
    BY WhoOwns, Apartness DEF Runs
  <2>2. t = Main
    BY <2>1 DEF IInv, Tasks, Thread
  <2> QED
    BY <2>1, <2>2 DEF IInv, Tasks, Alone
<1> QED
  BY <1>1, Invariance, PTL

\* The checker does not go down while the parallel group runs.
THEOREM GroupKeepsTheChecker == Spec => CheckerSteadyInGroup
<1> DEFINE Steady == phase = "group" => down' = down
<1>1. IInv /\ [Next]_vars => [Steady]_vars
  <2> SUFFICES ASSUME IInv, Next, phase = "group"
               PROVE  down' = down
    OBVIOUS
  <2>1. ASSUME NEW t \in Thread, End(t) PROVE down' = down
    <3>1. top[t] \notin Passes
      BY <2>1 DEF End, IInv, Cells, Nested, Warmth, Mine
    <3> QED
      BY <2>1, <3>1 DEF End
  <2>2. ASSUME NEW t \in Thread, Finish(t) PROVE down' = down
    <3>1. Runs(t, top[t]) /\ top[t] \in Task
      BY <2>2 DEF Finish, Runs
    <3>2. top[t] \notin Owned
      BY <3>1, WhoOwns DEF IInv, Tasks, Thread
    <3> QED
      BY <2>2, <3>2 DEF Finish
  <2>3. ASSUME NEW t \in Thread, Step(t) PROVE down' = down
    BY <2>1, <2>2, <2>3 DEF Step, Read, Build, Fork
  <2> QED
    BY <2>3, Apartness
    DEF Next, Run, Lead, Take, Warm, Split, Joined, OwnWorld, Collect, Returned, vars
<1> QED
  BY <1>1, Invariance, PTL DEF Spec, CheckerSteadyInGroup
=============================================================================
