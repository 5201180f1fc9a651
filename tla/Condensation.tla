--------------------------- MODULE Condensation ---------------------------
(***************************************************************************)
(* The condensation of the call graph and the two analyses that walk it:   *)
(* core/src/graph.rs finds the strongly connected components with an       *)
(* iterative Tarjan, py-provers/src/effects.rs folds the effect summaries  *)
(* over them callees first, and py-provers/src/hotness.rs propagates heat  *)
(* over them callers first.                                                *)
(*                                                                         *)
(* A node stands for a function's qname; nodes are numbers, so that < is   *)
(* the order of the sorted string map.  An edge stands for every call site *)
(* of one function that runs the other.                                    *)
(***************************************************************************)
EXTENDS Closures, Sequences, SequencesExt, FiniteSetsExt

CONSTANTS
  Nodes,        \* the functions of the call graph
  Graphs,       \* the sets of callee edges to walk, each a subset of Nodes \X Nodes
  LoopEdges,    \* the edges whose call sits under a loop (loop_depth = 1; else 0)
  RootSets,     \* the hot roots to try
  Unknown,      \* the functions with a site the graph cannot follow to a body
  SelfWriters,  \* the methods that write their own receiver's slots
  Handing       \* [Nodes \X Nodes -> {"self", "fresh", "unknown"}]: whose object the
                \* site hands over as receiver: the caller's own, a new one, no one's

ASSUME NodesAreNumbers == Nodes \subseteq Nat /\ IsFiniteSet(Nodes)
ASSUME GraphsAreGraphs ==
  /\ \A g \in Graphs : g \subseteq Nodes \X Nodes
  /\ \A r \in RootSets : r \subseteq Nodes
  /\ Handing \in [Nodes \X Nodes -> {"self", "fresh", "unknown"}]

VARIABLES
  edges, roots,                     \* the input
  index, low, stack, work, comps,   \* Run: work holds <<node, neighbours not yet read>>
  summary,                          \* one per folded component
  todo,                             \* the components heat has not reached yet, callers first
  amp                               \* qname -> loop depth crossed from a root
vars == <<edges, roots, index, low, stack, work, comps, summary, todo, amp>>
tarjan == <<index, low, stack, work, comps>>

Neighbours(n) == {m \in Nodes : <<n, m>> \in edges}
Depth(e) == IF e \in LoopEdges THEN 1 ELSE 0

GraphInit ==
  /\ edges \in Graphs /\ roots \in RootSets
  /\ index = << >> /\ low = << >>
  /\ stack = << >> /\ work = << >> /\ comps = << >>
  /\ summary = << >> /\ todo = << >>
  /\ amp = [q \in {} |-> 0]

----------------------------------------------------------------------------
(* tarjan_scc *)

Indexed == DOMAIN index
Put(f, k, v) == [x \in DOMAIN f \cup {k} |-> IF x = k THEN v ELSE f[x]]

(* Run::push: the counter is the number of nodes indexed so far. *)
Pushed(n, lows, frames) ==
  /\ index' = Put(index, n, Cardinality(Indexed))
  /\ low'   = Put(lows, n, Cardinality(Indexed))
  /\ stack' = Append(stack, n)
  /\ work'  = Append(frames, <<n, Neighbours(n)>>)
  /\ UNCHANGED comps

(* The next start, in the map's order, that has no index yet. *)
Start ==
  /\ work = << >> /\ Indexed # Nodes
  /\ Pushed(Min(Nodes \ Indexed), low, work)
  /\ UNCHANGED <<edges, roots, summary, todo, amp>>

(* The neighbours the frame's iterator reads in this turn, up to the first *)
(* without an index, and the lowlink they leave: only a node still on the  *)
(* stack counts.                                                           *)
Frame == Last(work)
Unseen == {m \in Frame[2] : m \notin Indexed}
Read  == {m \in Frame[2] : \A f \in Unseen : m < f}
\* Mutant of LowOf: a finished component's node pulls the lowlink down too.
LowOfAll(seen) == Min({low[Frame[1]]} \cup {index[m] : m \in seen})
LowOf(seen) ==
  Min({low[Frame[1]]} \cup {index[m] : m \in {m \in seen : m \in Range(stack)}})

Descend ==
  /\ work # << >> /\ Unseen # {}
  /\ LET next == Min(Unseen) IN
       Pushed(next,
              [low EXCEPT ![Frame[1]] = LowOf(Read)],
              Append(Front(work), <<Frame[1], {m \in Frame[2] : m > next}>>))
  /\ UNCHANGED <<edges, roots, summary, todo, amp>>

(* The frame has read all its neighbours: its lowlink goes to its parent,  *)
(* and a node that is its own lowlink pops its component off the stack.    *)
Close ==
  /\ work # << >> /\ Unseen = {}
  /\ LET node  == Frame[1]
         below == LowOf(Read)
         up    == Front(work)
         lows  == [low EXCEPT ![node] = below]
         cut   == CHOOSE i \in 1..Len(stack) : stack[i] = node
     IN /\ work' = up
        /\ low'  = IF up = << >> THEN lows
                   ELSE [lows EXCEPT ![Last(up)[1]] = Min({@, below})]
        /\ IF below = index[node]
           THEN /\ comps' = Append(comps, Reverse(SubSeq(stack, cut, Len(stack))))
                /\ stack' = SubSeq(stack, 1, cut - 1)
           ELSE UNCHANGED <<comps, stack>>
  /\ UNCHANGED <<edges, roots, index, summary, todo, amp>>

Condensed == work = << >> /\ Indexed = Nodes
Members(ci) == Range(comps[ci])
CompOf(n) == CHOOSE ci \in 1..Len(comps) : n \in Members(ci)

----------------------------------------------------------------------------
(* effects::summaries.  The atom of a function's own write is the function *)
(* itself; "mutates-self" is the one atom a call site translates.          *)

Writes(n) == <<"writes", n>>
MutatesSelf == <<"mutates-self", 0>>
Own(n) == {Writes(n)} \cup (IF n \in SelfWriters THEN {MutatesSelf} ELSE {})

(* A callee's summary as one edge's caller inherits it: a receiver atom    *)
(* means what the site's receiver makes of it, and taints when no one      *)
(* knows whose object that is.                                             *)
\* Mutant of Fold: the receiver's atom is handed up as the caller's own.
FoldRaw(callee, e) == callee
\* Mutant of Fold: what a callee does not know, its callers take as known.
FoldKnown(callee, e) ==
  [atoms   |-> callee.atoms \ {MutatesSelf},
   unknown |-> MutatesSelf \in callee.atoms /\ Handing[e] = "unknown"]
Fold(callee, e) ==
  LET onSelf == MutatesSelf \in callee.atoms
  IN [atoms   |-> (callee.atoms \ {MutatesSelf})
                    \cup (IF onSelf /\ Handing[e] = "self" THEN {MutatesSelf} ELSE {}),
      unknown |-> callee.unknown \/ (onSelf /\ Handing[e] = "unknown")]

(* The component's summary: its members' own atoms, and what they inherit  *)
(* over the edges that leave it, whose components are folded already.      *)
FoldNext ==
  /\ Condensed /\ Len(summary) < Len(comps)
  /\ LET ci  == Len(summary) + 1
         out == {e \in edges : e[1] \in Members(ci) /\ e[2] \notin Members(ci)}
         inherited == {Fold(summary[CompOf(e[2])], e) : e \in out}
     IN summary' = Append(summary,
          [atoms   |-> (UNION {Own(n) : n \in Members(ci)}) \cup UNION {i.atoms : i \in inherited},
           unknown |-> \/ Members(ci) \cap Unknown # {}
                       \/ \E i \in inherited : i.unknown])
  /\ UNCHANGED <<edges, roots, tarjan, todo, amp>>

Folded == Condensed /\ Len(summary) = Len(comps)
SummaryOf(n) == summary[CompOf(n)]

----------------------------------------------------------------------------
(* hotness::hot_reachable over the same components, callers first *)

SeedHeat ==
  /\ Folded /\ amp = << >>
  /\ amp'  = [q \in roots |-> 0]
  /\ todo' = Reverse(comps)
  /\ UNCHANGED <<edges, roots, tarjan, summary>>

(* What one component makes of the heat that reached it: every member is   *)
(* as hot as the hottest entry, the callee of an edge inside the component *)
(* one loop hotter, and the callees outside hotter by the edge's depth.    *)
HottestEntry(comp) == Max({amp[q] : q \in comp \cap DOMAIN amp})
\* Mutant of Inside: members keep the heat they were entered with.
InsideAsEntered(comp) ==
  [q \in comp |-> IF q \in DOMAIN amp THEN amp[q] ELSE HottestEntry(comp)]
Inside(comp) ==
  [q \in comp |->
     Max({HottestEntry(comp)}
           \cup {HottestEntry(comp) + Depth(e) : e \in {e \in edges : e[1] \in comp /\ e[2] = q}})]
Propagated(comp) ==
  LET heat    == Inside(comp)
      outward == {e \in edges : e[1] \in comp /\ e[2] \notin comp}
      hot     == DOMAIN amp \cup comp \cup {e[2] : e \in outward}
      had(q)  == IF q \in comp THEN {heat[q]}
                 ELSE IF q \in DOMAIN amp THEN {amp[q]} ELSE {}
  IN [q \in hot |-> Max(had(q) \cup {heat[e[1]] + Depth(e) : e \in {e \in outward : e[2] = q}})]

Spread ==
  /\ todo # << >>
  /\ LET comp == Range(Head(todo)) IN
       amp' = IF comp \cap DOMAIN amp = {} THEN amp ELSE Propagated(comp)
  /\ todo' = Tail(todo)
  /\ UNCHANGED <<edges, roots, tarjan, summary>>

Hotspread == Folded /\ todo = << >> /\ amp # << >>
Done == Hotspread /\ UNCHANGED vars

(* Done is the only stop: a walk that got stuck would be a deadlock. *)
GraphNext == Start \/ Descend \/ Close \/ FoldNext \/ SeedHeat \/ Spread \/ Done
GraphSpec == GraphInit /\ [][GraphNext]_vars

----------------------------------------------------------------------------
(* What the code promises *)

(* The nodes a set of nodes reaches along the edges. *)
Reached(from) == Closure([n \in Nodes |-> Neighbours(n)], from)

(* graph.rs:25-27: two functions share a component exactly when each       *)
(* reaches the other, and an edge never leads to a component emitted later *)
(* than its own: the lowlinks of the iterative walk, which skip finished   *)
(* components and reach a parent only when its callee's frame closes, are  *)
(* what both depend on.                                                    *)
ComponentsAreMutual ==
  Condensed /\ summary = << >> =>
    LET reach == [n \in Nodes |-> Reached({n})]
        of    == [n \in Nodes |-> CompOf(n)]
    IN
    /\ \A n \in Nodes : Cardinality({ci \in 1..Len(comps) : n \in Members(ci)}) = 1
    /\ \A n, m \in Nodes : (of[n] = of[m]) <=> (m \in reach[n] /\ n \in reach[m])
    /\ \A e \in edges : of[e[2]] <= of[e[1]]

(* effects.rs:277-350: a function's summary holds the writes of exactly    *)
(* the functions it reaches, and it is known only where every function it  *)
(* reaches is: one fold per component loses nothing a path of calls would  *)
(* bring, however the cycles lie.                                          *)
SummariesAreReachable ==
  Folded /\ amp = << >> =>
    \A n \in Nodes :
      LET reach   == Reached({n})
          effects == SummaryOf(n)
      IN /\ {m \in Nodes : Writes(m) \in effects.atoms} = reach
         /\ reach \cap Unknown # {} => effects.unknown

(* effects.rs:253-275: a write to one's own receiver stays with the        *)
(* object it was made on.  A function known not to write its own receiver  *)
(* calls no one, outside its own cycle, that writes the receiver it was    *)
(* handed as its own, and one that hands over no one knows whose object    *)
(* is unknown.                                                             *)
ReceiversAreKept ==
  Folded /\ amp = << >> =>
    \A e \in edges : CompOf(e[1]) # CompOf(e[2]) /\ MutatesSelf \in SummaryOf(e[2]).atoms =>
      \/ Handing[e] = "fresh"
      \/ Handing[e] = "self" /\ MutatesSelf \in SummaryOf(e[1]).atoms
      \/ Handing[e] = "unknown" /\ SummaryOf(e[1]).unknown

(* hotness.rs:286-312: the hot set is what the roots reach; no call from   *)
(* one component into another loses the heat or the loop it crosses; and a *)
(* cycle is no pump: no function is hotter than the loops the graph holds, *)
(* a cycle's own counted once.                                             *)
HeatFlows ==
  Hotspread =>
    LET of     == [n \in Nodes |-> CompOf(n)]
        hot    == {e \in edges : e[1] \in DOMAIN amp}
        loops  == {e \in edges : Depth(e) = 1}
        within == {of[e[1]] : e \in {e \in loops : of[e[1]] = of[e[2]]}}
        across == {e \in loops : of[e[1]] # of[e[2]]}
    IN
    /\ DOMAIN amp = Reached(roots)
    /\ \A e \in hot : of[e[1]] # of[e[2]] => amp[e[2]] >= amp[e[1]] + Depth(e)
    /\ \A e \in hot : of[e[1]] = of[e[2]] => amp[e[2]] >= Depth(e)
    /\ \A q \in DOMAIN amp : amp[q] <= Cardinality(within) + Cardinality(across)
=============================================================================
