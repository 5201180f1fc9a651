------------------------------ MODULE RunRules ------------------------------
(***************************************************************************)
(* A stack's rules over its provers: `warm`, then `core::rule::run_split`. *)
(* The products the rules share are memo cells, each built once by the     *)
(* thread that first asks.  A cell whose initializer runs rayon jobs lets  *)
(* the worker building it take any queued work while it waits for them,    *)
(* also a rule that asks for the very cell: `warm` builds those cells on   *)
(* the main thread, which is no worker and takes nothing, before a rule is *)
(* queued.  After the parallel group the rules that own a world run one by *)
(* one on the main thread.                                                 *)
(*                                                                         *)
(* A thread's calls nest: top[t] is what thread t works at, under[x] what  *)
(* work x interrupted.  A pass of the checker may crash, and stays down.   *)
(***************************************************************************)
EXTENDS Naturals, FiniteSets, Sequences

CONSTANTS
  Memo,       \* the cells
  Needs,      \* Needs[m]: the cells m's initializer asks for on its own thread
  Forks,      \* the cells whose initializer runs rayon jobs
  JobNeeds,   \* JobNeeds[m]: the cells those jobs ask for
  Job,        \* Job[m]: its jobs, as <<m, i>>
  Passes,     \* the cells whose initializer runs a pass of the checker
  Warmed,     \* the cells `warm` builds, in its order
  Rule,       \* rules, numbered in the order of their ids
  Asks,       \* Asks[r]: the cells rule r asks for
  Owners,     \* the rules that own a world, in the order they run
  Worker,     \* rayon's threads
  Main,       \* the thread that called run_rules
  Idle,       \* no work
  Depth       \* Depth[m]: initializers nest downwards in it

Jobs   == UNION {Job[m] : m \in Forks}
Task   == Rule \union Jobs
Work   == Memo \union Task
Thread == Worker \union {Main}
Owned  == {Owners[i] : i \in 1 .. Len(Owners)}
GroupA == Rule \ Owned
Built  == {Warmed[i] : i \in 1 .. Len(Warmed)}

\* The jobs of a fork ask for cells of Q, and no initializer of Q forks, all the way down.
ApartFromForks(Q) ==
  /\ \A m \in Forks : JobNeeds[m] \subseteq Q
  /\ \A m \in Q : Needs[m] \subseteq Q
  /\ Q \intersect Forks = {}

ASSUME MemoAssumption ==
  /\ Needs \in [Memo -> SUBSET Memo] /\ JobNeeds \in [Memo -> SUBSET Memo]
  /\ Forks \subseteq Memo /\ Passes \subseteq Memo
  /\ Warmed \in Seq(Memo)
  /\ Asks \in [Rule -> SUBSET Memo]
  /\ Owners \in Seq(Rule)
  /\ Main \notin Worker

ASSUME WorkAssumption ==
  /\ \A m, n \in Forks : m # n => Job[m] \intersect Job[n] = {}
  /\ Memo \intersect Rule = {} /\ Memo \intersect Jobs = {} /\ Rule \intersect Jobs = {}
  /\ Idle \notin Work

\* Nothing is initialized from its own initializer.
ASSUME DepthAssumption ==
  /\ Depth \in [Memo -> Nat]
  /\ \A m \in Memo : \A n \in Needs[m] : Depth[n] < Depth[m]

\* A job never comes to ask for a cell that forks.
ASSUME JobAssumption == \E Q \in SUBSET Memo : ApartFromForks(Q)

\* To build what `warm` names builds every cell that forks or runs a pass.
ASSUME WarmAssumption ==
  \A S \in SUBSET Memo :
    Built \subseteq S /\ (\A m \in S : Needs[m] \subseteq S) => Forks \union Passes \subseteq S

VARIABLES
  phase,     \* "warm", "group", "owners", "done"
  at,        \* how far warm, or the world owners, have come
  cell,      \* cell[m]: "empty", "busy" or "built"
  builder,   \* builder[m]: the thread that builds it, or built it
  forked,    \* the cells whose jobs were queued
  queue,     \* the tasks no worker has taken
  finished,  \* the tasks that ran
  top, under, left,
  down       \* the checker crashed

vars == <<phase, at, cell, builder, forked, queue, finished, top, under, left, down>>

Waiting(m) == m \in forked /\ ~(Job[m] \subseteq finished)

Init ==
  /\ phase = "warm" /\ at = 1
  /\ cell = [m \in Memo |-> "empty"] /\ builder = [m \in Memo |-> Main]
  /\ forked = {} /\ queue = {} /\ finished = {}
  /\ top = [t \in Thread |-> Idle] /\ under = [x \in Work |-> Idle]
  /\ left = [x \in Work |-> {}]
  /\ down = FALSE

-----------------------------------------------------------------------------
\* Thread t starts work x on top of what it does.
Push(t, x, asks) ==
  /\ top' = [top EXCEPT ![t] = x]
  /\ under' = [under EXCEPT ![x] = top[t]]
  /\ left' = [left EXCEPT ![x] = asks]

Pop(t) == top' = [top EXCEPT ![t] = under[top[t]]]

\* get_or_init on an empty cell.
Begin(t, m) ==
  /\ cell[m] = "empty"
  /\ cell' = [cell EXCEPT ![m] = "busy"]
  /\ builder' = [builder EXCEPT ![m] = t]
  /\ Push(t, m, Needs[m])

\* get_or_init on a built cell; on a busy one the thread waits.
Read(t, m) ==
  /\ top[t] # Idle /\ m \in left[top[t]] /\ cell[m] = "built"
  /\ left' = [left EXCEPT ![top[t]] = @ \ {m}]
  /\ UNCHANGED <<phase, at, cell, builder, forked, queue, finished, top, under, down>>

Build(t, m) ==
  /\ top[t] # Idle /\ m \in left[top[t]]
  /\ Begin(t, m)
  /\ UNCHANGED <<phase, at, forked, queue, finished, down>>

\* An initializer queues its jobs.
Fork(t) ==
  /\ top[t] \in Forks \ forked /\ left[top[t]] = {}
  /\ forked' = forked \union {top[t]}
  /\ queue' = queue \union Job[top[t]]
  /\ UNCHANGED <<phase, at, cell, builder, finished, top, under, left, down>>

\* A pass that panics leaves an empty product and the checker down.
End(t) ==
  /\ top[t] \in Memo /\ left[top[t]] = {}
  /\ top[t] \in Forks => top[t] \in forked /\ ~Waiting(top[t])
  /\ cell' = [cell EXCEPT ![top[t]] = "built"]
  /\ down' \in IF top[t] \in Passes THEN {down, TRUE} ELSE {down}
  /\ Pop(t)
  /\ UNCHANGED <<phase, at, builder, forked, queue, finished, under, left>>

\* A worker with nothing to do, or one waiting for jobs it forked, takes what is queued.
Take(w, x) ==
  /\ top[w] = Idle \/ (top[w] \in Forks /\ Waiting(top[w]))
  /\ x \in queue
  /\ queue' = queue \ {x}
  /\ Push(w, x, IF x \in Rule THEN Asks[x]
                ELSE JobNeeds[CHOOSE m \in Forks : x \in Job[m]])
  /\ UNCHANGED <<phase, at, cell, builder, forked, finished, down>>

\* A world owner verifies its splices, which runs passes.
Finish(t) ==
  /\ top[t] \in Task /\ left[top[t]] = {}
  /\ finished' = finished \union {top[t]}
  /\ down' \in IF top[t] \in Owned THEN {down, TRUE} ELSE {down}
  /\ Pop(t)
  /\ UNCHANGED <<phase, at, cell, builder, forked, queue, under, left>>

-----------------------------------------------------------------------------
\* Mutant of Warm: forgets every other cell.
WarmHalf ==
  /\ phase = "warm" /\ at <= Len(Warmed) /\ top[Main] = Idle
  /\ \/ /\ cell[Warmed[at]] = "built" \/ at % 2 = 1
        /\ at' = at + 1
        /\ UNCHANGED <<cell, builder, top, under, left>>
     \/ /\ at % 2 = 0 /\ Begin(Main, Warmed[at])
        /\ UNCHANGED at
  /\ UNCHANGED <<phase, forked, queue, finished, down>>

\* warm: one accessor after another.
Warm ==
  /\ phase = "warm" /\ at <= Len(Warmed) /\ top[Main] = Idle
  /\ \/ /\ cell[Warmed[at]] = "built"
        /\ at' = at + 1
        /\ UNCHANGED <<cell, builder, top, under, left>>
     \/ /\ Begin(Main, Warmed[at])
        /\ UNCHANGED at
  /\ UNCHANGED <<phase, forked, queue, finished, down>>

\* Mutant of Split: queues the rules beside the warming.
SplitEarly ==
  /\ phase = "warm"
  /\ phase' = "group"
  /\ queue' = queue \union GroupA
  /\ UNCHANGED <<at, cell, builder, forked, finished, top, under, left, down>>

\* Mutant of Split: queues every rule, the world owners too.
SplitAll ==
  /\ phase = "warm" /\ at > Len(Warmed)
  /\ phase' = "group"
  /\ queue' = queue \union Rule
  /\ UNCHANGED <<at, cell, builder, forked, finished, top, under, left, down>>

\* The rules that own no world go to the pool, and the main thread waits for them.
Split ==
  /\ phase = "warm" /\ at > Len(Warmed)
  /\ phase' = "group"
  /\ queue' = queue \union GroupA
  /\ UNCHANGED <<at, cell, builder, forked, finished, top, under, left, down>>

\* Mutant of Joined: waits for the world owners too.
JoinedAll ==
  /\ phase = "group" /\ Rule \subseteq finished
  /\ phase' = "owners" /\ at' = 1
  /\ UNCHANGED <<cell, builder, forked, queue, finished, top, under, left, down>>

Joined ==
  /\ phase = "group" /\ GroupA \subseteq finished
  /\ phase' = "owners" /\ at' = 1
  /\ UNCHANGED <<cell, builder, forked, queue, finished, top, under, left, down>>

OwnWorld ==
  /\ phase = "owners" /\ top[Main] = Idle /\ at <= Len(Owners)
  /\ Push(Main, Owners[at], Asks[Owners[at]])
  /\ at' = at + 1
  /\ UNCHANGED <<phase, cell, builder, forked, queue, finished, down>>

\* The findings of every rule, in id order whatever order they came in.
Collect ==
  /\ phase = "owners" /\ top[Main] = Idle /\ at > Len(Owners)
  /\ phase' = "done"
  /\ UNCHANGED <<at, cell, builder, forked, queue, finished, top, under, left, down>>

Returned == phase = "done" /\ UNCHANGED vars

Step(t) ==
  \/ \E m \in Memo : Read(t, m) \/ Build(t, m)
  \/ Fork(t) \/ End(t) \/ Finish(t)

Run(w) == Step(w) \/ \E x \in Task : Take(w, x)
Lead   == Step(Main) \/ Warm \/ Split \/ Joined \/ OwnWorld \/ Collect
Next   == (\E w \in Worker : Run(w)) \/ Lead \/ Returned

Spec == Init /\ [][Next]_vars

\* The operating system runs every thread that is not blocked.
FairSpec == Spec /\ WF_vars(Lead) /\ \A w \in Worker : WF_vars(Run(w))
-----------------------------------------------------------------------------
TypeOK ==
  /\ phase \in {"warm", "group", "owners", "done"}
  /\ at \in 1 .. 1 + IF phase \in {"warm", "group"} THEN Len(Warmed) ELSE Len(Owners)
  /\ cell \in [Memo -> {"empty", "busy", "built"}] /\ builder \in [Memo -> Thread]
  /\ forked \subseteq Forks /\ queue \subseteq Task /\ finished \subseteq Task
  /\ top \in [Thread -> Work \union {Idle}] /\ under \in [Work -> Work \union {Idle}]
  /\ left \in [Work -> SUBSET Memo]
  /\ down \in BOOLEAN

\* lib.rs:280-284: a closure that "re-enters the same OnceLock on the same thread" is a
\* deadlock.  No thread ever asks for a cell it is itself building.
NeverReenters ==
  \A t \in Thread : top[t] # Idle =>
    \A m \in left[top[t]] : ~(cell[m] = "busy" /\ builder[m] = t)

\* trust.rs and lib.rs of py-rules: "each owns a world, which takes the checker mutably".
\* While one runs nothing else does, and no rule of the group is still to run.
OwnersRunAlone ==
  \A t \in Thread : top[t] \in Owned =>
    t = Main /\ GroupA \subseteq finished /\ \A w \in Worker : top[w] = Idle

\* Every rule of the parallel group reads the checker up or every one reads it down: no
\* pass of it runs beside them, so what a run loses does not depend on the schedule.
CheckerSteadyInGroup == [][phase = "group" => down' = down]_vars

\* The rules end: nobody waits for ever for a cell, a job or a rule.
Finishes == <>(phase = "done" /\ finished = Rule \union UNION {Job[m] : m \in forked})
=============================================================================
