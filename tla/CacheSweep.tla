----------------------------- MODULE CacheSweep -----------------------------
(***************************************************************************)
(* The build directories of every audited root, under one cache that all   *)
(* audits of a user share, and the sweep each audit ends with.  Audits are *)
(* processes of their own: they overlap, they are killed, and no lock      *)
(* orders one's sweep and another's build.  A directory holds a marker     *)
(* whose age decides.                                                      *)
(*                                                                         *)
(* Time is kept as ages, which stop growing at Cap, so that the model runs *)
(* for ever.                                                               *)
(***************************************************************************)
EXTENDS Integers

CONSTANTS
  Root,       \* audited roots, each with the directory its path's digest names
  Audit,      \* processes
  Stale,      \* STALE_DAYS
  MaxSweep,   \* bound: no sweep takes longer
  None

ASSUME CacheAssumption ==
  /\ Stale \in Nat /\ MaxSweep \in Nat
  /\ None \notin Root /\ None \notin Int

VARIABLES
  exist,    \* exist[r]: the directory is there
  mark,     \* mark[r]: the age of its marker, or None
  lapsed,   \* lapsed[r]: the marker was older than Stale, or a sweep that saw it so is not over
  pc,       \* pc[a]: "off", "build", "list", "sweep", "closed"
  root,     \* root[a]: the root it audits
  since,    \* since[a]: how long ago its sweep read the clock
  todo,     \* todo[a]: entries read_dir has yet to yield
  entry,    \* entry[a]: the directory the sweep is at, or None
  doomed    \* doomed[a]: its marker was read stale, and it is being removed

vars == <<exist, mark, lapsed, pc, root, since, todo, entry, doomed>>

Cap == Stale + MaxSweep + 1

Init ==
  /\ exist \in [Root -> BOOLEAN]
  /\ mark \in {m \in [Root -> {None, 0}] : \A r \in Root : m[r] # None => exist[r]}
  /\ lapsed = [r \in Root |-> FALSE]
  /\ pc = [a \in Audit |-> "off"] /\ root \in [Audit -> Root]
  /\ since = [a \in Audit |-> 0] /\ todo = [a \in Audit |-> {}]
  /\ entry = [a \in Audit |-> None] /\ doomed = [a \in Audit |-> FALSE]

-----------------------------------------------------------------------------
\* cargo makes the directory of the root it builds for.
Begin(a, r) ==
  /\ pc[a] \in {"off", "closed"}
  /\ pc' = [pc EXCEPT ![a] = "build"]
  /\ root' = [root EXCEPT ![a] = r]
  /\ exist' = [exist EXCEPT ![r] = TRUE]
  /\ UNCHANGED <<mark, lapsed, since, todo, entry, doomed>>

\* A later cargo of the same audit makes it again.
Compile(a) ==
  /\ pc[a] = "build"
  /\ exist' = [exist EXCEPT ![root[a]] = TRUE]
  /\ UNCHANGED <<mark, lapsed, pc, root, since, todo, entry, doomed>>

\* Mutant of Touched: the marker is written once, when there is none.
TouchedOnce(d) ==
  /\ exist' = [exist EXCEPT ![d] = TRUE]
  /\ mark' = [mark EXCEPT ![d] = IF @ = None THEN 0 ELSE @]
  /\ lapsed' = [lapsed EXCEPT ![d] = \E b \in Audit : entry[b] = d /\ doomed[b]]

Touched(d) ==
  /\ exist' = [exist EXCEPT ![d] = TRUE]
  /\ mark' = [mark EXCEPT ![d] = 0]
  /\ lapsed' = [lapsed EXCEPT ![d] = \E b \in Audit : entry[b] = d /\ doomed[b]]

\* close: the sweep touches its own marker, then reads the clock.
Close(a) ==
  /\ pc[a] = "build"
  /\ Touched(root[a])
  /\ pc' = [pc EXCEPT ![a] = "list"]
  /\ since' = [since EXCEPT ![a] = 0]
  /\ UNCHANGED <<root, todo, entry, doomed>>

List(a) ==
  /\ pc[a] = "list"
  /\ pc' = [pc EXCEPT ![a] = "sweep"]
  /\ todo' = [todo EXCEPT ![a] = {d \in Root : exist[d]}]
  /\ UNCHANGED <<exist, mark, lapsed, root, since, entry, doomed>>

\* The next entry, if it is a directory and not the audit's own.
Enter(a) ==
  /\ pc[a] = "sweep" /\ entry[a] = None
  /\ \E d \in todo[a] :
       /\ todo' = [todo EXCEPT ![a] = @ \ {d}]
       /\ entry' = [entry EXCEPT ![a] = IF d = root[a] \/ ~exist[d] THEN None ELSE d]
  /\ UNCHANGED <<exist, mark, lapsed, pc, root, since, doomed>>

\* now - marker, as the sweep's clock reading has it; a marker of later is no age.
Age(a, d) == mark[d] - since[a]

\* Mutant of Judge: a directory without a marker is left as it is.
JudgeUnmarked(a) ==
  LET d == entry[a] IN
  /\ d # None /\ ~doomed[a]
  /\ \/ /\ mark[d] # None /\ Age(a, d) > Stale
        /\ doomed' = [doomed EXCEPT ![a] = TRUE]
        /\ UNCHANGED entry
     \/ /\ mark[d] # None => Age(a, d) <= Stale
        /\ entry' = [entry EXCEPT ![a] = None]
        /\ UNCHANGED doomed
  /\ UNCHANGED <<exist, mark, lapsed, pc, root, since, todo>>

\* A stale directory goes, one without a marker gets one, made again if it has just gone.
Judge(a) ==
  LET d == entry[a] IN
  /\ d # None /\ ~doomed[a]
  /\ \/ /\ mark[d] # None /\ Age(a, d) > Stale
        /\ doomed' = [doomed EXCEPT ![a] = TRUE]
        /\ UNCHANGED <<exist, mark, lapsed, entry>>
     \/ /\ mark[d] # None /\ Age(a, d) <= Stale
        /\ entry' = [entry EXCEPT ![a] = None]
        /\ UNCHANGED <<exist, mark, lapsed, doomed>>
     \/ /\ mark[d] = None
        /\ Touched(d)
        /\ entry' = [entry EXCEPT ![a] = None]
        /\ UNCHANGED doomed
  /\ UNCHANGED <<pc, root, since, todo>>

Released(a) ==
  /\ entry' = [entry EXCEPT ![a] = None]
  /\ doomed' = [doomed EXCEPT ![a] = FALSE]

\* remove_dir_all goes file by file: the marker may be gone before the rest.
RemoveMarker(a) ==
  /\ doomed[a] /\ mark[entry[a]] # None
  /\ mark' = [mark EXCEPT ![entry[a]] = None]
  /\ UNCHANGED <<exist, lapsed, pc, root, since, todo, entry, doomed>>

\* It ends with the directory gone, or fails on a file written behind it.
Remove(a) ==
  LET d == entry[a] IN
  /\ doomed[a]
  /\ Released(a)
  /\ \/ /\ exist' = [exist EXCEPT ![d] = FALSE]
        /\ mark' = [mark EXCEPT ![d] = None]
     \/ /\ \/ \E b \in Audit : pc[b] = "build" /\ root[b] = d
           \/ mark[d] # None /\ mark[d] <= since[a]
        /\ UNCHANGED <<exist, mark>>
  /\ lapsed' = [lapsed EXCEPT ![d] = \/ (\E b \in Audit \ {a} : entry[b] = d /\ doomed[b])
                                   \/ (mark'[d] # None /\ mark'[d] > Stale)]
  /\ UNCHANGED <<pc, root, since, todo>>

Closed(a) ==
  /\ pc[a] = "sweep" /\ todo[a] = {} /\ entry[a] = None
  /\ pc' = [pc EXCEPT ![a] = "closed"]
  /\ UNCHANGED <<exist, mark, lapsed, root, since, todo, entry, doomed>>

\* The process dies, in its build or in its sweep.
Kill(a) ==
  /\ pc[a] \in {"build", "list", "sweep"}
  /\ pc' = [pc EXCEPT ![a] = "off"]
  /\ todo' = [todo EXCEPT ![a] = {}]
  /\ Released(a)
  /\ UNCHANGED <<exist, mark, lapsed, root, since>>

\* A day passes.
Tick ==
  /\ \A a \in Audit : pc[a] \in {"list", "sweep"} => since[a] < MaxSweep
  /\ mark' = [r \in Root |->
                IF mark[r] = None THEN None ELSE IF mark[r] < Cap THEN mark[r] + 1 ELSE Cap]
  /\ since' = [a \in Audit |-> IF pc[a] \in {"list", "sweep"} THEN since[a] + 1 ELSE 0]
  /\ lapsed' = [r \in Root |-> lapsed[r] \/ (mark[r] # None /\ mark[r] >= Stale)]
  /\ UNCHANGED <<exist, pc, root, todo, entry, doomed>>

Sweep(a) ==
  Close(a) \/ List(a) \/ Enter(a) \/ Judge(a) \/ RemoveMarker(a) \/ Remove(a) \/ Closed(a)

Next ==
  \/ \E a \in Audit : Sweep(a) \/ Compile(a) \/ Kill(a) \/ \E r \in Root : Begin(a, r)
  \/ Tick

Spec == Init /\ [][Next]_vars

\* Time passes, and an audit that is not killed runs on.
FairSpec == Spec /\ WF_vars(Tick) /\ \A a \in Audit : WF_vars(Sweep(a))
-----------------------------------------------------------------------------
TypeOK ==
  /\ exist \in [Root -> BOOLEAN] /\ mark \in [Root -> {None} \union (0 .. Cap)]
  /\ \A r \in Root : mark[r] # None => exist[r]
  /\ lapsed \in [Root -> BOOLEAN]
  /\ pc \in [Audit -> {"off", "build", "list", "sweep", "closed"}]
  /\ root \in [Audit -> Root] /\ since \in [Audit -> 0 .. MaxSweep]
  /\ todo \in [Audit -> SUBSET Root] /\ entry \in [Audit -> Root \union {None}]
  /\ doomed \in [Audit -> BOOLEAN]

\* cache.rs:47-54: a directory goes only when no audit touched it for STALE_DAYS.  Whatever
\* audits overlap and whichever die, a root whose audits never left that gap keeps its
\* directory and the marker in it.
KeptWhileUsed ==
  [][\A r \in Root : exist[r] /\ ~lapsed[r] =>
       exist'[r] /\ (mark[r] # None => mark'[r] # None)]_vars

\* Sweeps that come to their end one at a time.
Orderly ==
  /\ []<><<\E a \in Audit : Closed(a)>>_vars
  /\ <>[][~\E a \in Audit : Kill(a)]_vars
  /\ <>[](\A a, b \in Audit : {pc[a], pc[b]} \subseteq {"list", "sweep"} => a = b)

\* cache.rs:2 "keeps the cache from growing forever": the directory of a root nobody audits
\* any more goes for good once sweeps are orderly, whatever overlaps and deaths came before.
ForgottenGoes ==
  \A r \in Root : Orderly /\ <>[](\A a \in Audit : root[a] # r) => <>[](~exist[r])
=============================================================================
