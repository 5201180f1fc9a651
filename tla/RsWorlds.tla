------------------------------ MODULE RsWorlds ------------------------------
(***************************************************************************)
(* The Rust oracle's side of a counterfactual pass                         *)
(* (crates/rs-provers/src/oracle/): the toolchain passes that open it, and *)
(* `verify_worlds`, which lays each world of a batch over one copy of the  *)
(* tree and runs `cargo check` in every project root the world can reach.  *)
(* A root whose pass stops is down for good; a world that cannot be laid   *)
(* or checked ends the call, and the worlds after it have no answer.       *)
(*                                                                         *)
(* A world is a set of splices; a file's content is the set of splices     *)
(* applied to it.  Project roots are numbered in the order of their paths. *)
(***************************************************************************)
EXTENDS Naturals, FiniteSets, Sequences

CONSTANTS
  Splice,
  File,
  Rel,       \* Rel[p]: the file splice p edits
  Root,      \* the project roots
  NoRoot,    \* the owner of a file under no root
  RootOf,    \* RootOf[f]: the innermost root that holds f, or NoRoot
  Reads,     \* Reads[r]: the other roots a path dependency of r's packages reaches
  Torn,      \* what a write that failed leaves
  Batches,   \* the batches of worlds a caller may ask for
  MaxCalls   \* bound: calls of verify_worlds

ASSUME RsAssumption ==
  /\ Rel \in [Splice -> File]
  /\ Root \subseteq Nat /\ Root # {} /\ NoRoot \notin Root
  /\ RootOf \in [File -> Root \union {NoRoot}]
  /\ Reads \in [Root -> SUBSET Root]
  /\ \A b \in Batches : b \in Seq((SUBSET Splice) \ {{}}) /\ b # <<>>
  /\ MaxCalls \in Nat

VARIABLES
  pass,     \* "load", "check", then "ready"
  todo,     \* the roots this pass has still to visit
  listed,   \* the member list was asked of every root that was up
  down,     \* the roots that stopped
  reads,    \* the path dependencies the member list recorded
  copied,   \* the world tree exists
  tree,     \* its files
  held,     \* the files the oracle believes overlaid
  step,     \* "idle", or "open", "lay", "check" for the world at hand
  asked,    \* the batch of the call
  done,     \* how many of its worlds are answered
  stale,    \* the files still to restore for the world at hand
  fresh,    \* the files still to write for it
  left,     \* the roots still to check it in
  checked,  \* the checks that ran in this call, and the tree each saw
  calls

opening == <<pass, todo, listed, reads>>
copy    == <<copied, tree, held>>
call    == <<step, asked, done, stale, fresh, left, checked, calls>>
vars    == <<opening, down, copy, call>>

First(S) == CHOOSE r \in S : \A q \in S : r <= q

-----------------------------------------------------------------------------
\* `dependents`: the roots whose recorded path dependencies lead to q, in any number
\* of steps.
Leads(deps, r, q) ==
  \A C \in SUBSET Root :
    deps[r] \subseteq C /\ (\A c \in C : deps[c] \subseteq C) => q \in C

Dependents(deps, q) == {r \in Root : Leads(deps, r, q)}

Edited(w) == {Rel[p] : p \in w}

Overlaid(w) == [f \in File |-> {p \in w : Rel[p] = f}]

\* Mutant of Owners: the owners of the edited files and no root that reads them.
OwnersOnly(w) ==
  LET owners == {RootOf[f] : f \in Edited(w)}
  IN  IF Cardinality(Root) = 1 \/ NoRoot \in owners THEN Root ELSE owners

\* The roots a world is checked in.
OwnersGiven(deps, w) ==
  LET owners == {RootOf[f] : f \in Edited(w)}
  IN  IF Cardinality(Root) = 1 \/ NoRoot \in owners THEN Root
      ELSE owners \union UNION {Dependents(deps, q) : q \in owners}

Owners(w) == OwnersGiven(reads, w)

Init ==
  /\ pass = "load" /\ todo = Root /\ listed = FALSE
  /\ down = {}
  /\ reads = [r \in Root |-> {}]
  /\ copied = FALSE /\ tree = [f \in File |-> {}] /\ held = {}
  /\ step = "idle" /\ asked = <<>> /\ done = 0
  /\ stale = {} /\ fresh = {} /\ left = {} /\ checked = {} /\ calls = 0

-----------------------------------------------------------------------------
Fail(r) == down' = down \union {r}

\* The member list, memoized by the first pass that needs it: every root that is up at
\* that moment gives its path dependencies, or stops.
List(silent) ==
  IF listed THEN UNCHANGED <<listed, reads>> /\ silent = {}
  ELSE /\ listed' = TRUE
       /\ silent \subseteq Root \ down
       /\ reads' = [r \in Root |-> IF r \in down \union silent THEN {} ELSE Reads[r]]

\* The index of one root's files.
Load ==
  /\ pass = "load" /\ todo # {}
  /\ todo' = todo \ {First(todo)}
  /\ Fail(First(todo)) \/ UNCHANGED down
  /\ UNCHANGED <<pass, listed, reads, copy, call>>

Loaded ==
  /\ pass = "load" /\ todo = {}
  /\ pass' = "check" /\ todo' = Root
  /\ UNCHANGED <<listed, reads, down, copy, call>>

\* The base check of one root.  Its first message about a crate asks for the members;
\* one that ends with neither a finished build nor an error stops the root.
BaseCheck ==
  /\ pass = "check" /\ todo # {}
  /\ todo' = todo \ {First(todo)}
  /\ \/ First(todo) \in down /\ UNCHANGED <<listed, reads, down>>
     \/ First(todo) \notin down /\ Fail(First(todo)) /\ UNCHANGED <<listed, reads>>
     \/ /\ First(todo) \notin down
        /\ \E silent \in SUBSET Root, dead \in SUBSET {First(todo)} :
             List(silent) /\ down' = down \union silent \union dead
  /\ UNCHANGED <<pass, copy, call>>

\* Every root was checked; the list is taken now where no message asked for it.
Members ==
  /\ pass = "check" /\ todo = {}
  /\ \E silent \in SUBSET Root :
       IF down = Root THEN silent = {} /\ UNCHANGED <<listed, reads, down>>
       ELSE List(silent) /\ down' = down \union silent
  /\ pass' = "ready"
  /\ UNCHANGED <<todo, copy, call>>

-----------------------------------------------------------------------------
\* verify_worlds is called; no root is up, and it answers nothing.
Ask(batch) ==
  /\ pass = "ready" /\ step = "idle" /\ calls < MaxCalls
  /\ asked' = batch /\ done' = 0 /\ checked' = {} /\ calls' = calls + 1
  /\ step' = IF down = Root THEN "idle" ELSE "open"
  /\ UNCHANGED <<opening, down, copy, stale, fresh, left>>

World == asked[done + 1]

\* Mutant of Open: the overlay of the last world stays.
OpenOver ==
  /\ step = "open"
  /\ copied' = TRUE
  /\ tree' = IF copied THEN tree ELSE [f \in File |-> {}]
  /\ stale' = {}
  /\ fresh' = Edited(World)
  /\ step' = "lay"
  /\ UNCHANGED <<opening, down, held, asked, done, left, checked, calls>>

\* The copy of the tree is made for the first world, and the overlay of the last world
\* is to be taken back where this one does not replace it.
Open ==
  /\ step = "open"
  /\ copied' = TRUE
  /\ tree' = IF copied THEN tree ELSE [f \in File |-> {}]
  /\ stale' = held \ Edited(World)
  /\ fresh' = Edited(World)
  /\ step' = "lay"
  /\ UNCHANGED <<opening, down, held, asked, done, left, checked, calls>>

CopyFails ==
  /\ step = "open" /\ ~copied
  /\ down' = Root
  /\ step' = "idle"
  /\ UNCHANGED <<opening, copy, asked, done, stale, fresh, left, checked, calls>>

Restore(f) ==
  /\ step = "lay" /\ f \in stale
  /\ tree' = [tree EXCEPT ![f] = {}]
  /\ stale' = stale \ {f}
  /\ UNCHANGED <<opening, down, copied, held, step, asked, done, fresh, left, checked, calls>>

Write(f) ==
  /\ step = "lay" /\ stale = {} /\ f \in fresh
  /\ tree' = [tree EXCEPT ![f] = Overlaid(World)[f]]
  /\ fresh' = fresh \ {f}
  /\ UNCHANGED <<opening, down, copied, held, step, asked, done, stale, left, checked, calls>>

\* A file that cannot be restored or written ends the call and stops every root.
LayFails ==
  /\ step = "lay"
  /\ \E f \in IF stale # {} THEN stale ELSE fresh : tree' = [tree EXCEPT ![f] = Torn]
  /\ down' = Root
  /\ held' = Edited(World)
  /\ stale' = {} /\ fresh' = {}
  /\ step' = "idle"
  /\ UNCHANGED <<opening, copied, asked, done, left, checked, calls>>

Laid ==
  /\ step = "lay" /\ stale = {} /\ fresh = {}
  /\ held' = Edited(World)
  /\ left' = Owners(World)
  /\ step' = "check"
  /\ UNCHANGED <<opening, down, copied, tree, asked, done, stale, fresh, checked, calls>>

Check(r) ==
  /\ step = "check" /\ r \in left /\ r \notin down
  /\ checked' = checked \union {[world |-> World, root |-> r, saw |-> tree]}
  /\ left' = left \ {r}
  /\ UNCHANGED <<opening, down, copy, step, asked, done, stale, fresh, calls>>

\* Mutant of CheckFails: the root is down and the call waits for it.
CheckFailsWaits(r) ==
  /\ step = "check" /\ r \in left
  /\ Fail(r)
  /\ UNCHANGED <<opening, copy, call>>

\* A root that is down, or that stops now, ends the call.
CheckFails(r) ==
  /\ step = "check" /\ r \in left
  /\ Fail(r)
  /\ left' = {}
  /\ step' = "idle"
  /\ UNCHANGED <<opening, copy, asked, done, stale, fresh, checked, calls>>

Answer ==
  /\ step = "check" /\ left = {}
  /\ done' = done + 1
  /\ step' = IF done' = Len(asked) THEN "idle" ELSE "open"
  /\ UNCHANGED <<opening, down, copy, asked, stale, fresh, left, checked, calls>>

Serve ==
  \/ Open \/ CopyFails \/ LayFails \/ Laid \/ Answer
  \/ \E f \in File : Restore(f) \/ Write(f)
  \/ \E r \in Root : Check(r) \/ CheckFails(r)

Next ==
  \/ Load \/ Loaded \/ BaseCheck \/ Members
  \/ \E batch \in Batches : Ask(batch)
  \/ Serve

Spec == Init /\ [][Next]_vars
-----------------------------------------------------------------------------
Contents == (SUBSET Splice) \union {Torn}

TypeOK ==
  /\ pass \in {"load", "check", "ready"}
  /\ todo \subseteq Root /\ listed \in BOOLEAN /\ down \subseteq Root
  /\ reads \in [Root -> SUBSET Root]
  /\ copied \in BOOLEAN /\ tree \in [File -> Contents] /\ held \subseteq File
  /\ step \in {"idle", "open", "lay", "check"}
  /\ asked \in Seq((SUBSET Splice) \ {{}}) /\ done \in 0 .. Len(asked)
  /\ step # "idle" => done < Len(asked)
  /\ stale \subseteq File /\ fresh \subseteq File /\ left \subseteq Root
  /\ \A c \in checked : c.root \in Root /\ c.saw \in [File -> Contents]
  /\ calls \in 0 .. MaxCalls

Answered == {asked[i] : i \in 1 .. done}

CheckedIn(w) == {c.root : c \in {d \in checked : d.world = w}}

\* One copy of the tree serves every world (worlds.rs:31-33): whatever world it held
\* before, in this call or an earlier one that failed, a check compiles exactly the
\* tree with its own world's overlay.
ChecksSeeTheWorld == \A c \in checked : c.saw = Overlaid(c.world)

\* The overlay set "is the tree's real state" (worlds.rs:43): while a root is up, every
\* file that differs from the audited one is known to be overlaid or is being written.
HeldIsTheRealState ==
  down # Root =>
    \A f \in File : tree[f] # {} =>
      f \in held \/ (step = "lay" /\ f \in Edited(World) \ fresh)

\* cargo.rs:311-314: an edit is checked in every root whose build reads it, so a world is
\* answered only once all of them compiled it, where every root gave its member list.
AnswersAreWhole ==
  reads = Reads =>
    \A w \in Answered : \A q \in {RootOf[f] : f \in Edited(w)} :
      (IF q = NoRoot THEN Root ELSE {q} \union Dependents(Reads, q)) \subseteq CheckedIn(w)
=============================================================================
