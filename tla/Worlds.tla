------------------------------- MODULE Worlds -------------------------------
(***************************************************************************)
(* What one counterfactual world says of the splices it holds: the static  *)
(* half of crates/core/src/worlds.rs, shared by both language stacks.      *)
(*                                                                         *)
(* A splice is an exact edit a rule proposes; splices are named by numbers *)
(* whose order is the order of their ids, the order every stack sorts them *)
(* in before it verifies them.  A diagnostic is abstracted to the place it *)
(* is reported at.                                                         *)
(***************************************************************************)
EXTENDS Naturals, FiniteSets

CONSTANTS
  Splice,       \* the proposals, numbered in id order
  File,
  Place,        \* where a diagnostic can be reported
  Warning,      \* those where what is reported is no error
  At,           \* At[pl]: the file place pl is in
  Rel,          \* Rel[p]: the file splice p edits
  Body,         \* Body[p]: the places inside p's callee span, {} for a module owner
  Watched,      \* Watched[p]: the caller files p must not break
  WatchesAll,   \* the splices whose dependents cannot be enumerated
  Batches,      \* the sets of splices a rule may propose together
  Checker,      \* the checkers a behaviour may meet
  Raises(_, _)  \* Raises(c, w): where checker c adds diagnostics in the world holding w

ASSUME SpliceAssumption == Splice \subseteq Nat /\ IsFiniteSet(Splice)

ASSUME PlacementAssumption ==
  /\ Warning \subseteq Place
  /\ At \in [Place -> File]
  /\ Rel \in [Splice -> File]
  /\ Watched \in [Splice -> SUBSET File]
  /\ WatchesAll \subseteq Splice
  /\ Body \in [Splice -> SUBSET Place]
  /\ \A p \in Splice : \A pl \in Body[p] : At[pl] = Rel[p]

ASSUME BatchesAssumption == Batches \subseteq SUBSET Splice

ASSUME CheckerAssumption ==
  \A c \in Checker : \A w \in SUBSET Splice : Raises(c, w) \subseteq Place

\* The places where an error vetoes p: everywhere, or its own file and its callers'.
Watches(p) ==
  IF p \in WatchesAll THEN Place \ Warning
  ELSE {pl \in Place \ Warning : At[pl] \in Watched[p] \union {Rel[p]}}

Errored(p, errs) == errs \intersect Watches(p) # {}

\* Mutant of Live: scans every splice and not the group's members.
LiveOfAll(group, errs) == {p \in Splice : Errored(p, errs)}

Live(group, errs) == {p \in group : Errored(p, errs)}

\* Hosting a warning counts as much as hosting an error.
Hosts(group, errs) == {p \in group : errs \intersect Body[p] # {}}

\* The first len / 2 members in id order.
FirstHalf(group) ==
  {p \in group :
     Cardinality({q \in group : q < p}) < Cardinality(group) \div 2}

\* Mutant of Split: the hosts of an error go on, the rest are forgotten.
SplitHostsOnly(group, errs) ==
  LET hosts == Hosts(group, errs)
  IN  IF hosts # {} /\ hosts # group THEN {hosts}
      ELSE IF Cardinality(group) \div 2 = 0 THEN {group}
      ELSE {FirstHalf(group), group \ FirstHalf(group)}

\* Mutant of Split: the hosts are tested apart and with the rest.
SplitOverlaps(group, errs) ==
  IF Hosts(group, errs) \notin {{}, group} THEN {Hosts(group, errs), group}
  ELSE IF Cardinality(group) \div 2 = 0 THEN {group}
  ELSE {FirstHalf(group), group \ FirstHalf(group)}

\* The two groups to test next: the hosts of an error and the rest, else two halves.
Split(group, errs) ==
  LET hosts == Hosts(group, errs)
      rest  == group \ hosts
  IN  IF hosts # {} /\ rest # {} THEN {hosts, rest}
      ELSE IF Cardinality(group) \div 2 = 0 THEN {group}
      ELSE {FirstHalf(group), group \ FirstHalf(group)}

\* Mutant of Convicted: a group of any size is vetoed whole.
ConvictedByGroup(group, errs) == Live(group, errs)

\* What a singleton world pins on its own splice.
Convicted(group, errs) ==
  IF Cardinality(group) = 1 THEN Live(group, errs) ELSE {}

\* Mutant of Regrouped: always splits, also a group that cleared next to nothing.
RegroupedAlwaysSplit(group, errs) ==
  IF Cardinality(group) = 1 \/ Live(group, errs) = {} THEN {}
  ELSE Split(Live(group, errs), errs)

\* The groups a group whose world raised errs leaves pending.
Regrouped(group, errs) ==
  LET live == Live(group, errs)
  IN  IF Cardinality(group) = 1 \/ live = {} THEN {}
      ELSE IF 2 * Cardinality(live) > Cardinality(group) THEN {{p} : p \in live}
      ELSE Split(live, errs)

(***************************************************************************)
(* A checker, as far as a pass can tell, is the diagnostics each world     *)
(* adds.  Veto-monotone: a splice that errs alone is implicated by every   *)
(* world that holds it, which is what lets a clean world clear its members *)
(* (worlds.rs:74-77).  It does not ask that no error is ever hidden.       *)
(***************************************************************************)
ErrsAlone(c, p) == Errored(p, Raises(c, {p}))

VetoMonotone(c) ==
  \A p \in Splice : ErrsAlone(c, p) =>
    \A w \in SUBSET Splice : p \in w => Errored(p, Raises(c, w))
=============================================================================
