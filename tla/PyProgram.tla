----------------------------- MODULE PyProgram -----------------------------
(***************************************************************************)
(* A Python program as far as its calls go, and what py-facts makes of it: *)
(* class hierarchies, methods and module functions, and call sites by the  *)
(* shape of their callee expression. The program grows one call at a time; *)
(* py-facts/src/resolve.rs gives every site a verdict by class-hierarchy   *)
(* analysis (CHA), with no types beyond the receiver self. MayRun is       *)
(* Python's own dispatch, and what the checker knows of a site is its      *)
(* definitions on the receiver's declared type.                            *)
(***************************************************************************)
EXTENDS Closures, Sequences, SequencesExt

Outside == "outside"

CONSTANTS
  Classes, Modules,   \* what owns a function: a class its methods, a module its functions
  Names,              \* the names a function may have
  Ctor,               \* "__init__" among them
  Hierarchies,        \* the base lists to try, each [Classes -> Seq(Classes \cup {Outside})]
  DefSets,            \* the functions a tree may define, each a set of them
  Shapes,             \* the call sites that may be written
  MarkSets,           \* the escapes to try: sets of <<function, escape>>
  MaxSites            \* bound: call sites in one program

Owners == Classes \cup Modules
Functions == Owners \X Names
ASSUME TreesAreFinite ==
  /\ IsFiniteSet(Classes) /\ Classes \cap Modules = {} /\ Outside \notin Owners
  /\ Hierarchies \subseteq [Classes -> Seq(Classes \cup {Outside})]
  /\ \A d \in DefSets : IsFiniteSet(d) /\ d \subseteq Functions
  /\ Ctor \in Names /\ "class" \notin Names
ASSUME SitesAreWritten ==
  \A s \in Shapes :
    /\ s.in \in Functions /\ s.name \in Names /\ s.on \in Owners \cup {Outside}
    /\ s.how \in {"bare", "self", "plain", "chain", "new"} /\ s.typed \in BOOLEAN
    /\ s.how = "self" => s.on = s.in[1] /\ s.on \in Classes
    /\ s.how = "new"  => s.on \in Classes /\ s.name = Ctor
    /\ s.how = "bare" => s.on \in Modules
    /\ s.how \in {"plain", "chain"} => s.on \in Classes \cup {Outside}

VARIABLES
  bases,    \* class -> its bases, in order
  defs,     \* the functions the tree defines
  marks,    \* what else the tree does with a function: publishes it, passes it on ...
  sites     \* the calls
program == <<bases, defs, marks, sites>>

----------------------------------------------------------------------------
(* The class table: model.rs class_walk *)

BasesOf(c) == Range(bases[c]) \cap Classes
Library == {c \in Classes : Outside \in Range(bases[c])}
SubclassesOf(c) == {d \in Classes : c \in BasesOf(d)}
Up(c) == Closure([d \in Classes |-> BasesOf(d)], {c})
Down(c) == Closure([d \in Classes |-> SubclassesOf(d)], {c})
Linked(c) == Closure([d \in Classes |-> BasesOf(d) \cup SubclassesOf(d)], {c})

Definers(cs, name) == {c \in cs : <<c, name>> \in defs}
MethodsNamed(cs, name) == {<<c, name>> : c \in Definers(cs, name)}

(* The first class with a constructor on the walk up from c, which takes   *)
(* the last base of a frontier first and no class twice.                   *)
NoBody == <<Outside, Ctor>>
Walks == [front : Seq(Classes \cup {Outside}), seen : SUBSET Classes,
          body : (Classes \X {Ctor}) \cup {NoBody}]
Fresh(w) == {i \in DOMAIN w.front : w.front[i] \in Classes \ w.seen}
Visit ==
  [w \in Walks |->
     IF w.body # NoBody \/ Fresh(w) = {} THEN w
     ELSE LET top == Max(Fresh(w))
              c   == w.front[top]
          IN [front |-> SubSeq(w.front, 1, top - 1) \o bases[c],
              seen  |-> w.seen \cup {c},
              body  |-> IF <<c, Ctor>> \in defs THEN <<c, Ctor>> ELSE NoBody]]
CtorUp(c) ==
  Iterate(Visit, [front |-> <<c>>, seen |-> {}, body |-> NoBody], Cardinality(Classes)).body

----------------------------------------------------------------------------
(* What runs, and what a checker sees.  A lookup on a class finds a method *)
(* no class between them overrides; where two bases compete Python's order *)
(* decides, and the model takes either.                                    *)

Lookup(c, name) ==
  {<<d, name>> : d \in {d \in Definers(Up(c), name) :
                          Down(d) \cap Definers(Up(c), name) = {d}}}

MayRun(s) ==
  CASE s.on = Outside -> {}
    [] s.how = "bare" -> {<<s.on, s.name>>} \cap defs
    [] s.how = "new"  -> Lookup(s.on, Ctor)
    [] OTHER          -> UNION {Lookup(c, s.name) : c \in Down(s.on)}

(* The oracle's call_edges: the definitions on the declared type, or the   *)
(* verdict that none lies in the tree; nothing where the checker has no    *)
(* type for the receiver, or the type has no such method.                  *)
EdgeTargets(s) == IF s.typed /\ s.on \in Classes THEN Lookup(s.on, s.name) ELSE {}
EdgeExternal(s) == s.typed /\ s.on = Outside

----------------------------------------------------------------------------
(* Resolver::resolve_call: a verdict of class-hierarchy analysis *)

Verdict(res, target, among) == [res |-> res, target |-> target, among |-> among]
Resolved(f) == Verdict("resolved", f, {})
Unresolved == Verdict("unresolved", NoBody, {})
External == Verdict("external", NoBody, {})
ClassSymbol(c) == <<c, "class">>

(* method_call: one candidate is the callee, a guess unless the receiver   *)
(* is self; several are ambiguous.                                         *)
MethodCall(candidates, one) ==
  CASE Cardinality(candidates) = 1 -> Verdict(one, CHOOSE f \in candidates : TRUE, {})
    [] candidates = {}             -> Unresolved
    [] OTHER                       -> Verdict("ambiguous", NoBody, candidates)

OnSelf(s) == MethodsNamed(Up(s.on) \cup Down(s.on), s.name)
ByName(s) == MethodsNamed(Classes, s.name)

Cha(s) ==
  CASE s.how = "bare" ->
         IF <<s.on, s.name>> \in defs THEN Resolved(<<s.on, s.name>>) ELSE Unresolved
    [] s.how = "new"   -> Resolved(ClassSymbol(s.on))
    [] s.how = "self"  -> MethodCall(OnSelf(s), "resolved")
    \* a plain receiver: by method name, and no repo body where no class has one
    [] s.how = "plain" -> IF ByName(s) = {} THEN External ELSE MethodCall(ByName(s), "by-name")
    [] s.how = "chain" -> Unresolved

----------------------------------------------------------------------------
Init ==
  /\ bases \in Hierarchies
  /\ defs \in DefSets
  /\ sites = {}
  /\ marks \in MarkSets

Call(s) ==
  /\ s.in \in defs /\ s \notin sites /\ Cardinality(sites) < MaxSites
  /\ sites' = sites \cup {s}
  /\ UNCHANGED <<bases, defs, marks>>

Next == \E s \in Shapes : Call(s)
Spec == Init /\ [][Next]_program
=============================================================================
