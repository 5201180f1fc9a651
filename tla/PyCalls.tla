------------------------------ MODULE PyCalls ------------------------------
(***************************************************************************)
(* What py-provers concludes from a program's calls: the call graph that   *)
(* re-judges facts' verdicts by the oracle's edges (callgraph.rs), the     *)
(* closed world (closed_world.rs), effect summaries (effects.rs), the hot  *)
(* set (hotness.rs), and the rules that read them for dead code (dead.rs   *)
(* in py-rules: #32, #56, #60).  A graph is a function from the program's  *)
(* sites to their verdicts; g ranges over graphs.                          *)
(*                                                                         *)
(* Summaries and heat are stated over what a function reaches: module      *)
(* Condensation shows that the walk over components computes that.         *)
(***************************************************************************)
EXTENDS PyProgram

CONSTANTS
  Tests,       \* the modules under a test path
  ModuleOf,    \* [Owners -> Modules]
  HotRoots,    \* the functions hot-roots names
  Exempt       \* the names a rule takes for alive: dunders and main
ASSUME TestsAreModules == Tests \subseteq Modules /\ Ctor \in Exempt

Marked(f, m) == <<f, m>> \in marks

----------------------------------------------------------------------------
(* The call graph *)

(* judged.rs: no oracle, and the guess is the only verdict there is. *)
\* Mutant of NameChaStands: without an oracle a guess is dropped.
NameChaFalls(v) == IF v.res = "by-name" THEN Verdict("unresolved", NoBody, {}) ELSE v
NameChaStands(v) == IF v.res = "by-name" THEN Resolved(v.target) ELSE v
Unconfirmed(v) == IF v.res = "by-name" THEN Unresolved ELSE v

Untyped == {"by-name", "unresolved", "ambiguous"}

(* The oracle's definitions, and the overrides below their classes. *)
Overrides(targets) ==
  targets \cup UNION {MethodsNamed(Down(t[1]), t[2]) : t \in targets}

OracleJudged(s) ==
  LET v == Cha(s) IN
  IF v.res \notin Untyped THEN v
  ELSE CASE EdgeExternal(s)     -> External
         [] EdgeTargets(s) # {} -> MethodCall(Overrides(EdgeTargets(s)), "resolved")
         [] OTHER               -> Unconfirmed(v)

Full     == [s \in sites |-> OracleJudged(s)]
Degraded == [s \in sites |-> NameChaStands(Cha(s))]

(* callee_of: the body a site runs, a class's by its constructor. *)
IsClass(f) == f[2] = "class"
CalleeOf(v) ==
  IF v.res # "resolved" THEN NoBody
  ELSE IF IsClass(v.target) THEN CtorUp(v.target[1]) ELSE v.target

CallsTo(g, f) == {s \in sites : g[s].res = "resolved" /\ g[s].target = f}
Callees(g, f) == {CalleeOf(g[s]) : s \in {s \in sites : s.in = f}} \ {NoBody}

(* unspoken: what the graph holds no edge for, by name. *)
Unnamed(g, name) == {s \in sites : g[s].res # "resolved" /\ s.name = name /\ s.how # "new"}
Guessed(g) == UNION {g[s].among : s \in {s \in sites : g[s].res = "ambiguous"}}

----------------------------------------------------------------------------
(* The closed world: every way a caller may exist that no site shows *)

Escapes == {"published", "re-export", "reference-escape", "dynamic-access", "unknown-decorator"}

Overridden(f) ==
  f[1] \in Classes /\ Definers(Linked(f[1]) \ {f[1]}, f[2]) # {}
\* Mutant of Reasons: a method overridden elsewhere in its hierarchy passes.
ReasonsByMark(f) ==
  {m \in Escapes : Marked(f, m)}
    \cup (IF f[1] \in Classes /\ Up(f[1]) \cap Library # {} THEN {"framework-base"} ELSE {})
Reasons(f) ==
  {m \in Escapes : Marked(f, m)}
    \cup (IF f[1] \in Classes /\ Up(f[1]) \cap Library # {} THEN {"framework-base"} ELSE {})
    \cup (IF Overridden(f) THEN {"method-override"} ELSE {})
Passes(f) == Reasons(f) = {}

----------------------------------------------------------------------------
(* Effect summaries *)

Reach(g, f) == Closure([d \in defs |-> Callees(g, d)], {f})

(* A site the graph cannot follow, and a value called as a body. *)
DirectUnknown(g, f) ==
  \E s \in sites :
    /\ s.in = f
    /\ \/ g[s].res \notin {"resolved", "external"}
       \/ g[s].res = "resolved" /\ CalleeOf(g[s]) = NoBody /\ ~ IsClass(g[s].target)

\* Mutant of EscapesWhenCalled: an override taints the method alone.
EscapesUnlessOverridden(f) ==
  Marked(f, "stored") \/ Reasons(f) \cap {"unknown-decorator", "dynamic-access"} # {}
EscapesWhenCalled(f) ==
  \/ Marked(f, "stored")
  \/ Reasons(f) \cap {"unknown-decorator", "method-override", "dynamic-access"} # {}

(* The writes of every body reached; unknown where one of them cannot be   *)
(* followed, or where the function itself escapes in any way but a base    *)
(* in a library.                                                           *)
Effects(g, f) ==
  [atoms   |-> Reach(g, f),
   unknown |-> \/ \E r \in Reach(g, f) : DirectUnknown(g, r) \/ EscapesWhenCalled(r)
               \/ Reasons(f) \ {"framework-base"} # {}]

----------------------------------------------------------------------------
(* The hot set.  Without an oracle a standing guess is no edge. *)

\* Mutant of HotCallees: the degraded run walks its guesses.
HotCalleesAll(g, degraded, f) == Callees(g, f)
HotCallees(g, degraded, f) ==
  {CalleeOf(g[s]) : s \in {s \in sites : s.in = f /\ ~ (degraded /\ Cha(s).res = "by-name")}}
    \ {NoBody}
Hot(g, degraded) == Closure([d \in defs |-> HotCallees(g, degraded, d)], HotRoots \cap defs)

----------------------------------------------------------------------------
(* Dead code *)

Module(f) == ModuleOf[f[1]]
InTests(f) == Module(f) \in Tests
Homes(name) == {f \in defs : f[2] = name}

(* is_override_fixed and framework_coupled: the method answers to a        *)
(* contract its class did not make.                                        *)
OverrideFixed(f) ==
  /\ f[1] \in Classes
  /\ \/ Up(f[1]) \cap Library # {}
     \/ Definers(Up(f[1]) \ {f[1]}, f[2]) # {}
Coupled(c) == \E d \in Down(c) : Up(d) \cap Library # {}
Judged(f) ==
  /\ f \in defs /\ ~ InTests(f) /\ f[2] \notin Exempt
  /\ ~ Marked(f, "unknown-decorator") /\ ~ OverrideFixed(f)
  /\ f[1] \in Classes => ~ Coupled(f[1])

(* The scopes outside its own body where the function's name occurs: calls *)
(* that spell it, and whoever names it otherwise.                          *)
\* Mutant of Spelling: a name behind another attribute is not collected.
SpellingUnchained(f) == {s \in sites : s.name = f[2] /\ s.how \in {"bare", "plain"} /\ s.in # f}
Spelling(f) == {s \in sites : s.name = f[2] /\ s.how # "new" /\ s.in # f}
NamedElsewhere(f) ==
  \E m \in {"published", "re-export", "reference-escape", "dynamic-access", "entry-point",
            "stored-elsewhere"} : Marked(f, m)
Occurs(f) == Spelling(f) # {} \/ NamedElsewhere(f)

Dead32(f) == Judged(f) /\ ~ Occurs(f) /\ ~ Marked(f, "published")

(* Every reference sits under a test path; a method only where no class    *)
(* shares the name and production builds none of its own.                  *)
ProdUses(c) == \E s \in sites : s.how = "new" /\ s.on = c /\ ~ InTests(s.in)
Dead56(f) ==
  /\ Judged(f) /\ ~ Marked(f, "published")
  /\ f[1] \in Classes => {h \in Homes(f[2]) : h[1] \in Classes} = {f} /\ ~ ProdUses(f[1])
  /\ Spelling(f) # {} /\ ~ NamedElsewhere(f)
  /\ \A s \in Spelling(f) : InTests(s.in)

Dead60(g, f) ==
  /\ Judged(f)
  /\ f \notin Guessed(g) /\ ~ Marked(f, "shadowed")
  /\ ~ (Unnamed(g, f[2]) # {} /\ Homes(f[2]) = {f})
  /\ CallsTo(g, f) = {} /\ ~ Marked(f, "entry-point")
  /\ ~ Marked(f, "valued")
  /\ Passes(f)
  /\ Occurs(f)

Dead(g) == {f \in defs : Dead32(f) \/ Dead60(g, f)}

----------------------------------------------------------------------------
(* What the audit relies on *)

(* The checker has an answer for every call the hierarchy leaves open, and *)
(* the answer names a definition.                                          *)
EveryCallIsTyped ==
  \A s \in sites :
    Cha(s).res \in Untyped => EdgeExternal(s) \/ EdgeTargets(s) # {} \/ MayRun(s) = {}

(* A function someone may run without any site that spells a call of it:   *)
(* a library does, through any class that puts the method beside its own.  *)
RunUnseen(f) ==
  \/ \E m \in {"published", "reference-escape", "dynamic-access", "unknown-decorator",
              "entry-point"} : Marked(f, m)
  \/ f[1] \in Classes /\ \E c \in Down(f[1]) : Up(c) \cap Library # {}

(* dead.rs:454-545 over callgraph.rs and closed_world.rs: where the        *)
(* checker types every call, nothing reported dead can run except out of   *)
(* its own body.  It takes the                                             *)
(* graph, the overrides beside each edge, the closed world's walk over the *)
(* hierarchy and the names the graph cannot speak for together.            *)
DeadIsDead ==
  EveryCallIsTyped =>
    \A f \in Dead(Full) : ~ RunUnseen(f) /\ \A s \in sites : f \in MayRun(s) => s.in = f

(* dead.rs:566-650: what is reported as reached by tests alone is run by   *)
(* no production call, whatever the checker knows.                         *)
TestOnlyIsTestOnly ==
  \A f \in defs : Dead56(f) =>
    ~ RunUnseen(f) /\ \A s \in sites : f \in MayRun(s) => s.in = f \/ InTests(s.in)

(* effects.rs:1-5 "never claim clean": whatever a site may run, its        *)
(* function's summary holds that body's writes or says it does not know.   *)
(* It holds with the oracle and without it, and through the constructor    *)
(* walk and the self-call guess, which both pick a body Python may not.    *)
Rebound(f) == \E m \in {"stored", "dynamic-access", "unknown-decorator"} : Marked(f, m)
EffectsAreSound ==
  \A g \in {Full, Degraded} : \A s \in sites : \A f \in MayRun(s) :
    LET e == Effects(g, s.in) IN e.unknown \/ (f \in e.atoms /\ ~ Rebound(f))

(* hotness.rs:330-336: a degraded run's hot set is within its oracle       *)
(* twin's.                                                                 *)
DegradedHotIsASubset == Hot(Degraded, TRUE) \subseteq Hot(Full, FALSE)

(* callgraph.rs:202 "A guess counts against the claim, which is what keeps *)
(* a degraded run a subset".  Where #60 reports without an oracle what it  *)
(* does not with one, the oracle found the caller behind a chain, at a     *)
(* site hierarchy analysis has no guess for and a name another def shares. *)
GuessesCountAgainst ==
  \A f \in defs : Dead60(Degraded, f) /\ ~ Dead60(Full, f) =>
    /\ Homes(f[2]) # {f}
    /\ \E s \in sites : s.how = "chain" /\ s.typed /\ s.name = f[2]
=============================================================================
