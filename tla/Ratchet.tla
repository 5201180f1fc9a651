------------------------------- MODULE Ratchet -------------------------------
(***************************************************************************)
(* The baseline ratchet of crates/core/src/ratchet.rs, the verbs that      *)
(* write and prune it (`baseline`) and the two gates that read it, over    *)
(* the life of a tree: symbols are edited, renamed and deleted, the file   *)
(* is saved, merged, or left half written by a crash.                      *)
(*                                                                         *)
(* A key is <<rule, symbol>>; both are numbered in the order of their      *)
(* names, so a saved file holds its keys in that order.  The order in      *)
(* which rules emit findings is left open.                                 *)
(***************************************************************************)
EXTENDS Naturals, FiniteSets

CONSTANTS
  Symbol,     \* the qualified names, numbered in name order
  Module,     \* those that name a module: their findings have no shape
  File,
  FileOf,     \* FileOf[s]: the file a qualified name is in
  Rule,       \* the rules of RATCHET posture, numbered too
  FileScope,  \* those that read one file, which the fast gate runs
  Shape,      \* the digests of a body
  NoShape,    \* an entry without one
  Gone,       \* the body of a symbol that is not in the tree
  NoFile,     \* no baseline file there
  NoKey,      \* what a line without a key and a count reads as
  MaxFound,   \* bound: findings of one rule in one symbol
  MaxEdits    \* bound: edits and merges of a behaviour

ASSUME RatchetAssumption ==
  /\ Symbol \subseteq Nat /\ IsFiniteSet(Symbol) /\ Module \subseteq Symbol
  /\ FileOf \in [Symbol -> File]
  /\ Rule \subseteq Nat /\ IsFiniteSet(Rule) /\ FileScope \subseteq Rule
  /\ NoShape \notin Shape /\ Gone \notin Shape \union {NoShape}
  /\ MaxFound \in Nat /\ MaxEdits \in Nat

VARIABLES
  body,     \* body[s]: the body of s with its name and layout blanked
  found,    \* found[k]: the unsuppressed findings of key k in the tree
  file,     \* .sightline-baseline, or NoFile
  legacy,   \* .sightline-baseline.json: the counts it holds, or NoFile
  saving,   \* the verb whose save is under way, "none" when no one is writing
  target,   \* the counts that save writes
  since,    \* how the tree differs from the one the file describes
  blessed,  \* blessed[r]: findings of r the last `baseline` or merge accepted
  edits     \* edits and merges so far

vars == <<body, found, file, legacy, saving, target, since, blessed, edits>>
tree == <<body, found>>
disk == <<file, legacy>>

Key == Rule \X Symbol

Entry == [count : 0 .. MaxFound, shape : Shape \union {NoShape}]

-----------------------------------------------------------------------------
\* The shape of a key's symbol; a module-scope finding has none.
ShapeOf(k) == IF k[2] \in Module THEN NoShape ELSE body[k[2]]

\* The keys with a finding of the rules in rs in the files fs.
Groups(rs, fs) == {k \in Key : found[k] > 0 /\ k[1] \in rs /\ FileOf[k[2]] \in fs}

AllGroups == Groups(Rule, File)

Snapshot == [k \in AllGroups |-> [count |-> found[k], shape |-> ShapeOf(k)]]

Lower(m, n) == IF m < n THEN m ELSE n

Prune(counts) ==
  [k \in DOMAIN counts \intersect AllGroups |->
     [count |-> Lower(counts[k].count, found[k]), shape |-> ShapeOf(k)]]

\* A line is one key's entry, or one a crash cut before its count.
Lines(counts) ==
  {[key |-> k, count |-> counts[k].count, shape |-> counts[k].shape] : k \in DOMAIN counts}

NoCounts == [k \in {} |-> k]

CutBefore == [key |-> NoKey, count |-> 0, shape |-> NoShape]

Line ==
  [key : Key, count : 0 .. MaxFound, shape : Shape \union {NoShape}] \union {CutBefore}

\* A file, by its lines.
Text == [lines : SUBSET Line]

ASSUME SentinelAssumption ==
  /\ NoKey \notin Key
  /\ NoFile \notin Text
  /\ \A keys \in SUBSET Key : NoFile \notin [keys -> Entry]

\* A line a merge duplicated keeps the larger count.
Parsed(lines) ==
  [k \in {l.key : l \in lines} |->
     LET best == CHOOSE l \in lines :
                   l.key = k /\ \A m \in lines : m.key = k => m.count <= l.count
     IN  [count |-> best.count, shape |-> best.shape]]

\* `load` fails on a line it cannot parse, and every verb with it.
Loadable == file # NoFile => CutBefore \notin file.lines

\* What `load` answers; NoFile where there is neither file.
Loaded == IF file # NoFile THEN Parsed(file.lines) ELSE legacy

\* The allowances a gate reads: a tree without a baseline has none.
Allowed == IF Loaded = NoFile THEN NoCounts ELSE Loaded

-----------------------------------------------------------------------------
(***************************************************************************)
(* `diff`: a group whose key is in the baseline has that entry's count; of *)
(* the rest, each in turn claims the first entry of its rule with its      *)
(* shape that no group owns or has claimed.  So the n-th of the unknown    *)
(* groups a shape has, in the order o their findings come in, gets the     *)
(* n-th free entry of that shape.                                          *)
(***************************************************************************)
Orders == {o \in [Symbol -> 1 .. Cardinality(Symbol)] :
             \A s, t \in Symbol : o[s] = o[t] => s = t}

Matches(counts, k, e) ==
  /\ e[1] = k[1]
  /\ counts[e].shape # NoShape
  /\ counts[e].shape = ShapeOf(k)

\* Mutant of Free: only entries of the files that were audited.
FreeInAudited(counts, groups, k) ==
  {e \in DOMAIN counts \ groups :
     Matches(counts, k, e) /\ \E g \in groups : FileOf[g[2]] = FileOf[e[2]]}

Free(counts, groups, k) == {e \in DOMAIN counts \ groups : Matches(counts, k, e)}

\* Mutant of Ahead: a group with a key of its own takes an entry as well.
AheadOfAll(counts, groups, o, k) ==
  {l \in groups : l[1] = k[1] /\ ShapeOf(l) = ShapeOf(k) /\ o[l[2]] < o[k[2]]}

Ahead(counts, groups, o, k) ==
  {l \in groups \ DOMAIN counts :
     l[1] = k[1] /\ ShapeOf(l) = ShapeOf(k) /\ o[l[2]] < o[k[2]]}

\* Mutant of Claimed: an entry can be claimed again.
ClaimedAgain(counts, groups, o, k) ==
  {e \in Free(counts, groups, k) : \A f \in Free(counts, groups, k) : e[2] <= f[2]}

\* The entry k claims, as a set: empty where every match is taken.
Claimed(counts, groups, o, k) ==
  {e \in Free(counts, groups, k) :
     Cardinality({f \in Free(counts, groups, k) : f[2] < e[2]})
       = Cardinality(Ahead(counts, groups, o, k))}

Budget(counts, groups, o, k) ==
  IF k \in DOMAIN counts THEN counts[k].count
  ELSE IF Claimed(counts, groups, o, k) = {} THEN 0
  ELSE counts[CHOOSE e \in Claimed(counts, groups, o, k) : TRUE].count

\* The findings of group k a gate blocks on.
Excess(counts, groups, o, k) ==
  found[k] - Lower(Budget(counts, groups, o, k), found[k])

Blocked(groups, o) == {k \in groups : Excess(Allowed, groups, o, k) > 0}

\* `gate --full` exits 0 on the ratchet's side.
Passes(o) == Loadable /\ Blocked(AllGroups, o) = {}

Green == \A o \in Orders : Passes(o)

-----------------------------------------------------------------------------
\* What the entries of rule r allow and what the tree holds of it, finding by finding.
Allowances(counts, r) ==
  UNION {{k} \X (1 .. counts[k].count) : k \in {e \in DOMAIN counts : e[1] = r}}

Findings(r) == UNION {{<<r, s>>} \X (1 .. found[<<r, s>>]) : s \in Symbol}

Total(counts, r) == Cardinality(Allowances(counts, r))

Debt(r) == Cardinality(Findings(r))

\* A tree, and either no baseline or the one an earlier release wrote for it.
Init ==
  /\ body \in [Symbol -> Shape \union {Gone}]
  /\ found \in {f \in [Key -> 0 .. MaxFound] : \A k \in Key : body[k[2]] = Gone => f[k] = 0}
  /\ file = NoFile
  /\ legacy \in {NoFile, [k \in AllGroups |-> [count |-> found[k], shape |-> NoShape]]}
  /\ saving = "none"
  /\ target = NoCounts
  /\ since = "edited"
  /\ blessed = [r \in Rule |-> Debt(r)]
  /\ edits = 0

\* A developer gives a symbol another body or other findings, or deletes it.
Edit(s) ==
  /\ edits < MaxEdits /\ edits' = edits + 1
  /\ \E b \in Shape \union {Gone} : body' = [body EXCEPT ![s] = b]
  /\ \E f \in [Rule -> 0 .. MaxFound] :
       /\ body'[s] = Gone => \A r \in Rule : f[r] = 0
       /\ found' = [k \in Key |-> IF k[2] = s THEN f[k[1]] ELSE found[k]]
  /\ since' = "edited"
  /\ UNCHANGED <<disk, saving, target, blessed>>

\* The names the file holds, or will once the save under way ends.
Held == {k[2] : k \in DOMAIN target \union (IF Loadable THEN DOMAIN Allowed ELSE {})}

\* ... or renames it, or moves it to another file, its body the same.
Rename(s, t) ==
  /\ {s, t} \intersect Module = {}
  /\ body[s] # Gone /\ body[t] = Gone
  /\ body' = [body EXCEPT ![s] = Gone, ![t] = body[s]]
  /\ found' = [k \in Key |->
       IF k[2] = t THEN found[<<k[1], s>>] ELSE IF k[2] = s THEN 0 ELSE found[k]]
  /\ since' = IF t \in Held THEN "edited" ELSE since
  /\ UNCHANGED <<disk, saving, target, blessed, edits>>

\* `sightline baseline`: the counts of the tree; opening the file empties it.
Baseline ==
  /\ saving = "none" /\ Loadable
  /\ saving' = "baseline"
  /\ target' = Snapshot
  /\ file' = [lines |-> {}]
  /\ blessed' = [r \in Rule |-> Debt(r)]
  /\ since' = "blessed"
  /\ UNCHANGED <<tree, legacy, edits>>

\* `sightline baseline --prune`.  The tree stays described only where the gate was green,
\* and only under the names the file has where every finding had its own key.
BaselinePrune ==
  /\ saving = "none" /\ Loadable /\ Loaded # NoFile
  /\ saving' = "prune"
  /\ target' = Prune(Loaded)
  /\ file' = [lines |-> {}]
  /\ since' = IF ~Green THEN "edited"
              ELSE IF AllGroups \subseteq DOMAIN Loaded THEN "blessed"
              ELSE "pruned"
  /\ UNCHANGED <<tree, legacy, blessed, edits>>

\* The write ends; then the legacy file, where there is one, is removed.
Written ==
  /\ saving \in {"baseline", "prune"}
  /\ file' = [lines |-> Lines(target)]
  /\ saving' = IF legacy = NoFile THEN "none" ELSE "legacy"
  /\ target' = NoCounts
  /\ UNCHANGED <<tree, legacy, since, blessed, edits>>

RemoveLegacy ==
  /\ saving = "legacy"
  /\ legacy' = NoFile
  /\ saving' = "none"
  /\ UNCHANGED <<tree, file, target, since, blessed, edits>>

\* The process dies in the write, and the file keeps the lines that come before some
\* key and what was written of that key's own: nothing, too little to parse, or the
\* line without its shape or the last digits of its count.  Or it dies before the
\* legacy file is gone.
Precedes(k, l) == k[1] < l[1] \/ (k[1] = l[1] /\ k[2] < l[2])

CutLines(k) ==
  {{}, {CutBefore}}
  \union {{[key |-> k, count |-> n, shape |-> NoShape]} : n \in 1 .. target[k].count}

Crash ==
  /\ saving # "none"
  /\ IF saving = "legacy" THEN UNCHANGED <<file, since>>
     ELSE /\ \E last \in DOMAIN target :
               \E cut \in CutLines(last) :
                 file' = [lines |-> {l \in Lines(target) : Precedes(l.key, last)} \union cut]
          /\ since' = "edited"
  /\ saving' = "none"
  /\ target' = NoCounts
  /\ UNCHANGED <<tree, legacy, blessed, edits>>

\* The developer removes a file no verb can read any more.
RemoveFile ==
  /\ saving = "none" /\ ~Loadable
  /\ file' = NoFile
  /\ since' = "edited"
  /\ blessed' = [r \in Rule |-> IF legacy = NoFile THEN 0 ELSE Total(legacy, r)]
  /\ UNCHANGED <<tree, legacy, saving, target, edits>>

\* A union merge with a branch that changed a line this one changed too keeps both.
UnionMerge ==
  /\ edits < MaxEdits /\ edits' = edits + 1
  /\ saving = "none" /\ file # NoFile /\ Loadable
  /\ \E l \in file.lines : \E n \in (1 .. MaxFound) \ {l.count} : \E b \in Shape \union {NoShape} :
       /\ \A m \in file.lines : m.key = l.key => m = l
       /\ file' = [lines |-> file.lines \union {[key |-> l.key, count |-> n, shape |-> b]}]
  /\ since' = "edited"
  /\ blessed' = [r \in Rule |-> Total(Parsed(file'.lines), r)]
  /\ UNCHANGED <<tree, legacy, saving, target>>

Next ==
  \/ \E s \in Symbol : Edit(s)
  \/ \E s, t \in Symbol : Rename(s, t)
  \/ Baseline
  \/ BaselinePrune
  \/ Written
  \/ RemoveLegacy
  \/ Crash
  \/ RemoveFile
  \/ UnionMerge

Spec == Init /\ [][Next]_vars
-----------------------------------------------------------------------------
Described == saving \in {"none", "legacy"} /\ Loadable

\* A finding count that follows from the body: entries of one rule and shape agree.
Uniform(counts) ==
  \A k, l \in DOMAIN counts :
    k[1] = l[1] /\ counts[k].shape = counts[l].shape /\ counts[k].shape # NoShape =>
      counts[k].count = counts[l].count

\* ratchet.rs:4-8, "the ratchet blocks what a change adds and not what it moves": after
\* `baseline`, or `--prune` with each finding under its own key, symbols renamed to
\* names the file does not hold leave every gate green, in any order of the findings.
MovesAreFree ==
  (since = "blessed" /\ Described /\ Uniform(Allowed)) => Green

\* "Counts only decrease per key": whatever was moved, pruned, half written or crashed
\* since, a tree that passes the full gate in some order of its findings holds no more
\* findings of a rule than the last `baseline` or merge accepted.
DebtNeverGrows ==
  \A o \in Orders : Passes(o) => \A r \in Rule : Debt(r) <= blessed[r]

FastGroups(fs) == Groups(FileScope, fs)

\* docs/reference.md:133, "the fast gate therefore reports a subset of `--full`", for
\* every set of changed files and where entries of one shape agree.
FastReportsSubset ==
  (Loadable /\ Uniform(Allowed)) =>
    \A fs \in SUBSET File, o \in Orders : \A k \in FastGroups(fs) :
      Excess(Allowed, FastGroups(fs), o, k) <= Excess(Allowed, AllGroups, o, k)
=============================================================================
