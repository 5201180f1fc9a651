--------------------------------- MODULE Gates ---------------------------------
(***************************************************************************)
(* The two gates of crates/sightline/src/verbs/gate.rs over a git work     *)
(* tree that is edited, staged, committed and reconfigured: the fast gate  *)
(* reads the files a change touched (core/src/git.rs, changed_files), the  *)
(* full gate the tree (pipeline.rs, collect).                              *)
(*                                                                         *)
(* A text is what a file holds; what a rule of file scope finds in it is   *)
(* data (Raises).  The rules of repo scope are represented by one that     *)
(* fires where two files of a language hold one text.  Every finding is in *)
(* its module's own scope, whose baseline entry no other key can claim:    *)
(* Ratchet has the entries that move.                                      *)
(***************************************************************************)
EXTENDS Naturals, FiniteSets

CONSTANTS
  File,
  LangOf,      \* LangOf[f]: the language whose suffix f spells
  Root,        \* the files below the audited root
  AtTop,       \* the root is the top of its git repository
  Ignored,     \* the files .gitignore hides
  Text,        \* what a file can hold
  Gone,        \* ... and that it is not there
  Broken,      \* the texts that do not parse
  Id,
  Raises,      \* Raises[t][i]: the findings of id i a text holds, marked ones aside
  Readings,    \* the registry: [id, lang, scope, posture]
  Configs,     \* the configs: [off, overrides, excludes]
  MaxSteps     \* bound: steps of a behaviour

ASSUME GatesAssumption ==
  /\ LangOf \in [File -> {"py", "rs"}]
  /\ Root \subseteq File /\ Ignored \subseteq File
  /\ AtTop \in BOOLEAN
  /\ Gone \notin Text /\ Broken \subseteq Text
  /\ Raises \in [Text -> [Id -> Nat]]
  /\ Readings \subseteq [id : Id, lang : {"py", "rs"}, scope : {"file", "repo"},
                         posture : {"gate", "ratchet", "report"}]
  /\ \A p, q \in Readings : p.id = q.id /\ p.lang = q.lang => p = q
  /\ Configs \subseteq [off : SUBSET Id, overrides : SUBSET (Id \X File), excludes : SUBSET File]
  /\ MaxSteps \in Nat

VARIABLES
  base,       \* the commit a branch left the trunk at
  head,       \* HEAD
  index,      \* what is staged
  work,       \* the work tree
  settings,   \* [off, overrides, excludes, manifests, allow]: config, manifests, baseline
  agreed,     \* the settings of the base commit
  steps

vars == <<base, head, index, work, settings, agreed, steps>>

Tree == [File -> Text \union {Gone}]
Key == Id \X File
NoBaseline == [k \in {} |-> 0]

-----------------------------------------------------------------------------
\* The walk: the files below the root that no config entry excludes.
Listed(tree, s) == {f \in Root : tree[f] # Gone /\ f \notin s.excludes}

Presence(tree, s, lang) ==
  IF lang \in s.manifests THEN "marked"
  ELSE IF lang = "py" /\ \E f \in Root : LangOf[f] = "py" /\ tree[f] # Gone THEN "loose"
  ELSE "absent"

WithPresence(tree, s, p) == {lang \in {"py", "rs"} : Presence(tree, s, lang) = p}

\* The languages a root runs: the marked ones, else the loose ones, else the first.
Detected(tree, s) ==
  IF WithPresence(tree, s, "marked") # {} THEN WithPresence(tree, s, "marked")
  ELSE IF WithPresence(tree, s, "loose") # {} THEN WithPresence(tree, s, "loose")
  ELSE {"py"}

\* Mutant of FastOff: an id that another language reads otherwise is off here too.
FastOffShared(s, lang) ==
  {p.id : p \in {q \in Readings :
                   ~(q.lang = lang /\ q.scope = "file" /\ q.posture # "report" /\ q.id \notin s.off)}}

\* Everything but the language's own file-scoped blockers is off in its run.
FastOff(s, lang) ==
  {p.id : p \in Readings}
    \ {p.id : p \in {q \in Readings : q.lang = lang /\ q.scope = "file"
                                        /\ q.posture # "report" /\ q.id \notin s.off}}

\* `suppress`: the overrides of the config; the markers are already out of Raises.
Kept(s, i, f) == <<i, f>> \notin s.overrides

\* The texts of one language that two of the parsed files share.
Copies(tree, fs, f) == {g \in fs \ {f} : tree[g] = tree[f] /\ LangOf[g] = LangOf[f]}

\* How often a reading fires in f where the files fs are the ones built.
Fires(tree, fs, p, f) ==
  IF LangOf[f] # p.lang \/ tree[f] \in Broken THEN 0
  ELSE IF p.scope = "file" THEN Raises[tree[f]][p.id]
  ELSE IF Copies(tree, fs, f) # {} THEN 1 ELSE 0

\* The readings that run and the files fs they are kept in; off[lang]: the ids off in
\* the run of lang.
Runs(tree, s, fs, off) ==
  {r \in Readings \X fs :
     /\ r[1].lang \in Detected(tree, s) /\ r[1].id \notin off[r[1].lang]
     /\ Kept(s, r[1].id, r[2])}

Allowance(s, k) == IF k \in DOMAIN s.allow THEN s.allow[k] ELSE 0

\* Mutant of Blocks: the baseline is read as a set of keys and not as counts.
BlocksUnseen(s, p, f, n) ==
  /\ n > 0 /\ p.posture # "report"
  /\ p.posture = "ratchet" => <<p.id, f>> \notin DOMAIN s.allow

\* GATE blocks wherever it ran, RATCHET what the baseline does not hold.
Blocks(s, p, f, n) ==
  \/ p.posture = "gate" /\ n > 0
  \/ p.posture = "ratchet" /\ n > Allowance(s, <<p.id, f>>)

\* The keys a gate over the files fs blocks on.
Blockers(tree, s, fs, off) ==
  {<<r[1].id, r[2]>> : r \in {q \in Runs(tree, s, fs, off) :
                                Blocks(s, q[1], q[2], Fires(tree, fs, q[1], q[2]))}}

-----------------------------------------------------------------------------
\* `git diff --name-only HEAD`, and the same against the merge base: tracked files.
Spelled(since) ==
  {f \in File : index[f] # Gone /\ work[f] # head[f]}
    \union {f \in File : index[f] = Gone /\ head[f] # Gone}
    \union (IF since THEN {f \in File : base[f] # head[f]} ELSE {})

\* Mutant of Untracked: the diff against HEAD is all that is asked.
UntrackedUnseen == {}

\* `git ls-files --others --exclude-standard`, run in the root.
Untracked == {f \in Root \ Ignored : index[f] = Gone /\ work[f] # Gone}

\* changed_files, and what of it `run_fast` finds below the root: a diff spells its
\* files from the top of the repository, and they are looked up from the root.
Changed(since) == (IF AtTop THEN Spelled(since) ELSE {}) \union Untracked

\* Mutant of Checked: a changed file is read though the config excludes it.
CheckedAnyway(files, s) ==
  {f \in files \intersect Root : work[f] # Gone /\ LangOf[f] \in Detected(work, s)}

\* The changed files that are built: listed, and of a language the tree runs.
Checked(files, s) ==
  {f \in files \intersect Listed(work, s) : LangOf[f] \in Detected(work, s)}

FastBlockers(files, s) ==
  Blockers(work, s, Checked(files, s), [lang \in {"py", "rs"} |-> FastOff(s, lang)])

\* Only a Python file that does not parse is a verdict on the edit.
Unparsable(files, s) ==
  {f \in Checked(files, s) : LangOf[f] = "py" /\ work[f] \in Broken}

FastPasses(files, s) == FastBlockers(files, s) = {} /\ Unparsable(files, s) = {}

FullBlockersOf(tree, s) ==
  Blockers(tree, s, Listed(tree, s), [lang \in {"py", "rs"} |-> s.off])

FullBlockers == FullBlockersOf(work, settings)

-----------------------------------------------------------------------------
\* `baseline`: the RATCHET findings of the whole tree.
Snapshot(tree, s) ==
  LET fs == Listed(tree, s)
      ratcheted == {r \in Runs(tree, s, fs, [lang \in {"py", "rs"} |-> s.off]) :
                      r[1].posture = "ratchet" /\ Fires(tree, fs, r[1], r[2]) > 0}
  IN  [k \in {<<r[1].id, r[2]>> : r \in ratcheted} |->
         LET r == CHOOSE q \in ratcheted : k = <<q[1].id, q[2]>>
         IN  Fires(tree, fs, r[1], r[2])]

\* A clean checkout of a green trunk, nothing configured, with a baseline of it
\* or none.
Init ==
  /\ base \in Tree /\ \A f \in Ignored : base[f] = Gone
  /\ head = base /\ index = base /\ work = base
  /\ \E m \in SUBSET {"py", "rs"} :
       LET s == [off |-> {}, overrides |-> {}, excludes |-> {}, manifests |-> m,
                 allow |-> NoBaseline]
       IN  settings \in {s, [s EXCEPT !.allow = Snapshot(base, s)]}
  /\ FullBlockersOf(base, settings) = {}
  /\ agreed = settings
  /\ steps = 0

Step == steps < MaxSteps /\ steps' = steps + 1

\* An editor writes a file, or removes it.
Write(f) ==
  /\ Step
  /\ \E t \in (Text \union {Gone}) \ {work[f]} : work' = [work EXCEPT ![f] = t]
  /\ UNCHANGED <<base, head, index, settings, agreed>>

\* `git add f`, `git rm --cached f`.
Add(f) ==
  /\ Step
  /\ f \in Ignored => index[f] # Gone
  /\ index[f] # work[f]
  /\ index' = [index EXCEPT ![f] = work[f]]
  /\ UNCHANGED <<base, head, work, settings, agreed>>

Untrack(f) ==
  /\ Step
  /\ index[f] # Gone
  /\ index' = [index EXCEPT ![f] = Gone]
  /\ UNCHANGED <<base, head, work, settings, agreed>>

Commit ==
  /\ Step
  /\ head # index
  /\ head' = index
  /\ UNCHANGED <<base, index, work, settings, agreed>>

\* Another config, or another set of manifests.
Configure ==
  /\ Step
  /\ settings' \in {[off |-> c.off, overrides |-> c.overrides, excludes |-> c.excludes,
                      manifests |-> settings.manifests, allow |-> settings.allow] : c \in Configs}
                     \union {[settings EXCEPT !.manifests = m] : m \in SUBSET {"py", "rs"}}
  /\ settings' # settings
  /\ UNCHANGED <<base, head, index, work, agreed>>

\* `sightline baseline`, to its end.
Baseline ==
  /\ Step
  /\ settings' = [settings EXCEPT !.allow = Snapshot(work, settings)]
  /\ UNCHANGED <<base, head, index, work, agreed>>

\* The baseline gains a line of another branch, or of a release that read a rule otherwise.
Inherit ==
  /\ Step
  /\ \E k \in Key \ DOMAIN settings.allow :
       settings' = [settings EXCEPT !.allow =
                      [j \in {k} \union DOMAIN @ |-> IF j = k THEN 1 ELSE @[j]]]
  /\ UNCHANGED <<base, head, index, work, agreed>>

Next ==
  \/ \E f \in File : Write(f) \/ Add(f) \/ Untrack(f)
  \/ Commit
  \/ Configure
  \/ Baseline
  \/ Inherit

Spec == Init /\ [][Next]_vars
-----------------------------------------------------------------------------
\* The postures a key's reading can have.
FileRule(k) ==
  \E p \in Readings : p.id = k[1] /\ p.lang = LangOf[k[2]] /\ p.scope = "file"

\* What a baseline may be: counts of some keys, none of them zero.
IsBaseline(allow) == DOMAIN allow \subseteq Key /\ allow \in [DOMAIN allow -> Nat \ {0}]

TypeOK ==
  /\ {base, head, index, work} \subseteq Tree
  /\ \A s \in {settings, agreed} :
       /\ s \in [off : SUBSET Id, overrides : SUBSET Key, excludes : SUBSET File,
                 manifests : SUBSET {"py", "rs"}, allow : {s.allow}]
       /\ IsBaseline(s.allow)

\* docs/reference.md:133, "the fast gate therefore reports a subset of `--full`": whatever
\* files it is given, what it blocks the full gate blocks over the same tree, config and
\* baseline, although it builds other files and switches other rules off.
FastWithinFull ==
  \A files \in SUBSET File : FastBlockers(files, settings) \subseteq FullBlockers

\* gate.rs:2-4: what the fast gate leaves to the full one is the rules of repo scope.  On
\* a branch that left a green trunk, whatever was written, staged, committed or untracked
\* since, and with the trunk's settings and nothing ignored in the way, a fast gate
\* `--since` the trunk that passes leaves the full gate no file-scope finding to block on.
BranchIsCovered ==
  /\ AtTop
  /\ settings = agreed
  /\ FullBlockersOf(base, agreed) = {}
  /\ \A f \in Ignored : work[f] = base[f]
  /\ FastPasses(Changed(TRUE), settings)
  => \A k \in FullBlockers : ~FileRule(k)

\* How often a reading fired in a file of the trunk.
OnTrunk(p, f) ==
  LET fs == Listed(base, agreed)
  IN  IF f \in fs THEN Fires(base, fs, p, f) ELSE 0

\* docs/reference.md:119-121, "a tree with a committed baseline blocks only on what a
\* change adds", and gate.rs:80-81, both ways over any edits of the work tree and the index.
\* Whatever config and manifests a gate reads, under the trunk's baseline, more findings of
\* a blocking rule that is on than the file had on the trunk block the full gate, and those
\* of a file rule every fast gate that is given the file.  And with the trunk's settings, in
\* a language the trunk ran, the full gate blocks on nothing else.
BlocksWhatIsAdded ==
  LET full == FullBlockers
      green == FullBlockersOf(base, agreed) = {}
  IN  \A f \in Checked(File, settings), p \in Readings :
        LET key == <<p.id, f>>
            added == Fires(work, Listed(work, settings), p, f) > OnTrunk(p, f)
        IN  /\ /\ settings.allow = agreed.allow
               /\ p.posture # "report" /\ p.id \notin settings.off /\ Kept(settings, p.id, f)
               /\ added
               => /\ key \in full
                  /\ p.scope = "file" =>
                       \A files \in SUBSET File : f \in files => key \in FastBlockers(files, settings)
            /\ /\ settings = agreed /\ green
               /\ p.lang = LangOf[f] /\ p.lang \in Detected(base, agreed)
               /\ key \in full
               => added

\* docs/reference.md:43, "The default is the working-tree diff against HEAD": every file of
\* a running language that the tree lists and that differs from HEAD is checked.
DiffIsGated ==
  \A f \in Listed(work, settings) \ Ignored :
    work[f] # head[f] /\ LangOf[f] \in Detected(work, settings) =>
      f \in Checked(Changed(FALSE), settings)
================================================================================
