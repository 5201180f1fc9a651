---------------------------- MODULE GatesProofs ----------------------------
(***************************************************************************)
(* The two gates agree in every state of the work tree, for any files,     *)
(* registry, config and baseline.  What a gate does follows from the       *)
(* trees, the index and the settings it finds; of the steps that led there *)
(* the invariants need only that a baseline allows what its trunk held.    *)
(***************************************************************************)
EXTENDS Gates, TLAPS

\* What blocks a gate over the files fs: a reading that runs in one of them.
Blocked(tree, s, fs, off, p, f) ==
  /\ p \in Readings /\ f \in fs
  /\ p.lang \in Detected(tree, s) /\ p.id \notin off[p.lang] /\ Kept(s, p.id, f)
  /\ Blocks(s, p, f, Fires(tree, fs, p, f))

LEMMA BlockersAre ==
  ASSUME NEW tree, NEW s, NEW fs, NEW off
  PROVE  Blockers(tree, s, fs, off)
           = {<<r[1].id, r[2]>> : r \in {q \in Readings \X fs : Blocked(tree, s, fs, off, q[1], q[2])}}
<1> HIDE DEF Blocks, Fires, Detected, Kept
<1>1. \A q : q \in Runs(tree, s, fs, off) /\ Blocks(s, q[1], q[2], Fires(tree, fs, q[1], q[2]))
          <=> q \in Readings \X fs /\ Blocked(tree, s, fs, off, q[1], q[2])
  <2>1. \A q \in Readings \X fs : q = <<q[1], q[2]>> /\ q[1] \in Readings /\ q[2] \in fs
    OBVIOUS
  <2> QED
    BY <2>1 DEF Runs, Blocked
<1> QED
  BY <1>1 DEF Blockers

LEMMA BlockedBlocks ==
  ASSUME NEW tree, NEW s, NEW fs, NEW off, NEW p, NEW f, Blocked(tree, s, fs, off, p, f)
  PROVE  <<p.id, f>> \in Blockers(tree, s, fs, off)
<1>1. <<p, f>> \in Readings \X fs /\ <<p, f>>[1] = p /\ <<p, f>>[2] = f
  BY DEF Blocked
<1> QED
  BY <1>1, BlockersAre

LEMMA BlockersBlock ==
  ASSUME NEW tree, NEW s, NEW fs, NEW off, NEW k \in Blockers(tree, s, fs, off)
  PROVE  \E p \in Readings, f \in fs : k = <<p.id, f>> /\ Blocked(tree, s, fs, off, p, f)
<1> HIDE DEF Blocked
<1>1. PICK r \in Readings \X fs : k = <<r[1].id, r[2]>> /\ Blocked(tree, s, fs, off, r[1], r[2])
  BY BlockersAre
<1>2. r[1] \in Readings /\ r[2] \in fs
  OBVIOUS
<1> QED
  BY <1>1, <1>2

\* A rule of file scope fires by the text of its own file alone.
LEMMA FiresAlike ==
  ASSUME NEW t1, NEW t2, NEW fs1, NEW fs2, NEW p, NEW f, p.scope = "file", t1[f] = t2[f]
  PROVE  Fires(t1, fs1, p, f) = Fires(t2, fs2, p, f)
BY DEF Fires

\* The fast gate runs a language's own file-scoped blockers, and nothing else.
LEMMA FastRuns ==
  ASSUME NEW s, NEW p \in Readings
  PROVE  p.id \notin FastOff(s, p.lang)
           <=> p.scope = "file" /\ p.posture # "report" /\ p.id \notin s.off
<1>1. \A q \in Readings : q.id = p.id /\ q.lang = p.lang => q = p
  BY GatesAssumption
<1> QED
  BY <1>1 DEF FastOff

LEMMA LanguageOfReading ==
  ASSUME NEW p \in Readings
  PROVE  p.lang \in {"py", "rs"}
BY GatesAssumption

FastOffs(s) == [lang \in {"py", "rs"} |-> FastOff(s, lang)]
Offs(s)     == [lang \in {"py", "rs"} |-> s.off]

\* What blocks the fast gate over its files blocks the full one, where a file holds in
\* both what it holds here.
LEMMA FastBlocksFull ==
  ASSUME NEW s, NEW tree, NEW fs, NEW p, NEW f,
         fs \subseteq Listed(tree, s),
         Blocked(tree, s, fs, FastOffs(s), p, f)
  PROVE  Blocked(tree, s, Listed(tree, s), Offs(s), p, f)
<1>1. p \in Readings /\ f \in fs /\ p.lang \in {"py", "rs"}
  BY LanguageOfReading DEF Blocked
<1>2. p.scope = "file" /\ p.id \notin s.off
  BY <1>1, FastRuns DEF Blocked, FastOffs
<1>3. Fires(tree, fs, p, f) = Fires(tree, Listed(tree, s), p, f)
  BY <1>2, FiresAlike
<1> QED
  BY <1>1, <1>2, <1>3 DEF Blocked, Offs

\* Whatever files it is given, the fast gate blocks on nothing the full one lets pass.
THEOREM FastIsASubset == Spec => []FastWithinFull
<1>1. FastWithinFull
  <2> SUFFICES ASSUME NEW files \in SUBSET File, NEW k \in FastBlockers(files, settings)
               PROVE  k \in FullBlockers
    BY DEF FastWithinFull
  <2> DEFINE fs == Checked(files, settings)
             all == Listed(work, settings)
  <2>1. fs \subseteq all
    BY DEF Checked
  <2> HIDE DEF fs, all
  <2>2. PICK p \in Readings, f \in fs :
          k = <<p.id, f>> /\ Blocked(work, settings, fs, FastOffs(settings), p, f)
    BY BlockersBlock DEF FastBlockers, FastOffs, fs
  <2>3. Blocked(work, settings, all, Offs(settings), p, f)
    BY <2>1, <2>2, FastBlocksFull DEF all
  <2>4. k \in Blockers(work, settings, all, Offs(settings))
    BY <2>2, <2>3, BlockedBlocks
  <2> QED
    BY <2>4 DEF FullBlockers, FullBlockersOf, Offs, all
<1> QED
  BY <1>1, PTL

-----------------------------------------------------------------------------
\* A baseline holds no count of zero, so what blocks fired.
LEMMA AllowanceIsNat ==
  ASSUME NEW s, IsBaseline(s.allow), NEW k
  PROVE  Allowance(s, k) \in Nat
BY DEF IsBaseline, Allowance

LEMMA BlockingFires ==
  ASSUME NEW tree, NEW s, NEW fs, NEW off, NEW p, NEW f,
         IsBaseline(s.allow), Blocked(tree, s, fs, off, p, f)
  PROVE  LangOf[f] = p.lang /\ p.posture # "report"
<1>1. Allowance(s, <<p.id, f>>) \in Nat
  BY AllowanceIsNat
<1>2. LangOf[f] # p.lang => Fires(tree, fs, p, f) = 0
  BY DEF Fires
<1> QED
  BY <1>1, <1>2 DEF Blocked, Blocks

\* What `baseline` writes of a tree is a baseline.
LEMMA SnapshotIsBaseline ==
  ASSUME NEW tree \in Tree, NEW s
  PROVE  IsBaseline(Snapshot(tree, s))
<1> DEFINE fs == Listed(tree, s)
           ratcheted == {r \in Runs(tree, s, fs, [lang \in {"py", "rs"} |-> s.off]) :
                           r[1].posture = "ratchet" /\ Fires(tree, fs, r[1], r[2]) > 0}
           keys == {<<r[1].id, r[2]>> : r \in ratcheted}
           count(k) == Fires(tree, fs, (CHOOSE q \in ratcheted : k = <<q[1].id, q[2]>>)[1],
                                       (CHOOSE q \in ratcheted : k = <<q[1].id, q[2]>>)[2])
<1>1. Snapshot(tree, s) = [k \in keys |-> count(k)]
  BY DEF Snapshot
<1>2. \A r \in ratcheted : r[1] \in Readings /\ r[2] \in fs /\ Fires(tree, fs, r[1], r[2]) > 0
  BY DEF Runs
<1>3. fs \subseteq File /\ \A f \in fs : tree[f] \in Text
  BY GatesAssumption DEF Listed, Tree
<1>4. keys \subseteq Key
  BY <1>2, <1>3, GatesAssumption DEF Key
<1>5. \A p \in Readings, f \in fs : Fires(tree, fs, p, f) \in Nat
  <2> SUFFICES ASSUME NEW p \in Readings, NEW f \in fs PROVE Fires(tree, fs, p, f) \in Nat
    OBVIOUS
  <2>1. Raises[tree[f]][p.id] \in Nat
    BY <1>3, GatesAssumption
  <2> QED
    BY <2>1 DEF Fires
<1> HIDE DEF fs, ratcheted
<1>6. ASSUME NEW k \in keys PROVE count(k) \in Nat \ {0}
  <2>1. (CHOOSE q \in ratcheted : k = <<q[1].id, q[2]>>) \in ratcheted
    BY <1>6
  <2> QED
    BY <1>2, <1>5, <2>1
<1> HIDE DEF keys, count
<1>7. [k \in keys |-> count(k)] \in [keys -> Nat \ {0}]
  BY <1>6
<1> QED
  BY <1>1, <1>4, <1>7 DEF IsBaseline

\* Every tree is a tree, every baseline has counts.
LEMMA TypeCorrect == Spec => []TypeOK
<1>1. Init => TypeOK
  <2> SUFFICES ASSUME Init
               PROVE  TypeOK
    OBVIOUS
  <2>1. IsBaseline(NoBaseline)
    BY DEF NoBaseline, IsBaseline
  <2>2. base \in Tree
    BY DEF Init
  <2>3. PICK m \in SUBSET {"py", "rs"} :
          LET s == [off |-> {}, overrides |-> {}, excludes |-> {}, manifests |-> m,
                    allow |-> NoBaseline]
          IN  settings \in {s, [s EXCEPT !.allow = Snapshot(base, s)]}
    BY DEF Init
  <2>4. \A s : IsBaseline(Snapshot(base, s))
    BY <2>2, SnapshotIsBaseline
  <2>5. /\ settings \in [off : SUBSET Id, overrides : SUBSET Key, excludes : SUBSET File,
                         manifests : SUBSET {"py", "rs"}, allow : {settings.allow}]
        /\ IsBaseline(settings.allow)
    BY <2>1, <2>3, <2>4
  <2> QED
    BY <2>2, <2>5 DEF Init, TypeOK
<1>2. TypeOK /\ [Next]_vars => TypeOK'
  <2> SUFFICES ASSUME TypeOK, [Next]_vars
               PROVE  TypeOK'
    OBVIOUS
  <2>1. ASSUME NEW f \in File, Write(f) \/ Add(f) \/ Untrack(f) PROVE TypeOK'
    BY <2>1 DEF Write, Add, Untrack, TypeOK, Tree
  <2>2. CASE Commit
    BY <2>2 DEF Commit, TypeOK
  <2>3. CASE Configure
    <3>1. CASE \E m \in SUBSET {"py", "rs"} : settings' = [settings EXCEPT !.manifests = m]
      BY <2>3, <3>1 DEF Configure, TypeOK
    <3>2. ASSUME NEW c \in Configs,
                 settings' = [off |-> c.off, overrides |-> c.overrides, excludes |-> c.excludes,
                              manifests |-> settings.manifests, allow |-> settings.allow]
          PROVE  TypeOK'
      <4>1. c.off \subseteq Id /\ c.overrides \subseteq Key /\ c.excludes \subseteq File
        BY GatesAssumption DEF Key
      <4> QED
        BY <2>3, <3>2, <4>1 DEF Configure, TypeOK
    <3> QED
      BY <2>3, <3>1, <3>2 DEF Configure
  <2>4. CASE Baseline
    BY <2>4, SnapshotIsBaseline DEF Baseline, TypeOK
  <2>5. CASE Inherit
    <3> DEFINE Grown(k) == [j \in {k} \union DOMAIN settings.allow |->
                              IF j = k THEN 1 ELSE settings.allow[j]]
    <3>1. PICK k \in Key : settings' = [settings EXCEPT !.allow = Grown(k)]
      BY <2>5 DEF Inherit
    <3>2. IsBaseline(Grown(k))
      BY DEF TypeOK, IsBaseline
    <3> HIDE DEF Grown
    <3> QED
      BY <2>5, <3>1, <3>2 DEF Inherit, TypeOK
  <2>6. CASE UNCHANGED vars
    BY <2>6 DEF vars, TypeOK
  <2> QED
    BY <2>1, <2>2, <2>3, <2>4, <2>5, <2>6 DEF Next
<1> QED
  BY <1>1, <1>2, PTL DEF Spec

-----------------------------------------------------------------------------
\* What a rule fires is a count.
LEMMA FiresIsNat ==
  ASSUME NEW tree \in Tree, NEW s, NEW p \in Readings, NEW f \in Listed(tree, s)
  PROVE  Fires(tree, Listed(tree, s), p, f) \in Nat
<1>1. tree[f] \in Text
  BY GatesAssumption DEF Listed, Tree
<1>2. Raises[tree[f]][p.id] \in Nat
  BY <1>1, GatesAssumption
<1> QED
  BY <1>2 DEF Fires

LEMMA OnTrunkIsNat ==
  ASSUME base \in Tree, NEW p \in Readings, NEW f
  PROVE  OnTrunk(p, f) \in Nat
BY FiresIsNat DEF OnTrunk

\* The baseline the settings of the trunk come with allows no more than the trunk holds.
AllowedOnTrunk ==
  \A p \in Readings, f \in File :
    p.lang = LangOf[f] => Allowance(agreed, <<p.id, f>>) <= OnTrunk(p, f)

\* What `baseline` writes of a tree allows a file what its one reading of the key fired in it.
LEMMA SnapshotAllows ==
  ASSUME NEW tree \in Tree, NEW s, NEW p \in Readings, NEW f,
         p.lang = LangOf[f], <<p.id, f>> \in DOMAIN Snapshot(tree, s)
  PROVE  /\ f \in Listed(tree, s)
         /\ Snapshot(tree, s)[<<p.id, f>>] = Fires(tree, Listed(tree, s), p, f)
<1> DEFINE fs == Listed(tree, s)
           ratcheted == {r \in Runs(tree, s, fs, [lang \in {"py", "rs"} |-> s.off]) :
                           r[1].posture = "ratchet" /\ Fires(tree, fs, r[1], r[2]) > 0}
           keys == {<<r[1].id, r[2]>> : r \in ratcheted}
           of(k) == CHOOSE q \in ratcheted : k = <<q[1].id, q[2]>>
           key == <<p.id, f>>
<1>1. Snapshot(tree, s) = [k \in keys |-> Fires(tree, fs, of(k)[1], of(k)[2])]
  BY DEF Snapshot
<1>2. \A r \in ratcheted : r[1] \in Readings /\ r[2] \in fs /\ Fires(tree, fs, r[1], r[2]) > 0
  BY DEF Runs
<1> HIDE DEF fs, ratcheted
<1>3. key \in keys
  BY <1>1
<1>4. of(key) \in ratcheted /\ key = <<of(key)[1].id, of(key)[2]>>
  BY <1>3
<1>5. of(key)[2] = f /\ of(key)[1].id = p.id
  BY <1>4
<1> HIDE DEF of
<1>6. of(key)[1] \in Readings /\ f \in fs /\ Fires(tree, fs, of(key)[1], f) > 0
  BY <1>2, <1>4, <1>5
<1>7. of(key)[1].lang = LangOf[f]
  BY <1>6 DEF Fires
<1>8. of(key)[1] = p
  BY <1>5, <1>6, <1>7, GatesAssumption
<1>9. Snapshot(tree, s)[key] = Fires(tree, fs, p, f)
  BY <1>1, <1>3, <1>5, <1>8
<1> QED
  BY <1>6, <1>9 DEF fs

LEMMA TrunkAllowed == Spec => []AllowedOnTrunk
<1>1. Init => AllowedOnTrunk
  <2> SUFFICES ASSUME Init, NEW p \in Readings, NEW f \in File, p.lang = LangOf[f]
               PROVE  Allowance(agreed, <<p.id, f>>) <= OnTrunk(p, f)
    BY DEF AllowedOnTrunk
  <2> DEFINE key == <<p.id, f>>
  <2>1. PICK m \in SUBSET {"py", "rs"} :
          LET s == [off |-> {}, overrides |-> {}, excludes |-> {}, manifests |-> m,
                    allow |-> NoBaseline]
          IN  agreed \in {s, [s EXCEPT !.allow = Snapshot(base, s)]}
    BY DEF Init
  <2> DEFINE s == [off |-> {}, overrides |-> {}, excludes |-> {}, manifests |-> m,
                   allow |-> NoBaseline]
  <2>2. base \in Tree
    BY DEF Init
  <2>3. OnTrunk(p, f) \in Nat
    BY <2>2, OnTrunkIsNat
  <2>4. CASE key \notin DOMAIN agreed.allow
    BY <2>3, <2>4 DEF Allowance
  <2>5. CASE key \in DOMAIN agreed.allow
    <3>1. DOMAIN s.allow = {}
      BY DEF NoBaseline
    <3>2. agreed = [s EXCEPT !.allow = Snapshot(base, s)]
      BY <2>1, <2>5, <3>1
    <3>3. agreed.allow = Snapshot(base, s) /\ agreed.excludes = s.excludes
      BY <3>2
    <3> HIDE DEF s
    <3>4. Listed(base, agreed) = Listed(base, s)
      BY <3>3 DEF Listed
    <3>5. f \in Listed(base, s) /\ agreed.allow[key] = Fires(base, Listed(base, s), p, f)
      BY <2>2, <2>5, <3>3, SnapshotAllows
    <3>6. Allowance(agreed, key) = OnTrunk(p, f)
      BY <2>5, <3>4, <3>5 DEF Allowance, OnTrunk
    <3> QED
      BY <2>3, <3>6
  <2> QED
    BY <2>4, <2>5
<1>2. AllowedOnTrunk /\ [Next]_vars => AllowedOnTrunk'
  <2> SUFFICES ASSUME AllowedOnTrunk, [Next]_vars PROVE AllowedOnTrunk'
    OBVIOUS
  <2>1. base' = base /\ agreed' = agreed
    BY DEF Next, vars, Write, Add, Untrack, Commit, Configure, Baseline, Inherit
  <2> QED
    BY <2>1 DEF AllowedOnTrunk, OnTrunk, Allowance, Listed, Fires, Copies
<1> QED
  BY <1>1, <1>2, PTL DEF Spec

\* A finding the change adds blocks the full gate, and every fast gate given its file if its
\* rule reads one file; under the trunk's settings what blocks was added.
THEOREM AddedFindingsBlock == Spec => []BlocksWhatIsAdded
<1>1. TypeOK /\ AllowedOnTrunk => BlocksWhatIsAdded
  <2> SUFFICES ASSUME TypeOK, AllowedOnTrunk,
                      NEW f \in Checked(File, settings), NEW p \in Readings
               PROVE  /\ /\ settings.allow = agreed.allow
                         /\ p.posture # "report" /\ p.id \notin settings.off
                         /\ Kept(settings, p.id, f)
                         /\ Fires(work, Listed(work, settings), p, f) > OnTrunk(p, f)
                         => /\ <<p.id, f>> \in FullBlockers
                            /\ p.scope = "file" =>
                                 \A files \in SUBSET File :
                                   f \in files => <<p.id, f>> \in FastBlockers(files, settings)
                      /\ /\ settings = agreed /\ FullBlockersOf(base, agreed) = {}
                         /\ p.lang = LangOf[f] /\ p.lang \in Detected(base, agreed)
                         /\ <<p.id, f>> \in FullBlockers
                         => Fires(work, Listed(work, settings), p, f) > OnTrunk(p, f)
    BY DEF BlocksWhatIsAdded
  <2> DEFINE s == settings
             all == Listed(work, s)
             n == Fires(work, all, p, f)
  <2>1. f \in File /\ f \in Listed(work, settings) /\ LangOf[f] \in Detected(work, settings)
    BY GatesAssumption DEF Checked, Listed
  <2>2. work \in Tree /\ base \in Tree /\ IsBaseline(agreed.allow) /\ IsBaseline(s.allow)
    BY DEF TypeOK
  <2>3. n \in Nat /\ OnTrunk(p, f) \in Nat
    BY <2>1, <2>2, FiresIsNat, OnTrunkIsNat
  <2>4. p.lang # LangOf[f] => n = 0
    BY DEF Fires
  <2>5. p.posture \in {"gate", "ratchet", "report"} /\ p.lang \in {"py", "rs"}
    BY GatesAssumption
  <2>6. p.posture = "ratchet" \/ p.posture = "gate" \/ p.posture = "report"
    BY <2>5
  <2> HIDE DEF all, n
  <2>7. ASSUME settings.allow = agreed.allow,
               p.posture # "report", p.id \notin settings.off, Kept(settings, p.id, f),
               n > OnTrunk(p, f)
        PROVE  /\ <<p.id, f>> \in FullBlockers
               /\ p.scope = "file" =>
                    \A files \in SUBSET File :
                      f \in files => <<p.id, f>> \in FastBlockers(files, settings)
    <3>1. p.lang = LangOf[f] /\ n > 0
      BY <2>3, <2>4, <2>7
    <3>2. Allowance(s, <<p.id, f>>) <= OnTrunk(p, f)
      BY <2>1, <2>7, <3>1 DEF AllowedOnTrunk, Allowance
    <3>3. Allowance(s, <<p.id, f>>) \in Nat
      BY <2>2, AllowanceIsNat
    <3>4. n > Allowance(s, <<p.id, f>>)
      BY <2>3, <2>7, <3>2, <3>3
    <3>5. Blocks(s, p, f, n)
      BY <2>6, <2>7, <3>1, <3>4 DEF Blocks
    <3>6. p.lang \in Detected(work, s) /\ f \in all
      BY <2>1, <3>1 DEF all
    <3>7. <<p.id, f>> \in FullBlockers
      <4>1. Blocked(work, s, all, Offs(s), p, f)
        BY <2>5, <2>7, <3>5, <3>6 DEF Blocked, Offs, n
      <4> QED
        BY <4>1, BlockedBlocks DEF FullBlockers, FullBlockersOf, Offs, all
    <3>8. ASSUME p.scope = "file", NEW files \in SUBSET File, f \in files
          PROVE  <<p.id, f>> \in FastBlockers(files, settings)
      <4> DEFINE fs == Checked(files, s)
      <4>1. f \in fs
        BY <2>1, <3>8 DEF Checked
      <4> HIDE DEF fs
      <4>2. Fires(work, fs, p, f) = n
        BY <3>8, FiresAlike DEF n
      <4>3. Blocked(work, s, fs, FastOffs(s), p, f)
        BY <2>5, <2>7, <3>5, <3>6, <3>8, <4>1, <4>2, FastRuns DEF Blocked, FastOffs
      <4> QED
        BY <4>3, BlockedBlocks DEF FastBlockers, FastOffs, fs
    <3> QED
      BY <3>7, <3>8
  <2>8. ASSUME settings = agreed, FullBlockersOf(base, agreed) = {},
               p.lang = LangOf[f], p.lang \in Detected(base, agreed),
               <<p.id, f>> \in FullBlockers
        PROVE  n > OnTrunk(p, f)
    <3> DEFINE key == <<p.id, f>>
               was == Listed(base, s)
    <3>1. PICK q \in Readings, g \in all :
            key = <<q.id, g>> /\ Blocked(work, s, all, Offs(s), q, g)
      BY <2>8, BlockersBlock DEF FullBlockers, FullBlockersOf, Offs, all
    <3>2. g = f /\ q.id = p.id
      BY <3>1
    <3>3. q.lang = p.lang
      BY <2>2, <2>8, <3>1, <3>2, BlockingFires
    <3>4. q = p
      BY <3>2, <3>3, GatesAssumption
    <3>5. p.id \notin s.off /\ Kept(s, p.id, f) /\ Blocks(s, p, f, n)
      BY <2>5, <3>1, <3>2, <3>4 DEF Blocked, Offs, n
    <3>6. Allowance(s, key) \in Nat
      BY <2>2, AllowanceIsNat
    <3>7. n > 0
      BY <2>3, <3>5, <3>6 DEF Blocks
    <3>8. SUFFICES ASSUME n <= OnTrunk(p, f)
                   PROVE  FALSE
      BY <2>3
    <3>9. f \in was /\ OnTrunk(p, f) = Fires(base, was, p, f)
      BY <2>3, <2>8, <3>7, <3>8 DEF OnTrunk
    <3>10. Blocks(s, p, f, Fires(base, was, p, f))
      <4>1. Fires(base, was, p, f) \in Nat /\ Fires(base, was, p, f) >= n
        BY <2>3, <3>8, <3>9
      <4> HIDE DEF was
      <4> QED
        BY <2>3, <3>5, <3>6, <3>7, <4>1 DEF Blocks
    <3>11. Blocked(base, s, was, Offs(s), p, f)
      BY <2>5, <2>8, <3>5, <3>9, <3>10 DEF Blocked, Offs
    <3>12. key \in FullBlockersOf(base, s)
      BY <3>11, BlockedBlocks DEF FullBlockersOf, Offs
    <3> QED
      BY <2>8, <3>12
  <2> QED
    BY <2>7, <2>8 DEF n, all
<1> QED
  BY <1>1, TypeCorrect, TrunkAllowed, PTL

-----------------------------------------------------------------------------
\* What neither the diff nor the untracked files name is as the trunk has it.
LEMMA UnchangedSinceBase ==
  ASSUME AtTop, \A f \in Ignored : work[f] = base[f],
         NEW f \in Root, f \notin Changed(TRUE), work[f] # Gone
  PROVE  work[f] = base[f]
BY GatesAssumption DEF Changed, Spelled, Untracked

\* A language that runs over a file of the work tree runs over it where the trunk has it,
\* under one set of manifests.
LEMMA DetectedSinceBase ==
  ASSUME NEW s, NEW f \in Root, work[f] = base[f], work[f] # Gone, LangOf[f] \in Detected(work, s)
  PROVE  LangOf[f] \in Detected(base, s)
<1>1. LangOf[f] \in {"py", "rs"}
  BY GatesAssumption
<1>2. WithPresence(work, s, "marked") = WithPresence(base, s, "marked")
  BY DEF WithPresence, Presence
<1>3. CASE WithPresence(work, s, "marked") # {}
  BY <1>2, <1>3 DEF Detected
<1>4. CASE WithPresence(work, s, "marked") = {}
  <2>1. LangOf[f] = "py"
    BY <1>1, <1>4 DEF Detected, WithPresence, Presence
  <2>2. "py" \notin s.manifests
    BY <1>4 DEF WithPresence, Presence
  <2>3. "py" \in WithPresence(base, s, "loose")
    BY <2>1, <2>2 DEF WithPresence, Presence
  <2> QED
    BY <1>2, <1>4, <2>1, <2>3 DEF Detected
<1> QED
  BY <1>3, <1>4

\* A fast gate over a branch that passes leaves the full gate the rules of repo scope only.
THEOREM BranchesAreCovered == Spec => []BranchIsCovered
<1>1. TypeOK => BranchIsCovered
  <2> SUFFICES ASSUME TypeOK, AtTop, settings = agreed, FullBlockersOf(base, agreed) = {},
                      \A f \in Ignored : work[f] = base[f],
                      FastPasses(Changed(TRUE), settings),
                      NEW k \in FullBlockers, FileRule(k)
               PROVE  FALSE
    BY DEF BranchIsCovered
  <2> DEFINE s == settings
             all == Listed(work, s)
             fs == Checked(Changed(TRUE), s)
             was == Listed(base, s)
  <2>1. IsBaseline(s.allow)
    BY DEF TypeOK
  <2>2. PICK p \in Readings, f \in all : k = <<p.id, f>> /\ Blocked(work, s, all, Offs(s), p, f)
    BY BlockersBlock DEF FullBlockers, FullBlockersOf, Offs
  <2>3. f \in Root /\ work[f] # Gone /\ f \notin s.excludes
    BY DEF Listed
  <2> HIDE DEF s, all, fs, was
  <2>4. LangOf[f] = p.lang /\ p.posture # "report"
    BY <2>1, <2>2, BlockingFires
  <2>5. p.scope = "file"
    BY <2>2, <2>4, GatesAssumption DEF FileRule
  <2>6. /\ p.lang \in Detected(work, s) /\ p.id \notin s.off /\ Kept(s, p.id, f)
        /\ Blocks(s, p, f, Fires(work, all, p, f))
    BY <2>2, LanguageOfReading DEF Blocked, Offs
  <2>7. CASE f \in Changed(TRUE)
    <3>1. f \in fs
      BY <2>3, <2>4, <2>6, <2>7 DEF fs, Checked, Listed, s
    <3>2. Fires(work, fs, p, f) = Fires(work, all, p, f)
      BY <2>5, FiresAlike
    <3>3. Blocked(work, s, fs, FastOffs(s), p, f)
      BY <2>4, <2>5, <2>6, <3>1, <3>2, FastRuns, LanguageOfReading DEF Blocked, FastOffs
    <3>4. <<p.id, f>> \in FastBlockers(Changed(TRUE), s)
      BY <3>3, BlockedBlocks DEF FastBlockers, FastOffs, fs
    <3> QED
      BY <3>4 DEF FastPasses, s
  <2>8. CASE f \notin Changed(TRUE)
    <3>1. work[f] = base[f]
      BY <2>3, <2>8, UnchangedSinceBase
    <3>2. f \in was
      BY <2>3, <3>1 DEF was, Listed
    <3>3. p.lang \in Detected(base, s)
      BY <2>3, <2>4, <2>6, <3>1, DetectedSinceBase
    <3>4. Fires(base, was, p, f) = Fires(work, all, p, f)
      BY <2>5, <3>1, FiresAlike
    <3>5. Blocked(base, s, was, Offs(s), p, f)
      BY <2>6, <3>2, <3>3, <3>4, LanguageOfReading DEF Blocked, Offs
    <3>6. <<p.id, f>> \in FullBlockersOf(base, s)
      BY <3>5, BlockedBlocks DEF FullBlockersOf, Offs, was
    <3> QED
      BY <3>6 DEF s
  <2> QED
    BY <2>7, <2>8
<1> QED
  BY <1>1, TypeCorrect, PTL

\* At the top of its repository, every listed file that differs from HEAD is checked.
THEOREM DiffsAreGated == ASSUME AtTop PROVE Spec => []DiffIsGated
<1>1. DiffIsGated
  <2> SUFFICES ASSUME NEW f \in Listed(work, settings) \ Ignored, work[f] # head[f],
                      LangOf[f] \in Detected(work, settings)
               PROVE  f \in Checked(Changed(FALSE), settings)
    BY DEF DiffIsGated
  <2>1. f \in Root /\ f \in File /\ work[f] # Gone
    BY GatesAssumption DEF Listed
  <2>2. f \in Changed(FALSE)
    BY <2>1 DEF Changed, Spelled, Untracked
  <2> QED
    BY <2>2, <2>1 DEF Checked
<1> QED
  BY <1>1, PTL
=============================================================================
