-------------------------------- MODULE MCGates --------------------------------
(***************************************************************************)
(* Two Python files and a Rust one; one id is read by both languages, of   *)
(* file scope in one and of repo scope in the other.  The reading of GATE  *)
(* posture is of a kind only the registries of the tests hold today.       *)
(***************************************************************************)
EXTENDS Gates

CONSTANTS a, b, c, clean, worse, worst, torn

MCFile == {a, b, c}
MCLangOf == [f \in MCFile |-> IF f = c THEN "rs" ELSE "py"]
MCText == {clean, worse, worst, torn}

\* worse holds a finding of the first id, worst two of it and one of each other.
MCRaises ==
  [t \in MCText |->
     [i \in 1 .. 3 |-> CASE t = worst -> IF i = 1 THEN 2 ELSE 1
                         [] t = worse -> IF i = 1 THEN 1 ELSE 0
                         [] OTHER -> 0]]

Reads(i, lang, scope, posture) == [id |-> i, lang |-> lang, scope |-> scope, posture |-> posture]

Cfg(off, overrides, excludes) ==
  [off |-> off, overrides |-> overrides, excludes |-> excludes]

MCConfigs == {Cfg({}, {}, {}), Cfg({1}, {}, {}), Cfg({}, {<<3, a>>}, {}), Cfg({}, {}, {a})}

MCReadings ==
  {Reads(1, "py", "file", "ratchet"), Reads(1, "rs", "repo", "ratchet"),
   Reads(2, "py", "repo", "ratchet"), Reads(2, "rs", "file", "ratchet"),
   Reads(3, "py", "file", "gate"), Reads(3, "rs", "file", "report")}
================================================================================
