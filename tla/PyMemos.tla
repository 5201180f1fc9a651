------------------------------- MODULE PyMemos -------------------------------
(***************************************************************************)
(* The cells of the Python provers as their initializers ask for one       *)
(* another, and rules of several families by the cells they ask for.       *)
(* "base" is the checker's base pass; "scope" stands for one symbol of     *)
(* `scopes`, which `warm` leaves to whoever asks first.                    *)
(***************************************************************************)
EXTENDS Naturals, Sequences

PyMemo ==
  {"base", "calls", "closed_world", "effects", "hot", "import_graph", "recv_types",
   "import_effects", "shipped", "unseen", "live", "reexports", "records", "arg_types",
   "ret_types", "unresolved", "scope"}

PyWarmed ==
  <<"calls", "closed_world", "effects", "hot", "import_graph", "recv_types",
    "import_effects", "shipped", "unseen", "live", "reexports", "records", "arg_types",
    "ret_types", "unresolved">>

PyNeeds == [m \in PyMemo |->
  CASE m = "calls"          -> {"base"}
    [] m = "closed_world"   -> {"calls"}
    [] m = "effects"        -> {"closed_world", "calls"}
    [] m = "hot"            -> {"calls"}
    [] m = "recv_types"     -> {"base"}
    [] m = "import_effects" -> {"import_graph", "recv_types"}
    [] m = "records"        -> {"calls", "scope"}
    [] m = "arg_types"      -> {"closed_world", "calls", "base", "scope"}
    [] m = "ret_types"      -> {"base"}
    [] m = "unresolved"     -> {"base"}
    [] OTHER                -> {}]

\* The functions' scopes, the memo guards, and the checker's passes over its queries.
PyForks == {"base", "effects", "hot", "recv_types", "arg_types"}

PyJob == [m \in PyForks |-> {m \o " job 1", m \o " job 2"}]

PyJobNeeds == [m \in PyMemo |-> IF m = "effects" THEN {"scope"} ELSE {}]

\* Each runs one pass of the checker of its own.
PyPasses == {"base", "recv_types", "arg_types", "ret_types"}

PyRule == {"2", "5", "10", "14", "32", "41"}

PyAsks == [r \in PyRule |->
  CASE r = "2"  -> {"arg_types", "calls", "scope"}
    [] r = "14" -> {"arg_types", "calls"}
    [] r \in {"5", "10"} -> {"arg_types", "calls", "closed_world", "scope"}
    [] r = "32" -> {"calls", "import_effects", "live", "reexports", "unseen"}
    [] r = "41" -> {"hot", "scope"}]

PyOwners == <<"5", "10">>

\* How deep an initializer's calls nest.
PyDepth == [m \in PyMemo |->
  CASE m = "effects"                       -> 3
    [] m \in {"closed_world", "arg_types"} -> 2 + (IF m = "arg_types" THEN 1 ELSE 0)
    [] m \in {"calls", "recv_types", "ret_types", "unresolved"} -> 1
    [] m \in {"hot", "import_effects", "records"} -> 2
    [] OTHER -> 0]
=============================================================================
