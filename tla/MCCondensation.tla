-------------------------- MODULE MCCondensation --------------------------
(* Four functions, every call graph over them without self calls. *)
EXTENDS Condensation

MCNodes == 1..4
MCPairs == {e \in MCNodes \X MCNodes : e[1] # e[2]}
MCGraphs == SUBSET MCPairs
MCLoopEdges == {<<1, 2>>, <<2, 3>>, <<3, 2>>, <<2, 4>>}
MCRootSets == {{2}}
MCUnknown == {4}
MCSelfWriters == {1}
MCHanding ==
  [e \in MCNodes \X MCNodes |->
     CASE e[1] = 2 -> "self" [] e[1] = 3 -> "unknown" [] OTHER -> "fresh"]
=============================================================================
