CONSTANTS
  Nodes <- MCNodes
  Graphs <- MCGraphs
  LoopEdges <- MCLoopEdges
  RootSets <- MCRootSets
  Unknown <- MCUnknown
  SelfWriters <- MCSelfWriters
  Handing <- MCHanding
SPECIFICATION GraphSpec
INVARIANTS ComponentsAreMutual SummariesAreReachable ReceiversAreKept HeatFlows
