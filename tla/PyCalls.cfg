CONSTANTS
  Classes = {"A", "B", "C"}
  Modules = {"m", "t"}
  Names = {"main", "test", "f", "g", "ctor"}
  Ctor = "ctor"
  Hierarchies <- MCHierarchies
  DefSets <- MCDefSets
  Shapes <- MCShapes
  MarkSets <- MCMarkSets
  MaxSites = 2
  Tests = {"t"}
  ModuleOf <- MCModuleOf
  HotRoots <- MCHotRoots
  Exempt = {"main", "ctor"}
SPECIFICATION Spec
INVARIANTS DeadIsDead TestOnlyIsTestOnly EffectsAreSound DegradedHotIsASubset GuessesCountAgainst
CHECK_DEADLOCK FALSE
