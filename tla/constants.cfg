SPECIFICATION Spec
CONSTANTS
  x = x
  Width = 2
  Module <- SmallModules
  Bottom <- BottomEdge
  Merge <- MergeConstants
  Flow <- FlowConstants
  EdgeTo <- ConstantsTo
  Null <- NoEdge
  Wakes <- SetsFacts
  Trusted <- FoldsRight
  Holds <- FactsHold
  InitStore <- AnyStore
  Stores <- StoresAfter
  Branches <- BranchesOf
INVARIANTS
  TypeOK
  Sound
  Solved
