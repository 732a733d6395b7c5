SPECIFICATION Spec
CONSTANTS
  Width = 3
  Pointer <- PointerNames
  Allocated <- AllocatedNames
  Unset = "unset"
  Module <- SmallModules
  Bottom <- PassBottom
  Merge <- PassMerge
  Flow <- PassFlow
  EdgeTo <- PassEdgeTo
  Null <- NoEdge
  Wakes <- PassWakes
  Trusted <- PassTrusted
  Holds <- PassHolds
  InitStore <- AnyStore
  Stores <- PassStores
  Branches <- BranchesOf
INVARIANTS
  Sound
  WeirdOnlyInLoops
