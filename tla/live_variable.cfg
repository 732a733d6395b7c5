SPECIFICATION FairSpec
CONSTANTS
  a = a
  Arg = {a}
  Function <- SmallFunctions
INVARIANTS
  TypeOK
  OnlyLive
  WorklistCovers
  ExactWhenDrained
  VisitsExitReaching
  OnlyLastCountDropped
PROPERTIES
  SetsGrow
  Terminates
