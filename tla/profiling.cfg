SPECIFICATION Spec
CONSTANTS
  Programs <- SmallPrograms
  Ops <- OpsUsed
  Width = 2
  MaxExecuted = 22
INVARIANTS
  TypeOK
  NothingLost
  BranchesCounted
  AllReported
