SPECIFICATION Spec
CONSTANTS
  NULL = NULL
  Width = 12
  Programs <- SmallPrograms
  Nodes <- NodesOf
  Inputs <- Typed
  Bases <- SomeAddresses
INVARIANTS
  TypeOK
  HeapExact
  OneFramePerCall
  PrintsWhatCPrints
