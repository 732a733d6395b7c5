SPECIFICATION Spec
CONSTANTS
  a = a
  Arg = {a}
  Function <- PhiFunctions
INVARIANT PhiOperandsMetAtEnd
