CONSTANTS
  Width = 6
  Inf = 5
  Function <- MCFunction
  Leftovers = {0, 7}
  Loops <- MCLoops
SPECIFICATION Spec
INVARIANTS
  Sound
  CountsRight
