SPECIFICATION Spec
CONSTANTS
  f = f
  g = g
  at = at
  x = x
  y = y
  None = None
  Builtin = Builtin
  Name = {f, g, at}
  Op = {at}
  Host = {g}
  Params <- SmallParams
  Body <- SmallBody
  MaxDefs = 2
INVARIANT CallsAgree
