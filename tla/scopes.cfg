CONSTANTS
  Name <- MCName
  Params <- MCParams
  Bodies <- MCBodies
  Arity <- MCArity
  Val <- MCVal
  Nodes <- MCNodes
  Scoped <- Lexical
  Modulus = 3
  MaxSteps = 80
  Fuel = 80
SPECIFICATION CodeGenSpec
INVARIANTS
  RefusesUnknown
  WellFormed
  ComputesMeaning
