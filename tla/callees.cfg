CONSTANTS
  Module <- MCModule
  Leftovers = {"sub", "junk"}
SPECIFICATION Spec
INVARIANTS
  ListsAll
  ReplacesRight
