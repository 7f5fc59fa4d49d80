SPECIFICATION Spec
CONSTANTS
  Params <- MCParams
  Globals = {"g"}
  Lits <- MCLits
  Simple <- GlobalSimple
  Conds = {}
  MaxItems = 3
  Conditional = FALSE
  Reach = 6
  Size = 20
  Base = 12
  CallerIX = CallerIX
  RetAddr = RetAddr
  Junk = Junk
INVARIANTS
  ReturnsToCaller
