SPECIFICATION Spec
CONSTANTS
  Params <- MCParams
  Globals = {}
  Lits <- MCLits
  Simple <- BranchSimple
  Conds = {"p"}
  MaxItems = 7
  Conditional = TRUE
  Reach = 6
  Size = 24
  Base = 16
  CallerIX = CallerIX
  RetAddr = RetAddr
  Junk = Junk
PROPERTIES
  Implements
