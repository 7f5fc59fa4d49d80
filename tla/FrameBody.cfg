SPECIFICATION Spec
CONSTANTS
  Params <- MCParams
  Globals = {}
  Lits <- MCLits
  Simple <- BodySimple
  Conds = {"p"}
  MaxItems = 6
  Conditional = FALSE
  Reach = 3
  Size = 22
  Base = 14
  CallerIX = CallerIX
  RetAddr = RetAddr
  Junk = Junk
INVARIANTS
  TypeOK LabelsPaired LocalsAboveSP ReturnsToCaller
PROPERTIES
  Implements
