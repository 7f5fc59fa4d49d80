SPECIFICATION Spec
CONSTANTS
  Byte <- MCByte
  Reach <- MCReach
  Junk = Junk
  FramePtr <- MCFramePtr
  Vars <- MCVars
  VarType <- MCVarType
  VarOff <- MCVarOff
  Funcs <- MCFuncs
  Sig <- MCSig
  LabelAddr <- MCLabelAddr
  InitMem <- MCInitMem
  MaxArgs = 2
  Tokens <- CallTokens
  MaxTokens = 8
  Goals = {"hl"}
INVARIANTS
  StackBalanced SavedAddressSurvives ArgumentsPassed
