SPECIFICATION Spec
CONSTANTS
  Byte <- MCByte
  Reach <- MCReach
  Junk = Junk
  FramePtr <- MCFramePtr
  Vars <- MCVars
  VarType <- MCVarType
  VarOff <- MCVarOff
  Funcs <- MCFuncs
  Sig <- MCSig
  LabelAddr <- MCLabelAddr
  InitMem <- MCInitMem
  MaxArgs = 2
  Tokens <- OtherTokens
  MaxTokens = 5
  Goals = {"drop"}
INVARIANTS
  DescriptorSound
PROPERTIES
  Terminates
