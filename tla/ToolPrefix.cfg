SPECIFICATION Spec
CONSTANTS
  Names <- MCNames
  Invocations <- ByFullName
  Settings <- OnlyPlain
  Places <- Installed
  MaxChanges = 0
  None <- NonePath
INVARIANTS
  SysrootUnderPrefix
