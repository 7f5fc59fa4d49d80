SPECIFICATION Spec
CONSTANTS
  Names <- MCNames
  Invocations <- MCInvocations
  Settings <- MCSettings
  Places <- MCPlaces
  MaxChanges = 1
  None <- NonePath
INVARIANTS
  TypeOK BesideDriver OrderOfPreference SysrootOfName
PROPERTIES
  Ends
