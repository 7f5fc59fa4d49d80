SPECIFICATION Spec
CONSTANTS
  Names <- MCNames
  Inputs <- MCInputs
INVARIANTS
  TypeOK ScopesBalanced TypedefsCurrent NamesResolved AcceptedWhole
PROPERTIES
  EndsOrSticks
