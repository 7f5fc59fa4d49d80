SPECIFICATION Spec
CONSTANTS
  Sources <- MCSources
  Keywords <- MCKeywords
  BufSize = 5
  LongLimit = 128
INVARIANTS
  TypeOK LongestMatch ValueRight SameName LocationRight NothingDropped
PROPERTIES
  Ends
