SPECIFICATION Spec
CONSTANTS
  Drivers <- Busy
  Commands <- MCCommands
  Dirs <- MCDirs
  Bases <- MCBases
  Exts <- MCExts
  LongBases = {"long"}
  Sources <- MCSources
  TmpBases = {"t1", "t2"}
  MaxInputs = 3
  NoFile <- NoFileHere
INVARIANTS
  TypeOK WritesOnlyNamed OutputRight StatusHonest AsmRemoved
PROPERTIES
  EndsOrWaits
