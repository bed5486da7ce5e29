CONSTANTS
  f = f  g = g  a = a  b = b
  Names <- TwoNames
  NoName = NoName
  Data <- TwoData
  Contents <- SmallContents
  Blank = Blank
  Torn = Torn
  NoSum = NoSum
  META_PAGES = 1
  PAGES = 4
  FAT_PER_BLOCK = 2
  FS_DIR_MAX = 2
  RomNames <- NoNames
  BadNames <- NoNames
  InitialPaks <- Formatted
  MaxGen = 4
  MaxRamGen = 0
  Kinds = {"write", "delete", "rename"}
  Troubles = {"power", "write"}
SPECIFICATION Spec

INVARIANTS
  TypeOK
  ReadablePakIsSound
  SaveInv
PROPERTIES
  SafeSave
  OkIsDone
  PromiseKept
