CONSTANTS
  f = f  g = g  a = a  b = b
  Names <- TwoNames
  NoName = NoName
  Data <- TwoData
  Contents <- OnePage
  Blank = Blank
  Torn = Torn
  NoSum = NoSum
  META_PAGES = 1
  PAGES = 3
  FAT_PER_BLOCK = 2
  FS_DIR_MAX = 2
  RomNames <- NoNames
  BadNames <- NoNames
  InitialPaks <- Formatted
  MaxGen = 3
  MaxRamGen = 0
  Kinds = {"write", "read", "delete"}
  Troubles = {"pull"}
SPECIFICATION SwapSpec

INVARIANTS
  PagesAreThisPaks
