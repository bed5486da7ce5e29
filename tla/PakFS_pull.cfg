CONSTANTS
  f = f  g = g  a = a  b = b
  Names <- TwoNames
  NoName = NoName
  Data <- TwoData
  Contents <- TightContents
  Blank = Blank
  Torn = Torn
  NoSum = NoSum
  META_PAGES = 1
  PAGES = 3
  FAT_PER_BLOCK = 2
  FS_DIR_MAX = 2
  RomNames <- JustG
  BadNames <- JustG
  InitialPaks <- AnyPak
  MaxGen = 3
  MaxRamGen = 1
  Kinds = {"write", "read", "stat", "delete", "mount", "format"}
  Troubles = {"pull", "read"}
SPECIFICATION FairSpec

INVARIANTS
  CacheIsPak
PROPERTIES
  CallsReturn
