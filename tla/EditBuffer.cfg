CONSTANTS
  Letters = {}
  FS_FILE_MAX = 4
  CLIP = 5
  QUERY = 1
  INDENT = 3
  PAGE = 2
  TAB = 2
  ReadMayFail = FALSE
SPECIFICATION TextSpec

INVARIANTS
  TextTypeOK
  ColumnIsKept
PROPERTIES
  CutsComeBack
  FindsTheNext
