CONSTANTS
  f1 = f1  f2 = f2  r = r
  Files = {f1, f2}
  Texts = {t0, t1}
  Empty = t0
  Absent = absent
  Rom <- RomNames
  RomText = t1
  ReadFails = {"screen"}
  Order <- ByName
  LIST_ROWS = 2
  MaxDepth = 2
SPECIFICATION Spec
INVARIANTS
  TypeOK
  UnmodifiedIsSaved
  RowsAreTheFiles
PROPERTIES
  NeverSilently
  SavesItsOwn
  DeletesWhatItAsked
