CONSTANTS
  SCREEN_W = 4
  SCREEN_H = 3
  WIN_W = 2
  WIN_H = 3
  Places <- ThreePlaces
  Slow = 1
  Program = "task"
  WRAP = 2
  Last = FALSE
  Prompt = 2
  Editor = 3
  Leaving = TRUE
SPECIFICATION Spec
CHECK_DEADLOCK FALSE
INVARIANTS
  TypeOK
  ScreenIsLayout
  PictureKept
  DragCarriesTheGrabbed
