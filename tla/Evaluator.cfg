CONSTANTS
  DSTACK_MAX = 2
  RSTACK_MAX = 2
  KEPT_MAX = 3
  ROOM = 0
  SLACK = 0
  MaxLevel = 2
  Interpreted = TRUE
  Compiled = TRUE
  Breaks = TRUE
  HALF = 4
SPECIFICATION Spec
INVARIANTS
  TypeOK
  ProgramUntouched
