CONSTANTS
  SIZE = 12
  MARKS = 2
  MaxWords = 3
  MaxApps = 2
  Inside = FALSE
  ForgetAny = FALSE
  Unfinished = FALSE
  Words = {"X", "IF", "ELSE", "THEN", "BEGIN", "UNTIL", "AGAIN", "WHILE", "REPEAT", "DO", "?DO", "LOOP", "LEAVE", "CASE", "OF", "ENDOF", "ENDCASE"}
  CSTACK_MAX = 9
  LEAVES_MAX = 6
  MaxSource = 6
  Nested = TRUE
SPECIFICATION Spec
INVARIANTS
  TypeOK
  ChainIsSound
  HeldStays
  CompilesAsMeant
PROPERTIES
  GivesBack
