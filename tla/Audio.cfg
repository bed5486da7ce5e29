CONSTANTS
  NBUF = 3
  CHUNK = 2
  NOTES = 3
  RATE = 3
  MS = 2
  WORD = 12
  Millis = {0, 3, 4}
  MaxNotes = 3
  Honest = TRUE
SPECIFICATION FairSpec
INVARIANTS
  NothingLost
PROPERTIES
  NeverOverwritten
  AllHeard
