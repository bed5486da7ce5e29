CONSTANTS
  CHANNELS = 2
  Keyboards = {2}
  Keys = {"k", "esc"}
  Esc = "esc"
  Buttons = {"START", "Z"}
  Stop = {"START", "Z"}
  TYPEAHEAD = 3
  SECOND = 2
  Unplugs = TRUE
SPECIFICATION Spec
INVARIANTS
  TypeOK
  PressedOnce
