CONSTANTS
  ROWS = 3
  Places <- ThePlaces
  TopRow <- Tops
  BotRow <- Bots
  Away = "away"
  Lines <- FewLines
  LINE_MAX <- Widths
  HISTORY = 2
  HALF = 2
  Gotos = {1}
  Prints = FALSE
  MaxDepth = 3
  MaxCount = 3
  MaxDesks = 1
SPECIFICATION Spec
INVARIANTS
  ScreenShowsTheText
PROPERTIES
  RecallsInOrder
  LineAppears
