------------------------------- MODULE Console -------------------------------
(***************************************************************************)
(* src/src/console.c: the text console, a grid of characters drawn on the  *)
(* screen with a copy of the text beside it.  It is one for everybody: a   *)
(* prompt lays it out over the screen, a window of the desk has it inside, *)
(* and each moves it where it wants it (con_place) and paints it there     *)
(* from the copy (con_redraw).                                             *)
(*                                                                         *)
(* A row is blank or has text on it, and what is written is whole rows.    *)
(* The state of the console is a record: the text, the cursor's row, where *)
(* the console is, and of the screen who has it and what is on the rows    *)
(* that the console has there.  What is drawn while somebody else has the  *)
(* screen is not seen: a clip or the next repaint takes it.                *)
(***************************************************************************)
EXTENDS Naturals

CONSTANTS
  ROWS,      \* rows of the grid
  Places,    \* where the console is put
  TopRow, BotRow,   \* the rows it scrolls in there
  Away       \* who has the screen when no place of the console has it

ASSUME ConsoleAssumption ==
  /\ ROWS \in Nat \ {0} /\ Away \notin Places
  /\ TopRow \in [Places -> 0 .. ROWS - 1] /\ BotRow \in [Places -> 0 .. ROWS - 1]
  /\ \A p \in Places : TopRow[p] <= BotRow[p]

Row   == 0 .. ROWS - 1
Blank == <<"blank", <<>>>>
Ink   == <<"ink", <<>>>>

Region(p) == TopRow[p] .. BotRow[p]
Seen(c) == c.view = c.place

\* What is drawn on the screen, where there is anything to be seen of it.
Drawn(c, picture) == IF Seen(c) THEN [c EXCEPT !.rows = picture] ELSE c

\* fill and draw_glyph: row r becomes what, in the copy and on the screen.
Write(c, r, what) ==
  Drawn([c EXCEPT !.text[r] = what], [c.rows EXCEPT ![r] = what])

con_erase_row(c, r) == Write(c, r, Blank)

\* The rows of a picture or of the copy, one up, in the region.
Up(f, p) == [r \in Row |-> IF r \in TopRow[p] .. BotRow[p] - 1 THEN f[r + 1]
                           ELSE IF r = BotRow[p] THEN Blank ELSE f[r]]

\* Mutant: the copy keeps its rows where they are.
scroll_screen_only(c) ==
  Drawn([c EXCEPT !.text[BotRow[c.place]] = Blank, !.row = BotRow[c.place]], Up(c.rows, c.place))

scroll(c) ==
  Drawn([c EXCEPT !.text = Up(@, c.place), !.row = BotRow[c.place]], Up(c.rows, c.place))

\* con_putc('\n').
Newline(c) == IF c.row + 1 > BotRow[c.place] THEN scroll(c) ELSE [c EXCEPT !.row = @ + 1]

\* A row of text, and the end of it.
PutRow(c) == Newline(Write(c, c.row, Ink))

\* con_scroll_region: "a smaller region keeps the bottom of what was there".
con_scroll_region(c, p) ==
  LET shift == c.row - BotRow[p]
      kept  == [r \in Row |-> IF r > BotRow[p] \/ (r \in Region(p) /\ r + shift >= ROWS) THEN Blank
                              ELSE IF r \in Region(p) THEN c.text[r + shift] ELSE c.text[r]]
  IN  IF c.row > BotRow[p] THEN [c EXCEPT !.text = kept, !.row = BotRow[p]]
      ELSE IF c.row < TopRow[p] THEN [c EXCEPT !.row = TopRow[p]] ELSE c

con_place(c, p) == [con_scroll_region(c, p) EXCEPT !.place = p]

con_redraw(c) ==
  Drawn(c, [r \in Row |-> IF r \in Region(c.place) THEN c.text[r] ELSE c.rows[r]])

\* AT-XY looks at nothing: the row need not be one of the region.
con_at(c, r) == [c EXCEPT !.row = r]

con_clear(c) ==
  LET cleared(f) == [r \in Row |-> IF r \in Region(c.place) THEN Blank ELSE f[r]]
  IN  Drawn([c EXCEPT !.text = cleared(@), !.row = TopRow[c.place]], cleared(c.rows))

\* What something else does to the screen, and what a place that takes it paints first.
Taken(c, who) == [c EXCEPT !.view = who, !.rows = [r \in Row |-> Blank]]

con_init(p) ==
  [text |-> [r \in Row |-> Blank], rows |-> [r \in Row |-> Blank], row |-> TopRow[p],
   place |-> p, view |-> Away]
=============================================================================
