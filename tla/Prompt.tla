-------------------------------- MODULE Prompt --------------------------------
(***************************************************************************)
(* src/src/repl.c: the prompt, over the console of Console.  There is one, *)
(* with one line and one history, and it may be under way several times:   *)
(* the loop that has the screen (repl_run_command), a frame of it in a     *)
(* window of the desk (repl_window_step), and again the loop, for a        *)
(* program that Files runs from either.  What a line runs may print, clear *)
(* the screen, move the cursor or take the screen, and who has taken it    *)
(* gives it back to whoever was there before.                              *)
(*                                                                         *)
(* A controller and a keyboard do alike what both can.  Keys come in any   *)
(* number and order before the frame's drawing.                            *)
(***************************************************************************)
EXTENDS Console, Integers, Sequences, SequencesExt

CONSTANTS
  Lines,      \* the lines there are, sequences of letters
  LINE_MAX,   \* of each place: what line_max() is there
  HISTORY,    \* repl.c
  HALF,       \* half the period of the cursor's blinking, 16 in the code
  Gotos,      \* the rows AT-XY goes to
  Prints,     \* whether other windows print, when the desk is not to be painted anyway
  MaxDepth, MaxCount, MaxDesks   \* bounds: what is under way at once, lines remembered, desks started

ASSUME PromptAssumption ==
  /\ Places = {"osk", "full", "window"} /\ Away = "away"
  /\ <<>> \in Lines /\ \A l \in Lines : l # <<>> => Front(l) \in Lines
  /\ LINE_MAX \in [Places -> Nat \ {0}]
  /\ HISTORY \in Nat \ {0} /\ HALF \in Nat \ {0, 1}
  /\ Gotos \subseteq Row /\ Prints \in BOOLEAN

VARIABLES
  con,          \* the console
  line,         \* repl.c, and its length len
  shown,        \* repl.c: shown_len and shown_row
  blink,        \* repl.c; between frames the line is drawn as blink says
  osk_on, active,                    \* repl.c
  history, hist_count, hist_at,      \* repl.c
  stack,        \* what is under way over the launcher: "prompt", "desk", "other"
  REPAINTS,     \* wm.fth, up to Many
  DIRTY,        \* wm.fth
  stepping,     \* whether repl_window_step takes keys
  taken,        \* repl.c: taken, that something it ran had the screen
  win_seen, win_last_focus,          \* repl.c
  desks,        \* desks started
  said, back,   \* history: the lines to be recalled, the latest last, and how far back one is
  lost          \* history: the repaint that was asked for last is not coming

wvars == <<REPAINTS, DIRTY, stepping, taken, lost, win_seen, win_last_focus>>
hvars == <<history, hist_count, hist_at, said, back>>
vars  == <<con, line, shown, blink, osk_on, active, hvars, stack, wvars, desks>>

Never == [len |-> -1, row |-> -1]

Init ==
  /\ con = con_init("osk") /\ line = <<>> /\ shown = Never /\ blink = 0
  /\ osk_on = FALSE /\ active = FALSE
  /\ history = [i \in 0 .. HISTORY - 1 |-> <<>>] /\ hist_count = 0 /\ hist_at = 0
  /\ stack = <<>> /\ REPAINTS = 0 /\ DIRTY = FALSE
  /\ stepping = FALSE /\ taken = FALSE /\ lost = FALSE
  /\ win_seen = 0 /\ win_last_focus = -2 /\ desks = 0
  /\ said = <<>> /\ back = 0

On(what) == stack # <<>> /\ Last(stack) = what
Typing   == On("prompt") \/ (On("desk") /\ stepping /\ win_last_focus = 1)

line_max == LINE_MAX[con.place]
Fit(l, p) == IF Len(l) > LINE_MAX[p] THEN SubSeq(l, 1, LINE_MAX[p]) ELSE l

-----------------------------------------------------------------------------
(* The layout, and the line on it.                                         *)

LaidOut(c, p) == con_redraw(con_place(Taken(c, p), p))

layout(c, l, osk) ==
  LET p == IF osk THEN "osk" ELSE "full"
  IN  con' = LaidOut(c, p) /\ line' = Fit(l, p) /\ shown' = Never

\* What of the line is drawn: its end, when there is no room for more.
Picture(l, p) == <<"line", SubSeq(l, Len(l) - Len(Fit(l, p)) + 1, Len(l))>>

draw_line(c) ==
  LET e == con_erase_row(c, c.row) IN Drawn(e, [e.rows EXCEPT ![c.row] = Picture(line, c.place)])

Phase(b) == b < HALF

\* The end of a frame, when the cursor blinks on to b.
DrawnAt(b) ==
  /\ blink' = b
  /\ IF Len(line) # shown.len \/ Phase(b) # Phase(blink) \/ con.row # shown.row
     THEN con' = draw_line(con) /\ shown' = [len |-> Len(line), row |-> con.row]
     ELSE UNCHANGED <<con, shown>>

Blinked == (blink + 1) % (2 * HALF)

-----------------------------------------------------------------------------
(* The line and the history.                                               *)

TypeChar ==
  /\ Typing
  /\ \E l \in Lines : Len(l) = Len(line) + 1 /\ Front(l) = line /\ Len(l) <= line_max /\ line' = l
  /\ UNCHANGED <<con, shown, blink, osk_on, active, hvars, stack, wvars, desks>>

RubOut ==
  /\ Typing /\ line # <<>> /\ line' = Front(line)
  /\ UNCHANGED <<con, shown, blink, osk_on, active, hvars, stack, wvars, desks>>

\* Mutant: the oldest line is one that has been written over.
Oldest_one_more == IF hist_count > HISTORY THEN hist_count - HISTORY - 1 ELSE 0
Oldest == IF hist_count > HISTORY THEN hist_count - HISTORY ELSE 0

\* Up and down.
recall(step) ==
  LET at == IF hist_at + step < Oldest THEN Oldest
            ELSE IF hist_at + step >= hist_count THEN hist_count ELSE hist_at + step
  IN  /\ Typing
      /\ hist_at' = at
      /\ line' = IF at = hist_count THEN <<>> ELSE Fit(history[at % HISTORY], con.place)
      /\ back' = IF back - step < 0 THEN 0 ELSE IF back - step > Len(said) THEN Len(said) ELSE back - step
      /\ UNCHANGED <<con, shown, blink, osk_on, active, history, hist_count, said, stack, wvars, desks>>

Newest == hist_count > 0 /\ history[(hist_count - 1) % HISTORY] = line

\* remember, and hist_at after it.  Bound: MaxCount.
remember ==
  /\ IF line = <<>> \/ Newest THEN UNCHANGED <<history, hist_count>>
     ELSE /\ hist_count < MaxCount
          /\ history' = [history EXCEPT ![hist_count % HISTORY] = line]
          /\ hist_count' = hist_count + 1
  /\ said' = IF line = <<>> \/ (said # <<>> /\ Last(said) = line) THEN said
             ELSE LET s == Append(said, line) IN IF Len(s) > HISTORY THEN Tail(s) ELSE s
  /\ hist_at' = hist_count' /\ back' = 0

\* The echo of the line, where the line was.
Echo(c) == PutRow(con_erase_row(c, c.row))

\* What a line does to the console: nothing, a row, PAGE, or AT-XY.
Outputs(c) == {c, PutRow(c), con_clear(c)} \cup {con_at(c, r) : r \in Gotos}

\* In a window con_place comes after.
After(c) == IF On("desk") THEN con_place(c, "window") ELSE c

\* submit_line, of a line that only prints.
Submit ==
  /\ Typing /\ remember
  /\ line' = <<>> /\ shown' = Never
  /\ IF line = <<>> THEN con' = After(Echo(con)) ELSE con' \in {After(c) : c \in Outputs(Echo(con))}
  /\ UNCHANGED <<blink, osk_on, active, stack, wvars, desks>>

\* Files, the editor, an app's window: something that takes the screen and gives it back.
SubmitTaking ==
  /\ Typing /\ line # <<>> /\ Len(stack) < MaxDepth /\ remember
  /\ line' = <<>> /\ con' = Taken(Echo(con), Away)
  /\ stack' = Append(stack, "other")
  /\ UNCHANGED <<shown, blink, osk_on, active, wvars, desks>>

\* START of an application that is the desk.
DeskStarts ==
  /\ desks < MaxDesks /\ desks' = desks + 1 /\ REPAINTS' = 0 /\ DIRTY' = TRUE
  /\ stepping' = FALSE /\ taken' = FALSE /\ lost' = FALSE

\* RUN, of the desk, from the prompt that has the screen.
SubmitDesk ==
  /\ On("prompt") /\ line # <<>> /\ Len(stack) < MaxDepth /\ remember
  /\ line' = <<>> /\ con' = Taken(Echo(con), Away)
  /\ stack' = Append(stack, "desk") /\ DeskStarts
  /\ UNCHANGED <<shown, blink, osk_on, active, win_seen, win_last_focus>>

\* What took the screen has ended: repl_repaint, and the end of submit_line.  A desk that
\* stopped by an error says so.  What no other desk will ask for is forgotten.
Returns ==
  /\ (On("other") \/ (On("desk") /\ ~stepping)) /\ stack' = Front(stack)
  /\ \E c \in IF On("desk") THEN {Taken(con, Away), PutRow(Taken(con, Away))} ELSE {Taken(con, Away)} :
     LET under == IF stack' = <<>> THEN "launcher" ELSE Last(stack')
         p == IF osk_on THEN "osk" ELSE "full"
     IN CASE under = "prompt" ->
               /\ IF active THEN layout(c, line, osk_on) ELSE con' = c /\ shown' = Never /\ UNCHANGED line
          [] under = "desk" ->
               /\ IF active THEN con' = con_place(LaidOut(c, p), "window") /\ line' = Fit(line, p)
                  ELSE con' = con_place(c, "window") /\ UNCHANGED line
               /\ shown' = Never
          [] OTHER -> con' = c /\ UNCHANGED <<line, shown>>
  /\ taken' = (taken \/ On("desk")')
  /\ IF On("desk") THEN REPAINTS' = 0 /\ DIRTY' = FALSE /\ lost' = FALSE
     ELSE UNCHANGED <<REPAINTS, DIRTY, lost>>
  /\ win_last_focus' = IF On("desk") /\ desks = MaxDesks THEN -2 ELSE win_last_focus
  /\ UNCHANGED <<blink, osk_on, active, hvars, stepping, win_seen, desks>>

-----------------------------------------------------------------------------
(* The prompt with the screen to itself.                                   *)

\* Opened by the launcher; or by Files or the like, with a command that prints.
PromptOpen ==
  /\ stack = <<>> /\ stack' = <<"prompt">>
  /\ osk_on' \in BOOLEAN /\ active' = TRUE /\ hist_at' = hist_count /\ back' = 0
  /\ layout(con, line, osk_on')
  /\ UNCHANGED <<blink, history, hist_count, said, wvars, desks>>

\* Bound: the command was the last line before, so that the history stays as it is.
PromptRuns ==
  /\ On("other") /\ Len(stack) < MaxDepth /\ said # <<>> /\ stack' = Append(stack, "prompt")
  /\ osk_on' \in BOOLEAN /\ active' = TRUE /\ hist_at' = hist_count /\ back' = 0
  /\ LET c == LaidOut(con, IF osk_on' THEN "osk" ELSE "full") IN con' \in Outputs(Echo(c))
  /\ line' = <<>> /\ shown' = Never
  /\ UNCHANGED <<blink, history, hist_count, said, wvars, desks>>

\* R.
Toggle ==
  /\ On("prompt") /\ osk_on' = ~osk_on
  /\ layout(con, line, osk_on')
  /\ UNCHANGED <<blink, active, hvars, stack, wvars, desks>>

\* L, or BYE.  What PromptOpen sets anyway is forgotten when no other prompt is under way.
PromptLeave ==
  /\ On("prompt") /\ stack' = Front(stack)
  /\ active' = FALSE /\ con' = Taken(con_place(con, "osk"), Away)
  /\ osk_on' = (osk_on /\ Contains(stack', "prompt"))
  /\ UNCHANGED <<line, shown, blink, hvars, wvars, desks>>

\* The end of a turn of the loop.
PromptFrame ==
  /\ On("prompt") /\ DrawnAt(Blinked)
  /\ UNCHANGED <<line, osk_on, active, hvars, stack, wvars, desks>>

-----------------------------------------------------------------------------
(* The prompt in a window of the desk.                                     *)

DeskOpen ==
  /\ stack = <<>> /\ stack' = <<"desk">> /\ DeskStarts
  /\ UNCHANGED <<con, line, shown, blink, osk_on, active, hvars, win_seen, win_last_focus>>

\* The window has moved or the desk was painted.
Placed(again, c) == IF again THEN con_redraw(con_place(c, "window")) ELSE c

\* Mutant: only the focus, for the cursor's sake.
Known_but_focus(again, focused) == IF focused # win_last_focus THEN Never ELSE shown

\* What is known to be drawn of the line.
Known(again, focused) == IF again \/ focused # win_last_focus THEN Never ELSE shown

\* Bound: repaints that are told apart, as far as another desk will ask.
Many == IF desks < MaxDesks THEN 2 ELSE 1

\* FRAME, up to the keys of the prompt's window: HANDLE may ask for the repaint, and with one
\* only does its focus change, or is it dragged.  The count is another than the last that was
\* seen, except the first of a desk after one that counted to one as well.
DeskFrame(focused, repaint) ==
  /\ On("desk") /\ ~stepping /\ stepping' = TRUE
  /\ DIRTY \/ focused # win_last_focus => repaint
  /\ REPAINTS' = IF repaint /\ REPAINTS < Many THEN REPAINTS + 1 ELSE REPAINTS
  /\ DIRTY' = repaint /\ lost' = (lost /\ ~repaint)
  /\ LET again == repaint /\ ~(REPAINTS = 0 /\ win_seen = 1)
         c == IF repaint THEN Taken(con, "window") ELSE con
     IN  /\ con' = Placed(again, c)
         /\ win_seen' = IF desks < MaxDesks THEN REPAINTS' ELSE 0
         /\ shown' = Known(again, focused)
  /\ win_last_focus' = focused
  /\ UNCHANGED <<line, blink, osk_on, active, hvars, stack, taken, desks>>

\* Mutant: REPAINT clears DIRTY before the windows are drawn; between repaints nobody asks.
Asked_in_repaint == taken /\ DIRTY

\* What is left of DRAW-PROMPT's "something had the screen: repaint" at the end of the frame:
\* REPAINT clears DIRTY after all the draw words.
Asked == taken /\ ~DIRTY

\* The end of repl_window_step, of DRAW-PROMPT and of the frame.
DeskDraw ==
  /\ On("desk") /\ stepping /\ stepping' = FALSE
  /\ DrawnAt(IF win_last_focus = 1 THEN Blinked ELSE HALF)
  /\ taken' = FALSE /\ DIRTY' = Asked /\ lost' = (lost \/ (taken /\ DIRTY))
  /\ UNCHANGED <<line, osk_on, active, hvars, stack, REPAINTS, win_seen, win_last_focus, desks>>

\* Another window's draw word prints, inside its own edges.
OtherPrints ==
  /\ Prints \/ DIRTY
  /\ On("desk") /\ ~stepping
  /\ con' = [PutRow([con EXCEPT !.view = Away]) EXCEPT !.view = con.view]
  /\ UNCHANGED <<line, shown, blink, osk_on, active, hvars, stack, wvars, desks>>

\* Whichever loop has the screen goes round; nobody has to type, and what took the screen
\* may keep it.
Frame ==
  \/ PromptFrame \/ DeskDraw
  \/ \E focused \in {0, 1}, repaint \in BOOLEAN : DeskFrame(focused, repaint)

Next ==
  \/ TypeChar \/ RubOut \/ recall(-1) \/ recall(1) \/ Submit \/ SubmitTaking \/ SubmitDesk \/ Returns
  \/ PromptOpen \/ PromptRuns \/ Toggle \/ PromptLeave \/ DeskOpen \/ OtherPrints \/ Frame

Spec == Init /\ [][Next]_vars /\ WF_vars(Frame)

-----------------------------------------------------------------------------
(* Properties.                                                             *)

LineOn(r) == con.rows[r] = Picture(line, con.place)

\* The window has been placed since the screen was taken: no repaint is due or was lost.
Painted == ~taken /\ ~lost /\ (DIRTY => stepping)

\* The prompt is where one types: the innermost, with nothing between it and the screen.
Running == (On("prompt") /\ active) \/ (On("desk") /\ Painted)

\* Whatever was printed, scrolled, cleared, laid out, moved to a window and back, or had the
\* screen in between: the prompt's rows are on the screen as its copy has them, and the line
\* on none but the cursor's.  In the desk's window that is so from the repaint that follows
\* whoever had the screen, unless that one was asked for during a repaint: which is lost.
ScreenShowsTheText ==
  Running => /\ Seen(con)
             /\ \A r \in Region(con.place) :
                  con.rows[r] = con.text[r] \/ (r = con.row /\ con.text[r] = Blank /\ con.rows[r] # Ink)

\* "The arrow keys recalling earlier lines" (repl.c): the lines that were run, one by one
\* from the latest, each once however often it was run in a row, and those of all prompts.
RecallsInOrder ==
  [][\A step \in {-1, 1} : recall(step) =>
       line' = IF back' = 0 THEN <<>> ELSE Fit(said[Len(said) + 1 - back'], con.place)]_vars

\* The line is drawn only when its length, the row or the blinking changes: still, what was
\* typed or recalled is on the screen some time, and after whatever had the screen; in the
\* desk's window unless the repaint is lost, of whoever had the screen from within one.
LineAppears == []<>(Running => Seen(con) /\ LineOn(con.row))

-----------------------------------------------------------------------------
(* What is said of the code and is not so (README, "What was found").      *)

\* "The prompt comes back when it closes" (forth.c): the loop of a prompt has the screen.
PromptIsThere == On("prompt") => Seen(con)

\* "Something had the screen: repaint" (desk.fth:135): the desk is painted again.
DeskIsRepainted == On("desk") /\ ~stepping /\ ~DIRTY => Seen(con)

\* After a frame the line on the screen is the line.
LineAtOnce == [][PromptFrame /\ active => LineOn(con.row)']_vars
=============================================================================
