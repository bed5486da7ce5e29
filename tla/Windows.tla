------------------------------- MODULE Windows -------------------------------
(***************************************************************************)
(* src/src/apps/wm.fth: the window manager, once a frame, in the loop that *)
(* desktop.c gives an application with the whole screen.  The screen is    *)
(* painted by parts: all of it when the layout changed, and between times  *)
(* only inside the windows that nothing covers.                            *)
(*                                                                         *)
(* The screen is a grid of cells.  A title bar is a row of them, with the  *)
(* close box in its last; the windows are all of one size, and edges,      *)
(* titles and the pointer are left out.  What a window draws is its        *)
(* picture, all of it at once, but for one window that draws it in rows,   *)
(* a frame at a time, as DRAW-MANDEL of wm.fth or a task of desk.fth does. *)
(* The prompt of desk.fth is a window too: a line that is typed at it runs *)
(* in the middle of the painting, and may open windows or bring the editor *)
(* forward there and then.                                                 *)
(***************************************************************************)
EXTENDS Integers, Sequences, FiniteSetsExt

CONSTANTS
  SCREEN_W, SCREEN_H, WIN_W, WIN_H,  \* in cells
  Places,     \* where the windows are put when they are made; as many as MAX-WINS
  Slow,       \* the window, by its place in Places, that draws in rows
  Program,    \* how: "mandel", "task", or "animation", a task with a NEXT
  WRAP,       \* REPAINTS counts modulo this: 2^32 on the machine
  Last,       \* the last window may be closed
  Prompt,     \* desk.fth: the window of the prompt, 0 for none
  Editor,     \* desk.fth: the window of the editor, 0 for none
  Leaving     \* B is pressed now and then

ASSUME WindowsAssumption ==
  /\ SCREEN_W \in Nat /\ SCREEN_H \in Nat
  /\ WIN_W \in 2 .. SCREEN_W /\ WIN_H \in 2 .. SCREEN_H
  /\ Places \in Seq((0 .. SCREEN_W - WIN_W) \X (0 .. SCREEN_H - WIN_H))
  /\ Slow \in 1 .. Len(Places)
  /\ Program \in {"mandel", "task", "animation"}
  /\ WRAP \in Nat \ {0, 1}
  /\ {Prompt, Editor} \subseteq 0 .. Len(Places) \ {Slow}
  /\ Prompt = 0 <=> Editor = 0
  /\ Prompt = Editor => Prompt = 0
  /\ Last \in BOOLEAN /\ Leaving \in BOOLEAN

VARIABLES
  wins,       \* wm.fth: WINS, the records from 0
  n,          \* wm.fth: #WINS
  dragging,   \* wm.fth: DRAGGING
  grab,       \* wm.fth: GRABX, GRABY
  was_down,   \* wm.fth: WAS-DOWN
  dirty,      \* wm.fth: DIRTY
  repaints,   \* wm.fth: REPAINTS
  screen,     \* what each cell shows: a window and a part of it, or the desk
  slow,       \* the window that draws in rows: MROW or >ROW#, >SEEN, LASTX/Y or >WHERE
  phase,      \* of desktop.c's loop: "poll", "frame", and "left" at the end
  leave,      \* desktop.c: leave
  b_down,     \* the button B
  b_last,     \* input.c: last_buttons, of B
  b_polls,    \* history: turns of the loop whose poll found B down since it was pressed
  grabbed,    \* history: the window its button went down on, 0 for none
  carried,    \* history: the window this frame has moved, 0 for none
  meddled,    \* history: the desk changed the table since the button went down
  lost        \* history: DIRTY was set while REPAINT ran, and is not set any more

layout == <<wins, n, dragging, grab, was_down, dirty>>
button == <<b_down, b_last, b_polls, leave>>
vars == <<layout, repaints, screen, slow, phase, button, grabbed, carried, meddled, lost>>

Cells == (0 .. SCREEN_W - 1) \X (0 .. SCREEN_H - 1)
Records == 0 .. Len(Places) - 1
ROWS == WIN_H - 1

Rect(w) == (w.x .. w.x + WIN_W - 1) \X (w.y .. w.y + WIN_H - 1)
Bar(w) == (w.x .. w.x + WIN_W - 1) \X {w.y}
Client(w) == Rect(w) \ Bar(w)
Row(w, rows) == (w.x .. w.x + WIN_W - 1) \X {w.y + 1 + r : r \in rows \cap 0 .. ROWS - 1}
Shut(w) == <<w.x + WIN_W - 1, w.y>>

\* A table h of windows: the ones that are open, and WINDOW-OF, as a set.
Ids(h) == {h.wins[i].id : i \in 0 .. h.n - 1}
WindowOf(h, id) == {i \in 0 .. h.n - 1 : h.wins[i].id = id}

DESK == <<0, "desk">>

-----------------------------------------------------------------------------
(* Drawing: d is the screen and what the window that draws in rows knows.  *)

Show(d, cells, what) ==
  [d EXCEPT !.screen = [c \in Cells |-> IF c \in cells THEN what ELSE @[c]]]

\* DRAW-MANDEL: two rows, from the first again when the canvas is somewhere else.
MandelRows(d, w) ==
  LET row == IF d.slow.where = <<w.x, w.y>> THEN d.slow.row ELSE 0
  IN Show([d EXCEPT !.slow.where = <<w.x, w.y>>,
                    !.slow.row = IF row + 2 < ROWS THEN row + 2 ELSE ROWS],
          Row(w, {row, row + 1}), <<w.id, "picture">>)

\* Mutant: a picture that was painted over goes on where it was.
TaskStep_ignores_repaints(d, w, now) ==
  LET again == d.slow.where # <<w.x, w.y>>
      e == IF again THEN Show([d EXCEPT !.slow = [row |-> 0, seen |-> now, where |-> <<w.x, w.y>>]],
                              Client(w), <<w.id, "panel">>)
           ELSE d
  IN IF e.slow.row < ROWS
     THEN Show([e EXCEPT !.slow.row = @ + 1], Row(w, {e.slow.row}), <<w.id, "picture">>)
     ELSE IF Program = "animation" THEN [e EXCEPT !.slow.row = 0] ELSE e

\* TASK-STEP: one row, from the first again, on a clean canvas, when it was moved or
\* painted over.
TaskStep(d, w, now) ==
  LET again == d.slow.seen # now \/ d.slow.where # <<w.x, w.y>>
      e == IF again THEN Show([d EXCEPT !.slow = [row |-> 0, seen |-> now, where |-> <<w.x, w.y>>]],
                              Client(w), <<w.id, "panel">>)
           ELSE d
  IN IF e.slow.row < ROWS
     THEN Show([e EXCEPT !.slow.row = @ + 1], Row(w, {e.slow.row}), <<w.id, "picture">>)
     ELSE IF Program = "animation" THEN [e EXCEPT !.slow.row = 0] ELSE e

Contents(d, w, now) ==
  IF w.id # Slow THEN Show(d, Client(w), <<w.id, "picture">>)
  ELSE IF Program = "mandel" THEN MandelRows(d, w) ELSE TaskStep(d, w, now)

\* The panel, the bar, in the colour of the front one or not, and what is inside.
Paint(d, w, front, now) ==
  Contents(Show(Show(d, Client(w), <<w.id, "panel">>),
                Bar(w), <<w.id, IF front THEN "front" ELSE "behind">>), w, now)

Overlap(v, w) == Rect(v) \cap Rect(w) # {}

\* Mutant: COVERED? stops a window short of the front one.
Covered_not_by_front(h, i) == \E j \in i + 1 .. h.n - 2 : Overlap(h.wins[i], h.wins[j])

Covered(h, i) == \E j \in i + 1 .. h.n - 1 : Overlap(h.wins[i], h.wins[j])

\* The table as a loop that paints finds it at i: once the prompt is drawn it is a.
At(h, a, i) == IF \E p \in WindowOf(h, Prompt) : p < i THEN a ELSE h

(***************************************************************************)
(* REPAINT.  Its DO has the number of windows from before the first one is *)
(* painted.  When there is none it runs through all the numbers there are, *)
(* over the records of what was closed to one that never was, whose draw   *)
(* word is no execution token: the application stops, with the desk        *)
(* cleared (what of the closed ones it paints first is left out).          *)
(***************************************************************************)
Repainted(h, a, d) ==
  LET now == (repaints + 1) % WRAP
      P[i \in 0 .. h.n] ==
        IF i = 0 THEN Show(d, Cells, DESK)
        ELSE Paint(P[i - 1], At(h, a, i - 1).wins[i - 1], i = At(h, a, i - 1).n, now)
  IN P[h.n]

RedrawnContents(h, a, d) ==
  LET P[i \in 0 .. h.n] ==
        IF i = 0 THEN d
        ELSE IF Covered(At(h, a, i - 1), i - 1) THEN P[i - 1]
        ELSE Contents(P[i - 1], At(h, a, i - 1).wins[i - 1], repaints)
  IN P[h.n]

-----------------------------------------------------------------------------
(* The mouse: h is the layout.                                             *)

Raise(h, i) ==
  [h EXCEPT !.wins = [j \in Records |-> IF i <= j /\ j < h.n - 1 THEN @[j + 1]
                                        ELSE IF j = h.n - 1 THEN @[i] ELSE @[j]]]

\* A record that is no window's, whatever it was left with: NEW-WINDOW fills all of it.
Blank == [id |-> 1, x |-> 0, y |-> 0]

Close(h, i) ==
  [h EXCEPT !.wins = [j \in Records |-> IF i <= j /\ j < h.n - 1 THEN @[j + 1]
                                        ELSE IF j >= h.n - 1 THEN Blank ELSE @[j]],
            !.n = IF @ > 0 THEN @ - 1 ELSE 0]

Under(h, p) == {i \in 0 .. h.n - 1 : p \in Rect(h.wins[i])}
Topmost(h, p) == IF Under(h, p) = {} THEN -1 ELSE Max(Under(h, p))
IdUnder(h, p) == IF Under(h, p) = {} THEN 0 ELSE h.wins[Topmost(h, p)].id

\* A button has just gone down: the window under it comes forward, and its bar closes or takes it.
Press(h, p) ==
  LET r == Raise(h, Topmost(h, p))
      top == h.n - 1
      w == r.wins[top]
  IN IF Topmost(h, p) < 0 THEN h
     ELSE IF p \notin Bar(w) THEN [r EXCEPT !.dirty = TRUE]
     ELSE IF p = Shut(w) THEN [Close(r, top) EXCEPT !.dirty = TRUE]
     ELSE [r EXCEPT !.dragging = top, !.grab = <<p[1] - w.x, p[2] - w.y>>, !.dirty = TRUE]

Within(a, limit) == IF a < 0 THEN 0 ELSE IF a > limit THEN limit ELSE a

\* Mutant: the left and the top are minded, the right and the bottom are not.
Drag_half_clamped(h, p) ==
  IF h.dragging < 0 THEN h
  ELSE [h EXCEPT !.wins[h.dragging].x = Within(p[1] - h.grab[1], SCREEN_W),
                 !.wins[h.dragging].y = Within(p[2] - h.grab[2], SCREEN_H), !.dirty = TRUE]

\* The window goes with the pointer, and stays on the screen.
Drag(h, p) ==
  IF h.dragging < 0 THEN h
  ELSE [h EXCEPT !.wins[h.dragging].x = Within(p[1] - h.grab[1], SCREEN_W - WIN_W),
                 !.wins[h.dragging].y = Within(p[2] - h.grab[2], SCREEN_H - WIN_H), !.dirty = TRUE]

\* Mutant: a release that does not let go.
Handle_holds_on(h, p, hit) ==
  LET pressed == IF hit /\ ~h.was_down THEN Press(h, p) ELSE h
  IN [(IF hit THEN Drag(pressed, p) ELSE pressed) EXCEPT !.was_down = hit]

Handle(h, p, hit) ==
  LET pressed == IF hit /\ ~h.was_down THEN Press(h, p) ELSE h
  IN [(IF hit THEN Drag(pressed, p) ELSE [pressed EXCEPT !.dragging = -1]) EXCEPT !.was_down = hit]

-----------------------------------------------------------------------------
(* The loop.                                                               *)

\* B moves at any moment and stays where it is until both polls of the loop have seen it.
PressB ==
  /\ Leaving /\ ~b_down /\ ~b_last /\ phase # "left"
  /\ b_down' = TRUE /\ b_polls' = 0
  /\ UNCHANGED <<layout, repaints, screen, slow, phase, leave, b_last, grabbed, carried, meddled, lost>>

ReleaseB ==
  /\ b_down /\ b_polls > 0 /\ phase = "poll"
  /\ b_down' = FALSE /\ b_polls' = 0
  /\ UNCHANGED <<layout, repaints, screen, slow, phase, leave, b_last, grabbed, carried, meddled, lost>>

\* desktop.c: the poll of the loop, and what it says of B.
Poll ==
  /\ phase = "poll"
  /\ leave' = (b_down /\ ~b_last)
  /\ b_last' = b_down
  /\ b_polls' = IF b_down THEN 1 ELSE b_polls
  /\ phase' = "frame"
  /\ UNCHANGED <<layout, repaints, screen, slow, b_down, grabbed, carried, meddled, lost>>

\* The front one of the prompt and the editor, which has the keys; 0 for none.
FrontTaker(h) ==
  LET takers == WindowOf(h, Prompt) \cup WindowOf(h, Editor)
  IN IF takers = {} THEN 0 ELSE h.wins[Max(takers)].id

\* SWITCH, to the other of the two if it is open.
Switched(h) ==
  {[Raise(h, i) EXCEPT !.dirty = TRUE] :
     i \in WindowOf(h, IF FrontTaker(h) = Prompt THEN Editor ELSE Prompt)}

(***************************************************************************)
(* What desk.fth wants between two frames: the one that has the keys is    *)
(* the editor and closes, or the other of the two comes forward.           *)
(***************************************************************************)
BetweenFrames(h) ==
  LET closing == IF FrontTaker(h) = Editor THEN WindowOf(h, Editor) ELSE {}
  IN {h} \cup {[Close(h, i) EXCEPT !.dirty = TRUE] : i \in closing} \cup Switched(h)

NewWindow(h, id) ==
  IF h.n < Len(Places)
  THEN [h EXCEPT !.wins[h.n] = [id |-> id, x |-> Places[id][1], y |-> Places[id][2]], !.n = @ + 1]
  ELSE h

\* EDIT: the editor's window comes forward, or is made.
Edited(h) ==
  LET own == WindowOf(h, Editor)
  IN [(IF own = {} THEN NewWindow(h, Editor) ELSE Raise(h, Max(own))) EXCEPT !.dirty = TRUE]

\* OPEN-AT: an app that was read in has a window.
Opened(h, id) == [NewWindow(h, id) EXCEPT !.dirty = TRUE]

(***************************************************************************)
(* What the draw word of the prompt may leave of the table, if it is drawn *)
(* at all: OPEN, and the editor's ^R, make the window of an app; a line    *)
(* may also have had the screen, or say EDIT.  Each sets DIRTY.            *)
(***************************************************************************)
Asked(h) ==
  LET drawn == \E i \in WindowOf(h, Prompt) : h.dirty \/ ~Covered(h, i)
      apps == {id \in 1 .. Len(Places) \ {Prompt, Editor} : h.n < Len(Places) /\ id \notin Ids(h)}
      typed == IF FrontTaker(h) = Prompt THEN {[h EXCEPT !.dirty = TRUE], Edited(h)} ELSE {}
  IN IF drawn THEN {Opened(h, id) : id \in apps} \cup typed ELSE {}

\* NEW-TASK
Fresh == [row |-> 0, seen |-> -1, where |-> <<-1, -1>>]

(***************************************************************************)
(* A frame over the table g, in which the mouse makes o of it, the table   *)
(* and what was under it, and the prompt makes a of that, if it was asked  *)
(* for something.  REPAINT ends with 0 DIRTY ! whatever was asked.         *)
(***************************************************************************)
Turn(hit, g, o, asked, a) ==
  LET h == o.h
      d == [screen |-> screen, slow |-> slow]
      painted == IF h.dirty THEN Repainted(h, a, d) ELSE RedrawnContents(h, a, d)
      stopped == h.n = 0
      now == (repaints + 1) % WRAP
  IN /\ Last \/ h.n > 0
     /\ wins' = a.wins /\ n' = a.n /\ dragging' = a.dragging /\ grab' = a.grab
     /\ was_down' = a.was_down
     /\ dirty' = (stopped \/ (asked /\ ~h.dirty))
     /\ repaints' = IF h.dirty THEN now ELSE repaints
     /\ screen' = painted.screen
     /\ slow' = IF Slow \in Ids(a) \ Ids(h) THEN Fresh ELSE painted.slow
     /\ phase' = IF leave \/ stopped THEN "left" ELSE "poll"
     /\ b_last' = b_down
     /\ grabbed' = IF ~hit THEN 0 ELSE IF was_down THEN grabbed ELSE o.under
     /\ carried' = IF hit /\ h.dragging >= 0 THEN h.wins[h.dragging].id ELSE 0
     /\ meddled' = (hit /\ (a.wins # h.wins \/ (was_down /\ (meddled \/ g.wins # wins \/ g.n # n))))
     \* Another REPAINT makes it good, if the task sees that it is another.
     /\ lost' = IF h.dirty THEN asked \/ (lost /\ slow.seen = now) ELSE lost
     /\ UNCHANGED <<b_down, b_polls, leave>>

(***************************************************************************)
(* FRAME, with the pointer at p and its button held or not (then it does   *)
(* not matter where).  It polls the controllers again.                     *)
(***************************************************************************)
Frame ==
  /\ phase = "frame"
  /\ \E hit \in BOOLEAN, asked \in BOOLEAN :
     \E g \in BetweenFrames([wins |-> wins, n |-> n, dragging |-> dragging, grab |-> grab,
                             was_down |-> was_down, dirty |-> dirty]) :
     \E o \in {[h |-> Handle(g, p, hit), under |-> IF was_down THEN 0 ELSE IdUnder(g, p)] :
                 p \in IF hit THEN Cells ELSE {<<0, 0>>}} :
     \E a \in IF asked THEN Asked(o.h) ELSE {o.h} : Turn(hit, g, o, asked, a)

\* START, or a desk with all of its windows open.
Init ==
  /\ wins = [i \in Records |-> [id |-> i + 1, x |-> Places[i + 1][1], y |-> Places[i + 1][2]]]
  /\ n = Len(Places)
  /\ dragging = -1 /\ grab = <<0, 0>> /\ was_down = FALSE /\ dirty = TRUE
  /\ repaints = 0
  /\ screen = [c \in Cells |-> DESK]
  /\ slow = Fresh
  /\ phase = "poll" /\ leave = FALSE
  /\ b_down = FALSE /\ b_last = FALSE /\ b_polls = 0
  /\ grabbed = 0 /\ carried = 0 /\ meddled = FALSE /\ lost = FALSE

Next == PressB \/ ReleaseB \/ Poll \/ Frame

Spec == Init /\ [][Next]_vars

-----------------------------------------------------------------------------

(***************************************************************************)
(* The shape of the state: a window that was dragged is on the screen,     *)
(* with all of it, and raising and closing lose no window and double none. *)
(***************************************************************************)
TypeOK ==
  /\ \A i \in Records : wins[i] \in [id : 1 .. Len(Places), x : 0 .. SCREEN_W - WIN_W,
                                     y : 0 .. SCREEN_H - WIN_H]
  /\ n \in 0 .. Len(Places)
  /\ \A i, j \in 0 .. n - 1 : wins[i].id = wins[j].id => i = j
  /\ dragging \in -1 .. Len(Places) - 1
  /\ grab \in (0 .. WIN_W - 1) \X {0}
  /\ {was_down, dirty, meddled, lost} \subseteq BOOLEAN
  /\ repaints \in 0 .. WRAP - 1
  /\ slow.row \in 0 .. ROWS
  /\ phase \in {"poll", "frame", "left"} /\ leave \in BOOLEAN
  /\ b_down \in BOOLEAN /\ b_last \in BOOLEAN /\ b_polls \in 0 .. 1

layoutNow == [wins |-> wins, n |-> n]

(***************************************************************************)
(* Whatever was pressed, dragged, opened and closed, and whatever the      *)
(* windows drew since, every cell shows the window in front there: its     *)
(* bar, in the front colour if it is the front one, or its inside; and the *)
(* desk where there is none.  It is so when no repaint is due, and none    *)
(* was asked for while one ran: that request is lost (wm.fth:153), and the *)
(* screen is wrong until the next.                                         *)
(***************************************************************************)
ScreenIsLayout ==
  ~dirty /\ ~lost /\ phase # "left" =>
    \A c \in Cells :
      LET i == Topmost(layoutNow, c)
          w == wins[i]
      IN IF i < 0 THEN screen[c] = DESK
         ELSE screen[c] \in IF c \in Bar(w) THEN {<<w.id, IF i = n - 1 THEN "front" ELSE "behind">>}
                            ELSE {<<w.id, "panel">>, <<w.id, "picture">>}

(***************************************************************************)
(* The rows that the slow window has drawn are on the screen, where it is  *)
(* now and as far as nothing is in front of it: no repaint takes them away *)
(* without its drawing them again, but for one during which another was    *)
(* asked for (wm.fth:153).                                                 *)
(***************************************************************************)
PictureKept ==
  ~dirty /\ ~lost =>
    \A i \in 0 .. n - 1 :
      wins[i].id = Slow =>
        \A c \in Row(wins[i], 0 .. slow.row - 1) :
          Topmost(layoutNow, c) = i => screen[c] = <<Slow, "picture">>

(***************************************************************************)
(* The window that goes with the pointer is the one its button went down   *)
(* on, from the press to the release, whatever came forward or was closed  *)
(* before, if nothing changes the table meanwhile.                         *)
(***************************************************************************)
DragCarriesTheGrabbed == ~meddled => carried \in {0, grabbed}

-----------------------------------------------------------------------------
(* What is said of the code and is not so (README, "What was found").      *)

\* wm.fth of DRAG, "carry the window with the pointer": whatever the desk does meanwhile.
DragCarriesThatWindow == carried \in {0, grabbed}

(***************************************************************************)
(* wm.fth:143, "The chrome is drawn when something moves", and desk.fth,   *)
(* where each word that changes the table ends with 1 DIRTY !: when no     *)
(* repaint is due, the bars of the windows in front are on the screen.     *)
(***************************************************************************)
ChromeFollowsLayout ==
  ~dirty /\ phase # "left" =>
    \A c \in Cells :
      LET i == Topmost(layoutNow, c)
      IN i >= 0 /\ c \in Bar(wins[i]) =>
           screen[c] = <<wins[i].id, IF i = n - 1 THEN "front" ELSE "behind">>

(***************************************************************************)
(* desk.fth:55, "The desk was cleared, or the window moved: start the      *)
(* picture again from the top": what a task has drawn of it is never taken *)
(* away behind its back.                                                   *)
(***************************************************************************)
TaskSeesTheRepaint ==
  ~dirty =>
    \A i \in 0 .. n - 1 :
      wins[i].id = Slow =>
        \A c \in Row(wins[i], 0 .. slow.row - 1) :
          Topmost(layoutNow, c) = i => screen[c] = <<Slow, "picture">>

(***************************************************************************)
(* B leaves: the first turn of the loop that begins with B down is the     *)
(* last.                                                                   *)
(***************************************************************************)
BLeaves == phase = "frame" /\ b_down /\ b_polls > 0 => leave

(***************************************************************************)
(* Nothing else does: the box of a window closes it, and the application   *)
(* goes on.                                                                *)
(***************************************************************************)
OnlyBLeaves == phase = "left" => leave
==============================================================================
