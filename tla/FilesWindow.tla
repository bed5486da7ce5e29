----------------------------- MODULE FilesWindow -----------------------------
(***************************************************************************)
(* src/src/files.c: the Files window, opened by FILES at a prompt or in    *)
(* the desktop, over the one buffer and the files of EditSession.  It has  *)
(* the screen; the editor it opens takes it and gives it back, and so does *)
(* a program it runs, where there may be a prompt, and on that the Files   *)
(* window again: what it knows is in static variables, shared by the two.  *)
(*                                                                         *)
(* Of the screen the rows of the list are kept.  What a controller, a      *)
(* mouse and a keyboard do alike is one action.  Names in ROM that are not *)
(* of Files are listed, and not opened or run.                             *)
(***************************************************************************)
EXTENDS EditSession, TLC

CONSTANTS
  Order,      \* the files in order of name
  LIST_ROWS,  \* files.c
  MaxDepth    \* bound: how deep windows and programs are one in another

ASSUME FilesAssumption ==
  /\ Order \in Seq(Files) /\ ToSet(Order) = Files /\ Rom # <<>>
  /\ LIST_ROWS \in Nat \ {0} /\ MaxDepth \in Nat

VARIABLES
  stack,              \* what is over the first prompt: "files", or the "run" of a program
  count, sel, top,    \* files.c
  armed,              \* files.c: the entry Z was pressed on once; -1: none
  note,               \* files.c
  rows,               \* the list on the screen, from its first row
  offered             \* history: the file "press Z again" was said of, while that stands

fvars == <<stack, count, sel, top, armed, note, rows, offered>>
vars  == <<svars, fvars>>

Rows == 0 .. LIST_ROWS - 1

OnPak(d, f) == f \in Files /\ d[f] # Absent

\* fs_entry, from the first: yours in order of name, then the ROM's that are not hidden.
Listed(d) ==
  LET yours == {f \in Files : OnPak(d, f)}
  IN  Kept(Order, yours) \o Kept(Rom, ToSet(Rom) \ yours)

Blank == [name |-> Absent, on |-> FALSE]

\* draw_entry: entry i of the list, as it is drawn when s is selected.
Entry(list, i, s) == IF i \in 0 .. Len(list) - 1 THEN [name |-> list[i + 1], on |-> i = s] ELSE Blank

draw_all ==
  LET list == Listed(disk')
  IN  /\ count' = Len(list)
      /\ sel' = IF sel < Len(list) THEN sel ELSE IF list = <<>> THEN 0 ELSE Len(list) - 1
      /\ rows' = [r \in Rows |-> Entry(list, top + r, sel')]
      /\ UNCHANGED top

\* Something else has the screen.
Covered_ == rows' = [r \in Rows |-> Blank]

Init ==
  /\ SessionInit
  /\ stack = <<>> /\ count = 0 /\ sel = 0 /\ top = 0 /\ armed = -1
  /\ note = "none" /\ rows = [r \in Rows |-> Blank] /\ offered = Absent

Under(what)  == stack # <<>> /\ Last(stack) = what
AtThePrompt  == turn = "prompt" /\ (stack = <<>> \/ Under("run"))
Browsing     == turn = "prompt" /\ Under("files")

-----------------------------------------------------------------------------

\* Bound: FILES is typed when no window of the desk waits for something.
FilesOpen ==
  /\ AtThePrompt /\ Len(stack) < MaxDepth /\ wants = {}
  /\ stack' = Append(stack, "files")
  /\ armed' = -1 /\ note' = "none" /\ offered' = Absent
  /\ UNCHANGED svars
  /\ draw_all

\* What FilesOpen sets anyway is forgotten here, when no other Files window is under this one.
FilesLeave ==
  /\ Browsing
  /\ stack' = Front(stack) /\ Covered_
  /\ IF stack' = <<>> THEN count' = 0 /\ armed' = -1 /\ note' = "none" /\ offered' = Absent
     ELSE UNCHANGED <<count, armed, note, offered>>
  /\ UNCHANGED <<svars, sel, top>>

\* Mutant: the list scrolls, and the two rows that changed are drawn.
pick_draws_two(i) ==
  LET s == IF i >= count THEN count - 1 ELSE IF i < 0 THEN 0 ELSE i
      t == IF s < top THEN s ELSE IF s >= top + LIST_ROWS THEN s - LIST_ROWS + 1 ELSE top
  IN  /\ sel' = s /\ top' = t
      /\ rows' = [r \in Rows |-> IF t + r \in {sel, s} THEN Entry(Listed(disk), t + r, s) ELSE rows[r]]

\* pick: the whole list is drawn when it scrolls, and else the two entries.
pick(i) ==
  LET s == IF i >= count THEN count - 1 ELSE IF i < 0 THEN 0 ELSE i
      t == IF s < top THEN s ELSE IF s >= top + LIST_ROWS THEN s - LIST_ROWS + 1 ELSE top
  IN  /\ sel' = s /\ top' = t
      /\ rows' = [r \in Rows |->
                    IF t # top \/ t + r \in {sel, s} THEN Entry(Listed(disk), t + r, s) ELSE rows[r]]

\* Up and down, a page of them, and a click on another entry.
PickKey ==
  /\ Browsing
  /\ \E i \in {sel - 1, sel + 1, sel - LIST_ROWS, sel + LIST_ROWS}
          \cup {k \in top .. top + LIST_ROWS - 1 : k < count /\ k # sel} : pick(i)
  /\ UNCHANGED <<svars, stack, count, armed, note, offered>>

\* Mutant: only the note is taken back.
Disarm_keeps_armed ==
  /\ note' = IF armed >= 0 THEN "none" ELSE note
  /\ UNCHANGED armed

\* Before anything but Z.
Disarm ==
  /\ armed' = -1
  /\ note' = IF armed >= 0 THEN "none" ELSE note

Selected == Listed(disk)[sel + 1]

\* edit_file, which may not come up: an unsaved file is open on the desk, or reading fails.
Opens(f) ==
  /\ \/ EditFile(f)
     \/ session /\ modified /\ UNCHANGED svars
  /\ offered' = Absent /\ UNCHANGED stack
  /\ IF turn' = "screen" THEN Covered_ /\ UNCHANGED <<count, sel, top>> ELSE draw_all

EditKey == Browsing /\ Selected \in Files /\ Opens(Selected) /\ Disarm

\* A name nobody has used, of those there are.
NewKey ==
  /\ Browsing
  /\ \E f \in Files \ ToSet(Listed(disk)) : Opens(f)
  /\ armed' = -1 /\ note' = "none"

\* desktop_run_file: an app in its window, or the prompt with INCLUDE typed.
Runs ==
  /\ stack' = Append(stack, "run") /\ Covered_
  /\ offered' = Absent /\ UNCHANGED <<count, sel, top>>

RunFileKey ==
  /\ Browsing /\ Selected \in Files /\ Len(stack) < MaxDepth
  /\ Runs /\ Disarm /\ UNCHANGED svars

\* The program has ended, or its prompt was left: as files_app goes on.
RunDone ==
  /\ turn = "prompt" /\ Under("run")
  /\ stack' = Front(stack) /\ note' = "none"
  /\ UNCHANGED <<svars, armed, offered>>
  /\ draw_all

\* The editor gives the screen back, or ^R has saved and runs.
EditorLeaves ==
  /\ turn = "screen" /\ Under("files") /\ LeaveKey
  /\ UNCHANGED <<stack, armed, note, offered>>
  /\ draw_all

EditorRuns ==
  /\ turn = "screen" /\ Under("files") /\ Len(stack) < MaxDepth /\ RunKey
  /\ Runs /\ UNCHANGED <<armed, note>>

\* Z or Delete.
RefuseRom ==
  /\ Browsing /\ ~OnPak(disk, Selected)
  /\ note' = "rom"
  /\ UNCHANGED <<svars, stack, count, sel, top, armed, rows, offered>>

AskDelete ==
  /\ Browsing /\ OnPak(disk, Selected) /\ armed # sel
  /\ armed' = sel /\ note' = "again" /\ offered' = Selected
  /\ UNCHANGED <<svars, stack, count, sel, top, rows>>

\* fs_delete may fail.
Delete ==
  /\ Browsing /\ OnPak(disk, Selected) /\ armed = sel
  /\ \/ disk' = [disk EXCEPT ![Selected] = Absent] /\ note' = "deleted"
     \/ note' = "error" /\ UNCHANGED disk
  /\ armed' = -1 /\ offered' = Absent
  /\ UNCHANGED <<buffer, session, turn, desk, stack>>
  /\ draw_all

\* What the other modules' actions do to this one: nothing.
Elsewhere ==
  /\ \/ stack = <<>> /\ DeskNext
     \/ ScreenKey
     \/ AtThePrompt /\ (PromptWrites \/ \E f \in Files : EditFile(f))
     \/ turn = "screen" /\ ~Under("files") /\ (LeaveKey \/ RunKey)
  /\ UNCHANGED fvars

Next ==
  \/ Elsewhere
  \/ FilesOpen \/ FilesLeave \/ PickKey \/ EditKey \/ NewKey \/ RunFileKey \/ RunDone
  \/ EditorLeaves \/ EditorRuns \/ RefuseRom \/ AskDelete \/ Delete

Spec == Init /\ [][Next]_vars

-----------------------------------------------------------------------------
(* Properties: those of EditSession, and                                   *)

\* What the variables hold.
TypeOK ==
  /\ SessionTypeOK
  /\ stack \in Seq({"files", "run"}) /\ Len(stack) <= MaxDepth
  /\ Browsing => count = Len(Listed(disk)) /\ sel \in 0 .. count - 1
  /\ top \in Nat /\ armed \in -1 .. Len(Order) + Len(Rom)
  /\ note \in {"none", "again", "rom", "deleted", "error"}
  /\ rows \in [Rows -> [name : Files \cup ToSet(Rom) \cup {Absent}, on : BOOLEAN]]
  /\ offered \in Files \cup {Absent}

\* Whatever was edited, run, deleted or scrolled past, the rows on the screen are the files
\* there are, from top on, each as it is, and the selected one and no other is marked.
RowsAreTheFiles ==
  Browsing => \A r \in Rows : rows[r] = Entry(Listed(disk), top + r, sel)

\* "Delete it (twice, to be sure)" (files.c): the file that is deleted is the one that was
\* asked about, with nothing opened or run in between; and no other is marked on the screen.
DeletesWhatItAsked ==
  [][Browsing /\ disk' # disk =>
       \E f \in Files :
         /\ disk' = [disk EXCEPT ![f] = Absent] /\ offered = f
         /\ \A r \in Rows : rows[r].on => rows[r].name = f]_vars

-----------------------------------------------------------------------------
(* What is said of the code and is not so (README, "What was found").      *)

\* The selected entry, which A, START and Z are for, is on the screen.
SelectedIsShown == Browsing => sel - top \in Rows

\* "Press Z (or Delete) again to delete it" (files.c): what deletes a file is pressed while
\* that is on the screen.
DeletesWhileAsking == [][Browsing /\ disk' # disk => note = "again"]_vars
=============================================================================
