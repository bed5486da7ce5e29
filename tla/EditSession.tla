----------------------------- MODULE EditSession -----------------------------
(***************************************************************************)
(* The one buffer of src/src/edit.c and who has it: the editor over the    *)
(* whole screen, or the editor's window on the desk of src/src/apps/desk.fth,*)
(* where the prompt and the editor take keys in turns and what their draw  *)
(* words ask for happens later, between frames or when the prompt is drawn.*)
(*                                                                         *)
(* A text is a member of Texts.  Of the windows only the prompt's and the  *)
(* editor's are kept, back to front; which is covered is not known, nor    *)
(* whether there is room for another.  At least one window stays.          *)
(***************************************************************************)
EXTENDS Integers, Sequences, SequencesExt

CONSTANTS
  Files, Texts,
  Empty,       \* the text of no characters
  Absent,      \* no such file, no such text
  Rom, RomText,\* the names in ROM, in its order, and the text of each
  ReadFails    \* where reading a file may fail: "screen", "window"

ASSUME SessionAssumption ==
  /\ Empty \in Texts /\ Absent \notin Texts /\ Absent \notin Files
  /\ Rom \in Seq(ToSet(Rom)) /\ RomText \in Texts
  /\ ReadFails \subseteq {"screen", "window"}

VARIABLES
  disk,                    \* what the pak has: a text or Absent for each file
  fname, text,             \* edit.c: fname; buf and len
  modified, confirm_quit,  \* edit.c
  session,                 \* edit.c: a file is open in a window
  wins,                    \* wm.fth: WINS, the two that take keys
  at, limit,               \* wm.fth: the index and the end of REDRAW-CONTENTS' loop
  turn,                    \* who reads keys: "frame" is nobody
  wants,                   \* desk.fth: WANT-SWITCH, WANT-CLOSE, WANT-RUN
  owner,                   \* the file that text is of: Absent when reading it failed
  based,                   \* the text that was last read or saved
  warned,                  \* the text that "not saved: leave again" was said of
  asked                    \* the file that ^R asked to run

buffer == <<fname, text, modified, confirm_quit, owner, based, warned>>
desk   == <<wins, at, limit, wants, asked>>
svars  == <<disk, buffer, session, turn, desk>>

Windows == {"prompt", "editor"}

SessionInit ==
  /\ disk \in [Files -> {Empty, Absent}]
  /\ fname = Absent /\ text = Empty
  /\ modified = FALSE /\ confirm_quit = FALSE /\ session = FALSE
  /\ wins = <<"prompt">> /\ at = 0 /\ limit = 1 /\ turn = "frame"
  /\ wants = {}
  /\ owner = Absent /\ based = Empty /\ warned = Absent /\ asked = Absent

-----------------------------------------------------------------------------
(* Opening a file.                                                         *)

\* What reading a file finds: the ROM's is hidden by one of that name.
Contents(f) ==
  IF disk[f] # Absent THEN disk[f] ELSE IF Contains(Rom, f) THEN RomText ELSE Empty

\* load(), when the file is read, or there is none yet.
Loaded(f) ==
  /\ fname' = f
  /\ text' = Contents(f)
  /\ modified' = FALSE /\ confirm_quit' = FALSE
  /\ owner' = f /\ based' = text' /\ warned' = Absent

\* load(), when it is not: the name and the length are already set.
LoadFails(f, where) ==
  /\ where \in ReadFails
  /\ fname' = f /\ text' = Empty
  /\ owner' = Absent
  /\ UNCHANGED <<modified, confirm_quit, based, warned>>

\* Mutant: the editor comes up though the file was not read.
EditFile_goes_on(f) ==
  /\ turn = "prompt"
  /\ ~(session /\ modified)
  /\ session' = FALSE
  /\ Loaded(f) \/ LoadFails(f, "screen")
  /\ turn' = "screen"
  /\ UNCHANGED <<disk, desk>>

\* edit_file, when an unsaved window session does not forbid it.
EditFile(f) ==
  /\ turn = "prompt"
  /\ ~(session /\ modified)
  /\ session' = FALSE
  /\ \/ Loaded(f) /\ turn' = "screen"
     \/ LoadFails(f, "screen") /\ UNCHANGED turn
  /\ UNCHANGED <<disk, desk>>

\* Those of a list that are in K, in their order.
Kept(list, K) ==
  LET k[i \in 0 .. Len(list)] ==
        IF i = 0 THEN <<>> ELSE IF list[i] \in K THEN Append(k[i - 1], list[i]) ELSE k[i - 1]
  IN  k[Len(list)]

RaiseWindow(ws, w) == IF Contains(ws, w) THEN Append(Kept(ws, Windows \ {w}), w) ELSE ws

\* Mutant: the window that is there is not looked for.
ShowEditor_another ==
  /\ wins' \in {wins, Append(wins, "editor")}
  /\ UNCHANGED <<at, limit, wants, asked>>

\* desk.fth: the editor's window, in front; there may be no room for one.
ShowEditor ==
  /\ IF Contains(wins, "editor")
       THEN wins' = RaiseWindow(wins, "editor")
       ELSE wins' \in {wins, Append(wins, "editor")}
  /\ UNCHANGED <<at, limit, wants, asked>>

\* Mutant: the window's file is taken over, saved or not.
DeskEdit_never_busy(f) ==
  /\ turn = "prompt"
  /\ \/ session /\ fname = f /\ ShowEditor /\ UNCHANGED <<buffer, session>>
     \/ ~(session /\ fname = f) /\ Loaded(f) /\ session' = TRUE /\ ShowEditor
     \/ ~(session /\ fname = f) /\ LoadFails(f, "window") /\ UNCHANGED <<session, desk>>
  /\ UNCHANGED <<disk, turn>>

\* EDIT on the desk: edit_window_open, and the window.
DeskEdit(f) ==
  /\ turn = "prompt"
  /\ \/ session /\ fname = f /\ ShowEditor /\ UNCHANGED <<buffer, session>>
     \/ /\ ~(session /\ (fname = f \/ modified))
        /\ \/ Loaded(f) /\ session' = TRUE /\ ShowEditor
           \/ LoadFails(f, "window") /\ UNCHANGED <<session, desk>>
  /\ UNCHANGED <<disk, turn>>

-----------------------------------------------------------------------------
(* Keys in the editor.                                                     *)

Editing == turn \in {"editor", "screen"}

\* A key that changes the text; any but the keys that leave or save forgets the warning.
TypeKey ==
  /\ Editing
  /\ text' \in Texts /\ modified' = TRUE /\ confirm_quit' = FALSE
  /\ UNCHANGED <<disk, fname, owner, based, warned, session, turn, desk>>

\* A key that moves, finds, or does nothing.
OtherKey ==
  /\ Editing
  /\ confirm_quit' = FALSE
  /\ UNCHANGED <<disk, fname, text, modified, owner, based, warned, session, turn, desk>>

\* Mutant: what the controller types is not counted as a change.
PadEdit_unmarked ==
  /\ turn = "screen"
  /\ text' \in Texts
  /\ UNCHANGED <<disk, fname, modified, confirm_quit, owner, based, warned, session, turn, desk>>

\* The controller and the mouse, over the whole screen, go past edit_key.
PadEdit ==
  /\ turn = "screen"
  /\ text' \in Texts /\ modified' = TRUE
  /\ UNCHANGED <<disk, fname, confirm_quit, owner, based, warned, session, turn, desk>>

save ==
  /\ disk' = [disk EXCEPT ![fname] = text]
  /\ modified' = FALSE /\ confirm_quit' = FALSE
  /\ based' = text
  /\ UNCHANGED <<fname, text, owner, warned, session>>

SaveKey ==
  /\ Editing /\ save
  /\ UNCHANGED <<turn, desk>>

\* ^R: what it asks for is done when the prompt is next drawn; over the whole screen,
\* on leaving it.  A save that fails is an OtherKey.
RunKey ==
  /\ Editing /\ save
  /\ IF turn = "editor"
       THEN wants' = wants \cup {"run"} /\ asked' = fname /\ UNCHANGED turn
       ELSE turn' = "prompt" /\ UNCHANGED <<wants, asked>>
  /\ UNCHANGED <<wins, at, limit>>

LeaveWarns ==
  /\ Editing /\ modified /\ ~confirm_quit
  /\ confirm_quit' = TRUE /\ warned' = text
  /\ UNCHANGED <<disk, fname, text, modified, owner, based, session, turn, desk>>

LeaveKey ==
  /\ Editing /\ (~modified \/ confirm_quit)
  /\ IF turn = "editor"
       THEN /\ session' = FALSE /\ turn' = "frame" /\ at' = at + 1
            /\ wants' = wants \cup {"close"}
       ELSE /\ turn' = "prompt" /\ UNCHANGED <<session, at, wants>>
  /\ UNCHANGED <<disk, buffer, wins, limit, asked>>

-----------------------------------------------------------------------------
(* A frame of the desk.                                                    *)

\* The window that is drawn next, of those there were when the frame began.
Drawn(w) == turn = "frame" /\ at < limit /\ wins[at + 1] = w

Focused(w) == Last(wins) = w

\* A window with another over it is left alone.
Covered ==
  /\ turn = "frame" /\ at < limit /\ at + 1 < Len(wins)
  /\ at' = at + 1
  /\ UNCHANGED <<disk, buffer, session, turn, wins, limit, wants, asked>>

\* The end of DRAW-PROMPT: the editor's ^R is run here.
PromptDone ==
  /\ \/ turn = "prompt"
     \/ Drawn("prompt") /\ ~Focused("prompt")
  /\ turn' = "frame" /\ at' = at + 1
  /\ wants' \in IF turn = "prompt" THEN {wants \ {"run"}, (wants \ {"run"}) \cup {"switch"}}
                ELSE {wants \ {"run"}}
  /\ UNCHANGED <<disk, buffer, session, wins, limit, asked>>

PromptReadsKeys ==
  /\ Drawn("prompt") /\ Focused("prompt")
  /\ turn' = "prompt"
  /\ UNCHANGED <<disk, buffer, session, desk>>

\* edit_window_step with no file open.
EditorClosed ==
  /\ Drawn("editor") /\ ~session
  /\ at' = at + 1 /\ wants' = wants \cup {"close"}
  /\ UNCHANGED <<disk, buffer, session, turn, wins, limit, asked>>

EditorReadsKeys ==
  /\ Drawn("editor") /\ session /\ Focused("editor")
  /\ turn' = "editor"
  /\ UNCHANGED <<disk, buffer, session, desk>>

\* The keys are over, or the last was ^O; or the window is not in front.
EditorDone ==
  /\ \/ turn = "editor"
     \/ Drawn("editor") /\ session /\ ~Focused("editor")
  /\ turn' = "frame" /\ at' = at + 1
  /\ wants' \in {wants, IF turn = "editor" THEN wants \cup {"switch"} ELSE wants}
  /\ UNCHANGED <<disk, buffer, session, wins, limit, asked>>

Other(w) == CHOOSE v \in Windows : v # w

\* What BETWEEN-FRAMES leaves, the prompt being there to take the keys.
AfterClose  == IF "close" \in wants THEN Kept(wins, {"prompt"}) ELSE wins
AfterSwitch ==
  IF "switch" \in wants /\ AfterClose # <<>>
    THEN RaiseWindow(AfterClose, Other(Last(AfterClose))) ELSE AfterClose

\* BETWEEN-FRAMES, then the mouse: a click raises a window, or closes it.
NextFrame ==
  /\ turn = "frame" /\ at >= limit
  /\ \/ wins' = AfterSwitch
     \/ \E w \in ToSet(AfterSwitch) :
          wins' \in {RaiseWindow(AfterSwitch, w), Kept(AfterSwitch, Windows \ {w})}
  /\ wins' # <<>>
  /\ at' = 0 /\ limit' = Len(wins')
  /\ wants' = wants \ {"close", "switch"}
  /\ UNCHANGED <<disk, buffer, session, turn, asked>>

\* The desk is left with BYE and started again: the file stays open.
DeskStart ==
  /\ turn = "frame" /\ at >= limit
  /\ wins' = <<"prompt">> /\ at' = 0 /\ limit' = 1
  /\ wants' = {}
  /\ UNCHANGED <<disk, buffer, session, turn, asked>>

\* What else the prompt is used for: a file is written or deleted.
PromptWrites ==
  /\ turn = "prompt"
  /\ \E f \in Files, t \in Texts \cup {Absent} : disk' = [disk EXCEPT ![f] = t]
  /\ UNCHANGED <<buffer, session, turn, desk>>

\* A key over the whole screen that goes on.
ScreenKey == turn = "screen" /\ (TypeKey \/ OtherKey \/ PadEdit \/ SaveKey \/ LeaveWarns)

DeskNext ==
  \/ \E f \in Files : DeskEdit(f)
  \/ turn = "editor" /\ (TypeKey \/ OtherKey \/ SaveKey \/ LeaveWarns \/ RunKey \/ LeaveKey)
  \/ Covered \/ PromptDone \/ PromptReadsKeys
  \/ EditorClosed \/ EditorReadsKeys \/ EditorDone
  \/ NextFrame \/ DeskStart

-----------------------------------------------------------------------------
(* Properties.                                                             *)

Open == session \/ turn = "screen"

\* What the variables hold.
SessionTypeOK ==
  /\ disk \in [Files -> Texts \cup {Absent}]
  /\ fname \in Files \cup {Absent} /\ text \in Texts
  /\ modified \in BOOLEAN /\ confirm_quit \in BOOLEAN /\ session \in BOOLEAN
  /\ wins \in {<<"prompt">>, <<"editor">>, <<"prompt", "editor">>, <<"editor", "prompt">>}
  /\ at \in 0 .. 2 /\ limit \in 1 .. 2
  /\ turn \in {"frame", "prompt", "editor", "screen"}
  /\ wants \subseteq {"switch", "close", "run"}
  /\ owner \in Files \cup {Absent} /\ based \in Texts
  /\ warned \in Texts \cup {Absent} /\ asked \in Files \cup {Absent}

\* Whichever editor had the buffer before, text that does not count as modified is what
\* was last read from the file or saved to it: leaving without a warning loses nothing.
UnmodifiedIsSaved == Open /\ ~modified => text = based

\* Changed text that is not saved is given up, for another file or on leaving, only after
\* the warning was given; and in a window, whose keys all go through edit_key, only the
\* text that the warning was about: a later change is asked about again.
Saved   == based' = text /\ ~modified' /\ fname' = fname
GivenUp == Open /\ modified /\ ~Saved /\ (~Open' \/ fname' # fname)
NeverSilently ==
  [][GivenUp => confirm_quit /\ (turn = "editor" => warned = text)]_svars

\* A save puts into a file only what was read from it and edited since, or typed into a
\* new one: "one file open at a time" (edit.c).
SavesItsOwn == [][Editing /\ based' # based => owner = fname]_svars

-----------------------------------------------------------------------------
(* What is said of the code and is not so (README, "What was found").      *)

\* The second half of NeverSilently over the whole screen too, as the message has it:
\* "leave again to throw the changes away".
ScreenAsksAgain == [][GivenUp => warned = text]_svars

\* "^R saves and runs": what the prompt runs is the file that ^R saved.
RunsTheFile ==
  [][PromptDone /\ "run" \in wants => session /\ fname = asked]_svars

\* "The editor, in its window, in front" (desk.fth, of EDIT): when a frame is over, the
\* window of an open file is not about to be closed.
KeepsItsWindow ==
  turn = "frame" /\ at >= limit /\ "close" \in wants => ~session
=============================================================================
