----------------------------- MODULE EditBuffer -----------------------------
(***************************************************************************)
(* The text of src/src/edit.c and what one key, or one press on the        *)
(* controller, does to it: cutting runs of lines with ^K and putting them  *)
(* back with ^U, finding, moving, typing.                                  *)
(*                                                                         *)
(* Positions are the code's: 0 .. len, buf[i+1] being what C calls buf[i]. *)
(* Upper and lower case are one character.  Screen geometry is left out,   *)
(* and a frame in which several things are done is a step for each.        *)
(***************************************************************************)
EXTENDS Integers, Sequences, FiniteSetsExt, SequencesExt

CONSTANTS
  Letters,      \* printable characters, the space apart
  FS_FILE_MAX,  \* as big as a file can be
  CLIP,         \* sizeof clip
  QUERY,        \* sizeof query
  INDENT,       \* sizeof indent
  PAGE,         \* text_rows(): what page up and page down move by
  TAB,          \* spaces that a tab inserts
  ReadMayFail   \* whether reading a file into a window that has one may fail

ASSUME EditAssumption ==
  /\ FS_FILE_MAX \in Nat /\ CLIP \in Nat /\ QUERY \in Nat
  /\ INDENT \in Nat \ {0, 1} /\ PAGE \in Nat \ {0} /\ TAB \in Nat
  /\ ReadMayFail \in BOOLEAN

VARIABLES
  buf, cur,        \* edit.c: buf and len; cur
  goal,            \* edit.c: goal, the column that up and down try for; -1: none
  clip, cutting,   \* edit.c: the lines cut, and whether the last key cut one
  pasting,         \* edit.c: pasting
  finding, query,  \* edit.c: finding, query
  uncut,           \* the text when this run of cuts began; <<"none">> outside one
  origin           \* where the cursor was when this run of ups and downs began, with
                   \* nothing else done since; -1 otherwise

evars == <<buf, cur, goal, clip, cutting, pasting, finding, query, uncut, origin>>

NL    == "newline"
SP    == " "
Chars == Letters \cup {SP, NL}
NoRun == <<"none">>
len   == Len(buf)

AtMost(n, s) == SubSeq(s, 1, Min({n, Len(s)}))
Spaces(n)    == [i \in 1 .. n |-> SP]

-----------------------------------------------------------------------------
(* Geometry.                                                               *)

line_start(p) == Max({s \in 0 .. p : s = 0 \/ buf[s] = NL})
line_end(p)   == Min({e \in p .. len : e = len \/ buf[e + 1] = NL})
line_of(p)    == Cardinality({i \in 1 .. p : buf[i] = NL})
lines_total   == line_of(len) + 1

start_of_line(n) ==
  LET after == {i \in 0 .. len : line_of(i) = n}
  IN  IF n >= lines_total THEN len ELSE Min(after)

-----------------------------------------------------------------------------
(* What changes the text.                                                  *)

TextInit ==
  /\ buf = <<>> /\ cur = 0 /\ goal = -1
  /\ clip = <<>> /\ cutting = FALSE /\ pasting = FALSE
  /\ finding = FALSE /\ query = <<>>
  /\ uncut = NoRun /\ origin = -1

\* A text that has no room for s stays as it is.
insert(s) ==
  IF len + Len(s) > FS_FILE_MAX
    THEN UNCHANGED <<buf, cur>>
    ELSE /\ buf' = SubSeq(buf, 1, cur) \o s \o SubSeq(buf, cur + 1, len)
         /\ cur' = cur + Len(s)

\* Mutant: a cursor after the cut stays where it was.
cut_leaves_cursor(at, n, there) ==
  IF at < 0 \/ n <= 0 \/ at + n > len
    THEN buf' = buf /\ cur' = there
    ELSE buf' = SubSeq(buf, 1, at) \o SubSeq(buf, at + n + 1, len) /\ cur' = there

\* cut(), with the cursor at `there'.
cut(at, n, there) ==
  IF at < 0 \/ n <= 0 \/ at + n > len
    THEN buf' = buf /\ cur' = there
    ELSE /\ buf' = SubSeq(buf, 1, at) \o SubSeq(buf, at + n + 1, len)
         /\ cur' = IF there > at THEN Max({at, there - n}) ELSE there

rub_out == IF cur <= 0 THEN UNCHANGED <<buf, cur>> ELSE cut(cur - 1, 1, cur)

\* Mutant: the column is that of where the cursor is now.
Column_forgets == cur - line_start(cur)

\* The column that a move up or down is for.
Column == IF goal < 0 THEN cur - line_start(cur) ELSE goal

move_vertical(lines) ==
  LET target == Max({0, Min({line_of(cur) + lines, lines_total - 1})})
      p      == start_of_line(target)
  IN  /\ goal' = Column
      /\ cur' = Min({p + Column, line_end(p)})
      /\ origin' = IF goal < 0 THEN cur ELSE origin
      /\ UNCHANGED buf

-----------------------------------------------------------------------------
(* Finding.                                                                *)

Matches(i) ==
  /\ query # <<>>
  /\ i + Len(query) <= len
  /\ SubSeq(buf, i + 1, i + Len(query)) = query

\* Mutant: the positions go round one too early.
Round_early(n) == (cur + n) % (IF len = 0 THEN 1 ELSE len)

\* The n-th position that is tried.
Round(n) == (cur + n) % (len + 1)

find_next ==
  LET hits == {n \in 1 .. len : Matches(Round(n))}
  IN  cur' = IF hits = {} THEN cur ELSE Round(Min(hits))

-----------------------------------------------------------------------------
(* edit_key.                                                               *)

\* What any key but ^K does first: a run of cuts is over.
EndsTheRun == ~finding /\ cutting' = FALSE /\ uncut' = NoRun

\* And last, any key that does not move up or down.
NoGoal == goal' = -1 /\ origin' = -1

Keeps(v) == UNCHANGED v

CharKey ==
  /\ EndsTheRun /\ NoGoal
  /\ \/ \E c \in Letters \cup {SP} : insert(<<c>>)
     \/ insert(Spaces(TAB))
  /\ Keeps(<<clip, pasting, finding, query>>)

\* A new line is indented as the one before, up to the cursor, but for a paste.
EnterKey ==
  /\ EndsTheRun /\ NoGoal
  /\ LET s == line_start(cur)
         k == Max({n \in 0 .. Min({cur - s, INDENT - 2}) :
                     \A i \in 1 .. n : buf[s + i] = SP})
     IN  insert(<<NL>> \o Spaces(IF pasting THEN 0 ELSE k))
  /\ Keeps(<<clip, pasting, finding, query>>)

RubOutKey ==
  /\ EndsTheRun /\ NoGoal
  /\ rub_out
  /\ Keeps(<<clip, pasting, finding, query>>)

DelKey ==
  /\ EndsTheRun /\ NoGoal
  /\ IF cur < len THEN cut(cur, 1, cur) ELSE UNCHANGED <<buf, cur>>
  /\ Keeps(<<clip, pasting, finding, query>>)

\* ^U
PutKey ==
  /\ EndsTheRun /\ NoGoal
  /\ insert(clip)
  /\ Keeps(<<clip, pasting, finding, query>>)

\* What ^K adds to the clip: the line, with a newline if it had none.
CutText ==
  SubSeq(buf, line_start(cur) + 1, line_end(cur)) \o <<NL>>

\* Mutant: every cut starts a fresh clip.
CutKey_always_fresh ==
  /\ ~finding
  /\ LET s == line_start(cur)
         e == line_end(cur)
     IN  /\ clip' = AtMost(CLIP, CutText)
         /\ cut(s, e - s + (IF e < len THEN 1 ELSE 0), s)
  /\ cutting' = TRUE
  /\ uncut' = IF cutting THEN uncut ELSE buf
  /\ NoGoal
  /\ Keeps(<<pasting, finding, query>>)

\* ^K: cut() with the cursor put at the start of the line.
CutKey ==
  /\ ~finding
  /\ LET s == line_start(cur)
         e == line_end(cur)
     IN  /\ clip' = AtMost(CLIP, (IF cutting THEN clip ELSE <<>>) \o CutText)
         /\ cut(s, e - s + (IF e < len THEN 1 ELSE 0), s)
  /\ cutting' = TRUE
  /\ uncut' = IF cutting THEN uncut ELSE buf
  /\ NoGoal
  /\ Keeps(<<pasting, finding, query>>)

\* ^V at either end of a paste.
PasteKey ==
  /\ EndsTheRun /\ NoGoal
  /\ pasting' = ~pasting
  /\ Keeps(<<buf, cur, clip, finding, query>>)

MoveKey ==
  /\ EndsTheRun /\ NoGoal
  /\ cur' \in {Max({0, cur - 1}), Min({cur + 1, len}), line_start(cur), line_end(cur)}
  /\ Keeps(<<buf, clip, pasting, finding, query>>)

VerticalKey ==
  /\ EndsTheRun
  /\ \E lines \in {-1, 1, -PAGE, PAGE} : move_vertical(lines)
  /\ Keeps(<<clip, pasting, finding, query>>)

\* ^G
FindAgainKey ==
  /\ EndsTheRun /\ NoGoal
  /\ Keeps(<<buf, clip, pasting, finding, query>>)
  /\ find_next

\* ^F
FindKey ==
  /\ EndsTheRun /\ NoGoal
  /\ finding' = TRUE /\ query' = <<>>
  /\ Keeps(<<buf, cur, clip, pasting>>)

\* While what to find is being typed, every key is about that.
QueryKey ==
  /\ finding
  /\ NoGoal
  /\ \/ finding' = FALSE /\ find_next /\ UNCHANGED query            \* Enter, ^G
     \/ finding' = FALSE /\ UNCHANGED <<cur, query>>                \* Esc, ^F
     \/ /\ query # <<>> /\ query' = Front(query)
        /\ UNCHANGED <<cur, finding>>
     \/ /\ Len(query) < QUERY
        /\ \E c \in Letters \cup {SP} : query' = Append(query, c)
        /\ UNCHANGED <<cur, finding>>
  /\ Keeps(<<buf, clip, cutting, pasting, uncut>>)

\* The controller and the mouse, over the whole screen: they go past edit_key.
PastEditKey == uncut' = NoRun /\ Keeps(<<clip, cutting, pasting, finding, query>>)

\* The end of the frame: a press ends the goal, unless the frame has an up or a down too.
PressEnds == goal' \in {-1, goal} /\ origin' = -1

PadWrites ==
  /\ PressEnds
  /\ rub_out \/ \E c \in Chars : insert(<<c>>)
  /\ PastEditKey

\* Sideways by a press or a click, or by a C button held down, which is no press: that
\* one leaves the goal.
PadMove ==
  /\ cur' \in 0 .. len /\ UNCHANGED buf
  /\ PressEnds
  /\ PastEditKey

PadVertical ==
  /\ \E lines \in {-1, 1} : move_vertical(lines)
  /\ PastEditKey

\* load(): an empty file, or any whose text came up before.  The cut lines and what to
\* find stay.  When the read fails the length is 0 and the rest is as it was.
load ==
  /\ cutting' = FALSE /\ pasting' = FALSE /\ finding' = FALSE /\ uncut' = NoRun
  /\ \/ buf' \in {<<>>, buf} /\ cur' = 0 /\ NoGoal
     \/ ReadMayFail /\ buf' = <<>> /\ origin' = -1 /\ UNCHANGED <<cur, goal>>
  /\ UNCHANGED <<clip, query>>

TextNext ==
  \/ CharKey \/ EnterKey \/ RubOutKey \/ DelKey \/ PutKey \/ CutKey \/ PasteKey
  \/ MoveKey \/ VerticalKey \/ FindAgainKey \/ FindKey \/ QueryKey
  \/ PadWrites \/ PadMove \/ PadVertical \/ load

TextSpec == TextInit /\ [][TextNext]_evars

-----------------------------------------------------------------------------
(* Properties.                                                             *)

\* What the variables hold.  Whatever is cut, inserted, found or clicked, the cursor is
\* in the text and the text in the buffer, and the clip and the query in theirs.
TextTypeOK ==
  /\ buf \in Seq(Chars) /\ len <= FS_FILE_MAX
  /\ cur \in 0 .. len /\ goal \in Nat \cup {-1}
  /\ clip \in Seq(Chars) /\ Len(clip) <= CLIP
  /\ query \in Seq(Chars) /\ Len(query) <= QUERY
  /\ cutting \in BOOLEAN /\ pasting \in BOOLEAN /\ finding \in BOOLEAN

\* What ^U does right after a run of ^Ks: the text is as it was before the first of them,
\* but for newlines more at its end, one for each cut of a last line, which had none.
Restored == \E k \in 0 .. len' - Len(uncut) : buf' = uncut \o [i \in 1 .. k |-> NL]

\* So it is if the clip had room for all that was cut and the text has room for the clip,
\* however many lines were cut and wherever in the text.
CutsComeBack ==
  [][ PutKey /\ uncut # NoRun /\ Len(clip) < CLIP /\ len + Len(clip) <= FS_FILE_MAX
        => Restored ]_evars

\* Where the text matches, but at the cursor; and the first such place after the cursor,
\* or else from the start.
Hits == {i \in 0 .. len : Matches(i)} \ {cur}
FirstHit ==
  LET next == {i \in Hits : i > cur}
  IN  IF next # {} THEN Min(next) ELSE IF Hits # {} THEN Min(Hits) ELSE cur

\* ^F and ^G stop at the first match after the cursor, round to the start; they miss
\* none but a match at the cursor itself.
FindsTheNext == [][query # <<>> /\ FindAgainKey => cur' = FirstHit]_evars

\* Up and down through short lines, by keys or the controller and with nothing between
\* them, come back to where they left.
ColumnIsKept ==
  origin >= 0 /\ line_of(cur) = line_of(origin) => cur = origin

-----------------------------------------------------------------------------
(* What is said of the code and is not so (README, "What was found").      *)

\* What is cut fits in where it was: a full text whose last line is cut has no room for
\* the newline that the clip has more, and ^U does nothing.
CutsAlwaysFit ==
  [][PutKey /\ uncut # NoRun /\ Len(clip) < CLIP => Restored]_evars

\* What edit.c says of ^U: it "puts the cut lines back at the cursor".
AllCutsComeBack ==
  [][PutKey /\ uncut # NoRun /\ len + Len(clip) <= FS_FILE_MAX => Restored]_evars

\* The column is remembered by what "moved up or down and should remember its column"
\* (edit.c) alone.
GoalIsOfThisRun == goal >= 0 => origin >= 0

\* A file that is open has its cursor in it ("a file open in a window", edit.c).
CursorInText == cur <= len
=============================================================================
