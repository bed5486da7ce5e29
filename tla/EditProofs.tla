---------------------------- MODULE EditProofs ----------------------------
(***************************************************************************)
(* The editor, its sessions and its text.                                  *)
(*                                                                         *)
(* One buffer for the editor over the whole screen and the editor in its   *)
(* window: for any files, texts and depth of windows, what is not marked   *)
(* as changed is what was read or saved, nothing changed is given up       *)
(* without the warning, and a save goes to the file that the text is of.   *)
(* These three are so when reading a file fails only over the whole        *)
(* screen, where the editor then does not come up.  And the rows of the    *)
(* Files window are the files, what it deletes is what it asked about, and *)
(* every variable keeps its type.                                          *)
(*                                                                         *)
(* The text: for any characters, sizes of the buffers and page, the cursor *)
(* stays in it, a run of cuts comes back, up and down keep the column and  *)
(* find misses nothing, if no read fails.                                  *)
(***************************************************************************)
EXTENDS FilesWindow, EditBuffer, NumberLemmas, FiniteSetTheorems, SequenceTheorems

-----------------------------------------------------------------------------
(* The buffer.                                                             *)

Turns == {"frame", "prompt", "editor", "screen"}

\* Who has the keys has the file open, and only one of the two editors has it.
OneEditor ==
  /\ turn \in Turns /\ session \in BOOLEAN /\ modified \in BOOLEAN /\ confirm_quit \in BOOLEAN
  /\ turn = "editor" => session
  /\ turn = "screen" => ~session

OwnText == Open => owner = fname

\* In a window every key but the ones that leave forgets the warning.
WarnedOfThis == session /\ confirm_quit => modified /\ warned = text

SessionInv == OneEditor /\ UnmodifiedIsSaved /\ OwnText /\ WarnedOfThis

ScreenOnly == ReadFails \subseteq {"screen"}

\* What one step does to the buffer: the invariant holds after it, and it does what the
\* action properties say of it.
StepIsRight ==
  /\ SessionInv'
  /\ GivenUp => confirm_quit /\ (turn = "editor" => warned = text)
  /\ Editing /\ based' # based => owner = fname

USE DEF OneEditor, OwnText, WarnedOfThis, SessionInv, UnmodifiedIsSaved, Open, Turns,
        StepIsRight, GivenUp, Saved, Editing, buffer

LEMMA InitSession == SessionInit => SessionInv
BY DEF SessionInit

LEMMA StillSession ==
  ASSUME SessionInv, UNCHANGED <<buffer, session, turn>>
  PROVE  StepIsRight
OBVIOUS

\* EDIT over the whole screen.
LEMMA EditFileStep ==
  ASSUME SessionInv, NEW f, EditFile(f)
  PROVE  StepIsRight
<1>1. CASE Loaded(f) /\ turn' = "screen"
  BY <1>1 DEF EditFile, Loaded
<1>2. CASE LoadFails(f, "screen") /\ UNCHANGED turn
  BY <1>2 DEF EditFile, LoadFails
<1> QED
  BY <1>1, <1>2 DEF EditFile

\* EDIT on the desk.
LEMMA DeskEditStep ==
  ASSUME SessionInv, ScreenOnly, NEW f, DeskEdit(f)
  PROVE  StepIsRight
<1>1. CASE UNCHANGED <<buffer, session>>
  BY <1>1, StillSession DEF DeskEdit
<1>2. CASE ~(session /\ (fname = f \/ modified)) /\ Loaded(f) /\ session' = TRUE
  BY <1>2 DEF DeskEdit, Loaded
<1>3. ~LoadFails(f, "window")
  BY DEF LoadFails, ScreenOnly
<1> QED
  BY <1>1, <1>2, <1>3 DEF DeskEdit

\* The keys in the editor.
LEMMA KeyStep ==
  ASSUME SessionInv, TypeKey \/ OtherKey \/ PadEdit \/ SaveKey \/ LeaveWarns
  PROVE  StepIsRight
<1>1. CASE TypeKey
  BY <1>1 DEF TypeKey
<1>2. CASE OtherKey
  BY <1>2 DEF OtherKey
<1>3. CASE PadEdit
  BY <1>3 DEF PadEdit
<1>4. CASE SaveKey
  BY <1>4 DEF SaveKey, save
<1>5. CASE LeaveWarns
  BY <1>5 DEF LeaveWarns
<1> QED
  BY <1>1, <1>2, <1>3, <1>4, <1>5

LEMMA RunKeyStep ==
  ASSUME SessionInv, RunKey
  PROVE  StepIsRight
BY DEF RunKey, save

LEMMA LeaveKeyStep ==
  ASSUME SessionInv, LeaveKey
  PROVE  StepIsRight
BY DEF LeaveKey

LEMMA DeskStep ==
  ASSUME SessionInv, ScreenOnly, DeskNext
  PROVE  StepIsRight
<1>1. CASE \E f \in Files : DeskEdit(f)
  BY <1>1, DeskEditStep
<1>2. CASE turn = "editor" /\ (TypeKey \/ OtherKey \/ SaveKey \/ LeaveWarns \/ RunKey \/ LeaveKey)
  BY <1>2, KeyStep, RunKeyStep, LeaveKeyStep
<1>3. CASE Covered \/ EditorClosed \/ NextFrame \/ DeskStart
  BY <1>3, StillSession DEF Covered, EditorClosed, NextFrame, DeskStart
<1>4. CASE PromptDone \/ PromptReadsKeys
  BY <1>4 DEF PromptDone, PromptReadsKeys, Drawn
<1>5. CASE EditorReadsKeys \/ EditorDone
  BY <1>5 DEF EditorReadsKeys, EditorDone, Drawn
<1> QED
  BY <1>1, <1>2, <1>3, <1>4, <1>5 DEF DeskNext

\* Whatever the Files window does: it opens the editor, or leaves the buffer alone.
LEMMA OpensStep ==
  ASSUME SessionInv, NEW f, Opens(f)
  PROVE  StepIsRight
<1>1. CASE EditFile(f)
  BY <1>1, EditFileStep
<1>2. CASE UNCHANGED svars
  BY <1>2, StillSession DEF svars
<1> QED
  BY <1>1, <1>2 DEF Opens

LEMMA NextSession ==
  ASSUME SessionInv, ScreenOnly, Next
  PROVE  StepIsRight
<1>1. CASE Elsewhere
  <2>1. CASE DeskNext
    BY <2>1, DeskStep
  <2>2. CASE ScreenKey
    BY <2>2, KeyStep DEF ScreenKey
  <2>3. CASE PromptWrites
    BY <2>3, StillSession DEF PromptWrites
  <2>4. CASE \E f \in Files : EditFile(f)
    BY <2>4, EditFileStep
  <2>5. CASE LeaveKey \/ RunKey
    BY <2>5, LeaveKeyStep, RunKeyStep
  <2> QED
    BY <1>1, <2>1, <2>2, <2>3, <2>4, <2>5 DEF Elsewhere
<1>2. CASE FilesOpen \/ FilesLeave \/ PickKey \/ RunFileKey \/ RunDone \/ RefuseRom \/ AskDelete
  BY <1>2, StillSession
  DEF FilesOpen, FilesLeave, PickKey, RunFileKey, RunDone, RefuseRom, AskDelete, svars
<1>3. CASE EditKey \/ NewKey
  BY <1>3, OpensStep DEF EditKey, NewKey
<1>4. CASE EditorLeaves \/ EditorRuns
  BY <1>4, LeaveKeyStep, RunKeyStep DEF EditorLeaves, EditorRuns
<1>5. CASE Delete
  BY <1>5, StillSession DEF Delete
<1> QED
  BY <1>1, <1>2, <1>3, <1>4, <1>5 DEF Next

LEMMA StutterSession ==
  ASSUME SessionInv, UNCHANGED svars
  PROVE  StepIsRight
BY StillSession DEF svars

HIDE DEF OneEditor, OwnText, WarnedOfThis, SessionInv, UnmodifiedIsSaved, Open, Turns,
         StepIsRight, GivenUp, Saved, Editing, buffer

LEMMA SessionStep ==
  ASSUME ScreenOnly, SessionInv, [Next]_vars
  PROVE  StepIsRight
BY NextSession, StutterSession DEF vars

LEMMA SessionInductive ==
  ASSUME ScreenOnly
  PROVE  Spec => []SessionInv
<1>1. Init => SessionInv
  BY InitSession DEF Init
<1>2. SessionInv /\ [Next]_vars => SessionInv'
  BY ScreenOnly, SessionStep DEF StepIsRight
<1> QED
  BY <1>1, <1>2, PTL DEF Spec

\* Text that does not count as changed (edit.c: modified) is the file's: whichever editor
\* has the buffer, and had it before.
THEOREM NothingUnsaved ==
  ASSUME ScreenOnly
  PROVE  Spec => []UnmodifiedIsSaved
<1>1. SessionInv => UnmodifiedIsSaved
  BY DEF SessionInv
<1> QED
  BY <1>1, SessionInductive, PTL

\* Changed text goes for another file or on leaving only after the warning (edit.c:
\* confirm_quit), and in a window after the warning about that very text.
THEOREM WarnsBeforeGivingUp ==
  ASSUME ScreenOnly
  PROVE  Spec => NeverSilently
<1>1. SessionInv /\ [Next]_vars =>
        [GivenUp => confirm_quit /\ (turn = "editor" => warned = text)]_svars
  BY ScreenOnly, SessionStep DEF StepIsRight
<1> QED
  BY <1>1, SessionInductive, PTL DEF Spec, NeverSilently

\* A save (edit.c: save) never puts one file's text into another.
THEOREM SavesToItsOwn ==
  ASSUME ScreenOnly
  PROVE  Spec => SavesItsOwn
<1>1. SessionInv /\ [Next]_vars => [Editing /\ based' # based => owner = fname]_svars
  BY ScreenOnly, SessionStep DEF StepIsRight
<1> QED
  BY <1>1, SessionInductive, PTL DEF Spec, SavesItsOwn

-----------------------------------------------------------------------------
(* The rows of the Files window.                                           *)

Kinds == {"files", "run"}

\* A Files window is opened over the first prompt or a program, never over another.
Spaced(s) ==
  /\ s \in Seq(Kinds)
  /\ \A i \in 1 .. Len(s) - 1 : s[i] = "files" => s[i + 1] = "run"

RowsInv == Spaced(stack) /\ RowsAreTheFiles

LEMMA SpacedAppend ==
  ASSUME NEW s, Spaced(s), NEW what \in Kinds,
         what = "run" \/ s = <<>> \/ Last(s) = "run"
  PROVE  Spaced(Append(s, what)) /\ Last(Append(s, what)) = what
BY DEF Spaced, Kinds, Last

LEMMA SpacedFront ==
  ASSUME NEW s, Spaced(s), s # <<>>
  PROVE  /\ Spaced(Front(s))
         /\ Last(s) = "files" /\ Front(s) # <<>> => Last(Front(s)) = "run"
BY DEF Spaced, Kinds, Last, Front

\* The whole window is drawn: each row is the entry that it stands for.
LEMMA AllDrawn ==
  ASSUME draw_all
  PROVE  RowsAreTheFiles'
BY DEF draw_all, RowsAreTheFiles

\* Two entries, or all of them when the list scrolls.
LEMMA PickDrawn ==
  ASSUME RowsAreTheFiles, Browsing, NEW i, pick(i), UNCHANGED disk
  PROVE  RowsAreTheFiles'
<1> SUFFICES ASSUME NEW r \in Rows
             PROVE  rows'[r] = Entry(Listed(disk), top' + r, sel')
  BY DEF RowsAreTheFiles
<1>1. rows'[r] = IF top' # top \/ top' + r \in {sel, sel'} THEN Entry(Listed(disk), top' + r, sel')
                 ELSE rows[r]
  BY DEF pick
<1>2. CASE top' = top /\ top + r \notin {sel, sel'}
  <2>1. rows'[r] = Entry(Listed(disk), top + r, sel)
    BY <1>1, <1>2 DEF RowsAreTheFiles
  <2> QED
    BY <1>2, <2>1 DEF Entry
<1> QED
  BY <1>1, <1>2

LEMMA NextRows ==
  ASSUME RowsInv, Next
  PROVE  RowsInv'
<1> USE DEF RowsInv
<1>1. CASE Elsewhere
  <2>1. UNCHANGED fvars
    BY <1>1 DEF Elsewhere
  <2>2. Spaced(stack)'
    BY <2>1 DEF fvars, Spaced
  <2>3. ~Browsing'
    BY <1>1, <2>1 DEF Elsewhere, Browsing, AtThePrompt, Under, fvars, ScreenKey, TypeKey,
      OtherKey, PadEdit, SaveKey, LeaveWarns
  <2> QED
    BY <2>2, <2>3 DEF RowsAreTheFiles
<1>2. CASE FilesOpen
  BY <1>2, SpacedAppend, AllDrawn DEF FilesOpen, AtThePrompt, Under, Kinds
<1>3. CASE FilesLeave
  <2>1. Spaced(stack)' /\ ~Under("files")'
    BY <1>3, SpacedFront DEF FilesLeave, Browsing, Under
  <2> QED
    BY <2>1 DEF RowsAreTheFiles, Browsing
<1>4. CASE PickKey
  BY <1>4, PickDrawn DEF PickKey, svars
<1>5. CASE EditKey \/ NewKey
  <2>1. PICK f : Opens(f)
    BY <1>5 DEF EditKey, NewKey
  <2>2. CASE turn' = "screen"
    BY <2>1, <2>2 DEF Opens, RowsAreTheFiles, Browsing
  <2> QED
    BY <2>1, <2>2, AllDrawn DEF Opens
<1>6. CASE RunFileKey \/ EditorRuns
  <2>1. stack' = Append(stack, "run")
    BY <1>6 DEF RunFileKey, EditorRuns, Runs
  <2>2. Spaced(stack)' /\ ~Under("files")'
    BY <2>1, SpacedAppend DEF Under, Kinds
  <2> QED
    BY <2>2 DEF RowsAreTheFiles, Browsing
<1>7. CASE RunDone
  BY <1>7, SpacedFront, AllDrawn DEF RunDone, Under
<1>8. CASE EditorLeaves
  BY <1>8, AllDrawn DEF EditorLeaves
<1>9. CASE RefuseRom \/ AskDelete
  BY <1>9 DEF RefuseRom, AskDelete, svars, RowsAreTheFiles, Browsing, Under
<1>10. CASE Delete
  BY <1>10, AllDrawn DEF Delete
<1> QED
  BY <1>1, <1>2, <1>3, <1>4, <1>5, <1>6, <1>7, <1>8, <1>9, <1>10 DEF Next

\* Whatever was edited, run, deleted or scrolled past, the list on the screen is the list of
\* the files there are (files.c: draw_list), and the mark is on the selected one.
THEOREM RowsRight == Spec => []RowsAreTheFiles
<1>1. Init => RowsInv
  BY DEF Init, RowsInv, Spaced, RowsAreTheFiles, Browsing, Under
<1>2. RowsInv /\ [Next]_vars => RowsInv'
  <2>1. ASSUME RowsInv, UNCHANGED vars PROVE RowsInv'
    BY <2>1 DEF RowsInv, vars, svars, fvars, Spaced, RowsAreTheFiles, Browsing, Under
  <2> QED
    BY <2>1, NextRows
<1>3. RowsInv => RowsAreTheFiles
  BY DEF RowsInv
<1> QED
  BY <1>1, <1>2, <1>3, PTL DEF Spec

-----------------------------------------------------------------------------
(* Lists of which some are left out.                                       *)

\* The turns of Kept: the list up to each place, without those that are not in K.
KeptTurns(k, list, K) ==
  /\ k[0] = <<>>
  /\ \A i \in 1 .. Len(list) :
       k[i] = IF list[i] \in K THEN Append(k[i - 1], list[i]) ELSE k[i - 1]
  /\ Kept(list, K) = k[Len(list)]

LEMMA KeptLoop ==
  ASSUME NEW T, NEW list \in Seq(T), NEW K
  PROVE  \E k \in [0 .. Len(list) -> Seq(T \cap K)] : KeptTurns(k, list, K)
<1> DEFINE n == Len(list)
           S == Seq(T \cap K)
           turn_(x, i) == IF list[i] \in K THEN Append(x, list[i]) ELSE x
           step == [i \in 1 .. n |-> [x \in S |-> turn_(x, i)]]
<1>1. n \in Nat /\ <<>> \in S
  OBVIOUS
<1>2. ASSUME NEW i \in 1 .. n, NEW x \in S PROVE turn_(x, i) \in S
  <2>1. list[i] \in T
    OBVIOUS
  <2> QED
    BY <2>1
<1> HIDE DEF turn_, S
<1>3. \A i \in 1 .. n : \A x \in S : step[i][x] \in S
  BY <1>2
<1> HIDE DEF step, n
<1>4. PICK P \in [0 .. n -> S] : LoopOf(P, n, <<>>, step)
  BY <1>1, <1>3, LoopExists
<1>5. ASSUME NEW i \in 1 .. n PROVE P[i] = turn_(P[i - 1], i)
  <2>1. i - 1 \in 0 .. n
    BY <1>1
  <2>2. P[i - 1] \in S /\ P[i] = step[i][P[i - 1]]
    BY <2>1, <1>4 DEF LoopOf
  <2> QED
    BY <2>2 DEF step
<1> DEFINE Loop(Q) == Q = [i \in 0 .. Len(list) |->
                             IF i = 0 THEN <<>>
                             ELSE IF list[i] \in K THEN Append(Q[i - 1], list[i]) ELSE Q[i - 1]]
           R == CHOOSE Q : Loop(Q)
<1>6. Loop(P)
  <2>1. P = [i \in 0 .. n |-> P[i]] /\ P[0] = <<>>
    BY <1>4 DEF LoopOf
  <2>2. ASSUME NEW i \in 0 .. n, i # 0
        PROVE  P[i] = IF list[i] \in K THEN Append(P[i - 1], list[i]) ELSE P[i - 1]
    <3>1. i \in 1 .. n
      BY <1>1, <2>2
    <3> QED
      BY <1>5, <3>1 DEF turn_
  <2> QED
    BY <2>1, <2>2 DEF n
<1>7. Loop(R)
  BY <1>6, Zenon
<1>8. Kept(list, K) = R[Len(list)]
  BY Zenon DEF Kept
<1> HIDE DEF R
<1>9. R = [i \in 0 .. n |-> R[i]] /\ R[0] = <<>> /\ \A i \in 1 .. n : R[i] = turn_(R[i - 1], i)
  <2>1. 0 \in 0 .. n /\ \A i \in 1 .. n : i \in 0 .. n /\ i # 0
    BY <1>1
  <2> QED
    BY <1>7, <2>1 DEF turn_, n
<1>10. \A i \in 0 .. n : R[i] \in S
  <2> DEFINE G == {i \in 0 .. n : R[i] \in S}
  <2>1. 0 \in G
    BY <1>1, <1>9
  <2>2. ASSUME NEW i \in 1 .. n, i - 1 \in G PROVE i \in G
    <3>1. R[i - 1] \in S /\ i \in 0 .. n
      BY <2>2, <1>1
    <3> QED
      BY <1>2, <1>9, <3>1
  <2> HIDE DEF G
  <2>3. \A i \in 0 .. n : i \in G
    BY <1>1, <2>1, <2>2, UpTo
  <2> QED
    BY <2>3 DEF G
<1>11. R \in [0 .. n -> S] /\ KeptTurns(R, list, K)
  BY <1>8, <1>9, <1>10 DEF KeptTurns, turn_, n
<1> QED
  BY <1>11 DEF S, n

\* What is kept is of the list and of K, no longer than the list, and not empty when one of
\* the list is in K.
LEMMA KeptOfBoth ==
  ASSUME NEW T, NEW list \in Seq(T), NEW K
  PROVE  /\ Kept(list, K) \in Seq(T \cap K) /\ Len(Kept(list, K)) <= Len(list)
         /\ (\E i \in 1 .. Len(list) : list[i] \in K) => Kept(list, K) # <<>>
<1> DEFINE n == Len(list)
<1>1. PICK k \in [0 .. n -> Seq(T \cap K)] : KeptTurns(k, list, K)
  BY KeptLoop
<1>2. n \in Nat /\ 0 \in 0 .. n /\ n \in 0 .. n
  OBVIOUS
<1>3. \A i \in 1 .. n : i - 1 \in 0 .. n /\ i \in 0 .. n /\ list[i] \in T
  OBVIOUS
<1> DEFINE Right(i) == /\ Len(k[i]) \in 0 .. i
                       /\ \A j \in 1 .. i : list[j] \in K => Len(k[i]) > 0
           G == {i \in 0 .. n : Right(i)}
<1>4. 0 \in G
  BY <1>1, <1>2 DEF KeptTurns
<1>5. ASSUME NEW i \in 1 .. n, i - 1 \in G PROVE i \in G
  <2>1. Right(i - 1) /\ k[i - 1] \in Seq(T \cap K)
    BY <1>1, <1>3, <1>5
  <2>2. CASE list[i] \in K
    <3>1. k[i] = Append(k[i - 1], list[i])
      BY <1>1, <2>2 DEF KeptTurns
    <3>2. Len(k[i]) = Len(k[i - 1]) + 1
      BY <1>3, <2>1, <2>2, <3>1
    <3> QED
      BY <2>1, <3>2
  <2>3. CASE list[i] \notin K
    <3>1. k[i] = k[i - 1]
      BY <1>1, <2>3 DEF KeptTurns
    <3>2. \A j \in 1 .. i : j = i \/ j \in 1 .. i - 1
      OBVIOUS
    <3> QED
      BY <2>1, <2>3, <3>1, <3>2
  <2> QED
    BY <2>2, <2>3
<1> HIDE DEF G
<1>6. n \in G
  BY <1>2, <1>4, <1>5, UpTo
<1>7. Right(n)
  BY <1>6 DEF G
<1>8. Kept(list, K) = k[n] /\ k[n] \in Seq(T \cap K)
  BY <1>1, <1>2 DEF KeptTurns
<1> QED
  BY <1>7, <1>8


-----------------------------------------------------------------------------
(* What the variables hold: the buffer and the desk.                       *)

WindowLists == {<<"prompt">>, <<"editor">>, <<"prompt", "editor">>, <<"editor", "prompt">>}

\* The desk's windows are two at most: what is kept of so few can be said.
LEMMA ShortLists ==
  ASSUME NEW a, NEW b
  PROVE  Append(<<>>, a) = <<a>> /\ Append(<<a>>, b) = <<a, b>>
<1>1. <<>> \in Seq({a, b}) /\ <<a>> \in Seq({a, b}) /\ <<a, b>> \in Seq({a, b})
  OBVIOUS
<1>2. ASSUME NEW s \in Seq({a, b}) PROVE s = [i \in 1 .. Len(s) |-> s[i]]
  OBVIOUS
<1>3. Append(<<>>, a) = <<a>>
  BY <1>1
<1>4. Append(<<a>>, b) \in Seq({a, b}) /\ Len(Append(<<a>>, b)) = 2
  BY <1>1
<1>5. Append(<<a>>, b)[1] = a /\ Append(<<a>>, b)[2] = b
  BY <1>1
<1>6. Len(<<a, b>>) = 2 /\ <<a, b>>[1] = a /\ <<a, b>>[2] = b
  OBVIOUS
<1>7. \A i \in 1 .. 2 : Append(<<a>>, b)[i] = <<a, b>>[i]
  BY <1>5, <1>6
<1>8. Append(<<a>>, b) = [i \in 1 .. 2 |-> Append(<<a>>, b)[i]]
  BY <1>2, <1>4
<1>9. <<a, b>> = [i \in 1 .. 2 |-> <<a, b>>[i]]
  BY <1>1, <1>2, <1>6
<1> QED
  BY <1>3, <1>7, <1>8, <1>9, Zenon

LEMMA KeptOfOne ==
  ASSUME NEW a, NEW K
  PROVE  Kept(<<a>>, K) = IF a \in K THEN <<a>> ELSE <<>>
<1>1. <<a>> \in Seq({a}) /\ Len(<<a>>) = 1
  OBVIOUS
<1>2. PICK k \in [0 .. Len(<<a>>) -> Seq({a} \cap K)] : KeptTurns(k, <<a>>, K)
  BY <1>1, KeptLoop
<1> QED
  BY <1>1, <1>2 DEF KeptTurns

LEMMA KeptOfTwo ==
  ASSUME NEW a, NEW b, NEW K
  PROVE  /\ a \in K /\ b \notin K => Kept(<<a, b>>, K) = <<a>>
         /\ a \notin K /\ b \in K => Kept(<<a, b>>, K) = <<b>>
         /\ Kept(<<a, b>>, K) \in {<<a, b>>, <<a>>, <<b>>, <<>>}
<1> DEFINE s == <<a, b>>
<1>1. s \in Seq({a, b}) /\ Len(s) = 2 /\ s[1] = a /\ s[2] = b
  OBVIOUS
<1> HIDE DEF s
<1>2. PICK k \in [0 .. Len(s) -> Seq({a, b} \cap K)] : KeptTurns(k, s, K)
  BY <1>1, KeptLoop
<1>3. 1 \in 1 .. Len(s) /\ 2 \in 1 .. Len(s) /\ 1 - 1 = 0 /\ 2 - 1 = 1
  BY <1>1
<1>4. k[0] = <<>> /\ k[1] = IF a \in K THEN Append(<<>>, a) ELSE <<>>
  BY <1>1, <1>2, <1>3 DEF KeptTurns
<1>5. Kept(s, K) = k[2] /\ k[2] = IF b \in K THEN Append(k[1], b) ELSE k[1]
  BY <1>1, <1>2, <1>3 DEF KeptTurns
<1>6. Append(<<>>, a) = <<a>> /\ Append(<<>>, b) = <<b>> /\ Append(<<a>>, b) = s
  BY ShortLists DEF s
<1>7. CASE a \in K
  BY <1>4, <1>5, <1>6, <1>7, Zenon DEF s
<1>8. CASE a \notin K
  BY <1>4, <1>5, <1>6, <1>8, Zenon DEF s
<1> QED
  BY <1>7, <1>8

LEMMA LessAWindow ==
  ASSUME NEW ws \in WindowLists, NEW K
  PROVE  Kept(ws, K) \in WindowLists \cup {<<>>}
<1>1. CASE ws = <<"prompt">> \/ ws = <<"editor">>
  BY <1>1, KeptOfOne DEF WindowLists
<1>2. CASE ws = <<"prompt", "editor">>
  BY <1>2, KeptOfTwo DEF WindowLists
<1>3. CASE ws = <<"editor", "prompt">>
  BY <1>3, KeptOfTwo DEF WindowLists
<1> QED
  BY <1>1, <1>2, <1>3 DEF WindowLists

LEMMA Raised ==
  ASSUME NEW ws \in WindowLists \cup {<<>>}, NEW w \in Windows
  PROVE  /\ RaiseWindow(ws, w) \in WindowLists \cup {<<>>}
         /\ ws # <<>> => RaiseWindow(ws, w) # <<>>
<1>1. CASE ~Contains(ws, w)
  BY <1>1 DEF RaiseWindow
<1>2. CASE Contains(ws, w)
  <2>1. PICK i \in 1 .. Len(ws) : ws[i] = w
    BY <1>2 DEF Contains
  <2>2. RaiseWindow(ws, w) = Append(Kept(ws, Windows \ {w}), w)
    BY <1>2 DEF RaiseWindow
  <2>3. CASE ws = <<"prompt">> \/ ws = <<"editor">>
    <3>1. ws = <<w>>
      BY <2>1, <2>3
    <3>2. Kept(ws, Windows \ {w}) = <<>>
      BY <3>1, KeptOfOne
    <3> QED
      BY <2>2, <2>3, <3>1, <3>2, ShortLists DEF WindowLists
  <2>4. CASE ws = <<"prompt", "editor">>
    <3>1. CASE w = "prompt"
      <4>1. Kept(ws, Windows \ {w}) = <<"editor">>
        BY <2>4, <3>1, KeptOfTwo DEF Windows
      <4>2. RaiseWindow(ws, w) = <<"editor", "prompt">>
        BY <2>2, <3>1, <4>1, ShortLists
      <4> QED
        BY <4>2 DEF WindowLists
    <3>2. CASE w = "editor"
      <4>1. Kept(ws, Windows \ {w}) = <<"prompt">>
        BY <2>4, <3>2, KeptOfTwo DEF Windows
      <4>2. RaiseWindow(ws, w) = <<"prompt", "editor">>
        BY <2>2, <3>2, <4>1, ShortLists
      <4> QED
        BY <4>2 DEF WindowLists
    <3> QED
      BY <3>1, <3>2 DEF Windows
  <2>5. CASE ws = <<"editor", "prompt">>
    <3>1. CASE w = "prompt"
      <4>1. Kept(ws, Windows \ {w}) = <<"editor">>
        BY <2>5, <3>1, KeptOfTwo DEF Windows
      <4>2. RaiseWindow(ws, w) = <<"editor", "prompt">>
        BY <2>2, <3>1, <4>1, ShortLists
      <4> QED
        BY <4>2 DEF WindowLists
    <3>2. CASE w = "editor"
      <4>1. Kept(ws, Windows \ {w}) = <<"prompt">>
        BY <2>5, <3>2, KeptOfTwo DEF Windows
      <4>2. RaiseWindow(ws, w) = <<"prompt", "editor">>
        BY <2>2, <3>2, <4>1, ShortLists
      <4> QED
        BY <4>2 DEF WindowLists
    <3> QED
      BY <3>1, <3>2 DEF Windows
  <2>6. ws # <<>>
    BY <2>1
  <2> QED
    BY <2>3, <2>4, <2>5, <2>6 DEF WindowLists
<1> QED
  BY <1>1, <1>2

\* Whoever has the keys was reached by drawing: there is a window at `at'.
DeskTypes ==
  /\ wins \in WindowLists /\ at \in 0 .. 2 /\ limit \in 1 .. 2
  /\ turn \in Turns /\ (turn # "frame" => at < limit)
  /\ wants \subseteq {"switch", "close", "run"} /\ asked \in Files \cup {Absent}

BufferTypes ==
  /\ disk \in [Files -> Texts \cup {Absent}]
  /\ fname \in Files \cup {Absent} /\ text \in Texts
  /\ modified \in BOOLEAN /\ confirm_quit \in BOOLEAN /\ session \in BOOLEAN
  /\ owner \in Files \cup {Absent} /\ based \in Texts /\ warned \in Texts \cup {Absent}

SessionTypes == BufferTypes /\ DeskTypes

LEMMA LoadedTypes ==
  ASSUME BufferTypes, NEW f \in Files, Loaded(f) \/ (\E where : LoadFails(f, where)),
         UNCHANGED disk, session' \in BOOLEAN
  PROVE  BufferTypes'
<1> USE DEF BufferTypes
<1>1. CASE Loaded(f)
  <2>1. Contents(f) \in Texts
    BY SessionAssumption DEF Contents
  <2> QED
    BY <1>1, <2>1 DEF Loaded
<1>2. CASE \E where : LoadFails(f, where)
  BY <1>2, SessionAssumption DEF LoadFails
<1> QED
  BY <1>1, <1>2

LEMMA EditFileTypes ==
  ASSUME SessionTypes, NEW f \in Files, EditFile(f)
  PROVE  SessionTypes'
<1>1. BufferTypes'
  BY LoadedTypes DEF SessionTypes, EditFile
<1>2. DeskTypes'
  BY DEF SessionTypes, DeskTypes, EditFile, desk, Turns
<1> QED
  BY <1>1, <1>2 DEF SessionTypes

LEMMA DeskEditTypes ==
  ASSUME SessionTypes, NEW f \in Files, DeskEdit(f)
  PROVE  SessionTypes'
<1>1. BufferTypes'
  <2>1. CASE UNCHANGED <<buffer, session>>
    BY <2>1 DEF SessionTypes, BufferTypes, DeskEdit, buffer
  <2>2. CASE Loaded(f) /\ session' = TRUE
    BY <2>2, LoadedTypes DEF SessionTypes, DeskEdit
  <2>3. CASE LoadFails(f, "window") /\ UNCHANGED session
    <3>1. session' \in BOOLEAN
      BY <2>3 DEF SessionTypes, BufferTypes
    <3> QED
      BY <2>3, <3>1, LoadedTypes DEF SessionTypes, DeskEdit
  <2> QED
    BY <2>1, <2>2, <2>3 DEF DeskEdit
<1>2. CASE UNCHANGED desk
  BY <1>1, <1>2 DEF SessionTypes, DeskTypes, DeskEdit, desk
<1>3. CASE ShowEditor
  <2>1. wins \in WindowLists
    BY DEF SessionTypes, DeskTypes
  <2>2. wins' \in WindowLists
    <3>1. CASE Contains(wins, "editor")
      BY <1>3, <2>1, <3>1, Raised DEF ShowEditor, Windows, WindowLists
    <3>2. CASE ~Contains(wins, "editor")
      <4>1. wins = <<"prompt">>
        BY <2>1, <3>2 DEF Contains, WindowLists
      <4>2. wins' \in {wins, Append(wins, "editor")}
        BY <1>3, <3>2 DEF ShowEditor
      <4> QED
        BY <4>1, <4>2 DEF WindowLists
    <3> QED
      BY <3>1, <3>2
  <2> QED
    BY <1>1, <1>3, <2>2 DEF SessionTypes, DeskTypes, DeskEdit, ShowEditor
<1> QED
  BY <1>1, <1>2, <1>3 DEF DeskEdit

LEMMA KeyTypes ==
  ASSUME SessionTypes, TypeKey \/ OtherKey \/ PadEdit \/ SaveKey \/ LeaveWarns
  PROVE  SessionTypes'
<1>1. BufferTypes'
  <2> USE DEF SessionTypes, BufferTypes
  <2>1. CASE TypeKey
    BY <2>1 DEF TypeKey
  <2>2. CASE OtherKey
    BY <2>2 DEF OtherKey
  <2>3. CASE PadEdit
    BY <2>3 DEF PadEdit
  <2>4. CASE SaveKey
    BY <2>4 DEF SaveKey, save
  <2>5. CASE LeaveWarns
    BY <2>5 DEF LeaveWarns
  <2> QED
    BY <2>1, <2>2, <2>3, <2>4, <2>5
<1>2. UNCHANGED <<turn, desk>>
  BY DEF TypeKey, OtherKey, PadEdit, SaveKey, LeaveWarns
<1> QED
  BY <1>1, <1>2 DEF SessionTypes, DeskTypes, desk

LEMMA RunKeyTypes ==
  ASSUME SessionTypes, RunKey
  PROVE  SessionTypes'
<1>1. BufferTypes'
  BY DEF SessionTypes, BufferTypes, RunKey, save
<1>2. DeskTypes'
  BY DEF SessionTypes, BufferTypes, DeskTypes, RunKey, save, Editing, Turns
<1> QED
  BY <1>1, <1>2 DEF SessionTypes

LEMMA LeaveKeyTypes ==
  ASSUME SessionTypes, LeaveKey
  PROVE  SessionTypes'
<1>1. BufferTypes'
  BY DEF SessionTypes, BufferTypes, LeaveKey, buffer
<1>2. DeskTypes'
  <2>1. CASE turn = "editor"
    <3>1. at < limit /\ at' = at + 1 /\ turn' = "frame" /\ UNCHANGED <<wins, limit, asked>>
      BY <2>1 DEF SessionTypes, DeskTypes, LeaveKey
    <3>2. wants' \subseteq {"switch", "close", "run"}
      BY <2>1 DEF SessionTypes, DeskTypes, LeaveKey
    <3> QED
      BY <3>1, <3>2 DEF SessionTypes, DeskTypes, Turns
  <2>2. CASE turn = "screen"
    BY <2>2 DEF SessionTypes, DeskTypes, LeaveKey, Turns
  <2> QED
    BY <2>1, <2>2 DEF LeaveKey, Editing
<1> QED
  BY <1>1, <1>2 DEF SessionTypes

\* A frame of the desk leaves the buffer alone.
LEMMA FrameTypes ==
  ASSUME SessionTypes,
         \/ Covered \/ PromptDone \/ PromptReadsKeys \/ EditorClosed
         \/ EditorReadsKeys \/ EditorDone \/ NextFrame \/ DeskStart
  PROVE  SessionTypes'
<1>1. UNCHANGED <<disk, buffer, session>>
  BY DEF Covered, PromptDone, PromptReadsKeys, EditorClosed, EditorReadsKeys, EditorDone,
         NextFrame, DeskStart
<1>2. BufferTypes'
  BY <1>1 DEF SessionTypes, BufferTypes, buffer
<1>3. DeskTypes
  BY DEF SessionTypes
<1>4. CASE Covered \/ EditorClosed
  <2>1. at < limit /\ at' = at + 1 /\ turn' = "frame" /\ UNCHANGED <<wins, limit, asked>>
    BY <1>4 DEF Covered, EditorClosed, Drawn
  <2>2. wants' \subseteq {"switch", "close", "run"}
    BY <1>3, <1>4 DEF DeskTypes, Covered, EditorClosed
  <2> QED
    BY <1>2, <1>3, <2>1, <2>2 DEF SessionTypes, DeskTypes, Turns
<1>5. CASE PromptReadsKeys \/ EditorReadsKeys
  BY <1>2, <1>3, <1>5 DEF SessionTypes, DeskTypes, PromptReadsKeys, EditorReadsKeys, Drawn,
                         desk, Turns
<1>6. CASE PromptDone
  BY <1>2, <1>3, <1>6 DEF SessionTypes, DeskTypes, PromptDone, Drawn, Turns
<1>7. CASE EditorDone
  BY <1>2, <1>3, <1>7 DEF SessionTypes, DeskTypes, EditorDone, Drawn, Turns
<1>8. CASE NextFrame
  <2>1. AfterClose \in WindowLists \cup {<<>>}
    BY <1>3, LessAWindow DEF AfterClose, DeskTypes
  <2>2. AfterSwitch \in WindowLists \cup {<<>>}
    <3>1. ASSUME NEW w \in Windows PROVE Other(w) \in Windows
      BY <3>1 DEF Other, Windows
    <3>2. AfterClose # <<>> => Last(AfterClose) \in Windows
      BY <2>1 DEF WindowLists, Windows, Last
    <3> QED
      BY <2>1, <3>1, <3>2, Raised DEF AfterSwitch
  <2>3. \A w \in ToSet(AfterSwitch) : w \in Windows
    BY <2>2 DEF ToSet, WindowLists, Windows
  <2>4. wins' \in WindowLists \cup {<<>>}
    <3>1. CASE wins' = AfterSwitch
      BY <2>2, <3>1
    <3>2. CASE \E w \in ToSet(AfterSwitch) :
                 wins' \in {RaiseWindow(AfterSwitch, w), Kept(AfterSwitch, Windows \ {w})}
      <4>1. PICK w \in Windows :
              wins' \in {RaiseWindow(AfterSwitch, w), Kept(AfterSwitch, Windows \ {w})}
        BY <2>3, <3>2
      <4>2. CASE wins' = RaiseWindow(AfterSwitch, w)
        BY <2>2, <4>2, Raised
      <4>3. CASE wins' = Kept(AfterSwitch, Windows \ {w})
        <5>1. AfterSwitch # <<>>
          BY <3>2 DEF ToSet
        <5> QED
          BY <2>2, <4>3, <5>1, LessAWindow
      <4> QED
        BY <4>1, <4>2, <4>3
    <3> QED
      BY <1>8, <3>1, <3>2 DEF NextFrame
  <2>5. wins' \in WindowLists /\ Len(wins') \in 1 .. 2
    BY <1>8, <2>4 DEF NextFrame, WindowLists
  <2> QED
    BY <1>2, <1>3, <1>8, <2>5 DEF SessionTypes, DeskTypes, NextFrame
<1>9. CASE DeskStart
  BY <1>2, <1>3, <1>9 DEF SessionTypes, DeskTypes, DeskStart, WindowLists
<1> QED
  BY <1>4, <1>5, <1>6, <1>7, <1>8, <1>9

LEMMA DeskNextTypes ==
  ASSUME SessionTypes, DeskNext
  PROVE  SessionTypes'
BY DeskEditTypes, KeyTypes, RunKeyTypes, LeaveKeyTypes, FrameTypes DEF DeskNext


-----------------------------------------------------------------------------
(* What the variables hold: the Files window.                              *)

Listable == Files \cup ToSet(Rom)

RowTypes == [name : Listable \cup {Absent}, on : BOOLEAN]

\* There is always a file: those in ROM are listed unless one of the pak's hides them.
LEMMA ListedIsFiles ==
  ASSUME NEW d
  PROVE  /\ Listed(d) \in Seq(Listable)
         /\ Len(Listed(d)) \in 1 .. Len(Order) + Len(Rom)
<1> DEFINE yours == {f \in Files : OnPak(d, f)}
           theirs == ToSet(Rom) \ yours
<1>1. Order \in Seq(Files) /\ Rom \in Seq(ToSet(Rom)) /\ Rom # <<>>
  BY FilesAssumption, SessionAssumption
<1> DEFINE k == Kept(Order, yours)
           l == Kept(Rom, theirs)
<1>2. k \in Seq(Files \cap yours) /\ Len(k) <= Len(Order)
  BY <1>1, KeptOfBoth
<1>3. l \in Seq(ToSet(Rom) \cap theirs) /\ Len(l) <= Len(Rom)
  BY <1>1, KeptOfBoth
<1>4. Listed(d) = k \o l
  BY DEF Listed
<1>5. k # <<>> \/ l # <<>>
  <2>1. 1 \in 1 .. Len(Rom) /\ Rom[1] \in ToSet(Rom)
    BY <1>1 DEF ToSet
  <2>2. CASE Rom[1] \in yours
    <3>1. Rom[1] \in ToSet(Order)
      BY <2>2, FilesAssumption
    <3>2. \E i \in 1 .. Len(Order) : Order[i] \in yours
      BY <2>2, <3>1 DEF ToSet
    <3> QED
      BY <1>1, <3>2, KeptOfBoth
  <2>3. CASE Rom[1] \notin yours
    <3>1. \E i \in 1 .. Len(Rom) : Rom[i] \in theirs
      BY <2>1, <2>3
    <3> QED
      BY <1>1, <3>1, KeptOfBoth
  <2> QED
    BY <2>2, <2>3
<1> HIDE DEF yours, theirs, k, l
<1>6. k \in Seq(Listable) /\ l \in Seq(Listable)
  BY <1>2, <1>3 DEF Listable
<1>7. Len(k) + Len(l) > 0 /\ Len(k \o l) = Len(k) + Len(l)
  BY <1>5, <1>6
<1> QED
  BY <1>1, <1>2, <1>3, <1>4, <1>6, <1>7

LEMMA EntryTypes ==
  ASSUME NEW list \in Seq(Listable), NEW i \in Int, NEW s
  PROVE  Entry(list, i, s) \in RowTypes
<1>1. Blank \in RowTypes
  BY DEF Blank, RowTypes
<1>2. ASSUME i \in 0 .. Len(list) - 1 PROVE list[i + 1] \in Listable
  <2>1. i + 1 \in 1 .. Len(list)
    BY <1>2
  <2> QED
    BY <2>1
<1> QED
  BY <1>1, <1>2 DEF Entry, RowTypes

Notes == {"none", "again", "rom", "deleted", "error"}

FilesTypes ==
  /\ Len(stack) <= MaxDepth
  /\ Browsing => count = Len(Listed(disk)) /\ sel < count
  /\ sel \in Nat /\ top \in Nat
  /\ armed \in -1 .. Len(Order) + Len(Rom)
  /\ note \in Notes /\ rows \in [Rows -> RowTypes] /\ offered \in Files \cup {Absent}

LEMMA CoveredTypes ==
  ASSUME Covered_
  PROVE  rows' \in [Rows -> RowTypes]
BY DEF Covered_, Blank, RowTypes

LEMMA DrawnTypes ==
  ASSUME sel \in Nat, top \in Nat, draw_all
  PROVE  /\ count' = Len(Listed(disk')) /\ sel' \in Nat /\ sel' < count'
         /\ top' \in Nat /\ rows' \in [Rows -> RowTypes]
<1> DEFINE list == Listed(disk')
<1>1. list \in Seq(Listable) /\ Len(list) \in Nat \ {0}
  BY ListedIsFiles, FilesAssumption, SessionAssumption
<1>2. /\ count' = Len(list) /\ top' = top
      /\ sel' = IF sel < Len(list) THEN sel ELSE IF list = <<>> THEN 0 ELSE Len(list) - 1
      /\ rows' = [r \in Rows |-> Entry(list, top + r, sel')]
  BY DEF draw_all
<1> HIDE DEF list
<1>3. list # <<>>
  BY <1>1
<1>4. sel' \in Nat /\ sel' < count'
  BY <1>1, <1>2, <1>3
<1>5. \A r \in Rows : Entry(list, top + r, sel') \in RowTypes
  BY <1>1, EntryTypes DEF Rows
<1> QED
  BY <1>2, <1>4, <1>5 DEF list

LEMMA PickTypes ==
  ASSUME FilesTypes, Browsing, NEW i \in Int, pick(i), UNCHANGED count
  PROVE  sel' \in Nat /\ sel' < count' /\ top' \in Nat /\ rows' \in [Rows -> RowTypes]
<1>1. /\ Listed(disk) \in Seq(Listable) /\ count \in Nat \ {0}
      /\ LIST_ROWS \in Nat
  BY ListedIsFiles, FilesAssumption, SessionAssumption DEF FilesTypes
<1>2. sel' = IF i >= count THEN count - 1 ELSE IF i < 0 THEN 0 ELSE i
  BY DEF pick
<1>3. sel' \in Nat /\ sel' < count'
  BY <1>1, <1>2
<1>4. top' = IF sel' < top THEN sel' ELSE IF sel' >= top + LIST_ROWS THEN sel' - LIST_ROWS + 1 ELSE top
  BY DEF pick
<1>5. top' \in Nat
  <2>1. \A s, t, n \in Nat : s >= t + n => s - n + 1 \in Nat
    OBVIOUS
  <2>2. top \in Nat /\ LIST_ROWS \in Nat
    BY <1>1 DEF FilesTypes
  <2> QED
    BY <1>3, <1>4, <2>1, <2>2
<1>6. rows' = [r \in Rows |-> IF top' # top \/ top' + r \in {sel, sel'}
                              THEN Entry(Listed(disk), top' + r, sel') ELSE rows[r]]
  BY DEF pick
<1>7. \A r \in Rows : Entry(Listed(disk), top' + r, sel') \in RowTypes /\ rows[r] \in RowTypes
  BY <1>1, <1>5, EntryTypes DEF Rows, FilesTypes
<1> QED
  BY <1>3, <1>5, <1>6, <1>7


FilesInv == SessionTypes /\ FilesTypes /\ RowsInv

LEMMA OpensTypes ==
  ASSUME FilesInv, NEW f \in Files, Opens(f)
  PROVE  /\ SessionTypes'
         /\ Browsing' => count' = Len(Listed(disk)') /\ sel' < count'
         /\ sel' \in Nat /\ top' \in Nat /\ rows' \in [Rows -> RowTypes]
<1>1. SessionTypes'
  <2>1. CASE EditFile(f)
    BY <2>1, EditFileTypes DEF FilesInv
  <2>2. CASE UNCHANGED svars
    BY <2>2 DEF FilesInv, SessionTypes, BufferTypes, DeskTypes, svars, buffer, desk
  <2> QED
    BY <2>1, <2>2 DEF Opens
<1>2. CASE turn' = "screen"
  BY <1>1, <1>2, CoveredTypes DEF FilesInv, FilesTypes, Opens, Browsing
<1>3. CASE turn' # "screen"
  <2>1. draw_all
    BY <1>3 DEF Opens
  <2> QED
    BY <1>1, <2>1, DrawnTypes DEF FilesInv, FilesTypes
<1> QED
  BY <1>2, <1>3

LEMMA NextTypes ==
  ASSUME FilesInv, Next
  PROVE  SessionTypes' /\ FilesTypes'
<1> USE DEF FilesInv
<1>1. SessionTypes /\ FilesTypes /\ Spaced(stack)
  BY DEF RowsInv
<1>2. ASSUME UNCHANGED svars PROVE SessionTypes'
  BY <1>1, <1>2 DEF SessionTypes, BufferTypes, DeskTypes, svars, buffer, desk
<1>3. ASSUME armed' = -1 PROVE armed' \in -1 .. Len(Order) + Len(Rom)
  <2>1. Len(Order) \in Nat /\ Len(Rom) \in Nat
    BY FilesAssumption, SessionAssumption
  <2> QED
    BY <1>3, <2>1
<1>4. \A s, x : s \in Seq(Kinds) => Len(Append(s, x)) = Len(s) + 1
  OBVIOUS
<1>5. Len(stack) \in Nat /\ MaxDepth \in Nat
      /\ (stack # <<>> => Len(Front(stack)) <= MaxDepth)
  BY <1>1, FilesAssumption DEF FilesTypes, Spaced, Front
<1>6. CASE Elsewhere
  <2>1. UNCHANGED fvars
    BY <1>6 DEF Elsewhere
  <2>2. ~Browsing'
    BY <1>6, <2>1 DEF Elsewhere, Browsing, AtThePrompt, Under, fvars, ScreenKey, TypeKey,
      OtherKey, PadEdit, SaveKey, LeaveWarns
  <2>3. SessionTypes'
    <3>1. CASE DeskNext
      BY <3>1, DeskNextTypes
    <3>2. CASE ScreenKey
      BY <3>2, KeyTypes DEF ScreenKey
    <3>3. CASE PromptWrites
      BY <3>3 DEF PromptWrites, SessionTypes, BufferTypes, DeskTypes, buffer, desk
    <3>4. CASE \E f \in Files : EditFile(f)
      BY <3>4, EditFileTypes
    <3>5. CASE LeaveKey \/ RunKey
      BY <3>5, LeaveKeyTypes, RunKeyTypes
    <3> QED
      BY <1>6, <3>1, <3>2, <3>3, <3>4, <3>5 DEF Elsewhere
  <2> QED
    BY <2>1, <2>2, <2>3 DEF FilesTypes, fvars
<1>7. CASE FilesOpen
  <2>1. Len(stack') <= MaxDepth
    BY <1>1, <1>4, <1>5, <1>7 DEF FilesOpen, Spaced
  <2>2. draw_all /\ armed' = -1 /\ note' = "none" /\ offered' = Absent /\ UNCHANGED svars
    BY <1>7 DEF FilesOpen
  <2> QED
    BY <1>2, <1>3, <2>1, <2>2, DrawnTypes DEF FilesTypes, Notes
<1>8. CASE FilesLeave
  <2>1. Spaced(stack)' /\ ~Under("files")'
    BY <1>1, <1>8, SpacedFront DEF FilesLeave, Browsing, Under
  <2>2. Len(stack') <= MaxDepth /\ ~Browsing' /\ UNCHANGED <<svars, sel, top>>
    BY <1>5, <1>8, <2>1 DEF FilesLeave, Browsing, Under
  <2>3. rows' \in [Rows -> RowTypes]
    BY <1>8, CoveredTypes DEF FilesLeave
  <2>4. (armed' = -1 /\ note' = "none" /\ offered' = Absent) \/ UNCHANGED <<armed, note, offered>>
    BY <1>8 DEF FilesLeave
  <2> QED
    BY <1>2, <1>3, <2>2, <2>3, <2>4 DEF FilesTypes, Notes
<1>9. CASE PickKey
  <2>1. PICK i \in Int : pick(i)
    <3>1. sel \in Int /\ top \in Int /\ LIST_ROWS \in Int
      BY FilesAssumption DEF FilesTypes
    <3> QED
      BY <1>9, <3>1 DEF PickKey
  <2>2. UNCHANGED <<svars, stack, count, armed, note, offered>> /\ Browsing
    BY <1>9 DEF PickKey
  <2>3. UNCHANGED disk /\ UNCHANGED Listed(disk)
    BY <2>2 DEF svars
  <2> QED
    BY <1>1, <1>2, <2>1, <2>2, <2>3, PickTypes DEF FilesTypes
<1>10. CASE EditKey \/ NewKey
  <2>1. PICK f \in Files : Opens(f)
    BY <1>10 DEF EditKey, NewKey
  <2>2. armed' = -1 /\ note' \in {"none", note} /\ offered' = Absent /\ UNCHANGED stack
    BY <1>10, <2>1 DEF EditKey, NewKey, Disarm, Opens
  <2> QED
    BY <1>3, <2>1, <2>2, OpensTypes DEF FilesTypes, Notes
<1>11. CASE RunFileKey \/ EditorRuns
  <2>1. stack' = Append(stack, "run") /\ Len(stack) < MaxDepth /\ Runs
    BY <1>11 DEF RunFileKey, EditorRuns, Runs
  <2>2. Len(stack') <= MaxDepth
    BY <1>1, <1>4, <1>5, <2>1 DEF Spaced
  <2>3. ~Browsing'
    BY <1>1, <2>1, SpacedAppend DEF Browsing, Under, Kinds
  <2>4. rows' \in [Rows -> RowTypes] /\ offered' = Absent /\ UNCHANGED <<sel, top>>
    BY <2>1, CoveredTypes DEF Runs
  <2>5. (armed' = -1 /\ note' \in {"none", note}) \/ UNCHANGED <<armed, note>>
    BY <1>11 DEF RunFileKey, EditorRuns, Disarm
  <2>6. SessionTypes'
    BY <1>1, <1>2, <1>11, RunKeyTypes DEF RunFileKey, EditorRuns
  <2> QED
    BY <1>3, <2>2, <2>3, <2>4, <2>5, <2>6 DEF FilesTypes, Notes
<1>12. CASE RunDone
  <2>1. draw_all /\ note' = "none" /\ UNCHANGED <<svars, armed, offered>>
    BY <1>12 DEF RunDone
  <2>2. Len(stack') <= MaxDepth
    BY <1>5, <1>12 DEF RunDone, Under
  <2> QED
    BY <1>2, <2>1, <2>2, DrawnTypes DEF FilesTypes, Notes
<1>13. CASE EditorLeaves
  <2>1. draw_all /\ UNCHANGED <<stack, armed, note, offered>>
    BY <1>13 DEF EditorLeaves
  <2>2. SessionTypes'
    BY <1>1, <1>13, LeaveKeyTypes DEF EditorLeaves
  <2> QED
    BY <2>1, <2>2, DrawnTypes DEF FilesTypes
<1>14. CASE RefuseRom \/ AskDelete
  <2>1. UNCHANGED <<svars, stack, count, sel, top, rows>> /\ Browsing
    BY <1>14 DEF RefuseRom, AskDelete
  <2>2. UNCHANGED Listed(disk) /\ Browsing'
    BY <2>1 DEF svars, Browsing, Under
  <2>3. sel \in 0 .. Len(Order) + Len(Rom)
    BY <2>1, ListedIsFiles DEF FilesTypes
  <2>4. armed' \in {armed, sel} /\ note' \in {"rom", "again"}
    BY <1>14 DEF RefuseRom, AskDelete
  <2>5. offered' \in Files \cup {Absent}
    BY <1>14 DEF RefuseRom, AskDelete, OnPak, FilesTypes
  <2>6. armed' \in -1 .. Len(Order) + Len(Rom)
    BY <2>3, <2>4 DEF FilesTypes
  <2> QED
    BY <1>2, <2>1, <2>2, <2>4, <2>5, <2>6 DEF FilesTypes, Notes
<1>15. CASE Delete
  <2>1. /\ draw_all /\ armed' = -1 /\ offered' = Absent /\ UNCHANGED stack
        /\ note' \in {"deleted", "error"}
    BY <1>15 DEF Delete
  <2>2. BufferTypes'
    BY <1>1, <1>15 DEF Delete, SessionTypes, BufferTypes, buffer
  <2>3. SessionTypes'
    BY <1>1, <1>15, <2>2 DEF Delete, SessionTypes, DeskTypes, desk
  <2> QED
    BY <1>3, <2>1, <2>3, DrawnTypes DEF FilesTypes, Notes
<1> QED
  BY <1>6, <1>7, <1>8, <1>9, <1>10, <1>11, <1>12, <1>13, <1>14, <1>15 DEF Next

LEMMA FilesInductive == Spec => []FilesInv
<1>1. Init => FilesInv
  <2> SUFFICES ASSUME Init PROVE FilesInv
    OBVIOUS
  <2>1. SessionTypes
    <3>1. BufferTypes
      BY SessionAssumption DEF Init, SessionInit, BufferTypes
    <3>2. DeskTypes
      BY DEF Init, SessionInit, DeskTypes, WindowLists, Turns
    <3> QED
      BY <3>1, <3>2 DEF SessionTypes
  <2>2. -1 \in -1 .. Len(Order) + Len(Rom)
    BY FilesAssumption, SessionAssumption
  <2>3. FilesTypes
    BY <2>2, FilesAssumption
    DEF Init, FilesTypes, Browsing, Under, Notes, RowTypes, Blank
  <2>4. RowsInv
    BY DEF Init, RowsInv, Spaced, RowsAreTheFiles, Browsing, Under
  <2> QED
    BY <2>1, <2>3, <2>4 DEF FilesInv
<1>2. FilesInv /\ [Next]_vars => FilesInv'
  <2> SUFFICES ASSUME FilesInv, [Next]_vars PROVE FilesInv'
    OBVIOUS
  <2>1. CASE Next
    BY <2>1, NextTypes, NextRows DEF FilesInv
  <2>2. CASE UNCHANGED vars
    <3>1. SessionTypes'
      BY <2>2 DEF FilesInv, SessionTypes, BufferTypes, DeskTypes, vars, svars, buffer, desk
    <3>2. UNCHANGED <<disk, turn, fvars>>
      BY <2>2 DEF vars, svars
    <3>3. FilesTypes'
      BY <3>2 DEF FilesInv, FilesTypes, fvars, Browsing, Under
    <3>4. RowsInv'
      BY <3>2 DEF FilesInv, RowsInv, Spaced, RowsAreTheFiles, Browsing, Under, fvars
    <3> QED
      BY <3>1, <3>3, <3>4 DEF FilesInv
  <2> QED
    BY <2>1, <2>2
<1> QED
  BY <1>1, <1>2, PTL DEF Spec

\* Every variable of the editor's session, of the desk and of the Files window keeps its
\* type: what draws or leaves the list (files.c: draw_all, pick) selects a file that is
\* there, and no key makes a third window of the desk's two.
THEOREM SessionTypesOK == Spec => []TypeOK
<1>1. FilesInv => TypeOK
  <2> SUFFICES ASSUME FilesInv PROVE TypeOK
    OBVIOUS
  <2>1. SessionTypeOK
    BY DEF FilesInv, SessionTypes, BufferTypes, DeskTypes, SessionTypeOK, WindowLists, Turns
  <2>2. stack \in Seq({"files", "run"})
    BY DEF FilesInv, RowsInv, Spaced, Kinds
  <2>3. Browsing => count = Len(Listed(disk)) /\ sel \in 0 .. count - 1
    BY ListedIsFiles DEF FilesInv, FilesTypes
  <2> QED
    BY <2>1, <2>2, <2>3 DEF TypeOK, FilesInv, FilesTypes, Notes, RowTypes, Listable
<1> QED
  BY <1>1, FilesInductive, PTL

-----------------------------------------------------------------------------
(* Deleting.                                                               *)

\* With one Files window at a time: it, and a program or an editor over it.
OneFilesWindow == stack \in {<<>>, <<"files">>, <<"files", "run">>}

\* The entry that Z was pressed on is the file that "press Z again" was said of, for as long
\* as the window is not left, nothing is opened or run, and nothing is deleted.
AskedOfThis ==
  armed # -1 => Browsing /\ armed \in Nat /\ offered = Listed(disk)[armed + 1]

AskInv == FilesInv /\ OneFilesWindow /\ AskedOfThis

LEMMA FrontOfFew ==
  ASSUME NEW a, NEW b
  PROVE  Front(<<a>>) = <<>> /\ Front(<<a, b>>) = <<a>>
<1>1. <<a>> \in Seq({a, b}) /\ <<a, b>> \in Seq({a, b}) /\ Len(<<a>>) = 1 /\ Len(<<a, b>>) = 2
  OBVIOUS
<1>2. \A s \in Seq({a, b}) : s = [i \in 1 .. Len(s) |-> s[i]]
  OBVIOUS
<1>3. Front(<<a>>) \in Seq({a, b}) /\ Len(Front(<<a>>)) = 0
  BY <1>1 DEF Front
<1>4. /\ Front(<<a, b>>) \in Seq({a, b}) /\ Len(Front(<<a, b>>)) = 1
      /\ Front(<<a, b>>)[1] = a
  BY <1>1 DEF Front
<1>5. <<a>> = [i \in 1 .. 1 |-> a]
  OBVIOUS
<1>6. Front(<<a, b>>) = [i \in 1 .. 1 |-> a]
  BY <1>2, <1>4
<1> QED
  BY <1>3, <1>5, <1>6

LEMMA NextOneWindow ==
  ASSUME MaxDepth <= 2, OneFilesWindow, Next
  PROVE  OneFilesWindow'
<1> USE DEF OneFilesWindow
<1>1. MaxDepth \in Nat /\ Len(<<"files", "run">>) = 2
  BY FilesAssumption
<1>2. Last(<<"files">>) = "files" /\ Last(<<"files", "run">>) = "run"
  BY DEF Last
<1>3. CASE FilesOpen
  <2>1. stack = <<>>
    BY <1>1, <1>2, <1>3 DEF FilesOpen, AtThePrompt, Under
  <2> QED
    BY <1>3, <2>1, ShortLists DEF FilesOpen
<1>4. CASE RunFileKey \/ EditorRuns
  <2>1. stack = <<"files">> /\ stack' = Append(stack, "run")
    BY <1>1, <1>2, <1>4 DEF RunFileKey, EditorRuns, Browsing, Under, Runs
  <2> QED
    BY <2>1, ShortLists
<1>5. CASE FilesLeave \/ RunDone
  <2>1. stack # <<>> /\ stack' = Front(stack)
    BY <1>5 DEF FilesLeave, RunDone, Browsing, Under
  <2> QED
    BY <2>1, FrontOfFew
<1>6. CASE \/ Elsewhere \/ PickKey \/ EditKey \/ NewKey \/ EditorLeaves
           \/ RefuseRom \/ AskDelete \/ Delete
  <2>1. UNCHANGED stack
    BY <1>6 DEF Elsewhere, PickKey, EditKey, NewKey, Opens, EditorLeaves, RefuseRom,
                AskDelete, Delete, fvars
  <2> QED
    BY <2>1
<1> QED
  BY <1>3, <1>4, <1>5, <1>6 DEF Next

LEMMA NextAsked ==
  ASSUME FilesInv, OneFilesWindow, AskedOfThis, Next
  PROVE  AskedOfThis'
<1>1. FilesTypes
  BY DEF FilesInv
<1>2. CASE armed' = -1
  BY <1>2 DEF AskedOfThis
<1>3. CASE UNCHANGED <<armed, offered, stack, turn, disk>>
  BY <1>3 DEF AskedOfThis, Browsing, Under
<1>4. CASE ~Browsing /\ UNCHANGED armed
  BY <1>4 DEF AskedOfThis
<1>5. CASE Elsewhere
  <2>1. UNCHANGED armed
    BY <1>5 DEF Elsewhere, fvars
  <2>2. ~Browsing
    <3>1. CASE stack = <<>>
      BY <3>1 DEF Browsing, Under
    <3>2. CASE turn = "screen"
      BY <3>2 DEF Browsing
    <3>3. CASE AtThePrompt
      BY <3>3 DEF AtThePrompt, Browsing, Under
    <3> QED
      BY <1>5, <3>1, <3>2, <3>3 DEF Elsewhere, ScreenKey
  <2> QED
    BY <1>4, <2>1, <2>2
<1>6. CASE FilesOpen \/ EditKey \/ NewKey \/ RunFileKey \/ Delete
  BY <1>2, <1>6 DEF FilesOpen, EditKey, NewKey, RunFileKey, Delete, Disarm
<1>7. CASE FilesLeave
  <2>1. stack = <<"files">>
    BY <1>7 DEF FilesLeave, Browsing, Under, OneFilesWindow, Last
  <2>2. armed' = -1
    BY <1>7, <2>1, FrontOfFew DEF FilesLeave
  <2> QED
    BY <1>2, <2>2
<1>8. CASE RunDone \/ EditorLeaves \/ EditorRuns
  <2>1. ~Browsing /\ UNCHANGED armed
    BY <1>8 DEF RunDone, EditorLeaves, EditorRuns, Browsing, Under
  <2> QED
    BY <1>4, <2>1
<1>9. CASE PickKey \/ RefuseRom
  BY <1>3, <1>9 DEF PickKey, RefuseRom, svars
<1>10. CASE AskDelete
  <2>1. /\ Browsing /\ armed' = sel /\ offered' = Listed(disk)[sel + 1]
        /\ UNCHANGED <<stack, turn, disk>>
    BY <1>10 DEF AskDelete, Selected, svars
  <2>2. sel \in Nat
    BY <1>1 DEF FilesTypes
  <2> QED
    BY <2>1, <2>2 DEF AskedOfThis, Browsing, Under
<1> QED
  BY <1>5, <1>6, <1>7, <1>8, <1>9, <1>10 DEF Next

\* Only the second Z, or Delete, changes the pak while the list is shown.
LEMMA OnlyDeletes ==
  ASSUME Next, Browsing, disk' # disk
  PROVE  Delete
<1>1. ~Elsewhere
  <2>1. stack # <<>> /\ turn # "screen" /\ ~AtThePrompt
    BY DEF Browsing, Under, AtThePrompt
  <2> QED
    BY <2>1 DEF Elsewhere, ScreenKey
<1>2. ~ (FilesOpen \/ FilesLeave \/ PickKey \/ RunFileKey \/ RunDone \/ RefuseRom \/ AskDelete)
  BY DEF FilesOpen, FilesLeave, PickKey, RunFileKey, RunDone, RefuseRom, AskDelete, svars
<1>3. ~ (EditKey \/ NewKey)
  BY DEF EditKey, NewKey, Opens, EditFile, svars
<1>4. ~ (EditorLeaves \/ EditorRuns)
  BY DEF EditorLeaves, EditorRuns, Browsing
<1> QED
  BY <1>1, <1>2, <1>3, <1>4 DEF Next

LEMMA DeleteIsAsked ==
  ASSUME AskInv, Next, Browsing, disk' # disk
  PROVE  \E f \in Files :
           /\ disk' = [disk EXCEPT ![f] = Absent] /\ offered = f
           /\ \A r \in Rows : rows[r].on => rows[r].name = f
<1>1. Delete
  BY OnlyDeletes
<1>2. Selected \in Files /\ disk' = [disk EXCEPT ![Selected] = Absent] /\ armed = sel
  BY <1>1 DEF Delete, OnPak
<1>3. sel \in Nat /\ top \in Nat
  BY DEF AskInv, FilesInv, FilesTypes
<1>4. offered = Selected
  BY <1>2, <1>3 DEF AskInv, AskedOfThis, Selected
<1>5. ASSUME NEW r \in Rows, rows[r].on PROVE rows[r].name = Selected
  <2>1. rows[r] = Entry(Listed(disk), top + r, sel)
    BY DEF AskInv, FilesInv, RowsInv, RowsAreTheFiles
  <2>2. rows[r] # Blank
    BY <1>5 DEF Blank
  <2>3. rows[r] = [name |-> Listed(disk)[top + r + 1], on |-> top + r = sel]
    BY <2>1, <2>2, Zenon DEF Entry
  <2>4. rows[r].name = Listed(disk)[top + r + 1] /\ rows[r].on = (top + r = sel)
    BY <2>3
  <2>5. top + r = sel
    BY <1>5, <2>4, Zenon
  <2> QED
    BY <2>4, <2>5 DEF Selected
<1> QED
  BY <1>2, <1>4, <1>5

\* "Delete it (twice, to be sure)" (files.c): while there is one Files window at a time,
\* the file that goes is the one that was asked about and the one that is marked.
THEOREM AsksBeforeDeleting ==
  ASSUME MaxDepth <= 2
  PROVE  Spec => DeletesWhatItAsked
<1> DEFINE Asked ==
      Browsing /\ disk' # disk =>
        \E f \in Files :
          /\ disk' = [disk EXCEPT ![f] = Absent] /\ offered = f
          /\ \A r \in Rows : rows[r].on => rows[r].name = f
<1>1. Init => OneFilesWindow /\ AskedOfThis
  BY DEF Init, OneFilesWindow, AskedOfThis
<1>2. FilesInv /\ OneFilesWindow /\ AskedOfThis /\ [Next]_vars
        => OneFilesWindow' /\ AskedOfThis'
  <2>1. ASSUME OneFilesWindow, AskedOfThis, UNCHANGED vars
        PROVE  OneFilesWindow' /\ AskedOfThis'
    BY <2>1 DEF OneFilesWindow, AskedOfThis, vars, svars, fvars, Browsing, Under
  <2> QED
    BY <2>1, NextOneWindow, NextAsked
<1>3. FilesInv /\ OneFilesWindow /\ AskedOfThis /\ [Next]_vars => [Asked]_vars
  BY DeleteIsAsked DEF AskInv
<1> QED
  BY <1>1, <1>2, <1>3, FilesInductive, PTL DEF Spec, DeletesWhatItAsked

-----------------------------------------------------------------------------
(* The lines of the text.                                                  *)

\* The text is one, of characters.
IsText == buf \in Seq(Chars)

StartsLine(p) == p = 0 \/ buf[p] = NL
EndsLine(p)   == p = len \/ buf[p + 1] = NL
NoneIn(a, b)  == \A i \in a + 1 .. b : buf[i] # NL

LEMMA LineStart ==
  ASSUME IsText, NEW p \in 0 .. len
  PROVE  line_start(p) \in 0 .. p /\ StartsLine(line_start(p)) /\ NoneIn(line_start(p), p)
<1> DEFINE S == {s \in 0 .. p : s = 0 \/ buf[s] = NL}
<1>1. len \in Nat /\ p \in Nat
  BY DEF IsText, len
<1>2. S \in SUBSET (0 .. (p + 1) - 1) /\ 0 \in S /\ p + 1 \in Nat
  BY <1>1
<1>3. Max(S) \in S /\ \A s \in S : s <= Max(S)
  BY <1>2, MaxIsGreatest
<1>4. ASSUME NEW i \in Max(S) + 1 .. p PROVE buf[i] # NL
  <2>1. i \in 0 .. p /\ ~ (i <= Max(S))
    BY <1>1, <1>3
  <2> QED
    BY <1>3, <2>1
<1> QED
  BY <1>3, <1>4 DEF line_start, StartsLine, NoneIn

LEMMA LineEnd ==
  ASSUME IsText, NEW p \in 0 .. len
  PROVE  line_end(p) \in p .. len /\ EndsLine(line_end(p)) /\ NoneIn(p, line_end(p))
<1> DEFINE E == {e \in p .. len : e = len \/ buf[e + 1] = NL}
<1>1. len \in Nat /\ p \in Nat
  BY DEF IsText, len
<1>2. E \in SUBSET Nat /\ len \in E
  BY <1>1
<1>3. Min(E) \in E /\ \A e \in E : Min(E) <= e
  BY <1>2, MinIsLeast
<1>4. ASSUME NEW i \in p + 1 .. Min(E) PROVE buf[i] # NL
  <2>1. i - 1 \in p .. len /\ ~ (Min(E) <= i - 1) /\ (i - 1) + 1 = i
    BY <1>1, <1>3
  <2> QED
    BY <1>3, <2>1
<1> QED
  BY <1>3, <1>4 DEF line_end, EndsLine, NoneIn

LEMMA StartIs ==
  ASSUME IsText, NEW p \in 0 .. len, NEW s \in 0 .. p, StartsLine(s), NoneIn(s, p)
  PROVE  line_start(p) = s
<1>1. line_start(p) \in 0 .. p /\ StartsLine(line_start(p)) /\ NoneIn(line_start(p), p)
  BY LineStart
<1>2. p \in Nat
  BY DEF IsText, len
<1> QED
  BY <1>1, <1>2 DEF StartsLine, NoneIn

LEMMA EndIs ==
  ASSUME IsText, NEW p \in 0 .. len, NEW e \in p .. len, EndsLine(e), NoneIn(p, e)
  PROVE  line_end(p) = e
<1>1. line_end(p) \in p .. len /\ EndsLine(line_end(p)) /\ NoneIn(p, line_end(p))
  BY LineEnd
<1>2. p \in Nat /\ len \in Nat
  BY DEF IsText, len
<1>3. ~ (e < line_end(p))
  BY <1>1, <1>2 DEF EndsLine, NoneIn
<1>4. ~ (line_end(p) < e)
  BY <1>1, <1>2 DEF EndsLine, NoneIn
<1> QED
  BY <1>1, <1>2, <1>3, <1>4

\* Places with no newline between them are on one line.
LEMMA SameLine ==
  ASSUME IsText, NEW a \in 0 .. len, NEW b \in a .. len, NoneIn(a, b)
  PROVE  line_start(b) = line_start(a) /\ line_end(b) = line_end(a)
<1>1. a \in Nat /\ b \in Nat /\ len \in Nat /\ b \in 0 .. len
  BY DEF IsText, len
<1>2. line_start(a) \in 0 .. a /\ StartsLine(line_start(a)) /\ NoneIn(line_start(a), a)
  BY LineStart
<1>3. line_end(b) \in b .. len /\ EndsLine(line_end(b)) /\ NoneIn(b, line_end(b))
  BY <1>1, LineEnd
<1>4. line_start(a) \in 0 .. b /\ NoneIn(line_start(a), b)
  BY <1>1, <1>2 DEF NoneIn
<1>5. line_end(b) \in a .. len /\ NoneIn(a, line_end(b))
  BY <1>1, <1>3 DEF NoneIn
<1> QED
  BY <1>1, <1>2, <1>3, <1>4, <1>5, StartIs, EndIs

-----------------------------------------------------------------------------
(* Numbers of lines.                                                       *)

Newlines(p) == {i \in 1 .. p : buf[i] = NL}

LEMMA LineNumber ==
  ASSUME IsText, NEW p \in 0 .. len
  PROVE  line_of(p) \in Nat /\ IsFiniteSet(Newlines(p))
<1>1. p \in Int /\ IsFiniteSet(1 .. p)
  BY FS_Interval DEF IsText, len
<1>2. IsFiniteSet(Newlines(p))
  BY <1>1, FS_Subset DEF Newlines
<1> QED
  BY <1>2, FS_CardinalityType DEF Newlines, line_of

LEMMA NextNumber ==
  ASSUME IsText, NEW p \in 1 .. len
  PROVE  line_of(p) = IF buf[p] = NL THEN line_of(p - 1) + 1 ELSE line_of(p - 1)
<1>1. p \in Nat /\ len \in Nat /\ p - 1 \in 0 .. len
  BY DEF IsText, len
<1>2. IsFiniteSet(Newlines(p - 1)) /\ p \notin Newlines(p - 1)
  BY <1>1, LineNumber DEF Newlines
<1>3. CASE buf[p] = NL
  <2>1. Newlines(p) = Newlines(p - 1) \cup {p}
    BY <1>1, <1>3 DEF Newlines
  <2> QED
    BY <1>2, <1>3, <2>1, FS_AddElement DEF Newlines, line_of
<1>4. CASE buf[p] # NL
  <2>1. Newlines(p) = Newlines(p - 1)
    BY <1>1, <1>4 DEF Newlines
  <2> QED
    BY <1>4, <2>1 DEF Newlines, line_of
<1> QED
  BY <1>3, <1>4

\* What has the same number is on the same line.
LEMMA SameNumber ==
  ASSUME IsText, NEW a \in 0 .. len, NEW b \in 0 .. len, line_of(a) = line_of(b)
  PROVE  line_start(a) = line_start(b) /\ line_end(a) = line_end(b)
<1>1. a \in Nat /\ b \in Nat /\ len \in Nat
  BY DEF IsText, len
<1>2. ASSUME NEW x \in 0 .. len, NEW y \in x .. len, line_of(x) = line_of(y)
      PROVE  line_start(y) = line_start(x) /\ line_end(y) = line_end(x)
  <2>1. y \in 0 .. len /\ x \in Nat /\ y \in Nat
    BY <1>1
  <2>2. Newlines(x) \in SUBSET Newlines(y) /\ IsFiniteSet(Newlines(y))
    BY <2>1, LineNumber DEF Newlines
  <2>3. Newlines(y) = Newlines(x)
    BY <1>2, <2>2, FS_Subset DEF line_of, Newlines
  <2>4. NoneIn(x, y)
    BY <2>1, <2>3 DEF NoneIn, Newlines
  <2> QED
    BY <2>4, SameLine
<1> QED
  BY <1>1, <1>2

\* There is a place in every line, and the first is where it starts.
LEMMA LineFound ==
  ASSUME IsText, NEW n \in 0 .. lines_total - 1
  PROVE  start_of_line(n) \in 0 .. len /\ StartsLine(start_of_line(n))
<1> DEFINE From == {i \in 0 .. len : line_of(i) >= n}
           At == {i \in 0 .. len : line_of(i) = n}
<1>1. len \in Nat /\ \A i \in 0 .. len : line_of(i) \in Nat
  BY LineNumber DEF IsText, len
<1>2. n \in Nat /\ n <= line_of(len) /\ ~ (n >= lines_total)
  BY <1>1 DEF lines_total
<1>3. line_of(0) = 0
  <2>1. Newlines(0) = {}
    BY DEF Newlines
  <2> QED
    BY <2>1, FS_EmptySet DEF Newlines, line_of
<1> HIDE DEF From, At
<1>4. From \in SUBSET Nat /\ len \in From
  BY <1>1, <1>2 DEF From
<1>5. PICK p \in From : p = Min(From) /\ \A i \in From : p <= i
  BY <1>4, MinIsLeast
<1>6. p \in 0 .. len /\ line_of(p) >= n /\ line_of(p) \in Nat
  BY <1>1, <1>5 DEF From
<1>7. StartsLine(p) /\ line_of(p) = n
  <2>1. CASE p = 0
    BY <1>2, <1>3, <1>6, <2>1 DEF StartsLine
  <2>2. CASE p # 0
    <3>1. p - 1 \in 0 .. len /\ p \in 1 .. len /\ ~ (p <= p - 1)
      BY <1>1, <1>6, <2>2
    <3>2. ~ (line_of(p - 1) >= n)
      BY <1>5, <3>1 DEF From
    <3>3. line_of(p) = IF buf[p] = NL THEN line_of(p - 1) + 1 ELSE line_of(p - 1)
      BY <3>1, NextNumber
    <3> QED
      BY <1>1, <1>2, <1>6, <3>1, <3>2, <3>3 DEF StartsLine
  <2> QED
    BY <2>1, <2>2
<1>8. At \in SUBSET Nat /\ p \in At
  BY <1>1, <1>6, <1>7 DEF At
<1>9. Min(At) \in At /\ \A i \in At : Min(At) <= i
  BY <1>8, MinIsLeast
<1>10. Min(At) \in From
  BY <1>1, <1>2, <1>9 DEF At, From
<1>11. Min(At) = p
  BY <1>1, <1>5, <1>6, <1>8, <1>9, <1>10 DEF At
<1>12. start_of_line(n) = Min(At)
  BY <1>2 DEF start_of_line, At
<1> QED
  BY <1>6, <1>7, <1>11, <1>12

-----------------------------------------------------------------------------
(* What the keys make of the variables.                                    *)

LEMMA OfTwo ==
  ASSUME NEW a \in Int, NEW b \in Int
  PROVE  /\ Min({a, b}) = IF a <= b THEN a ELSE b
         /\ Max({a, b}) = IF a >= b THEN a ELSE b
<1>1. \E x \in {a, b} : \A y \in {a, b} : x <= y
  OBVIOUS
<1>2. Min({a, b}) \in {a, b} /\ \A y \in {a, b} : Min({a, b}) <= y
  BY <1>1, Zenon DEF Min
<1>3. \E x \in {a, b} : \A y \in {a, b} : x >= y
  OBVIOUS
<1>4. Max({a, b}) \in {a, b} /\ \A y \in {a, b} : Max({a, b}) >= y
  BY <1>3, Zenon DEF Max
<1> QED
  BY <1>2, <1>4

LEMMA Parts ==
  ASSUME NEW s \in Seq(Chars), NEW i \in 0 .. Len(s)
  PROVE  /\ SubSeq(s, 1, i) \in Seq(Chars) /\ Len(SubSeq(s, 1, i)) = i
         /\ SubSeq(s, i + 1, Len(s)) \in Seq(Chars) /\ Len(SubSeq(s, i + 1, Len(s))) = Len(s) - i
<1>1. \A j \in 1 .. Len(s) : s[j] \in Chars
  BY ElementOfSeq
<1> QED
  BY <1>1, SubSeqProperties

LEMMA AtMostTypes ==
  ASSUME NEW n \in Nat, NEW s \in Seq(Chars)
  PROVE  AtMost(n, s) \in Seq(Chars) /\ Len(AtMost(n, s)) = IF n <= Len(s) THEN n ELSE Len(s)
<1>1. Min({n, Len(s)}) = (IF n <= Len(s) THEN n ELSE Len(s)) /\ Min({n, Len(s)}) \in 0 .. Len(s)
  BY OfTwo
<1> QED
  BY <1>1, Parts DEF AtMost

LEMMA SpacesTypes ==
  ASSUME NEW n \in Nat
  PROVE  Spaces(n) \in Seq(Chars) /\ Len(Spaces(n)) = n
BY DEF Spaces, Chars

LEMMA OneChar ==
  ASSUME NEW c \in Chars
  PROVE  <<c>> \in Seq(Chars) /\ Len(<<c>>) = 1 /\ <<c>>[1] = c
OBVIOUS

\* The text, and a cursor in it.
InText ==
  /\ buf \in Seq(Chars) /\ len <= FS_FILE_MAX
  /\ cur \in 0 .. len

LEMMA InsertKeeps ==
  ASSUME InText, NEW s \in Seq(Chars), insert(s)
  PROVE  InText'
<1>1. CASE len + Len(s) > FS_FILE_MAX
  BY <1>1 DEF InText, insert, len
<1>2. CASE ~ (len + Len(s) > FS_FILE_MAX)
  <2>1. buf \in Seq(Chars) /\ len = Len(buf) /\ len \in Nat /\ cur \in 0 .. Len(buf) /\ Len(s) \in Nat
    BY DEF InText, len
  <2>2. /\ SubSeq(buf, 1, cur) \in Seq(Chars) /\ Len(SubSeq(buf, 1, cur)) = cur
        /\ SubSeq(buf, cur + 1, len) \in Seq(Chars) /\ Len(SubSeq(buf, cur + 1, len)) = len - cur
    BY <2>1, Parts
  <2>3. buf' = SubSeq(buf, 1, cur) \o s \o SubSeq(buf, cur + 1, len) /\ cur' = cur + Len(s)
    BY <1>2 DEF insert
  <2>4. SubSeq(buf, 1, cur) \o s \in Seq(Chars) /\ Len(SubSeq(buf, 1, cur) \o s) = cur + Len(s)
    BY <2>2, ConcatProperties
  <2>5. buf' \in Seq(Chars) /\ Len(buf') = (cur + Len(s)) + (len - cur)
    BY <2>2, <2>3, <2>4, ConcatProperties
  <2>6. cur' = cur + Len(s) /\ Len(buf') = len + Len(s) /\ len + Len(s) <= FS_FILE_MAX
    <3>1. cur' = cur + Len(s)
      BY <2>3
    <3>2. Len(buf') = len + Len(s)
      BY <2>1, <2>5
    <3>3. len + Len(s) <= FS_FILE_MAX
      BY <1>2, <2>1, EditAssumption
    <3> QED
      BY <3>1, <3>2, <3>3
  <2>7. Len(buf') <= FS_FILE_MAX /\ cur' \in 0 .. Len(buf')
    BY <2>1, <2>6
  <2> QED
    BY <2>5, <2>7 DEF InText, len
<1> QED
  BY <1>1, <1>2

LEMMA CutKeeps ==
  ASSUME InText, NEW from \in Int, NEW n \in Int, NEW there \in 0 .. len, cut(from, n, there)
  PROVE  InText'
<1>0. buf \in Seq(Chars) /\ len = Len(buf) /\ len \in Nat /\ cur \in 0 .. len /\ len <= FS_FILE_MAX
  BY DEF InText, len
<1>1. CASE from < 0 \/ n <= 0 \/ from + n > len
  BY <1>0, <1>1 DEF InText, cut, len
<1>2. CASE ~ (from < 0 \/ n <= 0 \/ from + n > len)
  <2>1. from \in 0 .. Len(buf) /\ from + n \in 0 .. Len(buf) /\ there \in Int /\ there - n \in Int
    BY <1>0, <1>2
  <2>2. /\ SubSeq(buf, 1, from) \in Seq(Chars) /\ Len(SubSeq(buf, 1, from)) = from
        /\ SubSeq(buf, from + n + 1, len) \in Seq(Chars)
        /\ Len(SubSeq(buf, from + n + 1, len)) = len - (from + n)
    BY <1>0, <2>1, Parts
  <2>3. buf' = SubSeq(buf, 1, from) \o SubSeq(buf, from + n + 1, len)
        /\ cur' = IF there > from THEN Max({from, there - n}) ELSE there
    BY <1>2 DEF cut
  <2>4. buf' \in Seq(Chars) /\ Len(buf') = from + (len - (from + n))
    BY <2>2, <2>3, ConcatProperties
  <2>5. Max({from, there - n}) = IF from >= there - n THEN from ELSE there - n
    BY <2>1, OfTwo
  <2>6. cur' = IF there > from THEN (IF from >= there - n THEN from ELSE there - n) ELSE there
    BY <2>3, <2>5
  <2>7. Len(buf') = len - n /\ from \in Nat /\ n \in Nat /\ there \in Nat /\ there <= len
    BY <1>0, <1>2, <2>4
  <2>8. cur' \in 0 .. len - n /\ len - n <= FS_FILE_MAX
    BY <1>0, <1>2, <2>6, <2>7, EditAssumption
  <2> QED
    BY <2>4, <2>7, <2>8 DEF InText, len
<1> QED
  BY <1>1, <1>2

LEMMA RubOutKeeps ==
  ASSUME InText, rub_out
  PROVE  InText'
<1>1. CASE cur <= 0
  BY <1>1 DEF InText, rub_out, len
<1>2. CASE ~ (cur <= 0)
  <2>1. cut(cur - 1, 1, cur) /\ cur - 1 \in Int /\ cur \in 0 .. len
    BY <1>2 DEF rub_out, InText, len
  <2> QED
    BY <2>1, CutKeeps
<1> QED
  BY <1>1, <1>2

\* The number of the column, and of the line that is gone to.
LEMMA VerticalTarget ==
  ASSUME InText, NEW lines \in Int
  PROVE  Max({0, Min({line_of(cur) + lines, lines_total - 1})}) \in 0 .. lines_total - 1
<1>1. IsText /\ cur \in 0 .. len /\ len \in 0 .. len
  BY DEF InText, IsText, len
<1>2. line_of(cur) \in Nat /\ line_of(len) \in Nat
  BY <1>1, LineNumber
<1>3. lines_total - 1 \in Nat /\ line_of(cur) + lines \in Int
  BY <1>2 DEF lines_total
<1> DEFINE low == Min({line_of(cur) + lines, lines_total - 1})
<1>4. low \in Int /\ low <= lines_total - 1
  BY <1>3, OfTwo
<1> HIDE DEF low
<1>5. Max({0, low}) = IF 0 >= low THEN 0 ELSE low
  BY <1>4, OfTwo
<1>6. Max({0, low}) \in 0 .. lines_total - 1
  BY <1>3, <1>4, <1>5
<1> QED
  BY <1>6 DEF low

\* Where up and down go: to the column in the line, or its end.
LEMMA VerticalGoes ==
  ASSUME InText, goal \in Nat \cup {-1}, NEW lines \in Int, move_vertical(lines)
  PROVE  \E p \in 0 .. len :
           /\ StartsLine(p) /\ Column \in Nat
           /\ cur' = (IF p + Column <= line_end(p) THEN p + Column ELSE line_end(p))
           /\ buf' = buf /\ goal' = Column /\ origin' = (IF goal < 0 THEN cur ELSE origin)
<1> DEFINE target == Max({0, Min({line_of(cur) + lines, lines_total - 1})})
           p == start_of_line(target)
<1>1. IsText /\ cur \in 0 .. len
  BY DEF InText, IsText
<1>2. target \in 0 .. lines_total - 1
  BY VerticalTarget
<1>3. p \in 0 .. len /\ StartsLine(p)
  BY <1>1, <1>2, LineFound
<1>4. line_start(cur) \in 0 .. cur
  BY <1>1, LineStart
<1>5. Column \in Nat
  BY <1>1, <1>4 DEF Column, IsText, len
<1>6. line_end(p) \in p .. len
  BY <1>1, <1>3, LineEnd
<1>7. p + Column \in Int /\ line_end(p) \in Int
  BY <1>3, <1>5, <1>6
<1>8. /\ cur' = Min({p + Column, line_end(p)})
      /\ buf' = buf /\ goal' = Column /\ origin' = (IF goal < 0 THEN cur ELSE origin)
  BY DEF move_vertical
<1> QED
  BY <1>3, <1>5, <1>7, <1>8, OfTwo

LEMMA VerticalKeeps ==
  ASSUME InText, goal \in Nat \cup {-1}, NEW lines \in Int, move_vertical(lines)
  PROVE  InText' /\ goal' \in Nat \cup {-1}
<1>1. PICK p \in 0 .. len :
           /\ StartsLine(p) /\ Column \in Nat
           /\ cur' = (IF p + Column <= line_end(p) THEN p + Column ELSE line_end(p))
           /\ buf' = buf /\ goal' = Column
  BY VerticalGoes
<1>2. IsText /\ len \in Nat /\ p \in Nat
  BY DEF InText, IsText, len
<1>3. line_end(p) \in p .. len
  BY <1>2, LineEnd
<1> QED
  BY <1>1, <1>2, <1>3 DEF InText, len

-----------------------------------------------------------------------------
(* Finding.                                                                *)

\* The positions go round: first those after the cursor, then those before it.
LEMMA RoundIs ==
  ASSUME len \in Nat, cur \in 0 .. len, NEW n \in 1 .. len
  PROVE  Round(n) = IF n <= len - cur THEN cur + n ELSE cur + n - (len + 1)
<1>1. PICK m \in Nat \ {0} : m = len + 1
  OBVIOUS
<1>2. PICK a \in 0 .. 2 * m - 1 : a = cur + n
  BY <1>1
<1>3. a % m = IF a < m THEN a ELSE a - m
  BY ModIs
<1>4. Round(n) = a % m
  BY <1>1, <1>2 DEF Round
<1> QED
  BY <1>1, <1>2, <1>3, <1>4

LEMMA FindGoes ==
  ASSUME InText, find_next
  PROVE  cur' \in 0 .. len /\ cur' = FirstHit
<1> DEFINE tries == {n \in 1 .. len : Matches(Round(n))}
           next  == {i \in Hits : i > cur}
<1>0. FirstHit = IF next # {} THEN Min(next) ELSE IF Hits # {} THEN Min(Hits) ELSE cur
  BY DEF FirstHit
<1>1. len \in Nat /\ cur \in 0 .. len
  BY DEF InText, len
<1>2. \A n \in 1 .. len : Round(n) = IF n <= len - cur THEN cur + n ELSE cur + n - (len + 1)
  BY <1>1, RoundIs
<1>3. cur' = IF tries = {} THEN cur ELSE Round(Min(tries))
  BY DEF find_next
<1>4. tries \in SUBSET Nat /\ Hits \in SUBSET Nat /\ next \in SUBSET Nat
  BY <1>1 DEF Hits
\* Each place but the cursor is tried, as the number it is from the cursor.
<1>5. ASSUME NEW i \in Hits
      PROVE  IF i > cur THEN i - cur \in tries /\ Round(i - cur) = i
             ELSE i + len + 1 - cur \in tries /\ Round(i + len + 1 - cur) = i
  <2>1. CASE i > cur
    <3>1. i - cur \in 1 .. len /\ Round(i - cur) = i
      BY <1>1, <1>2, <2>1 DEF Hits
    <3> QED
      BY <2>1, <3>1 DEF Hits
  <2>2. CASE ~ (i > cur)
    <3>1. i + len + 1 - cur \in 1 .. len /\ Round(i + len + 1 - cur) = i
      BY <1>1, <1>2, <2>2 DEF Hits
    <3> QED
      BY <2>2, <3>1 DEF Hits
  <2> QED
    BY <2>1, <2>2
<1>6. ASSUME NEW n \in tries
      PROVE  Round(n) \in Hits /\ (Round(n) > cur <=> n <= len - cur)
  <2>1. Round(n) \in 0 .. len /\ Round(n) # cur /\ (Round(n) > cur <=> n <= len - cur)
    BY <1>1, <1>2
  <2> QED
    BY <2>1 DEF Hits
<1> HIDE DEF tries
<1>7. CASE tries = {}
  <2>1. ASSUME NEW i \in Hits PROVE FALSE
    BY <1>5, <1>7
  <2>2. Hits = {} /\ next = {}
    BY <2>1
  <2> QED
    BY <1>0, <1>1, <1>3, <1>7, <2>2
<1>8. CASE tries # {}
  <2>1. PICK n \in tries : n = Min(tries) /\ \A k \in tries : n <= k
    BY <1>4, <1>8, MinIsLeast
  <2>2. cur' = Round(n) /\ Round(n) \in Hits /\ n \in 1 .. len
    BY <1>3, <1>6, <1>8, <2>1 DEF tries
  <2>3. \A i \in Hits : i \in 0 .. len
    BY DEF Hits
  <2>4. CASE n <= len - cur
    <3>1. Round(n) = cur + n /\ Round(n) \in next
      BY <1>2, <1>6, <2>1, <2>2, <2>4
    <3>2. Min(next) \in next /\ \A i \in next : Min(next) <= i
      BY <1>4, <3>1, MinIsLeast
    <3>3. Min(next) - cur \in tries /\ Min(next) \in 0 .. len
      BY <1>5, <2>3, <3>2
    <3>4. n <= Min(next) - cur /\ Min(next) <= cur + n
      BY <2>1, <3>1, <3>2, <3>3
    <3>5. Min(next) = cur + n
      BY <1>1, <2>2, <3>3, <3>4
    <3> QED
      BY <1>0, <2>2, <2>3, <3>1, <3>5
  <2>5. CASE ~ (n <= len - cur)
    <3>1. Round(n) = cur + n - (len + 1)
      BY <1>2, <2>2, <2>5
    <3>2. next = {}
      <4>1. ASSUME NEW i \in next PROVE FALSE
        <5>1. i - cur \in tries /\ i \in 0 .. len
          BY <1>5, <2>3
        <5> QED
          BY <1>1, <2>1, <2>2, <2>5, <5>1
      <4> QED
        BY <4>1
    <3>3. Hits # {} /\ Min(Hits) \in Hits /\ \A i \in Hits : Min(Hits) <= i
      BY <1>4, <2>2, MinIsLeast
    <3>4. Min(Hits) + len + 1 - cur \in tries /\ Min(Hits) \in 0 .. len
      BY <1>5, <2>3, <3>2, <3>3
    <3>5. n <= Min(Hits) + len + 1 - cur /\ Min(Hits) <= cur + n - (len + 1)
      BY <2>1, <2>2, <3>1, <3>3, <3>4
    <3>6. Min(Hits) = cur + n - (len + 1)
      BY <1>1, <2>2, <3>4, <3>5
    <3> QED
      BY <1>0, <2>2, <2>3, <3>1, <3>2, <3>3, <3>6
  <2> QED
    BY <2>4, <2>5
<1> QED
  BY <1>7, <1>8

-----------------------------------------------------------------------------
(* Types.                                                                  *)

\* What else there is.
Others ==
  /\ goal \in Nat \cup {-1}
  /\ clip \in Seq(Chars) /\ Len(clip) <= CLIP
  /\ query \in Seq(Chars) /\ Len(query) <= QUERY
  /\ cutting \in BOOLEAN /\ pasting \in BOOLEAN /\ finding \in BOOLEAN

LEMMA TypesAre == TextTypeOK <=> InText /\ Others
BY DEF TextTypeOK, InText, Others

LEMMA CharacterKeeps ==
  ASSUME InText, CharKey
  PROVE  InText'
<1>1. CASE \E c \in Letters \cup {SP} : insert(<<c>>)
  BY <1>1, OneChar, InsertKeeps DEF Chars
<1>2. CASE insert(Spaces(TAB))
  BY <1>2, SpacesTypes, InsertKeeps, EditAssumption
<1> QED
  BY <1>1, <1>2 DEF CharKey

\* The spaces before the text of a line, as many as there is room for.
Indents(s) ==
  {n \in 0 .. Min({cur - s, INDENT - 2}) : \A i \in 1 .. n : buf[s + i] = SP}

LEMMA EnterKeeps ==
  ASSUME InText, EnterKey
  PROVE  InText'
<1> DEFINE s == line_start(cur)
           k == Max(Indents(s))
           n == IF pasting THEN 0 ELSE k
<1>1. s \in 0 .. cur /\ cur \in Nat
  BY LineStart DEF InText, IsText, len
<1> HIDE DEF s
<1>2. PICK m \in Nat : m = Min({cur - s, INDENT - 2})
  <2>1. cur - s \in Nat /\ INDENT - 2 \in Nat
    BY <1>1, EditAssumption
  <2> QED
    BY <2>1, OfTwo
<1>3. PICK j \in Nat : j = m + 1
  OBVIOUS
<1>4. k \in Nat
  <2>1. Indents(s) \in SUBSET (0 .. j - 1) /\ Indents(s) # {}
    <3>1. Indents(s) \in SUBSET (0 .. m) /\ 0 \in Indents(s)
      BY <1>2 DEF Indents
    <3> QED
      BY <1>3, <3>1
  <2>2. Max(Indents(s)) \in Indents(s)
    BY <2>1, MaxIsGreatest
  <2> QED
    BY <2>1, <2>2
<1>5. insert(<<NL>> \o Spaces(n))
  BY DEF EnterKey, Indents, s
<1> HIDE DEF k
<1>6. n \in Nat
  BY <1>4
<1> HIDE DEF n
<1>7. <<NL>> \in Seq(Chars) /\ Spaces(n) \in Seq(Chars)
  BY <1>6, SpacesTypes, OneChar DEF Chars
<1>8. <<NL>> \o Spaces(n) \in Seq(Chars)
  BY <1>7, ConcatProperties
<1> QED
  BY <1>5, <1>8, InsertKeeps

LEMMA CutTextTypes ==
  ASSUME InText
  PROVE  CutText \in Seq(Chars)
<1>1. IsText /\ cur \in 0 .. len /\ buf \in Seq(Chars) /\ len = Len(buf) /\ len \in Nat
  BY DEF InText, IsText, len
<1>2. line_start(cur) \in 0 .. cur /\ line_end(cur) \in cur .. len
  BY <1>1, LineStart, LineEnd
<1>3. SubSeq(buf, line_start(cur) + 1, line_end(cur)) \in Seq(Chars)
  <2>1. \A i \in line_start(cur) + 1 .. line_end(cur) : buf[i] \in Chars
    BY <1>1, <1>2, ElementOfSeq
  <2>2. line_start(cur) + 1 \in Int /\ line_end(cur) \in Int
    BY <1>1, <1>2
  <2> QED
    BY <2>1, <2>2, SubSeqProperties
<1>4. <<NL>> \in Seq(Chars)
  BY OneChar DEF Chars
<1> QED
  BY <1>3, <1>4, ConcatProperties DEF CutText

LEMMA CutKeyKeeps ==
  ASSUME InText, Others, CutKey
  PROVE  InText' /\ clip' \in Seq(Chars) /\ Len(clip') <= CLIP
<1> DEFINE s == line_start(cur)
           e == line_end(cur)
           n == e - s + (IF e < len THEN 1 ELSE 0)
           more == (IF cutting THEN clip ELSE <<>>) \o CutText
<1>1. IsText /\ cur \in 0 .. len /\ buf \in Seq(Chars) /\ len = Len(buf) /\ len \in Nat
  BY DEF InText, IsText, len
<1>2. s \in 0 .. cur /\ e \in cur .. len
  BY <1>1, LineStart, LineEnd
<1>3. s \in 0 .. len /\ s \in Int /\ e \in Int /\ n \in Int
  BY <1>1, <1>2
<1>4. cut(s, n, s) /\ clip' = AtMost(CLIP, more)
  BY DEF CutKey
<1>5. InText'
  BY <1>3, <1>4, CutKeeps
<1>6. more \in Seq(Chars)
  <2>1. CutText \in Seq(Chars)
    BY CutTextTypes
  <2>2. (IF cutting THEN clip ELSE <<>>) \in Seq(Chars)
    BY EmptySeq DEF Others
  <2> QED
    BY <2>1, <2>2, ConcatProperties
<1> HIDE DEF more
<1>7. AtMost(CLIP, more) \in Seq(Chars) /\ Len(AtMost(CLIP, more)) <= CLIP
  BY <1>6, AtMostTypes, EditAssumption
<1> QED
  BY <1>4, <1>5, <1>7

LEMMA MoveKeeps ==
  ASSUME InText, buf' = buf,
         cur' \in {Max({0, cur - 1}), Min({cur + 1, len}), line_start(cur), line_end(cur)}
  PROVE  InText'
<1>1. IsText /\ cur \in 0 .. len /\ cur \in Nat /\ len \in Nat
  BY DEF InText, IsText, len
<1>2. line_start(cur) \in 0 .. len /\ line_end(cur) \in 0 .. len
  BY <1>1, LineStart, LineEnd
<1>3. Max({0, cur - 1}) \in 0 .. len
  <2>0. 0 \in Int /\ cur - 1 \in Int
    BY <1>1
  <2>1. Max({0, cur - 1}) = IF 0 >= cur - 1 THEN 0 ELSE cur - 1
    BY <2>0, OfTwo
  <2> QED
    BY <1>1, <2>1
<1>4. Min({cur + 1, len}) \in 0 .. len
  <2>0. cur + 1 \in Int /\ len \in Int
    BY <1>1
  <2>1. Min({cur + 1, len}) = IF cur + 1 <= len THEN cur + 1 ELSE len
    BY <2>0, OfTwo
  <2> QED
    BY <1>1, <2>1
<1>5. cur' \in 0 .. len
  BY <1>2, <1>3, <1>4
<1> QED
  BY <1>5 DEF InText, len

LEMMA QueryKeeps ==
  ASSUME InText, Others, QueryKey
  PROVE  InText' /\ query' \in Seq(Chars) /\ Len(query') <= QUERY /\ finding' \in BOOLEAN
<1>1. buf' = buf
  BY DEF QueryKey, Keeps
<1>2. CASE finding' = FALSE /\ find_next /\ UNCHANGED query
  BY <1>1, <1>2, FindGoes DEF InText, Others, len
<1>3. CASE finding' = FALSE /\ UNCHANGED <<cur, query>>
  BY <1>1, <1>3 DEF InText, Others, len
<1>4. CASE /\ query # <<>> /\ query' = Front(query)
           /\ UNCHANGED <<cur, finding>>
  <2>1. Len(query) \in Nat \ {0} /\ query \in Seq(Chars) /\ Len(query) <= QUERY
    BY <1>4, EmptySeq DEF Others
  <2>2. Len(query) - 1 \in 0 .. Len(query)
    BY <2>1
  <2>3. query' \in Seq(Chars) /\ Len(query') = Len(query) - 1
    BY <1>4, <2>1, <2>2, Parts DEF Front
  <2>4. Len(query') <= QUERY
    BY <2>1, <2>3, EditAssumption
  <2> QED
    BY <1>1, <1>4, <2>3, <2>4 DEF InText, Others, len
<1>5. CASE /\ Len(query) < QUERY
           /\ \E c \in Letters \cup {SP} : query' = Append(query, c)
           /\ UNCHANGED <<cur, finding>>
  <2>1. PICK c \in Chars : query' = Append(query, c)
    BY <1>5 DEF Chars
  <2>2. query' \in Seq(Chars) /\ Len(query') = Len(query) + 1
    BY <2>1 DEF Others
  <2>3. Len(query') <= QUERY
    BY <1>5, <2>2, EditAssumption DEF Others
  <2> QED
    BY <1>1, <1>5, <2>2, <2>3 DEF InText, Others, len
<1> QED
  BY <1>2, <1>3, <1>4, <1>5 DEF QueryKey

LEMMA TypesStep ==
  ASSUME ~ ReadMayFail, InText, Others, [TextNext]_evars
  PROVE  InText' /\ Others'
<1>1. CASE UNCHANGED evars
  BY <1>1 DEF evars, InText, Others, len
<1>2. CASE CharKey
  BY <1>2, CharacterKeeps DEF CharKey, EndsTheRun, NoGoal, Keeps, Others
<1>3. CASE EnterKey
  BY <1>3, EnterKeeps DEF EnterKey, EndsTheRun, NoGoal, Keeps, Others
<1>4. CASE RubOutKey
  BY <1>4, RubOutKeeps DEF RubOutKey, EndsTheRun, NoGoal, Keeps, Others
<1>5. CASE DelKey
  <2>1. InText'
    <3>1. CASE cur < len
      <4>1. cut(cur, 1, cur) /\ cur \in Int /\ cur \in 0 .. len
        BY <1>5, <3>1 DEF DelKey, InText
      <4> QED
        BY <4>1, CutKeeps
    <3>2. CASE ~ (cur < len)
      BY <1>5, <3>2 DEF DelKey, InText, len
    <3> QED
      BY <3>1, <3>2
  <2> QED
    BY <1>5, <2>1 DEF DelKey, EndsTheRun, NoGoal, Keeps, Others
<1>6. CASE PutKey
  <2>1. clip \in Seq(Chars) /\ insert(clip)
    BY <1>6 DEF PutKey, Others
  <2> QED
    BY <1>6, <2>1, InsertKeeps DEF PutKey, EndsTheRun, NoGoal, Keeps, Others
<1>7. CASE CutKey
  BY <1>7, CutKeyKeeps DEF CutKey, NoGoal, Keeps, Others
<1>8. CASE PasteKey
  BY <1>8 DEF PasteKey, EndsTheRun, NoGoal, Keeps, InText, Others, len
<1>9. CASE MoveKey
  BY <1>9, MoveKeeps DEF MoveKey, EndsTheRun, NoGoal, Keeps, Others
<1>10. CASE VerticalKey
  <2>1. PICK lines \in Int : move_vertical(lines)
    BY <1>10, EditAssumption DEF VerticalKey
  <2>2. InText' /\ goal' \in Nat \cup {-1}
    BY <2>1, VerticalKeeps DEF Others
  <2> QED
    BY <1>10, <2>2 DEF VerticalKey, EndsTheRun, Keeps, Others
<1>11. CASE FindAgainKey
  <2>1. find_next /\ buf' = buf
    BY <1>11 DEF FindAgainKey, Keeps
  <2>2. InText'
    BY <2>1, FindGoes DEF InText, len
  <2> QED
    BY <1>11, <2>2 DEF FindAgainKey, EndsTheRun, NoGoal, Keeps, Others
<1>12. CASE FindKey
  <2>1. query' \in Seq(Chars) /\ Len(query') <= QUERY
    BY <1>12, EmptySeq, EditAssumption DEF FindKey
  <2> QED
    BY <1>12, <2>1 DEF FindKey, EndsTheRun, NoGoal, Keeps, InText, Others, len
<1>13. CASE QueryKey
  BY <1>13, QueryKeeps DEF QueryKey, NoGoal, Keeps, Others
<1>14. CASE PadWrites
  <2>1. CASE rub_out
    BY <1>14, <2>1, RubOutKeeps DEF PadWrites, PressEnds, PastEditKey, Keeps, Others
  <2>2. CASE \E c \in Chars : insert(<<c>>)
    <3>1. InText'
      BY <2>2, OneChar, InsertKeeps
    <3> QED
      BY <1>14, <3>1 DEF PadWrites, PressEnds, PastEditKey, Keeps, Others
  <2> QED
    BY <1>14, <2>1, <2>2 DEF PadWrites
<1>15. CASE PadMove
  BY <1>15 DEF PadMove, PressEnds, PastEditKey, Keeps, InText, Others, len
<1>17. CASE PadVertical
  <2>1. InText' /\ goal' \in Nat \cup {-1}
    BY <1>17, VerticalKeeps DEF PadVertical, Others
  <2> QED
    BY <1>17, <2>1 DEF PadVertical, PastEditKey, Keeps, Others
<1>16. CASE load
  <2>1. buf' \in {<<>>, buf} /\ cur' = 0 /\ NoGoal
    BY <1>16 DEF load
  <2>2. <<>> \in Seq(Chars) /\ Len(<<>>) = 0
    BY EmptySeq
  <2>3. InText'
    <3>1. CASE buf' = <<>>
      BY <2>1, <2>2, <3>1, EditAssumption DEF InText, len
    <3>2. CASE buf' = buf
      BY <2>1, <3>2 DEF InText, len
    <3> QED
      BY <2>1, <3>1, <3>2
  <2> QED
    BY <1>16, <2>1, <2>3 DEF load, NoGoal, Others
<1> QED
  BY <1>1, <1>2, <1>3, <1>4, <1>5, <1>6, <1>7, <1>8, <1>9, <1>10, <1>11, <1>12, <1>13,
     <1>14, <1>15, <1>16, <1>17 DEF TextNext


-----------------------------------------------------------------------------
(* The column.                                                             *)

\* A run of ups and downs that nothing came between began in the column that they are for,
\* and the cursor is in that column of its line, or at the end of it.
ColumnInv ==
  origin = -1 \/
    /\ origin \in 0 .. len /\ goal = origin - line_start(origin)
    /\ cur = IF line_start(cur) + goal <= line_end(cur)
             THEN line_start(cur) + goal ELSE line_end(cur)

LEMMA VerticalKeepsColumn ==
  ASSUME InText, goal \in Nat \cup {-1}, ColumnInv, NEW lines \in Int, move_vertical(lines)
  PROVE  ColumnInv'
<1>0. CASE origin' = -1
  BY <1>0 DEF ColumnInv
<1> SUFFICES ASSUME origin' # -1 PROVE ColumnInv'
  BY <1>0
<1>1. PICK p \in 0 .. len :
           /\ StartsLine(p) /\ Column \in Nat
           /\ cur' = (IF p + Column <= line_end(p) THEN p + Column ELSE line_end(p))
           /\ buf' = buf /\ goal' = Column /\ origin' = (IF goal < 0 THEN cur ELSE origin)
  BY VerticalGoes
<1>2. IsText /\ len \in Nat /\ p \in Nat /\ cur \in 0 .. len
  BY DEF InText, IsText, len
<1>3. line_end(p) \in p .. len /\ NoneIn(p, line_end(p))
  BY <1>2, LineEnd
<1>4. cur' \in p .. line_end(p) /\ cur' \in p .. len /\ cur' \in 0 .. len
  BY <1>1, <1>2, <1>3
<1>5. NoneIn(p, cur') /\ NoneIn(p, p) /\ p \in 0 .. p
  BY <1>2, <1>3, <1>4 DEF NoneIn
<1>6. line_start(p) = p
  BY <1>1, <1>2, <1>5, StartIs
<1>7. line_start(cur') = p /\ line_end(cur') = line_end(p)
  BY <1>2, <1>4, <1>5, <1>6, SameLine
<1>8. origin' \in 0 .. len /\ Column = origin' - line_start(origin')
  <2>1. CASE goal < 0
    BY <1>1, <1>2, <2>1 DEF Column
  <2>2. CASE ~ (goal < 0)
    BY <1>1, <2>2 DEF Column, ColumnInv
  <2> QED
    BY <2>1, <2>2
<1>9. /\ line_start(cur)' = line_start(cur') /\ line_end(cur)' = line_end(cur')
      /\ line_start(origin)' = line_start(origin') /\ len' = len
  BY <1>1 DEF line_start, line_end, len
<1> QED
  BY <1>1, <1>7, <1>8, <1>9 DEF ColumnInv

LEMMA ColumnStep ==
  ASSUME ~ ReadMayFail, InText, Others, ColumnInv, [TextNext]_evars
  PROVE  ColumnInv'
<1>1. CASE UNCHANGED evars
  BY <1>1 DEF evars, ColumnInv, line_start, line_end, len
<1>2. CASE origin' = -1
  BY <1>2 DEF ColumnInv
<1>3. CASE \E lines \in Int : move_vertical(lines)
  BY <1>3, VerticalKeepsColumn DEF Others
<1>4. TextNext => origin' = -1 \/ \E lines \in Int : move_vertical(lines)
  <2>1. CharKey \/ EnterKey \/ RubOutKey \/ DelKey \/ PutKey \/ CutKey \/ PasteKey => origin' = -1
    BY DEF CharKey, EnterKey, RubOutKey, DelKey, PutKey, CutKey, PasteKey, NoGoal
  <2>2. MoveKey \/ FindAgainKey \/ FindKey \/ QueryKey \/ PadWrites \/ PadMove \/ load => origin' = -1
    BY DEF MoveKey, FindAgainKey, FindKey, QueryKey, PadWrites, PadMove, load, NoGoal, PressEnds
  <2>3. VerticalKey => \E lines \in Int : move_vertical(lines)
    BY EditAssumption DEF VerticalKey
  <2>4. PadVertical => \E lines \in Int : move_vertical(lines)
    BY DEF PadVertical
  <2> QED
    BY <2>1, <2>2, <2>3, <2>4 DEF TextNext
<1> QED
  BY <1>1, <1>2, <1>3, <1>4

\* In the line that the run began in the cursor is where it was then.
LEMMA BackWhereItWas ==
  ASSUME InText, ColumnInv
  PROVE  ColumnIsKept
<1> SUFFICES ASSUME origin >= 0, line_of(cur) = line_of(origin) PROVE cur = origin
  BY DEF ColumnIsKept
<1>1. IsText /\ cur \in 0 .. len /\ len \in Nat
  BY DEF InText, IsText, len
<1>2. /\ origin \in 0 .. len /\ goal = origin - line_start(origin)
      /\ cur = IF line_start(cur) + goal <= line_end(cur)
               THEN line_start(cur) + goal ELSE line_end(cur)
  BY DEF ColumnInv
<1>3. line_start(cur) = line_start(origin) /\ line_end(cur) = line_end(origin)
  BY <1>1, <1>2, SameNumber
<1>4. line_start(origin) \in 0 .. origin /\ line_end(origin) \in origin .. len
  BY <1>1, <1>2, LineStart, LineEnd
<1> QED
  BY <1>1, <1>2, <1>3, <1>4

-----------------------------------------------------------------------------
(* The cut lines.                                                          *)

NLs(k) == [i \in 1 .. k |-> NL]

\* The text with the clip put back at the cursor.
PutBack == SubSeq(buf, 1, cur) \o clip \o SubSeq(buf, cur + 1, len)

\* Within a run of cuts the cursor is at the start of a line; and what ^U would make of
\* the text is what it was, with newlines at the end.
CutsInv ==
  uncut # NoRun =>
    /\ uncut \in Seq(Chars) /\ ~ finding /\ StartsLine(cur)
    /\ Len(clip) < CLIP => \E k \in Nat : PutBack = uncut \o NLs(k)

LEMMA Associative ==
  ASSUME NEW a \in Seq(Chars), NEW b \in Seq(Chars), NEW c \in Seq(Chars)
  PROVE  (a \o b) \o c = a \o (b \o c)
BY ConcatAssociative

LEMMA NewlinesTypes ==
  ASSUME NEW k \in Nat
  PROVE  NLs(k) \in Seq(Chars) /\ Len(NLs(k)) = k /\ \A i \in 1 .. k : NLs(k)[i] = NL
BY DEF NLs, Chars

LEMMA NoNewlines ==
  ASSUME NEW s \in Seq(Chars)
  PROVE  s = s \o NLs(0)
<1>1. NLs(0) \in Seq(Chars) /\ Len(NLs(0)) = 0
  BY NewlinesTypes
<1>2. NLs(0) = <<>>
  BY <1>1, EmptySeq
<1> QED
  BY <1>2, ConcatEmptySeq

LEMMA OneMoreNewline ==
  ASSUME NEW s \in Seq(Chars), NEW k \in Nat
  PROVE  (s \o NLs(k)) \o <<NL>> = s \o NLs(k + 1)
<1>1. /\ NLs(k) \in Seq(Chars) /\ Len(NLs(k)) = k /\ \A i \in 1 .. k : NLs(k)[i] = NL
      /\ NLs(k + 1) \in Seq(Chars) /\ Len(NLs(k + 1)) = k + 1
      /\ \A i \in 1 .. k + 1 : NLs(k + 1)[i] = NL
  BY NewlinesTypes
<1>2. <<NL>> \in Seq(Chars) /\ Len(<<NL>>) = 1 /\ <<NL>>[1] = NL
  BY OneChar DEF Chars
<1>3. NLs(k) \o <<NL>> = NLs(k + 1)
  <2> DEFINE t == NLs(k) \o <<NL>>
  <2>1. /\ t \in Seq(Chars) /\ Len(t) = k + 1
        /\ \A i \in 1 .. k + 1 : t[i] = IF i <= k THEN NLs(k)[i] ELSE <<NL>>[i - k]
    BY <1>1, <1>2, ConcatProperties
  <2> HIDE DEF t
  <2>2. \A i \in 1 .. k + 1 : t[i] = NL
    BY <1>1, <1>2, <2>1
  <2>3. t = NLs(k + 1)
    BY <1>1, <2>1, <2>2, SeqEqual
  <2> QED
    BY <2>3 DEF t
<1>4. NLs(k) \in Seq(Chars) /\ <<NL>> \in Seq(Chars)
  BY <1>1, <1>2
<1>5. (s \o NLs(k)) \o <<NL>> = s \o (NLs(k) \o <<NL>>)
  BY <1>4, Associative
<1> QED
  BY <1>3, <1>5

\* The two parts of a text that was put together.
LEMMA PartsOf ==
  ASSUME NEW a \in Seq(Chars), NEW c \in Seq(Chars), NEW t, t = a \o c
  PROVE  SubSeq(t, 1, Len(a)) = a /\ SubSeq(t, Len(a) + 1, Len(t)) = c
<1>1. /\ t \in Seq(Chars) /\ Len(t) = Len(a) + Len(c)
      /\ \A i \in 1 .. Len(a) + Len(c) : t[i] = IF i <= Len(a) THEN a[i] ELSE c[i - Len(a)]
  BY ConcatProperties
<1>2. Len(a) \in Nat /\ Len(c) \in Nat /\ \A i \in 1 .. Len(t) : t[i] \in Chars
  BY <1>1, ElementOfSeq
<1>3. SubSeq(t, 1, Len(a)) = a
  <2>1. /\ SubSeq(t, 1, Len(a)) \in Seq(Chars) /\ Len(SubSeq(t, 1, Len(a))) = Len(a)
        /\ \A i \in 1 .. Len(a) : SubSeq(t, 1, Len(a))[i] = t[i]
    BY <1>1, <1>2, SubSeqProperties
  <2>2. \A i \in 1 .. Len(a) : SubSeq(t, 1, Len(a))[i] = a[i]
    BY <1>1, <1>2, <2>1
  <2> QED
    BY <2>1, <2>2, SeqEqual
<1>4. SubSeq(t, Len(a) + 1, Len(t)) = c
  <2> DEFINE u == SubSeq(t, Len(a) + 1, Len(t))
  <2>1. /\ u \in Seq(Chars) /\ Len(u) = Len(c)
        /\ \A i \in 1 .. Len(c) : u[i] = t[Len(a) + i]
    BY <1>1, <1>2, SubSeqProperties
  <2> HIDE DEF u
  <2>2. ASSUME NEW i \in 1 .. Len(u) PROVE u[i] = c[i]
    <3>1. PICK j \in 1 .. Len(a) + Len(c) : j = Len(a) + i
      BY <1>2, <2>1
    <3>2. ~ (j <= Len(a)) /\ j - Len(a) = i
      BY <1>2, <2>1, <3>1
    <3>3. t[j] = c[i]
      BY <1>1, <3>2
    <3> QED
      BY <2>1, <3>1, <3>3
  <2>3. u = c
    BY <2>1, <2>2, SeqEqual
  <2> QED
    BY <2>3 DEF u
<1> QED
  BY <1>3, <1>4

\* What is not cut short is all of it.
LEMMA AllOfIt ==
  ASSUME NEW n \in Nat, NEW s \in Seq(Chars), Len(AtMost(n, s)) < n
  PROVE  AtMost(n, s) = s
<1>1. Len(AtMost(n, s)) = IF n <= Len(s) THEN n ELSE Len(s)
  BY AtMostTypes
<1>2. ~ (n <= Len(s)) /\ Len(s) \in Nat
  BY <1>1
<1>3. Min({n, Len(s)}) = Len(s)
  BY <1>2, OfTwo
<1> QED
  BY <1>3, SubSeqFull DEF AtMost


\* A line that a newline ends is cut with it, and the newline that the clip has is that one.
LEMMA WholeLine ==
  ASSUME NEW b \in Seq(Chars), NEW s \in Nat, NEW e \in Nat, s <= e, e < Len(b), b[e + 1] = NL
  PROVE  (SubSeq(b, s + 1, e) \o <<NL>>) \o SubSeq(b, e + 2, Len(b)) = SubSeq(b, s + 1, Len(b))
<1>1. PICK m \in 1 .. Len(b) : m = s + 1
  OBVIOUS
<1>2. PICK n \in m .. Len(b) : n = e + 1
  BY <1>1
<1>3. SubSeq(b, m, n) = SubSeq(b, m, n - 1) \o <<b[n]>>
  BY SubSeqRecursiveSecond
<1>4. n - 1 = e /\ n + 1 = e + 2 /\ b[n] = NL
  BY <1>2
<1>5. SubSeq(b, s + 1, e) \o <<NL>> = SubSeq(b, m, n)
  BY <1>1, <1>3, <1>4
<1>6. m \in 1 .. Len(b) + 1 /\ n \in m - 1 .. Len(b) /\ Len(b) \in n .. Len(b)
  BY <1>1, <1>2
<1>7. SubSeq(b, m, n) \o SubSeq(b, n + 1, Len(b)) = SubSeq(b, m, Len(b))
  BY <1>6, ConcatAdjacentSubSeq
<1> QED
  BY <1>1, <1>4, <1>5, <1>7

\* What ^K leaves: the text before the line and the text after it.
LEMMA CutLeaves ==
  ASSUME InText, CutKey
  PROVE  LET s == line_start(cur)
             e == line_end(cur)
             c == SubSeq(buf, e + (IF e < len THEN 2 ELSE 1), len)
         IN  cur' = s /\ buf' = SubSeq(buf, 1, s) \o c
<1> DEFINE s == line_start(cur)
           e == line_end(cur)
           n == e - s + (IF e < len THEN 1 ELSE 0)
           c == SubSeq(buf, e + (IF e < len THEN 2 ELSE 1), len)
<1>1. IsText /\ cur \in 0 .. len /\ buf \in Seq(Chars) /\ len = Len(buf) /\ len \in Nat
  BY DEF InText, IsText, len
<1>2. s \in 0 .. cur /\ e \in cur .. len
  BY <1>1, LineStart, LineEnd
<1>3. cut(s, n, s)
  BY DEF CutKey
<1> HIDE DEF s, e
<1>4. s \in Nat /\ e \in Nat /\ s <= e /\ e <= len /\ ~ (s < 0) /\ ~ (s + n > len) /\ ~ (s > s)
  BY <1>1, <1>2
<1>5. s + n + 1 = e + (IF e < len THEN 2 ELSE 1)
  BY <1>4
<1>6. CASE n <= 0
  <2>1. buf' = buf /\ cur' = s
    BY <1>3, <1>6 DEF cut
  <2>2. e = len /\ s = len /\ ~ (e < len)
    BY <1>1, <1>4, <1>6
  <2>3. 1 \in 1 .. Len(buf) + 1 /\ s \in 1 - 1 .. Len(buf) /\ Len(buf) \in s .. Len(buf)
    BY <1>1, <1>4
  <2>4. SubSeq(buf, 1, s) \o SubSeq(buf, s + 1, Len(buf)) = SubSeq(buf, 1, Len(buf))
    BY <1>1, <2>3, ConcatAdjacentSubSeq
  <2>5. SubSeq(buf, 1, Len(buf)) = buf
    BY <1>1, SubSeqFull
  <2>6. c = SubSeq(buf, s + 1, Len(buf))
    BY <1>1, <2>2
  <2> QED
    BY <2>1, <2>4, <2>5, <2>6 DEF s, e
<1>7. CASE ~ (n <= 0)
  <2>1. buf' = SubSeq(buf, 1, s) \o SubSeq(buf, s + n + 1, len) /\ cur' = s
    BY <1>3, <1>4, <1>7 DEF cut
  <2>2. c = SubSeq(buf, s + n + 1, len)
    BY <1>5
  <2> QED
    BY <2>1, <2>2 DEF s, e
<1> QED
  BY <1>6, <1>7

\* What ^U would make after a ^K: what it would have made before, of the clip that ^K
\* added to, put before the line; with a newline more, if the line had none.
LEMMA CutPutsBack ==
  ASSUME InText, Others, CutKey, Len(clip') < CLIP
  PROVE  LET s == line_start(cur)
             base == IF cutting THEN clip ELSE <<>>
             x == (SubSeq(buf, 1, s) \o base) \o SubSeq(buf, s + 1, len)
         IN  PutBack' = x \/ PutBack' = x \o <<NL>>
<1> DEFINE s == line_start(cur)
           e == line_end(cur)
           a == SubSeq(buf, 1, s)
           b == IF cutting THEN clip ELSE <<>>
           t == SubSeq(buf, s + 1, e)
           c == SubSeq(buf, e + (IF e < len THEN 2 ELSE 1), len)
           r == SubSeq(buf, s + 1, len)
<1>1. IsText /\ cur \in 0 .. len /\ buf \in Seq(Chars) /\ len = Len(buf) /\ len \in Nat
  BY DEF InText, IsText, len
<1>2. s \in 0 .. cur /\ e \in cur .. len /\ EndsLine(e)
  BY <1>1, LineStart, LineEnd
<1>3. cur' = s /\ buf' = a \o c
  BY CutLeaves
<1>4. clip' = AtMost(CLIP, b \o (t \o <<NL>>))
  BY DEF CutKey, CutText
<1> HIDE DEF s, e
<1>5. s \in Nat /\ e \in Nat /\ s <= e /\ e <= len
  BY <1>1, <1>2
<1>6. \A i \in 1 .. len : buf[i] \in Chars
  BY <1>1, ElementOfSeq
<1>7. a \in Seq(Chars) /\ Len(a) = s
  BY <1>1, <1>5, Parts
<1>8. t \in Seq(Chars) /\ r \in Seq(Chars) /\ c \in Seq(Chars)
  <2>1. /\ s + 1 \in Int /\ e + 1 \in Int /\ e + 2 \in Int
        /\ \A i \in s + 1 .. len : buf[i] \in Chars
        /\ \A i \in s + 1 .. e : buf[i] \in Chars
        /\ \A i \in e + 1 .. len : buf[i] \in Chars
        /\ \A i \in e + 2 .. len : buf[i] \in Chars
    BY <1>1, <1>5, <1>6
  <2>2. SubSeq(buf, s + 1, e) \in Seq(Chars) /\ SubSeq(buf, s + 1, len) \in Seq(Chars)
        /\ SubSeq(buf, e + 1, len) \in Seq(Chars) /\ SubSeq(buf, e + 2, len) \in Seq(Chars)
    BY <1>1, <1>5, <2>1, SubSeqProperties
  <2> QED
    BY <2>2
<1>9. b \in Seq(Chars) /\ <<NL>> \in Seq(Chars)
  BY EmptySeq, OneChar DEF Others, Chars
<1> HIDE DEF a, b, c, t
<1>10. t \o <<NL>> \in Seq(Chars)
  BY <1>8, <1>9, ConcatProperties
<1>11. b \o (t \o <<NL>>) \in Seq(Chars)
  BY <1>9, <1>10, ConcatProperties
<1>12. clip' = b \o (t \o <<NL>>)
  BY <1>4, <1>11, AllOfIt, EditAssumption
<1>13. PutBack' = (a \o clip') \o c
  <2>1. SubSeq(buf', 1, Len(a)) = a /\ SubSeq(buf', Len(a) + 1, Len(buf')) = c
    BY <1>3, <1>7, <1>8, PartsOf
  <2> QED
    BY <1>3, <1>7, <2>1 DEF PutBack, len
<1>14. PutBack' = (a \o b) \o ((t \o <<NL>>) \o c)
  <2>1. PICK u \in Seq(Chars) : u = t \o <<NL>>
    BY <1>10
  <2>2. (a \o (b \o u)) \o c = (a \o b) \o (u \o c)
    <3>1. PICK v \in Seq(Chars) : v = a
      BY <1>7
    <3>2. PICK w \in Seq(Chars) : w = b
      BY <1>9
    <3>3. PICK d \in Seq(Chars) : d = c
      BY <1>8
    <3>4. (v \o (w \o u)) \o d = (v \o w) \o (u \o d)
      OBVIOUS
    <3> QED
      BY <3>1, <3>2, <3>3, <3>4
  <2> QED
    BY <1>12, <1>13, <2>1, <2>2
<1>15. CASE e < len
  <2>1. (t \o <<NL>>) \o c = r
    <3>1. buf[e + 1] = NL /\ e < Len(buf)
      BY <1>1, <1>2, <1>5, <1>15 DEF EndsLine
    <3>2. (SubSeq(buf, s + 1, e) \o <<NL>>) \o SubSeq(buf, e + 2, Len(buf)) = SubSeq(buf, s + 1, Len(buf))
      BY <1>1, <1>5, <3>1, WholeLine
    <3>3. c = SubSeq(buf, e + 2, Len(buf))
      BY <1>1, <1>15 DEF c
    <3> QED
      BY <1>1, <3>2, <3>3 DEF t
  <2> QED
    BY <1>14, <2>1 DEF a, b, s
<1>16. CASE ~ (e < len)
  <2>1. e = len
    BY <1>1, <1>5, <1>16
  <2>2. c = <<>>
    BY <1>1, <1>16, <2>1, SubSeqEmpty DEF c
  <2>3. t = r
    BY <2>1 DEF t
  <2>4. (t \o <<NL>>) \o c = r \o <<NL>>
    BY <1>10, <2>2, <2>3, ConcatEmptySeq
  <2>5. a \o b \in Seq(Chars)
    BY <1>7, <1>9, ConcatProperties
  <2>6. (a \o b) \o (r \o <<NL>>) = ((a \o b) \o r) \o <<NL>>
    BY <1>8, <1>9, <2>5, Associative
  <2> QED
    BY <1>14, <2>4, <2>6 DEF a, b, s
<1> QED
  BY <1>15, <1>16

LEMMA CutKeepsRun ==
  ASSUME InText, Others, CutsInv, CutKey
  PROVE  CutsInv'
<1> SUFFICES ASSUME uncut' # NoRun PROVE CutsInv'
  BY DEF CutsInv
<1> DEFINE s == line_start(cur)
           base == IF cutting THEN clip ELSE <<>>
           x == (SubSeq(buf, 1, s) \o base) \o SubSeq(buf, s + 1, len)
<1>1. IsText /\ cur \in 0 .. len /\ buf \in Seq(Chars) /\ len = Len(buf) /\ len \in Nat
  BY DEF InText, IsText, len
<1>2. s \in 0 .. cur /\ StartsLine(s)
  BY <1>1, LineStart
<1>3. uncut' = (IF cutting THEN uncut ELSE buf) /\ ~ finding /\ finding' = finding
  BY DEF CutKey, Keeps
<1>4. uncut' \in Seq(Chars)
  BY <1>1, <1>3 DEF CutsInv
<1>5. StartsLine(cur)'
  <2>1. cur' = s /\ \E c \in Seq(Chars) : buf' = SubSeq(buf, 1, s) \o c
    <3>1. \A i \in 1 .. len : buf[i] \in Chars
      BY <1>1, ElementOfSeq
    <3>2. line_end(cur) \in cur .. len
      BY <1>1, LineEnd
    <3> DEFINE m == line_end(cur) + (IF line_end(cur) < len THEN 2 ELSE 1)
    <3>3. m \in Int /\ \A i \in m .. len : buf[i] \in Chars
      BY <1>1, <3>1, <3>2
    <3>4. SubSeq(buf, m, len) \in Seq(Chars)
      BY <1>1, <3>3, SubSeqProperties
    <3> QED
      BY <3>4, CutLeaves
  <2>2. PICK c \in Seq(Chars) : buf' = SubSeq(buf, 1, s) \o c
    BY <2>1
  <2>3. s \in 0 .. Len(buf)
    BY <1>1, <1>2
  <2> HIDE DEF s
  <2>4. SubSeq(buf, 1, s) \in Seq(Chars) /\ Len(SubSeq(buf, 1, s)) = s
    BY <1>1, <2>3, Parts
  <2>5. s > 0 => buf'[s] = buf[s]
    <3>1. \A i \in 1 .. s : SubSeq(buf, 1, s)[i] = buf[i]
      BY <1>1, <2>3
    <3>2. \A i \in 1 .. s : buf'[i] = SubSeq(buf, 1, s)[i]
      BY <2>2, <2>4, ConcatProperties
    <3> QED
      BY <2>3, <3>1, <3>2
  <2> QED
    BY <1>1, <1>2, <2>1, <2>3, <2>5 DEF StartsLine
<1>6. ASSUME Len(clip') < CLIP
      PROVE  \E k \in Nat : PutBack' = uncut' \o NLs(k)
  <2>1. PutBack' = x \/ PutBack' = x \o <<NL>>
    BY <1>6, CutPutsBack
  <2>2. \E k \in Nat : x = uncut' \o NLs(k)
    <3>1. CASE cutting
      <4>1. uncut # NoRun /\ uncut' = uncut /\ base = clip
        BY <1>3, <3>1
      <4>2. s = cur
        <5>1. cur \in 0 .. cur /\ StartsLine(cur) /\ NoneIn(cur, cur)
          BY <1>1, <4>1 DEF CutsInv, NoneIn
        <5> QED
          BY <1>1, <5>1, StartIs
      <4>3. Len(clip) < CLIP
        <5>1. clip \in Seq(Chars) /\ Len(clip) \in Nat
          BY DEF Others
        <5> DEFINE u == clip \o CutText
        <5>2. CutText \in Seq(Chars)
          BY CutTextTypes
        <5>3. u \in Seq(Chars) /\ Len(u) = Len(clip) + Len(CutText) /\ Len(CutText) \in Nat
          BY <5>1, <5>2, ConcatProperties
        <5>4. clip' = AtMost(CLIP, u)
          BY <3>1 DEF CutKey
        <5> HIDE DEF u
        <5>5. Len(clip') = IF CLIP <= Len(u) THEN CLIP ELSE Len(u)
          BY <5>3, <5>4, AtMostTypes, EditAssumption
        <5> QED
          BY <1>6, <5>1, <5>3, <5>5, EditAssumption
      <4>4. x = PutBack
        BY <4>1, <4>2 DEF PutBack
      <4> QED
        BY <4>1, <4>3, <4>4 DEF CutsInv
    <3>2. CASE ~ cutting
      <4>1. uncut' = buf /\ base = <<>>
        BY <1>3, <3>2
      <4>2. s \in 0 .. Len(buf) /\ 1 \in 1 .. Len(buf) + 1 /\ s \in 1 - 1 .. Len(buf)
            /\ Len(buf) \in s .. Len(buf)
        BY <1>1, <1>2
      <4> HIDE DEF s
      <4>3. SubSeq(buf, 1, s) \o <<>> = SubSeq(buf, 1, s)
        BY <1>1, <4>2, Parts, ConcatEmptySeq
      <4>4. SubSeq(buf, 1, s) \o SubSeq(buf, s + 1, Len(buf)) = SubSeq(buf, 1, Len(buf))
        BY <1>1, <4>2, ConcatAdjacentSubSeq
      <4>5. SubSeq(buf, 1, Len(buf)) = buf
        BY <1>1, SubSeqFull
      <4>6. x = buf
        BY <1>1, <4>1, <4>3, <4>4, <4>5
      <4>7. buf = buf \o NLs(0)
        BY <1>1, NoNewlines
      <4> QED
        BY <4>1, <4>6, <4>7
    <3> QED
      BY <3>1, <3>2
  <2> HIDE DEF x
  <2>3. PICK k \in Nat : x = uncut' \o NLs(k)
    BY <2>2
  <2>4. (uncut' \o NLs(k)) \o <<NL>> = uncut' \o NLs(k + 1)
    BY <1>4, OneMoreNewline
  <2>5. CASE PutBack' = x
    BY <2>3, <2>5
  <2>6. CASE PutBack' = x \o <<NL>>
    <3>1. PutBack' = uncut' \o NLs(k + 1)
      BY <2>3, <2>4, <2>6, Zenon
    <3>2. k + 1 \in Nat
      OBVIOUS
    <3> QED
      BY <3>1, <3>2
  <2> QED
    BY <2>1, <2>5, <2>6
<1> QED
  BY <1>3, <1>4, <1>5, <1>6 DEF CutsInv, PutBack, len


LEMMA CutsStep ==
  ASSUME InText, Others, CutsInv, [TextNext]_evars
  PROVE  CutsInv'
<1>1. CASE UNCHANGED evars
  BY <1>1 DEF evars, CutsInv, StartsLine, PutBack, len
<1>2. CASE CutKey
  BY <1>2, CutKeepsRun
<1>3. CASE uncut' = NoRun
  BY <1>3 DEF CutsInv, NoRun
<1>4. QueryKey => uncut' = NoRun
  BY DEF QueryKey, Keeps, CutsInv
<1>5. TextNext => CutKey \/ QueryKey \/ uncut' = NoRun
  <2>1. CharKey \/ EnterKey \/ RubOutKey \/ DelKey \/ PutKey \/ PasteKey => uncut' = NoRun
    BY DEF CharKey, EnterKey, RubOutKey, DelKey, PutKey, PasteKey, EndsTheRun
  <2>2. MoveKey \/ VerticalKey \/ FindAgainKey \/ FindKey => uncut' = NoRun
    BY DEF MoveKey, VerticalKey, FindAgainKey, FindKey, EndsTheRun
  <2>3. PadWrites \/ PadMove \/ PadVertical \/ load => uncut' = NoRun
    BY DEF PadWrites, PadMove, PadVertical, PastEditKey, load
  <2> QED
    BY <2>1, <2>2, <2>3 DEF TextNext
<1> QED
  BY <1>1, <1>2, <1>3, <1>4, <1>5

\* Where there is room for the clip, ^U makes what PutBack says.
LEMMA PutRestores ==
  ASSUME InText, Others, CutsInv, PutKey, uncut # NoRun, Len(clip) < CLIP,
         len + Len(clip) <= FS_FILE_MAX
  PROVE  Restored
<1>1. PICK k \in Nat : PutBack = uncut \o NLs(k)
  BY DEF CutsInv
<1>2. uncut \in Seq(Chars) /\ NLs(k) \in Seq(Chars) /\ Len(NLs(k)) = k
  BY NewlinesTypes DEF CutsInv
<1>3. len \in Nat /\ Len(clip) \in Nat /\ ~ (len + Len(clip) > FS_FILE_MAX)
  BY EditAssumption DEF InText, Others, len
<1>4. buf' = PutBack
  BY <1>3 DEF PutKey, insert, PutBack
<1>5. len' = Len(uncut) + k /\ Len(uncut) \in Nat
  <2>1. Len(uncut \o NLs(k)) = Len(uncut) + k /\ Len(uncut) \in Nat
    BY <1>2, ConcatProperties
  <2> QED
    BY <1>1, <1>4, <2>1 DEF len
<1>6. k \in 0 .. len' - Len(uncut)
  BY <1>5
<1>7. buf' = uncut \o [i \in 1 .. k |-> NL]
  BY <1>1, <1>4 DEF NLs
<1> QED
  BY <1>6, <1>7 DEF Restored

-----------------------------------------------------------------------------
(* The theorems.                                                           *)

TextInv == InText /\ Others /\ ColumnInv /\ CutsInv

LEMMA TextStarts == TextInit => TextInv
<1> SUFFICES ASSUME TextInit PROVE TextInv
  OBVIOUS
<1>1. <<>> \in Seq(Chars) /\ Len(<<>>) = 0
  BY EmptySeq
<1>2. InText
  BY <1>1, EditAssumption DEF TextInit, InText, len
<1>3. Others
  <2>1. clip \in Seq(Chars) /\ Len(clip) = 0 /\ query \in Seq(Chars) /\ Len(query) = 0
    BY <1>1 DEF TextInit
  <2>2. 0 <= CLIP /\ 0 <= QUERY
    BY EditAssumption
  <2> QED
    BY <2>1, <2>2 DEF TextInit, Others
<1>4. ColumnInv /\ CutsInv
  BY DEF TextInit, ColumnInv, CutsInv
<1> QED
  BY <1>2, <1>3, <1>4 DEF TextInv

LEMMA TextSteps ==
  ASSUME ~ ReadMayFail
  PROVE  TextInv /\ [TextNext]_evars => TextInv'
BY TypesStep, ColumnStep, CutsStep DEF TextInv

LEMMA TextAlways ==
  ASSUME ~ ReadMayFail
  PROVE  TextSpec => []TextInv
<1>1. TextInit => TextInv
  BY TextStarts
<1>2. TextInv /\ [TextNext]_evars => TextInv'
  BY TextSteps
<1> QED
  BY <1>1, <1>2, PTL DEF TextSpec

\* Whatever is cut, inserted, found or clicked, the cursor is in the text, and every
\* buffer of edit.c has room for what is in it.
THEOREM BuffersKeepTheirBounds ==
  ASSUME ~ ReadMayFail
  PROVE  TextSpec => []TextTypeOK
<1>1. TextInv => TextTypeOK
  BY TypesAre DEF TextInv
<1> QED
  BY <1>1, TextAlways, PTL

\* After any run of ^K that the clip had room for, ^U makes the text that was there
\* before the first, with newlines added to the end of it, if the text has room for them.
THEOREM CutLinesComeBack ==
  ASSUME ~ ReadMayFail
  PROVE  TextSpec => CutsComeBack
<1> DEFINE A == PutKey /\ uncut # NoRun /\ Len(clip) < CLIP /\ len + Len(clip) <= FS_FILE_MAX
                  => Restored
<1>1. TextInv /\ [TextNext]_evars => [A]_evars
  BY PutRestores DEF TextInv
<1> QED
  BY <1>1, TextAlways, PTL DEF TextSpec, CutsComeBack

\* move_vertical() returns to the column that a run of ups and downs began in, as far as
\* lines are long enough: in the line it began in, to the place.  The run is of nothing but
\* ups and downs: what else a frame of the whole screen does may keep the column too.
THEOREM UpAndDownKeepTheColumn ==
  ASSUME ~ ReadMayFail
  PROVE  TextSpec => []ColumnIsKept
<1>1. TextInv => ColumnIsKept
  BY BackWhereItWas DEF TextInv
<1> QED
  BY <1>1, TextAlways, PTL

\* find_next(), going round with a remainder, comes to the first match after the cursor,
\* or else to the first there is.
THEOREM FindMissesNone ==
  ASSUME ~ ReadMayFail
  PROVE  TextSpec => FindsTheNext
<1>1. TextInv /\ [TextNext]_evars => [query # <<>> /\ FindAgainKey => cur' = FirstHit]_evars
  BY FindGoes DEF TextInv, FindAgainKey
<1> QED
  BY <1>1, TextAlways, PTL DEF TextSpec, FindsTheNext
=============================================================================
