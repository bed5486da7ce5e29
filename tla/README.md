# Verification of N64 Forth OS

TLA+ models of the parts of the N64 Forth OS (`src/`) that keep state over time and can go wrong in
an order nobody tries by hand: the file system on a Controller Pak, the devices and their keys, the
sound ring, the editor and its sessions, the Files window, the prompt on its console, the dictionary and
what is compiled into it, the two stacks, the window manager, the fixed point arithmetic and the checks of
a pak's packets. TLC checks them on small instances. TLAPS proves, for every value of the constants, that
the file system's copy of the pak is the pak's, after an exchange too, that a pak it can read is sound and no
save writes over what it still needs, that every sample asked for is played once and no playing buffer is written,
that cut lines come back and a search misses no match, that
neither editor gives up changes silently or saves to another's file, that the Files window lists the
files and deletes the one it asked about, that the prompt shows the console's text and recalls what was run,
that what a program has on the stacks outlasts the lines and files run inside it, that fixed point division and
roots are exact, that the dictionary finds whole words and never lays one over memory in use, that control structures compile
to what they mean, that a packet's check finds every burst, that the screen shows the windows, and that a press
is heard once.

Paths below are those of the repository as it is checked out under `src/`, so `src/src/fs.c` is the file
system. `PROJECT.json` lists the components, the runs, the source lines of every definition (`map`), one
mutation of the code for every property of every run that passes (`mutants`), a disagreement between the
code and what is said of it (`findings`; all of them are in section 6), the hazards and the theorems.

To run a check: `tlc -config PakFS_saves.cfg MCPakFS`. To check the proofs: `tlapm` on each of `NumberLemmas`,
`PakProofs`, `EditProofs`, `PromptProofs`, `EvaluatorProofs`, `CompilerProofs`, `DeviceProofs` and `WindowsProofs`.

Contents: [1 The system](#1-the-system) · [2 The modules](#2-the-modules) · [3 The runs](#3-the-runs) ·
[4 Fairness](#4-fairness) · [5 What is proved](#5-what-is-proved) · [6 What was found](#6-what-was-found) ·
[7 What is left out](#7-what-is-left-out) · [8 Plan](#8-plan)

## 1 The system

The machine runs one program on one processor with interrupts off. "Concurrency" here is of four kinds:

1. the world against the machine: paks and devices pulled and put back, transfers that fail, the power,
   keys that go down at any moment, an audio interface that comes to the end of a buffer by itself;
2. handlers that share state with the loop they are called from: `input_break_check()` inside a running
   program, `audio_pump()` inside every wait for a frame;
3. programs inside programs: the desk runs the prompt, which evaluates a line, which may open an app or
   include a file, each on stacks above the last and with words above the last in the dictionary;
4. what is asked for in one frame and done in another: the desk's `WANT-...` variables, edges of buttons,
   a drag, a picture that is drawn a row a frame.

### Inventory

**File system** (`fs.c`). *State:* the copy of the volume in RAM (`vol`: header, page table, directory,
data), which pages of it are cached (`loaded`), `state` and `on_pak`; on the pak, the volume itself.
*Operations:* `fs_mount`, `fs_format`, `fs_read`, `fs_write`, `fs_delete`, `fs_rename`, the look-ups; each
begins with `revalidate()`. *Interactions:* `pak_read`/`pak_write`, 32 bytes at a time; `pak_present` from
the identification that `input.c` makes; `kernel.c` mounts and formats at boot; editor, evaluator and Files
window call it. *Hard:* a pak pulled or the power gone between any two transfers; a failed write in the
middle of a save; another pak in its place; the RAM disk when there is none; full volumes; a directory
that is torn. *Correct when:* a readable pak has no page in two files; the old version of a file survives
until the new one is whole; what is in RAM is what is on the pak; a call that returns 0 is done; every
call comes back.

**Controller Pak** (`pak.c`): transfers with an address CRC and a data CRC, three tries. To the file system a
transfer succeeds or fails. *Correct when:* what was damaged on the way does not pass.

**Sound** (`audio.c`). *State:* the ring of notes, how far into its first note the synthesis is, three
buffers, the two the interface holds. *Operations:* BEEP, QUIET, `audio_pump`, `audio_busy`. *Hard:* the
ring full (BEEP waits for frames), a note that ends within a buffer, a quiet in the middle of it, an
interface that stops and starts. *Correct when:* what was asked for is heard, in order, once; a playing
buffer is not written; a BEEP that waits comes back.

**Editor** (`edit.c`). *State:* the one text with its cursor, goal column, clip and query; which file it
is of, whether it was modified, whether leaving was warned of. *Operations:* keys and buttons; loading,
saving, leaving, running, over the screen and in a window. *Hard:* a run of cuts that meets the end of the
clip; search that goes round; two editors with one buffer, opened from each other through the prompt;
reads that fail half way into opening. *Correct when:* what was cut can be put back, changes are not
thrown away without a warning, and a save writes only the text that belongs to the file.

**Evaluator and native code** (`forth.c`, `native.c`). *State:* two stacks with floors, the line, `aborted`.
*Operations:* push and pop, evaluating a line or a file, keeping what a line in a window leaves; compiled
words that hold the stack pointer in a register. *Hard:* an error in a line of a program; the break key
between any two words; underflow that is noticed late. *Correct when:* a line cannot reach the stack of
the program it runs in, an error is reported and empties the stacks, and a broken program stops.

**Dictionary** (`forth.c`). *State:* `dp`, `latest`, the definition under construction, the marks of apps.
*Operations:* `:` `;` CREATE, an error in a definition, FORGET, LATEST!, KEEP, opening and closing an app.
*Hard:* giving memory back in another order than it was taken. *Correct when:* the chain leads through
words that are whole, nothing in use is given away, and closing an app restores what was there.

**Compiling words** (`forth.c`). *State:* the thread, a control stack, a stack of LEAVEs. *Correct when:*
each jump goes where the structure it belongs to says, whatever was compiled before.

**Fixed point** (`forth.c`): F* F/ FSQRT over a 64 by 32 bit division without the processor's help.

**Controllers and keyboards** (`input.c`). *State:* kinds of devices, the last sample, the edges, the
typeahead. *Operations:* `input_poll` once a frame, `input_break_check` inside a program, `input_init`.
*Hard:* the two samplers share what they remember; devices that go and come; a ring that is full.
*Correct when:* a press is heard once and a key pressed is not missed.

**Window manager and desk** (`wm.fth`, `desk.fth`, the loop in `desktop.c`). *State:* the table of
windows, which is dragged and where it was taken, DIRTY and REPAINTS, what tasks have drawn. *Hard:* a
table reordered while one of its places is remembered; a picture half drawn when the desk is repainted.
*Correct when:* the screen shows the layout, pictures survive repaints, the window that was taken moves.

**Files window** (`files.c`). *State:* what is selected, where the list is scrolled to, how many there are,
which entry was asked about, all static and so shared by a Files window and another over it. *Operations:*
choosing, opening, running, making, deleting with two presses. *Interactions:* the editor over the screen,
programs that run and may come back to it. *Correct when:* the rows are the files there are, and what is
deleted is what was asked about.

**Console** (`console.c`). *State:* a copy of the text, the cursor, the region it scrolls in and where on the
screen that is. *Operations:* writing, scrolling, clearing, AT-XY; moving it elsewhere, painting it from the
copy. *Hard:* it is one for everybody, and is moved while it has text. *Correct when:* the screen shows the copy.

**Prompt** (`repl.c`). *State:* the line, what is known to be drawn of it, the history, `active`. *Operations:*
keys, the arrows, running a line; two layouts; a frame of it in a window. *Interactions:* what a line runs may
take the screen, move the cursor, or be the desk with the prompt in it, or a prompt again. *Correct when:*
the line typed is on the screen, what was printed is still there after whatever had the screen, and the arrows
recall what was run.

**Desktop, boot, video, exceptions, words and apps in Forth, the emulator the tests run in**: see section 7
and the notes in `PROJECT.json`.

## 2 The modules

| module | of | with |
| --- | --- | --- |
| `Volume` | `fs.c`: the volume as data, tables, chains, checksum, blocks | |
| `FileStore` | what the file system promises (abstract) | |
| `PakFS` | `fs.c` over a pak, a transfer a step | EXTENDS `Volume`; INSTANCE `FileStore` |
| `PakSwap` | two paks exchanged with the power on | EXTENDS `PakFS` |
| `PakProofs` | the proofs of these | EXTENDS `PakSwap` |
| `Packet` | `pak.c`: the two CRCs | |
| `Audio` | `audio.c` and the audio interface | |
| `EditBuffer` | `edit.c`: a key | |
| `EditSession` | `edit.c` with `desk.fth`, `repl.c`: who has the buffer | |
| `FilesWindow` | `files.c` | EXTENDS `EditSession` |
| `EditProofs` | the proofs of these three | EXTENDS `FilesWindow` and `EditBuffer` |
| `Console` | `console.c`: operations on the state of the console | |
| `Prompt` | `repl.c`, on the screen and on the desk | EXTENDS `Console` |
| `PromptProofs` | the proofs of these two | EXTENDS `Prompt` |
| `Evaluator` | `forth.c`, `native.c`: the two stacks | |
| `EvaluatorProofs` | its proofs, and those of `FixedPoint` | EXTENDS both |
| `Dictionary` | `forth.c`: memory for words | |
| `ControlFlow` | `forth.c`: the compiling words | |
| `Compiler` | definitions compiled into that memory | EXTENDS `Dictionary` and `ControlFlow` |
| `CompilerProofs` | the proofs of these three | EXTENDS `Compiler` |
| `FixedPoint` | `forth.c`: F* F/ FSQRT | |
| `Input` | `input.c` | |
| `DeviceProofs` | the proofs of `Input` and `Audio` | EXTENDS both |
| `Windows` | `wm.fth`, `desk.fth`, the loop of `desktop.c` | |
| `WindowsProofs` | its proofs | EXTENDS `Windows` |
| `NumberLemmas` | least and greatest of a set, places of a ring, what a loop computes | EXTENDed by the proofs above |
| `MC...` | values for TLC | |

### File system: `Volume`, `PakFS`, `PakSwap`, `FileStore`

`Volume` has the layout: a header (magic, checksum, generation), the page table, directory entries, data
pages. A page holds one value, since no property looks inside one. The checksum is perfect: metadata that
changed in part does not have the checksum it should, which is what the code relies on. The unit that is
stored whole or not is the code's block of 32 bytes: the header, a part of the table, or one entry of the
directory. `Chain(fat, p)` is what a chain reaches, `Sound` that no page is
in two files, none is free and used, and every chain is as long as the file's size says.

In `PakFS` a call is a sequence of steps, one for every transfer that changes the pak or may fail, and `pc`
says where it is: `revalidate()` first, then the body with its guards in the order of the code, then the
loop of `fs_write` (one page a step), then `commit()` and `store_range()` (one metadata block a step).
`Pull`, `Insert`, `Identify` and `PowerFail` are the world; `Insert` and `Identify` happen only between
calls, because a call takes less time than a hand and `identify()` is not called inside one. A transfer
fails by `StorePageFails`, `CommitFails`, `MountNoAnswer`; a failed write leaves the old page, the new one
or something torn. `pak`, `slotFull` and `seen` are the pak, its slot and what the kernel was told; the
rest are the statics and locals of `fs.c`.

`FileStore` says the same in four variables and knows nothing of pages: a call sets out to change the
files (`Begin`), the pak may be unreadable for a while (`Tear`) and is then as intended (`Complete`); a call
cut short leaves the files as they were, as intended, or unreadable and known to be. Only a file that fits
in no other way is written over (`GiveUp`, `WriteOver`). `PromiseKept` is the refinement: `Promise` maps
`readable`, `files`, `intent` and `given_up` to `PakFS`' state.

`PakSwap` adds another pak in a drawer, exchanged between calls: is what `revalidate()` compares enough to tell
two paks apart? It is for directories, not for cached pages.

The loop of `free_chain` is not modelled a turn at a time: `free_chain` of `Volume` frees `Chain`, the
smallest set of pages that has the first and every page the links lead to. `LoopFreesTheChain`, an assumption
of `MCPakFS` that TLC evaluates before each run, compares that with the loop on every table, circles included.

`Packet` has the two checks of `pak.c` bit by bit, without their tables where there is a polynomial.
`PacketIsChecked`, an assumption of `MCPakSwap` that TLC evaluates, says what they catch on short pages, and
`BurstsAreCaught` and `OddIsCaught` what the page's does for every page (section 5); `NotCaught` what it does
not: two bits 127 apart, and a reply that is all zeroes, as an empty port may give.

### Sound: `Audio`

A sample is the number of its note and its place in it. `Beep`, `BeepAgain` (a BEEP that waits for room)
and `QuietCall` are the program; `PumpStart` and `PumpTurn` are `audio_pump` and a turn of its loop;
`PlayedOut` is the interface at the end of a buffer. The lengths of notes come from the code's arithmetic,
with its width (`WORD`), no milliseconds among them. `asked` and `played` are history: what is to be played,
and was. `Honest = FALSE` is a status register that never says full when it is, of which a comment speaks.

### Editor: `EditBuffer`, `EditSession`

`EditBuffer` takes a key and does to the text, cursor, goal column, clip and query what `edit_key` does,
and the same for the controller's buttons, on texts of a few characters. Searching is compared with a
definition that takes the nearest match of all there are. When the cursor is past the end of the text
(a finding) nothing that follows is meant to be right. A C button that is held down moves the cursor and leaves the
goal column, as does a move sideways in the frame of an up or a down (`PressEnds`). `uncut` and `origin` are history:
the text before a run of cuts, the cursor before a run of ups and downs with nothing else between them.

`EditSession` has no text but one value of a few, and no keys but those that matter: who reads keys,
whose text the buffer holds, what the desk was asked for. The frame loop of the desk goes through its
windows back to front; the prompt and the editor take keys in their turn. Only these two windows are kept,
at least one of them stays, and which is covered by others is free. `owner`, `based` and `warned` are
history.

### Files: `FilesWindow`

Over `EditSession`, so that the files, the buffer and both editors are those. `stack` is what was opened over
the first prompt: a Files window, the run of a program with perhaps a prompt in it, a Files window on that.
`rows` is the list on the screen, drawn as the code draws it: two entries when the selection moves within the
window, all when it scrolls or something had the screen. `offered` is history: the file that "press Z again"
was said of. The only names in ROM that can be opened are those that are also in `Files`.

### Prompt: `Console`, `Prompt`

`Console` has no variables: each function of `console.c` is an operator on a record. A row is blank or has text
on it, and what is written is whole rows; columns and colours are left out. Beside the copy of the text the
record has `rows`, what is on the screen where the console is, and `view`, who has the screen: what is drawn
while somebody else has it is not seen.

`Prompt` has the line, the history and the three ways there are to be at the prompt: the loop with the screen
(`repl_run_command`), a frame in a window of the desk (`repl_window_step`, in two steps, with keys between them),
and the loop again for what Files or an app runs (`stack`). A line prints nothing, a row, clears, moves the
cursor (`Gotos`), takes the screen, or starts the desk. A frame that repaints clears DIRTY at its end, after the draw word of
the prompt's window has read a key and run a line, as REPAINT does (`wm.fth:153`): what that line asked for is then
not coming, and `lost` says so. `lost`, `said` and `back` are history.

### Forth: `Evaluator`, `Dictionary`, `ControlFlow`, `Compiler`, `FixedPoint`

`Evaluator`: a cell is the level of the line that put it there, and a word is how many cells it takes and
leaves, interpreted (each `pop` and `push` in turn, each able to fail) or compiled (the pointer in a
register, looked at when it has moved). `frames` is what each line has to put back, the C locals of the
functions that evaluate. A file included at the prompt is more words of the line. An error is not the end at once:
a word that is called for which there is no place on the return stack goes on into its first primitive (`runs_on`),
and so does one that was reached by way of `fs_prim` or `fs_call` with the break key down; a line evaluated in the
middle of that begins with `aborted` clear. `interrupted` ends a file between two lines (`NextLine`).

`Dictionary`: memory in slots, each saying which word or string wrote it; names and tokens are left out,
so FORGET may pick any visible word. Three constants open what a careful programmer does not do:
`Inside` (defining, hiding, forgetting or failing between `[` and `]`), `ForgetAny` (forgetting words older
than an app that is open) and `Unfinished` (opening and closing apps in the middle of a definition). With
all of them FALSE every property holds; each alone gives a finding.

`ControlFlow`: the source so far, the cells of the thread that hold a jump, and the two stacks. The
meaning of a definition is a second definition, from the source alone (`CompilesAsMeant` compares the
two). LOOP stands for +LOOP too.

`Compiler` composes the two: a word of the source compiles into the dictionary, an error in it takes the
definition and its thread back, and apps, FORGET, KEEP and `[` come between definitions. An error inside a word does not
end the word: when `comma()` finds the dictionary full (`Overflows`) it has taken the definition back and emptied the
control stack, and the word goes on to `cpush()` and to the cells still to come, which then lie where the
definition was (`Spill`) and on the stack there was (`WithoutRoom`, `Dropped`); when `cpush()` has no place, IF, WHILE and OF
still lay their cell down. So a place may wait on the control stack with no definition open, and stays until a
definition begins.

`FixedPoint`: the words as operators, on cells of `2 * HALF` bits; TLC takes eight instead of 32. The widths at which the code
turns from one way to divide to the next are a half and a quarter of the cell, so small cells take every
way. `FixedPointIsExact`, an assumption of `MCEvaluator`, says of every cell that its root is exact, and of
every cell by every divisor around a power of two that the quotient is, and that F* undoes it. `EvaluatorProofs`
has the same of every two cells of any width up to 32.

### Devices: `Input`

The two samplers `InputPoll` and `InputBreakCheck` share `kbd_last` and `last_buttons`, as in the code.
Hands move between samples; each press and each release lasts for one at least, and a device that is
pulled out stays away for longer than a second, the code's time from one identification to the next. A key that finds the ring full counts as noticed, since
the code says it drops it. Mice, sticks and key codes are left out. `moving`, `heard` and `away` are history.

### Desk: `Windows`

The screen is a grid whose cells say what they show, so that "the screen shows the layout" can be said.
A frame is two steps, `Poll` (`desktop.c`) and `Frame` (`FRAME` of `wm.fth`: press, drag, close, repaint or
redraw). One window draws a row a frame, as the fractal of `wm.fth`, a task of `desk.fth` or a task that
starts again do (`Program`). Windows are of one size; the counter REPAINTS wraps. `Prompt` and `Editor` are the desk's own windows: which
of the two is in front has the keys, the other comes forward (`Switched`) or the editor's closes between frames
(`BetweenFrames`), and the *draw word* of the prompt runs a line in the middle of the loop that paints. That line may open
the window of an app, bring the editor forward or make its window, or have had the screen (`Asked`): the table
changes under the loop (`At`), and the DIRTY it sets is wiped by REPAINT's own `0 DIRTY !` when the frame repaints
(`Turn`). `Last` is whether the last window may be closed, `Leaving` whether B is pressed. `grabbed`, `carried`, `meddled`
and `lost` are history: which window the button went down on, which one moves, whether the desk changed the table
meanwhile, and whether a repaint was asked for that is not coming.

## 3 The runs

Every run but `PakSwap_pages` passes. State counts are of distinct states. What a run leaves small, it leaves
small because the code treats what is beyond it alike; where it does not, the constant is named below.

| run | question | bounds | states |
| --- | --- | --- | --- |
| `PakFS_saves` | Does a save, delete or rename that is cut short anywhere harm a file, or report success wrongly? | two names, three data pages, table in two blocks, two entries, four saves; files of 0, 1, 2 pages and one too big; failing writes, power cuts | 518,144 |
| `PakFS_pull` | Is the RAM copy the pak's whenever it counts as mounted, and does every call return? | two data pages (two versions fit one at a time), a file of the cartridge, a refused name; pak blank, foreign or formatted, pulled at any transfer; failing reads; every operation but rename | 180,564 |
| `PakSwap` | Does one pak's directory get stored on another? | two paks of two pages, exchanged between calls, pulled in the middle of them | 2,032,802 |
| `PakSwap_pages` | Are cached pages the pak's own after an exchange? (No: section 6.) | the same, with reads | stops early |
| `EditBuffer` | Does every key keep the cursor, the cut lines and the column, and does search find the next? | texts of 4 characters, spaces and newlines; clip of 5, query of 1 | 631,280 |
| `EditSession` | Are changes given up only after a warning, a save made only to its own file, the list the files, and what is deleted what was asked about? (module `MCFilesWindow`) | two files, one of them also in ROM, and a name only there; two texts; the prompt and the editor's window; two rows; a Files window, and one program over it | 747,580 |
| `Audio` | Is everything asked for heard once and in order? | three notes, ring of 3 places, buffers of 2 samples, notes of 0 to 4 samples | 489,306 |
| `Evaluator` | Does a line inside a program stay off the program's stacks? | stacks of 2 places with none to spare, lines nested twice, words that take and leave up to 2 cells | 640,616 |
| `Compiler` | Does every nested definition compile to what it means, is a failed one taken back, and is memory in use ever given away? | twelve slots, three words or strings, two apps, two marks; all 17 control words, definitions of six | 730,658 |
| `Input` | Is every press heard once? | a keyboard of two keys, a controller of two buttons, ring of 3, a second of 2 polls | 506,760 |
| `Prompt` | Does the screen show the console's text wherever the prompt is, do the arrows recall what was run, and does the line appear? (module `MCPrompt`) | three rows; lines of up to two letters; a history of two, three lines; a prompt, the desk or a program one over another to a depth of three, one desk | 267,110 |
| `Windows` | Does the screen show the layout, and does a drag carry the right window? | three windows of 2 by 3 on 4 by 3 cells, two of them the prompt's and the editor's | 466,245 |

Why these sizes meet the interesting cases:

- *Files.* Two pages of data hold one version of a two-page file but not two, so a save must go over the old
  one (`reuse`); three hold both, so it must not. Two entries and two names fill the directory. The table
  spans two blocks, so it can be stored in part. `MaxGen` bounds the saves and `MaxRamGen` those on the RAM
  disk; two generations are enough for a header that is ahead of its table, and the runs have three or four.
- *Notes.* A buffer takes two samples and a note up to four, so notes end within, at and beyond a buffer; the
  ring holds two, and a third waits; three buffers are the code's number. `WORD` is small enough for the
  product of a length to wrap.
- *Editor.* Four characters give up to five lines, empty, short and long, first and last with or without a newline,
  and matches that go round. The code tells a space from a letter only where it indents, and no property is about that;
  the proofs are for any characters. A clip of five holds every run of cuts whose text comes back and not
  every run there is. `INDENT` is small enough to be met.
- *Evaluator.* Two places with two levels leave a line with full, half full and no room. `KEPT_MAX` is past
  what can be left: what happens beyond it is in section 6.
- *Compiler.* Slots for three words of the least size, or for one definition of six words; one mark for each app,
  so that a mark is found; fewer are in section 6. Six words hold a loop in a loop with LEAVE, CASE with an OF in
  it, and WHILE in a loop in an IF. The stacks are deep enough for that; shallower ones are in section 6. Control
  words are written in the first definition only, with no app open: what a jump does to the memory of another
  word does not depend on which word it is.
- *Files window.* Three names in two rows, so that the list scrolls and shrinks to less than a window; a file that
  hides the ROM's; a Files window, and a program run from it. A Files window on a program run from a Files
  window is one deeper, and in section 6.
- *Prompt.* The regions are the code's to scale: the on-screen keyboard takes rows from the bottom, the window
  has one row more on top and one less below. A line longer than one layout has room for, and not than the other.
  Three lines go round a history of two. A second desk, windows that print and AT-XY below the window's last
  row are in section 6.
- *Windows.* Three windows in a row, each over a part of the next, with room to drag one sideways to where it covers
  both others in part or one of them whole; the prompt, the editor and an app are each opened, closed, covered and in front; REPAINTS wraps at two, the least at which a task can still tell two repaints apart.
  `CHECK_DEADLOCK FALSE`: when B has been pressed, the application is over.

`PakFS_saves` fails writes but pulls no pak, and `PakFS_pull` the other way round: the two kinds together
are a state space of millions. The steps are the same ones (`StorePageFails`, `CommitFails`), and the
proofs of section 5 are for both at once.

What the properties say:

- `PakFS`: `ReadablePakIsSound` at every step, not only between calls. `SafeSave`, a step property: no page
  that the *pak's* table has in use is written over, unless there is no other room. `CacheIsPak`; and
  `SaveInv`, the inductive invariant behind these three. `OkIsDone`: success means that the pak has it.
  `PromiseKept`: the refinement of `FileStore`. `CallsReturn`: liveness.
- `PakSwap`: `DirectoryIsThisPaks` at the start of every body; `NeverWrittenOver`, what a call is about to
  store leaves the other files of *this* pak as they are.
- `Audio`: `NothingLost` accounts for every sample asked for: heard, in a buffer, or in the ring, in order.
  `NeverOverwritten`, a step property. `AllHeard`: liveness, of the sound and of a BEEP that waits.
- `EditBuffer`: `CutsComeBack`, a step property, compares the text before a run of ^K with what ^U makes of it, if the
  clip had room for the cuts and the text has room for the clip (without either, section 6); `ColumnIsKept` the cursor with where a run of ups and downs began; `FindsTheNext` the search with a definition of
  the nearest match.
- `EditSession`: `UnmodifiedIsSaved`, `NeverSilently`, `SavesItsOwn` relate the flags to what was read, saved
  and warned of, whichever of the two editors did it. `FilesWindow`: `RowsAreTheFiles`, row by row, after
  whatever happened to the files since they were drawn; `DeletesWhatItAsked`, a step property that relates the
  second press to the first.
- `Evaluator`: `ProgramUntouched`: below a floor every cell is of the level that put it there, as long as no
  compiled word took more than its line had (`within`; without it, section 6), and the floors are the lines' after
  any way to end.
- `Compiler`: `ChainIsSound`, `HeldStays`, `GivesBack` of the dictionary, whatever is compiled into it;
  `CompilesAsMeant` against a meaning that is defined from the source text alone, which also says that what is
  nested is accepted.
- `Prompt`: `ScreenShowsTheText`, row by row; `RecallsInOrder`, a step property; `LineAppears`, liveness: the line is
  drawn only when its length, its row or the blinking changes, so that it may be late (section 6), but not for ever. In the desk's window
  the first and the last say nothing while the repaint that somebody asked for in a frame that repaints is lost.
- `Input`: `PressedOnce`: a press, of a key or a button, is heard neither twice nor never.
- `Windows`: `ScreenIsLayout`, cell by cell, and `PictureKept`, unless a repaint was asked for in the middle of one
  (`lost`); `DragCarriesTheGrabbed`, as long as the desk does not change the table with the button down (`meddled`).
  What is so without these conditions is not what is said: section 6.

## 4 Fairness

Three runs state liveness. `PakFS!FairSpec` has weak fairness of `Step`, the steps of the call in progress:
the machine runs one program, with interrupts off, so a call that can go on does. Nothing is assumed of
the world; in particular no read or write need succeed and no pak need come back. With the power cut a
call does not return, but `PowerFail` puts the machine back to its first mount, which must then end too.

`Audio!FairSpec` has weak fairness of `Kernel` (the loop of `audio_pump` and of a waiting BEEP, which are straight
code), of `PlayedOut` (the interface plays what it is given) and of `Frame`: the program waits for a frame
again and again, as the prompt, the desk and every loop of `desktop.c` do. A program that computes for ever
and never waits has no sound, and nothing is claimed of it. `Beep` and `QuietCall` have no fairness.

`Prompt!Spec` has weak fairness of `Frame`, a turn of whichever loop has the screen: the prompt's loop and
`full_app`'s go round with every frame, as long as they have it. Nobody has to type or to run anything, and what
took the screen may keep it.

## 5 What is proved

TLAPS proves, for every value of the constants (every number of pages, table block size and directory size,
every set of names and contents, whatever troubles there are; every set of files and texts, length of the list
and depth of windows; every screen, region, set of lines and length of the history; stacks of any size and lines
inside lines to any depth; memory, words and apps of any number; any devices and keys; any ring, notes and buffers of sound; any
characters, text and clip; any screen and windows):

| theorem | module | says |
| --- | --- | --- |
| `TypeCorrect` | `PakProofs` | `Spec => []TypeOK` |
| `CacheInvariant` | `PakProofs` | `Spec => []CacheInv` |
| `CacheCorrect` | `PakProofs` | `Spec => []CacheIsPak` |
| `SaveIsSafe` | `PakProofs` | `Spec => SafeSave` |
| `ReadablePaksAreSound` | `PakProofs` | `Spec => []ReadablePakIsSound` |
| `SaveInvariant` | `PakProofs` | `Spec => []SaveInv` |
| `PromiseIsKept` | `PakProofs` | `Spec => PromiseKept`: `PakFS` implements `FileStore` |
| `OkIsTrue` | `PakProofs` | `Spec => OkIsDone` |
| `SwapInvariant` | `PakProofs` | `SwapSpec => [](TypeOK /\ SwapInv)` |
| `SwappedPakIsReadAgain` | `PakProofs` | `SwapSpec => []DirectoryIsThisPaks` |
| `NoPakIsWrittenOver` | `PakProofs` | `SwapSpec => NeverWrittenOver` |
| `BurstsAreCaught` | `PakProofs` | `Caught` of every page and every burst of up to eight bits |
| `OddIsCaught` | `PakProofs` | `Caught` of every page and every odd number of bits |
| `NothingUnsaved` | `EditProofs` | `Spec => []UnmodifiedIsSaved`, if `ScreenOnly` |
| `WarnsBeforeGivingUp` | `EditProofs` | `Spec => NeverSilently`, if `ScreenOnly` |
| `SavesToItsOwn` | `EditProofs` | `Spec => SavesItsOwn`, if `ScreenOnly` |
| `RowsRight` | `EditProofs` | `Spec => []RowsAreTheFiles` |
| `SessionTypesOK` | `EditProofs` | `Spec => []TypeOK` |
| `AsksBeforeDeleting` | `EditProofs` | `Spec => DeletesWhatItAsked`, if `MaxDepth <= 2` |
| `BuffersKeepTheirBounds` | `EditProofs` | `TextSpec => []TextTypeOK`, if not `ReadMayFail` |
| `CutLinesComeBack` | `EditProofs` | `TextSpec => []CutsComeBack`, if not `ReadMayFail` |
| `UpAndDownKeepTheColumn` | `EditProofs` | `TextSpec => []ColumnIsKept`, if not `ReadMayFail` |
| `FindMissesNone` | `EditProofs` | `TextSpec => FindsTheNext`, if not `ReadMayFail` |
| `TextIsOnTheScreen` | `PromptProofs` | `Spec => []ScreenShowsTheText`, if `QuietDesk` |
| `HistoryRecalls` | `PromptProofs` | `Spec => RecallsInOrder` |
| `TypeCorrect` | `EvaluatorProofs` | `Spec => []TypeOK` |
| `WhatWasThereStays` | `EvaluatorProofs` | `Spec => []ProgramUntouched` |
| `DivisionIsExact` | `EvaluatorProofs` | `DivIsExact` of every cell by every other but 0 |
| `RootsAreExact` | `EvaluatorProofs` | `RootIsExact` of every cell |
| `MultiplyingUndoesDividing` | `EvaluatorProofs` | `MulUndoesDiv` of the same |
| `DictionaryInvariant` | `CompilerProofs` | `Spec => []WordsInv`, if `Orderly` |
| `FoundWordsAreWhole` | `CompilerProofs` | `Spec => []ChainIsSound`, if `Orderly` |
| `HeldIsNotOverwritten` | `CompilerProofs` | `Spec => []HeldStays`, if `Orderly` |
| `ReleasePutsBack` | `CompilerProofs` | `Spec => GivesBack`, if `Orderly` |
| `CompilerTypeOK` | `CompilerProofs` | `Spec => []TypeOK`, if `Orderly` |
| `WordsCompileAsMeant` | `CompilerProofs` | `Spec => []CompilesAsMeant`, if not `Inside` and `[][LoopsHaveRoom]_vars` |
| `ShortWordsCompileAsMeant` | `CompilerProofs` | `Spec => []CompilesAsMeant`, if not `Inside` and `MaxSource <= LEAVES_MAX` |
| `InputTypeOK` | `DeviceProofs` | `Spec => []TypeOK` |
| `PressedOnceAlways` | `DeviceProofs` | `Spec => []PressedOnce`, if `OneKeyboard` |
| `PlayingBufferIsNotWritten` | `DeviceProofs` | `SoundSpec => NeverOverwritten`, if `Honest` |
| `EverySampleOnce` | `DeviceProofs` | `SoundSpec => []NothingLost`, if `Honest` |
| `WindowsTypeOK` | `WindowsProofs` | `Spec => []TypeOK` |
| `ScreenShowsLayout` | `WindowsProofs` | `Spec => []ScreenIsLayout` |
| `TaskKeepsItsPicture` | `WindowsProofs` | `Spec => []PictureKept`, if `Program # "mandel"` |
| `DragCarriesOne` | `WindowsProofs` | `Spec => []DragCarriesTheGrabbed` |

*Assumptions.* `VolumeAssumption` (there is a metadata page and a data page, the pages are fewer than the
marks of a table entry, the name of an unused entry is no name, contents are sequences of pages), `SumAssumption`
(the checksum of no table and directory is the one that stands for a wrong one), `PakAssumption` and `SoundPaks` of
`PakFS` (a pak whose checksum was right at the start was sound); `SessionAssumption` and `FilesAssumption`; `ConsoleAssumption` (a region is of rows of
the grid, and not empty), `PromptAssumption`, `EditAssumption` (the buffer for an indent has two characters at least),
`AudioAssumption` (three buffers at least, and a ring of two places), `EvaluatorAssumption`, `FixedPointAssumption` (cells of
up to 32 bits, whose halves have halves), and those of `Dictionary`, `ControlFlow`, `Input` (there are
finitely many keys) and `Windows`. TLC evaluates them before each run of their modules.
Hypotheses of single theorems, without any one of which the statement fails (section 6):

- `ScreenOnly`: reading a file does not fail in the editor's window: a read that does leaves the old session under the
  new name, and then no promise about saves or warnings is kept;
- `MaxDepth <= 2`: no Files window on a program that was run from another;
- `QuietDesk`: the desk is started once, no other window prints on it while nothing is to be painted, and AT-XY
  stays above the window's last row;
- `Orderly`: the three things that a careful programmer does not do (`Inside`, `ForgetAny`, `Unfinished`) are not
  done, and there are no more apps at a time than marks, of which the code has eight (`forth.c:2333`);
- not `Inside`: ] is not used outside a definition, where what an earlier error left on the control stack may still wait;
- not `ReadMayFail`: reading a file does not fail while the editor is open in a window;
- `LoopsHaveRoom`: no DO or ?DO is compiled when the stack of LEAVEs is full. Of a definition that has no more words
  than that stack has places (32, `forth.c:59`; the run has six of either) nothing is asked;
- `Honest`: the audio interface says that it is full when it is;
- `OneKeyboard`: there is one keyboard at most, and any number of controllers;
- in the properties themselves, as what they say is false without: the clip had room for the cuts and the text has room
  for the clip (`CutsComeBack`), the run of ups and downs had nothing else in it (`ColumnIsKept`), no repaint was asked
  for in the middle of one (`ScreenIsLayout`, `PictureKept`; `ScreenShowsTheText` for the desk's window), the desk did not
  change the table with the button down (`DragCarriesTheGrabbed`);
- `Program # "mandel"`: the slow window is a task or the desk's own, which look at REPAINTS.

*Types.* `TypeOK` is inductive as it stands. The work is in the operators: the first lemmas of `PakProofs` say that the
blocks of metadata that are stored, damaged, stamped or formatted leave a volume a volume, that `free_chain`
leaves a table of links, and that the least and the first of a set that is not empty are in it, which is
what allocation and the search of the directory stand on. `TypeCorrect` has one step for each action.

*The cache.* `CacheIsPak` is not inductive: a call that is in the middle of a save has changed `vol`, and
what it returns to depends on what was stored. `CacheInv` adds what is true on the way:

- `OnThePak`: which states go with a pak at all, at each point of a call;
- `MountedCopy`: between calls, header, table and directory are the pak's;
- `StoredBlocks`: in a commit, the blocks before `blk` are stored, so that after the last all are;
- `CachedPages`: a cached page that is in use holds what the pak holds, which has to be true *during* a save
  as well, because a save that fails mounts again and keeps no page;
- `ClaimsOnly`: until the commit, a save that need not write over its old version has only claimed pages:
  what is free in RAM is free on the pak. This gives `SafeSave` for the page it stores next;
- `LastClaimed`: the page it links the next one from is claimed.

`CacheInv` is proved by one lemma for each group of actions, and `CacheCorrect` and `SaveIsSafe` follow from it.

*The soundness of a readable pak.* `SoundInv` says what is sound when. `CommittedSound`: the volume in RAM is sound and
its header has its checksum while it is stored, so behind a header that is stored already the metadata are either
all there or not what the checksum says (`HeaderSays`), whatever block fails. `MountedSound`: between the changes
the volume in RAM is sound; and what a failed write left there is not the RAM disk's. `HalfSaved`, while pages are claimed: those
claimed so far are a chain that ends in the page claimed last and has as many pages as were stored
(`ClaimedChain`), they are in no file and with the files' they are all that are not free (`ClaimedApart`), only
the slot the file will go into may be wrong (`OthersWhole`), and there are as many free pages as the rest of the
file needs, so that the loop does not come to the end of the table first (`RoomLeft`).

The lemmas are about chains. `Chain` is the least closed set that has the first page, which is stated without
recursion and so can be reasoned about: a chain is the same in any table that agrees along it (`ChainLocal`), a page
linked to its end makes it longer by one (`ChainGrows`), and freeing one leaves those alone that do not meet it
(`FreeChainFreesIt`). From these: deleting, renaming, finishing a save and giving up the old pages first leave a
sound volume, or one that is half saved (`DeleteIsSound`, `RenameIsSound`, `FinishIsSound`, `ReleaseKeeps`).

*The promise.* `KeptInv` says what the pak holds meanwhile. `Unharmed`: the pak is readable until a commit stores
something. `OthersKept`: a save leaves the entries and the links of the other files alone, in RAM as on the pak.
`StoredSoFar`: along the pages claimed so far the pak holds the first so many pages of what is being saved.
`CommitIsAsked`: what a commit stores, over the pages that are on the pak, has done what the call asked for. With
`SoundInv` it gives each action its step of `FileStore`, one lemma for each (`DeletePromised` to `WorldPromised`):
`CommitBegins` is what the three that change the directory share, a page is stored in no other file
(`PagePromised`), and a block that is stored or goes wrong leaves the pak as it was, unreadable, or with the new
header and then, by the checksum, with the files that were meant (`DamageTells`, `HeaderMeans`).

These need the pages of a file in their order, and `PageAt` is a recursive function, of which the library's theorems
on induction can say nothing here. It is done by the least counterexample, which is a fact about sets of
numbers and not about operators: the functions that `PageAt` picks from exist (`AtExists`) and agree (`AtUnique`), so
`PageAt` goes a link at a time (`PageAtSteps`); the first pages of a chain, as many as it has, are all in it
(`PagesOfChain`); tables that agree along them have the same pages in the same order (`SameWay`); so the content of a file depends
on its entry, its links and its own pages only (`SameContent`).

*The sessions.* `SessionInv` adds to `UnmodifiedIsSaved` who has a file open when (`OneEditor`: the two editors never
both), that an open text is of the file whose name is set (`OwnText`), and that in a window a standing warning is
about the text there is (`WarnedOfThis`; the controller's keys over the screen break that, and the warning does
not count there). One lemma for each group of steps says that it is kept and that the step does what the two
action properties say (`StepIsRight`). `RowsInv` adds to `RowsAreTheFiles` that no Files window is directly on
another: what closes one does not show one that was not drawn since.

`FilesInv` adds what the variables hold: who has the keys was reached by drawing, so that a window is left by going
on to one that there is, and the desk's two windows stay two when one is raised, shown or closed (`Raised`,
`LessAWindow`). A list of which some are left out (`Kept`) is what a loop computes; `KeptOfBoth` says that it is of the
list, no longer, and not empty when there is one to keep, from which `ListedIsFiles`: there is always a file to
select. For `AsksBeforeDeleting` the entry that is armed is the file that was asked about as long as the list is
shown (`AskedOfThis`); what opens or runs something takes it back, and nothing else changes the files meanwhile.

*The text.* A text is a sequence, and what `edit.c` counts in it are lines. `LineStart` and `LineEnd` say what the two
scans return, `SameLine` that a place between them has the same ends; `SameNumber` and `LineFound` lead from a place to
its line's number and back, which is what going up and down and `start_of_line` do. `TextInv` has the bounds of the
buffers (`InText`, `Others`), `ColumnInv`: while `origin` has the start of a run, the column kept is its column, and the cursor is in it, or at the
end of a line that is shorter; a column that is kept over something else is of no run; and `CutsInv`: in a run of cuts with room to spare in the clip, the text with the clip put back is what it was, with newlines
added to the end of it. A run cuts whole lines, the newline with them (`WholeLine`), but for a last line without one, whose newline the
clip adds; that is where the added ones come from. `PutRestores` is then about ^U itself: with room in the text it inserts
the clip whole, and what it makes is `Restored`. Searching goes round with a remainder (`RoundIs`), first through what is after the
cursor and then through the rest, so what it stops at is what `FirstHit` says (`FindGoes`).

*The console and the prompt.* `PromptProofs` has a lemma for each operation: `Match`, the screen shows the copy in the
region, is kept by writing, scrolling, clearing and moving the cursor, and made by `con_redraw` wherever the console was
put. `con_place` alone keeps it only if the cursor is not below the region (`PlaceStays`). `ScreenInv` says when the screen shows
the text but for the line (`MatchButLine`): at a prompt that is active, and on a desk that is not to be painted,
where the console is the window's and the cursor inside it; and that a prompt lies on what took the screen, not on
another prompt. `HistoryInv` says that the ring holds `said` (`RingIsSaid`) and that `hist_at` is `back` from the
end; the one fact of arithmetic is that numbers less than the ring's size apart have different places (`RingApart`).

*The evaluator.* `EvaluatorInv` has the floors always (`FloorsRight`: the floors there are, are those of the line there
is, and each line has those of the one below to put back), and the cells as long as compiled words take no more
than there is: floors rise and what is below each was there before its line (`FloorsRise`); the pointers are above
the floors and nothing under them is of a line that is to come (`StacksRight`), which is what makes a line's start
a floor that `FloorsRise` is true of. `StackOps` says what `push`, `pop`, `rpush`, `rpop` and `error` keep
(`Kept`), and every word is made of these; one that is compiled in line is done apart (`InlineKeeps`). What a word that is
called finds is kept too (`CalledKept`), whether or not the break key went down on the way (`PointerBack`), so that it is no
matter for the stacks how far a word goes on after an error.

*Two paks.* `SwapInv` is the invariant of `PakFS` with what it says of the pak that is in said of either: each is sound
if its checksum is right (`SoundInv` for both), and the copy's checksum is right while it is not being changed
(`CopyIsWhole`). Then headers that are equal and right are of equal tables and directories, whichever pak they were
read from (`CopyIsOfThisPak`), which is why `revalidate()` may keep the copy. It may not keep the cached pages: that is the
run `PakSwap_pages`. Calls that mount or format ask `revalidate()` nothing, and are left out of `Trusting`.

*The dictionary.* Memory is given back in three ways: by an error, by FORGET, and when an app is closed; LATEST! only
hides words. What makes that safe is `WordsInv`. `Boundary(d)`: nothing that was laid down lies across `d`; the places
that memory is given back to are boundaries, whatever was laid down since. `Headers` and `LaidDown`: everything below
`dp` is of a word or string, with its header first, and the links go down. `OneUnfinished`: only the newest word has no
EXIT yet. `AppsNested`: each app that is open has stored its own mark and `dp`, which lie in order, and what it holds
is whole and lies below the `dp` of the next app. All ways to lay something down are one lemma (`Growth`), all ways to
give memory back another (`GiveBack`), and each operation is one of these, or changes the visible words only; but for a
word that goes on after the error that took its definition back, which does both (`SpillKeeps`).

*The compiling words.* `CompilerTypeOK` has one lemma for each control word: what it takes from the two stacks was
put there with a place in the thread, and the thread with its jumps keeps its type (`Typed`); what is pushed after an
error has its type too (`WithoutRoomTyped`), though nothing says that a definition is open then.

`CompilesAsMeant` compares what the words made with `Meaning`, which knows nothing of stacks. `OpenAfter` has the
structures that are open after each word, and `Before` the cells before it: functions that `LoopExists` gives, with
one line for each kind of word (`OpenTurns`, `TurnCases`). Structures nest (`StructuresNest`): a word that is inside one is
opened and closed inside it, and what is open below stays what it is (`OpenedStays`, `Ends`). Then:

- `Frame`: what each open structure has on the control stack, by what it began with and what came since, and which LEAVEs are
  its own, above the mark of its loop. `Framed`: the two stacks are these parts, in order, and nothing else. It is lost where a
  mark is not laid down, hence `LoopsHaveRoom`;
- `Jumps`: the cells of the jumps so far, and of each whether it is resolved, and where to, or waits for the end of its
  structure. What ends a structure resolves just those that wait for it (`ResolvedBy`, `ResolvedWaits`);
- `Shape` is both, and each control word keeps it: one lemma for each (`ShapeIF` to `ShapeENDOF`), `CompiledShape` for all;
- `JumpsMeant`: when nothing is open, what waits for the end of a structure went to that end, so `jumps` is
  `Meaning(source)`.

`FlowInv` takes it from the colon, which empties both stacks of whatever was left there, to the semicolon. `FewLeaves`, at most one LEAVE or mark for each word, gives
`LoopsHaveRoom` where definitions are short. The proof found that `Meaning` was ambiguous: two arms of its CASE were true of an IF
with ELSE, and TLC had always taken the first. They exclude each other now.

*The check of a packet.* The register is a function of the bits so far (`RegisterTurns`) and linear in them
(`RegisterXors`), and a packet passes when it is empty after all of its bits (`PassesIs`), so whether damage is found depends on
the bits that were turned over alone (`DamageIs`). Up to eight bits that come into an empty register are all there (`Fed`), and what is
not empty never becomes so on zeroes, because the polynomial has a last term (`StaysZero`): bursts are found. The number of
bits set in the register is odd when that of the bits that came was (`ShiftedOdd`), because the polynomial has, with x^8, an even
number of terms: an odd number of bits is found. Two bits are a matter of their distance, and of how soon the register comes
round; that it is after 127 bits is computed by TLC.

*Fixed point.* The long division and the root are loops over the bits of a cell, so each is a function of the round
(`RoundsTurn`, `RootsTurn`) that keeps a predicate: `Rounded`, what was brought down so far is the quotient so far by the
divisor and a rest below it; `Rooted`, it is the square of the root so far and a rest below the next square. With
`DivDiv` (two divisions are one) `FractionIs` follows: the one division, the two steps of half the bits and the long
division have the same fraction, and none of the shifts loses a bit (`Unlost`). `QuotientUp` puts it under the whole part.
A power of two is worked out by the prover for each exponent up to 32 (`Powers`), and this is where the width of the code is the bound.

*The keys.* `PressedOnce` is not inductive: whether a press will be heard depends on what the samplers remember.
`InputInv` says what that is. `Remembers`: what is remembered of a device and what is held on it differ by what has
moved since the last sample. That is true of a keyboard that was never pulled out; `kbd_last` goes on remembering
the keys of one that was, so of any it is said only that a key that is down and not remembered was not heard yet
(`KeyboardInv`). What is remembered of a controller is true while it is plugged in, and empty when it is not
identified (`PadInv`). `Once`: nothing is heard twice, and what is held and has not moved was heard. Two keyboards
share `kbd_last`, hence `OneKeyboard`. The loops over devices and keys are functions that `LoopExists` gives.

*The sound.* `LastFilled`: the interface has two buffers at most, and they are the last that were filled, so with three
or more the next is neither (`FillsAnother`); a status that is not honest breaks the first part. For `EverySampleOnce`,
`SoundInv` adds to `NothingLost` where the synthesis is in the ring (`RingInv`): within the first note, or at its start when
there is none. What is in the ring is a fold over its notes, and what is in the buffers one over theirs; both are
`Joined`, which grows by what is put at its end (`JoinedAppend`) and shrinks by what is taken from its front (`JoinedTail`). A
note queued is the ring's last (`NotesAppend`, where the remainder of the ring's size goes round), a turn of `fill()`
takes the first of what is left, be it in the middle of a note, its last sample or of no length (`RestStep`), so after any
number of turns what was left is in the buffer or still left (`Filling`, `FilledIs`); a buffer played is the first of those to be.

*The screen.* `ScreenInv` says of every cell what it shows, in layers (`Layers`): the desk where no window is, and of
each window, in the order of the table, what is drawn of it where no window in front of it is. `Repainted` makes that
so for all cells; what redraws single windows does it only for those that nothing covers, and then disturbs no other
layer (`UncoveredApart`). A line run by the prompt's draw word asks for a repaint with all it does (`AskedLayout`), so the
frame that follows makes the layers anew, unless it came in a repaint, and then `lost` is set. For `PictureKept`: before the first frame
the slow window knows of no repaint (`slow.seen` is -1), and after each frame it knows of the last one and what it
drew is there (`SlowShown`); so the next repaint is always another than the one it knows, though REPAINTS wraps.
`DragInv`: DRAGGING is set only while the button is down, and is the place of the window that was
grabbed, unless the desk has changed the table since (`meddled`). The loop of REPAINT goes by the number of windows
before the first is painted and by the table as it is at each turn (`RepaintLoop`, `AtIs`).

*Only model-checked.* The library's theorems on induction take an operator, which the provers cannot give them. `UpTo`, `MinIsLeast`
and `LoopExists` of `NumberLemmas` have a set or a function in its place, and every induction here is by one of them. What is left to
TLC of the algorithms is the check of an address, which is of eleven bits, and two bits of a page.
Liveness (`CallsReturn`, `AllHeard`, `LineAppears`) needs fairness and ENABLED, which are out of reach of the provers used.

## 6 What was found

### The run `PakSwap_pages`

Two paks with the same directory and generation but different contents have equal headers. After an
exchange `revalidate()` (`fs.c:330`) keeps the cached pages of the first, and a file of the second is read with
them. `README.md:57-61` of the repository says that "a different pak, or one written elsewhere, is read again
rather than written over". The directory itself is safe (`PakSwap`), for its checksum is in the header.

### Statements that do not hold

Each of these is written in its module's last section, is not part of any run, and is violated when the
configuration named is changed as said and the property checked in place of its own. "-" changes nothing.

| configuration, change | property | what the code does | what is said |
| --- | --- | --- | --- |
| `PakFS_pull`: `Troubles = {"pull"}`, `InitialPaks <- Formatted`, `Spec` | `NotAnsweringIsTrue` | a pak pulled in a call and put back stays "not answering": `revalidate()` reads an equal header and does not mount (`fs.c:326`) | `docs/HARDWARE.md:112-113`: it "said it was there but reads failed" |
| `PakSwap`: `Troubles = {"pull", "write"}` | `ChecksumCatches` | the header is stored first; a kernel that holds the same header from another pak does not look at the checksum of one that was cut short (`fs.c:330`) | `fs.c:23-27`: "which the checksum catches" |
| `EditBuffer`: - | `CutsAlwaysFit` | a cut last line gets a newline in the clip; where the text was full, the clip no longer fits and ^U does nothing (`edit.c:548`, `edit.c:358`) | `edit.c:10-11`: ^U "puts the cut lines back" |
| `EditBuffer`: - | `GoalIsOfThisRun` | a C button that is held moves the cursor and is no press (`edit.c:725-731`), and an up or down in the same frame keeps the goal too (`edit.c:779`): the next up or down goes to the column of an earlier run | `edit.c:477-478`: "the cursor moved up or down and should remember its column" |
| `EditBuffer`: `CLIP = 2` | `AllCutsComeBack` | ^K cuts the line whether the clip has room for it or not (`edit.c:546`) | `edit.c:10-11`: ^U "puts the cut lines back" |
| `EditBuffer`: `ReadMayFail = TRUE` | `CursorInText` | `load()` returns on a read error with the length 0 and the old cursor (`edit.c:621`), and the window's session goes on | `edit.c:48`: "a file open in a window" |
| `EditSession`: `ReadFails = {"window"}` | `SavesItsOwn` | the same error leaves the session open under the new name with no text; ^S then empties the file (`edit.c:816`) | `edit.c:18`: "one file open at a time" |
| `EditSession`: - | `ScreenAsksAgain` | the controller's keys over the whole screen do not take the warning back (`edit.c:702`) | `edit.c:535`: "leave again to throw the changes away" |
| `EditSession`: - | `RunsTheFile` | ^R then Esc or another file before the prompt is drawn: what runs is not what was saved (`desk.fth:139`) | `edit.c:9`: "^R saves and runs" |
| `EditSession`: - | `KeepsItsWindow` | a window drawn with no session asks to be closed, and an EDIT in the same frame opens one in it (`desk.fth:148`) | `desk.fth:155`: "the editor, in its window, in front" |
| `EditSession`: `Rom <- JustR` | `SelectedIsShown` | a list that gets shorter moves the selection and does not scroll: A, START and Z are for an entry above the first row (`files.c:163`) | `files.c:117-120`: the selected entry is drawn with a mark |
| `EditSession`: - | `DeletesWhileAsking` | another message takes the question's place and the entry stays armed: Z on a ROM file, back, and one Z deletes (`files.c:324`) | `files.c:327`: "press Z (or Delete) again to delete it" |
| `EditSession`: `MaxDepth = 3` | `DeletesWhatItAsked` | a Files window over a program run from another leaves its `armed` and note to that one (`files.c:317`) | `files.c:7`: "delete it (twice, to be sure)" |
| `Prompt`: - | `PromptIsThere` | there is one `active`: the prompt of a program that Files ran clears it, and the prompt below is not painted when Files closes (`repl.c:278`, `repl.c:72`) | `forth.c:1836`: "the prompt comes back when it closes" |
| `Prompt`: - | `DeskIsRepainted` | what took the screen in a frame that repaints: REPAINT's `0 DIRTY !` (`wm.fth:153`) comes after the prompt's `1 DIRTY !` (`desk.fth:135`), and the desk is not painted until something else asks | `desk.fth:135`: "something had the screen: repaint" |
| `Prompt`: - | `LineAtOnce` | a recalled line as long as the one before is not drawn until the cursor blinks (`repl.c:284`) | `repl.c:8-9`: "with the arrow keys recalling earlier lines" |
| `Prompt`: `MaxDesks = 2` | `ScreenShowsTheText` | a desk that is started again counts its repaints from nothing, and the prompt's window, where it was, takes the first for the one it saw (`repl.c:349`) | `console.c:2-4`: "the console can put its scrollback where it was" |
| `Prompt`: `Prints = TRUE` | `ScreenShowsTheText` | what another window prints goes to the prompt's copy and moves its cursor, and is clipped off the screen (`console.c:244`) | `repl.c:307-308`: "it runs beside everything else on the desk" |
| `Prompt`: `Gotos = {2}` | `ScreenShowsTheText` | AT-XY below the window: `con_place` moves the copy up and nothing paints it (`console.c:142`, `repl.c:374`) | `console.c:114`: "The text comes along" |
| `Audio`: `Honest = FALSE` | `NeverOverwritten` | two buffers a call, with two at the interface and three in all, reach the one that plays (`audio.c:134`) | `audio.c:124-125`: a status that lies "cannot make us write over the one that is playing" |
| `Audio`: - | `SoundingIsTrue` | the ring is empty before the buffers are (`audio.c:80`) | `docs/WORDS.md:165`: "is anything still to play" |
| `Compiler`: `Inside = TRUE` | `FailedAreUnlinked` | an error between [ and ] finds state 0 and leaves the definition linked (`forth.c:113`) | `forth.c:112`: "must not be left half-linked" |
| `Compiler`: `ForgetAny = TRUE` | `HeldStays` | FORGET of a word older than an open app gives the app's memory away (`forth.c:1527`) | `README.md:127-128`: "the app's words stay in memory and keep working" |
| `Compiler`: `ForgetAny = TRUE` | `ChainIsSound` | closing that app makes the forgotten word the newest again (`forth.c:2361`) | `forth.c:2369`: "not ours to roll back" |
| `Compiler`: `Unfinished = TRUE` | `HeldStays` | with a definition open, a file that fails takes back the name that KEEP stored (`forth.c:115`) | `forth.c:1768-1769`: "unwinds only the file" |
| `Compiler`: `Unfinished = TRUE` | `ChainIsSound` | an app opened and closed in a definition takes back its parts and leaves it open (`forth.c:2362`) | `forth.c:2330-2331`: "puts it back exactly" |
| `Compiler`: `MARKS = 1` | `GivesBack` | with more apps than marks (eight), the end is computed without the last word's machine code (`forth.c:2371`) | the same |
| `Evaluator`: - | `AnyLineKeepsOff` | compiled code checks the stack's ends, not the line's floor (`native.c:252`) | `README.md:121-123`: "on stacks of its own stacked above the manager's" |
| `Evaluator`: - | `UnderflowReported` | a compiled word that leaves the pointer where it was is not checked (`native.c:375`) | `README.md:461`: "report overflow and underflow" |
| `Evaluator`: `SLACK = 1` | `ReturnStackBounded` | compiled >R is not checked (`native.c:496`) | the same: "Stacks are bounded" |
| `Evaluator`: `Compiled = FALSE` | `ErrorEmpties` | a word that underflows goes on and pushes its result (`forth.c:695`) | `README.md:428-431`: "still has an empty stack" |
| `Evaluator`: - | `StopsAtOnce` | after DO and LOOP compiled code does not look at `aborted` (`native.c:583`); a word called with the return stack full goes on into its first primitive (`forth.c:1161-1164`), as one that compiled code calls does with the break key down (`forth.c:2201-2218`) | `README.md:155-157`: "stops the program" |
| `Evaluator`: - | `ErrorsAreSeen` | that primitive may evaluate a line or a file, which begins with `aborted` clear (`forth.c:1882`): the error is forgotten and the program goes on | the same |
| `Evaluator`: `KEPT_MAX = 1` | `KeptForNext` | what is above the 64 lowest cells is lost (`forth.c:2025`) | `README.md:122-123`: "what it leaves on the stack is kept" |
| `Compiler`: - | `NothingWaits` | with the dictionary full, IF, ELSE, WHILE, DO, ?DO, OF and ENDOF go on to `cpush()` after `comma()` has emptied the control stack and ended the definition (`forth.c:113`, `forth.c:1324-1338`, `1364-1383`, `1402-1410`, `1466-1488`): a THEN typed next is accepted, and stores into memory in use or to come | `README.md:457-458`: "a message rather than a corrupt thread" |
| `Compiler`: `LEAVES_MAX = 2` | `CompilesAsMeant` | DO leaves no mark when the stack is full, and its LOOP takes the outer LEAVEs (`forth.c:1381`) | `forth.c:57-58`: "A zero separates one loop's from the next one out" |
| `Compiler`: `Nested = FALSE`, `MaxSource = 4` | `AcceptedIsNested` | IF ... LOOP is accepted: addresses on the stack look alike (`forth.c:1385`) | `README.md:457-458`: "a message rather than a corrupt thread" |
| the same | `StoresInThread` | CASE ... THEN stores through CASE's mark (`forth.c:1342`) | the same |
| the same | `JumpsInThread` | DO LEAVE UNTIL is accepted with a jump to nowhere (`forth.c:1278`) | the same |
| `Input`: `Keyboards = {1, 2}` | `PressedOnce` | one `kbd_last` for all keyboards: a key held on the first is typed at every poll (`input.c:265`) | `input.c:42`: "caught as they go down" |
| `Input`: - | `KeyCaught` | `kbd_last` outlives its keyboard: a key held when it was pulled out is missed once (`input.c:265`) | the same |
| `Windows`: - | `BLeaves` | a press of B that the POLL of FRAME samples first is in edges nobody reads (`wm.fth:208`) | `wm.fth:150`: "B leaves" |
| `Windows`: `Last = TRUE` | `OnlyBLeaves` | with no window left, `0 DO` paints records of closed windows until one stops the application (`wm.fth:152`) | `desktop.c:438`: "B, BYE, or Escape" |
| `Windows`: - | `ChromeFollowsLayout` | a line that is run in a frame that repaints changes the table under the loop, and its `1 DIRTY !` (`desk.fth:105`, `135`, `166`) is wiped by the loop's end (`wm.fth:153`): bars stay where no window is, or in the wrong colour | `wm.fth:143`: "The chrome is drawn when something moves" |
| `Windows`: - | `TaskSeesTheRepaint` | the same: a window that the loop passed over has no picture, and its task goes on below the rows it drew before | `desk.fth:55`: "start the picture again from the top" |
| `Windows`: - | `DragCarriesThatWindow` | DRAGGING is a place in a table that the desk reorders (`desk.fth:146`) | `wm.fth:193`: "carry the window with the pointer" |
| `Windows`: `Program = "mandel"` | `PictureKept` | the fractal goes on below the rows that a repaint took (`wm.fth:284`) | `wm.fth:148`: "what a window drew is gone now" |

## 7 What is left out

*Abstracted in what is modelled.* Names up to case; the bytes of a page; the label of a pak; collisions of the
checksum; the generation's wrap at 65536 (bounded by `MaxGen`); pitch and volume; positions on the screen of the
editor; key codes; the values of cells; token threads but for jumps; messages; columns and colours of the console; the sizes and the free names of the Files window.

*Not modelled.* The layout of a joybus block around a packet; the instructions that the native compiler emits, which
the repository's tests execute; a control word typed at the prompt, which the code accepts (it has no test for
compiling, `forth.c:1885-1894`) and whose jump is laid down outside any word, and what the THEN after a full dictionary
overwrites; ALLOT of less than nothing (`forth.c:769-774`), which takes back what is below `dp` without a word of it;
START and DESK-RESET from within the desk; OPEN of an app that is open; what REPAINT makes of closed
windows' records before it stops (section 6, `OnlyBLeaves`); strings, number formatting and SEE; the launcher, the app window with its source
and the devices window; the mouse, the sticks and the on-screen keyboard; graphics and video;
boot code and exceptions; the words and apps written in Forth, but for the window manager and the desk; the
JavaScript emulator and the build. `PROJECT.json` has the reason for each.

*Hazards without a property* are listed there with the reason: what the code has that contradicts what is said
(section 6), and a packet that is damaged and passes, which `PakFS` takes not to happen and `Packet` shows to be possible,
if not for a burst or an odd number of bits (section 5).

## 8 Plan

In this order; the runs above stay, and a new question is asked by a property of a run there is, where the
module is the same.

1. `Input`: the mouse. `Audio` with `Input`: the break key while BEEP waits.
2. `Console`: the columns, for lines longer than a row. `EditSession` with `Prompt`: one model of the desk's two
   windows, now that both are modelled apart.
