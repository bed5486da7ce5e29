------------------------------ MODULE Evaluator ------------------------------
(***************************************************************************)
(* The two stacks of src/src/forth.c and who may reach what on them.  A    *)
(* program that runs may have a line evaluated (the prompt in its window)  *)
(* or a file included; each gets stacks of its own above the program's,    *)
(* from a floor.  Words are interpreted, or compiled to machine code by    *)
(* src/src/native.c, which keeps the stack pointer in a register and       *)
(* checks it in its own way.                                               *)
(*                                                                         *)
(* A cell is the level that put it there: 0 for the program at the bottom, *)
(* 1 for the line it has evaluated, and so on.  A word is how many cells   *)
(* it takes and how many it leaves.                                        *)
(***************************************************************************)
EXTENDS Integers, Sequences, SequencesExt

CONSTANTS
  DSTACK_MAX, RSTACK_MAX,  \* cells on a stack
  KEPT_MAX,                \* cells kept for the next line
  ROOM,                    \* cells a line has to have (16)
  SLACK,                   \* bound: cells past the return stack that are looked at
  MaxLevel,                \* bound: lines and files one inside another
  Interpreted, Compiled,   \* whether there are words of that kind
  Breaks                   \* whether the break key is pressed

ASSUME EvaluatorAssumption ==
  /\ {DSTACK_MAX, RSTACK_MAX} \subseteq Nat \ {0} /\ KEPT_MAX \in Nat /\ ROOM \in Nat
  /\ SLACK \in Nat /\ MaxLevel \in Nat
  /\ {Interpreted, Compiled, Breaks} \subseteq BOOLEAN

VARIABLES
  vm,      \* the stacks: dstack, dsp, rstack, rsp; aborted and interrupted
  dfloor, rfloor, nkept,  \* forth.c
  frames,  \* what each line or file has to put back: d0, r0, fd, fr; and which it is
  runs_on, \* a word that is called has not looked at aborted yet
  within   \* history: no compiled word took more than its line had

evars == <<vm, dfloor, rfloor, nkept, frames, runs_on, within>>

Level  == Len(frames)
Levels == 0 .. MaxLevel

Init ==
  /\ vm = [dstack  |-> [i \in 1 .. DSTACK_MAX |-> 0], dsp |-> 0,
           rstack  |-> [i \in 1 .. RSTACK_MAX + SLACK |-> 0], rsp |-> 0,
           aborted |-> FALSE, interrupted |-> FALSE]
  /\ dfloor = 0 /\ rfloor = 0 /\ nkept = 0
  /\ frames = <<>> /\ runs_on = FALSE /\ within = TRUE

-----------------------------------------------------------------------------
(* The stacks, as what each C function makes of them.                      *)

error(s) == [s EXCEPT !.dsp = dfloor, !.rsp = rfloor, !.aborted = TRUE]

\* tick(), with the break key down.
broken(s) == [error(s) EXCEPT !.interrupted = TRUE]

push(s) ==
  IF s.dsp >= DSTACK_MAX THEN error(s)
  ELSE [s EXCEPT !.dstack[s.dsp + 1] = Level, !.dsp = @ + 1]

\* Mutant: the bottom of the stack is the bottom for everyone.
pop_ignores_floor(s) == IF s.dsp <= 0 THEN error(s) ELSE [s EXCEPT !.dsp = @ - 1]

pop(s) == IF s.dsp <= dfloor THEN error(s) ELSE [s EXCEPT !.dsp = @ - 1]

rpush(s) ==
  IF s.rsp >= RSTACK_MAX THEN error(s)
  ELSE [s EXCEPT !.rstack[s.rsp + 1] = Level, !.rsp = @ + 1]

rpop(s) == IF s.rsp <= rfloor THEN error(s) ELSE [s EXCEPT !.rsp = @ - 1]

Few == 0 .. 2  \* the cells a word takes or leaves

pushes(m, s) == CASE m = 0 -> s [] m = 1 -> push(s) [] m = 2 -> push(push(s))
pops(n, s)   == CASE n = 0 -> s [] n = 1 -> pop(s) [] n = 2 -> pop(pop(s))

\* prim(), for a word that takes n cells and leaves m: what it takes it may not have had,
\* and it leaves its m all the same.
Prim(n, m, s) == pushes(m, pops(n, s))

-----------------------------------------------------------------------------
(* Interpreted words.                                                      *)

Lines == UNCHANGED <<dfloor, rfloor, nkept, frames>>

\* A primitive runs, and after it aborted is looked at.
Runs == Interpreted /\ (vm.aborted => runs_on)

Interprets == Runs /\ runs_on' = FALSE /\ Lines /\ UNCHANGED within

\* What a word finds that is called.  Compiled code calls it by way of fs_prim or fs_call,
\* which look for the break key first, and go on; fs_prim takes the pointer from the
\* register only then.
Called ==
  {vm} \cup IF Compiled /\ Breaks THEN {broken(vm), [broken(vm) EXCEPT !.dsp = vm.dsp]} ELSE {}

\* A word that is not compiled is called: one for which there is no place on the return
\* stack goes on into its first primitive, or all of a compiled word.
Call ==
  /\ Runs /\ Lines /\ UNCHANGED within
  /\ \E s \in Called : vm' = rpush(s)
  /\ runs_on' = vm'.aborted

Word(n, m) == Interprets /\ vm' = Prim(n, m, vm)

ToR   == Interprets /\ vm' = rpush(pop(vm))
RFrom == Interprets /\ vm' = push(rpop(vm))
Exit  == Interprets /\ vm' = rpop(vm)
Do    == Interprets /\ vm' = rpush(rpush(pops(2, vm)))

\* A word that does not exist, a bad address; the break key in a loop without a count.
Fails ==
  /\ Interprets
  /\ \/ vm' = error(vm)
     \/ Breaks /\ vm' = broken(vm)

\* LOOP: round again, or out; the break key is looked for here.
Loop ==
  /\ Interprets
  /\ LET taken == rpop(rpop(vm))
     IN  \/ vm' = rpush(rpush(taken)) /\ ~taken.aborted
         \/ vm' = taken
         \/ Breaks /\ vm' = broken(taken)

-----------------------------------------------------------------------------
(* Compiled words.  The stack pointer is theirs until they return.         *)

Goes == Compiled /\ (vm.aborted => runs_on) /\ Lines

\* It takes n cells and r of the return stack's.
Takes(n, r) == within' = (within /\ vm.dsp - n >= dfloor /\ vm.rsp - r >= rfloor)

\* A word in line: it reads and writes where its cells should be, in the slack below the
\* stack perhaps, and the pointer is looked at when it has moved.
Inline(n, m) ==
  /\ Goes /\ Takes(n, 0)
  /\ LET top     == vm.dsp - n + m
         written == {i \in vm.dsp - n + 1 .. top : i >= 1 /\ i <= DSTACK_MAX}
         after   == [vm EXCEPT !.dstack = [i \in 1 .. DSTACK_MAX |-> IF i \in written THEN Level ELSE @[i]],
                               !.dsp = top]
     IN  IF n # m /\ top \notin 0 .. DSTACK_MAX
           THEN vm' = error(after) /\ runs_on' = FALSE
           ELSE vm' = after /\ UNCHANGED runs_on

\* >R and R>: the return stack's index is looked at by nobody.
InlineToR ==
  /\ Goes /\ Takes(1, 0) /\ vm.rsp < RSTACK_MAX + SLACK
  /\ LET moved == [vm EXCEPT !.rstack[vm.rsp + 1] = Level, !.rsp = @ + 1, !.dsp = @ - 1]
     IN  IF vm.dsp = 0 THEN vm' = error([moved EXCEPT !.dsp = 0]) /\ runs_on' = FALSE
         ELSE vm' = moved /\ UNCHANGED runs_on

InlineRFrom ==
  /\ Goes /\ Takes(0, 1) /\ vm.rsp > 0
  /\ LET moved == [vm EXCEPT !.rsp = @ - 1]
     IN  IF vm.dsp = DSTACK_MAX THEN vm' = error(moved) /\ runs_on' = FALSE
         ELSE /\ vm' = [moved EXCEPT !.dstack[vm.dsp + 1] = Level, !.dsp = @ + 1]
              /\ UNCHANGED runs_on

\* Any other word is the interpreter's own, and aborted is looked at after it.
Helper(n, m) ==
  /\ Goes /\ UNCHANGED within
  /\ \E s \in Called : vm' = Prim(n, m, s)
  /\ runs_on' = FALSE

\* fs_do: what it makes of aborted is not asked for, and the loop is next.
InlineDo ==
  /\ Goes /\ UNCHANGED within
  /\ vm' = rpush(rpush(pops(2, vm)))
  /\ runs_on' = vm'.aborted

\* fs_loop: the pointer in the register outlives whatever happens in here, and the code
\* after the loop is next.
InlineLoop ==
  /\ Goes /\ UNCHANGED within
  /\ LET taken == rpop(rpop(vm))
         after == [taken EXCEPT !.dsp = vm.dsp]
     IN  \/ vm' = [rpush(rpush(taken)) EXCEPT !.dsp = vm.dsp] /\ ~taken.aborted
         \/ vm' = after
         \/ Breaks /\ vm' = [broken(taken) EXCEPT !.dsp = vm.dsp]
  /\ runs_on' = vm'.aborted

Returns == runs_on /\ runs_on' = FALSE /\ Lines /\ UNCHANGED <<vm, within>>

-----------------------------------------------------------------------------
(* Lines and files.                                                        *)

\* A primitive begins a line or a file, on the stacks s that it finds.
Begins(s, kind) ==
  /\ vm.aborted => runs_on
  /\ Level < MaxLevel
  /\ s \in Called
  /\ frames' = Append(frames, [d0 |-> s.dsp, r0 |-> s.rsp, fd |-> dfloor, fr |-> rfloor, kind |-> kind])
  /\ dfloor' = s.dsp /\ rfloor' = s.rsp
  /\ runs_on' = FALSE
  /\ UNCHANGED <<nkept, within>>

Min2(a, b) == IF a < b THEN a ELSE b

\* Mutant: there is always room.
line_room_never(s) == TRUE

line_room(s) == s.dsp + nkept + ROOM < DSTACK_MAX /\ s.rsp + ROOM < RSTACK_MAX

\* forth_eval_nested, before and after it evaluates.  A line begins with nothing wrong,
\* whatever was; that the break key was pressed stays only within a file.
EvalNested ==
  \E s \in Called, inFile \in BOOLEAN :
    /\ Begins(s, "line") /\ line_room(s)
    /\ vm' = [s EXCEPT !.dstack = [i \in DOMAIN @ |->
                                     IF i \in s.dsp + 1 .. s.dsp + nkept THEN Level + 1 ELSE @[i]],
                       !.dsp = @ + nkept,
                       !.aborted = FALSE, !.interrupted = @ /\ inFile]

PutBack(f) ==
  /\ vm' = [vm EXCEPT !.dsp = f.d0, !.rsp = f.r0, !.aborted = FALSE, !.interrupted = FALSE]
  /\ dfloor' = f.fd /\ rfloor' = f.fr
  /\ frames' = Front(frames)
  /\ UNCHANGED <<runs_on, within>>

LineEnds ==
  /\ frames # <<>> /\ Last(frames).kind = "line" /\ ~runs_on
  /\ nkept' = IF vm.dsp < dfloor THEN 0 ELSE Min2(vm.dsp - dfloor, KEPT_MAX)
  /\ PutBack(Last(frames))

\* include_from_code.
Included ==
  \E s \in Called : Begins(s, "file") /\ vm' = [s EXCEPT !.aborted = FALSE]

FileEnds ==
  /\ frames # <<>> /\ Last(frames).kind = "file" /\ ~runs_on
  /\ PutBack(Last(frames))
  /\ UNCHANGED nkept

\* The next line: of a file, included by a word or by a line as typed, unless the break key
\* stopped it; or at the prompt that has no window.
NextLine ==
  /\ vm.aborted /\ ~runs_on
  /\ vm.interrupted => frames = <<>>
  /\ vm' = [vm EXCEPT !.aborted = FALSE, !.interrupted = FALSE]
  /\ Lines /\ UNCHANGED <<runs_on, within>>

\* forth_call: an app that a line runs is started, whatever came of its source.
AppStarts ==
  /\ vm.aborted /\ ~runs_on
  /\ vm' = [vm EXCEPT !.aborted = FALSE, !.interrupted = FALSE]
  /\ Lines /\ UNCHANGED <<runs_on, within>>

Next ==
  \/ \E n, m \in Few : Word(n, m) \/ Inline(n, m) \/ Helper(n, m)
  \/ Call \/ Exit \/ ToR \/ RFrom \/ Do \/ Loop \/ Fails
  \/ InlineToR \/ InlineRFrom \/ InlineDo \/ InlineLoop \/ Returns
  \/ EvalNested \/ LineEnds \/ Included \/ FileEnds \/ NextLine \/ AppStarts

Spec == Init /\ [][Next]_evars

-----------------------------------------------------------------------------
(* Properties.                                                             *)

\* What the variables hold.
TypeOK ==
  /\ vm.dstack \in [1 .. DSTACK_MAX -> Levels] /\ vm.dsp \in 0 .. DSTACK_MAX
  /\ vm.rstack \in [1 .. RSTACK_MAX + SLACK -> Levels] /\ vm.rsp \in 0 .. RSTACK_MAX + SLACK
  /\ {vm.aborted, vm.interrupted, runs_on, within} \subseteq BOOLEAN
  /\ dfloor \in 0 .. DSTACK_MAX /\ rfloor \in 0 .. RSTACK_MAX + SLACK /\ nkept \in 0 .. KEPT_MAX
  /\ frames \in Seq([d0 : 0 .. DSTACK_MAX, fd : 0 .. DSTACK_MAX,
                     r0 : 0 .. RSTACK_MAX + SLACK, fr : 0 .. RSTACK_MAX + SLACK,
                     kind : {"line", "file"}])

\* "On stacks of its own stacked above the manager's" (README.md): what was on the stacks
\* when a line or a file began is nobody else's to overwrite, however the line goes and
\* whatever it fails in -- as long as its compiled words take only what it has; and however
\* the lines and files before it ended, the floors are its own (forth.c, dfloor and rfloor).
ProgramUntouched ==
  LET Floors(k) == IF k = 0 THEN <<0, 0>> ELSE <<frames[k].d0, frames[k].r0>>
  IN  /\ <<dfloor, rfloor>> = Floors(Level)
      /\ \A k \in DOMAIN frames :
           /\ <<frames[k].fd, frames[k].fr>> = Floors(k - 1)
           /\ within => /\ \A i \in 1 .. frames[k].d0 : vm.dstack[i] < k
                        /\ \A i \in 1 .. frames[k].r0 : vm.rstack[i] < k

-----------------------------------------------------------------------------
(* What is said of the code and is not so (README, "What was found").      *)

\* README.md: what was on the stacks is safe from any line.
AnyLineKeepsOff == within

\* README.md, "report overflow and underflow": a word that takes more than there is, is an
\* error.
UnderflowReported ==
  [][\A n, m \in Few : Inline(n, m) /\ n > vm.dsp => vm'.aborted]_evars

\* README.md, "stacks are bounded".
ReturnStackBounded == vm.rsp <= RSTACK_MAX

\* README.md: after an error the stack is empty, from the floor up.
ErrorEmpties == vm.aborted => vm.dsp = dfloor /\ vm.rsp = rfloor

\* README.md: what stops a program stops it, there and then.
StopsAtOnce == [][vm.aborted /\ vm'.aborted => UNCHANGED vm]_evars

\* The same: an error is over when the line or the file is, and the next begins.
ErrorsAreSeen ==
  [][vm.aborted /\ ~vm'.aborted => LineEnds \/ FileEnds \/ NextLine \/ AppStarts]_evars

\* README.md, "what it leaves on the stack is kept for the next one".
KeptForNext == [][LineEnds /\ ~vm.aborted => nkept' = vm.dsp - dfloor]_evars
=============================================================================
