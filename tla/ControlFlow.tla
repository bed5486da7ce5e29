---------------------------- MODULE ControlFlow ----------------------------
(***************************************************************************)
(* How src/src/forth.c compiles control flow: words that run while a       *)
(* definition is compiled, with a control stack for the jumps that are not *)
(* resolved yet and a second one for the jumps of LEAVE.                   *)
(*                                                                         *)
(* Of the thread only the cells that hold where a jump goes are kept, by   *)
(* their position, and Unresolved while that is not known.  The source is kept, so that the *)
(* thread can be held against what the source means.                       *)
(***************************************************************************)
EXTENDS Integers, Sequences, FiniteSets, SequencesExt

CONSTANTS
  Words,                   \* the words that are used
  CSTACK_MAX, LEAVES_MAX,  \* the stacks' places
  MaxSource,               \* bound: words in a definition
  Nested                   \* whether only well nested definitions are written

AllWords ==
  {"X", "IF", "ELSE", "THEN", "BEGIN", "UNTIL", "AGAIN", "WHILE", "REPEAT",
   "DO", "?DO", "LOOP", "LEAVE", "CASE", "OF", "ENDOF", "ENDCASE"}

ASSUME ControlFlowAssumption ==
  /\ Words \subseteq AllWords
  /\ {CSTACK_MAX, LEAVES_MAX, MaxSource} \subseteq Nat /\ Nested \in BOOLEAN

VARIABLES
  source,  \* the words of the definition so far
  cells,   \* cells in the thread
  jumps,   \* the cells that hold where a jump goes, and where that is
  cstack,  \* forth.c
  leaves,  \* forth.c
  flow     \* "idle", "compiling", "failed", or "done"

cvars == <<source, cells, jumps, cstack, leaves, flow>>

\* forth.c: what ?DO and CASE leave for LOOP and ENDCASE to find.
CS_QDO  == 0 - 1
CS_CASE == 0 - 2

NoThread ==
  /\ source = <<>> /\ cells = 0 /\ jumps = <<>>
  /\ cstack = <<>> /\ leaves = <<>> /\ flow = "idle"

-----------------------------------------------------------------------------
(* What the source means.                                                  *)

Openers == {"IF", "BEGIN", "DO", "?DO", "CASE", "OF"}
Closers == {"THEN", "UNTIL", "AGAIN", "REPEAT", "LOOP", "ENDCASE", "ENDOF"}

\* The openers whose structure is open after each word, outermost first.
OpenAfter(s) ==
  LET o[i \in 0 .. Len(s)] ==
        IF i = 0 THEN <<>>
        ELSE IF s[i] \in Openers THEN Append(o[i - 1], i)
        ELSE IF s[i] \in Closers /\ o[i - 1] # <<>> THEN Front(o[i - 1])
        ELSE o[i - 1]
  IN  o

\* Whether w can be the next word of a well nested definition.
Fits(s, w) ==
  LET after == OpenAfter(s)
      open  == after[Len(s)]
      inner == IF open = <<>> THEN 0 ELSE Last(open)
      kind  == IF inner = 0 THEN "none" ELSE s[inner]
      Since(v) == \E p \in inner + 1 .. Len(s) : s[p] = v /\ after[p] = open
  IN  CASE w = "ELSE"               -> kind = "IF" /\ ~Since("ELSE")
        [] w = "THEN"               -> kind = "IF"
        [] w = "WHILE"              -> kind = "BEGIN" /\ ~Since("WHILE")
        [] w = "REPEAT"             -> kind = "BEGIN" /\ Since("WHILE")
        [] w \in {"UNTIL", "AGAIN"} -> kind = "BEGIN" /\ ~Since("WHILE")
        [] w = "LOOP"               -> kind \in {"DO", "?DO"}
        [] w = "LEAVE"              -> \E i \in DOMAIN open : s[open[i]] \in {"DO", "?DO"}
        [] w \in {"OF", "ENDCASE"}  -> kind = "CASE"
        [] w = "ENDOF"              -> kind = "OF"
        [] OTHER                    -> TRUE

WellNested(s) ==
  /\ \A i \in DOMAIN s : Fits(SubSeq(s, 1, i - 1), s[i])
  /\ OpenAfter(s)[Len(s)] = <<>>

\* Cells that a word compiles to.
Size(w) ==
  CASE w \in {"THEN", "BEGIN", "CASE"}  -> 0
    [] w \in {"X", "DO", "ENDCASE"}     -> 1
    [] w = "OF"                         -> 5
    [] OTHER                            -> 2

\* The cells before each word.
Before(s) ==
  LET b[i \in 1 .. Len(s) + 1] == IF i = 1 THEN 0 ELSE b[i - 1] + Size(s[i - 1])
  IN  b

\* In a well nested s: the opener of the innermost structure that is open before p; of the
\* innermost loop, for LEAVE.
OpenerOf(s, p) ==
  LET open == OpenAfter(s)[p - 1]
  IN  IF s[p] # "LEAVE" THEN Last(open)
      ELSE open[CHOOSE i \in DOMAIN open :
                  /\ s[open[i]] \in {"DO", "?DO"}
                  /\ \A j \in DOMAIN open : j > i => s[open[j]] \notin {"DO", "?DO"}]

\* The words of s that belong to the structure that p opens.
PartsOf(s, p) ==
  {q \in p + 1 .. Len(s) : s[q] \in Closers \cup {"ELSE"} /\ OpenerOf(s, q) = p}

\* Where each jump of a well nested s goes, by the position of its cell.
Meaning(s) ==
  LET b == Before(s)
      After(q)   == b[q] + Size(s[q])
      Part(p, v) == CHOOSE q \in PartsOf(s, p) : s[q] \in v
      EndOf(p)   == After(Part(p, Closers))
      Cell(p)    == b[p] + IF s[p] = "OF" THEN 3 ELSE 1
      Halved(p)  == \E q \in PartsOf(s, p) : s[q] = "ELSE"
      Goes(p)    ==
        CASE s[p] = "IF"                         -> After(Part(p, IF Halved(p) THEN {"ELSE"} ELSE Closers))
          [] s[p] \in {"OF", "?DO"}              -> EndOf(p)
          [] s[p] \in {"ELSE", "WHILE", "LEAVE"} -> EndOf(OpenerOf(s, p))
          [] s[p] = "ENDOF"                      -> EndOf(OpenerOf(s, OpenerOf(s, p)))
          [] OTHER                               -> After(OpenerOf(s, p))
      jumping == {p \in DOMAIN s : s[p] \in {"IF", "ELSE", "UNTIL", "AGAIN", "WHILE", "REPEAT",
                                             "?DO", "LOOP", "LEAVE", "OF", "ENDOF"}}
  IN  [c \in {Cell(p) : p \in jumping} |-> Goes(CHOOSE p \in jumping : Cell(p) = c)]

-----------------------------------------------------------------------------
(* The words, as what they make of a record of the compiler's variables.    *)

Unresolved == 0 - 3

Now == [cells |-> cells, jumps |-> jumps, cstack |-> cstack, leaves |-> leaves, failed |-> FALSE]

error(c) ==
  [cells |-> c.cells, jumps |-> c.jumps, cstack |-> <<>>, leaves |-> <<>>, failed |-> TRUE]

\* Mutant: one more than there are places for.
cpush_one_more(c, v) ==
  IF Len(c.cstack) > CSTACK_MAX THEN error(c) ELSE [c EXCEPT !.cstack = Append(@, v)]

cpush(c, v) == IF Len(c.cstack) >= CSTACK_MAX THEN error(c) ELSE [c EXCEPT !.cstack = Append(@, v)]

cpop(c) == IF c.cstack = <<>> THEN error(c) ELSE [c EXCEPT !.cstack = Front(@)]
Top(c)  == IF c.cstack = <<>> THEN 0 ELSE Last(c.cstack)

comma(c, n)  == [c EXCEPT !.cells = @ + n]

\* These cells are made to point there, whatever is there.
Point(c, slots, to) ==
  [c EXCEPT !.jumps = [x \in slots \cup DOMAIN c.jumps |-> IF x \in slots THEN to ELSE c.jumps[x]]]

Jump(c, to) == comma(Point(c, {c.cells + 1}, to), 2)  \* the token, and where to

\* A jump that is resolved later: its cell goes on the control stack.
Forward(c) == cpush(Jump(c, Unresolved), c.cells + 1)

Resolve(c, slot) == Point(c, {slot}, c.cells)

\* A loop opens: a 0 tells its LEAVEs from the ones of the loop it is in.
OpenLeaves(c) == IF Len(c.leaves) < LEAVES_MAX THEN [c EXCEPT !.leaves = Append(@, 0)] ELSE c

resolve_leaves(c) ==
  LET zeros == {i \in DOMAIN c.leaves : c.leaves[i] = 0}
      from  == IF zeros = {} THEN 0 ELSE CHOOSE i \in zeros : \A j \in zeros : j <= i
      mine  == {c.leaves[i] : i \in from + 1 .. Len(c.leaves)}
  IN  [Point(c, mine, c.cells) EXCEPT !.leaves = SubSeq(@, 1, from - 1)]

IF_(c)   == Forward(c)
\* Mutant: THEN's place is taken before the jump over the other half.
ELSE_early(c) ==
  LET slot == Top(c) popped == cpop(c)
  IN  IF popped.failed THEN popped ELSE Forward(Resolve(popped, slot))
ELSE_(c) ==
  LET slot == Top(c) popped == cpop(c)
  IN  IF popped.failed THEN popped ELSE Resolve(Forward(popped), slot)
THEN_(c) == IF c.cstack = <<>> THEN error(c) ELSE Resolve(cpop(c), Top(c))

BEGIN_(c) == cpush(c, c.cells)
\* UNTIL and AGAIN.
UNTIL_(c) == IF c.cstack = <<>> THEN error(c) ELSE Jump(cpop(c), Top(c))
REPEAT_(c) ==
  LET slot == Top(c) once == cpop(c) twice == cpop(once)
  IN  IF twice.failed \/ once.failed THEN error(c) ELSE Resolve(Jump(twice, Top(once)), slot)

DO_(c)  == OpenLeaves(cpush(comma(c, 1), c.cells + 1))
QDO_(c) == LET slot == Forward(c) IN OpenLeaves(cpush(cpush(slot, slot.cells), CS_QDO))
\* LOOP and +LOOP.
LOOP_(c) ==
  LET t == Top(c) once == cpop(c) twice == cpop(once) thrice == cpop(twice)
  IN  IF once.failed THEN once
      ELSE IF t = CS_QDO THEN resolve_leaves(Resolve(Jump(thrice, Top(once)), Top(twice)))
      ELSE resolve_leaves(Jump(once, t))
LEAVE_(c) ==
  IF c.leaves = <<>> \/ Len(c.leaves) >= LEAVES_MAX THEN error(c)
  ELSE [Jump(c, Unresolved) EXCEPT !.leaves = Append(@, c.cells + 1)]

CASE_(c)  == cpush(c, CS_CASE)
OF_(c)    == comma(Forward(comma(c, 2)), 1)
ENDOF_(c) ==
  LET slot == Top(c) popped == cpop(c)
      exit == Jump(popped, Unresolved)
  IN  IF popped.failed THEN popped ELSE cpush(Resolve(exit, slot), popped.cells + 1)

\* All that is above the innermost CASE, or an error when there is none.
ENDCASE_(c) ==
  LET marks == {i \in DOMAIN c.cstack : c.cstack[i] = CS_CASE}
      from  == CHOOSE i \in marks : \A j \in marks : j <= i
      exits == {c.cstack[i] : i \in from + 1 .. Len(c.cstack)}
      end   == comma(c, 1)
  IN  IF marks = {} THEN error(c)
      ELSE [Point(end, exits, end.cells) EXCEPT !.cstack = SubSeq(@, 1, from - 1)]

Compiled(w) ==
  CASE w = "X"                  -> comma(Now, 1)
    [] w \in {"IF", "WHILE"}    -> IF_(Now)
    [] w = "ELSE"               -> ELSE_(Now)
    [] w = "THEN"               -> THEN_(Now)
    [] w = "BEGIN"              -> BEGIN_(Now)
    [] w \in {"UNTIL", "AGAIN"} -> UNTIL_(Now)
    [] w = "REPEAT"             -> REPEAT_(Now)
    [] w = "DO"                 -> DO_(Now)
    [] w = "?DO"                -> QDO_(Now)
    [] w = "LOOP"               -> LOOP_(Now)
    [] w = "LEAVE"              -> LEAVE_(Now)
    [] w = "CASE"               -> CASE_(Now)
    [] w = "OF"                 -> OF_(Now)
    [] w = "ENDOF"              -> ENDOF_(Now)
    [] w = "ENDCASE"            -> ENDCASE_(Now)

\* Bound: how definitions are written.
Written(w) == Len(source) < MaxSource /\ (Nested => Fits(source, w))

Word(w) ==
  /\ Written(w)
  /\ source' = Append(source, w)
  /\ LET c == Compiled(w)
     IN  /\ cells' = c.cells /\ jumps' = c.jumps /\ cstack' = c.cstack /\ leaves' = c.leaves
         /\ flow' = IF c.failed THEN "failed" ELSE "compiling"

\* ; asks that nothing is left on the control stack.
Complete == cstack = <<>>

EndThread ==
  /\ flow' = IF Complete THEN "done" ELSE "failed"
  /\ cstack' = <<>> /\ leaves' = IF Complete THEN leaves ELSE <<>>
  /\ UNCHANGED <<source, cells, jumps>>

Thread(how) ==
  /\ source' = <<>> /\ cells' = 0 /\ jumps' = <<>>
  /\ cstack' = <<>> /\ leaves' = <<>> /\ flow' = how

\* There is no thread any more; what is on the two stacks of c stays there.
Dropped(c) ==
  /\ source' = <<>> /\ cells' = 0 /\ jumps' = <<>>
  /\ cstack' = c.cstack /\ leaves' = c.leaves /\ flow' = "idle"

-----------------------------------------------------------------------------
(* What an error in comma() or cpush() leaves: it empties the two stacks,   *)
(* and the word goes on with the cells and the pushes that are still to     *)
(* come.                                                                   *)

\* Whether w finds on the two stacks what it takes before it compiles anything.
Finds(w) ==
  CASE w \in {"ELSE", "UNTIL", "AGAIN", "LOOP", "ENDOF"} -> cstack # <<>>
    [] w = "REPEAT"                                      -> Len(cstack) > 1
    [] w = "LEAVE"                                       -> leaves # <<>>
    [] OTHER                                             -> TRUE

\* An address where the definition was.
Stale == 1

\* What w pushes that has no room for its k-th cell.
WithoutRoom(w, k) ==
  LET c == error(Now)
      pushes ==
        \/ w \in {"IF", "ELSE", "WHILE"} /\ k = 1
        \/ w = "OF" /\ k <= 3
        \/ w = "ENDOF"
  IN  CASE pushes                 -> cpush(c, Stale)
        [] w = "DO"               -> OpenLeaves(cpush(c, Stale))
        [] w = "?DO" /\ k = 1     -> OpenLeaves(cpush(cpush(cpush(c, Stale), Stale), CS_QDO))
        [] w = "?DO" /\ k = 2     -> OpenLeaves(cpush(cpush(c, Stale), CS_QDO))
        [] w = "LEAVE" /\ k = 1   -> IF LEAVES_MAX = 0 THEN c ELSE [c EXCEPT !.leaves = <<Stale>>]
        [] OTHER                  -> c

\* Whether w lays down more cells when its push has failed.
LaysOn(w) == w \in {"IF", "WHILE", "OF"} \/ (w = "?DO" /\ Len(cstack) = CSTACK_MAX)

\* The cells w may compile to: a number takes two.
Most(w) == IF w = "X" THEN 2 ELSE Size(w)

-----------------------------------------------------------------------------
(* Properties.                                                             *)

\* What the variables hold.
ThreadTypeOK ==
  /\ source \in Seq(Words) /\ cells \in Nat
  /\ flow \in {"idle", "compiling", "failed", "done"}
  /\ DOMAIN jumps \subseteq Int /\ \A c \in DOMAIN jumps : jumps[c] \in Int
  /\ cstack \in Seq(Int) /\ Len(cstack) <= CSTACK_MAX
  /\ leaves \in Seq(Nat) /\ Len(leaves) <= LEAVES_MAX

\* A well nested definition is not refused when it is complete, and compiles to what it means:
\* every jump goes where the structure it belongs to says, and there are no others.
CompilesAsMeant ==
  /\ flow = "done" /\ (Nested \/ WellNested(source)) => jumps = Meaning(source)
  /\ flow = "failed" => ~WellNested(source)

-----------------------------------------------------------------------------
(* What is said of the code and is not so (README, "What was found").      *)

\* The same: and nothing is left for a THEN or a LOOP outside a definition to take.
NothingWaits == flow = "idle" => cstack = <<>>

\* "LOOP without DO is a message rather than a corrupt thread" (README.md): whatever is
\* accepted is well nested.
AcceptedIsNested == flow = "done" => WellNested(source)

\* What is resolved is a cell of the thread, left for that.
StoresInThread == \A c \in DOMAIN jumps : c \in 0 .. cells - 1

\* In what is accepted every jump goes to somewhere in the thread.
JumpsInThread == flow = "done" => \A c \in DOMAIN jumps : jumps[c] \in 0 .. cells
=============================================================================
