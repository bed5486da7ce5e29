--------------------------- MODULE EvaluatorProofs ---------------------------
(***************************************************************************)
(* What was on the stacks when a line or a file began is still there, for  *)
(* stacks of any size and lines inside lines to any depth.  Then the fixed *)
(* point words a line may run: right on every cell of any width up to 32.  *)
(***************************************************************************)
EXTENDS Evaluator, FixedPoint, NumberLemmas, SequenceTheorems, TLAPS

DCells == 1 .. DSTACK_MAX
RCells == 1 .. RSTACK_MAX + SLACK
Tops   == 0 .. DSTACK_MAX
RTops  == 0 .. RSTACK_MAX + SLACK

VMs == [dstack : [DCells -> Levels], dsp : Tops, rstack : [RCells -> Levels], rsp : RTops,
        aborted : BOOLEAN, interrupted : BOOLEAN]

Frames == [d0 : Tops, r0 : RTops, fd : Tops, fr : RTops, kind : {"line", "file"}]

\* The floor of the k-th line, and of the program at the bottom.
D(k) == IF k = 0 THEN 0 ELSE frames[k].d0
R(k) == IF k = 0 THEN 0 ELSE frames[k].r0

\* What the variables hold; a level is no deeper than it may be.
Types ==
  /\ vm \in VMs /\ frames \in Seq(Frames) /\ Level \in Levels
  /\ dfloor \in Tops /\ rfloor \in RTops /\ nkept \in 0 .. KEPT_MAX
  /\ runs_on \in BOOLEAN /\ within \in BOOLEAN

\* The floors are those of the line there is, and each line has those of the one below.
FloorsRight ==
  /\ dfloor = D(Level) /\ rfloor = R(Level)
  /\ \A k \in 1 .. Level : frames[k].fd = D(k - 1) /\ frames[k].fr = R(k - 1)

\* Floors rise, and what is below each was there before its line.
FloorsRise ==
  \A k \in 1 .. Level : /\ \A j \in 0 .. k : D(j) <= D(k) /\ R(j) <= R(k)
                        /\ \A i \in 1 .. D(k) : vm.dstack[i] < k
                        /\ \A i \in 1 .. R(k) : vm.rstack[i] < k

\* The stacks are above the floors, and have nothing from a line that is to come.
StacksRight ==
  /\ dfloor <= vm.dsp /\ rfloor <= vm.rsp
  /\ \A i \in 1 .. vm.dsp : vm.dstack[i] <= Level
  /\ \A i \in 1 .. vm.rsp : vm.rstack[i] <= Level

EvaluatorInv == Types /\ FloorsRight /\ (within => FloorsRise /\ StacksRight)

\* What a word makes of the stacks: s is what they have become.
Above(s) ==
  /\ dfloor <= s.dsp /\ rfloor <= s.rsp
  /\ \A i \in 1 .. s.dsp : s.dstack[i] <= Level
  /\ \A i \in 1 .. s.rsp : s.rstack[i] <= Level
  /\ \A i \in 1 .. dfloor : s.dstack[i] = vm.dstack[i]
  /\ \A i \in 1 .. rfloor : s.rstack[i] = vm.rstack[i]

\* A step of a word that leaves s.
Kept(s) == s \in VMs /\ (within => Above(s))

-----------------------------------------------------------------------------
(* The stacks.                                                             *)

LEMMA Numbers ==
  /\ DSTACK_MAX \in Nat \ {0} /\ RSTACK_MAX \in Nat \ {0} /\ SLACK \in Nat
  /\ KEPT_MAX \in Nat /\ ROOM \in Nat /\ MaxLevel \in Nat
BY EvaluatorAssumption

\* The stacks that an error leaves, the floor has: there is nothing between.
LEMMA StackOps ==
  ASSUME EvaluatorInv, NEW s, Kept(s)
  PROVE  /\ Kept(error(s)) /\ Kept(push(s)) /\ Kept(pop(s)) /\ Kept(rpush(s)) /\ Kept(rpop(s))
         /\ Kept(broken(s))
<1>0. /\ s \in VMs /\ Level \in Levels /\ Level \in Nat /\ dfloor \in Tops /\ rfloor \in RTops
      /\ s.dsp \in Tops /\ s.rsp \in RTops /\ s.aborted \in BOOLEAN
      /\ s.dstack \in [DCells -> Levels] /\ s.rstack \in [RCells -> Levels]
  BY Numbers DEF EvaluatorInv, Types, Kept, VMs, Levels
<1>1. Kept(error(s))
  <2>1. error(s) \in VMs
    BY <1>0 DEF error, VMs
  <2>2. error(s).dstack = s.dstack /\ error(s).rstack = s.rstack
        /\ error(s).dsp = dfloor /\ error(s).rsp = rfloor
    BY <1>0 DEF error, VMs
  <2>3. ASSUME within PROVE Above(error(s))
    BY <1>0, <2>2, <2>3, Numbers DEF Kept, Above, Tops, RTops
  <2> QED
    BY <2>1, <2>3 DEF Kept
<1>2. Kept(push(s))
  <2>1. CASE s.dsp >= DSTACK_MAX
    BY <1>1, <2>1 DEF push
  <2>2. CASE ~(s.dsp >= DSTACK_MAX)
    <3>1. push(s) = [s EXCEPT !.dstack[s.dsp + 1] = Level, !.dsp = @ + 1]
      BY <2>2 DEF push
    <3>2. s.dsp + 1 \in Tops /\ s.dsp + 1 \in DCells
      BY <1>0, <2>2, Numbers DEF Tops, DCells
    <3>3. push(s) \in VMs
      <4>1. [s.dstack EXCEPT ![s.dsp + 1] = Level] \in [DCells -> Levels]
        BY <1>0
      <4>2. \A y \in Tops, g \in [DCells -> Levels] : [s EXCEPT !.dstack = g, !.dsp = y] \in VMs
        BY <1>0 DEF VMs
      <4>3. push(s) = [s EXCEPT !.dstack = [s.dstack EXCEPT ![s.dsp + 1] = Level], !.dsp = s.dsp + 1]
        BY <3>1
      <4> QED
        BY <3>2, <4>1, <4>2, <4>3
    <3>4. /\ push(s).dsp = s.dsp + 1 /\ push(s).rsp = s.rsp /\ push(s).rstack = s.rstack
          /\ push(s).dstack = [s.dstack EXCEPT ![s.dsp + 1] = Level]
      BY <1>0, <3>1 DEF VMs
    <3>5. ASSUME within PROVE Above(push(s))
      <4>1. Above(s)
        BY <3>5 DEF Kept
      <4>2. ASSUME NEW i \in 1 .. s.dsp + 1 PROVE push(s).dstack[i] <= Level
        <5>1. i \in DCells /\ (i = s.dsp + 1 \/ i \in 1 .. s.dsp)
          BY <1>0, <3>2, Numbers DEF Tops, DCells
        <5>2. push(s).dstack[i] = IF i = s.dsp + 1 THEN Level ELSE s.dstack[i]
          BY <1>0, <3>4, <5>1
        <5> QED
          BY <1>0, <4>1, <5>1, <5>2 DEF Above
      <4>3. \A i \in 1 .. dfloor : push(s).dstack[i] = vm.dstack[i]
        BY <1>0, <3>2, <3>4, <4>1, Numbers DEF Above, Tops, DCells
      <4> QED
        BY <1>0, <3>4, <4>1, <4>2, <4>3, Numbers DEF Above, Tops
    <3> QED
      BY <3>3, <3>5 DEF Kept
  <2> QED
    BY <2>1, <2>2
<1>3. Kept(pop(s))
  <2>1. CASE s.dsp <= dfloor
    BY <1>1, <2>1 DEF pop
  <2>2. CASE ~(s.dsp <= dfloor)
    <3>1. pop(s) = [s EXCEPT !.dsp = @ - 1]
      BY <2>2 DEF pop
    <3>2. s.dsp \in Int /\ s.dsp - 1 \in Tops /\ dfloor <= s.dsp - 1
      BY <1>0, <2>2, Numbers DEF Tops
    <3>3. pop(s) \in VMs
      <4>1. \A x \in Tops : [s EXCEPT !.dsp = x] \in VMs
        BY <1>0 DEF VMs
      <4> QED
        BY <3>1, <3>2, <4>1
    <3>4. /\ pop(s).dsp = s.dsp - 1 /\ pop(s).rsp = s.rsp /\ pop(s).rstack = s.rstack
          /\ pop(s).dstack = s.dstack
      BY <1>0, <3>1 DEF VMs
    <3>5. ASSUME within PROVE Above(pop(s))
      BY <1>0, <3>2, <3>4, <3>5, Numbers DEF Kept, Above, Tops
    <3> QED
      BY <3>3, <3>5 DEF Kept
  <2> QED
    BY <2>1, <2>2
<1>4. Kept(rpush(s))
  <2>1. CASE s.rsp >= RSTACK_MAX
    BY <1>1, <2>1 DEF rpush
  <2>2. CASE ~(s.rsp >= RSTACK_MAX)
    <3>1. rpush(s) = [s EXCEPT !.rstack[s.rsp + 1] = Level, !.rsp = @ + 1]
      BY <2>2 DEF rpush
    <3>2. s.rsp + 1 \in RTops /\ s.rsp + 1 \in RCells
      BY <1>0, <2>2, Numbers DEF RTops, RCells
    <3>3. rpush(s) \in VMs
      <4>1. [s.rstack EXCEPT ![s.rsp + 1] = Level] \in [RCells -> Levels]
        BY <1>0
      <4>2. \A y \in RTops, g \in [RCells -> Levels] : [s EXCEPT !.rstack = g, !.rsp = y] \in VMs
        BY <1>0 DEF VMs
      <4>3. rpush(s) = [s EXCEPT !.rstack = [s.rstack EXCEPT ![s.rsp + 1] = Level], !.rsp = s.rsp + 1]
        BY <3>1
      <4> QED
        BY <3>2, <4>1, <4>2, <4>3
    <3>4. /\ rpush(s).rsp = s.rsp + 1 /\ rpush(s).dsp = s.dsp /\ rpush(s).dstack = s.dstack
          /\ rpush(s).rstack = [s.rstack EXCEPT ![s.rsp + 1] = Level]
      BY <1>0, <3>1 DEF VMs
    <3>5. ASSUME within PROVE Above(rpush(s))
      <4>1. Above(s)
        BY <3>5 DEF Kept
      <4>2. ASSUME NEW i \in 1 .. s.rsp + 1 PROVE rpush(s).rstack[i] <= Level
        <5>1. i \in RCells /\ (i = s.rsp + 1 \/ i \in 1 .. s.rsp)
          BY <1>0, <3>2, Numbers DEF RTops, RCells
        <5>2. rpush(s).rstack[i] = IF i = s.rsp + 1 THEN Level ELSE s.rstack[i]
          BY <1>0, <3>4, <5>1
        <5> QED
          BY <1>0, <4>1, <5>1, <5>2 DEF Above
      <4>3. \A i \in 1 .. rfloor : rpush(s).rstack[i] = vm.rstack[i]
        BY <1>0, <3>2, <3>4, <4>1, Numbers DEF Above, RTops, RCells
      <4> QED
        BY <1>0, <3>4, <4>1, <4>2, <4>3, Numbers DEF Above, RTops
    <3> QED
      BY <3>3, <3>5 DEF Kept
  <2> QED
    BY <2>1, <2>2
<1>5. Kept(rpop(s))
  <2>1. CASE s.rsp <= rfloor
    BY <1>1, <2>1 DEF rpop
  <2>2. CASE ~(s.rsp <= rfloor)
    <3>1. rpop(s) = [s EXCEPT !.rsp = @ - 1]
      BY <2>2 DEF rpop
    <3>2. s.rsp \in Int /\ s.rsp - 1 \in RTops /\ rfloor <= s.rsp - 1
      BY <1>0, <2>2, Numbers DEF RTops
    <3>3. rpop(s) \in VMs
      <4>1. \A x \in RTops : [s EXCEPT !.rsp = x] \in VMs
        BY <1>0 DEF VMs
      <4> QED
        BY <3>1, <3>2, <4>1
    <3>4. /\ rpop(s).rsp = s.rsp - 1 /\ rpop(s).dsp = s.dsp /\ rpop(s).rstack = s.rstack
          /\ rpop(s).dstack = s.dstack
      BY <1>0, <3>1 DEF VMs
    <3>5. ASSUME within PROVE Above(rpop(s))
      BY <1>0, <3>2, <3>4, <3>5, Numbers DEF Kept, Above, RTops
    <3> QED
      BY <3>3, <3>5 DEF Kept
  <2> QED
    BY <2>1, <2>2
<1>6. Kept(broken(s))
  <2> DEFINE e == error(s)
  <2>1. e \in VMs /\ (within => Above(e))
    BY <1>1 DEF Kept
  <2> HIDE DEF e
  <2>2. LET t == [e EXCEPT !.interrupted = TRUE]
        IN  /\ t \in VMs /\ t.dsp = e.dsp /\ t.rsp = e.rsp
            /\ t.dstack = e.dstack /\ t.rstack = e.rstack
    BY <2>1 DEF VMs
  <2> QED
    BY <2>1, <2>2 DEF Kept, Above, broken, e
<1> QED
  BY <1>1, <1>2, <1>3, <1>4, <1>5, <1>6

LEMMA NothingYet == EvaluatorInv => Kept(vm)
BY DEF EvaluatorInv, Types, StacksRight, Kept, Above

\* Whatever a word takes and leaves.
LEMMA PrimKept ==
  ASSUME EvaluatorInv, NEW s, Kept(s), NEW n \in Few, NEW m \in Few
  PROVE  Kept(Prim(n, m, s)) /\ Kept(pops(n, s))
<1>1. Kept(pop(s)) /\ Kept(pop(pop(s)))
  BY StackOps
<1>2. Kept(pops(n, s))
  BY <1>1 DEF pops, Few
<1> DEFINE t == pops(n, s)
<1> HIDE DEF t
<1>3. Kept(t)
  BY <1>2 DEF t
<1>4. Kept(push(t)) /\ Kept(push(push(t)))
  BY <1>3, StackOps
<1>5. Kept(pushes(m, t))
  BY <1>3, <1>4 DEF pushes, Few
<1> QED
  BY <1>2, <1>5 DEF Prim, t

\* The floors are places on the stacks.
LEMMA FloorTypes ==
  EvaluatorInv => \A k \in 0 .. Level : D(k) \in Tops /\ R(k) \in RTops
<1> SUFFICES ASSUME EvaluatorInv, NEW k \in 0 .. Level
             PROVE  D(k) \in Tops /\ R(k) \in RTops
  OBVIOUS
<1>1. frames \in Seq(Frames) /\ Len(frames) \in Nat /\ k \in 0 .. Len(frames)
  BY DEF EvaluatorInv, Types, Level
<1>2. CASE k = 0
  BY <1>2, Numbers DEF D, R, Tops, RTops
<1>3. CASE k # 0
  <2>1. frames[k] \in Frames
    BY <1>1, <1>3
  <2> QED
    BY <1>3, <2>1 DEF D, R, Frames
<1> QED
  BY <1>2, <1>3

\* A word that keeps to its own leaves the invariant.
LEMMA WordKeeps ==
  ASSUME EvaluatorInv, Lines, vm' \in VMs, within' \in BOOLEAN, runs_on' \in BOOLEAN,
         within' => within /\ Above(vm')
  PROVE  EvaluatorInv'
<1>1. frames' = frames /\ dfloor' = dfloor /\ rfloor' = rfloor /\ nkept' = nkept
  BY DEF Lines
<1>2. \A k : D(k)' = D(k) /\ R(k)' = R(k)
  BY <1>1 DEF D, R
<1>3. Types' /\ FloorsRight'
  BY <1>1, <1>2 DEF EvaluatorInv, Types, FloorsRight, Level
<1>4. ASSUME within' PROVE FloorsRise' /\ StacksRight'
  <2>1. within /\ Above(vm') /\ FloorsRise
    BY <1>4 DEF EvaluatorInv
  <2>2. StacksRight'
    BY <1>1, <2>1 DEF StacksRight, Above, Level
  <2>3. ASSUME NEW k \in 1 .. Level
        PROVE  /\ \A i \in 1 .. D(k) : vm'.dstack[i] < k
               /\ \A i \in 1 .. R(k) : vm'.rstack[i] < k
    <3>1. Level \in Nat /\ Level \in 1 .. Level /\ k \in 0 .. Level
      BY Numbers DEF EvaluatorInv, Types, Levels
    <3>2. D(k) <= dfloor /\ R(k) <= rfloor
      BY <2>1, <3>1 DEF EvaluatorInv, FloorsRight, FloorsRise
    <3>3. D(k) \in Nat /\ R(k) \in Nat /\ dfloor \in Nat /\ rfloor \in Nat
      <4>1. D(k) \in Tops /\ R(k) \in RTops
        BY <3>1, FloorTypes
      <4>2. dfloor \in Tops /\ rfloor \in RTops
        BY DEF EvaluatorInv, Types
      <4> QED
        BY <4>1, <4>2, Numbers DEF Tops, RTops
    <3> QED
      BY <2>1, <3>2, <3>3 DEF FloorsRise, Above
  <2>4. FloorsRise'
    BY <1>1, <1>2, <2>1, <2>3 DEF FloorsRise, Level
  <2> QED
    BY <2>2, <2>4
<1> QED
  BY <1>3, <1>4 DEF EvaluatorInv

\* The pointer out of the register: whatever a helper did to it.
LEMMA PointerBack ==
  ASSUME EvaluatorInv, NEW s, Kept(s), s.dstack = vm.dstack
  PROVE  Kept([s EXCEPT !.dsp = vm.dsp])
<1> DEFINE t == [s EXCEPT !.dsp = vm.dsp]
<1>1. s \in VMs /\ vm \in VMs
  BY DEF Kept, EvaluatorInv, Types
<1>2. /\ t \in VMs /\ t.dsp = vm.dsp /\ t.dstack = vm.dstack
      /\ t.rstack = s.rstack /\ t.rsp = s.rsp
  BY <1>1 DEF VMs
<1> HIDE DEF t
<1>3. within => Above(t)
  BY <1>2 DEF Kept, Above, EvaluatorInv, StacksRight
<1> QED
  BY <1>2, <1>3 DEF Kept, t

\* The data stack is the same in these.
LEMMA ReturnOps ==
  ASSUME NEW s \in VMs
  PROVE  /\ error(s).dstack = s.dstack /\ rpush(s).dstack = s.dstack
         /\ rpop(s).dstack = s.dstack
         /\ broken(s).dstack = s.dstack /\ broken(s).rstack = s.rstack
BY DEF error, broken, rpush, rpop, VMs

\* What a word that is called finds.
LEMMA CalledKept ==
  ASSUME EvaluatorInv, NEW s \in Called
  PROVE  Kept(s) /\ s.dstack = vm.dstack /\ s.rstack = vm.rstack
<1>0. Kept(vm) /\ vm \in VMs
  BY NothingYet DEF EvaluatorInv, Types
<1>1. Kept(broken(vm)) /\ broken(vm).dstack = vm.dstack /\ broken(vm).rstack = vm.rstack
  BY <1>0, StackOps, ReturnOps
<1> DEFINE t == [broken(vm) EXCEPT !.dsp = vm.dsp]
<1>2. Kept(t)
  BY <1>1, PointerBack
<1>3. t.dstack = broken(vm).dstack /\ t.rstack = broken(vm).rstack
  BY <1>1 DEF Kept, VMs
<1>4. s \in {vm, broken(vm), t}
  BY DEF Called
<1> QED
  BY <1>0, <1>1, <1>2, <1>3, <1>4

-----------------------------------------------------------------------------
(* Interpreted words.                                                      *)

LEMMA InterpretedKeeps ==
  ASSUME EvaluatorInv,
         (\E n, m \in Few : Word(n, m)) \/ Exit \/ ToR \/ RFrom \/ Do \/ Loop \/ Fails
  PROVE  EvaluatorInv'
<1>0. Kept(vm)
  BY NothingYet
<1>1. Interprets
  BY DEF Word, Exit, ToR, RFrom, Do, Loop, Fails
<1>2. Kept(vm')
  <2>1. CASE \E n, m \in Few : Word(n, m)
    BY <1>0, <2>1, PrimKept DEF Word
  <2>2. CASE ToR
    BY <1>0, <2>2, StackOps DEF ToR
  <2>3. CASE RFrom
    BY <1>0, <2>3, StackOps DEF RFrom
  <2>4. CASE Do
    <3>1. Kept(pops(2, vm))
      BY <1>0, PrimKept DEF Few
    <3> QED
      BY <2>4, <3>1, StackOps DEF Do
  <2>5. CASE Loop
    <3>1. Kept(rpop(rpop(vm)))
      BY <1>0, StackOps
    <3> QED
      BY <2>5, <3>1, StackOps DEF Loop
  <2>6. CASE Fails
    BY <1>0, <2>6, StackOps DEF Fails
  <2>7. CASE Exit
    BY <1>0, <2>7, StackOps DEF Exit
  <2> QED
    BY <2>1, <2>2, <2>3, <2>4, <2>5, <2>6, <2>7
<1>3. Lines /\ runs_on' = FALSE /\ within' = within
  BY <1>1 DEF Interprets
<1> QED
  BY <1>2, <1>3, WordKeeps DEF Kept, EvaluatorInv, Types

LEMMA CallKeeps ==
  ASSUME EvaluatorInv, Call
  PROVE  EvaluatorInv'
<1>1. Kept(vm')
  BY CalledKept, StackOps DEF Call
<1>2. Lines /\ within' = within /\ runs_on' = vm'.aborted
  BY DEF Call
<1>3. vm' \in VMs /\ vm'.aborted \in BOOLEAN
  BY <1>1 DEF Kept, VMs
<1> QED
  BY <1>1, <1>2, <1>3, WordKeeps DEF Kept, EvaluatorInv, Types

-----------------------------------------------------------------------------
(* Compiled words.                                                         *)

LEMMA HelperKeeps ==
  ASSUME EvaluatorInv, (\E n, m \in Few : Helper(n, m)) \/ InlineDo \/ InlineLoop \/ Returns
  PROVE  EvaluatorInv'
<1>0. Kept(vm) /\ vm \in VMs
  BY NothingYet DEF EvaluatorInv, Types
<1>1. Lines /\ within' = within
  BY DEF Helper, InlineDo, InlineLoop, Returns, Goes, Lines
<1>2. Kept(vm')
  <2>1. CASE \E n, m \in Few : Helper(n, m)
    <3>1. PICK n \in Few, m \in Few, t \in Called : vm' = Prim(n, m, t)
      BY <2>1 DEF Helper
    <3> QED
      BY <3>1, CalledKept, PrimKept
  <2>2. CASE InlineDo
    <3>1. Kept(pops(2, vm))
      BY <1>0, PrimKept DEF Few
    <3> QED
      BY <2>2, <3>1, StackOps DEF InlineDo
  <2>3. CASE InlineLoop
    <3> DEFINE taken == rpop(rpop(vm))
    <3>1. Kept(rpop(vm)) /\ Kept(taken)
      BY <1>0, StackOps
    <3>2. taken.dstack = vm.dstack
      BY <1>0, <3>1, ReturnOps DEF Kept
    <3>3. \/ vm' = [rpush(rpush(taken)) EXCEPT !.dsp = vm.dsp]
          \/ vm' = [taken EXCEPT !.dsp = vm.dsp]
          \/ vm' = [broken(taken) EXCEPT !.dsp = vm.dsp]
      BY <2>3 DEF InlineLoop
    <3> HIDE DEF taken
    <3>4. Kept(rpush(taken)) /\ Kept(rpush(rpush(taken))) /\ Kept(broken(taken))
      BY <3>1, StackOps
    <3>5. rpush(rpush(taken)).dstack = vm.dstack /\ broken(taken).dstack = vm.dstack
      BY <3>1, <3>2, <3>4, ReturnOps DEF Kept
    <3> QED
      BY <3>1, <3>2, <3>3, <3>4, <3>5, PointerBack
  <2>4. CASE Returns
    BY <1>0, <2>4 DEF Returns, Kept, Above, Lines
  <2> QED
    BY <2>1, <2>2, <2>3, <2>4
<1>3. runs_on' \in BOOLEAN
  <2>1. vm'.aborted \in BOOLEAN
    BY <1>2 DEF Kept, VMs
  <2> QED
    BY <2>1 DEF Helper, InlineDo, InlineLoop, Returns
<1> QED
  BY <1>1, <1>2, <1>3, WordKeeps DEF Kept, EvaluatorInv, Types

\* A word in line that takes what is there writes above the floor.
LEMMA InlineKeeps ==
  ASSUME EvaluatorInv, NEW n \in Few, NEW m \in Few, Inline(n, m)
  PROVE  EvaluatorInv'
<1> DEFINE top == vm.dsp - n + m
           W == [i \in DCells |-> IF i \in vm.dsp - n + 1 .. top THEN Level ELSE vm.dstack[i]]
           after == [vm EXCEPT !.dstack = W, !.dsp = top]
<1>0. /\ vm \in VMs /\ vm.dsp \in Tops /\ vm.rsp \in RTops /\ Level \in Levels
      /\ vm.dstack \in [DCells -> Levels] /\ vm.rstack \in [RCells -> Levels]
      /\ dfloor \in Tops /\ rfloor \in RTops /\ n \in 0 .. 2 /\ m \in 0 .. 2
      /\ within \in BOOLEAN
  BY DEF EvaluatorInv, Types, VMs, Few
<1>1. Lines /\ within' = (within /\ vm.dsp - n >= dfloor /\ vm.rsp - 0 >= rfloor)
  BY DEF Inline, Goes, Takes
<1>2. \/ top \notin Tops /\ vm' = error(after) /\ runs_on' = FALSE
      \/ top \in Tops /\ vm' = after /\ runs_on' = runs_on
  <2>1. {i \in vm.dsp - n + 1 .. top : i >= 1 /\ i <= DSTACK_MAX} =
          {i \in DCells : i \in vm.dsp - n + 1 .. top}
    BY <1>0, Numbers DEF DCells, Tops
  <2>2. [vm EXCEPT !.dstack = [i \in 1 .. DSTACK_MAX |->
                                 IF i \in {j \in vm.dsp - n + 1 .. top : j >= 1 /\ j <= DSTACK_MAX}
                                 THEN Level ELSE @[i]],
                   !.dsp = top] = after
    BY <1>0, <2>1 DEF VMs, DCells
  <2>3. n = m => top \in Tops
    BY <1>0, Numbers DEF Tops
  <2> QED
    BY <2>2, <2>3 DEF Inline, Tops
<1>3. W \in [DCells -> Levels]
  BY <1>0
<1> HIDE DEF W
<1>4. \/ vm' = [vm EXCEPT !.dstack = W, !.dsp = dfloor, !.rsp = rfloor, !.aborted = TRUE]
      \/ top \in Tops /\ vm' = [vm EXCEPT !.dstack = W, !.dsp = top]
  BY <1>0, <1>2 DEF error, VMs
<1>5. /\ vm' \in VMs /\ vm'.dstack = W /\ vm'.rstack = vm.rstack
      /\ \/ vm'.dsp = dfloor /\ vm'.rsp = rfloor
         \/ vm'.dsp = top /\ vm'.rsp = vm.rsp /\ top \in Tops
  BY <1>0, <1>3, <1>4 DEF VMs
<1>6. ASSUME within' PROVE Above(vm')
  <2>1. within /\ vm.dsp - n >= dfloor /\ vm.rsp >= rfloor /\ StacksRight
    <3>1. within /\ vm.dsp - n >= dfloor /\ vm.rsp - 0 >= rfloor
      BY <1>1, <1>6, Zenon
    <3> QED
      BY <1>0, <3>1, Numbers DEF EvaluatorInv, RTops
  <2>2. dfloor <= vm'.dsp /\ rfloor <= vm'.rsp
    BY <1>0, <1>5, <2>1, Numbers DEF Tops, RTops
  <2>3. \A i \in 1 .. dfloor : vm'.dstack[i] = vm.dstack[i]
    BY <1>0, <1>5, <2>1, Numbers DEF W, Tops, DCells
  <2>4. ASSUME NEW i \in 1 .. top, i \in DCells PROVE W[i] <= Level
    <3>1. W[i] = IF i \in vm.dsp - n + 1 .. top THEN Level ELSE vm.dstack[i]
      BY <2>4 DEF W
    <3>2. CASE i \in vm.dsp - n + 1 .. top
      BY <1>0, <3>1, <3>2 DEF Levels
    <3>3. CASE i \notin vm.dsp - n + 1 .. top
      <4>1. i \in 1 .. vm.dsp
        BY <1>0, <3>3, Numbers DEF Tops
      <4> QED
        BY <2>1, <3>1, <3>3, <4>1 DEF StacksRight
    <3> QED
      BY <3>2, <3>3
  <2>5. ASSUME NEW i \in 1 .. vm'.dsp PROVE vm'.dstack[i] <= Level
    <3>1. CASE vm'.dsp = dfloor
      <4>1. i \in 1 .. dfloor /\ i \in 1 .. vm.dsp
        BY <1>0, <2>1, <3>1, Numbers DEF Tops, StacksRight
      <4> QED
        BY <2>1, <2>3, <4>1 DEF StacksRight
    <3>2. CASE vm'.dsp = top /\ top \in Tops
      <4>1. i \in 1 .. top /\ i \in DCells
        BY <3>2, Numbers DEF Tops, DCells
      <4> QED
        BY <1>5, <2>4, <4>1
    <3> QED
      BY <1>5, <3>1, <3>2
  <2>6. \A i \in 1 .. vm'.rsp : vm'.rstack[i] <= Level
    BY <1>0, <1>5, <2>1, Numbers DEF RTops, StacksRight
  <2> QED
    BY <1>5, <2>2, <2>3, <2>5, <2>6 DEF Above
<1>7. within' => within
  BY <1>1
<1>8. runs_on' \in BOOLEAN /\ within' \in BOOLEAN
  BY <1>0, <1>1, <1>2 DEF EvaluatorInv, Types
<1> QED
  BY <1>1, <1>5, <1>6, <1>7, <1>8, WordKeeps

\* >R and R>, in line.
LEMMA InlineReturnKeeps ==
  ASSUME EvaluatorInv, InlineToR \/ InlineRFrom
  PROVE  EvaluatorInv'
<1>0. /\ vm \in VMs /\ vm.dsp \in Tops /\ vm.rsp \in RTops /\ Level \in Levels
      /\ vm.dstack \in [DCells -> Levels] /\ vm.rstack \in [RCells -> Levels]
      /\ dfloor \in Tops /\ rfloor \in RTops /\ within \in BOOLEAN
  BY DEF EvaluatorInv, Types, VMs
<1>1. CASE InlineToR
  <2> DEFINE W == [vm.rstack EXCEPT ![vm.rsp + 1] = Level]
  <2>1. Lines /\ within' = (within /\ vm.dsp - 1 >= dfloor /\ vm.rsp - 0 >= rfloor)
        /\ vm.rsp < RSTACK_MAX + SLACK /\ runs_on' \in BOOLEAN
    BY <1>1 DEF InlineToR, Goes, Takes, EvaluatorInv, Types
  <2>2. vm.rsp + 1 \in RCells /\ vm.rsp + 1 \in RTops /\ W \in [RCells -> Levels]
    BY <1>0, <2>1, Numbers DEF RTops, RCells
  <2>3. CASE vm.dsp = 0
    <3>1. vm' = error([[vm EXCEPT !.rstack = W, !.rsp = vm.rsp + 1, !.dsp = vm.dsp - 1]
                         EXCEPT !.dsp = 0])
      BY <1>0, <1>1, <2>3 DEF InlineToR, VMs
    <3>2. vm' = [vm EXCEPT !.rstack = W, !.rsp = rfloor, !.dsp = dfloor, !.aborted = TRUE]
      BY <1>0, <3>1 DEF error, VMs
    <3>3. vm' \in VMs
      BY <1>0, <2>2, <3>2 DEF VMs
    <3>4. ~within'
      <4>1. ~(vm.dsp - 1 >= dfloor)
        BY <1>0, <2>3, Numbers DEF Tops
      <4> QED
        BY <2>1, <4>1, Zenon
    <3>5. within' \in BOOLEAN
      BY <2>1
    <3> QED
      BY <2>1, <3>3, <3>4, <3>5, WordKeeps
  <2>4. CASE vm.dsp # 0
    <3>1. vm' = [vm EXCEPT !.rstack = W, !.rsp = vm.rsp + 1, !.dsp = vm.dsp - 1]
      BY <1>0, <1>1, <2>4 DEF InlineToR, VMs
    <3>2. vm.dsp - 1 \in Tops /\ vm.dsp \in Int /\ vm.rsp \in Int
      BY <1>0, <2>4, Numbers DEF Tops, RTops
    <3> HIDE DEF W
    <3>3. \A x \in Tops, y \in RTops : [vm EXCEPT !.rstack = W, !.rsp = y, !.dsp = x] \in VMs
      BY <1>0, <2>2 DEF VMs
    <3>4. vm' \in VMs
      BY <2>2, <3>1, <3>2, <3>3
    <3>5. /\ vm'.dsp = vm.dsp - 1 /\ vm'.rsp = vm.rsp + 1 /\ vm'.rstack = W
          /\ vm'.dstack = vm.dstack
      BY <1>0, <3>1 DEF VMs
    <3>6. ASSUME within' PROVE within /\ Above(vm')
      <4>1. within /\ vm.dsp - 1 >= dfloor /\ vm.rsp - 0 >= rfloor
        BY <2>1, <3>6, Zenon
      <4>2. StacksRight
        BY <4>1 DEF EvaluatorInv
      <4>3. \A i \in RCells : W[i] = IF i = vm.rsp + 1 THEN Level ELSE vm.rstack[i]
        BY <1>0 DEF W
      <4>4. ASSUME NEW i \in 1 .. vm.rsp + 1 PROVE W[i] <= Level
        <5>1. i \in RCells /\ (i = vm.rsp + 1 \/ i \in 1 .. vm.rsp)
          BY <1>0, <2>2, <3>2, Numbers DEF RCells
        <5>2. CASE i = vm.rsp + 1
          BY <1>0, <4>3, <5>1, <5>2, Numbers DEF Levels
        <5>3. CASE i \in 1 .. vm.rsp /\ i # vm.rsp + 1
          BY <4>2, <4>3, <5>1, <5>3 DEF StacksRight
        <5> QED
          BY <5>1, <5>2, <5>3
      <4>5. \A i \in 1 .. rfloor : W[i] = vm.rstack[i]
        BY <1>0, <2>2, <4>1, <4>3, Numbers DEF RTops, RCells
      <4>6. \A i \in 1 .. vm.dsp - 1 : vm.dstack[i] <= Level
        BY <1>0, <4>2, Numbers DEF StacksRight, Tops
      <4>7. dfloor <= vm.dsp - 1 /\ rfloor <= vm.rsp + 1
        BY <1>0, <4>1, Numbers DEF Tops, RTops
      <4> QED
        BY <3>5, <4>1, <4>4, <4>5, <4>6, <4>7 DEF Above
    <3>7. within' \in BOOLEAN
      BY <2>1
    <3> QED
      BY <2>1, <3>4, <3>6, <3>7, WordKeeps
  <2> QED
    BY <2>3, <2>4
<1>2. CASE InlineRFrom
  <2> DEFINE W == [vm.dstack EXCEPT ![vm.dsp + 1] = Level]
  <2>1. Lines /\ within' = (within /\ vm.dsp - 0 >= dfloor /\ vm.rsp - 1 >= rfloor)
        /\ vm.rsp > 0 /\ runs_on' \in BOOLEAN
    BY <1>2 DEF InlineRFrom, Goes, Takes, EvaluatorInv, Types
  <2>2. vm.rsp - 1 \in RTops /\ vm.dsp \in Int /\ vm.rsp \in Int
    BY <1>0, <2>1, Numbers DEF RTops, Tops
  <2>3. within' \in BOOLEAN
    BY <2>1
  <2>4. ASSUME within'
        PROVE  /\ within /\ vm.dsp >= dfloor /\ vm.rsp - 1 >= rfloor /\ StacksRight
               /\ \A i \in 1 .. vm.rsp - 1 : vm.rstack[i] <= Level
    <3>1. within /\ vm.dsp - 0 >= dfloor /\ vm.rsp - 1 >= rfloor
      BY <2>1, <2>4, Zenon
    <3>2. StacksRight
      BY <3>1 DEF EvaluatorInv
    <3> QED
      BY <1>0, <2>2, <3>1, <3>2, Numbers DEF StacksRight, RTops, Tops
  <2>5. CASE vm.dsp = DSTACK_MAX
    <3>1. vm' = [vm EXCEPT !.rsp = rfloor, !.dsp = dfloor, !.aborted = TRUE]
      BY <1>0, <1>2, <2>5 DEF InlineRFrom, error, VMs
    <3>2. /\ vm' \in VMs /\ vm'.dsp = dfloor /\ vm'.rsp = rfloor
          /\ vm'.dstack = vm.dstack /\ vm'.rstack = vm.rstack
      BY <1>0, <3>1 DEF VMs
    <3>3. within' => within /\ Above(vm')
      BY <1>0, <2>2, <2>4, <3>2, Numbers DEF Above, StacksRight, Tops, RTops
    <3> QED
      BY <2>1, <2>3, <3>2, <3>3, WordKeeps
  <2>6. CASE vm.dsp # DSTACK_MAX
    <3>1. vm' = [vm EXCEPT !.rsp = vm.rsp - 1, !.dstack = W, !.dsp = vm.dsp + 1]
      BY <1>0, <1>2, <2>6 DEF InlineRFrom, VMs
    <3>2. vm.dsp + 1 \in Tops /\ vm.dsp + 1 \in DCells /\ W \in [DCells -> Levels]
      BY <1>0, <2>6, Numbers DEF Tops, DCells
    <3> HIDE DEF W
    <3>3. \A x \in Tops, y \in RTops : [vm EXCEPT !.rsp = y, !.dstack = W, !.dsp = x] \in VMs
      BY <1>0, <3>2 DEF VMs
    <3>4. vm' \in VMs
      BY <2>2, <3>1, <3>2, <3>3
    <3>5. /\ vm'.dsp = vm.dsp + 1 /\ vm'.rsp = vm.rsp - 1 /\ vm'.dstack = W
          /\ vm'.rstack = vm.rstack
      BY <1>0, <3>1 DEF VMs
    <3>6. ASSUME within' PROVE within /\ Above(vm')
      <4>1. \A i \in DCells : W[i] = IF i = vm.dsp + 1 THEN Level ELSE vm.dstack[i]
        BY <1>0 DEF W
      <4>2. ASSUME NEW i \in 1 .. vm.dsp + 1 PROVE W[i] <= Level
        <5>1. i \in DCells /\ (i = vm.dsp + 1 \/ i \in 1 .. vm.dsp)
          BY <1>0, <2>2, <3>2, Numbers DEF DCells
        <5>2. CASE i = vm.dsp + 1
          BY <1>0, <4>1, <5>1, <5>2, Numbers DEF Levels
        <5>3. CASE i \in 1 .. vm.dsp /\ i # vm.dsp + 1
          BY <2>4, <3>6, <4>1, <5>1, <5>3 DEF StacksRight
        <5> QED
          BY <5>1, <5>2, <5>3
      <4>3. \A i \in 1 .. dfloor : W[i] = vm.dstack[i]
        BY <1>0, <2>4, <3>2, <3>6, <4>1, Numbers DEF Tops, DCells
      <4>4. dfloor <= vm.dsp + 1
        BY <1>0, <2>4, <3>6, Numbers DEF Tops
      <4> QED
        BY <2>4, <3>5, <3>6, <4>2, <4>3, <4>4 DEF Above
    <3> QED
      BY <2>1, <2>3, <3>4, <3>6, WordKeeps
  <2> QED
    BY <2>5, <2>6
<1> QED
  BY <1>1, <1>2

-----------------------------------------------------------------------------
(* Lines and files.                                                        *)

\* What a line that begins has to put back.
FrameOf(s, kind) == [d0 |-> s.dsp, r0 |-> s.rsp, fd |-> dfloor, fr |-> rfloor, kind |-> kind]

\* The floors of the lines there are, when one more begins.
LEMMA OneMore ==
  ASSUME EvaluatorInv, NEW s \in VMs, NEW kind \in {"line", "file"}, Level < MaxLevel,
         frames' = Append(frames, FrameOf(s, kind))
  PROVE  /\ Level' = Level + 1 /\ Level' \in Levels /\ frames' \in Seq(Frames)
         /\ \A k \in 0 .. Level : D(k)' = D(k) /\ R(k)' = R(k)
         /\ D(Level)' = s.dsp /\ R(Level)' = s.rsp
         /\ \A k \in 1 .. Level : frames'[k] = frames[k]
         /\ frames'[Level + 1] = FrameOf(s, kind)
<1>1. /\ frames \in Seq(Frames) /\ Level \in Nat /\ s.dsp \in Tops /\ s.rsp \in RTops
      /\ dfloor \in Tops /\ rfloor \in RTops
  BY Numbers DEF EvaluatorInv, Types, VMs, Levels
<1>2. FrameOf(s, kind) \in Frames /\ FrameOf(s, kind).d0 = s.dsp /\ FrameOf(s, kind).r0 = s.rsp
  BY <1>1 DEF FrameOf, Frames
<1>3. /\ frames' \in Seq(Frames) /\ Len(frames') = Level + 1
      /\ \A k \in 1 .. Level : frames'[k] = frames[k]
      /\ frames'[Level + 1] = FrameOf(s, kind)
  BY <1>1, <1>2 DEF Level
<1>4. Level' = Level + 1 /\ Level' # 0 /\ Level' \in Levels
  BY <1>1, <1>3, Numbers DEF Level, Levels
<1>5. \A k \in 0 .. Level : D(k)' = D(k) /\ R(k)' = R(k)
  BY <1>1, <1>3 DEF D, R
<1>6. D(Level)' = s.dsp /\ R(Level)' = s.rsp
  BY <1>2, <1>3, <1>4 DEF D, R
<1> QED
  BY <1>3, <1>4, <1>5, <1>6

\* A line or a file begins, with or without what was kept.
LEMMA BeginKeeps ==
  ASSUME EvaluatorInv, EvalNested \/ Included
  PROVE  EvaluatorInv'
<1>a. PICK s \in Called, kind \in {"line", "file"} :
         /\ Begins(s, kind)
         /\ \/ /\ line_room(s)
               /\ \E inFile \in BOOLEAN :
                    vm' = [s EXCEPT !.dstack = [i \in DOMAIN @ |->
                                     IF i \in s.dsp + 1 .. s.dsp + nkept THEN Level + 1 ELSE @[i]],
                       !.dsp = @ + nkept,
                       !.aborted = FALSE, !.interrupted = @ /\ inFile]
            \/ vm' = [s EXCEPT !.aborted = FALSE]
  BY Zenon DEF EvalNested, Included
<1>b. s \in VMs /\ (within => Above(s)) /\ s.dstack = vm.dstack /\ s.rstack = vm.rstack
  BY CalledKept DEF Kept
<1>0. /\ s \in VMs /\ s.dsp \in Tops /\ s.rsp \in RTops /\ Level \in Levels /\ Level \in Nat
      /\ s.dstack \in [DCells -> Levels] /\ s.rstack \in [RCells -> Levels]
      /\ dfloor \in Tops /\ rfloor \in RTops /\ within \in BOOLEAN /\ nkept \in 0 .. KEPT_MAX
  BY <1>b, Numbers DEF EvaluatorInv, Types, VMs, Levels
<1>1. frames' = Append(frames, FrameOf(s, kind))
  BY <1>a DEF Begins, FrameOf
<1>2. /\ Level < MaxLevel /\ dfloor' = s.dsp /\ rfloor' = s.rsp /\ nkept' = nkept
      /\ runs_on' = FALSE /\ within' = within
  BY <1>a DEF Begins
<1>3. /\ Level' = Level + 1 /\ Level' \in Levels /\ frames' \in Seq(Frames)
      /\ \A k \in 0 .. Level : D(k)' = D(k) /\ R(k)' = R(k)
      /\ D(Level)' = s.dsp /\ R(Level)' = s.rsp
      /\ \A k \in 1 .. Level : frames'[k] = frames[k]
      /\ frames'[Level + 1] = FrameOf(s, kind)
  BY <1>b, <1>1, <1>2, OneMore
<1>4. /\ vm' \in VMs /\ s.dsp <= vm'.dsp /\ vm'.rsp = s.rsp /\ vm'.rstack = s.rstack
      /\ \A i \in 1 .. s.dsp : vm'.dstack[i] = s.dstack[i]
      /\ \A i \in s.dsp + 1 .. vm'.dsp : vm'.dstack[i] = Level + 1
  <2>1. ASSUME line_room(s), NEW inFile \in BOOLEAN,
               vm' = [s EXCEPT !.dstack = [i \in DOMAIN @ |->
                                     IF i \in s.dsp + 1 .. s.dsp + nkept THEN Level + 1 ELSE @[i]],
                       !.dsp = @ + nkept,
                       !.aborted = FALSE, !.interrupted = @ /\ inFile]
        PROVE  /\ vm' \in VMs /\ s.dsp <= vm'.dsp /\ vm'.rsp = s.rsp /\ vm'.rstack = s.rstack
               /\ \A i \in 1 .. s.dsp : vm'.dstack[i] = s.dstack[i]
               /\ \A i \in s.dsp + 1 .. vm'.dsp : vm'.dstack[i] = Level + 1
    <3> DEFINE W == [i \in DCells |-> IF i \in s.dsp + 1 .. s.dsp + nkept THEN Level + 1
                                      ELSE s.dstack[i]]
    <3>1. s.dsp + nkept \in Tops /\ s.dsp \in Nat /\ nkept \in Nat
      <4>1. s.dsp + nkept + ROOM < DSTACK_MAX
        BY <2>1 DEF line_room
      <4>2. s.dsp \in Nat /\ nkept \in Nat
        BY <1>0, Numbers DEF Tops
      <4> QED
        BY <4>1, <4>2, Numbers DEF Tops
    <3>2. Level + 1 \in Levels
      BY <1>3
    <3>3. W \in [DCells -> Levels]
      BY <1>0, <3>2
    <3>4. PICK was \in BOOLEAN :
            vm' = [s EXCEPT !.dstack = W, !.dsp = s.dsp + nkept,
                            !.aborted = FALSE, !.interrupted = was]
      <4>1. DOMAIN s.dstack = DCells
        BY <1>0
      <4>2. [i \in DOMAIN s.dstack |-> IF i \in s.dsp + 1 .. s.dsp + nkept THEN Level + 1
                                        ELSE s.dstack[i]] = W
        BY <4>1
      <4>3. (s.interrupted /\ inFile) \in BOOLEAN
        OBVIOUS
      <4>4. vm' = [s EXCEPT !.dstack = W, !.dsp = s.dsp + nkept,
                            !.aborted = FALSE, !.interrupted = s.interrupted /\ inFile]
        BY <1>b, <2>1, <4>2, Zenon DEF VMs
      <4> QED
        BY <4>3, <4>4, Zenon
    <3>5. \A i \in DCells : W[i] = IF i \in s.dsp + 1 .. s.dsp + nkept THEN Level + 1
                                   ELSE s.dstack[i]
      OBVIOUS
    <3> HIDE DEF W
    <3>6. /\ vm' \in VMs /\ vm'.dsp = s.dsp + nkept /\ vm'.rsp = s.rsp
          /\ vm'.rstack = s.rstack /\ vm'.dstack = W
      BY <1>0, <3>1, <3>3, <3>4 DEF VMs
    <3>7. /\ \A i \in 1 .. s.dsp : i \in DCells /\ i \notin s.dsp + 1 .. s.dsp + nkept
          /\ \A i \in s.dsp + 1 .. s.dsp + nkept : i \in DCells
      BY <1>0, <3>1, Numbers DEF Tops, DCells
    <3> QED
      BY <3>1, <3>5, <3>6, <3>7
  <2>2. CASE vm' = [s EXCEPT !.aborted = FALSE]
    <3>1. /\ vm' \in VMs /\ vm'.dsp = s.dsp /\ vm'.rsp = s.rsp
          /\ vm'.dstack = s.dstack /\ vm'.rstack = s.rstack
      BY <1>b, <2>2 DEF VMs
    <3> QED
      BY <1>0, <3>1 DEF Tops
  <2> QED
    BY <1>a, <2>1, <2>2, Zenon
<1>5. Types'
  BY <1>0, <1>2, <1>3, <1>4 DEF Types
<1>6. FloorsRight'
  <2>1. ASSUME NEW k \in 1 .. Level'
        PROVE  frames'[k].fd = D(k - 1)' /\ frames'[k].fr = R(k - 1)'
    <3>1. k \in Int /\ k - 1 \in 0 .. Level /\ (k = Level + 1 \/ k \in 1 .. Level)
      BY <1>0, <1>3
    <3>2. CASE k = Level + 1
      <4>1. frames'[k].fd = dfloor /\ frames'[k].fr = rfloor
        BY <1>3, <3>2 DEF FrameOf
      <4>2. k - 1 = Level
        BY <1>0, <3>2
      <4>3. dfloor = D(Level) /\ rfloor = R(Level)
        BY DEF EvaluatorInv, FloorsRight
      <4> QED
        BY <1>3, <3>1, <4>1, <4>2, <4>3
    <3>3. CASE k \in 1 .. Level
      BY <1>3, <3>1, <3>3 DEF EvaluatorInv, FloorsRight
    <3> QED
      BY <3>1, <3>2, <3>3
  <2>2. dfloor' = D(Level)' /\ rfloor' = R(Level)'
    BY <1>2, <1>3
  <2> QED
    BY <2>1, <2>2 DEF FloorsRight
<1>7. ASSUME within' PROVE FloorsRise' /\ StacksRight'
  <2>1. FloorsRise /\ StacksRight
    BY <1>2, <1>7 DEF EvaluatorInv
  <2>2. dfloor = D(Level) /\ rfloor = R(Level)
    BY DEF EvaluatorInv, FloorsRight
  <2>5. dfloor <= s.dsp /\ rfloor <= s.rsp
        /\ (\A i \in 1 .. s.dsp : s.dstack[i] <= Level)
        /\ (\A i \in 1 .. s.rsp : s.rstack[i] <= Level)
    BY <1>b, <1>2, <1>7 DEF Above
  <2>3. StacksRight'
    <3>1. ASSUME NEW i \in 1 .. vm'.dsp PROVE vm'.dstack[i] <= Level + 1
      <4>1. i \in 1 .. s.dsp \/ i \in s.dsp + 1 .. vm'.dsp
        BY <1>0, <1>4 DEF Tops, VMs
      <4>2. CASE i \in 1 .. s.dsp
        <5>1. i \in DCells /\ s.dstack[i] \in Nat
          BY <1>0, <4>2, Numbers DEF Tops, DCells, Levels
        <5> QED
          BY <1>0, <1>4, <2>5, <4>2, <5>1
      <4>3. CASE i \in s.dsp + 1 .. vm'.dsp
        BY <1>0, <1>4, <4>3
      <4> QED
        BY <4>1, <4>2, <4>3
    <3>2. ASSUME NEW i \in 1 .. vm'.rsp PROVE vm'.rstack[i] <= Level + 1
      <4>1. i \in RCells /\ s.rstack[i] \in Nat /\ i \in 1 .. s.rsp
        BY <1>0, <1>4, Numbers DEF RTops, RCells, Levels
      <4> QED
        BY <1>0, <1>4, <2>5, <4>1
    <3>3. dfloor' <= vm'.dsp /\ rfloor' <= vm'.rsp
      BY <1>0, <1>2, <1>4 DEF RTops
    <3> QED
      BY <1>3, <3>1, <3>2, <3>3 DEF StacksRight
  <2>4. FloorsRise'
    <3>0. \A k \in 0 .. Level : D(k) \in Nat /\ R(k) \in Nat
      BY FloorTypes DEF Tops, RTops
    <3>1. \A k \in 0 .. Level : D(k) <= dfloor /\ R(k) <= rfloor
      <4>1. CASE Level = 0
        BY <1>0, <2>2, <3>0, <4>1
      <4>2. CASE Level # 0
        <5>1. Level \in 1 .. Level
          BY <1>0, <4>2
        <5> QED
          BY <2>1, <2>2, <5>1 DEF FloorsRise
      <4> QED
        BY <4>1, <4>2
    <3>2. dfloor <= s.dsp /\ rfloor <= s.rsp
      BY <2>5
    <3>3. /\ dfloor \in Nat /\ rfloor \in Nat /\ s.dsp \in Nat /\ s.rsp \in Nat
      BY <1>0, Numbers DEF Tops, RTops
    <3>4. ASSUME NEW k \in 1 .. Level
          PROVE  /\ \A j \in 0 .. k : D(j)' <= D(k)' /\ R(j)' <= R(k)'
                 /\ \A i \in 1 .. D(k)' : vm'.dstack[i] < k
                 /\ \A i \in 1 .. R(k)' : vm'.rstack[i] < k
      <4>1. k \in 0 .. Level /\ \A j \in 0 .. k : j \in 0 .. Level
        BY <1>0
      <4>2. \A j \in 0 .. k : D(j)' <= D(k)' /\ R(j)' <= R(k)'
        BY <1>3, <2>1, <4>1 DEF FloorsRise
      <4>3. \A i \in 1 .. D(k) : i \in 1 .. s.dsp
        BY <3>0, <3>1, <3>2, <3>3, <4>1
      <4>4. \A i \in 1 .. D(k)' : vm'.dstack[i] < k
        BY <1>b, <1>3, <1>4, <2>1, <4>1, <4>3 DEF FloorsRise
      <4>5. \A i \in 1 .. R(k)' : vm'.rstack[i] < k
        BY <1>b, <1>3, <1>4, <2>1, <4>1 DEF FloorsRise
      <4> QED
        BY <4>2, <4>4, <4>5
    <3>5. ASSUME NEW k, k = Level + 1
          PROVE  /\ \A j \in 0 .. k : D(j)' <= D(k)' /\ R(j)' <= R(k)'
                 /\ \A i \in 1 .. D(k)' : vm'.dstack[i] < k
                 /\ \A i \in 1 .. R(k)' : vm'.rstack[i] < k
      <4>1. D(k)' = s.dsp /\ R(k)' = s.rsp
        BY <1>3, <3>5 DEF D, R, FrameOf
      <4>2. ASSUME NEW j \in 0 .. k
            PROVE  D(j)' <= D(k)' /\ R(j)' <= R(k)'
        <5>1. CASE j = k
          BY <3>3, <4>1, <5>1
        <5>2. CASE j # k
          <6>1. j \in 0 .. Level
            BY <1>0, <3>5, <5>2
          <6> QED
            <7>1. D(j)' = D(j) /\ R(j)' = R(j)
              BY <1>3, <6>1
            <7>2. D(j) \in Nat /\ R(j) \in Nat /\ D(j) <= dfloor /\ R(j) <= rfloor
              BY <3>0, <3>1, <6>1
            <7>3. D(j) <= s.dsp /\ R(j) <= s.rsp
              BY <3>2, <3>3, <7>2
            <7> QED
              BY <4>1, <7>1, <7>3
        <5> QED
          BY <5>1, <5>2
      <4>3. ASSUME NEW i \in 1 .. s.dsp PROVE vm'.dstack[i] < Level + 1
        <5>1. i \in DCells /\ s.dstack[i] \in Nat
          BY <1>0, Numbers DEF Tops, DCells, Levels
        <5> QED
          BY <1>0, <1>4, <2>5, <5>1
      <4>4. ASSUME NEW i \in 1 .. s.rsp PROVE vm'.rstack[i] < Level + 1
        <5>1. i \in RCells /\ s.rstack[i] \in Nat
          BY <1>0, Numbers DEF RTops, RCells, Levels
        <5> QED
          BY <1>0, <1>4, <2>5, <5>1
      <4> QED
        BY <3>5, <4>1, <4>2, <4>3, <4>4
    <3>6. \A k \in 1 .. Level + 1 : k \in 1 .. Level \/ k = Level + 1
      BY <1>0
    <3> QED
      BY <1>3, <3>4, <3>5, <3>6 DEF FloorsRise
  <2> QED
    BY <2>3, <2>4
<1>8. within' \in BOOLEAN
  BY <1>0, <1>2
<1> QED
  BY <1>5, <1>6, <1>7 DEF EvaluatorInv

\* A line or a file ends, however it went.
LEMMA EndKeeps ==
  ASSUME EvaluatorInv, LineEnds \/ FileEnds
  PROVE  EvaluatorInv'
<1>0. /\ vm \in VMs /\ vm.dsp \in Tops /\ Level \in Levels /\ Level \in Nat /\ frames \in Seq(Frames)
      /\ vm.dstack \in [DCells -> Levels] /\ vm.rstack \in [RCells -> Levels]
      /\ dfloor \in Tops /\ within \in BOOLEAN /\ nkept \in 0 .. KEPT_MAX /\ runs_on \in BOOLEAN
  BY Numbers DEF EvaluatorInv, Types, VMs, Levels
<1>1. frames # <<>> /\ PutBack(Last(frames))
  BY DEF LineEnds, FileEnds
<1>2. /\ Level \in 1 .. Level /\ Last(frames) = frames[Level] /\ frames[Level] \in Frames
      /\ Level - 1 \in Nat
  BY <1>0, <1>1 DEF Level, Last
<1>3. /\ frames' \in Seq(Frames) /\ Level' = Level - 1
      /\ \A k \in 1 .. Level - 1 : frames'[k] = frames[k]
  <2>1. frames' = SubSeq(frames, 1, Len(frames) - 1) /\ Len(frames) - 1 \in Nat
    BY <1>1, <1>2 DEF PutBack, Front, Level
  <2>2. /\ Len(SubSeq(frames, 1, Len(frames) - 1)) = Len(frames) - 1
        /\ \A k \in 1 .. Len(frames) - 1 : SubSeq(frames, 1, Len(frames) - 1)[k] = frames[k]
        /\ SubSeq(frames, 1, Len(frames) - 1) \in Seq(Frames)
    <3> DEFINE n == Len(frames) - 1
    <3>1. n \in Nat /\ 1 \in Int /\ n \in Int
      BY <2>1
    <3>2. \A i \in 1 .. n : frames[i] \in Frames
      BY <1>0
    <3> HIDE DEF n
    <3>3. /\ SubSeq(frames, 1, n) \in Seq(Frames)
          /\ Len(SubSeq(frames, 1, n)) = IF 1 <= n THEN n - 1 + 1 ELSE 0
          /\ \A i \in 1 .. n - 1 + 1 : SubSeq(frames, 1, n)[i] = frames[1 + i - 1]
      BY <3>1, <3>2, SubSeqProperties
    <3>4. Len(SubSeq(frames, 1, n)) = n
      BY <3>1, <3>3
    <3>5. \A i \in 1 .. n : SubSeq(frames, 1, n)[i] = frames[i]
      <4>1. \A i \in 1 .. n : i \in 1 .. n - 1 + 1 /\ 1 + i - 1 = i
        BY <3>1
      <4> QED
        BY <3>3, <4>1
    <3> QED
      BY <3>3, <3>4, <3>5 DEF n
  <2> QED
    BY <2>1, <2>2 DEF Level
<1>4. \A k \in 0 .. Level - 1 : D(k)' = D(k) /\ R(k)' = R(k)
  BY <1>2, <1>3 DEF D, R
<1>5. D(Level) = frames[Level].d0 /\ R(Level) = frames[Level].r0
  BY <1>2 DEF D, R
<1>6. /\ dfloor' = D(Level - 1) /\ rfloor' = R(Level - 1)
      /\ vm' = [vm EXCEPT !.dsp = D(Level), !.rsp = R(Level), !.aborted = FALSE,
                             !.interrupted = FALSE]
      /\ runs_on' = runs_on /\ within' = within
  BY <1>1, <1>2, <1>5 DEF PutBack, EvaluatorInv, FloorsRight
<1>7. /\ vm' \in VMs /\ vm'.dsp = D(Level) /\ vm'.rsp = R(Level)
      /\ vm'.dstack = vm.dstack /\ vm'.rstack = vm.rstack
  BY <1>0, <1>2, <1>5, <1>6 DEF VMs, Frames
<1>8. nkept' \in 0 .. KEPT_MAX
  <2>1. CASE LineEnds
    <3>1. vm.dsp \in Nat /\ dfloor \in Nat /\ KEPT_MAX \in Nat
      BY <1>0, Numbers DEF Tops
    <3> QED
      BY <2>1, <3>1 DEF LineEnds, Min2
  <2>2. CASE FileEnds
    BY <1>0, <2>2 DEF FileEnds
  <2> QED
    BY <2>1, <2>2
<1>9. \A k \in 0 .. Level : D(k) \in Tops /\ R(k) \in RTops
  BY FloorTypes
<1>10. Types'
  <2>1. Level' \in Levels
    BY <1>0, <1>2, <1>3, Numbers DEF Levels
  <2>2. dfloor' \in Tops /\ rfloor' \in RTops
    BY <1>0, <1>2, <1>6, <1>9
  <2> QED
    BY <1>0, <1>3, <1>6, <1>7, <1>8, <2>1, <2>2 DEF Types
<1>11. FloorsRight'
  <2>1. Level - 1 \in 0 .. Level - 1
    BY <1>2
  <2>2. dfloor' = D(Level)' /\ rfloor' = R(Level)'
    BY <1>3, <1>4, <1>6, <2>1
  <2>3. ASSUME NEW k \in 1 .. Level'
        PROVE  frames'[k].fd = D(k - 1)' /\ frames'[k].fr = R(k - 1)'
    <3>1. k \in 1 .. Level /\ k \in 1 .. Level - 1 /\ k - 1 \in 0 .. Level - 1
      BY <1>0, <1>3
    <3> QED
      BY <1>3, <1>4, <3>1 DEF EvaluatorInv, FloorsRight
  <2> QED
    BY <2>2, <2>3 DEF FloorsRight
<1>12. ASSUME within' PROVE FloorsRise' /\ StacksRight'
  <2>1. FloorsRise
    BY <1>6, <1>12 DEF EvaluatorInv
  <2>2. FloorsRise'
    <3>1. ASSUME NEW k \in 1 .. Level'
          PROVE  /\ \A j \in 0 .. k : D(j)' <= D(k)' /\ R(j)' <= R(k)'
                 /\ \A i \in 1 .. D(k)' : vm'.dstack[i] < k
                 /\ \A i \in 1 .. R(k)' : vm'.rstack[i] < k
      <4>1. /\ k \in 1 .. Level /\ k \in 0 .. Level - 1
            /\ \A j \in 0 .. k : j \in 0 .. Level - 1
        BY <1>0, <1>2, <1>3
      <4>2. /\ \A j \in 0 .. k : D(j) <= D(k) /\ R(j) <= R(k)
            /\ \A i \in 1 .. D(k) : vm.dstack[i] < k
            /\ \A i \in 1 .. R(k) : vm.rstack[i] < k
        BY <2>1, <4>1 DEF FloorsRise
      <4> QED
        BY <1>4, <1>7, <4>1, <4>2
    <3> QED
      BY <3>1 DEF FloorsRise
  <2>3. StacksRight'
    <3>1. /\ \A j \in 0 .. Level : D(j) <= D(Level) /\ R(j) <= R(Level)
          /\ \A i \in 1 .. D(Level) : vm.dstack[i] < Level
          /\ \A i \in 1 .. R(Level) : vm.rstack[i] < Level
      BY <1>2, <2>1 DEF FloorsRise
    <3>2. Level - 1 \in 0 .. Level /\ Level \in 0 .. Level
      BY <1>0, <1>2
    <3>3. dfloor' <= vm'.dsp /\ rfloor' <= vm'.rsp
      BY <1>6, <1>7, <3>1, <3>2
    <3>4. ASSUME NEW i \in 1 .. D(Level) PROVE vm.dstack[i] <= Level - 1
      <4>1. i \in DCells
        BY <1>9, <3>2, Numbers DEF Tops, DCells
      <4>2. vm.dstack[i] \in Int
        BY <1>0, <4>1 DEF Levels
      <4> QED
        BY <1>0, <3>1, <4>2
    <3>5. ASSUME NEW i \in 1 .. R(Level) PROVE vm.rstack[i] <= Level - 1
      <4>1. i \in RCells
        BY <1>9, <3>2, Numbers DEF RTops, RCells
      <4>2. vm.rstack[i] \in Int
        BY <1>0, <4>1 DEF Levels
      <4> QED
        BY <1>0, <3>1, <4>2
    <3> QED
      BY <1>3, <1>7, <3>3, <3>4, <3>5 DEF StacksRight
  <2> QED
    BY <2>2, <2>3
<1> QED
  BY <1>10, <1>11, <1>12 DEF EvaluatorInv

-----------------------------------------------------------------------------
(* The program.                                                            *)

LEMMA InitInv == Init => EvaluatorInv
<1> SUFFICES ASSUME Init PROVE EvaluatorInv
  OBVIOUS
<1>1. Level = 0 /\ Len(frames) = 0 /\ frames \in Seq(Frames) /\ 0 \in Levels
  BY Numbers DEF Init, Level, Levels
<1>2. /\ vm \in VMs /\ vm.dsp = 0 /\ vm.rsp = 0
  BY <1>1, Numbers DEF Init, VMs, DCells, RCells, Tops, RTops
<1>3. Types
  <2>1. dfloor = 0 /\ rfloor = 0 /\ nkept = 0 /\ runs_on = FALSE /\ within = TRUE
    BY DEF Init
  <2>2. 0 \in Tops /\ 0 \in RTops /\ 0 \in 0 .. KEPT_MAX
    BY Numbers DEF Tops, RTops
  <2> QED
    BY <1>1, <1>2, <2>1, <2>2, Zenon DEF Types
<1>4. FloorsRight /\ FloorsRise /\ StacksRight
  BY <1>1, <1>2 DEF Init, FloorsRight, FloorsRise, StacksRight, D, R
<1> QED
  BY <1>3, <1>4 DEF EvaluatorInv

LEMMA NextInv == EvaluatorInv /\ [Next]_evars => EvaluatorInv'
<1> SUFFICES ASSUME EvaluatorInv, [Next]_evars PROVE EvaluatorInv'
  OBVIOUS
<1>1. CASE (\E n, m \in Few : Word(n, m)) \/ Exit \/ ToR \/ RFrom \/ Do \/ Loop \/ Fails
  BY <1>1, InterpretedKeeps
<1>2. CASE (\E n, m \in Few : Helper(n, m)) \/ InlineDo \/ InlineLoop \/ Returns
  BY <1>2, HelperKeeps
<1>3. CASE \E n, m \in Few : Inline(n, m)
  BY <1>3, InlineKeeps
<1>4. CASE InlineToR \/ InlineRFrom
  BY <1>4, InlineReturnKeeps
<1>5. CASE EvalNested \/ Included
  BY <1>5, BeginKeeps
<1>6. CASE LineEnds \/ FileEnds
  BY <1>6, EndKeeps
<1>9. CASE Call
  BY <1>9, CallKeeps
<1>7. CASE NextLine \/ AppStarts
  <2>1. /\ vm' = [vm EXCEPT !.aborted = FALSE, !.interrupted = FALSE]
        /\ Lines /\ runs_on' = runs_on /\ within' = within
    BY <1>7 DEF NextLine, AppStarts, Lines
  <2>2. vm \in VMs
    BY DEF EvaluatorInv, Types
  <2>3. /\ vm' \in VMs /\ vm'.dsp = vm.dsp /\ vm'.rsp = vm.rsp
        /\ vm'.dstack = vm.dstack /\ vm'.rstack = vm.rstack
    BY <2>1, <2>2 DEF VMs
  <2>4. within => Above(vm')
    BY <2>3 DEF EvaluatorInv, StacksRight, Above
  <2> QED
    BY <2>1, <2>3, <2>4, WordKeeps DEF EvaluatorInv, Types
<1>8. CASE UNCHANGED evars
  <2>1. vm' = vm /\ Lines /\ runs_on' = runs_on /\ within' = within
    BY <1>8 DEF evars, Lines
  <2>2. vm \in VMs /\ (within => Above(vm'))
    BY <2>1 DEF EvaluatorInv, Types, StacksRight, Above
  <2> QED
    BY <2>1, <2>2, WordKeeps DEF EvaluatorInv, Types
<1> QED
  BY <1>1, <1>2, <1>3, <1>4, <1>5, <1>6, <1>7, <1>8, <1>9 DEF Next

\* What the variables hold, for stacks of any size: no word takes a stack pointer past
\* the memory the stacks have, the slack past the return stack's included.
THEOREM TypeCorrect == Spec => []TypeOK
<1>1. EvaluatorInv => TypeOK
  BY DEF EvaluatorInv, Types, TypeOK, VMs, Frames, DCells, RCells, Tops, RTops
<1> QED
  BY <1>1, InitInv, NextInv, PTL DEF Spec

\* The stacks a program has when it has a line evaluated or a file included are as it left
\* them when that has ended (forth_eval_nested, include_from_code), whatever the size of
\* the stacks and however deep lines are inside lines; the floors are the line's own
\* always, the cells below them as long as compiled words take no more than there is.
THEOREM WhatWasThereStays == Spec => []ProgramUntouched
<1>1. EvaluatorInv => ProgramUntouched
  <2> SUFFICES ASSUME EvaluatorInv PROVE ProgramUntouched
    OBVIOUS
  <2> DEFINE Floors(k) == IF k = 0 THEN <<0, 0>> ELSE <<frames[k].d0, frames[k].r0>>
  <2>1. \A k : Floors(k) = <<D(k), R(k)>>
    BY DEF D, R
  <2>2. DOMAIN frames = 1 .. Level
    BY DEF EvaluatorInv, Types, Level
  <2>3. <<dfloor, rfloor>> = Floors(Level)
    BY <2>1 DEF EvaluatorInv, FloorsRight
  <2>4. ASSUME NEW k \in 1 .. Level
        PROVE  /\ <<frames[k].fd, frames[k].fr>> = Floors(k - 1)
               /\ within => /\ \A i \in 1 .. frames[k].d0 : vm.dstack[i] < k
                            /\ \A i \in 1 .. frames[k].r0 : vm.rstack[i] < k
    <3>1. <<frames[k].fd, frames[k].fr>> = Floors(k - 1)
      BY <2>1 DEF EvaluatorInv, FloorsRight
    <3>2. D(k) = frames[k].d0 /\ R(k) = frames[k].r0
      BY DEF D, R
    <3> QED
      BY <3>1, <3>2 DEF EvaluatorInv, FloorsRise
  <2> QED
    BY <2>2, <2>3, <2>4 DEF ProgramUntouched
<1> QED
  BY <1>1, InitInv, NextInv, PTL DEF Spec

-----------------------------------------------------------------------------
(* Fixed point.  The loops of the divisions and of the root are functions   *)
(* of the round; what each round keeps is a predicate, and every round      *)
(* keeps it.                                                                *)

LEMMA Divided ==
  \A n \in Int : \A d \in Nat \ {0} :
    n \div d \in Int /\ n % d \in Nat /\ n % d < d /\ n = d * (n \div d) + (n % d)
<1> TAKE n \in Int
<1> TAKE d \in Nat \ {0}
<1>1. n \div d \in Int
  OBVIOUS
<1>2. n % d \in 0 .. d - 1
  OBVIOUS
<1>3. n = d * (n \div d) + (n % d)
  OBVIOUS
<1> QED
  BY <1>1, <1>2, <1>3

LEMMA TimesMore == \A d \in Nat : \A k \in Int : k >= 1 => d * k >= d
<1> TAKE d \in Nat
<1> TAKE k \in Int
<1> QED
  OBVIOUS

LEMMA TimesLess == \A d \in Nat, a \in Int, b \in Int : a <= b => d * a <= d * b
<1> TAKE d \in Nat, a \in Int, b \in Int
<1> HAVE a <= b
<1>1. d * (b - a) >= 0
  OBVIOUS
<1>2. d * (b - a) = d * b - d * a
  OBVIOUS
<1> QED
  BY <1>1, <1>2

LEMMA OneQuotient ==
  ASSUME NEW d \in Nat \ {0}, NEW q \in Int, NEW r \in Int, NEW p \in Int, NEW s \in Int,
         0 <= r, r < d, 0 <= s, s < d, d * q + r = d * p + s
  PROVE  q = p /\ r = s
<1>1. ~ (q >= p + 1)
  <2> SUFFICES ASSUME q >= p + 1 PROVE FALSE
    OBVIOUS
  <2>1. d * (p + 1) <= d * q
    BY TimesLess
  <2>2. d * (p + 1) = d * p + d
    OBVIOUS
  <2> QED
    BY <2>1, <2>2
<1>2. ~ (p >= q + 1)
  <2> SUFFICES ASSUME p >= q + 1 PROVE FALSE
    OBVIOUS
  <2>1. d * (q + 1) <= d * p
    BY TimesLess
  <2>2. d * (q + 1) = d * q + d
    OBVIOUS
  <2> QED
    BY <2>1, <2>2
<1>3. q = p
  BY <1>1, <1>2
<1> QED
  BY <1>3

LEMMA QuotientIs ==
  ASSUME NEW n \in Int, NEW d \in Nat \ {0}, NEW q \in Int, NEW r \in Int, 0 <= r, r < d, n = d * q + r
  PROVE  n \div d = q /\ n % d = r
<1> PICK p, s : p = n \div d /\ s = n % d
  OBVIOUS
<1>1. p \in Int /\ s \in Int /\ 0 <= s /\ s < d /\ n = d * p + s
  BY Divided
<1>2. p = q /\ s = r
  BY <1>1, OneQuotient
<1> QED
  BY <1>2

\* Two divisions are one.
LEMMA DivDiv ==
  ASSUME NEW n \in Int, NEW a \in Nat \ {0}, NEW b \in Nat \ {0}
  PROVE  (n \div a) \div b = n \div (a * b)
<1> PICK m, r, q, s : m = n \div a /\ r = n % a /\ q = m \div b /\ s = m % b
  OBVIOUS
<1>1. m \in Int /\ r \in Int /\ 0 <= r /\ r < a /\ n = a * m + r
  BY Divided
<1>2. q \in Int /\ s \in Int /\ 0 <= s /\ s < b /\ m = b * q + s
  <2>1. m \div b \in Int /\ m % b \in Nat /\ m % b < b /\ m = b * (m \div b) + (m % b)
    BY <1>1, Divided
  <2>2. \A x \in Nat : x \in Int /\ 0 <= x
    OBVIOUS
  <2> QED
    BY <2>1, <2>2
<1>3. n = (a * b) * q + (a * s + r)
  <2>1. n = a * (b * q + s) + r
    BY <1>1, <1>2
  <2>2. a * (b * q + s) = (a * b) * q + a * s
    BY <1>2
  <2> QED
    BY <1>1, <1>2, <2>1, <2>2
<1>4. a * s + r >= 0
  <2>1. a * 0 <= a * s
    BY <1>2, TimesLess
  <2>2. a * 0 = 0
    OBVIOUS
  <2> QED
    BY <1>1, <1>2, <2>1, <2>2
<1>5. a * s + r < a * b
  <2>1. a * s <= a * (b - 1)
    <3>1. s <= b - 1 /\ b - 1 \in Int /\ s \in Int /\ a \in Nat
      BY <1>2
    <3> QED
      BY <3>1, TimesLess
  <2>2. a * (b - 1) = a * b - a
    OBVIOUS
  <2> QED
    BY <1>1, <1>2, <2>1, <2>2
<1>6. a * b \in Nat \ {0}
  <2>1. a * 1 <= a * b
    BY TimesLess
  <2> QED
    BY <2>1
<1>7. a * s + r \in Int
  BY <1>1, <1>2
<1>8. n \div (a * b) = q
  <2> PICK d, t : d = a * b /\ t = a * s + r
    OBVIOUS
  <2>1. d \in Nat \ {0} /\ t \in Int /\ 0 <= t /\ t < d /\ n = d * q + t
    BY <1>3, <1>4, <1>5, <1>6, <1>7
  <2> QED
    BY <1>2, <2>1, QuotientIs, ZenonT(40)
<1> QED
  BY <1>8

\* The powers of two there are: what a power is is worked out only for numbers.
LEMMA Powers == 2^0 = 1 /\ \A i \in 0 .. 31 : 2^i \in Nat \ {0} /\ 2^(i + 1) = 2 * 2^i
<1>1. /\ 0 + 1 = 1 /\ 2^0 \in Nat \ {0} /\ 2^1 = 2 * 2^0
      /\ 1 + 1 = 2 /\ 2^1 \in Nat \ {0} /\ 2^2 = 2 * 2^1
      /\ 2 + 1 = 3 /\ 2^2 \in Nat \ {0} /\ 2^3 = 2 * 2^2
      /\ 3 + 1 = 4 /\ 2^3 \in Nat \ {0} /\ 2^4 = 2 * 2^3
      /\ 4 + 1 = 5 /\ 2^4 \in Nat \ {0} /\ 2^5 = 2 * 2^4
      /\ 5 + 1 = 6 /\ 2^5 \in Nat \ {0} /\ 2^6 = 2 * 2^5
      /\ 6 + 1 = 7 /\ 2^6 \in Nat \ {0} /\ 2^7 = 2 * 2^6
      /\ 7 + 1 = 8 /\ 2^7 \in Nat \ {0} /\ 2^8 = 2 * 2^7
  BY SMT
<1>2. /\ 8 + 1 = 9 /\ 2^8 \in Nat \ {0} /\ 2^9 = 2 * 2^8
      /\ 9 + 1 = 10 /\ 2^9 \in Nat \ {0} /\ 2^10 = 2 * 2^9
      /\ 10 + 1 = 11 /\ 2^10 \in Nat \ {0} /\ 2^11 = 2 * 2^10
      /\ 11 + 1 = 12 /\ 2^11 \in Nat \ {0} /\ 2^12 = 2 * 2^11
      /\ 12 + 1 = 13 /\ 2^12 \in Nat \ {0} /\ 2^13 = 2 * 2^12
      /\ 13 + 1 = 14 /\ 2^13 \in Nat \ {0} /\ 2^14 = 2 * 2^13
      /\ 14 + 1 = 15 /\ 2^14 \in Nat \ {0} /\ 2^15 = 2 * 2^14
      /\ 15 + 1 = 16 /\ 2^15 \in Nat \ {0} /\ 2^16 = 2 * 2^15
  BY SMT
<1>3. /\ 16 + 1 = 17 /\ 2^16 \in Nat \ {0} /\ 2^17 = 2 * 2^16
      /\ 17 + 1 = 18 /\ 2^17 \in Nat \ {0} /\ 2^18 = 2 * 2^17
      /\ 18 + 1 = 19 /\ 2^18 \in Nat \ {0} /\ 2^19 = 2 * 2^18
      /\ 19 + 1 = 20 /\ 2^19 \in Nat \ {0} /\ 2^20 = 2 * 2^19
      /\ 20 + 1 = 21 /\ 2^20 \in Nat \ {0} /\ 2^21 = 2 * 2^20
      /\ 21 + 1 = 22 /\ 2^21 \in Nat \ {0} /\ 2^22 = 2 * 2^21
      /\ 22 + 1 = 23 /\ 2^22 \in Nat \ {0} /\ 2^23 = 2 * 2^22
      /\ 23 + 1 = 24 /\ 2^23 \in Nat \ {0} /\ 2^24 = 2 * 2^23
  BY SMT
<1>4. /\ 24 + 1 = 25 /\ 2^24 \in Nat \ {0} /\ 2^25 = 2 * 2^24
      /\ 25 + 1 = 26 /\ 2^25 \in Nat \ {0} /\ 2^26 = 2 * 2^25
      /\ 26 + 1 = 27 /\ 2^26 \in Nat \ {0} /\ 2^27 = 2 * 2^26
      /\ 27 + 1 = 28 /\ 2^27 \in Nat \ {0} /\ 2^28 = 2 * 2^27
      /\ 28 + 1 = 29 /\ 2^28 \in Nat \ {0} /\ 2^29 = 2 * 2^28
      /\ 29 + 1 = 30 /\ 2^29 \in Nat \ {0} /\ 2^30 = 2 * 2^29
      /\ 30 + 1 = 31 /\ 2^30 \in Nat \ {0} /\ 2^31 = 2 * 2^30
      /\ 31 + 1 = 32 /\ 2^31 \in Nat \ {0} /\ 2^32 = 2 * 2^31
  BY SMT
<1>5. \A i \in 0 .. 7 : 2^i \in Nat \ {0} /\ 2^(i + 1) = 2 * 2^i
  <2> TAKE i \in 0 .. 7
  <2>1. i = 0 \/ i = 1 \/ i = 2 \/ i = 3 \/ i = 4 \/ i = 5 \/ i = 6 \/ i = 7
    OBVIOUS
  <2> QED
    BY <1>1, <2>1, Zenon
<1>6. \A i \in 8 .. 15 : 2^i \in Nat \ {0} /\ 2^(i + 1) = 2 * 2^i
  <2> TAKE i \in 8 .. 15
  <2>1. i = 8 \/ i = 9 \/ i = 10 \/ i = 11 \/ i = 12 \/ i = 13 \/ i = 14 \/ i = 15
    OBVIOUS
  <2> QED
    BY <1>2, <2>1, Zenon
<1>7. \A i \in 16 .. 23 : 2^i \in Nat \ {0} /\ 2^(i + 1) = 2 * 2^i
  <2> TAKE i \in 16 .. 23
  <2>1. i = 16 \/ i = 17 \/ i = 18 \/ i = 19 \/ i = 20 \/ i = 21 \/ i = 22 \/ i = 23
    OBVIOUS
  <2> QED
    BY <1>3, <2>1, Zenon
<1>8. \A i \in 24 .. 31 : 2^i \in Nat \ {0} /\ 2^(i + 1) = 2 * 2^i
  <2> TAKE i \in 24 .. 31
  <2>1. i = 24 \/ i = 25 \/ i = 26 \/ i = 27 \/ i = 28 \/ i = 29 \/ i = 30 \/ i = 31
    OBVIOUS
  <2> QED
    BY <1>4, <2>1, Zenon
<1>9. \A i \in 0 .. 31 : i \in 0 .. 7 \/ i \in 8 .. 15 \/ i \in 16 .. 23 \/ i \in 24 .. 31
  OBVIOUS
<1>10. 2^0 = 1
  OBVIOUS
<1> QED
  BY <1>5, <1>6, <1>7, <1>8, <1>9, <1>10

LEMMA PowerIs == \A i \in 0 .. 32 : 2^i \in Nat \ {0}
<1>1. 2^(31 + 1) = 2 * 2^31 /\ 2^31 \in Nat \ {0}
  BY Powers
<1>2. 31 + 1 = 32
  OBVIOUS
<1>3. 2^32 \in Nat \ {0}
  <2> PICK t \in Nat \ {0} : t = 2^31
    BY <1>1
  <2>1. 2 * t \in Nat \ {0}
    OBVIOUS
  <2> QED
    BY <1>1, <1>2, <2>1, Zenon
<1> TAKE i \in 0 .. 32
<1>4. i \in 0 .. 31 \/ i = 32
  OBVIOUS
<1> QED
  BY <1>3, <1>4, Powers, Zenon

LEMMA PowerAdds ==
  ASSUME NEW a \in Nat, NEW b \in Nat, a + b <= 32
  PROVE  2^(a + b) = 2^a * 2^b
<1> DEFINE G == {k \in 0 .. b : 2^(a + k) = 2^a * 2^k}
<1>1. 0 \in G
  <2> PICK t \in Nat : t = 2^a
    <3>1. a \in 0 .. 32
      OBVIOUS
    <3>2. 2^a \in Nat
      BY <3>1, PowerIs
    <3> QED
      BY <3>2
  <2>1. a + 0 = a /\ t * 1 = t /\ 0 \in 0 .. b
    OBVIOUS
  <2>2. 2^0 = 1
    BY Powers
  <2> QED
    BY <2>1, <2>2, Zenon
<1>2. ASSUME NEW k \in 1 .. b, k - 1 \in G PROVE k \in G
  <2>1. k - 1 \in 0 .. 31 /\ a + (k - 1) \in 0 .. 31 /\ (k - 1) + 1 = k /\ (a + (k - 1)) + 1 = a + k /\ k \in 0 .. b /\ a \in 0 .. 32
    OBVIOUS
  <2>2. 2^(a + (k - 1)) = 2^a * 2^(k - 1)
    BY <1>2
  <2>3. 2^((k - 1) + 1) = 2 * 2^(k - 1) /\ 2^((a + (k - 1)) + 1) = 2 * 2^(a + (k - 1)) /\ 2^(k - 1) \in Nat /\ 2^a \in Nat
    BY <2>1, Powers, PowerIs
  <2> PICK x, y, z : x = 2^a /\ y = 2^(k - 1) /\ z = 2^(a + (k - 1))
    OBVIOUS
  <2>4. x \in Nat /\ y \in Nat /\ z = x * y /\ 2^k = 2 * y /\ 2^(a + k) = 2 * z
    BY <2>1, <2>2, <2>3, Zenon
  <2>5. 2 * (x * y) = x * (2 * y)
    BY <2>4
  <2>6. 2^(a + k) = 2^a * 2^k
    BY <2>4, <2>5, Zenon
  <2> QED
    BY <2>1, <2>6
<1> HIDE DEF G
<1>3. \A k \in 0 .. b : k \in G
  BY <1>1, <1>2, UpTo
<1>4. b \in G
  BY <1>3
<1> QED
  BY <1>4 DEF G

\* One, as a fixed point number; a step of the division; how many cells there are; and halves.
One == 2^HALF
Part == 2^STEP
Cells == 2^BITS
HalfOne == 2^(HALF - 1)
HalfOnePart == 2^(HALF + STEP - 1)

LEMMA Widths ==
  /\ HALF \in Nat /\ STEP \in Nat /\ BITS \in Nat
  /\ HALF >= 2 /\ STEP >= 1 /\ BITS = 2 * HALF /\ HALF = 2 * STEP /\ BITS <= 32
<1>1. HALF \in 2 .. 16 /\ HALF % 2 = 0
  BY FixedPointAssumption
<1>2. HALF = 2 * (HALF \div 2)
  BY <1>1
<1> QED
  BY <1>1, <1>2 DEF STEP, BITS

LEMMA Sizes ==
  /\ One \in Nat \ {0} /\ Part \in Nat \ {0} /\ Cells \in Nat \ {0} /\ HalfOne \in Nat \ {0} /\ HalfOnePart \in Nat \ {0} /\ 2^(BITS - 1) \in Nat \ {0}
  /\ Cells = One * One /\ One = Part * Part /\ One = 2 * HalfOne /\ One * Part = 2 * HalfOnePart /\ Cells = 2 * 2^(BITS - 1)
<1>1. /\ HALF \in 0 .. 32 /\ STEP \in 0 .. 32 /\ BITS \in 0 .. 32 /\ HALF - 1 \in 0 .. 31 /\ HALF + STEP - 1 \in 0 .. 31
      /\ BITS - 1 \in 0 .. 31
  BY Widths
<1>2. /\ HALF + HALF = BITS /\ STEP + STEP = HALF /\ (HALF - 1) + 1 = HALF /\ (HALF + STEP - 1) + 1 = HALF + STEP
      /\ (BITS - 1) + 1 = BITS
  BY Widths
<1>3. HALF + HALF <= 32 /\ STEP + STEP <= 32 /\ HALF + STEP <= 32
  BY Widths
<1>4. One \in Nat \ {0} /\ Part \in Nat \ {0} /\ Cells \in Nat \ {0}
  BY <1>1, PowerIs DEF One, Part, Cells
<1>5. HalfOne \in Nat \ {0} /\ HalfOnePart \in Nat \ {0} /\ 2^(BITS - 1) \in Nat \ {0}
  BY <1>1, Powers DEF HalfOne, HalfOnePart
<1>6. Cells = One * One
  <2>1. 2^(HALF + HALF) = 2^HALF * 2^HALF
    BY <1>3, Widths, PowerAdds
  <2> QED
    BY <1>2, <2>1, Zenon DEF One, Cells
<1>7. One = Part * Part
  <2>1. 2^(STEP + STEP) = 2^STEP * 2^STEP
    BY <1>3, Widths, PowerAdds
  <2> QED
    BY <1>2, <2>1, Zenon DEF One, Part
<1>8. One * Part = 2^(HALF + STEP)
  <2>1. 2^(HALF + STEP) = 2^HALF * 2^STEP
    BY <1>3, Widths, PowerAdds
  <2> QED
    BY <2>1, Zenon DEF One, Part
<1>9. One = 2 * HalfOne
  <2>1. 2^((HALF - 1) + 1) = 2 * 2^(HALF - 1)
    BY <1>1, Powers
  <2> QED
    BY <1>2, <2>1, Zenon DEF One, HalfOne
<1>10. One * Part = 2 * HalfOnePart
  <2>1. 2^((HALF + STEP - 1) + 1) = 2 * 2^(HALF + STEP - 1)
    BY <1>1, Powers
  <2> QED
    BY <1>2, <1>8, <2>1, Zenon DEF HalfOnePart
<1>11. Cells = 2 * 2^(BITS - 1)
  <2>1. 2^((BITS - 1) + 1) = 2 * 2^(BITS - 1)
    BY <1>1, Powers
  <2> QED
    BY <1>2, <2>1, Zenon DEF Cells
<1> QED
  BY <1>4, <1>5, <1>6, <1>7, <1>9, <1>10, <1>11, Zenon

\* The long division, round by round.
Rounds(n, d) ==
  LET Rs[i \in 0 .. BITS] ==
        IF i = BITS THEN [rem |-> n \div 2^BITS, q |-> 0]
        ELSE LET r == 2 * Rs[i + 1].rem + Bit(n, i)
             IN IF r >= d THEN [rem |-> r - d, q |-> Rs[i + 1].q + 2^i]
                ELSE [rem |-> r, q |-> Rs[i + 1].q]
  IN  Rs

Round(n, d, i, x) ==
  LET r == 2 * x.rem + Bit(n, i)
  IN IF r >= d THEN [rem |-> r - d, q |-> x.q + 2^i] ELSE [rem |-> r, q |-> x.q]

Pairs == [rem : Int, q : Int]

LEMMA BitIs == \A n \in Int : \A i \in 0 .. 32 : Bit(n, i) \in {0, 1} /\ n \div 2^i \in Int /\ Bit(n, i) = (n \div 2^i) % 2
<1> TAKE n \in Int
<1> TAKE i \in 0 .. 32
<1> PICK p \in Nat \ {0} : p = 2^i
  BY PowerIs
<1>1. n \div p \in Int
  BY Divided
<1>2. (n \div p) % 2 \in {0, 1}
  BY <1>1
<1> QED
  BY <1>1, <1>2, Zenon DEF Bit

LEMMA RoundIn ==
  ASSUME NEW n \in Int, NEW d \in Nat, NEW i \in 0 .. 32, NEW x \in Pairs
  PROVE  Round(n, d, i, x) \in Pairs
<1>1. Bit(n, i) \in Int /\ 2^i \in Int
  <2>1. Bit(n, i) \in {0, 1} /\ 2^i \in Nat \ {0}
    BY BitIs, PowerIs
  <2> QED
    BY <2>1
<1>2. x.rem \in Int /\ x.q \in Int
  BY DEF Pairs
<1>3. Round(n, d, i, x) = IF 2 * x.rem + Bit(n, i) >= d
                         THEN [rem |-> (2 * x.rem + Bit(n, i)) - d, q |-> x.q + 2^i]
                         ELSE [rem |-> 2 * x.rem + Bit(n, i), q |-> x.q]
  BY DEF Round
<1>4. 2 * x.rem + Bit(n, i) \in Int /\ (2 * x.rem + Bit(n, i)) - d \in Int /\ x.q + 2^i \in Int
  BY <1>1, <1>2
<1> QED
  BY <1>2, <1>3, <1>4 DEF Pairs

LEMMA RoundsTurn ==
  ASSUME NEW n \in Int, NEW d \in Nat
  PROVE  /\ Rounds(n, d)[BITS] = [rem |-> n \div Cells, q |-> 0]
         /\ \A i \in 0 .. BITS - 1 : Rounds(n, d)[i] = Round(n, d, i, Rounds(n, d)[i + 1])
<1> DEFINE base == [rem |-> n \div Cells, q |-> 0]
           step == [k \in 1 .. BITS |-> [x \in Pairs |-> Round(n, d, BITS - k, x)]]
           Is(o) == o = [i \in 0 .. BITS |->
                          IF i = BITS THEN [rem |-> n \div 2^BITS, q |-> 0]
                          ELSE LET r == 2 * o[i + 1].rem + Bit(n, i)
                               IN IF r >= d THEN [rem |-> r - d, q |-> o[i + 1].q + 2^i]
                                  ELSE [rem |-> r, q |-> o[i + 1].q]]
           c == CHOOSE o : Is(o)
<1>1. BITS \in Nat /\ BITS <= 32 /\ base \in Pairs
  <2>1. n \div Cells \in Int
    BY Sizes, Divided
  <2> QED
    BY <2>1, Widths DEF Pairs
<1>2. ASSUME NEW k \in 1 .. BITS, NEW x \in Pairs
      PROVE  Round(n, d, BITS - k, x) \in Pairs /\ step[k][x] = Round(n, d, BITS - k, x)
  <2>1. BITS - k \in 0 .. 32
    BY <1>1
  <2>2. Round(n, d, BITS - k, x) \in Pairs
    BY <2>1, RoundIn
  <2> QED
    BY <2>2
<1>3. \A k \in 1 .. BITS : \A x \in Pairs : step[k][x] \in Pairs
  BY <1>2
<1> HIDE DEF step, base
<1>4. PICK P \in [0 .. BITS -> Pairs] : LoopOf(P, BITS, base, step)
  BY <1>1, <1>3, LoopExists
<1> DEFINE o == [i \in 0 .. BITS |-> P[BITS - i]]
<1>5. ASSUME NEW i \in 0 .. BITS PROVE o[i] = IF i = BITS THEN base ELSE Round(n, d, i, o[i + 1])
  <2>1. CASE i = BITS
    <3>1. BITS - i = 0 /\ o[i] = P[BITS - i]
      BY <1>1, <2>1
    <3> QED
      BY <1>4, <2>1, <3>1 DEF LoopOf
  <2>2. CASE i # BITS
    <3>1. /\ BITS - i \in 1 .. BITS /\ BITS - (BITS - i) = i /\ (BITS - i) - 1 = BITS - (i + 1) /\ i + 1 \in 0 .. BITS
          /\ (BITS - i) - 1 \in 0 .. BITS
      BY <1>1, <2>2
    <3>2. P[BITS - i] = step[BITS - i][P[(BITS - i) - 1]] /\ P[(BITS - i) - 1] \in Pairs
      BY <1>4, <3>1 DEF LoopOf
    <3>3. o[i] = P[BITS - i] /\ o[i + 1] = P[(BITS - i) - 1]
      BY <3>1
    <3>4. step[BITS - i][P[(BITS - i) - 1]] = Round(n, d, BITS - (BITS - i), P[(BITS - i) - 1])
      BY <1>2, <3>1, <3>2
    <3> QED
      BY <2>2, <3>1, <3>2, <3>3, <3>4, Zenon
  <2> QED
    BY <2>1, <2>2
<1>6. o = [i \in 0 .. BITS |-> o[i]]
  OBVIOUS
<1> HIDE DEF o
<1>7. Is(o)
  <2>1. \A i \in 0 .. BITS : o[i] = IF i = BITS THEN [rem |-> n \div 2^BITS, q |-> 0]
                          ELSE LET r == 2 * o[i + 1].rem + Bit(n, i)
                               IN IF r >= d THEN [rem |-> r - d, q |-> o[i + 1].q + 2^i]
                                  ELSE [rem |-> r, q |-> o[i + 1].q]
    BY <1>5, Zenon DEF base, Cells, Round
  <2> QED
    BY <1>6, <2>1, Zenon
<1> HIDE DEF Is
<1>8. Is(c)
  BY <1>7
<1>9. c = Rounds(n, d)
  BY Zenon DEF Rounds, Is
<1> HIDE DEF c
<1>10. \A i \in 0 .. BITS : c[i] = IF i = BITS THEN base ELSE Round(n, d, i, c[i + 1])
  BY <1>8, Zenon DEF Is, base, Cells, Round
<1>11. c[BITS] = base
  BY <1>1, <1>10
<1>12. ASSUME NEW i \in 0 .. BITS - 1 PROVE c[i] = Round(n, d, i, c[i + 1])
  <2>1. i \in 0 .. BITS /\ i # BITS
    BY <1>1
  <2> QED
    BY <1>10, <2>1
<1> QED
  BY <1>9, <1>11, <1>12 DEF base

\* A number down to a bit is what it was down to the one before, and that bit.
LEMMA NextBit ==
  ASSUME NEW n \in Int, NEW i \in 0 .. 31
  PROVE  n \div 2^i = 2 * (n \div 2^(i + 1)) + Bit(n, i)
<1> PICK p, h : p = 2^i /\ h = n \div p
  OBVIOUS
<1>1. p \in Nat \ {0} /\ 2^(i + 1) = 2 * p
  BY Powers
<1>2. h \in Int
  BY <1>1, Divided
<1>3. h = 2 * (h \div 2) + (h % 2)
  BY <1>2
<1>4. h \div 2 = n \div (p * 2)
  BY <1>1, DivDiv
<1>5. p * 2 = 2 * p
  BY <1>1
<1>6. h % 2 = Bit(n, i)
  BY Zenon DEF Bit
<1>7. n \div 2^(i + 1) = h \div 2
  BY <1>1, <1>4, <1>5, Zenon
<1> QED
  BY <1>3, <1>6, <1>7, Zenon

\* After each round: what has been brought down is the quotient so far by the divisor, and the rest.
Rounded(n, d, i, x, w) ==
  /\ w \in Nat /\ x.rem \in Nat /\ x.rem < d /\ x.q = w * 2^i
  /\ n \div 2^i = d * w + x.rem

LEMMA RoundRight ==
  ASSUME NEW n \in Int, NEW d \in Nat \ {0}, NEW i \in 0 .. 31, NEW x \in Pairs, NEW w, Rounded(n, d, i + 1, x, w)
  PROVE  \E u : Rounded(n, d, i, Round(n, d, i, x), u)
<1> PICK rem, q, b, p, h : rem = x.rem /\ q = x.q /\ b = Bit(n, i) /\ p = 2^i /\ h = n \div 2^(i + 1)
  OBVIOUS
<1>1. w \in Nat /\ rem \in Nat /\ rem < d /\ h = d * w + rem
  BY DEF Rounded
<1>2. b \in {0, 1} /\ p \in Nat \ {0} /\ n \div 2^i = 2 * h + b
  <2>1. i \in 0 .. 32
    OBVIOUS
  <2>2. Bit(n, i) \in {0, 1} /\ 2^i \in Nat \ {0}
    BY <2>1, BitIs, Powers
  <2>3. n \div 2^i = 2 * (n \div 2^(i + 1)) + Bit(n, i)
    BY NextBit
  <2> QED
    BY <2>2, <2>3
<1>3. q = w * (2 * p)
  <2>1. 2^(i + 1) = 2 * p
    BY Powers
  <2> QED
    BY <2>1, Zenon DEF Rounded
<1>4. 2 * h + b = d * (2 * w) + (2 * rem + b)
  <2>1. 2 * (d * w) = d * (2 * w)
    BY <1>1
  <2> QED
    BY <1>1, <1>2, <2>1
<1>5. q = (2 * w) * p
  BY <1>1, <1>2, <1>3
<1>6. Round(n, d, i, x) = IF 2 * rem + b >= d THEN [rem |-> (2 * rem + b) - d, q |-> q + p] ELSE [rem |-> 2 * rem + b, q |-> q]
  <2>1. Round(n, d, i, x) = IF 2 * x.rem + Bit(n, i) >= d
                           THEN [rem |-> (2 * x.rem + Bit(n, i)) - d, q |-> x.q + 2^i]
                           ELSE [rem |-> 2 * x.rem + Bit(n, i), q |-> x.q]
    BY DEF Round
  <2> QED
    BY <2>1
<1> PICK y : y = Round(n, d, i, x)
  OBVIOUS
<1>7. CASE 2 * rem + b >= d
  <2>1. y.rem = (2 * rem + b) - d /\ y.q = q + p
    BY <1>6, <1>7
  <2>2. (2 * rem + b) - d \in Nat /\ (2 * rem + b) - d < d
    BY <1>1, <1>2, <1>7
  <2>3. q + p = (2 * w + 1) * p
    BY <1>1, <1>2, <1>5
  <2>4. d * (2 * w) + (2 * rem + b) = d * (2 * w + 1) + ((2 * rem + b) - d)
    BY <1>1, <1>2
  <2>5. n \div 2^i = d * (2 * w + 1) + y.rem
    BY <1>2, <1>4, <2>1, <2>4, Zenon
  <2>6. 2 * w + 1 \in Nat
    BY <1>1
  <2>7. Rounded(n, d, i, y, 2 * w + 1)
    BY <2>1, <2>2, <2>3, <2>5, <2>6, Zenon DEF Rounded
  <2> QED
    BY <2>7
<1>8. CASE ~ (2 * rem + b >= d)
  <2>1. y.rem = 2 * rem + b /\ y.q = q
    BY <1>6, <1>8
  <2>2. 2 * rem + b \in Nat /\ 2 * rem + b < d
    BY <1>1, <1>2, <1>8
  <2>5. n \div 2^i = d * (2 * w) + y.rem
    BY <1>2, <1>4, <2>1, Zenon
  <2>6. 2 * w \in Nat
    BY <1>1
  <2>7. Rounded(n, d, i, y, 2 * w)
    BY <1>5, <2>1, <2>2, <2>5, <2>6, Zenon DEF Rounded
  <2> QED
    BY <2>7
<1> QED
  BY <1>7, <1>8

\* The long division divides, when the quotient fits.
LEMMA LongDivision ==
  ASSUME NEW n \in Nat, NEW d \in Nat \ {0}, n \div Cells < d
  PROVE  Udiv64_32(n, d) = n \div d
<1> DEFINE Rs == Rounds(n, d)
           G == {k \in 0 .. BITS : Rs[BITS - k] \in Pairs /\ \E w : Rounded(n, d, BITS - k, Rs[BITS - k], w)}
<1>1. BITS \in Nat /\ BITS <= 32 /\ n \in Int /\ d \in Nat
  BY Widths
<1>2. Rs[BITS] = [rem |-> n \div Cells, q |-> 0] /\ \A i \in 0 .. BITS - 1 : Rs[i] = Round(n, d, i, Rs[i + 1])
  BY RoundsTurn
<1> HIDE DEF Rs
<1>3. 0 \in G
  <2>1. BITS - 0 = BITS /\ 0 \in 0 .. BITS
    BY <1>1
  <2> PICK h : h = n \div Cells
    OBVIOUS
  <2>2. h \in Int /\ h >= 0
    <3>1. h \in Int /\ n % Cells \in Nat /\ n % Cells < Cells /\ n = Cells * h + (n % Cells)
      <4>1. n \div Cells \in Int /\ n % Cells \in Nat /\ n % Cells < Cells /\ n = Cells * (n \div Cells) + (n % Cells)
        BY <1>1, Sizes, Divided
      <4> QED
        BY <4>1
    <3>2. CASE h <= -1
      <4>1. Cells * h <= Cells * (-1)
        BY <3>1, <3>2, Sizes, TimesLess
      <4>2. Cells * (-1) = - Cells
        BY Sizes
      <4> QED
        BY <3>1, <4>1, <4>2, Sizes
    <3> QED
      BY <3>1, <3>2
  <2>3. Rs[BITS].rem = h /\ Rs[BITS].q = 0 /\ Rs[BITS] \in Pairs
    BY <1>2, <2>2 DEF Pairs
  <2>4. 0 * 2^BITS = 0
    <3> PICK t \in Nat : t = 2^BITS
      BY Sizes DEF Cells
    <3>1. 0 * t = 0
      OBVIOUS
    <3> QED
      BY <3>1, Zenon
  <2>5. h = d * 0 + h /\ h \in Nat /\ 0 \in Nat /\ h < d
    BY <2>2
  <2>6. Rounded(n, d, BITS, Rs[BITS], 0)
    BY <2>3, <2>4, <2>5, Zenon DEF Rounded, Cells
  <2> QED
    BY <2>1, <2>3, <2>6, Zenon
<1>4. ASSUME NEW k \in 1 .. BITS, k - 1 \in G PROVE k \in G
  <2> PICK i : i = BITS - k
    OBVIOUS
  <2>1. i \in 0 .. 31 /\ i \in 0 .. 32 /\ i \in 0 .. BITS - 1 /\ BITS - (k - 1) = i + 1 /\ k \in 0 .. BITS
    BY <1>1
  <2>2. Rs[i + 1] \in Pairs /\ \E w : Rounded(n, d, i + 1, Rs[i + 1], w)
    BY <1>4, <2>1, Zenon
  <2>3. Rs[i] = Round(n, d, i, Rs[i + 1])
    BY <1>2, <2>1
  <2>4. Rs[i] \in Pairs
    BY <1>1, <2>1, <2>2, <2>3, RoundIn
  <2>5. \E u : Rounded(n, d, i, Rs[i], u)
    BY <1>1, <2>1, <2>2, <2>3, RoundRight
  <2> QED
    BY <2>1, <2>4, <2>5, Zenon
<1> HIDE DEF G
<1>5. \A k \in 0 .. BITS : k \in G
  BY <1>1, <1>3, <1>4, UpTo
<1>6. BITS \in G /\ BITS - BITS = 0
  BY <1>1, <1>5
<1>7. Rs[0] \in Pairs /\ \E w : Rounded(n, d, 0, Rs[0], w)
  BY <1>6, Zenon DEF G
<1> PICK w : Rounded(n, d, 0, Rs[0], w)
  BY <1>7
<1> PICK rem : rem = Rs[0].rem
  OBVIOUS
<1>8. w \in Nat /\ rem \in Nat /\ rem < d /\ Rs[0].q = w * 2^0 /\ n \div 2^0 = d * w + rem
  BY Zenon DEF Rounded
<1>9. 2^0 = 1
  BY Powers
<1>10. Rs[0].q = w /\ n \div 1 = d * w + rem
  <2>1. w * 1 = w
    BY <1>8
  <2> QED
    BY <1>8, <1>9, <2>1, Zenon
<1>11. n = d * w + rem
  BY <1>10
<1>12. n \div d = w
  <2>1. w \in Int /\ rem \in Int /\ 0 <= rem
    BY <1>8
  <2> QED
    BY <1>1, <1>8, <1>11, <2>1, QuotientIs, Zenon
<1>13. ~ (d = 0 \/ n \div 2^BITS >= d)
  <2>1. n \div Cells \in Int
    BY Sizes, Divided
  <2> QED
    BY <2>1 DEF Cells
<1>14. Udiv64_32(n, d) = Rs[0].q
  BY <1>13, Zenon DEF Udiv64_32, Rounds, Rs
<1> QED
  BY <1>10, <1>12, <1>14

LEMMA Times == \A a \in Int, b \in Int : a * b \in Int /\ a * b = b * a
OBVIOUS

LEMMA TimesNat == \A a \in Nat, b \in Nat : a * b \in Nat
OBVIOUS

LEMMA NatInt == \A n \in Nat : n \in Int /\ 0 <= n
OBVIOUS

LEMMA TimesBelow == \A d \in Nat \ {0}, a \in Int, b \in Int : a < b => d * a < d * b
<1> TAKE d \in Nat \ {0}, a \in Int, b \in Int
<1> HAVE a < b
<1>1. d * (a + 1) <= d * b
  BY TimesLess
<1>2. d * (a + 1) = d * a + d
  OBVIOUS
<1> QED
  BY <1>1, <1>2

LEMMA DividedNat ==
  ASSUME NEW n \in Nat, NEW d \in Nat \ {0}
  PROVE  n \div d \in Nat /\ n % d \in Nat /\ n % d < d /\ n = d * (n \div d) + (n % d)
<1>1. n \div d \in Int /\ n % d \in Nat /\ n % d < d /\ n = d * (n \div d) + (n % d)
  BY Divided
<1> PICK h, s : h = n \div d /\ s = n % d
  OBVIOUS
<1>2. CASE h <= -1
  <2>1. h \in Int /\ s \in Nat /\ s < d /\ n = d * h + s
    BY <1>1
  <2>2. d * h <= d * (-1)
    BY <1>2, <2>1, TimesLess
  <2>3. d * (-1) = - d
    OBVIOUS
  <2>4. d * h \in Int
    BY <2>1
  <2> QED
    BY <2>1, <2>2, <2>3, <2>4
<1>3. CASE ~ (h <= -1)
  <2>1. h \in Nat
    BY <1>1, <1>3
  <2> QED
    BY <1>1, <2>1
<1> QED
  BY <1>2, <1>3

LEMMA SmallIs ==
  ASSUME NEW b \in Nat \ {0}, NEW n \in Nat, n < b
  PROVE  n % b = n /\ n \div b = 0
<1>1. n = b * 0 + n /\ 0 \in Int /\ n \in Int /\ 0 <= n
  OBVIOUS
<1> QED
  BY <1>1, QuotientIs, Zenon

\* Shifting a number that is small enough loses nothing.
LEMMA Unlost ==
  ASSUME NEW a \in Nat, NEW k \in Nat \ {0}, NEW t \in Nat, a < t, t * k <= Cells
  PROVE  (a * k) % Cells = a * k /\ a * k \in Nat
<1>1. k * a < k * t /\ k * a = a * k /\ k * t = t * k
  BY TimesBelow
<1>2. a * k \in Nat /\ a * k < Cells
  <2>1. a * k \in Nat /\ t * k \in Nat
    OBVIOUS
  <2> QED
    BY <1>1, <2>1, Sizes
<1> QED
  BY <1>2, SmallIs, Sizes

\* The fraction is one, and the same in each of its three ways.
LEMMA FractionIs ==
  ASSUME NEW ub \in Nat \ {0}, NEW rem \in Nat, rem < ub
  PROVE  /\ Fraction(rem, ub) = (rem * One) \div ub
         /\ (rem * One) \div ub \in Nat /\ (rem * One) \div ub < One
<1> PICK n : n = rem * One
  OBVIOUS
<1>0. n \in Nat /\ One \in Nat \ {0} /\ Part \in Nat \ {0} /\ Cells \in Nat \ {0}
  BY Sizes
<1>1. n < ub * One
  <2>1. One * rem < One * ub
    BY <1>0, TimesBelow
  <2> QED
    BY <1>0, <2>1
<1>2. n \div ub \in Nat /\ n \div ub < One
  <2> PICK q, s : q = n \div ub /\ s = n % ub
    OBVIOUS
  <2>1. q \in Nat /\ s \in Nat /\ n = ub * q + s
    BY <1>0, DividedNat
  <2>2. CASE q >= One
    <3>1. ub * One <= ub * q
      BY <1>0, <2>1, <2>2, TimesLess
    <3>2. ub * One \in Int /\ ub * q \in Int
      BY <1>0, <2>1
    <3> QED
      BY <1>0, <1>1, <2>1, <3>1, <3>2
  <2> QED
    BY <1>0, <2>1, <2>2
<1>3. CASE ub < HalfOne
  <2>1. rem < HalfOne /\ HalfOne \in Nat /\ HalfOne * One <= Cells
    <3>1. rem < HalfOne /\ HalfOne \in Nat /\ HalfOne <= One
      BY <1>3, Sizes
    <3>2. One * HalfOne <= One * One
      BY <1>0, <3>1, TimesLess
    <3>3. One * HalfOne = HalfOne * One
      BY <1>0, <3>1
    <3> QED
      BY <3>1, <3>2, <3>3, Sizes
  <2>2. (rem * One) % Cells = rem * One
    BY <1>0, <2>1, Unlost
  <2>3. Fraction(rem, ub) = ((rem * 2^HALF) % 2^BITS) \div ub
    BY <1>3, Zenon DEF Fraction, HalfOne
  <2> QED
    BY <1>2, <2>2, <2>3, Zenon DEF One, Cells
<1>4. CASE ~ (ub < HalfOne) /\ ub < HalfOnePart
  <2>1. HalfOnePart \in Nat /\ HalfOnePart * Part <= Cells
    <3>1. HalfOnePart \in Nat /\ HalfOnePart <= One * Part /\ One * Part \in Nat
      BY <1>0, Sizes
    <3>2. Part * HalfOnePart <= Part * (One * Part)
      BY <1>0, <3>1, TimesLess
    <3>3. Part * (One * Part) = One * (Part * Part) /\ Part * HalfOnePart = HalfOnePart * Part
      BY <1>0, <3>1
    <3>4. One * (Part * Part) = Cells
      BY Sizes
    <3> QED
      BY <3>1, <3>2, <3>3, <3>4
  <2> PICK up : up = (rem * Part) % Cells
    OBVIOUS
  <2>2. up = rem * Part /\ up \in Nat
    <3>1. rem < HalfOnePart
      BY <1>4, <2>1
    <3> QED
      BY <1>0, <2>1, <3>1, Unlost
  <2> PICK a, b : a = up \div ub /\ b = up % ub
    OBVIOUS
  <2>3. a \in Nat /\ b \in Nat /\ b < ub /\ up = ub * a + b
    BY <2>2, DividedNat
  <2>4. (b * Part) % Cells = b * Part /\ b * Part \in Nat
    <3>1. b < HalfOnePart
      BY <1>4, <2>1, <2>3
    <3> QED
      BY <1>0, <2>1, <2>3, <3>1, Unlost
  <2> PICK c, e, f : c = b * Part /\ e = c \div ub /\ f = c % ub
    OBVIOUS
  <2>5. e \in Nat /\ f \in Nat /\ f < ub /\ c = ub * e + f
    BY <2>4, DividedNat
  <2>6. n = up * Part
    <3>1. (rem * Part) * Part = rem * (Part * Part)
      BY <1>0
    <3>2. (rem * Part) * Part = rem * One
      BY <3>1, Sizes, Zenon
    <3> QED
      BY <2>2, <3>2, Zenon
  <2>7. up * Part = ub * (a * Part + e) + f
    <3>1. (ub * a + b) * Part = ub * (a * Part) + b * Part
      BY <1>0, <2>3
    <3>2. ub * (a * Part + e) = ub * (a * Part) + ub * e
      <4> PICK g : g = a * Part
        OBVIOUS
      <4>1. g \in Int /\ e \in Int
        BY <1>0, <2>3, <2>5
      <4>2. ub * (g + e) = ub * g + ub * e
        BY <4>1
      <4> QED
        BY <4>2, Zenon
    <3>3. ub * (a * Part) \in Int /\ ub * e \in Int
      <4>1. a \in Int /\ Part \in Int /\ e \in Int /\ ub \in Int
        BY <1>0, <2>3, <2>5
      <4> QED
        BY <4>1, Times, Zenon
    <3> QED
      BY <2>3, <2>4, <2>5, <3>1, <3>2, <3>3
  <2>8. a * Part + e \in Int /\ f \in Int /\ 0 <= f /\ n \in Int
    BY <1>0, <2>3, <2>5
  <2>9. n = ub * (a * Part + e) + f
    BY <2>6, <2>7, Zenon
  <2>10. n \div ub = a * Part + e
    BY <2>5, <2>8, <2>9, QuotientIs, Zenon
  <2>11. Fraction(rem, ub) = ((((rem * 2^STEP) % 2^BITS) \div ub) * 2^STEP) + ((((((rem * 2^STEP) % 2^BITS) % ub) * 2^STEP) % 2^BITS) \div ub)
    BY <1>4, Zenon DEF Fraction, HalfOne, HalfOnePart
  <2>12. Fraction(rem, ub) = a * Part + e
    BY <2>4, <2>11, Zenon DEF Part, Cells
  <2> QED
    BY <1>2, <2>10, <2>12, Zenon
<1>5. CASE ~ (ub < HalfOne) /\ ~ (ub < HalfOnePart)
  <2>1. n \div Cells < ub
    <3> PICK h, s : h = n \div Cells /\ s = n % Cells
      OBVIOUS
    <3>1. h \in Nat /\ s \in Nat /\ n = Cells * h + s
      BY <1>0, DividedNat
    <3>2. CASE h >= ub
      <4>1. Cells * ub <= Cells * h
        BY <1>0, <3>1, <3>2, TimesLess
      <4>2. ub * One <= ub * Cells
        <5>1. One * 1 <= One * One
          BY <1>0, TimesLess
        <5>2. One <= Cells
          BY <1>0, <5>1, Sizes
        <5> QED
          BY <1>0, <5>2, TimesLess
      <4>3. Cells * ub = ub * Cells /\ Cells * ub \in Int /\ Cells * h \in Int /\ ub * One \in Int
        BY <1>0, <3>1
      <4> QED
        BY <1>0, <1>1, <3>1, <4>1, <4>2, <4>3
    <3> QED
      BY <3>1, <3>2
  <2>2. Udiv64_32(n, ub) = n \div ub
    BY <1>0, <2>1, LongDivision
  <2>3. Fraction(rem, ub) = Udiv64_32(rem * 2^HALF, ub)
    BY <1>5, Zenon DEF Fraction, HalfOne, HalfOnePart
  <2> QED
    BY <1>2, <2>2, <2>3, Zenon DEF One
<1> QED
  BY <1>3, <1>4, <1>5, Zenon

\* A quotient and what is left, a half cell further up.
LEMMA QuotientUp ==
  ASSUME NEW ua \in Nat, NEW ub \in Nat \ {0}
  PROVE  (ua * One) \div ub = (ua \div ub) * One + ((ua % ub) * One) \div ub
<1> PICK w, r, n, q, s : w = ua \div ub /\ r = ua % ub /\ n = r * One /\ q = n \div ub /\ s = n % ub
  OBVIOUS
<1>1. w \in Nat /\ r \in Nat /\ r < ub /\ ua = ub * w + r /\ One \in Nat
  BY DividedNat, Sizes
<1>2. n \in Nat
  BY <1>1
<1>3. q \in Nat /\ s \in Nat /\ s < ub /\ n = ub * q + s
  BY <1>2, DividedNat
<1>4. ua * One = ub * (w * One + q) + s
  <2>1. (ub * w + r) * One = ub * (w * One) + r * One
    BY <1>1
  <2>2. ub * (w * One + q) = ub * (w * One) + ub * q
    <3> PICK g : g = w * One
      OBVIOUS
    <3>1. g \in Int
      BY <1>1
    <3>2. ub * (g + q) = ub * g + ub * q
      BY <1>3, <3>1
    <3> QED
      BY <3>2, Zenon
  <2>3. ub * (w * One) \in Int /\ ub * q \in Int
    BY <1>1, <1>3
  <2> QED
    BY <1>1, <1>3, <2>1, <2>2, <2>3
<1>5. ua * One \in Int /\ w * One + q \in Int /\ s \in Int /\ 0 <= s
  BY <1>1, <1>3
<1>6. (ua * One) \div ub = w * One + q
  BY <1>3, <1>4, <1>5, QuotientIs, Zenon
<1> QED
  BY <1>6, Zenon

\* The cells: what there is below a sign, and how far a whole part may go.
LEMMA CellsAre ==
  /\ MOST \in Nat /\ LEAST = - MOST - 1 /\ 2^(BITS - 1) = MOST + 1
  /\ HalfOne * One = MOST + 1 /\ Cell = LEAST .. MOST
<1> PICK h : h = 2^(BITS - 1)
  OBVIOUS
<1>1. h \in Nat \ {0} /\ MOST = h - 1 /\ LEAST = - h
  BY Sizes DEF MOST, LEAST
<1>2. HalfOne * One = h
  <2>1. One * One = 2 * (HalfOne * One)
    <3>1. (2 * HalfOne) * One = 2 * (HalfOne * One)
      BY Sizes
    <3> QED
      BY <3>1, Sizes, Zenon
  <2>2. HalfOne * One \in Int /\ One * One = 2 * h
    BY Sizes
  <2> QED
    BY <1>1, <2>1, <2>2
<1>3. Cell = LEAST .. MOST
  BY DEF Cell
<1> QED
  BY <1>1, <1>2, <1>3

\* What FixedDiv makes of the absolute values.
LEMMA FDivIs ==
  ASSUME NEW x \in Cell, NEW y \in Cell \ {0}
  PROVE  LET q == (Abs(x) * One) \div Abs(y)
         IN  /\ q \in Nat
             /\ q > MOST => FDiv(x, y) = IF (x < 0) # (y < 0) THEN LEAST ELSE MOST
             /\ q <= MOST => FDiv(x, y) = IF (x < 0) # (y < 0) THEN - q ELSE q
<1> PICK ua, ub : ua = Abs(x) /\ ub = Abs(y)
  OBVIOUS
<1> PICK w, r, f, q : w = ua \div ub /\ r = ua % ub /\ f = (r * One) \div ub /\ q = (ua * One) \div ub
  OBVIOUS
<1>1. ua \in Nat /\ ub \in Nat \ {0} /\ x \in Int /\ y \in Int
  BY CellsAre DEF Abs
<1>2. w \in Nat /\ r \in Nat /\ r < ub /\ ua = ub * w + r
  BY <1>1, DividedNat
<1>3. Fraction(r, ub) = f /\ f \in Nat /\ f < One
  BY <1>1, <1>2, FractionIs
<1>4. f % One = f
  BY <1>3, Sizes, SmallIs
<1>5. q = w * One + f
  BY <1>1, QuotientUp
<1>6. q \in Nat
  <2>1. One \in Nat
    BY Sizes
  <2>2. w * One \in Nat
    BY <1>2, <2>1, TimesNat, Zenon
  <2> QED
    BY <1>3, <1>5, <2>2
<1>7. w > HalfOne - 1 <=> q > MOST
  <2> PICK m, h : m = One /\ h = HalfOne
    OBVIOUS
  <2>0. m \in Nat \ {0} /\ h \in Nat /\ MOST \in Nat /\ h * m = MOST + 1 /\ q = w * m + f /\ f < m
    BY <1>3, <1>5, Sizes, CellsAre
  <2>3. m \in Nat /\ m \in Int /\ h \in Int /\ w \in Int /\ w + 1 \in Int /\ (h <= w \/ w + 1 <= h)
    <3>1. \A a \in Nat, b \in Nat : b <= a \/ a + 1 <= b
      OBVIOUS
    <3>2. \A a \in Nat : a \in Int /\ a + 1 \in Int
      OBVIOUS
    <3>3. m \in Nat /\ h \in Nat /\ w \in Nat
      BY <1>2, <2>0, Zenon
    <3> QED
      BY <3>1, <3>2, <3>3, Zenon
  <2>4. m * h = h * m /\ m * w = w * m /\ w * m \in Int
    BY <2>3, Times, Zenon
  <2>1. CASE h <= w
    <3>1. m * h <= m * w
      BY <2>1, <2>3, TimesLess, Zenon
    <3> QED
      BY <1>2, <1>3, <2>0, <2>1, <2>4, <3>1
  <2>2. CASE w + 1 <= h
    <3>1. m * (w + 1) <= m * h
      BY <2>2, <2>3, TimesLess, Zenon
    <3>2. m * (w + 1) = m * w + m
      <4>1. \A a \in Int, b \in Int : a * (b + 1) = a * b + a
        OBVIOUS
      <4> QED
        BY <2>3, <4>1, Zenon
    <3> QED
      BY <1>2, <1>3, <2>0, <2>2, <2>4, <3>1, <3>2
  <2> QED
    BY <2>1, <2>2, <2>3
<1> PICK neg \in BOOLEAN : neg = ((x < 0) # (y < 0))
  OBVIOUS
<1>8. FixedDiv(x, y) = IF ub = 0 THEN 0
                       ELSE IF w > HalfOne - 1 THEN IF neg THEN LEAST ELSE MOST
                       ELSE IF neg THEN -(w * One + (Fraction(r, ub) % One)) ELSE w * One + (Fraction(r, ub) % One)
  <2>1. ua = (IF x < 0 THEN -x ELSE x) /\ ub = (IF y < 0 THEN -y ELSE y)
    BY Zenon DEF Abs
  <2> QED
    BY <2>1, Zenon DEF FixedDiv, One, HalfOne
<1>9. ub # 0
  BY <1>1
<1>10. FixedDiv(x, y) = IF w > HalfOne - 1 THEN IF neg THEN LEAST ELSE MOST ELSE IF neg THEN - q ELSE q
  BY <1>3, <1>4, <1>5, <1>8, <1>9, Zenon
<1>11. FDiv(x, y) = FixedDiv(x, y)
  BY DEF FDiv
<1>12. q > MOST => FDiv(x, y) = IF neg THEN LEAST ELSE MOST
  BY <1>7, <1>10, <1>11, Zenon
<1>13. q <= MOST => FDiv(x, y) = IF neg THEN - q ELSE q
  <2>1. q <= MOST => ~ (q > MOST)
    BY <1>6, CellsAre
  <2> QED
    BY <1>7, <1>10, <1>11, <2>1, Zenon
<1> QED
  BY <1>6, <1>12, <1>13, Zenon

\* "Exact, and several times faster": F/ on cells of any width up to the 32 bits of the code, on
\* each of its three ways: the quotient, cut off towards zero, or the cell next to it.
THEOREM DivisionIsExact == \A x \in Cell : \A y \in Cell \ {0} : DivIsExact(x, y)
<1> TAKE x \in Cell
<1> TAKE y \in Cell \ {0}
<1> PICK q : q = (Abs(x) * One) \div Abs(y)
  OBVIOUS
<1> PICK neg \in BOOLEAN : neg = ((x < 0) # (y < 0))
  OBVIOUS
<1>1. /\ q \in Nat
      /\ q > MOST => FDiv(x, y) = IF neg THEN LEAST ELSE MOST
      /\ q <= MOST => FDiv(x, y) = IF neg THEN - q ELSE q
  BY FDivIs, Zenon
<1>2. FDiv(x, y) = Clamp(IF neg THEN -q ELSE q)
  BY <1>1, CellsAre DEF Clamp
<1> QED
  BY <1>2, Zenon DEF DivIsExact, One

\* What is above the lowest k pairs of bits.
Upper(v, k) == (v \div 2^k) \div 2^k

LEMMA DivTwice == \A n \in Int : \A a \in Nat \ {0} : (n \div a) \div a = n \div (a * a)
<1> TAKE n \in Int
<1> TAKE a \in Nat \ {0}
<1> QED
  BY DivDiv

LEMMA UpperIs ==
  ASSUME NEW v \in Nat, NEW k \in 0 .. 32
  PROVE  /\ 2^k \in Nat \ {0} /\ 2^k * 2^k \in Nat \ {0}
         /\ Upper(v, k) \in Nat /\ Upper(v, k) = v \div (2^k * 2^k)
<1> PICK t : t = 2^k
  OBVIOUS
<1>1. t \in Nat \ {0}
  <2>1. 2^k \in Nat \ {0}
    BY PowerIs
  <2> QED
    BY <2>1, Zenon
<1>2. t * t \in Nat \ {0}
  BY <1>1
<1>3. (v \div t) \div t = v \div (t * t)
  <2>1. v \in Int
    OBVIOUS
  <2> QED
    BY <1>1, <2>1, DivTwice, Zenon
<1>4. v \div (t * t) \in Nat
  BY <1>2, DividedNat
<1> QED
  BY <1>1, <1>2, <1>3, <1>4, Zenon DEF Upper

\* The root, round by round.
Roots(v) ==
  LET S[i \in 0 .. BITS] ==
        IF i = 0 THEN [rem |-> 0, root |-> 0]
        ELSE LET rem == 4 * S[i - 1].rem + TwoBits(v, BITS - i)
                 root == 2 * S[i - 1].root
             IN IF root < rem THEN [rem |-> rem - root - 1, root |-> root + 2]
                ELSE [rem |-> rem, root |-> root]
  IN  S

Rooting(v, k, x) ==
  LET rem == 4 * x.rem + TwoBits(v, k)
      root == 2 * x.root
  IN IF root < rem THEN [rem |-> rem - root - 1, root |-> root + 2]
     ELSE [rem |-> rem, root |-> root]

RootPairs == [rem : Int, root : Int]

LEMMA RootingIs ==
  ASSUME NEW v \in Nat, NEW k \in 0 .. 32, NEW x \in RootPairs
  PROVE  /\ TwoBits(v, k) \in 0 .. 3 /\ Rooting(v, k, x) \in RootPairs
         /\ Rooting(v, k, x) = IF 2 * x.root < 4 * x.rem + TwoBits(v, k)
                               THEN [rem |-> (4 * x.rem + TwoBits(v, k)) - 2 * x.root - 1, root |-> 2 * x.root + 2]
                               ELSE [rem |-> 4 * x.rem + TwoBits(v, k), root |-> 2 * x.root]
<1>1. TwoBits(v, k) \in 0 .. 3
  <2>1. Upper(v, k) \in Nat
    BY UpperIs
  <2>2. Upper(v, k) % 4 \in 0 .. 3
    BY <2>1
  <2> QED
    BY <2>2, Zenon DEF TwoBits, Upper
<1>2. x.rem \in Int /\ x.root \in Int
  BY DEF RootPairs
<1>3. Rooting(v, k, x) = IF 2 * x.root < 4 * x.rem + TwoBits(v, k)
                         THEN [rem |-> (4 * x.rem + TwoBits(v, k)) - 2 * x.root - 1, root |-> 2 * x.root + 2]
                         ELSE [rem |-> 4 * x.rem + TwoBits(v, k), root |-> 2 * x.root]
  BY Zenon DEF Rooting
<1>4. /\ (4 * x.rem + TwoBits(v, k)) - 2 * x.root - 1 \in Int /\ 2 * x.root + 2 \in Int
      /\ 4 * x.rem + TwoBits(v, k) \in Int /\ 2 * x.root \in Int
  BY <1>1, <1>2
<1>5. Rooting(v, k, x) \in RootPairs
  BY <1>3, <1>4 DEF RootPairs
<1> QED
  BY <1>1, <1>3, <1>5, Zenon

LEMMA RootsTurn ==
  ASSUME NEW v \in Nat
  PROVE  /\ Roots(v)[0] = [rem |-> 0, root |-> 0]
         /\ \A i \in 1 .. BITS : Roots(v)[i] = Rooting(v, BITS - i, Roots(v)[i - 1])
<1> DEFINE base == [rem |-> 0, root |-> 0]
           step == [i \in 1 .. BITS |-> [x \in RootPairs |-> Rooting(v, BITS - i, x)]]
           Is(o) == o = [i \in 0 .. BITS |->
                          IF i = 0 THEN [rem |-> 0, root |-> 0]
                          ELSE LET rem == 4 * o[i - 1].rem + TwoBits(v, BITS - i)
                                   root == 2 * o[i - 1].root
                               IN IF root < rem THEN [rem |-> rem - root - 1, root |-> root + 2]
                                  ELSE [rem |-> rem, root |-> root]]
           c == CHOOSE o : Is(o)
<1>1. BITS \in Nat /\ BITS <= 32 /\ base \in RootPairs
  BY Widths DEF RootPairs
<1>2. ASSUME NEW k \in 1 .. BITS, NEW x \in RootPairs
      PROVE  Rooting(v, BITS - k, x) \in RootPairs /\ step[k][x] = Rooting(v, BITS - k, x)
  <2>1. BITS - k \in 0 .. 32
    BY <1>1
  <2>2. Rooting(v, BITS - k, x) \in RootPairs
    BY <2>1, RootingIs
  <2> QED
    BY <2>2
<1>3. \A k \in 1 .. BITS : \A x \in RootPairs : step[k][x] \in RootPairs
  BY <1>2
<1> HIDE DEF step, base
<1>4. PICK P \in [0 .. BITS -> RootPairs] : LoopOf(P, BITS, base, step)
  BY <1>1, <1>3, LoopExists
<1>5. ASSUME NEW i \in 0 .. BITS PROVE P[i] = IF i = 0 THEN base ELSE Rooting(v, BITS - i, P[i - 1])
  <2>1. CASE i = 0
    BY <1>4, <2>1 DEF LoopOf
  <2>2. CASE i # 0
    <3>1. i \in 1 .. BITS /\ i - 1 \in 0 .. BITS
      BY <1>1, <2>2
    <3>2. P[i] = step[i][P[i - 1]] /\ P[i - 1] \in RootPairs
      BY <1>4, <3>1 DEF LoopOf
    <3> QED
      BY <1>2, <2>2, <3>1, <3>2
  <2> QED
    BY <2>1, <2>2
<1>6. P = [i \in 0 .. BITS |-> P[i]]
  OBVIOUS
<1>7. Is(P)
  <2>1. \A i \in 0 .. BITS : P[i] = IF i = 0 THEN [rem |-> 0, root |-> 0]
                          ELSE LET rem == 4 * P[i - 1].rem + TwoBits(v, BITS - i)
                                   root == 2 * P[i - 1].root
                               IN IF root < rem THEN [rem |-> rem - root - 1, root |-> root + 2]
                                  ELSE [rem |-> rem, root |-> root]
    BY <1>5, Zenon DEF base, Rooting
  <2> QED
    BY <1>6, <2>1, Zenon
<1> HIDE DEF Is
<1>8. Is(c)
  BY <1>7
<1>9. c = Roots(v)
  BY Zenon DEF Roots, Is
<1> HIDE DEF c
<1>10. \A i \in 0 .. BITS : c[i] = IF i = 0 THEN base ELSE Rooting(v, BITS - i, c[i - 1])
  BY <1>8, Zenon DEF Is, base, Rooting
<1>11. c[0] = base
  BY <1>1, <1>10
<1>12. ASSUME NEW i \in 1 .. BITS PROVE c[i] = Rooting(v, BITS - i, c[i - 1])
  <2>1. i \in 0 .. BITS /\ i # 0
    BY <1>1
  <2> QED
    BY <1>10, <2>1
<1> QED
  BY <1>9, <1>11, <1>12 DEF base

\* After each round: the square of the root so far, and what is left, which is less than the next square.
Rooted(v, k, x, s) ==
  /\ s \in Nat /\ x.root = 2 * s /\ x.rem \in Nat /\ x.rem <= 2 * s
  /\ Upper(v, k) = s * s + x.rem

LEMMA NextBits ==
  ASSUME NEW v \in Nat, NEW k \in 0 .. 31
  PROVE  Upper(v, k) = 4 * Upper(v, k + 1) + TwoBits(v, k)
<1> PICK t, h : t = 2^k /\ h = Upper(v, k)
  OBVIOUS
<1>1. k \in 0 .. 32 /\ k + 1 \in 0 .. 32
  OBVIOUS
<1>2. t \in Nat \ {0} /\ t * t \in Nat \ {0} /\ h \in Nat /\ h = v \div (t * t)
  BY <1>1, UpperIs
<1>3. 2^(k + 1) = 2 * t
  BY Powers
<1>4. Upper(v, k + 1) = v \div ((2 * t) * (2 * t))
  BY <1>1, <1>3, UpperIs
<1>5. (2 * t) * (2 * t) = (t * t) * 4
  BY <1>2
<1>6. h \div 4 = v \div ((t * t) * 4)
  BY <1>2, DivDiv
<1>7. h = 4 * (h \div 4) + (h % 4)
  BY <1>2
<1>8. h % 4 = TwoBits(v, k)
  BY Zenon DEF TwoBits, Upper
<1>9. Upper(v, k + 1) = h \div 4
  BY <1>4, <1>5, <1>6, Zenon
<1> QED
  BY <1>7, <1>8, <1>9, Zenon

LEMMA RootRight ==
  ASSUME NEW v \in Nat, NEW k \in 0 .. 31, NEW x \in RootPairs, NEW s, Rooted(v, k + 1, x, s)
  PROVE  \E u : Rooted(v, k, Rooting(v, k, x), u)
<1> PICK b, r, h, y : b = TwoBits(v, k) /\ r = x.rem /\ h = Upper(v, k + 1) /\ y = Rooting(v, k, x)
  OBVIOUS
<1>1. s \in Nat /\ x.root = 2 * s /\ r \in Nat /\ r <= 2 * s /\ h = s * s + r
  BY DEF Rooted
<1>2. k \in 0 .. 32
  OBVIOUS
<1>3. b \in 0 .. 3
  BY <1>2, RootingIs
<1>4. y = IF 2 * x.root < 4 * r + b
          THEN [rem |-> (4 * r + b) - 2 * x.root - 1, root |-> 2 * x.root + 2]
          ELSE [rem |-> 4 * r + b, root |-> 2 * x.root]
  BY <1>2, RootingIs, Zenon
<1>5. Upper(v, k) = 4 * h + b
  BY NextBits, Zenon
<1> PICK q : q = s * s
  OBVIOUS
<1>6. q \in Nat /\ (2 * s) * (2 * s) = 4 * q /\ (2 * s + 1) * (2 * s + 1) = 4 * q + 4 * s + 1
  BY <1>1
<1>7. CASE 4 * s < 4 * r + b
  <2>1. 2 * x.root < 4 * r + b
    BY <1>1, <1>7
  <2>2. y.rem = (4 * r + b) - 2 * x.root - 1 /\ y.root = 2 * x.root + 2
    BY <1>4, <2>1
  <2>3. y.rem = (4 * r + b) - 4 * s - 1 /\ y.root = 2 * (2 * s + 1)
    BY <1>1, <2>2
  <2> PICK z : z = y.rem
    OBVIOUS
  <2>8. z = (4 * r + b) - 4 * s - 1
    BY <2>3, Zenon
  <2>4. z \in Nat /\ z <= 2 * (2 * s + 1) /\ 2 * s + 1 \in Nat
    BY <1>1, <1>3, <1>7, <2>8
  <2>9. h = q + r
    BY <1>1, Zenon
  <2>10. q \in Nat /\ r \in Nat /\ s \in Nat /\ b \in 0 .. 3
    BY <1>1, <1>3, <1>6, Zenon
  <2>5. 4 * h + b = (4 * q + 4 * s + 1) + y.rem
    BY <2>8, <2>9, <2>10
  <2>6. Upper(v, k) = (2 * s + 1) * (2 * s + 1) + y.rem
    BY <1>5, <1>6, <2>5, Zenon
  <2>7. Rooted(v, k, y, 2 * s + 1)
    BY <2>3, <2>4, <2>6, Zenon DEF Rooted
  <2> QED
    BY <2>7
<1>8. CASE ~ (4 * s < 4 * r + b)
  <2>1. ~ (2 * x.root < 4 * r + b)
    BY <1>1, <1>8
  <2>2. y.rem = 4 * r + b /\ y.root = 2 * x.root
    BY <1>4, <2>1
  <2>3. y.root = 2 * (2 * s)
    BY <1>1, <2>2
  <2>4. y.rem \in Nat /\ y.rem <= 2 * (2 * s) /\ 2 * s \in Nat
    BY <1>1, <1>3, <1>8, <2>2
  <2>5. 4 * h + b = 4 * q + y.rem
    BY <1>1, <1>3, <1>6, <2>2
  <2>6. Upper(v, k) = (2 * s) * (2 * s) + y.rem
    BY <1>5, <1>6, <2>5, Zenon
  <2>7. Rooted(v, k, y, 2 * s)
    BY <2>3, <2>4, <2>6, Zenon DEF Rooted
  <2> QED
    BY <2>7
<1> QED
  BY <1>7, <1>8

\* The root of a number of two cells.
LEMMA LongRoot ==
  ASSUME NEW v \in Nat, v < Cells * Cells
  PROVE  LET s == Usqrt64(v) IN s \in Nat /\ s * s <= v /\ v < (s + 1) * (s + 1)
<1> DEFINE Rs == Roots(v)
           G == {i \in 0 .. BITS : Rs[i] \in RootPairs /\ \E s : Rooted(v, BITS - i, Rs[i], s)}
<1>1. BITS \in Nat /\ BITS <= 32
  BY Widths
<1>2. Rs[0] = [rem |-> 0, root |-> 0] /\ \A i \in 1 .. BITS : Rs[i] = Rooting(v, BITS - i, Rs[i - 1])
  BY RootsTurn
<1> HIDE DEF Rs
<1>3. 0 \in G
  <2>1. BITS - 0 = BITS /\ 0 \in 0 .. BITS /\ BITS \in 0 .. 32
    BY <1>1
  <2> PICK p : p = Cells * Cells
    OBVIOUS
  <2>2. Upper(v, BITS) = v \div p /\ p \in Nat \ {0}
    BY <2>1, UpperIs, Zenon DEF Cells
  <2>3. Upper(v, BITS) = 0
    BY <2>2, SmallIs
  <2>4. Rs[0].rem = 0 /\ Rs[0].root = 0 /\ Rs[0] \in RootPairs
    BY <1>2 DEF RootPairs
  <2>5. 0 = 2 * 0 /\ 0 \in Nat /\ 0 <= 2 * 0 /\ 0 = 0 * 0 + 0
    OBVIOUS
  <2>6. Rooted(v, BITS, Rs[0], 0)
    BY <2>3, <2>4, <2>5, Zenon DEF Rooted
  <2> QED
    BY <2>1, <2>4, <2>6, Zenon
<1>4. ASSUME NEW i \in 1 .. BITS, i - 1 \in G PROVE i \in G
  <2> PICK k : k = BITS - i
    OBVIOUS
  <2>1. k \in 0 .. 31 /\ k \in 0 .. 32 /\ BITS - (i - 1) = k + 1 /\ i \in 0 .. BITS
    BY <1>1
  <2>2. Rs[i - 1] \in RootPairs /\ \E s : Rooted(v, k + 1, Rs[i - 1], s)
    BY <1>4, <2>1, Zenon
  <2>3. Rs[i] = Rooting(v, k, Rs[i - 1])
    BY <1>2
  <2>4. Rs[i] \in RootPairs
    BY <2>1, <2>2, <2>3, RootingIs
  <2>5. \E u : Rooted(v, k, Rs[i], u)
    BY <2>1, <2>2, <2>3, RootRight
  <2> QED
    BY <2>1, <2>4, <2>5, Zenon
<1> HIDE DEF G
<1>5. \A i \in 0 .. BITS : i \in G
  BY <1>1, <1>3, <1>4, UpTo
<1>6. BITS \in G /\ BITS - BITS = 0
  BY <1>1, <1>5
<1>7. \E s : Rooted(v, 0, Rs[BITS], s)
  BY <1>6, Zenon DEF G
<1> PICK s : Rooted(v, 0, Rs[BITS], s)
  BY <1>7
<1> PICK rem : rem = Rs[BITS].rem
  OBVIOUS
<1>8. s \in Nat /\ Rs[BITS].root = 2 * s /\ rem \in Nat /\ rem <= 2 * s /\ Upper(v, 0) = s * s + rem
  BY Zenon DEF Rooted
<1>9. v = s * s + rem
  <2>1. 2^0 = 1
    BY Powers
  <2>2. (v \div 1) \div 1 = v
    OBVIOUS
  <2>3. Upper(v, 0) = v
    BY <2>1, <2>2, Zenon DEF Upper
  <2> QED
    BY <1>8, <2>3, Zenon
<1>10. Usqrt64(v) = Rs[BITS].root \div 2
  BY Zenon DEF Usqrt64, Roots, Rs
<1>11. Usqrt64(v) = s
  <2>1. (2 * s) \div 2 = s
    BY <1>8
  <2> QED
    BY <1>8, <1>10, <2>1, Zenon
<1> PICK q : q = s * s
  OBVIOUS
<1>12. q \in Nat /\ (s + 1) * (s + 1) = q + 2 * s + 1
  BY <1>8
<1>13. q <= v /\ v < (s + 1) * (s + 1)
  BY <1>8, <1>9, <1>12
<1> QED
  BY <1>8, <1>11, <1>13, Zenon

\* FSQRT on cells of any width up to the code's: the greatest cell whose square is not above
\* the number, which for a negative one is nothing.
THEOREM RootsAreExact == \A x \in Cell : RootIsExact(x)
<1> TAKE x \in Cell
<1> PICK w, m, h : w = (IF x < 0 THEN 0 ELSE x) /\ m = One /\ h = MOST + 1
  OBVIOUS
<1> PICK v : v = w * m
  OBVIOUS
<1>1. /\ w \in Nat /\ w < h /\ m \in Nat \ {0} /\ h \in Nat \ {0} /\ Cells \in Nat \ {0}
      /\ Cells = m * m /\ Cells = 2 * h
  BY CellsAre, Sizes
<1>2. m <= h /\ m <= Cells
  <2> PICK f : f = HalfOne
    OBVIOUS
  <2>1. f \in Nat \ {0} /\ f * m = h
    BY CellsAre, Sizes
  <2>2. m * 1 <= m * f /\ m * f = f * m
    BY <1>1, <2>1, TimesLess
  <2> QED
    BY <1>1, <2>1, <2>2
<1>3. v \in Nat /\ v < h * h
  <2>1. v \in Nat
    BY <1>1, TimesNat
  <2>2. m * w < m * h
    BY <1>1, TimesBelow
  <2>3. h * m <= h * h
    BY <1>1, <1>2, TimesLess
  <2>4. m * w = v /\ h * m = m * h /\ m * h \in Int /\ h * h \in Int /\ v \in Int
    <3>1. m \in Int /\ w \in Int /\ h \in Int
      BY <1>1
    <3> QED
      BY <3>1, Times, Zenon
  <2> QED
    BY <2>1, <2>2, <2>3, <2>4
<1>4. v < Cells * Cells
  <2>1. h * h <= h * Cells /\ h * Cells = Cells * h /\ Cells * h <= Cells * Cells /\ h * h \in Int /\ h * Cells \in Int /\ Cells * Cells \in Int
    <3>1. h \in Int /\ Cells \in Int /\ h \in Nat /\ Cells \in Nat /\ h <= Cells
      BY <1>1
    <3> QED
      BY <3>1, Times, TimesLess, Zenon
  <2> QED
    BY <1>3, <2>1
<1> PICK s : s = Usqrt64(v)
  OBVIOUS
<1>5. s \in Nat /\ s * s <= v /\ v < (s + 1) * (s + 1)
  BY <1>3, <1>4, LongRoot, Zenon
<1>6. s < h
  <2> SUFFICES ASSUME h <= s PROVE FALSE
    BY <1>1, <1>5
  <2>1. h * h <= h * s /\ s * h <= s * s /\ h * s = s * h /\ h * h \in Int /\ h * s \in Int /\ s * s \in Int
    <3>1. h \in Int /\ s \in Int /\ h \in Nat /\ s \in Nat
      BY <1>1, <1>5
    <3> QED
      BY <3>1, Times, TimesLess, Zenon
  <2> QED
    BY <1>3, <1>5, <2>1
<1>7. s % Cells = s
  <2>1. s < Cells
    BY <1>1, <1>5, <1>6
  <2> QED
    BY <1>1, <1>5, <2>1, SmallIs
<1>8. Signed(s) = s
  <2>1. ~ (s > MOST)
    BY <1>5, <1>6, CellsAre
  <2> QED
    BY <2>1, Zenon DEF Signed
<1>9. FSqrt(x) = s
  <2>1. FSqrt(x) = Signed(Usqrt64((IF x < 0 THEN 0 ELSE x) * 2^HALF) % 2^BITS)
    BY Zenon DEF FSqrt
  <2> QED
    BY <1>7, <1>8, <2>1, Zenon DEF One, Cells
<1>10. s >= 0
  BY <1>5
<1> QED
  BY <1>5, <1>9, <1>10, Zenon DEF RootIsExact, One

\* A cell, cut to its bits and read with its sign, is itself.
LEMMA SignedIs ==
  ASSUME NEW c \in Cell
  PROVE  Signed(c % Cells) = c
<1>1. c \in Int /\ -MOST - 1 <= c /\ c <= MOST /\ MOST \in Nat /\ Cells = 2 * (MOST + 1) /\ Cells \in Nat \ {0}
  BY CellsAre, Sizes
<1>2. CASE 0 <= c
  <2>1. c \in Nat /\ c < Cells
    BY <1>1, <1>2
  <2>2. c % Cells = c
    BY <1>1, <2>1, SmallIs
  <2>3. ~ (c > MOST)
    BY <1>1
  <2> QED
    BY <2>2, <2>3, Zenon DEF Signed
<1>3. CASE c < 0
  <2> PICK b, r : b = Cells /\ r = c + Cells
    OBVIOUS
  <2>1. b \in Nat \ {0} /\ r \in Int /\ 0 <= r /\ r < b /\ c = b * (-1) + r /\ -1 \in Int
    BY <1>1, <1>3
  <2>2. c % b = r
    BY <1>1, <2>1, QuotientIs
  <2>3. r > MOST /\ r - b = c
    BY <1>1, <1>3
  <2> QED
    BY <2>2, <2>3, Zenon DEF Signed, Cells
<1> QED
  BY <1>1, <1>2, <1>3

LEMMA TimesBack ==
   \A a \in Int, b \in Int : (-a) * b = -(a * b) /\ a * (-b) = -(a * b) /\ (-a) * (-b) = a * b
OBVIOUS

LEMMA TimesMinus == \A a \in Int, b \in Int, c \in Int : a * (b - c) = a * b - a * c
OBVIOUS

LEMMA NotBelow == \A d \in Nat \ {0}, a \in Int, b \in Int : d * a < d * b => a < b
<1> TAKE d \in Nat \ {0}, a \in Int, b \in Int
<1> HAVE d * a < d * b
<1>1. b <= a => d * b <= d * a
  BY TimesLess
<1>2. d * a \in Int /\ d * b \in Int
  BY Times
<1> QED
  BY <1>1, <1>2

\* F* after F/: within the divisor's worth of a last place, and one for the cutting off, at
\* every number and divisor where nothing was clamped.
THEOREM MultiplyingUndoesDividing == \A x \in Cell : \A y \in Cell \ {0} : MulUndoesDiv(x, y)
<1> TAKE x \in Cell
<1> TAKE y \in Cell \ {0}
<1> PICK a, b, m, z : a = Abs(x) /\ b = Abs(y) /\ m = One /\ z = FDiv(x, y)
  OBVIOUS
<1>21. PICK n, q, r : n = a * m /\ q = n \div b /\ r = n % b
  OBVIOUS
<1> SUFFICES ASSUME z \in LEAST + 1 .. MOST - 1
             PROVE  Abs(FMul(z, y) - x) * m < b + m
  BY Zenon DEF MulUndoesDiv, One
<1>1. /\ a \in Nat /\ b \in Nat \ {0} /\ m \in Nat \ {0} /\ x \in Int /\ y \in Int /\ MOST \in Nat
      /\ a = (IF x < 0 THEN -x ELSE x) /\ b = (IF y < 0 THEN -y ELSE y)
      /\ LEAST = - MOST - 1 /\ LEAST <= x /\ x <= MOST
  BY CellsAre, Sizes DEF Abs
<1>2. n \in Nat /\ n = m * a
  BY <1>1, <1>21
<1>3. q \in Nat /\ r \in Nat /\ r < b /\ n = b * q + r
  BY <1>1, <1>2, <1>21, DividedNat
<1> PICK neg \in BOOLEAN : neg = ((x < 0) # (y < 0))
  OBVIOUS
<1>4. z = IF neg THEN - q ELSE q
  <2>1. /\ q > MOST => z = IF neg THEN LEAST ELSE MOST
        /\ q <= MOST => z = IF neg THEN - q ELSE q
    BY <1>21, FDivIs, Zenon
  <2> QED
    BY <1>1, <1>3, <2>1
<1>22. PICK p, g : p = b * q /\ g = z * y
  OBVIOUS
<1>5. p \in Nat /\ p <= n /\ n < p + b
  <2>1. p \in Nat /\ n = p + r /\ b \in Nat
    <3>1. b \in Nat /\ q \in Nat
      BY <1>1, <1>3
    <3> QED
      BY <1>3, <1>22, <3>1, TimesNat, Zenon
  <2>2. r \in Nat /\ r < b
    BY <1>3, Zenon
  <2> QED
    BY <2>1, <2>2
<1>6. g = IF x < 0 THEN - p ELSE p
  <2>0. q \in Int /\ y \in Int /\ b \in Int /\ q * b = p
    <3>1. q \in Int /\ b \in Int
      BY <1>1, <1>3
    <3> QED
      BY <1>1, <1>22, <3>1, Times, Zenon
  <2>1. CASE x < 0 /\ y < 0
    <3>0. b = -y /\ y = -b
      BY <1>1, <2>1
    <3>3. z = q
      BY <1>4, <2>1, Zenon
    <3>1. z = q /\ b = -y /\ y = -b
      BY <3>0, <3>3, Zenon
    <3>2. q * (-b) = -(q * b)
      BY <2>0, TimesBack, Zenon
    <3> QED
      BY <1>22, <2>0, <2>1, <3>1, <3>2, Zenon
  <2>2. CASE x < 0 /\ ~ (y < 0)
    <3>0. b = y
      BY <1>1, <2>2
    <3>3. z = -q
      BY <1>4, <2>2, Zenon
    <3>1. z = -q /\ b = y
      BY <3>0, <3>3, Zenon
    <3>2. (-q) * b = -(q * b)
      BY <2>0, TimesBack, Zenon
    <3> QED
      BY <1>22, <2>0, <2>2, <3>1, <3>2, Zenon
  <2>3. CASE ~ (x < 0) /\ y < 0
    <3>0. b = -y /\ y = -b
      BY <1>1, <2>3
    <3>3. z = -q
      BY <1>4, <2>3, Zenon
    <3>1. z = -q /\ b = -y /\ y = -b
      BY <3>0, <3>3, Zenon
    <3>2. (-q) * (-b) = q * b
      BY <2>0, TimesBack, Zenon
    <3> QED
      BY <1>22, <2>0, <2>3, <3>1, <3>2, Zenon
  <2>4. CASE ~ (x < 0) /\ ~ (y < 0)
    <3>0. b = y
      BY <1>1, <2>4
    <3>4. (x < 0) = (y < 0)
      BY <1>1, <2>4
    <3>3. z = q
      BY <1>4, <3>4, Zenon
    <3>1. z = q /\ b = y
      BY <3>0, <3>3, Zenon
    <3> QED
      BY <1>22, <2>0, <2>4, <3>1, Zenon
  <2> QED
    BY <2>1, <2>2, <2>3, <2>4
<1>23. PICK f, s : f = g \div m /\ s = g % m
  OBVIOUS
<1>7. g \in Int /\ f \in Int /\ s \in Nat /\ s < m /\ g = m * f + s
  <2>1. g \in Int
    BY <1>5, <1>6
  <2> QED
    BY <1>1, <1>23, <2>1, Divided
<1>24. PICK u : u = m * f
  OBVIOUS
<1>8. u \in Int /\ g = u + s
  <2>1. m \in Int
    BY <1>1
  <2>2. u \in Int
    BY <1>7, <1>24, <2>1, Times, Zenon
  <2> QED
    BY <1>7, <1>24, <2>2, Zenon
<1>9. n = IF x < 0 THEN -(m * x) ELSE m * x
  <2>1. m \in Int /\ a \in Int /\ m * (-x) = -(m * x)
    BY <1>1, TimesBack
  <2> QED
    BY <1>1, <1>2, <2>1, Zenon
<1>10. m * x \in Int /\ m * (f - x) = u - m * x /\ m * (x - f) = m * x - u
  <2>1. m \in Int
    BY <1>1
  <2>2. f \in Int /\ x \in Int
    BY <1>1, <1>7
  <2>3. m * x \in Int
    BY <2>1, <2>2, Times, Zenon
  <2>4. m * (f - x) = m * f - m * x /\ m * (x - f) = m * x - m * f
    BY <2>1, <2>2, TimesMinus, Zenon
  <2> QED
    BY <1>24, <2>3, <2>4, Zenon
<1>16. /\ n \in Nat /\ p \in Nat /\ p <= n /\ n < p + b /\ u \in Int /\ g = u + s /\ s \in Nat /\ s < m
       /\ b \in Nat \ {0} /\ m \in Nat \ {0}
  BY <1>1, <1>2, <1>5, <1>7, <1>8, Zenon
<1>17. f \in Int /\ x \in Int /\ LEAST <= x /\ x <= MOST /\ MOST \in Nat /\ LEAST = - MOST - 1 /\ Cell = LEAST .. MOST
  BY <1>1, <1>7, CellsAre, Zenon
<1>11. ASSUME x < 0 PROVE f \in Cell /\ m * Abs(f - x) < b + m
  <2>20. PICK w : w = m * x
    OBVIOUS
  <2>1. w \in Int /\ g = - p /\ n = - w
    BY <1>6, <1>9, <1>10, <1>11, <2>20, Zenon
  <2>2. u - w < b /\ w - u < m
    BY <1>16, <2>1
  <2>3. m * (x - f) < m * 1
    <3>1. m * 1 = m
      BY <1>16
    <3> QED
      BY <1>10, <2>2, <2>20, <3>1, Zenon
  <2>4. x - f < 1
    BY <1>17, <1>16, <2>3, NotBelow
  <2>5. f <= 0
    <3>3. u < m * 1
      BY <1>16, <2>1
    <3>1. m * f < m * 1
      BY <1>24, <3>3, Zenon
    <3>2. f < 1
      BY <1>17, <1>16, <3>1, NotBelow
    <3> QED
      BY <1>7, <3>2
  <2>6. f \in Cell
    BY <1>17, <2>4, <2>5
  <2>7. Abs(f - x) = f - x
    BY <1>17, <2>4 DEF Abs
  <2>8. m * (f - x) < b + m
    <3>1. u - w < b + m
      BY <1>16, <2>1, <2>2
    <3>2. m * (f - x) = u - w
      BY <1>8, <1>10, <2>20, Zenon
    <3> QED
      BY <3>1, <3>2, Zenon
  <2> QED
    BY <2>6, <2>7, <2>8, Zenon
<1>12. ASSUME ~ (x < 0) PROVE f \in Cell /\ m * Abs(f - x) < b + m
  <2>20. PICK w : w = m * x
    OBVIOUS
  <2>1. w \in Int /\ g = p /\ n = w
    BY <1>6, <1>9, <1>10, <1>12, <2>20, Zenon
  <2>2. w - u < b + m /\ u - w <= 0 /\ u > - m
    BY <1>16, <2>1
  <2>3. m * (f - x) < m * 1
    <3>1. u - w < m * 1
      BY <1>16, <2>1, <2>2
    <3> QED
      BY <1>10, <2>20, <3>1, Zenon
  <2>4. f - x < 1
    BY <1>17, <1>16, <2>3, NotBelow
  <2>5. 0 <= f
    <3>3. m * (-1) < u
      BY <1>16, <2>2
    <3>1. m * (-1) < m * f
      BY <1>24, <3>3, Zenon
    <3>2. -1 < f
      BY <1>17, <1>16, <3>1, NotBelow
    <3> QED
      BY <1>7, <3>2
  <2>6. f \in Cell
    BY <1>17, <2>4, <2>5
  <2>7. Abs(f - x) = x - f
    BY <1>17, <2>4 DEF Abs
  <2>8. m * (x - f) < b + m
    <3>1. w - u < b + m
      BY <1>16, <2>1, <2>2
    <3>2. m * (x - f) = w - u
      BY <1>8, <1>10, <2>20, Zenon
    <3> QED
      BY <3>1, <3>2, Zenon
  <2> QED
    BY <2>6, <2>7, <2>8, Zenon
<1>13. f \in Cell /\ m * Abs(f - x) < b + m
  BY <1>11, <1>12, Zenon
<1>14. FMul(z, y) = f
  <2>1. FMul(z, y) = Signed(((z * y) \div 2^HALF) % 2^BITS)
    BY DEF FMul, FixedMul
  <2>2. FMul(z, y) = Signed(f % Cells)
    BY <1>22, <1>23, <2>1, Zenon DEF One, Cells
  <2> QED
    BY <1>13, <2>2, SignedIs, Zenon
<1>15. Abs(f - x) * m = m * Abs(f - x)
  <2>1. f - x \in Int /\ m \in Int
    BY <1>1, <1>7
  <2>2. Abs(f - x) \in Int
    BY <2>1 DEF Abs
  <2> QED
    BY <2>1, <2>2, Times, Zenon
<1> QED
  BY <1>13, <1>14, <1>15, Zenon
=============================================================================
