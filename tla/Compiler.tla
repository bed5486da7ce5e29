----------------------------- MODULE Compiler -----------------------------
(***************************************************************************)
(* src/src/forth.c compiling definitions: the thread of the one under      *)
(* construction (ControlFlow) in the dictionary it is laid down in         *)
(* (Dictionary).  A word of the source takes one slot there, or none.      *)
(***************************************************************************)
EXTENDS Dictionary, ControlFlow

vars == <<dvars, cvars>>

Init == NoWords /\ NoThread

\* Bound: control words are written in the first definition only, with no app open.
Structured == NextId = 2 /\ apps = <<>>

\* Bound: [ is written where no structure is open.
Bracketed == Complete /\ Bracket

Begin == Colon /\ Thread("compiling")

\* A word of the definition: what fails takes the definition back.
WordStep ==
  \E w \in Words :
    /\ state
    /\ w = "X" \/ Structured
    /\ Finds(w) /\ Size(w) > 0 => room(1)
    /\ Word(w)
    /\ IF flow' # "failed" THEN IF Size(w) = 0 THEN UNCHANGED dvars ELSE Compile
       ELSE IF Finds(w) /\ LaysOn(w) THEN Spill ELSE Error

\* The dictionary is full at the k-th cell of w.
Overflows ==
  \E w \in Words : \E k \in 1 .. Most(w) :
    /\ state /\ ~room(1)
    /\ w = "X" \/ Structured
    /\ Written(w) /\ Finds(w)
    /\ IF def_header # 0 /\ k < Most(w) THEN Spill ELSE Error
    /\ Dropped(WithoutRoom(w, k))

End ==
  /\ EndThread
  /\ IF Complete THEN Semi ELSE state /\ Error

\* error() empties the control stack too.
FailsAt == Fails /\ Thread("idle")

\* What is done between definitions: the thread of the last is of no interest.
Aside ==
  /\ Variable \/ Bracketed \/ Forget \/ Hide \/ Keep \/ AppOpen \/ AppClose
  /\ IF state \/ def_header # 0 THEN UNCHANGED cvars ELSE Dropped(Now)

Next == Begin \/ WordStep \/ Overflows \/ End \/ FailsAt \/ Aside

Spec == Init /\ [][Next]_vars

-----------------------------------------------------------------------------
(* Properties: those of the two, and                                       *)

\* What the variables hold.
TypeOK == WordsTypeOK /\ ThreadTypeOK

-----------------------------------------------------------------------------
(* What is said of the code and is not so (README, "What was found").      *)

\* "A failed definition must not be left half-linked in the dictionary" (forth.c, error): it
\* is not found once something has failed.
FailedAreUnlinked == [][FailsAt => {mem[h].id : h \in Chain'} \subseteq whole]_vars
=============================================================================
