-------------------------------- MODULE Input --------------------------------
(***************************************************************************)
(* src/src/input.c: keyboards and controllers, sampled over the serial     *)
(* interface by two handlers that share what they remember of the sample   *)
(* before: input_poll(), once a frame, and input_break_check(), from       *)
(* inside a running program.  What went down between two samples is a      *)
(* press; a key's goes into the typeahead, a button's into the edges the   *)
(* poll leaves behind.                                                     *)
(*                                                                         *)
(* The hands on the devices move between any two samples.  A key stays     *)
(* down, and then up, for a sample at least: the hardware does not report  *)
(* what is quicker than that.  Mice, sticks and the translation of key     *)
(* codes are left out, and a key has the character it is named for.        *)
(***************************************************************************)
EXTENDS Integers, Sequences, FiniteSets, SequencesExt

CONSTANTS
  CHANNELS,     \* the channels of the serial interface, 1 .. CHANNELS
  Keyboards,    \* those where a keyboard is; there is a controller elsewhere
  Keys, Esc,    \* the keys, and the one among them that stops a program
  Buttons, Stop,\* the buttons, and those that stop a program when held together
  TYPEAHEAD,    \* input.c: places in the ring, one of which stays empty
  SECOND,       \* polls from one identification to the next, 60 in the code
  Unplugs       \* devices come and go

ASSUME InputAssumption ==
  /\ CHANNELS \in Nat /\ Keyboards \subseteq 1 .. CHANNELS
  /\ Esc \in Keys /\ IsFiniteSet(Keys) /\ Stop \subseteq Buttons
  /\ TYPEAHEAD \in Nat \ {0, 1} /\ SECOND \in Nat \ {0}
  /\ Unplugs \in BOOLEAN

VARIABLES
  here,         \* the channels with a device plugged in
  down,         \* what is held on each
  kind,         \* input.c: kind[], the channels identify() found a device on
  identify_countdown,
  kbd_last,     \* input.c: kbd_last[], one for all keyboards
  typed,        \* input.c: typed[], from typed_head to typed_tail
  last_buttons, \* input.c: last_buttons[]
  edges,        \* input.c: edges[]
  hit,          \* what input_break_check() returned last
  moving,       \* history: presses and releases no sample has seen
  heard,        \* history: how often a press was typed, told or taken as a break
  away          \* history: the channels whose device was ever pulled out

devices == <<here, down, moving>>
vars == <<devices, kind, identify_countdown, kbd_last, typed, last_buttons, edges, hit, heard, away>>

Channels == 1 .. CHANNELS
Codes(ch) == IF ch \in Keyboards THEN Keys ELSE Buttons
Pads == Channels \ Keyboards

------------------------------------------------------------------------------

(***************************************************************************)
(* The hands.                                                              *)
(***************************************************************************)

Press(ch, c) ==
  /\ ch \in here /\ c \notin down[ch] /\ <<ch, c>> \notin moving
  /\ down' = [down EXCEPT ![ch] = @ \cup {c}]
  /\ moving' = moving \cup {<<ch, c>>}
  /\ heard' = [heard EXCEPT ![ch][c] = 0]
  /\ UNCHANGED <<here, kind, identify_countdown, kbd_last, typed, last_buttons, edges, hit, away>>

Release(ch, c) ==
  /\ c \in down[ch] /\ <<ch, c>> \notin moving
  /\ down' = [down EXCEPT ![ch] = @ \ {c}]
  /\ moving' = moving \cup {<<ch, c>>}
  /\ UNCHANGED <<here, kind, identify_countdown, kbd_last, typed, last_buttons, edges, hit, heard, away>>

\* Pulling a device out lets go of everything on it.
Unplug(ch) ==
  /\ Unplugs /\ ch \in here
  /\ here' = here \ {ch}
  /\ down' = [down EXCEPT ![ch] = {}]
  /\ moving' = {p \in moving : p[1] # ch}
  /\ away' = away \cup {ch}
  /\ UNCHANGED <<kind, identify_countdown, kbd_last, typed, last_buttons, edges, hit, heard>>

\* One that comes back was away for longer than a second: it was missed.
Plug(ch) ==
  /\ ch \notin here /\ ch \notin kind
  /\ here' = here \cup {ch}
  /\ UNCHANGED <<down, moving, kind, identify_countdown, kbd_last, typed, last_buttons, edges,
                 hit, heard, away>>

------------------------------------------------------------------------------

(***************************************************************************)
(* A sample.  Only the channels of known are asked, and one that does not  *)
(* answer leaves the block as it was cleared: nothing is held.             *)
(***************************************************************************)

Reply(ch) == IF ch \in here THEN down[ch] ELSE {}

\* Mutant: no place is left empty.
Room_every_place(ring) == TYPEAHEAD - Len(ring)

\* What the ring still takes; without the empty place a full one would look empty.
Room(ring) == TYPEAHEAD - 1 - Len(ring)

\* What one keyboard shows that kbd_last does not went down.  It stops the program or
\* goes into the ring, while there is room; caught are the presses that were noticed.
CatchOn(n, p, breaks) ==
  LET new == Reply(n) \ p.last
      stops == IF breaks THEN new \cap {Esc} ELSE {}
      chars == SetToSeq(new \ stops)
      fit == IF Len(chars) < Room(p.typed) THEN Len(chars) ELSE Room(p.typed)
  IN [last |-> Reply(n), typed |-> p.typed \o SubSeq(chars, 1, fit),
      stop |-> p.stop \/ stops # {}, caught |-> p.caught \cup ({n} \X new)]

\* The keyboards in the order of their channels.
Catch(known, breaks) ==
  LET S[n \in 0 .. CHANNELS] ==
        IF n = 0 THEN [last |-> kbd_last, typed |-> typed, stop |-> FALSE, caught |-> {}]
        ELSE IF n \in known \cap Keyboards THEN CatchOn(n, S[n - 1], breaks) ELSE S[n - 1]
  IN S[CHANNELS]

Again(n) == IF n = 2 THEN 2 ELSE n + 1

\* The history of a sample: what it saw has moved, and what it noticed was heard once more.
Heard(seen, noticed) ==
  /\ moving' = {p \in moving : p[1] \notin seen}
  /\ heard' = [ch \in Channels |-> [c \in Codes(ch) |->
                 IF <<ch, c>> \in noticed THEN Again(heard[ch][c]) ELSE heard[ch][c]]]

------------------------------------------------------------------------------

(***************************************************************************)
(* Once a second the channels are asked what is there, and the poll asks   *)
(* those it knows.  A channel that has no controller any more forgets what *)
(* was held on it.                                                         *)
(***************************************************************************)
InputPoll ==
  LET due == identify_countdown <= 1
      known == IF due THEN here ELSE kind
      c == Catch(known, FALSE)
      now == [ch \in Channels |-> IF ch \in known \cap Pads THEN Reply(ch) ELSE {}]
      new == [ch \in Channels |-> now[ch] \ last_buttons[ch]]
  IN /\ kind' = known
     /\ identify_countdown' = IF due THEN SECOND ELSE identify_countdown - 1
     /\ typed' = c.typed /\ kbd_last' = c.last
     /\ edges' = new /\ last_buttons' = now
     /\ Heard(known, c.caught \cup UNION {{ch} \X new[ch] : ch \in Pads})
     /\ UNCHANGED <<here, down, hit, away>>

\* Mutant: a check that stops leaves the keyboard for the poll to sample again.
InputBreakCheck_forgets(keyboard_breaks) ==
  LET c == Catch(kind, keyboard_breaks)
  IN /\ hit' = (c.stop \/ \E ch \in kind \cap Pads : Stop \subseteq Reply(ch))
     /\ typed' = c.typed /\ kbd_last' = IF c.stop THEN kbd_last ELSE c.last
     /\ Heard(kind \cap Keyboards, c.caught)
     /\ UNCHANGED <<here, down, kind, identify_countdown, last_buttons, edges, away>>

(***************************************************************************)
(* The check a running program makes.  It asks only the channels that were *)
(* known, and of the controllers it remembers nothing.                     *)
(***************************************************************************)
InputBreakCheck(keyboard_breaks) ==
  LET c == Catch(kind, keyboard_breaks)
  IN /\ hit' = (c.stop \/ \E ch \in kind \cap Pads : Stop \subseteq Reply(ch))
     /\ typed' = c.typed /\ kbd_last' = c.last
     /\ Heard(kind \cap Keyboards, c.caught)
     /\ UNCHANGED <<here, down, kind, identify_countdown, last_buttons, edges, away>>

InputGetchar ==
  /\ typed # <<>>
  /\ typed' = Tail(typed)
  /\ UNCHANGED <<devices, kind, identify_countdown, kbd_last, last_buttons, edges, hit, heard, away>>

(***************************************************************************)
(* A window opens: a poll from nothing known, whose edges are thrown away, *)
(* for what is held now was pressed to get here.  The keyboard is not      *)
(* forgotten.                                                              *)
(***************************************************************************)
InputInit ==
  LET c == Catch(here, FALSE)
      now == [ch \in Channels |-> IF ch \in Pads THEN Reply(ch) ELSE {}]
  IN /\ kind' = here
     /\ identify_countdown' = SECOND
     /\ typed' = c.typed /\ kbd_last' = c.last
     /\ edges' = [ch \in Channels |-> {}] /\ last_buttons' = now
     /\ Heard(here, c.caught \cup {p \in UNION {{ch} \X now[ch] : ch \in Pads} :
                                     heard[p[1]][p[2]] = 0})
     /\ UNCHANGED <<here, down, hit, away>>

------------------------------------------------------------------------------

\* kernel.c: everything is plugged in, or not, and nothing is held when the machine starts.
Init ==
  /\ here \in (IF Unplugs THEN SUBSET Channels ELSE {Channels})
  /\ down = [ch \in Channels |-> {}] /\ moving = {}
  /\ kind = here
  /\ identify_countdown = SECOND
  /\ kbd_last = {} /\ typed = <<>>
  /\ last_buttons = [ch \in Channels |-> {}] /\ edges = [ch \in Channels |-> {}]
  /\ hit = FALSE /\ away = {}
  /\ heard = [ch \in Channels |-> [c \in Codes(ch) |-> 0]]

Next ==
  \/ \E ch \in Channels : \E c \in Codes(ch) : Press(ch, c) \/ Release(ch, c)
  \/ \E ch \in Channels : Unplug(ch) \/ Plug(ch)
  \/ InputPoll
  \/ \E keyboard_breaks \in BOOLEAN : InputBreakCheck(keyboard_breaks)
  \/ InputGetchar
  \/ InputInit

Spec == Init /\ [][Next]_vars

------------------------------------------------------------------------------

(***************************************************************************)
(* The shape of the state: the ring never holds more than it has places    *)
(* for, one of which stays empty.                                          *)
(***************************************************************************)
TypeOK ==
  /\ {here, kind, away} \subseteq SUBSET Channels
  /\ \A ch \in Channels : down[ch] \cup last_buttons[ch] \cup edges[ch] \subseteq Codes(ch) \cup Buttons
  /\ identify_countdown \in 0 .. SECOND
  /\ kbd_last \subseteq Keys
  /\ typed \in Seq(Keys) /\ Len(typed) < TYPEAHEAD
  /\ hit \in BOOLEAN
  /\ \A ch \in Channels : \A c \in Codes(ch) : heard[ch][c] \in 0 .. 2

(***************************************************************************)
(* "Keys are caught as they go down, at every poll, and queued": a press   *)
(* of a key is typed, or stops the program, once -- by the poll or by the  *)
(* check, whichever sampled it first, however long it is held and however  *)
(* many windows open over it -- unless it found the ring full.  On a       *)
(* keyboard that was pulled out it may be missed.  And one press of a      *)
(* button is in the edges of exactly one poll: the checks a program makes  *)
(* between two polls neither take it nor double it, and one that opened a  *)
(* window is not told again in it.                                         *)
(***************************************************************************)
PressedOnce ==
  \A ch \in Channels : \A c \in Codes(ch) :
    /\ heard[ch][c] < 2
    /\ c \in down[ch] /\ <<ch, c>> \notin moving /\ ch \notin away \cap Keyboards =>
         heard[ch][c] = 1

-----------------------------------------------------------------------------
(* What is said of the code and is not so (README, "What was found").      *)

\* input.c, "keys are caught as they go down": on any keyboard.
KeyCaught ==
  \A ch \in Keyboards : \A c \in down[ch] : <<ch, c>> \notin moving => heard[ch][c] > 0
==============================================================================
