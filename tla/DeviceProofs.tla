----------------------------- MODULE DeviceProofs -----------------------------
(***************************************************************************)
(* The keyboards and controllers (Input) and the sound (Audio).            *)
(*                                                                         *)
(* Input: the state keeps its shape, and with one keyboard at most every   *)
(* press is heard once, whichever of the two handlers samples it first.    *)
(* What carries the proof is that what is remembered of a device is what   *)
(* it showed when it was sampled last: it differs from what is held now    *)
(* by what has moved since.                                                *)
(*                                                                         *)
(* Audio: the buffer that plays is not written, as the interface has two   *)
(* at most, the last that were filled; and no sample is lost, as a turn of *)
(* fill() takes the first of what is left in the ring.                     *)
(***************************************************************************)
EXTENDS Input, Audio, NumberLemmas, FiniteSetTheorems, SequenceTheorems

USE InputAssumption DEF InputAssumption

\* The domains of the variables, beside what TypeOK says of their values.
Shape ==
  /\ here \in SUBSET Channels /\ kind \in SUBSET Channels /\ away \in SUBSET Channels
  /\ DOMAIN down = Channels /\ \A ch \in Channels : down[ch] \subseteq Codes(ch)
  /\ last_buttons \in [Channels -> SUBSET Buttons]
  /\ edges \in [Channels -> SUBSET Buttons]
  /\ identify_countdown \in 0 .. SECOND
  /\ kbd_last \in SUBSET Keys
  /\ typed \in Seq(Keys) /\ Len(typed) < TYPEAHEAD
  /\ hit \in BOOLEAN
  /\ DOMAIN heard = Channels /\ \A ch \in Channels : heard[ch] \in [Codes(ch) -> 0 .. 2]

\* Nothing is held on a channel with nothing on it, and nothing has moved there.
NothingOnEmpty ==
  \A ch \in Channels \ here : down[ch] = {} /\ \A p \in moving : p[1] # ch

\* What was remembered of a channel and what is held on it differ by what has moved.
Remembers(ch, last) ==
  \A c \in Codes(ch) : c \in last <=> ~ (c \in down[ch] <=> <<ch, c>> \in moving)

\* All keyboards share one kbd_last.
OneKeyboard == \A k, n \in Keyboards : k = n

------------------------------------------------------------------------------
(* A sample of the keyboards.                                              *)

\* What the turns of the sample hand on.
Catches == [last : SUBSET Keys, typed : {s \in Seq(Keys) : Len(s) < TYPEAHEAD},
            stop : BOOLEAN, caught : SUBSET (Keyboards \X Keys)]

\* The characters that are put in the ring are keys of the keyboard.
LEMMA CharsAreKeys ==
  ASSUME NEW S \in SUBSET Keys
  PROVE  SetToSeq(S) \in Seq(Keys)
<1>1. IsFiniteSet(S)
  BY FS_Subset
<1>2. Cardinality(S) \in Nat /\ ExistsBijection(1 .. Cardinality(S), S)
  BY <1>1, FS_CardinalityType
<1>3. \E f \in [1 .. Cardinality(S) -> S] : IsInjective(f)
  <2>1. PICK f \in Bijection(1 .. Cardinality(S), S) : TRUE
    BY <1>2 DEF ExistsBijection
  <2>2. f \in [1 .. Cardinality(S) -> S] /\ IsInjective(f)
    BY <2>1 DEF Bijection, Injection, IsInjective
  <2> QED
    BY <2>2
<1>4. SetToSeq(S) \in [1 .. Cardinality(S) -> S]
  BY <1>3, Zenon DEF SetToSeq
<1> QED
  BY <1>2, <1>4

LEMMA ReplyType ==
  ASSUME Shape, NEW n \in Channels
  PROVE  /\ Reply(n) \subseteq Codes(n)
         /\ n \in Keyboards => Reply(n) \in SUBSET Keys
         /\ n \in Pads => Reply(n) \in SUBSET Buttons
BY DEF Shape, Reply, Codes, Pads

\* One keyboard leaves the ring within its places, whatever it shows.
LEMMA CatchOnType ==
  ASSUME Shape, NEW n \in Keyboards, NEW p \in Catches, NEW breaks \in BOOLEAN
  PROVE  /\ CatchOn(n, p, breaks) \in Catches
         /\ CatchOn(n, p, breaks).last = Reply(n)
         /\ CatchOn(n, p, breaks).caught = p.caught \cup ({n} \X (Reply(n) \ p.last))
<1> DEFINE new == Reply(n) \ p.last
           stops == IF breaks THEN new \cap {Esc} ELSE {}
           chars == SetToSeq(new \ stops)
           fit == IF Len(chars) < Room(p.typed) THEN Len(chars) ELSE Room(p.typed)
<1>1. Reply(n) \in SUBSET Keys
  BY ReplyType DEF Channels
<1>2. /\ p.last \in SUBSET Keys /\ p.typed \in Seq(Keys) /\ Len(p.typed) < TYPEAHEAD
      /\ p.stop \in BOOLEAN /\ p.caught \in SUBSET (Keyboards \X Keys)
  BY DEF Catches
<1>3. chars \in Seq(Keys)
  <2>1. new \ stops \in SUBSET Keys
    BY <1>1
  <2> HIDE DEF stops, new
  <2> QED
    BY <2>1, CharsAreKeys
<1>4. /\ new \in SUBSET Keys /\ (stops # {}) \in BOOLEAN
  BY <1>1
<1>5. CatchOn(n, p, breaks) =
        [last |-> Reply(n), typed |-> p.typed \o SubSeq(chars, 1, fit),
         stop |-> p.stop \/ stops # {}, caught |-> p.caught \cup ({n} \X new)]
  BY Zenon DEF CatchOn
<1> HIDE DEF new, stops, chars
<1>6. fit \in 0 .. Len(chars) /\ Len(p.typed) + fit < TYPEAHEAD
  <2>1. Len(chars) \in Nat /\ Len(p.typed) \in Nat /\ Len(p.typed) < TYPEAHEAD
    BY <1>2, <1>3
  <2>2. \A c, t \in Nat : t < TYPEAHEAD =>
          LET f == IF c < TYPEAHEAD - 1 - t THEN c ELSE TYPEAHEAD - 1 - t
          IN f \in 0 .. c /\ t + f < TYPEAHEAD
    OBVIOUS
  <2>3. fit = IF Len(chars) < TYPEAHEAD - 1 - Len(p.typed) THEN Len(chars)
              ELSE TYPEAHEAD - 1 - Len(p.typed)
    BY Zenon DEF Room
  <2> HIDE DEF fit
  <2> QED
    BY <2>1, <2>2, <2>3
<1> HIDE DEF fit
<1>7. SubSeq(chars, 1, fit) \in Seq(Keys) /\ Len(SubSeq(chars, 1, fit)) = fit
  BY <1>3, <1>6
<1>8. p.typed \o SubSeq(chars, 1, fit) \in Seq(Keys)
      /\ Len(p.typed \o SubSeq(chars, 1, fit)) = Len(p.typed) + fit
  BY <1>2, <1>7
<1>9. p.typed \o SubSeq(chars, 1, fit) \in {s \in Seq(Keys) : Len(s) < TYPEAHEAD}
  BY <1>6, <1>8
<1>10. p.caught \cup ({n} \X new) \in SUBSET (Keyboards \X Keys)
  BY <1>2, <1>4
<1>11. (p.stop \/ stops # {}) \in BOOLEAN
  OBVIOUS
<1>12. CatchOn(n, p, breaks) \in Catches
  BY <1>1, <1>5, <1>9, <1>10, <1>11 DEF Catches
<1> QED
  BY <1>5, <1>12 DEF new

\* The turns of the sample, each from the one before.
CatchTurns(P, known, breaks) ==
  /\ P[0] = [last |-> kbd_last, typed |-> typed, stop |-> FALSE, caught |-> {}]
  /\ \A n \in 1 .. CHANNELS :
       P[n] = IF n \in known \cap Keyboards THEN CatchOn(n, P[n - 1], breaks) ELSE P[n - 1]
  /\ Catch(known, breaks) = P[CHANNELS]

LEMMA CatchLoop ==
  ASSUME Shape, NEW known, NEW breaks \in BOOLEAN
  PROVE  \E P \in [0 .. CHANNELS -> Catches] : CatchTurns(P, known, breaks)
<1> DEFINE base == [last |-> kbd_last, typed |-> typed, stop |-> FALSE, caught |-> {}]
           turn(p, n) == IF n \in known \cap Keyboards THEN CatchOn(n, p, breaks) ELSE p
           step == [n \in 1 .. CHANNELS |-> [p \in Catches |-> turn(p, n)]]
<1>1. base \in Catches
  BY DEF Shape, Catches
<1>2. ASSUME NEW n \in 1 .. CHANNELS, NEW p \in Catches PROVE turn(p, n) \in Catches
  BY CatchOnType
<1> HIDE DEF base, turn
<1>3. \A n \in 1 .. CHANNELS : \A p \in Catches : step[n][p] \in Catches
  BY <1>2
<1> HIDE DEF step
<1>4. PICK P \in [0 .. CHANNELS -> Catches] : LoopOf(P, CHANNELS, base, step)
  BY <1>1, <1>3, LoopExists
<1>5. ASSUME NEW n \in 1 .. CHANNELS PROVE P[n] = turn(P[n - 1], n)
  <2>1. P[n - 1] \in Catches /\ P[n] = step[n][P[n - 1]]
    <3>1. n - 1 \in 0 .. CHANNELS
      OBVIOUS
    <3> QED
      BY <3>1, <1>4 DEF LoopOf
  <2> QED
    BY <2>1 DEF step
<1> DEFINE Loop(Q) == Q = [n \in 0 .. CHANNELS |->
                             IF n = 0 THEN base
                             ELSE IF n \in known \cap Keyboards THEN CatchOn(n, Q[n - 1], breaks)
                             ELSE Q[n - 1]]
           R == CHOOSE Q : Loop(Q)
<1>6. Loop(P)
  BY <1>4, <1>5 DEF LoopOf, turn
<1>7. Loop(R)
  BY <1>6, Zenon
<1>8. Catch(known, breaks) = R[CHANNELS]
  BY Zenon DEF Catch, base
<1> HIDE DEF R
<1>9. R = [n \in 0 .. CHANNELS |-> R[n]] /\ R[0] = base
      /\ \A n \in 1 .. CHANNELS : R[n] = turn(R[n - 1], n)
  <2>1. 0 \in 0 .. CHANNELS /\ \A n \in 1 .. CHANNELS : n \in 0 .. CHANNELS /\ n # 0
    OBVIOUS
  <2> QED
    BY <1>7, <2>1 DEF turn
<1>10. \A n \in 0 .. CHANNELS : R[n] \in Catches
  <2> DEFINE G == {n \in 0 .. CHANNELS : R[n] \in Catches}
  <2>1. 0 \in G
    BY <1>1, <1>9
  <2>2. ASSUME NEW n \in 1 .. CHANNELS, n - 1 \in G PROVE n \in G
    <3>1. R[n - 1] \in Catches /\ n \in 0 .. CHANNELS
      BY <2>2
    <3> QED
      BY <1>2, <1>9, <3>1
  <2> HIDE DEF G
  <2>3. \A n \in 0 .. CHANNELS : n \in G
    BY <2>1, <2>2, UpTo
  <2> QED
    BY <2>3 DEF G
<1>11. R \in [0 .. CHANNELS -> Catches]
  BY <1>9, <1>10
<1>12. CatchTurns(R, known, breaks)
  BY <1>8, <1>9 DEF CatchTurns, turn, base
<1> QED
  BY <1>11, <1>12

\* What a sample makes of keyboard k if it is the only one: it remembers what it saw and
\* notices what is new, or it does neither, for the keyboard was not asked.
CaughtFrom(k, known, c) ==
  IF k \in known THEN c.last = Reply(k) /\ c.caught = {k} \X (Reply(k) \ kbd_last)
                 ELSE c.last = kbd_last /\ c.caught = {}

LEMMA CatchIs ==
  ASSUME Shape, NEW known \in SUBSET Channels, NEW breaks \in BOOLEAN
  PROVE  /\ Catch(known, breaks) \in Catches
         /\ OneKeyboard => \A k \in Keyboards : CaughtFrom(k, known, Catch(known, breaks))
<1>1. PICK P \in [0 .. CHANNELS -> Catches] : CatchTurns(P, known, breaks)
  BY CatchLoop
<1>2. /\ P[0] = [last |-> kbd_last, typed |-> typed, stop |-> FALSE, caught |-> {}]
      /\ \A n \in 1 .. CHANNELS :
           P[n] = IF n \in known \cap Keyboards THEN CatchOn(n, P[n - 1], breaks) ELSE P[n - 1]
      /\ Catch(known, breaks) = P[CHANNELS]
  BY <1>1, Zenon DEF CatchTurns
<1>3. Catch(known, breaks) \in Catches
  BY <1>2
<1>4. ASSUME NEW k \in Keyboards, OneKeyboard
      PROVE  CaughtFrom(k, known, P[CHANNELS])
  <2> DEFINE Before(p) == p.last = kbd_last /\ p.caught = {}
             After(p) == p.last = Reply(k) /\ p.caught = {k} \X (Reply(k) \ kbd_last)
             G == {n \in 0 .. CHANNELS : IF k \in known /\ k <= n THEN After(P[n])
                                                                  ELSE Before(P[n])}
  <2>0. k \in 1 .. CHANNELS
    BY DEF Channels
  <2>1. 0 \in G
    BY <1>2, <2>0
  <2>2. ASSUME NEW n \in 1 .. CHANNELS, n - 1 \in G PROVE n \in G
    <3>1. /\ n \in 0 .. CHANNELS /\ n - 1 \in 0 .. CHANNELS /\ P[n - 1] \in Catches
          /\ IF k \in known /\ k <= n - 1 THEN After(P[n - 1]) ELSE Before(P[n - 1])
      BY <2>2
    <3>2. CASE n \in known \cap Keyboards
      <4>1. n = k /\ P[n] = CatchOn(k, P[n - 1], breaks) /\ Before(P[n - 1])
        BY <1>2, <1>4, <3>1, <3>2 DEF OneKeyboard
      <4>2. After(P[n])
        <5>1. P[n].last = Reply(k) /\ P[n].caught = P[n - 1].caught \cup ({k} \X (Reply(k) \ P[n - 1].last))
          <6>1. P[n - 1] \in Catches
            BY <3>1
          <6>2. CatchOn(k, P[n - 1], breaks).last = Reply(k)
                /\ CatchOn(k, P[n - 1], breaks).caught =
                     P[n - 1].caught \cup ({k} \X (Reply(k) \ P[n - 1].last))
            BY <6>1, CatchOnType
          <6> QED
            BY <4>1, <6>2, Zenon
        <5> QED
          BY <4>1, <5>1
      <4> HIDE DEF After, Before
      <4> QED
        BY <3>1, <3>2, <4>1, <4>2
    <3>3. CASE n \notin known \cap Keyboards
      <4>1. P[n] = P[n - 1] /\ (k \in known => n # k)
        BY <1>2, <3>3
      <4> HIDE DEF After, Before
      <4> QED
        BY <2>0, <3>1, <4>1
    <3> QED
      BY <3>2, <3>3
  <2> HIDE DEF G
  <2>3. \A n \in 0 .. CHANNELS : n \in G
    BY <2>1, <2>2, UpTo
  <2> HIDE DEF After, Before
  <2>4. IF k \in known THEN After(P[CHANNELS]) ELSE Before(P[CHANNELS])
    BY <2>0, <2>3 DEF G
  <2> QED
    BY <2>4 DEF After, Before, CaughtFrom
<1> QED
  BY <1>2, <1>3, <1>4


------------------------------------------------------------------------------
(* The shape.                                                              *)

LEMMA HeardIs ==
  ASSUME NEW seen, NEW noticed, Heard(seen, noticed)
  PROVE  /\ \A ch \in Channels : \A c \in Codes(ch) :
              /\ <<ch, c>> \in moving' <=> <<ch, c>> \in moving /\ ch \notin seen
              /\ heard'[ch][c] = IF <<ch, c>> \in noticed THEN Again(heard[ch][c])
                                                          ELSE heard[ch][c]
         /\ moving' \subseteq moving
<1>1. ASSUME NEW ch \in Channels, NEW c \in Codes(ch)
      PROVE  <<ch, c>> \in moving' <=> <<ch, c>> \in moving /\ ch \notin seen
  <2>1. <<ch, c>>[1] = ch
    OBVIOUS
  <2> QED
    BY <2>1, Zenon DEF Heard
<1>2. moving' \subseteq moving
  BY DEF Heard
<1>3. \A ch \in Channels : \A c \in Codes(ch) :
        heard'[ch][c] = IF <<ch, c>> \in noticed THEN Again(heard[ch][c]) ELSE heard[ch][c]
  BY Zenon DEF Heard
<1> QED
  BY <1>1, <1>2, <1>3, Zenon

\* What was heard is counted to two and no further.
LEMMA HeardType ==
  ASSUME Shape, NEW seen, NEW noticed, Heard(seen, noticed)
  PROVE  DOMAIN heard' = Channels /\ \A ch \in Channels : heard'[ch] \in [Codes(ch) -> 0 .. 2]
<1>1. DOMAIN heard' = Channels
  BY DEF Heard
<1>2. ASSUME NEW ch \in Channels PROVE heard'[ch] \in [Codes(ch) -> 0 .. 2]
  <2>1. heard'[ch] = [c \in Codes(ch) |->
                        IF <<ch, c>> \in noticed THEN Again(heard[ch][c]) ELSE heard[ch][c]]
    BY Zenon DEF Heard
  <2>2. \A c \in Codes(ch) : heard[ch][c] \in 0 .. 2 /\ Again(heard[ch][c]) \in 0 .. 2
    <3>1. \A n \in 0 .. 2 : Again(n) \in 0 .. 2
      BY DEF Again
    <3> QED
      BY <3>1 DEF Shape
  <2> QED
    BY <2>1, <2>2
<1> QED
  BY <1>1, <1>2

\* Whatever a sample knows, it leaves the keyboards' part well formed.
LEMMA CatchType ==
  ASSUME Shape, NEW known \in SUBSET Channels, NEW breaks \in BOOLEAN
  PROVE  /\ Catch(known, breaks).last \in SUBSET Keys
         /\ Catch(known, breaks).typed \in Seq(Keys)
         /\ Len(Catch(known, breaks).typed) < TYPEAHEAD
         /\ Catch(known, breaks).stop \in BOOLEAN
<1>1. Catch(known, breaks) \in Catches
  BY CatchIs
<1> QED
  BY <1>1 DEF Catches

LEMMA ShapeInit == Init => Shape /\ NothingOnEmpty
<1> SUFFICES ASSUME Init PROVE Shape /\ NothingOnEmpty
  OBVIOUS
<1>1. here \in SUBSET Channels
  BY DEF Init
<1>2. typed \in Seq(Keys) /\ Len(typed) < TYPEAHEAD
  <2>1. typed = <<>> /\ TYPEAHEAD > 0
    BY DEF Init
  <2> QED
    BY <2>1
<1>3. DOMAIN heard = Channels /\ \A ch \in Channels : heard[ch] \in [Codes(ch) -> 0 .. 2]
  BY DEF Init
<1>4. DOMAIN down = Channels /\ (\A ch \in Channels : down[ch] = {}) /\ moving = {}
  BY DEF Init
<1>5. /\ last_buttons = [ch \in Channels |-> {}] /\ edges = [ch \in Channels |-> {}]
      /\ identify_countdown = SECOND /\ kbd_last = {} /\ hit = FALSE /\ kind = here /\ away = {}
  BY Zenon DEF Init
<1>6. [ch \in Channels |-> {}] \in [Channels -> SUBSET Buttons] /\ SECOND \in 0 .. SECOND
  OBVIOUS
<1>7. Shape
  BY <1>1, <1>2, <1>3, <1>4, <1>5, <1>6 DEF Shape
<1> QED
  BY <1>4, <1>7 DEF NothingOnEmpty

\* The hands keep the shape.
LEMMA HandsShape ==
  ASSUME Shape, NothingOnEmpty, NEW ch \in Channels, NEW c,
         \/ c \in Codes(ch) /\ (Press(ch, c) \/ Release(ch, c))
         \/ Unplug(ch) \/ Plug(ch)
  PROVE  Shape' /\ NothingOnEmpty'
<1>1. CASE c \in Codes(ch) /\ Press(ch, c)
  <2>1. /\ DOMAIN down' = Channels
        /\ \A h \in Channels : down'[h] = IF h = ch THEN down[h] \cup {c} ELSE down[h]
    BY <1>1 DEF Press, Shape
  <2>2. \A h \in Channels : down'[h] \subseteq Codes(h)
    BY <1>1, <2>1 DEF Shape
  <2>3. DOMAIN heard' = Channels /\ \A h \in Channels : heard'[h] \in [Codes(h) -> 0 .. 2]
    BY <1>1 DEF Press, Shape
  <2>4. Shape'
    BY <1>1, <2>1, <2>2, <2>3 DEF Press, Shape
  <2>5. \A p \in moving' : p \in moving \/ p[1] = ch
    BY <1>1 DEF Press
  <2>6. NothingOnEmpty'
    BY <1>1, <2>1, <2>5 DEF Press, NothingOnEmpty
  <2> QED
    BY <2>4, <2>6
<1>2. CASE c \in Codes(ch) /\ Release(ch, c)
  <2>1. /\ DOMAIN down' = Channels
        /\ \A h \in Channels : down'[h] \subseteq down[h]
    BY <1>2 DEF Release, Shape
  <2>2. Shape'
    BY <1>2, <2>1 DEF Release, Shape
  <2>3. \A p \in moving' : p \in moving \/ p[1] = ch
    BY <1>2 DEF Release
  <2>4. ch \in here
    BY <1>2 DEF Release, NothingOnEmpty
  <2>5. NothingOnEmpty'
    BY <1>2, <2>1, <2>3, <2>4 DEF Release, NothingOnEmpty
  <2> QED
    BY <2>2, <2>5
<1>3. CASE Unplug(ch)
  <2>1. /\ DOMAIN down' = Channels
        /\ \A h \in Channels : down'[h] = IF h = ch THEN {} ELSE down[h]
    BY <1>3 DEF Unplug, Shape
  <2>2. Shape'
    BY <1>3, <2>1 DEF Unplug, Shape
  <2>3. NothingOnEmpty'
    BY <1>3, <2>1 DEF Unplug, NothingOnEmpty
  <2> QED
    BY <2>2, <2>3
<1>4. CASE Plug(ch)
  BY <1>4 DEF Plug, Shape, NothingOnEmpty
<1> QED
  BY <1>1, <1>2, <1>3, <1>4

\* The handlers keep the shape.
LEMMA HandlersShape ==
  ASSUME Shape, NothingOnEmpty,
         \/ InputPoll \/ (\E breaks \in BOOLEAN : InputBreakCheck(breaks))
         \/ InputGetchar \/ InputInit
  PROVE  Shape' /\ NothingOnEmpty'
<1>1. CASE InputPoll
  <2> DEFINE due == identify_countdown <= 1
             known == IF due THEN here ELSE kind
             now == [ch \in Channels |-> IF ch \in known \cap Pads THEN Reply(ch) ELSE {}]
             noticed == Catch(known, FALSE).caught \cup
                          UNION {{ch} \X (now[ch] \ last_buttons[ch]) : ch \in Pads}
  <2>1. known \in SUBSET Channels
    BY DEF Shape
  <2>2. now \in [Channels -> SUBSET Buttons]
    BY ReplyType
  <2>3. identify_countdown' \in 0 .. SECOND
    BY <1>1 DEF InputPoll, Shape
  <2>4. /\ kind' = known /\ UNCHANGED <<here, down, hit, away>>
        /\ typed' = Catch(known, FALSE).typed /\ kbd_last' = Catch(known, FALSE).last
        /\ edges' = [ch \in Channels |-> now[ch] \ last_buttons[ch]] /\ last_buttons' = now
    BY <1>1, Zenon DEF InputPoll
  <2>5. \E n : Heard(known, n)
    BY <1>1, Zenon DEF InputPoll
  <2> HIDE DEF known, now
  <2>6. edges' \in [Channels -> SUBSET Buttons]
    BY <2>2, <2>4
  <2>7. DOMAIN heard' = Channels /\ \A ch \in Channels : heard'[ch] \in [Codes(ch) -> 0 .. 2]
    BY <2>5, HeardType
  <2>8. moving' \subseteq moving
    BY <2>5, HeardIs
  <2>9. /\ kbd_last' \in SUBSET Keys /\ typed' \in Seq(Keys) /\ Len(typed') < TYPEAHEAD
    BY <2>1, <2>4, CatchType
  <2> QED
    BY <2>1, <2>2, <2>3, <2>4, <2>6, <2>7, <2>8, <2>9 DEF Shape, NothingOnEmpty
<1>2. ASSUME NEW breaks \in BOOLEAN, InputBreakCheck(breaks)
      PROVE  Shape' /\ NothingOnEmpty'
  <2>1. /\ UNCHANGED <<here, down, kind, identify_countdown, last_buttons, edges, away>>
        /\ typed' = Catch(kind, breaks).typed /\ kbd_last' = Catch(kind, breaks).last
    BY <1>2 DEF InputBreakCheck
  <2>2. \E s, n : Heard(s, n)
    BY <1>2, Zenon DEF InputBreakCheck
  <2>3. kind \in SUBSET Channels
    BY DEF Shape
  <2>4. hit' \in BOOLEAN
    <3>1. hit' = (Catch(kind, breaks).stop \/ \E ch \in kind \cap Pads : Stop \subseteq Reply(ch))
      BY <1>2, Zenon DEF InputBreakCheck
    <3> QED
      BY <3>1
  <2>5. DOMAIN heard' = Channels /\ \A ch \in Channels : heard'[ch] \in [Codes(ch) -> 0 .. 2]
    BY <2>2, HeardType
  <2>6. moving' \subseteq moving
    BY <2>2, HeardIs
  <2>7. /\ kbd_last' \in SUBSET Keys /\ typed' \in Seq(Keys) /\ Len(typed') < TYPEAHEAD
    BY <2>1, <2>3, CatchType
  <2> QED
    BY <2>1, <2>4, <2>5, <2>6, <2>7 DEF Shape, NothingOnEmpty
<1>3. CASE InputGetchar
  <2>1. typed' \in Seq(Keys) /\ Len(typed') < TYPEAHEAD
    BY <1>3 DEF InputGetchar, Shape
  <2> QED
    BY <1>3, <2>1 DEF InputGetchar, Shape, NothingOnEmpty, devices
<1>4. CASE InputInit
  <2> DEFINE now == [ch \in Channels |-> IF ch \in Pads THEN Reply(ch) ELSE {}]
  <2>1. here \in SUBSET Channels
    BY DEF Shape
  <2>2. now \in [Channels -> SUBSET Buttons]
    BY ReplyType
  <2>3. identify_countdown' \in 0 .. SECOND /\ edges' \in [Channels -> SUBSET Buttons]
    BY <1>4 DEF InputInit
  <2>4. /\ kind' = here /\ UNCHANGED <<here, down, hit, away>>
        /\ typed' = Catch(here, FALSE).typed /\ kbd_last' = Catch(here, FALSE).last
        /\ last_buttons' = now
    BY <1>4, Zenon DEF InputInit
  <2>5. \E n : Heard(here, n)
    BY <1>4, Zenon DEF InputInit
  <2> HIDE DEF now
  <2>6. DOMAIN heard' = Channels /\ \A ch \in Channels : heard'[ch] \in [Codes(ch) -> 0 .. 2]
    BY <2>5, HeardType
  <2>7. moving' \subseteq moving
    BY <2>5, HeardIs
  <2>8. /\ kbd_last' \in SUBSET Keys /\ typed' \in Seq(Keys) /\ Len(typed') < TYPEAHEAD
    BY <2>1, <2>4, CatchType
  <2> QED
    BY <2>1, <2>2, <2>3, <2>4, <2>6, <2>7, <2>8 DEF Shape, NothingOnEmpty
<1> QED
  BY <1>1, <1>2, <1>3, <1>4

LEMMA ShapeNext ==
  ASSUME Shape, NothingOnEmpty, [Next]_vars
  PROVE  Shape' /\ NothingOnEmpty'
<1>1. CASE UNCHANGED vars
  BY <1>1 DEF vars, devices, Shape, NothingOnEmpty
<1>2. ASSUME NEW ch \in Channels, NEW c \in Codes(ch), Press(ch, c) \/ Release(ch, c)
      PROVE  Shape' /\ NothingOnEmpty'
  BY <1>2, HandsShape
<1>3. ASSUME NEW ch \in Channels, Unplug(ch) \/ Plug(ch)
      PROVE  Shape' /\ NothingOnEmpty'
  BY <1>3, HandsShape
<1> QED
  BY <1>1, <1>2, <1>3, HandlersShape DEF Next

LEMMA ShapeAlways == Spec => [](Shape /\ NothingOnEmpty)
<1>1. Shape /\ NothingOnEmpty /\ [Next]_vars => (Shape /\ NothingOnEmpty)'
  BY ShapeNext
<1> QED
  BY ShapeInit, <1>1, PTL DEF Spec

LEMMA ShapeIsTyped == Shape => TypeOK
<1> SUFFICES ASSUME Shape PROVE TypeOK
  OBVIOUS
<1>1. \A ch \in Channels : down[ch] \cup last_buttons[ch] \cup edges[ch] \subseteq Codes(ch) \cup Buttons
  BY DEF Shape
<1>2. \A ch \in Channels : \A c \in Codes(ch) : heard[ch][c] \in 0 .. 2
  BY DEF Shape
<1> QED
  BY <1>1, <1>2 DEF Shape, TypeOK

\* The state keeps its shape, however many keyboards and controllers there are, of
\* however many keys and buttons: the ring keeps one of its places empty, whatever is
\* pressed while it is full.
THEOREM InputTypeOK == Spec => []TypeOK
BY ShapeAlways, ShapeIsTyped, PTL


------------------------------------------------------------------------------
(* Every press is heard once.                                              *)

\* What PressedOnce says of one channel.
Once(ch) ==
  \A c \in Codes(ch) :
    /\ heard[ch][c] < 2
    /\ c \in down[ch] /\ <<ch, c>> \notin moving /\ ch \notin away \cap Keyboards =>
         heard[ch][c] = 1

\* Of a keyboard that was never pulled out kbd_last is true, and of any other it
\* leaves out no key that was heard: the next sample hears none a second time.
KeyboardInv(k) ==
  /\ k \notin away => Remembers(k, kbd_last)
  /\ \A c \in down[k] \ kbd_last : heard[k][c] = 0
  /\ Once(k)

\* Of a controller last_buttons is true while it is plugged in: one that is put back
\* was missed, and what was remembered of it was forgotten then.
PadInv(ch) ==
  /\ ch \notin kind => last_buttons[ch] = {}
  /\ ch \in here => Remembers(ch, last_buttons[ch])
  /\ \A c \in down[ch] : <<ch, c>> \in moving => heard[ch][c] = 0
  /\ Once(ch)

InputInv ==
  /\ \A k \in Keyboards : KeyboardInv(k)
  /\ \A ch \in Pads : PadInv(ch)

LEMMA PressesInit == Init => InputInv
<1> SUFFICES ASSUME Init PROVE InputInv
  OBVIOUS
<1>1. /\ \A ch \in Channels : down[ch] = {} /\ last_buttons[ch] = {}
      /\ kbd_last = {} /\ moving = {}
      /\ \A ch \in Channels : \A c \in Codes(ch) : heard[ch][c] = 0
  BY DEF Init
<1>2. \A k \in Keyboards : k \in Channels
  BY DEF Channels
<1>3. ASSUME NEW k \in Keyboards PROVE KeyboardInv(k)
  BY <1>1, <1>2 DEF KeyboardInv, Remembers, Once
<1>4. ASSUME NEW ch \in Pads PROVE PadInv(ch)
  BY <1>1 DEF PadInv, Remembers, Once, Pads
<1> QED
  BY <1>3, <1>4 DEF InputInv

\* The hands move one code of a channel, and the history says that it moved.
LEMMA OneMoves ==
  ASSUME Shape, NEW ch \in Channels, NEW c \in Codes(ch), Press(ch, c) \/ Release(ch, c)
  PROVE  /\ \A h \in Channels : \A d : (<<h, d>> # <<ch, c>>) =>
              /\ d \in down'[h] <=> d \in down[h]
              /\ <<h, d>> \in moving' <=> <<h, d>> \in moving
              /\ d \in Codes(h) => heard'[h][d] = heard[h][d]
         /\ <<ch, c>> \in moving' /\ <<ch, c>> \notin moving
         /\ c \in down'[ch] <=> c \notin down[ch]
         /\ c \in down'[ch] => heard'[ch][c] = 0
         /\ c \notin down'[ch] => heard'[ch][c] = heard[ch][c]
         /\ UNCHANGED <<here, kind, kbd_last, last_buttons, away>>
<1>1. CASE Press(ch, c)
  <2>1. \A h \in Channels : down'[h] = IF h = ch THEN down[h] \cup {c} ELSE down[h]
    BY <1>1 DEF Press, Shape
  <2>2. /\ \A h \in Channels : h # ch => heard'[h] = heard[h]
        /\ \A d \in Codes(ch) : heard'[ch][d] = IF d = c THEN 0 ELSE heard[ch][d]
    BY <1>1 DEF Press, Shape
  <2>3. c \notin down[ch] /\ <<ch, c>> \notin moving /\ moving' = moving \cup {<<ch, c>>}
        /\ UNCHANGED <<here, kind, kbd_last, last_buttons, away>>
    BY <1>1 DEF Press
  <2>4. \A h, d : <<h, d>> # <<ch, c>> <=> h # ch \/ d # c
    OBVIOUS
  <2>5. \A h \in Channels : \A d : h # ch \/ d # c =>
          /\ d \in down'[h] <=> d \in down[h]
          /\ <<h, d>> \in moving' <=> <<h, d>> \in moving
    BY <2>1, <2>3, <2>4
  <2>6. \A h \in Channels : \A d \in Codes(h) : h # ch \/ d # c =>
          heard'[h][d] = heard[h][d]
    BY <2>2
  <2>7. /\ <<ch, c>> \in moving' /\ c \in down'[ch] /\ heard'[ch][c] = 0
    BY <2>1, <2>2, <2>3
  <2> QED
    BY <2>3, <2>4, <2>5, <2>6, <2>7
<1>2. CASE Release(ch, c)
  <2>1. \A h \in Channels : down'[h] = IF h = ch THEN down[h] \ {c} ELSE down[h]
    BY <1>2 DEF Release, Shape
  <2>2. c \in down[ch] /\ <<ch, c>> \notin moving /\ moving' = moving \cup {<<ch, c>>}
        /\ UNCHANGED <<here, kind, kbd_last, last_buttons, away, heard>>
    BY <1>2 DEF Release
  <2> QED
    BY <2>1, <2>2
<1> QED
  BY <1>1, <1>2

LEMMA HandsHeard ==
  ASSUME Shape, NothingOnEmpty, InputInv,
         NEW ch \in Channels, NEW c \in Codes(ch), Press(ch, c) \/ Release(ch, c)
  PROVE  InputInv'
<1>1. /\ \A h \in Channels : \A d : (<<h, d>> # <<ch, c>>) =>
           /\ d \in down'[h] <=> d \in down[h]
           /\ <<h, d>> \in moving' <=> <<h, d>> \in moving
           /\ d \in Codes(h) => heard'[h][d] = heard[h][d]
      /\ <<ch, c>> \in moving' /\ <<ch, c>> \notin moving
      /\ c \in down'[ch] <=> c \notin down[ch]
      /\ c \in down'[ch] => heard'[ch][c] = 0
      /\ c \notin down'[ch] => heard'[ch][c] = heard[ch][c]
      /\ UNCHANGED <<here, kind, kbd_last, last_buttons, away>>
  BY OneMoves
<1>2. ASSUME NEW h \in Channels, Once(h) PROVE Once(h)'
  <2> SUFFICES ASSUME NEW d \in Codes(h)
               PROVE  /\ heard'[h][d] < 2
                      /\ d \in down'[h] /\ <<h, d>> \notin moving' /\ h \notin away' \cap Keyboards =>
                           heard'[h][d] = 1
    BY DEF Once
  <2>1. CASE <<h, d>> = <<ch, c>>
    BY <1>1, <1>2, <2>1 DEF Once
  <2>2. CASE <<h, d>> # <<ch, c>>
    BY <1>1, <1>2, <2>2 DEF Once
  <2> QED
    BY <2>1, <2>2
<1>3. ASSUME NEW h \in Channels, NEW last, last' = last, Remembers(h, last)
      PROVE  Remembers(h, last)'
  <2> SUFFICES ASSUME NEW d \in Codes(h)
               PROVE  d \in last <=> ~ (d \in down'[h] <=> <<h, d>> \in moving')
    BY <1>3 DEF Remembers
  <2>0. d \in last <=> ~ (d \in down[h] <=> <<h, d>> \in moving)
    BY <1>3 DEF Remembers
  <2>1. CASE <<h, d>> = <<ch, c>>
    BY <1>1, <2>0, <2>1
  <2>2. CASE <<h, d>> # <<ch, c>>
    BY <1>1, <2>0, <2>2
  <2> QED
    BY <2>1, <2>2
<1>4. ASSUME NEW k \in Keyboards PROVE KeyboardInv(k)'
  <2>1. k \in Channels /\ KeyboardInv(k)
    BY DEF InputInv, Channels
  <2>2. Once(k)' /\ (k \notin away' => Remembers(k, kbd_last)')
    BY <1>1, <1>2, <1>3, <2>1 DEF KeyboardInv
  <2>3. ASSUME NEW d \in down'[k], d \notin kbd_last' PROVE heard'[k][d] = 0
    <3>1. CASE <<k, d>> = <<ch, c>>
      BY <1>1, <2>3, <3>1
    <3>2. CASE <<k, d>> # <<ch, c>>
      <4>1. d \in down[k] /\ d \notin kbd_last /\ d \in Codes(k)
        BY <1>1, <2>1, <2>3, <3>2 DEF Shape
      <4>2. heard[k][d] = 0
        BY <2>1, <4>1 DEF KeyboardInv
      <4>3. heard'[k][d] = heard[k][d]
        BY <1>1, <2>1, <3>2, <4>1
      <4> QED
        BY <4>2, <4>3
    <3> QED
      BY <3>1, <3>2
  <2> QED
    BY <2>2, <2>3 DEF KeyboardInv
<1>5. ASSUME NEW h \in Pads PROVE PadInv(h)'
  <2>1. h \in Channels /\ PadInv(h)
    BY DEF InputInv, Pads
  <2>2. Once(h)' /\ (h \in here' => Remembers(h, last_buttons[h])')
        /\ (h \notin kind' => last_buttons'[h] = {})
    BY <1>1, <1>2, <1>3, <2>1 DEF PadInv
  <2>3. ASSUME NEW d \in down'[h], <<h, d>> \in moving' PROVE heard'[h][d] = 0
    <3>1. CASE <<h, d>> = <<ch, c>>
      BY <1>1, <2>3, <3>1
    <3>2. CASE <<h, d>> # <<ch, c>>
      <4>1. d \in down[h] /\ <<h, d>> \in moving /\ d \in Codes(h)
        BY <1>1, <2>1, <2>3, <3>2 DEF Shape
      <4> QED
        BY <1>1, <2>1, <3>2, <4>1 DEF PadInv
    <3> QED
      BY <3>1, <3>2
  <2> QED
    BY <2>2, <2>3 DEF PadInv
<1> QED
  BY <1>4, <1>5 DEF InputInv, Pads


\* A keyboard that is pulled out may forget; a controller is missed before it is back.
LEMMA PlugsHeard ==
  ASSUME Shape, NothingOnEmpty, InputInv, NEW ch \in Channels, Unplug(ch) \/ Plug(ch)
  PROVE  InputInv'
<1>1. /\ UNCHANGED <<kind, kbd_last, last_buttons, heard>>
      /\ \A h \in Channels :
           /\ down'[h] \subseteq down[h]
           /\ h # ch => /\ down'[h] = down[h] /\ (h \in here' <=> h \in here)
                        /\ h \in away' <=> h \in away
                        /\ \A d : <<h, d>> \in moving' <=> <<h, d>> \in moving
  <2>1. CASE Unplug(ch)
    <3>1. \A h \in Channels : down'[h] = IF h = ch THEN {} ELSE down[h]
      BY <2>1 DEF Unplug, Shape
    <3>2. \A h, d : <<h, d>> \in moving' <=> <<h, d>> \in moving /\ h # ch
      BY <2>1 DEF Unplug
    <3> QED
      BY <2>1, <3>1, <3>2 DEF Unplug
  <2>2. CASE Plug(ch)
    BY <2>2 DEF Plug
  <2> QED
    BY <2>1, <2>2
<1>2. /\ down'[ch] = {} /\ \A d : <<ch, d>> \notin moving'
      /\ \/ ch \notin here' /\ ch \in away'
         \/ ch \notin kind /\ UNCHANGED <<down, moving, away>>
  <2>1. CASE Unplug(ch)
    <3>1. \A h, d : <<h, d>> \in moving' => h # ch
      BY <2>1 DEF Unplug
    <3> QED
      BY <2>1, <3>1 DEF Unplug, Shape
  <2>2. CASE Plug(ch)
    <3>1. \A d : <<ch, d>>[1] = ch
      OBVIOUS
    <3> QED
      BY <2>2, <3>1 DEF Plug, NothingOnEmpty
  <2> QED
    BY <2>1, <2>2
<1>3. ASSUME NEW k \in Keyboards PROVE KeyboardInv(k)'
  <2>1. k \in Channels /\ KeyboardInv(k)
    BY DEF InputInv, Channels
  <2>2. CASE k = ch
    BY <1>1, <1>2, <2>1, <2>2 DEF KeyboardInv, Once, Remembers
  <2>3. CASE k # ch
    BY <1>1, <2>1, <2>3 DEF KeyboardInv, Once, Remembers
  <2> QED
    BY <2>2, <2>3
<1>4. ASSUME NEW h \in Pads PROVE PadInv(h)'
  <2>1. h \in Channels /\ PadInv(h)
    BY DEF InputInv, Pads
  <2>2. CASE h = ch
    BY <1>1, <1>2, <2>1, <2>2 DEF PadInv, Once, Remembers
  <2>3. CASE h # ch
    BY <1>1, <2>1, <2>3 DEF PadInv, Once, Remembers
  <2> QED
    BY <2>2, <2>3
<1> QED
  BY <1>3, <1>4 DEF InputInv, Pads

\* The pairs of a channel and a code that it shows.
LEMMA PairsOf ==
  ASSUME NEW S, NEW f, NEW ch, NEW c
  PROVE  <<ch, c>> \in UNION {{h} \X f[h] : h \in S} <=> ch \in S /\ c \in f[ch]
<1>1. ASSUME ch \in S, c \in f[ch] PROVE <<ch, c>> \in UNION {{h} \X f[h] : h \in S}
  <2>1. <<ch, c>> \in {ch} \X f[ch] /\ {ch} \X f[ch] \in {{h} \X f[h] : h \in S}
    BY <1>1
  <2> QED
    BY <2>1, Zenon
<1>2. ASSUME <<ch, c>> \in UNION {{h} \X f[h] : h \in S} PROVE ch \in S /\ c \in f[ch]
  <2>1. PICK h \in S : <<ch, c>> \in {h} \X f[h]
    BY <1>2, Zenon
  <2> QED
    BY <2>1
<1> QED
  BY <1>1, <1>2

\* What the poll, the check and the window that opens have in common: of the keyboards
\* in known they saw and remember what sample says.
KeyboardsSampled(known, sample, seen, noticed) ==
  /\ \A k \in Keyboards : CaughtFrom(k, known, sample)
  /\ kbd_last' = sample.last /\ Heard(seen, noticed) /\ UNCHANGED <<here, down, away>>
  /\ \A k \in Keyboards : k \in seen <=> k \in known
  /\ \A k \in Keyboards : \A c \in Codes(k) :
       <<k, c>> \in noticed <=> <<k, c>> \in sample.caught

\* A sample of the one keyboard, by the poll or by the check: what it notices had not
\* been heard, and what it remembers from now on is what it saw.
LEMMA SampledKeys ==
  ASSUME Shape, NothingOnEmpty, InputInv, OneKeyboard,
         NEW known, NEW sample, NEW seen, NEW noticed,
         KeyboardsSampled(known, sample, seen, noticed)
  PROVE  \A k \in Keyboards : KeyboardInv(k)'
<1> SUFFICES ASSUME NEW k \in Keyboards PROVE KeyboardInv(k)'
  OBVIOUS
<1>1. k \in Channels /\ KeyboardInv(k) /\ down[k] \subseteq Codes(k)
  BY DEF InputInv, Channels, Shape
<1>2. /\ \A c \in Codes(k) :
           /\ <<k, c>> \in moving' <=> <<k, c>> \in moving /\ k \notin known
           /\ heard'[k][c] = IF <<k, c>> \in sample.caught
                             THEN Again(heard[k][c]) ELSE heard[k][c]
      /\ UNCHANGED <<here, down, away>>
  BY <1>1, HeardIs DEF KeyboardsSampled
<1>3. CASE k \in known
  <2>1. kbd_last' = Reply(k) /\ sample.caught = {k} \X (Reply(k) \ kbd_last)
    BY <1>3 DEF KeyboardsSampled, CaughtFrom
  <2>2. Reply(k) = down[k] /\ down'[k] = down[k]
    BY <1>1, <1>2 DEF Reply, NothingOnEmpty
  <2>3. \A c \in Codes(k) : /\ <<k, c>> \notin moving'
                            /\ heard'[k][c] = IF c \in down[k] \ kbd_last THEN 1 ELSE heard[k][c]
    <3> TAKE c \in Codes(k)
    <3>1. <<k, c>> \in {k} \X (Reply(k) \ kbd_last) <=> c \in down[k] \ kbd_last
      BY <2>2
    <3>2. c \in down[k] \ kbd_last => heard[k][c] = 0
      BY <1>1 DEF KeyboardInv
    <3>3. Again(0) = 1
      BY DEF Again
    <3> QED
      BY <1>2, <1>3, <2>1, <3>1, <3>2, <3>3
  <2>4. k \notin away' => Remembers(k, kbd_last)'
    BY <2>1, <2>2, <2>3 DEF Remembers
  <2>5. \A c \in down'[k] \ kbd_last' : heard'[k][c] = 0
    BY <2>1, <2>2
  <2>6. Once(k)'
    <3> SUFFICES ASSUME NEW c \in Codes(k)
                 PROVE  /\ heard'[k][c] < 2
                        /\ c \in down'[k] /\ k \notin away' => heard'[k][c] = 1
      BY DEF Once
    <3>1. heard[k][c] < 2
      BY <1>1 DEF KeyboardInv, Once
    <3>2. k \notin away /\ c \in down[k] /\ c \in kbd_last => heard[k][c] = 1
      BY <1>1 DEF KeyboardInv, Once, Remembers
    <3>3. CASE c \in down[k] \ kbd_last
      <4>1. heard'[k][c] = 1
        BY <2>3, <3>3, Zenon
      <4> QED
        BY <4>1
    <3>4. CASE c \notin down[k] \ kbd_last
      <4>1. heard'[k][c] = heard[k][c] /\ down' = down /\ away' = away
        BY <1>2, <2>3, <3>4
      <4> QED
        BY <3>1, <3>2, <3>4, <4>1
    <3> QED
      BY <3>3, <3>4
  <2> QED
    BY <2>4, <2>5, <2>6 DEF KeyboardInv
<1>4. CASE k \notin known
  <2>1. kbd_last' = kbd_last /\ sample.caught = {}
    BY <1>4 DEF KeyboardsSampled, CaughtFrom
  <2>2. \A c \in Codes(k) : /\ <<k, c>> \in moving' <=> <<k, c>> \in moving
                            /\ heard'[k][c] = heard[k][c]
    BY <1>2, <1>4, <2>1
  <2> QED
    BY <1>1, <1>2, <2>1, <2>2 DEF KeyboardInv, Once, Remembers
<1> QED
  BY <1>3, <1>4

\* A sample of the controllers, by the poll or by a window that opens: what it notices
\* is what is held and was not seen so far.
LEMMA SampledButtons ==
  ASSUME Shape, NothingOnEmpty, InputInv,
         NEW known \in SUBSET Channels, kind \cap here \subseteq known, NEW noticed,
         kind' = known, Heard(known, noticed), UNCHANGED <<here, down, away>>,
         \A ch \in Pads :
           /\ last_buttons'[ch] = IF ch \in known THEN Reply(ch) ELSE {}
           /\ \A c \in Codes(ch) : <<ch, c>> \in noticed
                <=> ch \in known /\ c \in down[ch] /\ <<ch, c>> \in moving
  PROVE  \A ch \in Pads : PadInv(ch)'
<1> SUFFICES ASSUME NEW ch \in Pads PROVE PadInv(ch)'
  OBVIOUS
<1>1. ch \in Channels /\ ch \notin Keyboards /\ PadInv(ch) /\ down[ch] \subseteq Codes(ch)
  BY DEF InputInv, Pads, Shape
<1>2. \A c \in Codes(ch) :
        /\ <<ch, c>> \in moving' <=> <<ch, c>> \in moving /\ ch \notin known
        /\ heard'[ch][c] = IF <<ch, c>> \in noticed THEN Again(heard[ch][c]) ELSE heard[ch][c]
  BY <1>1, HeardIs
<1>3. CASE ch \in known
  <2>1. last_buttons'[ch] = down[ch] /\ down'[ch] = down[ch]
    BY <1>1, <1>3 DEF Reply, NothingOnEmpty
  <2>2. \A c \in Codes(ch) :
          /\ <<ch, c>> \notin moving'
          /\ heard'[ch][c] = IF c \in down[ch] /\ <<ch, c>> \in moving THEN 1 ELSE heard[ch][c]
    <3> TAKE c \in Codes(ch)
    <3>1. c \in down[ch] /\ <<ch, c>> \in moving => heard[ch][c] = 0
      BY <1>1 DEF PadInv
    <3>2. Again(0) = 1
      BY DEF Again
    <3> QED
      BY <1>2, <1>3, <3>1, <3>2
  <2>3. Remembers(ch, last_buttons[ch])'
    BY <2>1, <2>2 DEF Remembers
  <2>4. Once(ch)'
    <3> SUFFICES ASSUME NEW c \in Codes(ch)
                 PROVE  heard'[ch][c] < 2 /\ (c \in down'[ch] => heard'[ch][c] = 1)
      BY DEF Once
    <3>1. heard[ch][c] < 2 /\ (c \in down[ch] /\ <<ch, c>> \notin moving => heard[ch][c] = 1)
      BY <1>1 DEF PadInv, Once
    <3> QED
      BY <2>1, <2>2, <3>1
  <2>5. \A c \in down'[ch] : <<ch, c>> \notin moving'
    BY <1>1, <2>1, <2>2
  <2> QED
    BY <1>3, <2>3, <2>4, <2>5 DEF PadInv
<1>4. CASE ch \notin known
  <2>1. last_buttons'[ch] = {} /\ down'[ch] = down[ch]
    BY <1>4
  <2>2. \A c \in Codes(ch) : /\ <<ch, c>> \in moving' <=> <<ch, c>> \in moving
                             /\ heard'[ch][c] = heard[ch][c]
    BY <1>2, <1>4
  <2>3. ch \in here => last_buttons[ch] = {}
    BY <1>1, <1>4 DEF PadInv
  <2>4. ch \in here' => Remembers(ch, last_buttons[ch])'
    BY <1>1, <2>1, <2>2, <2>3 DEF PadInv, Remembers
  <2>5. Once(ch)' /\ \A c \in down'[ch] : <<ch, c>> \in moving' => heard'[ch][c] = 0
    BY <1>1, <2>1, <2>2 DEF PadInv, Once
  <2> QED
    BY <2>1, <2>4, <2>5 DEF PadInv
<1> QED
  BY <1>3, <1>4

\* The poll, the check and the window that opens.
LEMMA HandlersHeard ==
  ASSUME Shape, NothingOnEmpty, InputInv, OneKeyboard,
         \/ InputPoll \/ (\E breaks \in BOOLEAN : InputBreakCheck(breaks)) \/ InputInit
  PROVE  InputInv'
<1>0. here \in SUBSET Channels /\ kind \in SUBSET Channels
  BY DEF Shape
<1>1. \A ch \in Pads : ch \in Channels /\ ch \notin Keyboards /\ Codes(ch) = Buttons
                       /\ PadInv(ch) /\ down[ch] \subseteq Buttons
  BY DEF Pads, InputInv, Codes, Shape
<1>2. \A known \in SUBSET Channels : \A breaks \in BOOLEAN :
        Catch(known, breaks).caught \subseteq Keyboards \X Keys
  BY CatchIs DEF Catches
<1>3. CASE InputPoll
  <2> DEFINE known == IF identify_countdown <= 1 THEN here ELSE kind
             now == [ch \in Channels |-> IF ch \in known \cap Pads THEN Reply(ch) ELSE {}]
             new == [ch \in Channels |-> now[ch] \ last_buttons[ch]]
             pressed == UNION {{ch} \X new[ch] : ch \in Pads}
             noticed == Catch(known, FALSE).caught \cup pressed
  <2>1. known \in SUBSET Channels /\ kind \cap here \subseteq known
    BY <1>0
  <2>2. /\ kind' = known /\ UNCHANGED <<here, down, away>>
        /\ kbd_last' = Catch(known, FALSE).last /\ last_buttons' = now /\ Heard(known, noticed)
    BY <1>3, Zenon DEF InputPoll
  <2>4. \A ch \in Pads : now[ch] = IF ch \in known THEN Reply(ch) ELSE {}
    BY <1>1
  <2> HIDE DEF known, now
  <2>5. \A ch \in Pads : new[ch] = now[ch] \ last_buttons[ch]
    BY <1>1, Zenon
  <2> HIDE DEF new
  <2>3. \A ch, c : <<ch, c>> \in pressed <=> ch \in Pads /\ c \in new[ch]
    BY PairsOf, Zenon
  <2> HIDE DEF pressed
  <2>6. ASSUME NEW k \in Keyboards, NEW c \in Codes(k)
        PROVE  <<k, c>> \in noticed <=> <<k, c>> \in Catch(known, FALSE).caught
    BY <2>3 DEF Pads
  <2>7. \A k \in Keyboards : KeyboardInv(k)'
    <3>1. \A k \in Keyboards : CaughtFrom(k, known, Catch(known, FALSE))
      BY <2>1, CatchIs
    <3> HIDE DEF noticed
    <3>2. KeyboardsSampled(known, Catch(known, FALSE), known, noticed)
      BY <2>2, <2>6, <3>1 DEF KeyboardsSampled
    <3> QED
      BY <3>2, SampledKeys
  <2>8. ASSUME NEW ch \in Pads, NEW c \in Codes(ch)
        PROVE  <<ch, c>> \in noticed <=> ch \in known /\ c \in down[ch] /\ <<ch, c>> \in moving
    <3>1. <<ch, c>> \notin Catch(known, FALSE).caught
      BY <1>1, <1>2, <2>1
    <3>2. <<ch, c>> \in noticed <=> c \in now[ch] /\ c \notin last_buttons[ch]
      BY <2>3, <2>5, <3>1
    <3>3. c \in now[ch] <=> ch \in known /\ ch \in here /\ c \in down[ch]
      BY <2>4 DEF Reply
    <3>4. ch \notin here => c \notin down[ch]
      BY <1>1 DEF NothingOnEmpty
    <3>5. ch \in here /\ c \in down[ch] => (c \notin last_buttons[ch] <=> <<ch, c>> \in moving)
      BY <1>1 DEF PadInv, Remembers
    <3> QED
      BY <3>2, <3>3, <3>4, <3>5
  <2> HIDE DEF noticed
  <2>9. \A ch \in Pads : PadInv(ch)'
    BY <2>1, <2>2, <2>4, <2>8, SampledButtons
  <2> QED
    BY <2>7, <2>9 DEF InputInv, Pads
<1>4. ASSUME NEW breaks \in BOOLEAN, InputBreakCheck(breaks) PROVE InputInv'
  <2>1. /\ UNCHANGED <<here, down, kind, last_buttons, away>>
        /\ kbd_last' = Catch(kind, breaks).last
        /\ Heard(kind \cap Keyboards, Catch(kind, breaks).caught)
    BY <1>4 DEF InputBreakCheck
  <2>2. \A k \in Keyboards : KeyboardInv(k)'
    <3>1. \A k \in Keyboards : CaughtFrom(k, kind, Catch(kind, breaks))
      BY <1>0, CatchIs
    <3>2. KeyboardsSampled(kind, Catch(kind, breaks), kind \cap Keyboards, Catch(kind, breaks).caught)
      BY <2>1, <3>1 DEF KeyboardsSampled
    <3> QED
      BY <3>2, SampledKeys
  <2>3. ASSUME NEW ch \in Pads PROVE PadInv(ch)'
    <3>1. \A c \in Codes(ch) : /\ <<ch, c>> \in moving' <=> <<ch, c>> \in moving
                               /\ heard'[ch][c] = heard[ch][c]
      <4> TAKE c \in Codes(ch)
      <4>1. <<ch, c>> \notin Catch(kind, breaks).caught
        BY <1>0, <1>1, <1>2
      <4> QED
        BY <1>1, <2>1, <4>1, HeardIs
    <3> QED
      BY <1>1, <2>1, <3>1 DEF PadInv, Once, Remembers
  <2> QED
    BY <2>2, <2>3 DEF InputInv, Pads
<1>5. CASE InputInit
  <2> DEFINE now == [ch \in Channels |-> IF ch \in Pads THEN Reply(ch) ELSE {}]
             held == UNION {{ch} \X now[ch] : ch \in Pads}
             pressed == {p \in held : heard[p[1]][p[2]] = 0}
             noticed == Catch(here, FALSE).caught \cup pressed
  <2>1. /\ kind' = here /\ UNCHANGED <<here, down, away>>
        /\ kbd_last' = Catch(here, FALSE).last /\ last_buttons' = now /\ Heard(here, noticed)
    BY <1>5, Zenon DEF InputInit
  <2>3. \A ch \in Pads : now[ch] = down[ch] /\ now[ch] = IF ch \in here THEN Reply(ch) ELSE {}
    BY <1>1 DEF Reply, NothingOnEmpty
  <2> HIDE DEF now
  <2>2. \A ch, c : <<ch, c>> \in held <=> ch \in Pads /\ c \in now[ch]
    BY PairsOf, Zenon
  <2> HIDE DEF held
  <2>4. \A ch, c : <<ch, c>> \in pressed <=> <<ch, c>> \in held /\ heard[ch][c] = 0
    OBVIOUS
  <2> HIDE DEF pressed
  <2>5. ASSUME NEW k \in Keyboards, NEW c \in Codes(k)
        PROVE  <<k, c>> \in noticed <=> <<k, c>> \in Catch(here, FALSE).caught
    BY <2>2, <2>4 DEF Pads
  <2>6. \A k \in Keyboards : KeyboardInv(k)'
    <3>1. \A k \in Keyboards : CaughtFrom(k, here, Catch(here, FALSE))
      BY <1>0, CatchIs
    <3> HIDE DEF noticed
    <3>2. KeyboardsSampled(here, Catch(here, FALSE), here, noticed)
      BY <2>1, <2>5, <3>1 DEF KeyboardsSampled
    <3> QED
      BY <3>2, SampledKeys
  <2>7. ASSUME NEW ch \in Pads, NEW c \in Codes(ch)
        PROVE  <<ch, c>> \in noticed <=> ch \in here /\ c \in down[ch] /\ <<ch, c>> \in moving
    <3>1. <<ch, c>> \notin Catch(here, FALSE).caught
      BY <1>0, <1>1, <1>2
    <3>2. <<ch, c>> \in noticed <=> c \in down[ch] /\ heard[ch][c] = 0
      BY <2>2, <2>3, <2>4, <3>1
    <3>3. c \in down[ch] => ch \in here
      BY <1>1 DEF NothingOnEmpty
    <3>4. c \in down[ch] => (heard[ch][c] = 0 <=> <<ch, c>> \in moving)
      BY <1>1 DEF PadInv, Once
    <3> QED
      BY <3>2, <3>3, <3>4
  <2> HIDE DEF noticed
  <2>8. \A ch \in Pads : PadInv(ch)'
    BY <1>0, <2>1, <2>3, <2>7, SampledButtons
  <2> QED
    BY <2>6, <2>8 DEF InputInv, Pads
<1> QED
  BY <1>3, <1>4, <1>5

LEMMA PressesNext ==
  ASSUME OneKeyboard, Shape, NothingOnEmpty, InputInv, [Next]_vars
  PROVE  InputInv'
<1>1. ASSUME NEW ch \in Channels, NEW c \in Codes(ch), Press(ch, c) \/ Release(ch, c)
      PROVE  InputInv'
  BY <1>1, HandsHeard
<1>2. ASSUME NEW ch \in Channels, Unplug(ch) \/ Plug(ch) PROVE InputInv'
  BY <1>2, PlugsHeard
<1>3. ASSUME UNCHANGED <<devices, kind, kbd_last, last_buttons, heard, away>> PROVE InputInv'
  BY <1>3 DEF devices, InputInv, KeyboardInv, PadInv, Once, Remembers, Pads
<1>4. CASE InputGetchar
  BY <1>3, <1>4 DEF InputGetchar
<1>5. CASE UNCHANGED vars
  BY <1>3, <1>5 DEF vars
<1> QED
  BY <1>1, <1>2, <1>4, <1>5, HandlersHeard DEF Next

\* With one keyboard at most, of any number of keys, and any number of controllers:
\* a key that went down is typed or stops the program once, by the poll or by the
\* check, and a press of a button is in the edges of one poll.  Two keyboards share
\* one kbd_last: of those it is not so, and KeyCaught is not either.
THEOREM PressedOnceAlways ==
  ASSUME OneKeyboard
  PROVE  Spec => []PressedOnce
<1>1. Shape /\ NothingOnEmpty /\ InputInv => PressedOnce
  BY DEF InputInv, KeyboardInv, PadInv, Once, PressedOnce, Pads
<1>2. Shape /\ NothingOnEmpty /\ InputInv /\ [Next]_vars => (Shape /\ NothingOnEmpty /\ InputInv)'
  BY ShapeNext, PressesNext
<1>3. Init => Shape /\ NothingOnEmpty /\ InputInv
  BY ShapeInit, PressesInit
<1> QED
  BY <1>1, <1>2, <1>3, PTL DEF Spec


-----------------------------------------------------------------------------
(* The buffers of the sound (Audio).                                       *)

HIDE InputAssumption DEF InputAssumption

\* The interface has at most two, and they are the last that were filled.
LastFilled ==
  /\ next_buf \in 0 .. NBUF - 1
  /\ Len(ai) <= 2 /\ \A i \in 1 .. Len(ai) : ai[i] \in 0 .. NBUF - 1
  /\ Len(ai) > 0 => (ai[Len(ai)] + 1) % NBUF = next_buf
  /\ Len(ai) = 2 => (ai[1] + 1) % NBUF = ai[2]

BufsInv ==
  /\ ai \in Seq(0 .. NBUF - 1) /\ DOMAIN bufs = 0 .. NBUF - 1
  /\ LastFilled

\* Going round, one place on and two places on are others, as there are more than two.
LEMMA RoundOthers ==
  ASSUME NEW m \in Nat, m > 2, NEW a \in 0 .. m - 1
  PROVE  /\ (a + 1) % m = IF a = m - 1 THEN 0 ELSE a + 1
         /\ (a + 1) % m \in 0 .. m - 1
<1>1. CASE a = m - 1
  <2>1. m % m = 0
    OBVIOUS
  <2> QED
    BY <1>1, <2>1
<1>2. CASE a # m - 1
  <2>1. a + 1 \in 0 .. m - 1
    BY <1>2
  <2>2. \A x \in 0 .. m - 1 : x % m = x
    OBVIOUS
  <2> QED
    BY <1>2, <2>1, <2>2
<1> QED
  BY <1>1, <1>2

LEMMA BufsStart == SoundInit => BufsInv
BY AudioAssumption DEF SoundInit, BufsInv, LastFilled

\* What is filled is none that the interface has.
LEMMA FillsAnother ==
  ASSUME BufsInv, Len(ai) < 2
  PROVE  \A i \in 1 .. Len(ai) : ai[i] # next_buf
<1>1. NBUF \in Nat /\ NBUF > 2
  BY AudioAssumption
<1>2. PICK k \in Nat : k = Len(ai)
  <2>1. ai \in Seq(0 .. NBUF - 1)
    BY DEF BufsInv
  <2> QED
    BY <2>1, LenProperties
<1>3. CASE Len(ai) = 1
  <2>1. ai[1] \in 0 .. NBUF - 1 /\ (ai[1] + 1) % NBUF = next_buf
    BY <1>3 DEF BufsInv, LastFilled
  <2> QED
    BY <1>1, <1>3, <2>1, RoundOthers
<1>4. CASE Len(ai) = 0
  BY <1>4
<1>5. k = 0 \/ k = 1
  BY <1>2
<1> QED
  BY <1>2, <1>3, <1>4, <1>5

\* With an honest status a turn of the loop ends it or finds room.
LEMMA TurnsOf ==
  ASSUME Honest, BufsInv
  PROVE  PumpTurn => PumpEnds \/ (PumpFills /\ Len(ai) < 2)
<1>1. PICK k \in 0 .. 2 : k = Len(ai)
  <2>1. PICK k \in Nat : k = Len(ai)
    <3>1. ai \in Seq(0 .. NBUF - 1)
      BY DEF BufsInv
    <3> QED
      BY <3>1, LenProperties
  <2>2. k <= 2
    BY <2>1 DEF BufsInv, LastFilled
  <2> QED
    BY <2>1, <2>2
<1>2. ASSUME PumpTurn PROVE PumpEnds \/ (PumpFills /\ Len(ai) < 2)
  <2>1. CASE Len(ai) = 2
    BY <1>2, <2>1 DEF PumpTurn, StatusFull
  <2>2. CASE Len(ai) # 2
    <3>1. Len(ai) < 2
      BY <1>1, <2>2
    <3> QED
      BY <1>2, <3>1 DEF PumpTurn
  <2> QED
    BY <2>1, <2>2
<1> QED
  BY <1>2

LEMMA BufsStep ==
  ASSUME Honest, BufsInv, [SoundNext]_avars
  PROVE  BufsInv' /\ \A b \in 0 .. NBUF - 1 : bufs'[b] # bufs[b] => b \notin ToSet(ai)
<1>1. NBUF \in Nat /\ NBUF > 2 /\ Len(ai) \in Nat /\ ai \in Seq(0 .. NBUF - 1)
  BY AudioAssumption DEF BufsInv
<1>0. PICK k \in 0 .. 2 : k = Len(ai)
  <2>1. PICK k \in Nat : k = Len(ai)
    BY <1>1, LenProperties
  <2>2. k <= 2
    BY <2>1 DEF BufsInv, LastFilled
  <2> QED
    BY <2>1, <2>2
<1>2. CASE UNCHANGED <<bufs, next_buf, ai>>
  BY <1>2 DEF BufsInv, LastFilled
<1>3. CASE PumpFills /\ Len(ai) < 2
  <2>1. /\ ai' = Append(ai, next_buf) /\ next_buf' = (next_buf + 1) % NBUF
        /\ bufs' = [bufs EXCEPT ![next_buf] = Filled.out]
    BY <1>3 DEF PumpFills
  <2>2. next_buf \in 0 .. NBUF - 1
    BY DEF BufsInv, LastFilled
  <2>3. next_buf' \in 0 .. NBUF - 1 /\ (next_buf + 1) % NBUF = next_buf'
    BY <1>1, <2>1, <2>2, RoundOthers
  <2>4. /\ ai' \in Seq(0 .. NBUF - 1) /\ Len(ai') = Len(ai) + 1 /\ ai'[Len(ai) + 1] = next_buf
        /\ \A i \in 1 .. Len(ai) : ai'[i] = ai[i]
    BY <1>1, <2>1, <2>2
  <2>5. LastFilled'
    <3>1. Len(ai') <= 2 /\ \A i \in 1 .. Len(ai') : ai'[i] \in 0 .. NBUF - 1
      BY <1>1, <1>3, <2>4
    <3>2. ai'[Len(ai')] = next_buf
      BY <2>4
    <3>3. Len(ai') = 2 => (ai'[1] + 1) % NBUF = ai'[2]
      <4>1. CASE Len(ai) = 1
        <5>1. ai'[1] = ai[1] /\ ai'[2] = next_buf /\ (ai[1] + 1) % NBUF = next_buf
          BY <2>4, <4>1 DEF BufsInv, LastFilled
        <5> QED
          BY <5>1
      <4>2. CASE Len(ai) # 1
        <5>1. Len(ai') # 2
          BY <1>0, <2>4, <4>2
        <5> QED
          BY <5>1
      <4> QED
        BY <4>1, <4>2
    <3> QED
      BY <2>3, <3>1, <3>2, <3>3 DEF LastFilled
  <2>6. \A b \in 0 .. NBUF - 1 : bufs'[b] # bufs[b] => b = next_buf
    BY <2>1 DEF BufsInv
  <2>7. next_buf \notin ToSet(ai)
    BY <1>1, <1>3, FillsAnother DEF ToSet
  <2>8. DOMAIN bufs' = 0 .. NBUF - 1
    BY <2>1 DEF BufsInv
  <2> QED
    BY <2>4, <2>5, <2>6, <2>7, <2>8 DEF BufsInv
<1>4. CASE PlayedOut
  <2>1. ai # <<>> /\ ai' = Tail(ai) /\ UNCHANGED <<bufs, next_buf>>
    BY <1>4 DEF PlayedOut
  <2>2. /\ ai' \in Seq(0 .. NBUF - 1) /\ Len(ai') = Len(ai) - 1
        /\ \A i \in 1 .. Len(ai) - 1 : ai'[i] = ai[i + 1]
    BY <1>1, <2>1
  <2>3. LastFilled'
    <3>1. Len(ai) \in 1 .. 2
      <4>1. Len(ai) # 0
        BY <1>0, <1>1, <2>1, EmptySeq
      <4> QED
        BY <1>0, <1>1, <4>1
    <3>2. CASE Len(ai) = 1
      BY <2>1, <2>2, <3>2 DEF BufsInv, LastFilled
    <3>3. CASE Len(ai) = 2
      <4>1. Len(ai') = 1 /\ ai'[1] = ai[2]
        BY <2>2, <3>3
      <4>2. ai[2] \in 0 .. NBUF - 1 /\ (ai[2] + 1) % NBUF = next_buf /\ next_buf \in 0 .. NBUF - 1
        BY <3>3 DEF BufsInv, LastFilled
      <4>3. next_buf' = next_buf /\ ai'[Len(ai')] = ai[2] /\ Len(ai') # 2 /\ Len(ai') <= 2
        <5>1. PICK j \in 1 .. 1 : j = Len(ai') /\ ai'[j] = ai[2]
          BY <4>1
        <5> QED
          BY <2>1, <5>1
      <4>4. \A i \in 1 .. Len(ai') : ai'[i] = ai[2]
        BY <4>1
      <4> QED
        BY <4>1, <4>2, <4>3, <4>4 DEF LastFilled
    <3> QED
      BY <3>1, <3>2, <3>3
  <2> QED
    BY <2>1, <2>2, <2>3 DEF BufsInv
<1>5. SoundNext => UNCHANGED <<bufs, next_buf, ai>> \/ (PumpFills /\ Len(ai) < 2) \/ PlayedOut
  <2>1. PumpTurn => UNCHANGED <<bufs, next_buf, ai>> \/ (PumpFills /\ Len(ai) < 2)
    BY TurnsOf DEF PumpEnds
  <2>2. BeepAgain \/ PumpStart \/ Frame \/ QuietCall \/ (\E ms \in Millis : Beep(ms))
        => UNCHANGED <<bufs, next_buf, ai>>
    BY DEF BeepAgain, PumpStart, Frame, QuietCall, Beep
  <2> QED
    BY <2>1, <2>2 DEF SoundNext, Kernel
<1> QED
  BY <1>2, <1>3, <1>4, <1>5 DEF avars

\* With a status register that says what is so, audio_pump() writes only a buffer that
\* the audio interface is done with: it was given two of NBUF, the last that were filled.
THEOREM PlayingBufferIsNotWritten ==
  ASSUME Honest
  PROVE  SoundSpec => NeverOverwritten
<1>1. SoundInit => BufsInv
  BY BufsStart
<1>2. BufsInv /\ [SoundNext]_avars
      => BufsInv' /\ [\A b \in 0 .. NBUF - 1 : bufs'[b] # bufs[b] => b \notin ToSet(ai)]_avars
  BY BufsStep
<1> QED
  BY <1>1, <1>2, PTL DEF SoundSpec, NeverOverwritten

-----------------------------------------------------------------------------
(* Sequences put together.                                                 *)

Associates(T) == \A u, v, w \in Seq(T) : (u \o v) \o w = u \o (v \o w)

LEMMA ThreeParts ==
  ASSUME NEW T
  PROVE  Associates(T)
BY ConcatAssociative DEF Associates

LEMMA AppendIs ==
  ASSUME NEW T, NEW s \in Seq(T), NEW x \in T, NEW n \in Nat, n = Len(s)
  PROVE  /\ Append(s, x) \in Seq(T) /\ Len(Append(s, x)) = n + 1
         /\ \A i \in 1 .. n : Append(s, x)[i] = s[i]
         /\ Append(s, x)[n + 1] = x
BY AppendProperties

LEMMA ConcatIs ==
  ASSUME NEW T, NEW a \in Seq(T), NEW c \in Seq(T), NEW t, t = a \o c,
         NEW m \in Nat, m = Len(a), NEW n \in Nat, n = Len(c)
  PROVE  /\ t \in Seq(T) /\ Len(t) = m + n
         /\ \A i \in 1 .. m + n : t[i] = IF i <= m THEN a[i] ELSE c[i - m]
BY ConcatProperties

\* The two parts of what was put together.
LEMMA TwoParts ==
  ASSUME NEW T, NEW a \in Seq(T), NEW c \in Seq(T), NEW t, t = a \o c,
         NEW m \in Nat, m = Len(a), NEW n \in Nat, n = Len(t)
  PROVE  SubSeq(t, 1, m) = a /\ SubSeq(t, m + 1, n) = c
<1>1. /\ t \in Seq(T) /\ Len(t) = Len(a) + Len(c)
      /\ \A i \in 1 .. Len(a) + Len(c) : t[i] = IF i <= Len(a) THEN a[i] ELSE c[i - Len(a)]
  BY ConcatProperties
<1>2. Len(a) \in Nat /\ Len(c) \in Nat /\ \A i \in 1 .. Len(t) : t[i] \in T
  BY <1>1, ElementOfSeq
<1>3. SubSeq(t, 1, Len(a)) = a
  <2>1. /\ SubSeq(t, 1, Len(a)) \in Seq(T) /\ Len(SubSeq(t, 1, Len(a))) = Len(a)
        /\ \A i \in 1 .. Len(a) : SubSeq(t, 1, Len(a))[i] = t[i]
    BY <1>1, <1>2, SubSeqProperties
  <2>2. \A i \in 1 .. Len(a) : SubSeq(t, 1, Len(a))[i] = a[i]
    BY <1>1, <1>2, <2>1
  <2> QED
    BY <2>1, <2>2, SeqEqual
<1>4. SubSeq(t, Len(a) + 1, Len(t)) = c
  <2> DEFINE u == SubSeq(t, Len(a) + 1, Len(t))
  <2>1. /\ u \in Seq(T) /\ Len(u) = Len(c)
        /\ \A i \in 1 .. Len(c) : u[i] = t[Len(a) + i]
    BY <1>1, <1>2, SubSeqProperties
  <2> HIDE DEF u
  <2>2. ASSUME NEW i \in 1 .. Len(u) PROVE u[i] = c[i]
    <3>1. PICK j \in 1 .. Len(a) + Len(c) : j = Len(a) + i
      BY <1>2, <2>1
    <3>2. ~ (j <= Len(a)) /\ j - Len(a) = i
      BY <1>2, <2>1, <3>1
    <3>3. t[j] = c[i]
      BY <1>1, <3>2
    <3> QED
      BY <2>1, <3>1, <3>3
  <2>3. u = c
    BY <2>1, <2>2, SeqEqual
  <2> QED
    BY <2>3 DEF u
<1> QED
  BY <1>3, <1>4

\* The turns of Joined: what the parts up to each place make.
JoinTurns(j, s) ==
  /\ j[0] = <<>>
  /\ \A i \in 1 .. Len(s) : j[i] = j[i - 1] \o s[i]
  /\ Joined(s) = j[Len(s)]

LEMMA JoinLoop ==
  ASSUME NEW T, NEW s \in Seq(Seq(T))
  PROVE  \E j \in [0 .. Len(s) -> Seq(T)] : JoinTurns(j, s)
<1> DEFINE n == Len(s)
           S == Seq(T)
           step == [i \in 1 .. n |-> [x \in S |-> x \o s[i]]]
<1>1. n \in Nat /\ <<>> \in S
  OBVIOUS
<1>2. ASSUME NEW i \in 1 .. n, NEW x \in S PROVE x \o s[i] \in S
  <2>1. s[i] \in Seq(T)
    BY ElementOfSeq
  <2> QED
    BY <2>1, ConcatProperties
<1> HIDE DEF S
<1>3. \A i \in 1 .. n : \A x \in S : step[i][x] \in S
  BY <1>2
<1> HIDE DEF step, n
<1>4. PICK P \in [0 .. n -> S] : LoopOf(P, n, <<>>, step)
  BY <1>1, <1>3, LoopExists
<1>5. ASSUME NEW i \in 1 .. n PROVE P[i] = P[i - 1] \o s[i]
  <2>1. i - 1 \in 0 .. n
    BY <1>1
  <2>2. P[i - 1] \in S /\ P[i] = step[i][P[i - 1]]
    BY <2>1, <1>4 DEF LoopOf
  <2> QED
    BY <2>2 DEF step
<1> DEFINE Loop(Q) == Q = [i \in 0 .. Len(s) |-> IF i = 0 THEN <<>> ELSE Q[i - 1] \o s[i]]
           R == CHOOSE Q : Loop(Q)
<1>6. Loop(P)
  <2>1. P = [i \in 0 .. n |-> P[i]] /\ P[0] = <<>>
    BY <1>4 DEF LoopOf
  <2>2. ASSUME NEW i \in 0 .. n, i # 0 PROVE P[i] = P[i - 1] \o s[i]
    <3>1. i \in 1 .. n
      BY <1>1, <2>2
    <3> QED
      BY <1>5, <3>1
  <2> QED
    BY <2>1, <2>2 DEF n
<1>7. Loop(R)
  BY <1>6, Zenon
<1>8. Joined(s) = R[Len(s)]
  BY Zenon DEF Joined
<1> HIDE DEF R
<1>9. R = [i \in 0 .. n |-> R[i]] /\ R[0] = <<>> /\ \A i \in 1 .. n : R[i] = R[i - 1] \o s[i]
  <2>1. 0 \in 0 .. n /\ \A i \in 1 .. n : i \in 0 .. n /\ i # 0
    BY <1>1
  <2> QED
    BY <1>7, <2>1 DEF n
<1>10. \A i \in 0 .. n : R[i] \in S
  <2> DEFINE G == {i \in 0 .. n : R[i] \in S}
  <2>1. 0 \in G
    BY <1>1, <1>9
  <2>2. ASSUME NEW i \in 1 .. n, i - 1 \in G PROVE i \in G
    <3>1. R[i - 1] \in S /\ i \in 0 .. n
      BY <2>2, <1>1
    <3> QED
      BY <1>2, <1>9, <3>1
  <2> HIDE DEF G
  <2>3. \A i \in 0 .. n : i \in G
    BY <1>1, <2>1, <2>2, UpTo
  <2> QED
    BY <2>3 DEF G
<1>11. R \in [0 .. n -> S] /\ JoinTurns(R, s)
  BY <1>8, <1>9, <1>10 DEF JoinTurns, n
<1> QED
  BY <1>11 DEF S, n

LEMMA JoinedTypes ==
  ASSUME NEW T, NEW s \in Seq(Seq(T))
  PROVE  Joined(s) \in Seq(T) /\ (s = <<>> => Joined(s) = <<>>)
<1>1. PICK j \in [0 .. Len(s) -> Seq(T)] : JoinTurns(j, s)
  BY JoinLoop
<1>2. Len(s) \in 0 .. Len(s) /\ (s = <<>> => Len(s) = 0)
  OBVIOUS
<1> QED
  BY <1>1, <1>2 DEF JoinTurns

\* One part more, and the first part apart from the others.
LEMMA JoinedAppend ==
  ASSUME NEW T, NEW s \in Seq(Seq(T)), NEW x \in Seq(T)
  PROVE  Joined(Append(s, x)) = Joined(s) \o x
<1> DEFINE t == Append(s, x)
<1>1. PICK n \in Nat : n = Len(s)
  BY LenProperties
<1>2. t \in Seq(Seq(T)) /\ Len(t) = n + 1 /\ t[n + 1] = x /\ \A i \in 1 .. n : t[i] = s[i]
  BY <1>1, AppendProperties
<1> HIDE DEF t
<1>3. PICK j \in [0 .. n -> Seq(T)] : JoinTurns(j, s)
  BY <1>1, JoinLoop
<1>4. PICK k \in [0 .. n + 1 -> Seq(T)] : JoinTurns(k, t)
  BY <1>2, JoinLoop
<1> DEFINE G == {i \in 0 .. n : k[i] = j[i]}
<1>5. 0 \in G
  BY <1>3, <1>4 DEF JoinTurns
<1>6. ASSUME NEW i \in 1 .. n, i - 1 \in G PROVE i \in G
  <2>1. i \in 1 .. Len(t) /\ i \in 1 .. Len(s)
    BY <1>1, <1>2
  <2>2. k[i] = k[i - 1] \o t[i] /\ j[i] = j[i - 1] \o s[i] /\ t[i] = s[i]
    BY <1>2, <1>3, <1>4, <2>1 DEF JoinTurns
  <2>3. k[i - 1] = j[i - 1]
    BY <1>6
  <2>4. k[i] = j[i]
    BY <2>2, <2>3, Zenon
  <2> QED
    BY <2>4
<1> HIDE DEF G
<1>7. \A i \in 0 .. n : i \in G
  BY <1>5, <1>6, UpTo
<1>8. k[n] = j[n]
  BY <1>7 DEF G
<1>9. n + 1 \in 1 .. Len(t) /\ n + 1 - 1 = n
  BY <1>2
<1>10. k[n + 1] = k[n] \o x
  <2>1. PICK m \in 1 .. Len(t) : m = n + 1 /\ m - 1 = n
    BY <1>9
  <2>2. k[m] = k[m - 1] \o t[m]
    BY <1>4 DEF JoinTurns
  <2> QED
    BY <1>2, <2>1, <2>2, Zenon
<1>11. Joined(t) = k[n + 1] /\ Joined(s) = j[n]
  BY <1>1, <1>2, <1>3, <1>4 DEF JoinTurns
<1> QED
  BY <1>8, <1>10, <1>11 DEF t

LEMMA JoinedTail ==
  ASSUME NEW T, NEW s \in Seq(Seq(T)), s # <<>>
  PROVE  s[1] \in Seq(T) /\ Tail(s) \in Seq(Seq(T)) /\ Joined(s) = s[1] \o Joined(Tail(s))
<1>01. Associates(T)
  BY ThreeParts
<1> DEFINE t == Tail(s)
<1>1. PICK n \in Nat : n + 1 = Len(s)
  <2>1. PICK m \in Nat : m = Len(s)
    BY LenProperties
  <2>2. m # 0
    BY <2>1, EmptySeq
  <2>3. m - 1 \in Nat /\ m - 1 + 1 = m
    BY <2>2
  <2> QED
    BY <2>1, <2>3
<1>2. t \in Seq(Seq(T)) /\ Len(t) = n /\ \A i \in 1 .. n : t[i] = s[i + 1]
  BY <1>1, HeadTailProperties
<1>0. PICK f \in Seq(T) : f = s[1]
  <2>1. 1 \in 1 .. Len(s)
    BY <1>1
  <2> QED
    BY <2>1, ElementOfSeq
<1>02. \A i \in 1 .. n : t[i] \in Seq(T)
  BY <1>2, ElementOfSeq
<1> HIDE DEF t
<1>3. PICK j \in [0 .. n + 1 -> Seq(T)] : JoinTurns(j, s)
  BY <1>1, JoinLoop
<1>4. PICK k \in [0 .. n -> Seq(T)] : JoinTurns(k, t)
  BY <1>2, JoinLoop
<1> DEFINE G == {i \in 0 .. n : j[i + 1] = f \o k[i]}
<1>5. 0 \in G
  <2>1. j[1] = <<>> \o f /\ k[0] = <<>>
    <3>1. 1 \in 1 .. Len(s) /\ 1 - 1 = 0
      BY <1>1
    <3> QED
      <4>1. j[1] = j[1 - 1] \o s[1]
        BY <1>3, <3>1 DEF JoinTurns
      <4> QED
        BY <1>0, <1>3, <1>4, <3>1, <4>1, Zenon DEF JoinTurns
  <2>2. <<>> \o f = f /\ f \o <<>> = f
    BY ConcatEmptySeq
  <2>3. 0 \in 0 .. n /\ 0 + 1 = 1
    OBVIOUS
  <2>4. j[1] = f \o k[0]
    BY <2>1, <2>2, Zenon
  <2> QED
    BY <2>3, <2>4
<1>6. ASSUME NEW i \in 1 .. n, i - 1 \in G PROVE i \in G
  <2>1. i \in 1 .. Len(t) /\ i + 1 \in 1 .. Len(s) /\ i + 1 - 1 = i /\ i - 1 + 1 = i
        /\ i - 1 \in 0 .. n
    BY <1>1, <1>2
  <2>2. k[i] = k[i - 1] \o t[i] /\ j[i + 1] = j[i] \o s[i + 1] /\ t[i] = s[i + 1]
    <3>1. k[i] = k[i - 1] \o t[i]
      BY <1>4, <2>1 DEF JoinTurns
    <3>2. PICK m \in 1 .. Len(s) : m = i + 1 /\ m - 1 = i
      BY <2>1
    <3>3. j[m] = j[m - 1] \o s[m]
      BY <1>3 DEF JoinTurns
    <3> QED
      BY <1>2, <3>1, <3>2, <3>3, Zenon
  <2>3. j[i] = f \o k[i - 1]
    BY <1>6, <2>1
  <2>4. PICK a \in Seq(T), b \in Seq(T) : a = k[i - 1] /\ b = t[i]
    BY <1>02, <1>4, <2>1
  <2>5. (f \o a) \o b = f \o (a \o b)
    <3>1. f \in Seq(T) /\ a \in Seq(T) /\ b \in Seq(T)
      BY <1>0, <2>4
    <3> QED
      BY <1>01, <3>1, Zenon DEF Associates
  <2>6. j[i + 1] = f \o k[i]
    BY <2>2, <2>3, <2>4, <2>5, Zenon
  <2>7. i \in 0 .. n
    OBVIOUS
  <2> QED
    BY <2>6, <2>7
<1> HIDE DEF G
<1>7. \A i \in 0 .. n : i \in G
  BY <1>5, <1>6, UpTo
<1>8. j[n + 1] = f \o k[n]
  BY <1>7 DEF G
<1>9. Joined(s) = j[n + 1] /\ Joined(t) = k[n]
  BY <1>1, <1>2, <1>3, <1>4 DEF JoinTurns
<1> QED
  BY <1>0, <1>2, <1>8, <1>9 DEF t

-----------------------------------------------------------------------------
(* The samples of the sound.                                               *)

Sounds  == Nat \X Nat
Samples == Sounds \cup {Silence}
Places  == 0 .. NOTES - 1
Note    == [id : Nat, length : Nat]

SizeOf(n) == IF n.length = 0 THEN 1 ELSE n.length

\* What one sample adds.
LoudOf(x) == IF x = Silence THEN <<>> ELSE <<x>>

LEMMA SoundsInThree == \A u, v, w \in Seq(Sounds) : (u \o v) \o w = u \o (v \o w)
<1>1. Associates(Sounds)
  BY ThreeParts
<1> QED
  BY <1>1, Zenon DEF Associates

LEMMA SoundsAreLoud == \A x \in Sounds : x # Silence
BY DEF Sounds, Silence

LEMMA LoudOfTypes ==
  ASSUME NEW x \in Samples
  PROVE  LoudOf(x) \in Seq(Sounds)
BY DEF Samples, LoudOf

LEMMA LoudIs ==
  ASSUME NEW b \in Seq(Samples)
  PROVE  /\ [i \in 1 .. Len(b) |-> LoudOf(b[i])] \in Seq(Seq(Sounds))
         /\ Loud(b) = Joined([i \in 1 .. Len(b) |-> LoudOf(b[i])])
         /\ Loud(b) \in Seq(Sounds) /\ (b = <<>> => Loud(b) = <<>>)
<1> DEFINE parts == [i \in 1 .. Len(b) |-> LoudOf(b[i])]
<1>1. PICK n \in Nat : n = Len(b)
  BY LenProperties
<1>2. \A i \in 1 .. n : LoudOf(b[i]) \in Seq(Sounds)
  <2>1. \A i \in 1 .. n : b[i] \in Samples
    BY <1>1, ElementOfSeq
  <2> QED
    BY <2>1, LoudOfTypes
<1>3. parts \in Seq(Seq(Sounds)) /\ Len(parts) = n
  BY <1>1, <1>2
<1>4. Loud(b) = Joined(parts)
  BY Zenon DEF Loud, LoudOf
<1>5. b = <<>> => parts = <<>>
  <2>1. b = <<>> => n = 0
    BY <1>1
  <2> QED
    BY <1>3, <2>1, EmptySeq
<1> HIDE DEF parts
<1>6. Joined(parts) \in Seq(Sounds) /\ (parts = <<>> => Joined(parts) = <<>>)
  BY <1>3, JoinedTypes
<1> QED
  BY <1>3, <1>4, <1>5, <1>6 DEF parts

LEMMA LoudAppend ==
  ASSUME NEW b \in Seq(Samples), NEW x \in Samples
  PROVE  Loud(Append(b, x)) = Loud(b) \o LoudOf(x)
<1> DEFINE parts == [i \in 1 .. Len(b) |-> LoudOf(b[i])]
           c == Append(b, x)
           more == [i \in 1 .. Len(c) |-> LoudOf(c[i])]
<1>1. PICK n \in Nat : n = Len(b)
  BY LenProperties
<1>2. parts \in Seq(Seq(Sounds)) /\ Loud(b) = Joined(parts)
  BY LoudIs
<1>3. c \in Seq(Samples) /\ Len(c) = n + 1 /\ c[n + 1] = x /\ \A i \in 1 .. n : c[i] = b[i]
  BY <1>1, AppendProperties
<1> HIDE DEF c
<1>4. more \in Seq(Seq(Sounds)) /\ Loud(c) = Joined(more)
  BY <1>3, LoudIs
<1>5. LoudOf(x) \in Seq(Sounds)
  BY LoudOfTypes
<1>6. more = Append(parts, LoudOf(x))
  <2>1. Len(parts) = n /\ \A i \in 1 .. n : parts[i] = LoudOf(b[i])
    BY <1>1
  <2>2. /\ Len(more) = n + 1
        /\ \A i \in 1 .. n : more[i] = LoudOf(b[i])
        /\ more[n + 1] = LoudOf(x)
    <3>1. Len(more) = n + 1 /\ \A i \in 1 .. n + 1 : more[i] = LoudOf(c[i])
      BY <1>3
    <3> QED
      BY <1>3, <3>1
  <2> DEFINE a == Append(parts, LoudOf(x))
  <2> HIDE DEF parts, more
  <2>3. /\ a \in Seq(Seq(Sounds)) /\ Len(a) = n + 1
        /\ \A i \in 1 .. n : a[i] = parts[i]
        /\ a[n + 1] = LoudOf(x)
    BY <1>2, <1>5, <2>1, AppendIs
  <2> HIDE DEF a
  <2>4. \A i \in 1 .. n + 1 : more[i] = a[i]
    <3>1. \A i \in 1 .. n + 1 : i \in 1 .. n \/ i = n + 1
      OBVIOUS
    <3> QED
      BY <2>1, <2>2, <2>3, <3>1
  <2>5. more = a
    BY <1>4, <2>2, <2>3, <2>4, SeqEqual
  <2> QED
    BY <2>5 DEF a
<1> HIDE DEF parts, more
<1>7. Joined(Append(parts, LoudOf(x))) = Joined(parts) \o LoudOf(x)
  BY <1>2, <1>5, JoinedAppend
<1> QED
  BY <1>2, <1>4, <1>6, <1>7 DEF c

LEMMA NoteIs ==
  ASSUME NEW n \in Note
  PROVE  /\ SizeOf(n) \in Nat \ {0} /\ n.id \in Nat /\ n.length \in Nat
         /\ NoteSamples(n) \in Seq(Sounds) /\ Len(NoteSamples(n)) = SizeOf(n)
         /\ \A i \in 1 .. SizeOf(n) : NoteSamples(n)[i] = <<n.id, i>>
<1>1. SizeOf(n) \in Nat \ {0} /\ n.id \in Nat /\ n.length \in Nat
  BY DEF Note, SizeOf
<1>2. NoteSamples(n) = [i \in 1 .. SizeOf(n) |-> <<n.id, i>>]
  BY DEF NoteSamples, SizeOf
<1>3. \A i \in 1 .. SizeOf(n) : <<n.id, i>> \in Sounds
  BY <1>1 DEF Sounds
<1> QED
  BY <1>1, <1>2, <1>3

-----------------------------------------------------------------------------
(* The ring of notes.                                                      *)

\* NotesFrom and Rest, of any ring.
NotesOf(q, h, t) == [i \in 1 .. (t - h + NOTES) % NOTES |-> NoteSamples(q[(h + i - 1) % NOTES])]
RestOf(q, h, p, t) == SubSeq(Joined(NotesOf(q, h, t)), p + 1, Len(Joined(NotesOf(q, h, t))))

\* Nothing of the note at h is left out but its first p samples.
AtNote(q, h, p, t) == p \in Nat /\ IF h = t THEN p = 0 ELSE p < SizeOf(q[h])

After(h) == (h + 1) % NOTES
Gap(h, t) == (t - h + NOTES) % NOTES

LEMMA PlaceIs ==
  ASSUME NEW x \in 0 .. 2 * NOTES - 1
  PROVE  x % NOTES = (IF x < NOTES THEN x ELSE x - NOTES) /\ x % NOTES \in Places
<1>1. PICK m \in Nat \ {0} : m = NOTES
  BY AudioAssumption
<1>2. x % m = IF x < m THEN x ELSE x - m
  BY <1>1, ModIs
<1> QED
  BY <1>1, <1>2 DEF Places

LEMMA AfterIs ==
  ASSUME NEW h \in Places
  PROVE  After(h) \in Places /\ After(h) = IF h + 1 = NOTES THEN 0 ELSE h + 1
<1>1. NOTES \in Nat /\ NOTES > 1
  BY AudioAssumption
<1>2. PICK x \in 0 .. 2 * NOTES - 1 : x = h + 1
  BY <1>1 DEF Places
<1>3. x % NOTES = (IF x < NOTES THEN x ELSE x - NOTES) /\ x % NOTES \in Places
  BY PlaceIs
<1> QED
  BY <1>1, <1>2, <1>3 DEF After, Places

LEMMA GapIs ==
  ASSUME NEW h \in Places, NEW t \in Places
  PROVE  /\ Gap(h, t) \in Places
         /\ Gap(h, t) = IF h <= t THEN t - h ELSE t - h + NOTES
<1>1. NOTES \in Nat /\ NOTES > 1
  BY AudioAssumption
<1>2. PICK x \in 0 .. 2 * NOTES - 1 : x = t - h + NOTES
  BY <1>1 DEF Places
<1>3. x % NOTES = (IF x < NOTES THEN x ELSE x - NOTES) /\ x % NOTES \in Places
  BY PlaceIs
<1> QED
  BY <1>1, <1>2, <1>3 DEF Gap, Places

\* The place of a note that is not at the ring's end.
LEMMA PlaceOf ==
  ASSUME NEW h \in Places, NEW t \in Places, NEW i \in 1 .. Gap(h, t)
  PROVE  (h + i - 1) % NOTES \in Places /\ (h + i - 1) % NOTES # t
<1>1. NOTES \in Nat /\ NOTES > 1
  BY AudioAssumption
<1>2. Gap(h, t) \in Places /\ Gap(h, t) = IF h <= t THEN t - h ELSE t - h + NOTES
  BY GapIs
<1>3. PICK x \in 0 .. 2 * NOTES - 1 : x = h + i - 1
  BY <1>1, <1>2 DEF Places
<1>4. x % NOTES = (IF x < NOTES THEN x ELSE x - NOTES) /\ x % NOTES \in Places
  BY PlaceIs
<1> QED
  BY <1>1, <1>2, <1>3, <1>4 DEF Places

LEMMA NotesAre ==
  ASSUME NEW q \in [Places -> Note], NEW h \in Places, NEW t \in Places
  PROVE  /\ NotesOf(q, h, t) \in Seq(Seq(Sounds)) /\ Len(NotesOf(q, h, t)) = Gap(h, t)
         /\ \A i \in 1 .. Gap(h, t) : NotesOf(q, h, t)[i] = NoteSamples(q[(h + i - 1) % NOTES])
<1>1. PICK g \in Nat : g = Gap(h, t)
  BY GapIs DEF Places
<1>2. NotesOf(q, h, t) = [i \in 1 .. g |-> NoteSamples(q[(h + i - 1) % NOTES])]
  BY <1>1 DEF NotesOf, Gap
<1>3. \A i \in 1 .. g : NoteSamples(q[(h + i - 1) % NOTES]) \in Seq(Sounds)
  <2> TAKE i \in 1 .. g
  <2>1. PICK x \in Places : x = (h + i - 1) % NOTES
    BY <1>1, PlaceOf
  <2>2. q[x] \in Note
    OBVIOUS
  <2>3. NoteSamples(q[x]) \in Seq(Sounds)
    BY <2>2, NoteIs
  <2> QED
    BY <2>1, <2>3
<1> QED
  BY <1>1, <1>2, <1>3

LEMMA NotesTail ==
  ASSUME NEW q \in [Places -> Note], NEW h \in Places, NEW t \in Places, h # t
  PROVE  /\ NotesOf(q, h, t) # <<>>
         /\ NotesOf(q, h, t)[1] = NoteSamples(q[h])
         /\ Tail(NotesOf(q, h, t)) = NotesOf(q, After(h), t)
<1>0. NOTES \in Nat /\ NOTES > 1
  BY AudioAssumption
<1>1. PICK k \in Places : k = After(h) /\ k = IF h + 1 = NOTES THEN 0 ELSE h + 1
  BY AfterIs
<1>2. PICK g \in Nat : /\ g = Gap(h, t) /\ g = (IF h <= t THEN t - h ELSE t - h + NOTES)
                       /\ g > 0
  <2>1. PICK g \in Nat : g = Gap(h, t) /\ g = IF h <= t THEN t - h ELSE t - h + NOTES
    <3>1. /\ Gap(h, t) \in Places
          /\ Gap(h, t) = IF h <= t THEN t - h ELSE t - h + NOTES
      BY GapIs
    <3> QED
      BY <1>0, <3>1 DEF Places
  <2>2. g > 0
    BY <1>0, <2>1 DEF Places
  <2> QED
    BY <2>1, <2>2
<1>3. PICK m \in Nat : m = Gap(k, t) /\ m = g - 1
  <2>1. /\ Gap(k, t) \in Places
        /\ Gap(k, t) = IF k <= t THEN t - k ELSE t - k + NOTES
    BY GapIs
  <2> QED
    BY <1>0, <1>1, <1>2, <2>1 DEF Places
<1> DEFINE s == NotesOf(q, h, t)
           r == NotesOf(q, k, t)
<1>4. /\ s \in Seq(Seq(Sounds)) /\ Len(s) = g
      /\ \A i \in 1 .. g : s[i] = NoteSamples(q[(h + i - 1) % NOTES])
  <2>1. g = Gap(h, t)
    BY <1>2
  <2> QED
    BY <2>1, NotesAre
<1>5. /\ r \in Seq(Seq(Sounds)) /\ Len(r) = m
      /\ \A i \in 1 .. m : r[i] = NoteSamples(q[(k + i - 1) % NOTES])
  <2>1. m = Gap(k, t)
    BY <1>3
  <2> QED
    BY <2>1, NotesAre
<1> HIDE DEF s, r
<1>6. s # <<>>
  BY <1>2, <1>4
<1>7. Tail(s) \in Seq(Seq(Sounds)) /\ Len(Tail(s)) = m
      /\ \A i \in 1 .. m : Tail(s)[i] = s[i + 1]
  BY <1>3, <1>4, <1>6, HeadTailProperties
<1>8. ASSUME NEW i \in 1 .. m PROVE (h + (i + 1) - 1) % NOTES = (k + i - 1) % NOTES
  <2>1. PICK x \in 0 .. 2 * NOTES - 1, y \in 0 .. 2 * NOTES - 1 :
          x = h + (i + 1) - 1 /\ y = k + i - 1
    BY <1>0, <1>1, <1>2, <1>3 DEF Places
  <2>2. x % NOTES = (IF x < NOTES THEN x ELSE x - NOTES)
        /\ y % NOTES = (IF y < NOTES THEN y ELSE y - NOTES)
    BY PlaceIs
  <2>3. x % NOTES = y % NOTES
    BY <1>0, <1>1, <1>2, <1>3, <2>1, <2>2 DEF Places
  <2> QED
    BY <2>1, <2>3
<1>9. Tail(s) = r
  <2>1. ASSUME NEW i \in 1 .. m PROVE Tail(s)[i] = r[i]
    <3>1. PICK j \in 1 .. g : j = i + 1
      BY <1>2, <1>3
    <3>2. s[j] = NoteSamples(q[(h + j - 1) % NOTES])
      BY <1>4
    <3>3. (h + j - 1) % NOTES = (k + i - 1) % NOTES
      BY <1>8, <3>1
    <3> QED
      BY <1>5, <1>7, <3>1, <3>2, <3>3, Zenon
  <2> QED
    BY <1>5, <1>7, <2>1, SeqEqual
<1>10. s[1] = NoteSamples(q[h])
  <2>1. PICK j \in 1 .. g : j = 1
    BY <1>2
  <2>2. s[j] = NoteSamples(q[(h + j - 1) % NOTES])
    BY <1>4
  <2>3. PICK x \in 0 .. 2 * NOTES - 1 : x = h + j - 1 /\ x = h /\ x < NOTES
    BY <1>0, <2>1 DEF Places
  <2>4. x % NOTES = x
    BY <2>3, PlaceIs
  <2> QED
    BY <2>1, <2>2, <2>3, <2>4
<1> QED
  BY <1>1, <1>6, <1>9, <1>10 DEF s, r

LEMMA GapMore ==
  ASSUME NEW h \in Places, NEW t \in Places, After(t) # h
  PROVE  \E g \in Nat : /\ g = Gap(h, t) /\ g = (IF h <= t THEN t - h ELSE t - h + NOTES)
                       /\ Gap(h, After(t)) = g + 1
<1>0. NOTES \in Nat /\ NOTES > 1
  BY AudioAssumption
<1>1. PICK k \in Places : k = After(t) /\ k = IF t + 1 = NOTES THEN 0 ELSE t + 1
  BY AfterIs
<1>2. PICK g \in Nat : g = Gap(h, t) /\ g = IF h <= t THEN t - h ELSE t - h + NOTES
  <2>1. /\ Gap(h, t) \in Places
        /\ Gap(h, t) = IF h <= t THEN t - h ELSE t - h + NOTES
    BY GapIs
  <2> QED
    BY <1>0, <2>1 DEF Places
<1>3. PICK m \in Nat : m = Gap(h, k) /\ m = g + 1
  <2>1. /\ Gap(h, k) \in Places
        /\ Gap(h, k) = IF h <= k THEN k - h ELSE k - h + NOTES
    BY GapIs
  <2>2. k # h
    BY <1>1
  <2> QED
    BY <1>0, <1>1, <1>2, <2>1, <2>2 DEF Places
<1> QED
  BY <1>1, <1>2, <1>3

\* A note is put at t.
Put(q, t, n) == [q EXCEPT ![t] = n]

LEMMA PutIs ==
  ASSUME NEW q \in [Places -> Note], NEW t \in Places, NEW n \in Note
  PROVE  /\ Put(q, t, n) \in [Places -> Note]
         /\ Put(q, t, n)[t] = n
         /\ \A x \in Places : x # t => Put(q, t, n)[x] = q[x]
BY DEF Put

\* A note at the ring's end comes after all that there are, when the ring is not full.
LEMMA NotesAppend ==
  ASSUME NEW q \in [Places -> Note], NEW h \in Places, NEW t \in Places, NEW n \in Note,
         After(t) # h
  PROVE  NotesOf(Put(q, t, n), h, After(t)) = Append(NotesOf(q, h, t), NoteSamples(n))
<1>4. PICK r \in [Places -> Note] : /\ r = Put(q, t, n) /\ r[t] = n
                                     /\ \A x \in Places : x # t => r[x] = q[x]
  BY PutIs
<1>0. NOTES \in Nat /\ NOTES > 1
  BY AudioAssumption
<1>1. PICK k \in Places : k = After(t)
  BY AfterIs
<1>2. PICK g \in Nat : g = Gap(h, t) /\ g = IF h <= t THEN t - h ELSE t - h + NOTES
  BY GapMore
<1>3. PICK m \in Nat : m = Gap(h, k) /\ m = g + 1
  BY <1>1, <1>2, GapMore
<1> DEFINE a == NotesOf(q, h, t)
           c == NotesOf(r, h, k)
<1>5. /\ a \in Seq(Seq(Sounds)) /\ Len(a) = g
      /\ \A i \in 1 .. g : a[i] = NoteSamples(q[(h + i - 1) % NOTES])
  <2>1. g = Gap(h, t)
    BY <1>2
  <2> QED
    BY <2>1, NotesAre
<1>6. /\ c \in Seq(Seq(Sounds)) /\ Len(c) = m
      /\ \A i \in 1 .. m : c[i] = NoteSamples(r[(h + i - 1) % NOTES])
  <2>1. m = Gap(h, k) /\ r \in [Places -> Note]
    BY <1>3, <1>4
  <2> QED
    BY <2>1, NotesAre
<1> HIDE DEF a, c
<1>7. NoteSamples(n) \in Seq(Sounds)
  BY NoteIs
<1>8. /\ Append(a, NoteSamples(n)) \in Seq(Seq(Sounds))
      /\ Len(Append(a, NoteSamples(n))) = g + 1
      /\ \A i \in 1 .. g : Append(a, NoteSamples(n))[i] = a[i]
      /\ Append(a, NoteSamples(n))[g + 1] = NoteSamples(n)
  BY <1>5, <1>7, AppendIs
<1>9. ASSUME NEW i \in 1 .. g PROVE c[i] = a[i]
  <2>1. (h + i - 1) % NOTES \in Places /\ (h + i - 1) % NOTES # t
    <3>1. i \in 1 .. Gap(h, t)
      BY <1>2
    <3> QED
      BY <3>1, PlaceOf
  <2>2. r[(h + i - 1) % NOTES] = q[(h + i - 1) % NOTES]
    BY <1>4, <2>1
  <2>3. i \in 1 .. m
    BY <1>3
  <2> QED
    BY <1>5, <1>6, <2>2, <2>3, Zenon
<1>10. c[m] = NoteSamples(n)
  <2>1. m \in 1 .. m /\ m = g + 1
    BY <1>3
  <2>2. PICK x \in 0 .. 2 * NOTES - 1 : x = h + m - 1 /\ (x = t \/ x = t + NOTES)
    BY <1>0, <1>2, <2>1 DEF Places
  <2>3. x % NOTES = IF x < NOTES THEN x ELSE x - NOTES
    BY PlaceIs
  <2>4. (h + m - 1) % NOTES = t
    BY <1>0, <2>2, <2>3 DEF Places
  <2>5. c[m] = NoteSamples(r[t])
    BY <1>6, <2>1, <2>4, Zenon
  <2> QED
    BY <1>4, <2>5, Zenon
<1>11. c = Append(a, NoteSamples(n))
  <2> DEFINE d == Append(a, NoteSamples(n))
  <2>1. /\ d \in Seq(Seq(Sounds)) /\ Len(d) = m
        /\ \A i \in 1 .. g : d[i] = a[i]
        /\ d[m] = NoteSamples(n)
    BY <1>3, <1>8
  <2> HIDE DEF d
  <2>2. \A i \in 1 .. m : i \in 1 .. g \/ i = m
    BY <1>3
  <2>3. \A i \in 1 .. m : c[i] = d[i]
    BY <1>9, <1>10, <2>1, <2>2, Zenon
  <2>4. c = d
    BY <1>6, <2>1, <2>3, SeqEqual
  <2> QED
    BY <2>4 DEF d
<1> QED
  BY <1>1, <1>4, <1>11 DEF a, c

\* What is left from a sample on: it, and what is left from the next on.
LEMMA OneSample ==
  ASSUME NEW T, NEW s \in Seq(T), NEW p \in Nat, NEW n \in Nat, n = Len(s), p < n
  PROVE  SubSeq(s, p + 1, n) = <<s[p + 1]>> \o SubSeq(s, p + 2, n)
BY SubSeqRecursiveFirst

LEMMA RestTypes ==
  ASSUME NEW q \in [Places -> Note], NEW h \in Places, NEW p \in Nat, NEW t \in Places
  PROVE  RestOf(q, h, p, t) \in Seq(Sounds)
<1>1. NotesOf(q, h, t) \in Seq(Seq(Sounds))
  BY NotesAre
<1>2. PICK s \in Seq(Sounds) : s = Joined(NotesOf(q, h, t))
  BY <1>1, JoinedTypes
<1>3. SubSeq(s, p + 1, Len(s)) \in Seq(Sounds)
  BY SubSeqProperties
<1> QED
  BY <1>2, <1>3 DEF RestOf

LEMMA RestNone ==
  ASSUME NEW q \in [Places -> Note], NEW t \in Places
  PROVE  RestOf(q, t, 0, t) = <<>>
<1>1. Gap(t, t) = 0
  BY GapIs DEF Places
<1>2. NotesOf(q, t, t) \in Seq(Seq(Sounds)) /\ Len(NotesOf(q, t, t)) = 0
  BY <1>1, NotesAre
<1>3. NotesOf(q, t, t) = <<>>
  BY <1>2, EmptySeq
<1>4. Joined(NotesOf(q, t, t)) = <<>>
  BY <1>2, <1>3, JoinedTypes
<1> QED
  BY <1>4 DEF RestOf

\* A sample of the note at h is the first of what is left; after its last one the next
\* note's are left.
LEMMA RestStep ==
  ASSUME NEW q \in [Places -> Note], NEW h \in Places, NEW p \in Nat, NEW t \in Places,
         h # t, p < SizeOf(q[h])
  PROVE  RestOf(q, h, p, t) =
           <<<<q[h].id, p + 1>>>>
           \o IF p + 1 < SizeOf(q[h]) THEN RestOf(q, h, p + 1, t) ELSE RestOf(q, After(h), 0, t)
<1>1. PICK n \in Note : n = q[h]
  OBVIOUS
<1>2. PICK z \in Nat \ {0} : z = SizeOf(n)
  BY NoteIs
<1>3. PICK a \in Seq(Sounds) : /\ a = NoteSamples(n) /\ Len(a) = z
                               /\ \A i \in 1 .. z : a[i] = <<n.id, i>>
  BY <1>2, NoteIs
<1>4. After(h) \in Places
  BY AfterIs
<1>5. PICK c \in Seq(Sounds) : c = Joined(NotesOf(q, After(h), t))
  <2>1. NotesOf(q, After(h), t) \in Seq(Seq(Sounds))
    BY <1>4, NotesAre
  <2> QED
    BY <2>1, JoinedTypes
<1>6. Joined(NotesOf(q, h, t)) = a \o c
  <2>1. NotesOf(q, h, t) \in Seq(Seq(Sounds))
    BY NotesAre
  <2>2. /\ NotesOf(q, h, t) # <<>>
        /\ NotesOf(q, h, t)[1] = a
        /\ Tail(NotesOf(q, h, t)) = NotesOf(q, After(h), t)
    BY <1>1, <1>3, NotesTail
  <2>3. Joined(NotesOf(q, h, t)) = NotesOf(q, h, t)[1] \o Joined(Tail(NotesOf(q, h, t)))
    BY <2>1, <2>2, JoinedTail
  <2> QED
    BY <1>5, <2>2, <2>3
<1>7. PICK s \in Seq(Sounds) : s = a \o c /\ s = Joined(NotesOf(q, h, t))
  BY <1>6, ConcatProperties
<1>07. PICK l \in Nat : /\ l = Len(c) /\ Len(s) = z + l
                       /\ \A i \in 1 .. z + l : s[i] = IF i <= z THEN a[i] ELSE c[i - z]
  <2>1. PICK l \in Nat : l = Len(c)
    BY LenProperties
  <2>2. z = Len(a) /\ s = a \o c
    BY <1>3, <1>7
  <2>3. /\ Len(s) = z + l
        /\ \A i \in 1 .. z + l : s[i] = IF i <= z THEN a[i] ELSE c[i - z]
    BY <2>1, <2>2, ConcatIs
  <2> QED
    BY <2>1, <2>3
<1>8. PICK k \in Nat : k = Len(s) /\ z <= k /\ s[p + 1] = <<n.id, p + 1>>
  <2>1. PICK i \in 1 .. z : i = p + 1
    BY <1>1, <1>2
  <2>2. s[i] = a[i] /\ a[i] = <<n.id, i>>
    BY <1>3, <1>07
  <2> QED
    BY <1>07, <2>1, <2>2
<1>9. SubSeq(s, p + 1, k) = <<<<n.id, p + 1>>>> \o SubSeq(s, p + 2, k)
  <2>1. p < k
    BY <1>1, <1>2, <1>8
  <2>2. SubSeq(s, p + 1, k) = <<s[p + 1]>> \o SubSeq(s, p + 2, k)
    BY <1>8, <2>1, OneSample
  <2> QED
    BY <1>8, <2>2
<1>10. RestOf(q, h, p, t) = SubSeq(s, p + 1, k)
  BY <1>7, <1>8 DEF RestOf
<1>11. CASE p + 1 < z
  <2>1. RestOf(q, h, p + 1, t) = SubSeq(s, p + 2, k)
    <3>1. p + 1 + 1 = p + 2
      OBVIOUS
    <3> QED
      BY <1>7, <1>8, <3>1 DEF RestOf
  <2> QED
    BY <1>1, <1>2, <1>9, <1>10, <1>11, <2>1
<1>12. CASE ~ (p + 1 < z)
  <2>1. p + 2 = z + 1
    BY <1>1, <1>2, <1>12
  <2>2. SubSeq(s, z + 1, k) = c
    <3>1. z = Len(a) /\ k = Len(s) /\ s = a \o c
      BY <1>3, <1>7, <1>8
    <3> QED
      BY <3>1, TwoParts
  <2>3. RestOf(q, After(h), 0, t) = c
    <3>1. SubSeq(c, 1, Len(c)) = c
      BY SubSeqFull
    <3>2. 0 + 1 = 1
      OBVIOUS
    <3> QED
      BY <1>5, <3>1, <3>2 DEF RestOf
  <2> QED
    BY <1>1, <1>2, <1>9, <1>10, <1>12, <2>1, <2>2, <2>3
<1> QED
  BY <1>11, <1>12

\* The note at h is among the samples.
LEMMA AtLeastTheFirst ==
  ASSUME NEW q \in [Places -> Note], NEW h \in Places, NEW t \in Places, h # t,
         NEW p \in Nat, p < SizeOf(q[h]), NEW k, k = Len(Joined(NotesOf(q, h, t)))
  PROVE  p <= k
<1>1. PICK n \in Note : n = q[h]
  OBVIOUS
<1>2. PICK ss \in Seq(Seq(Sounds)) : ss = NotesOf(q, h, t)
  BY NotesAre
<1>3. ss # <<>> /\ ss[1] = NoteSamples(n)
  BY <1>1, <1>2, NotesTail
<1>4. PICK a \in Seq(Sounds), c \in Seq(Sounds) : a = ss[1] /\ Joined(ss) = a \o c
  <2>1. ss[1] \in Seq(Sounds) /\ Tail(ss) \in Seq(Seq(Sounds)) /\ Joined(ss) = ss[1] \o Joined(Tail(ss))
    BY <1>3, JoinedTail
  <2>2. Joined(Tail(ss)) \in Seq(Sounds)
    BY <2>1, JoinedTypes
  <2> QED
    BY <2>1, <2>2
<1>5. PICK z \in Nat, l \in Nat : z = Len(a) /\ l = Len(c)
  BY LenProperties
<1>6. z = SizeOf(n)
  BY <1>3, <1>4, <1>5, NoteIs
<1>7. Len(a \o c) = z + l
  BY <1>5, ConcatIs
<1>8. k = z + l
  BY <1>2, <1>4, <1>7
<1>9. p < z
  BY <1>1, <1>6
<1> QED
  BY <1>8, <1>9

\* What is added at the end comes after what is left.
LEMMA LeftAndMore ==
  \A s, x \in Seq(Sounds) : \A p, n \in Nat :
    n = Len(s) /\ p <= n => SubSeq(s \o x, p + 1, Len(s \o x)) = SubSeq(s, p + 1, n) \o x
<1> TAKE s, x \in Seq(Sounds)
<1> TAKE p, n \in Nat
<1> HAVE n = Len(s) /\ p <= n
<1>0. \A i \in 1 .. n : s[i] \in Sounds
  BY ElementOfSeq
<1>1. PICK u \in Seq(Sounds) : u = SubSeq(s, 1, p) /\ Len(u) = p
  <2>1. SubSeq(s, 1, p) \in Seq(Sounds) /\ Len(SubSeq(s, 1, p)) = p
    BY <1>0, SubSeqProperties
  <2> QED
    BY <2>1
<1>2. PICK v \in Seq(Sounds) : v = SubSeq(s, p + 1, n)
  <2>1. SubSeq(s, p + 1, n) \in Seq(Sounds)
    BY <1>0, SubSeqProperties
  <2> QED
    BY <2>1
<1>3. s = u \o v
  <2>1. 1 \in 1 .. Len(s) + 1 /\ p \in 1 - 1 .. Len(s) /\ n \in p .. Len(s)
    OBVIOUS
  <2>2. SubSeq(s, 1, p) \o SubSeq(s, p + 1, n) = SubSeq(s, 1, n)
    BY <2>1, ConcatAdjacentSubSeq
  <2>3. SubSeq(s, 1, n) = s
    BY SubSeqFull
  <2> QED
    BY <1>1, <1>2, <2>2, <2>3
<1>4. PICK w \in Seq(Sounds) : w = v \o x
  BY ConcatProperties
<1>5. s \o x = u \o w
  <2>1. (u \o v) \o x = u \o (v \o x)
    <3>1. u \in Seq(Sounds) /\ v \in Seq(Sounds) /\ x \in Seq(Sounds)
      OBVIOUS
    <3>2. \A w0 \in Seq(Sounds) : (u \o v) \o w0 = u \o (v \o w0)
      BY <3>1, SoundsInThree, Zenon
    <3> QED
      BY <3>1, <3>2, Zenon
  <2> QED
    BY <1>3, <1>4, <2>1, Zenon
<1>6. PICK t \in Seq(Sounds) : t = u \o w
  BY ConcatProperties
<1>7. PICK k \in Nat : k = Len(t)
  BY LenProperties
<1>8. SubSeq(t, p + 1, k) = w
  BY <1>1, <1>6, <1>7, TwoParts
<1> QED
  BY <1>2, <1>4, <1>5, <1>6, <1>7, <1>8

LEMMA RestAppend ==
  ASSUME NEW q \in [Places -> Note], NEW h \in Places, NEW t \in Places, NEW n \in Note,
         After(t) # h, NEW p \in Nat, AtNote(q, h, p, t)
  PROVE  /\ AtNote(Put(q, t, n), h, p, After(t))
         /\ RestOf(Put(q, t, n), h, p, After(t)) = RestOf(q, h, p, t) \o NoteSamples(n)
<1>0. PICK r \in [Places -> Note] : /\ r = Put(q, t, n) /\ r[t] = n
                                     /\ \A x \in Places : x # t => r[x] = q[x]
  BY PutIs
<1>1. NotesOf(r, h, After(t)) = Append(NotesOf(q, h, t), NoteSamples(n))
  BY <1>0, NotesAppend
<1>2. PICK x \in Seq(Sounds) : x = NoteSamples(n)
  BY NoteIs
<1>3. PICK ss \in Seq(Seq(Sounds)) : ss = NotesOf(q, h, t)
  BY NotesAre
<1>4. PICK s \in Seq(Sounds) : s = Joined(ss)
  BY JoinedTypes
<1>5. Joined(NotesOf(r, h, After(t))) = s \o x
  <2>1. Joined(Append(ss, x)) = Joined(ss) \o x
    BY JoinedAppend
  <2> QED
    BY <1>1, <1>2, <1>3, <1>4, <2>1
<1>6. PICK k \in Nat : k = Len(s)
  BY LenProperties
<1>7. AtNote(r, h, p, After(t))
  <2>1. CASE h = t
    <3>1. p = 0 /\ r[h] = n
      BY <1>0, <2>1 DEF AtNote
    <3>2. SizeOf(n) \in Nat \ {0}
      BY NoteIs
    <3> QED
      BY <3>1, <3>2 DEF AtNote
  <2>2. CASE h # t
    <3>1. p < SizeOf(q[h]) /\ r[h] = q[h]
      BY <1>0, <2>2 DEF AtNote
    <3> QED
      BY <3>1 DEF AtNote
  <2> QED
    BY <2>1, <2>2
<1>9. p <= k
  <2>1. CASE h = t
    BY <2>1 DEF AtNote
  <2>2. CASE h # t
    <3>1. p < SizeOf(q[h])
      BY <2>2 DEF AtNote
    <3> QED
      BY <1>3, <1>4, <1>6, <2>2, <3>1, AtLeastTheFirst
  <2> QED
    BY <2>1, <2>2
<1>10. SubSeq(s \o x, p + 1, Len(s \o x)) = SubSeq(s, p + 1, k) \o x
  BY <1>6, <1>9, LeftAndMore, Zenon
<1>11. RestOf(r, h, p, After(t)) = RestOf(q, h, p, t) \o x
  BY <1>3, <1>4, <1>5, <1>6, <1>10, Zenon DEF RestOf
<1> QED
  BY <1>0, <1>2, <1>7, <1>11

-----------------------------------------------------------------------------
(* Filling a buffer.                                                       *)

RingInv ==
  /\ queue \in [Places -> Note] /\ q_head \in Places /\ q_tail \in Places
  /\ AtNote(queue, q_head, pos, q_tail)

Left(h, p) == RestOf(queue, h, p, q_tail)

\* What the turns of fill() hand on.
FillState == [out : Seq(Samples), head : Places, pos : Nat]

\* Between its turns, what is in the buffer and what is left are what was left.
Filling(c, all) ==
  /\ c \in FillState /\ AtNote(queue, c.head, c.pos, q_tail)
  /\ Loud(c.out) \o Left(c.head, c.pos) = all

LEMMA FillTurn ==
  ASSUME RingInv, NEW all, NEW c, Filling(c, all)
  PROVE  Filling(Sampled(c), all)
<1>1. PICK q \in [Places -> Note], t \in Places : q = queue /\ t = q_tail
  BY DEF RingInv
<1>2. PICK o \in Seq(Samples), h \in Places, p \in Nat : o = c.out /\ h = c.head /\ p = c.pos
  BY DEF Filling, FillState
<1>3. AtNote(q, h, p, t) /\ Loud(o) \o RestOf(q, h, p, t) = all
  BY <1>1, <1>2 DEF Filling, Left
<1>4. Loud(o) \in Seq(Sounds)
  BY LoudIs
<1>5. CASE h = t
  <2>1. Sampled(c) = [out |-> Append(o, Silence), head |-> h, pos |-> p]
    BY <1>1, <1>2, <1>5 DEF Sampled
  <2>2. Silence \in Samples /\ LoudOf(Silence) = <<>>
    BY DEF Samples, LoudOf
  <2>3. Append(o, Silence) \in Seq(Samples) /\ Loud(Append(o, Silence)) = Loud(o)
    <3>1. Append(o, Silence) \in Seq(Samples)
      BY <2>2, AppendProperties
    <3>2. Loud(Append(o, Silence)) = Loud(o) \o <<>>
      BY <2>2, LoudAppend
    <3>3. Loud(o) \o <<>> = Loud(o)
      BY <1>4, ConcatEmptySeq
    <3> QED
      BY <3>1, <3>2, <3>3
  <2>4. Sampled(c) \in FillState
    BY <2>1, <2>3 DEF FillState
  <2> QED
    BY <1>1, <1>3, <2>1, <2>3, <2>4 DEF Filling, Left
<1>6. CASE h # t
  <2>1. PICK n \in Note : n = q[h]
    OBVIOUS
  <2>2. PICK z \in Nat \ {0}, l \in Nat : z = SizeOf(n) /\ l = n.length /\ n.id \in Nat
    BY NoteIs
  <2>3. p < z /\ z = IF l = 0 THEN 1 ELSE l
    BY <1>3, <1>6, <2>1, <2>2 DEF AtNote, SizeOf
  <2>4. PICK x \in Sounds : x = <<n.id, p + 1>>
    <3>1. n.id \in Nat /\ p + 1 \in Nat
      BY <2>2
    <3>2. <<n.id, p + 1>> \in Nat \X Nat
      BY <3>1, Zenon
    <3> QED
      BY <3>2 DEF Sounds
  <2>5. x \in Samples /\ LoudOf(x) = <<x>> /\ <<x>> \in Seq(Sounds)
    BY SoundsAreLoud DEF Samples, LoudOf
  <2>6. PICK m \in Seq(Samples) : m = Append(o, x) /\ Loud(m) = Loud(o) \o <<x>>
    <3>1. Append(o, x) \in Seq(Samples)
      BY <2>5, AppendProperties
    <3>2. Loud(Append(o, x)) = Loud(o) \o LoudOf(x)
      BY <2>5, LoudAppend
    <3> QED
      BY <2>5, <3>1, <3>2
  <2>7. PICK k \in Places, r \in Nat :
          /\ Sampled(c) = [out |-> m, head |-> k, pos |-> r]
          /\ \/ p + 1 < z /\ k = h /\ r = p + 1
             \/ ~ (p + 1 < z) /\ k = After(h) /\ r = 0
    <3>1. queue[c.head] = n /\ Append(c.out, <<n.id, c.pos + 1>>) = m
      BY <1>1, <1>2, <2>1, <2>4, <2>6
    <3>2. CASE p + 1 >= l
      <4>1. Sampled(c) = [out |-> m, head |-> After(h), pos |-> 0]
        BY <1>1, <1>2, <1>6, <2>2, <3>1, <3>2 DEF Sampled, After
      <4>2. ~ (p + 1 < z)
        BY <2>3, <3>2
      <4>3. After(h) \in Places
        BY AfterIs
      <4> QED
        BY <4>1, <4>2, <4>3
    <3>3. CASE ~ (p + 1 >= l)
      <4>1. Sampled(c) = [out |-> m, head |-> h, pos |-> p + 1]
        BY <1>1, <1>2, <1>6, <2>2, <3>1, <3>3 DEF Sampled
      <4>2. p + 1 < z
        BY <2>3, <3>3
      <4> QED
        BY <4>1, <4>2
    <3> QED
      BY <3>2, <3>3
  <2>8. RestOf(q, h, p, t) = <<x>> \o RestOf(q, k, r, t)
    <3>1. RestOf(q, h, p, t) =
            <<<<q[h].id, p + 1>>>>
            \o IF p + 1 < SizeOf(q[h]) THEN RestOf(q, h, p + 1, t) ELSE RestOf(q, After(h), 0, t)
      <4>1. p < SizeOf(q[h])
        BY <2>1, <2>2, <2>3
      <4> QED
        BY <1>6, <4>1, RestStep
    <3> QED
      BY <2>1, <2>2, <2>4, <2>7, <3>1
  <2>9. RestOf(q, k, r, t) \in Seq(Sounds)
    BY RestTypes
  <2>10. Loud(m) \o RestOf(q, k, r, t) = all
    <3>1. (Loud(o) \o <<x>>) \o RestOf(q, k, r, t) = Loud(o) \o (<<x>> \o RestOf(q, k, r, t))
      BY <1>4, <2>5, <2>9, SoundsInThree, Zenon
    <3> QED
      BY <1>3, <2>6, <2>8, <3>1, Zenon
  <2>11. AtNote(q, k, r, t)
    <3>1. CASE p + 1 < z
      BY <1>6, <2>1, <2>2, <2>7, <3>1 DEF AtNote
    <3>2. CASE ~ (p + 1 < z)
      <4>1. k = After(h) /\ r = 0
        BY <2>7, <3>2
      <4>2. SizeOf(q[k]) \in Nat \ {0}
        BY NoteIs
      <4> QED
        BY <4>1, <4>2 DEF AtNote
    <3> QED
      BY <3>1, <3>2
  <2>12. Sampled(c) \in FillState
    BY <2>7 DEF FillState
  <2> QED
    BY <1>1, <2>7, <2>10, <2>11, <2>12 DEF Filling, Left
<1> QED
  BY <1>5, <1>6

\* A buffer filled has the samples that were next in the ring.
LEMMA FilledIs ==
  ASSUME RingInv
  PROVE  Filling(Filled, InRing)
<1> DEFINE S == {c \in FillState : Filling(c, InRing)}
           step == [i \in 1 .. CHUNK |-> [c \in S |-> Sampled(c)]]
           first == [out |-> <<>>, head |-> q_head, pos |-> pos]
<1>0. CHUNK \in Nat \ {0}
  BY AudioAssumption
<1>1. first \in S
  <2>1. q_head \in Places /\ pos \in Nat /\ <<>> \in Seq(Samples)
    BY DEF RingInv, AtNote
  <2>2. first \in FillState
    BY <2>1 DEF FillState
  <2>3. InRing \in Seq(Sounds) /\ InRing = Left(q_head, pos)
    <3>1. InRing = RestOf(queue, q_head, pos, q_tail)
      BY DEF InRing, Rest, NotesFrom, RestOf, NotesOf
    <3>2. RestOf(queue, q_head, pos, q_tail) \in Seq(Sounds)
      BY <2>1, RestTypes DEF RingInv
    <3> QED
      BY <3>1, <3>2 DEF Left
  <2>4. Loud(<<>>) = <<>>
    BY <2>1, LoudIs
  <2>5. <<>> \o InRing = InRing
    BY <2>3, ConcatEmptySeq
  <2> QED
    BY <2>2, <2>3, <2>4, <2>5 DEF RingInv, Filling
<1>2. ASSUME NEW c \in S PROVE Sampled(c) \in S
  <2>1. Filling(Sampled(c), InRing)
    BY FillTurn
  <2> QED
    BY <2>1 DEF Filling
<1> HIDE DEF S, first
<1>3. \A i \in 1 .. CHUNK : \A c \in S : step[i][c] \in S
  BY <1>2
<1> HIDE DEF step
<1>4. PICK P \in [0 .. CHUNK -> S] : LoopOf(P, CHUNK, first, step)
  BY <1>0, <1>1, <1>3, LoopExists
<1>5. ASSUME NEW i \in 1 .. CHUNK PROVE P[i] = Sampled(P[i - 1])
  <2>1. i - 1 \in 0 .. CHUNK
    BY <1>0
  <2>2. P[i - 1] \in S /\ P[i] = step[i][P[i - 1]]
    BY <2>1, <1>4 DEF LoopOf
  <2> QED
    BY <2>2 DEF step
<1> DEFINE Loop(Q) == Q = [i \in 0 .. CHUNK |-> IF i = 0 THEN first ELSE Sampled(Q[i - 1])]
           R == CHOOSE Q : Loop(Q)
<1>6. Loop(P)
  <2>1. P = [i \in 0 .. CHUNK |-> P[i]] /\ P[0] = first
    BY <1>4 DEF LoopOf
  <2>2. ASSUME NEW i \in 0 .. CHUNK, i # 0 PROVE P[i] = Sampled(P[i - 1])
    <3>1. i \in 1 .. CHUNK
      BY <1>0, <2>2
    <3> QED
      BY <1>5, <3>1
  <2> QED
    BY <2>1, <2>2
<1>7. Loop(R)
  BY <1>6, Zenon
<1>8. Filled = R[CHUNK]
  BY Zenon DEF Filled, first
<1> HIDE DEF R
<1>9. R[0] = first /\ \A i \in 1 .. CHUNK : R[i] = Sampled(R[i - 1])
  <2>1. 0 \in 0 .. CHUNK /\ \A i \in 1 .. CHUNK : i \in 0 .. CHUNK /\ i # 0
    BY <1>0
  <2> QED
    BY <1>7, <2>1
<1>10. \A i \in 0 .. CHUNK : R[i] \in S
  <2> DEFINE G == {i \in 0 .. CHUNK : R[i] \in S}
  <2>1. 0 \in G
    BY <1>0, <1>1, <1>9
  <2>2. ASSUME NEW i \in 1 .. CHUNK, i - 1 \in G PROVE i \in G
    <3>1. R[i - 1] \in S /\ i \in 0 .. CHUNK
      BY <2>2, <1>0
    <3> QED
      BY <1>2, <1>9, <3>1
  <2> HIDE DEF G
  <2>3. \A i \in 0 .. CHUNK : i \in G
    BY <1>0, <2>1, <2>2, UpTo
  <2> QED
    BY <2>3 DEF G
<1>11. Filled \in S
  BY <1>0, <1>8, <1>10
<1> QED
  BY <1>11 DEF S

-----------------------------------------------------------------------------
(* Nothing is lost.                                                        *)

\* Each buffer that the interface has, without its silence.
ToPlay == [i \in 1 .. Len(ai) |-> Loud(bufs[ai[i]])]

HeardInv ==
  /\ \A b \in 0 .. NBUF - 1 : bufs[b] \in Seq(Samples)
  /\ asked \in Seq(Sounds) /\ played \in Seq(Sounds) /\ waiting \in Int

SoundInv == BufsInv /\ RingInv /\ HeardInv /\ NothingLost

LEMMA InRingIs == InRing = RestOf(queue, q_head, pos, q_tail)
BY DEF InRing, Rest, NotesFrom, RestOf, NotesOf

LEMMA InRingTypes == RingInv => InRing \in Seq(Sounds)
<1>1. ASSUME RingInv PROVE pos \in Nat
  BY <1>1 DEF RingInv, AtNote
<1> QED
  BY <1>1, InRingIs, RestTypes DEF RingInv

LEMMA ToPlayIs ==
  ASSUME BufsInv, HeardInv
  PROVE  /\ ToPlay \in Seq(Seq(Sounds)) /\ Len(ToPlay) = Len(ai)
         /\ \A i \in 1 .. Len(ai) : ToPlay[i] = Loud(bufs[ai[i]])
         /\ InBuffers = Joined(ToPlay) /\ InBuffers \in Seq(Sounds)
<1>1. PICK n \in Nat : n = Len(ai)
  <2>1. ai \in Seq(0 .. NBUF - 1)
    BY DEF BufsInv
  <2> QED
    BY <2>1, LenProperties
<1>2. \A i \in 1 .. n : Loud(bufs[ai[i]]) \in Seq(Sounds)
  <2> TAKE i \in 1 .. n
  <2>1. bufs[ai[i]] \in Seq(Samples)
    BY <1>1 DEF BufsInv, LastFilled, HeardInv
  <2> QED
    BY <2>1, LoudIs
<1>3. ToPlay = [i \in 1 .. n |-> Loud(bufs[ai[i]])]
  BY <1>1 DEF ToPlay
<1>4. ToPlay \in Seq(Seq(Sounds)) /\ Len(ToPlay) = n
  BY <1>2, <1>3
<1>5. InBuffers = Joined(ToPlay)
  BY Zenon DEF InBuffers, ToPlay
<1>6. Joined(ToPlay) \in Seq(Sounds)
  BY <1>4, JoinedTypes
<1> QED
  BY <1>1, <1>3, <1>4, <1>5, <1>6

ListedToPlay ==
  /\ ToPlay \in Seq(Seq(Sounds)) /\ Len(ToPlay) = Len(ai)
  /\ \A i \in 1 .. Len(ai) : ToPlay[i] = Loud(bufs[ai[i]])
  /\ InBuffers = Joined(ToPlay)

LEMMA AllListed == BufsInv /\ HeardInv => ListedToPlay
BY ToPlayIs DEF ListedToPlay

LEMMA SoundStart == SoundInit => SoundInv
<1> SUFFICES ASSUME SoundInit PROVE SoundInv
  OBVIOUS
<1>0. NOTES \in Nat /\ NOTES > 1 /\ CHUNK \in Nat
  BY AudioAssumption
<1>1. BufsInv
  BY BufsStart
<1>2. RingInv
  <2>1. queue \in [Places -> Note]
    BY DEF SoundInit, Note, Places
  <2> QED
    BY <1>0, <2>1 DEF SoundInit, RingInv, Places, AtNote
<1>3. HeardInv
  <2>1. Quiet \in Seq(Samples)
    BY <1>0 DEF Quiet, Samples
  <2> QED
    BY <2>1 DEF SoundInit, HeardInv
<1>4. NothingLost
  <2>1. InRing = <<>>
    BY <1>2, InRingIs, RestNone DEF SoundInit, RingInv
  <2>2. InBuffers = <<>>
    <3>1. ai = <<>>
      BY DEF SoundInit
    <3>2. ToPlay \in Seq(Seq(Sounds)) /\ Len(ToPlay) = Len(ai) /\ InBuffers = Joined(ToPlay)
      BY <1>1, <1>3, ToPlayIs
    <3>3. ToPlay = <<>>
      BY <3>1, <3>2, EmptySeq
    <3> QED
      BY <3>2, <3>3, JoinedTypes
  <2>3. <<>> \in Seq(Sounds)
    OBVIOUS
  <2>4. <<>> \o <<>> = <<>>
    BY <2>3, ConcatEmptySeq
  <2> QED
    BY <2>1, <2>2, <2>4 DEF SoundInit, NothingLost
<1> QED
  BY <1>1, <1>2, <1>3, <1>4 DEF SoundInv

LEMMA LengthTypes ==
  ASSUME NEW ms \in Int
  PROVE  Length(ms) \in Nat
<1>1. PICK r \in Nat, w \in Nat, m \in Nat : r = RATE /\ w = WORD /\ w > 0 /\ m = MS /\ m > 0
  BY AudioAssumption
<1>2. PICK x \in Int : x = ms * r
  BY <1>1
<1>3. PICK y \in Nat : y = x % w
  BY <1>1
<1>4. y \div m \in Nat
  BY <1>1
<1> QED
  BY <1>1, <1>2, <1>3, <1>4 DEF Length

\* BEEP, at once or when it has waited.
LEMMA NoteKeeps ==
  ASSUME SoundInv, NEW ms \in Int, AudioNote(ms), UNCHANGED <<bufs, next_buf, ai, played>>
  PROVE  SoundInv'
<1>1. BufsInv'
  BY DEF SoundInv, BufsInv, LastFilled
<1>2. HeardInv /\ RingInv /\ NothingLost /\ BufsInv
  BY DEF SoundInv
<1>3. InBuffers' = InBuffers
  BY DEF InBuffers
<1>4. CASE UNCHANGED <<ring, asked>> /\ waiting' \in Int
  <2>1. HeardInv' /\ RingInv'
    BY <1>2, <1>4 DEF HeardInv, RingInv, ring
  <2>2. InRing' = InRing
    BY <1>4, InRingIs DEF InRing, Rest, NotesFrom, ring
  <2> QED
    BY <1>1, <1>2, <1>3, <1>4, <2>1, <2>2 DEF SoundInv, NothingLost
<1>5. CASE ~ RingFull /\ queue' = Put(queue, q_tail, [id |-> NextId, length |-> Length(ms)])
           /\ q_tail' = After(q_tail) /\ q_head' = q_head /\ pos' = pos /\ waiting' \in Int
           /\ asked' = asked \o NoteSamples([id |-> NextId, length |-> Length(ms)])
  <2>1. NextId \in Nat
    <3>1. PICK k \in Nat : k = Len(asked)
      BY <1>2, LenProperties DEF HeardInv
    <3>2. CASE asked # <<>>
      <4>1. k # 0
        BY <1>2, <3>1, <3>2, EmptySeq DEF HeardInv
      <4>2. asked[k] \in Sounds
        BY <1>2, <3>1, <4>1, ElementOfSeq DEF HeardInv
      <4>3. asked[k][1] \in Nat
        BY <4>2 DEF Sounds
      <4> QED
        BY <3>1, <3>2, <4>3 DEF NextId, Last
    <3> QED
      BY <3>2 DEF NextId
  <2>2. PICK n \in Note : n = [id |-> NextId, length |-> Length(ms)]
    BY <2>1, LengthTypes DEF Note
  <2>3. PICK q \in [Places -> Note], h \in Places, t \in Places, p \in Nat :
          q = queue /\ h = q_head /\ t = q_tail /\ p = pos
    BY <1>2 DEF RingInv, AtNote
  <2>4. After(t) # h /\ After(t) \in Places
    BY <1>5, <2>3, AfterIs DEF RingFull, After
  <2>5. AtNote(q, h, p, t)
    BY <1>2, <2>3 DEF RingInv
  <2>6. /\ Put(q, t, n) \in [Places -> Note] /\ AtNote(Put(q, t, n), h, p, After(t))
        /\ RestOf(Put(q, t, n), h, p, After(t)) = RestOf(q, h, p, t) \o NoteSamples(n)
    BY <2>4, <2>5, PutIs, RestAppend
  <2>7. queue' = Put(q, t, n) /\ q_tail' = After(t) /\ q_head' = h /\ pos' = p
    BY <1>5, <2>2, <2>3
  <2>8. RingInv'
    BY <2>4, <2>6, <2>7 DEF RingInv
  <2>9. PICK a \in Seq(Sounds), b \in Seq(Sounds), c \in Seq(Sounds), d \in Seq(Sounds) :
          a = played /\ b = InBuffers /\ c = InRing /\ d = NoteSamples(n)
    BY <1>2, ToPlayIs, InRingTypes, NoteIs DEF HeardInv
  <2>10. InRing' = c \o d
    <3>1. InRing' = RestOf(queue', q_head', pos', q_tail')
      BY DEF InRing, Rest, NotesFrom, RestOf, NotesOf
    <3> QED
      BY <2>3, <2>6, <2>7, <2>9, <3>1, InRingIs
  <2>11. asked = (a \o b) \o c /\ asked' = asked \o d
    BY <1>2, <1>5, <2>2, <2>9 DEF NothingLost
  <2>12. ((a \o b) \o c) \o d = (a \o b) \o (c \o d)
    <3>1. a \o b \in Seq(Sounds)
      BY ConcatProperties
    <3> QED
      BY SoundsInThree, <3>1, Zenon
  <2>13. NothingLost'
    BY <1>3, <2>9, <2>10, <2>11, <2>12, Zenon DEF NothingLost
  <2>14. HeardInv'
    <3>1. asked' \in Seq(Sounds)
      BY <1>2, <2>9, <2>11, ConcatProperties DEF HeardInv
    <3> QED
      BY <1>2, <1>5, <3>1 DEF HeardInv
  <2> QED
    BY <1>1, <2>8, <2>13, <2>14 DEF SoundInv
<1> QED
  BY <1>4, <1>5 DEF AudioNote, After, Put, ring

\* QUIET: what is not to be played any more is what was left in the ring.
LEMMA QuietKeeps ==
  ASSUME SoundInv, QuietCall
  PROVE  SoundInv'
<1>1. BufsInv' /\ HeardInv /\ RingInv /\ NothingLost /\ BufsInv
  BY DEF SoundInv, BufsInv, LastFilled, QuietCall
<1>2. InBuffers' = InBuffers
  BY DEF InBuffers, QuietCall
<1>3. PICK q \in [Places -> Note], t \in Places : q = queue /\ t = q_tail
  BY <1>1 DEF RingInv
<1>4. queue' = q /\ q_tail' = t /\ q_head' = t /\ pos' = 0
  BY <1>3 DEF QuietCall
<1>5. RingInv'
  BY <1>4 DEF RingInv, AtNote
<1>6. InRing' = <<>>
  <2>1. InRing' = RestOf(queue', q_head', pos', q_tail')
    BY DEF InRing, Rest, NotesFrom, RestOf, NotesOf
  <2> QED
    BY <1>4, <2>1, RestNone
<1>7. PICK a \in Seq(Sounds), b \in Seq(Sounds), c \in Seq(Sounds) :
        a = played /\ b = InBuffers /\ c = InRing
  BY <1>1, ToPlayIs, InRingTypes DEF HeardInv
<1>8. PICK d \in Seq(Sounds) : d = a \o b
  BY ConcatProperties
<1>9. asked \in Seq(Sounds) /\ asked = d \o c
  BY <1>1, <1>7, <1>8 DEF NothingLost, HeardInv
<1>10. PICK k \in Nat, l \in Nat, n \in Nat : k = Len(d) /\ l = Len(c) /\ n = Len(asked)
  BY <1>9, LenProperties
<1>11. k = n - l
  BY <1>9, <1>10, ConcatIs
<1>12. SubSeq(asked, 1, k) = d
  BY <1>9, <1>10, TwoParts
<1>13. asked' = d
  <2>1. asked' = SubSeq(asked, 1, Len(asked) - Len(InRing))
    BY DEF QuietCall
  <2> QED
    BY <1>7, <1>10, <1>11, <1>12, <2>1
<1>14. NothingLost'
  <2>1. d \o <<>> = d
    BY ConcatEmptySeq
  <2>2. played' = played
    BY DEF QuietCall
  <2> QED
    BY <1>2, <1>6, <1>7, <1>8, <1>13, <2>1, <2>2, Zenon DEF NothingLost
<1>15. HeardInv'
  BY <1>1, <1>13 DEF HeardInv, QuietCall
<1> QED
  BY <1>1, <1>5, <1>14, <1>15 DEF SoundInv

\* A buffer is filled: it is the last of those to be played.
LEMMA PumpKeeps ==
  ASSUME SoundInv, BufsInv', PumpFills, Len(ai) < 2
  PROVE  SoundInv'
<1>1. HeardInv /\ RingInv /\ NothingLost /\ BufsInv
  BY DEF SoundInv
<1>2. PICK f \in FillState :
        /\ f = Filled /\ AtNote(queue, f.head, f.pos, q_tail)
        /\ Loud(f.out) \o Left(f.head, f.pos) = InRing
  BY <1>1, FilledIs DEF Filling
<1>3. PICK o \in Seq(Samples), h \in Places, p \in Nat : o = f.out /\ h = f.head /\ p = f.pos
  BY DEF FillState
<1>4. /\ queue' = queue /\ q_tail' = q_tail /\ q_head' = h /\ pos' = p
      /\ asked' = asked /\ played' = played /\ waiting' = waiting
      /\ ai' = Append(ai, next_buf)
  BY <1>2, <1>3 DEF PumpFills
<1>5. next_buf \in 0 .. NBUF - 1 /\ DOMAIN bufs = 0 .. NBUF - 1 /\ ai \in Seq(0 .. NBUF - 1)
  BY <1>1 DEF BufsInv, LastFilled
<1>6. bufs'[next_buf] = o /\ \A b \in 0 .. NBUF - 1 : b # next_buf => bufs'[b] = bufs[b]
  <2>1. bufs' = [bufs EXCEPT ![next_buf] = Filled.out]
    BY DEF PumpFills
  <2> QED
    BY <1>2, <1>3, <1>5, <2>1
<1>7. RingInv'
  BY <1>1, <1>2, <1>3, <1>4 DEF RingInv
<1>8. HeardInv'
  <2>1. \A b \in 0 .. NBUF - 1 : bufs'[b] \in Seq(Samples)
    BY <1>1, <1>6 DEF HeardInv
  <2> QED
    BY <1>1, <1>4, <2>1 DEF HeardInv
<1>9. PICK n \in Nat : n = Len(ai)
  BY <1>5, LenProperties
<1>10. ai' \in Seq(0 .. NBUF - 1) /\ Len(ai') = n + 1 /\ ai'[n + 1] = next_buf
       /\ \A i \in 1 .. n : ai'[i] = ai[i]
  BY <1>4, <1>5, <1>9, AppendIs
<1>11. \A i \in 1 .. n : ai[i] \in 0 .. NBUF - 1 /\ ai[i] # next_buf
  <2>1. \A i \in 1 .. n : ai[i] # next_buf
    BY <1>1, <1>9, FillsAnother
  <2> QED
    BY <1>5, <1>9, <2>1, ElementOfSeq
<1>12. PICK s \in Seq(Seq(Sounds)) :
         /\ s = ToPlay /\ Len(s) = n /\ \A i \in 1 .. n : s[i] = Loud(bufs[ai[i]])
         /\ InBuffers = Joined(s)
  BY <1>1, <1>9, ToPlayIs
<1>13. Loud(o) \in Seq(Sounds)
  BY LoudIs
<1>14. /\ Append(s, Loud(o)) \in Seq(Seq(Sounds)) /\ Len(Append(s, Loud(o))) = n + 1
       /\ \A i \in 1 .. n : Append(s, Loud(o))[i] = s[i]
       /\ Append(s, Loud(o))[n + 1] = Loud(o)
  BY <1>12, <1>13, AppendIs
<1>15. ToPlay' \in Seq(Seq(Sounds)) /\ Len(ToPlay') = n + 1
       /\ (\A i \in 1 .. n + 1 : ToPlay'[i] = Loud(bufs'[ai'[i]]))
       /\ InBuffers' = Joined(ToPlay')
  <2>1. BufsInv' /\ HeardInv' => ListedToPlay'
    BY AllListed, PTL
  <2> QED
    BY <1>8, <1>10, <2>1 DEF ListedToPlay
<1>16. ToPlay' = Append(s, Loud(o))
  <2>1. \A i \in 1 .. n + 1 : i \in 1 .. n \/ i = n + 1
    OBVIOUS
  <2>2. \A i \in 1 .. n : ToPlay'[i] = s[i]
    <3> TAKE i \in 1 .. n
    <3>1. i \in 1 .. n + 1 /\ ai'[i] = ai[i]
      BY <1>10
    <3>2. bufs'[ai[i]] = bufs[ai[i]]
      BY <1>6, <1>11
    <3> QED
      BY <1>12, <1>15, <3>1, <3>2, Zenon
  <2>3. ToPlay'[n + 1] = Loud(o)
    <3>1. n + 1 \in 1 .. n + 1
      OBVIOUS
    <3> QED
      BY <1>6, <1>10, <1>15, <3>1, Zenon
  <2> DEFINE a == Append(s, Loud(o))
  <2>4. \A i \in 1 .. n + 1 : ToPlay'[i] = a[i]
    BY <1>14, <2>1, <2>2, <2>3, Zenon
  <2>5. a \in Seq(Seq(Sounds)) /\ Len(a) = n + 1
    BY <1>14
  <2> HIDE DEF a
  <2>6. ToPlay' = a
    BY <1>15, <2>4, <2>5, SeqEqual
  <2> QED
    BY <2>6 DEF a
<1>17. InBuffers' = InBuffers \o Loud(o)
  BY <1>12, <1>13, <1>15, <1>16, JoinedAppend
<1>18. Loud(o) \o InRing' = InRing
  <2>1. InRing' = RestOf(queue', q_head', pos', q_tail')
    BY DEF InRing, Rest, NotesFrom, RestOf, NotesOf
  <2> QED
    BY <1>2, <1>3, <1>4, <2>1 DEF Left
<1>19. NothingLost'
  <2>1. PICK a \in Seq(Sounds), b \in Seq(Sounds), l \in Seq(Sounds) :
          a = played /\ b = InBuffers /\ l = Loud(o)
    BY <1>1, <1>13, ToPlayIs DEF HeardInv
  <2>2. PICK r \in Seq(Sounds) : r = InRing'
    <3>1. InRing' = RestOf(queue, h, p, q_tail)
      <4>1. InRing' = RestOf(queue', q_head', pos', q_tail')
        BY DEF InRing, Rest, NotesFrom, RestOf, NotesOf
      <4> QED
        BY <1>4, <4>1
    <3>2. RestOf(queue, h, p, q_tail) \in Seq(Sounds)
      BY <1>1, RestTypes DEF RingInv
    <3> QED
      BY <3>1, <3>2
  <2>3. (a \o b) \o (l \o r) = (a \o (b \o l)) \o r
    <3>1. a \o b \in Seq(Sounds)
      BY ConcatProperties
    <3>2. ((a \o b) \o l) \o r = (a \o b) \o (l \o r)
      BY <3>1, SoundsInThree, Zenon
    <3>3. (a \o b) \o l = a \o (b \o l)
      BY SoundsInThree, Zenon
    <3> QED
      BY <3>2, <3>3, Zenon
  <2>4. asked = (a \o b) \o (l \o r)
    BY <1>1, <1>18, <2>1, <2>2, Zenon DEF NothingLost
  <2>5. asked' = asked /\ played' = a /\ InBuffers' = b \o l
    BY <1>4, <1>17, <2>1
  <2> QED
    BY <2>2, <2>3, <2>4, <2>5, Zenon DEF NothingLost
<1> QED
  BY <1>7, <1>8, <1>19 DEF SoundInv

\* A buffer has been played: what was in it has been heard.
LEMMA PlayedKeeps ==
  ASSUME SoundInv, BufsInv', PlayedOut
  PROVE  SoundInv'
<1>1. HeardInv /\ RingInv /\ NothingLost /\ BufsInv
  BY DEF SoundInv
<1>2. /\ ai # <<>> /\ ai' = Tail(ai) /\ played' = played \o Loud(bufs[Head(ai)])
      /\ UNCHANGED <<ring, bufs, waiting, asked>>
  BY DEF PlayedOut
<1>3. ai \in Seq(0 .. NBUF - 1)
  BY <1>1 DEF BufsInv
<1>4. PICK n \in Nat : n + 1 = Len(ai)
  <2>1. PICK m \in Nat : m = Len(ai)
    BY <1>3, LenProperties
  <2>2. m # 0
    BY <1>2, <1>3, <2>1, EmptySeq
  <2>3. m - 1 \in Nat /\ m - 1 + 1 = m
    BY <2>2
  <2> QED
    BY <2>1, <2>3
<1>5. Len(ai') = n /\ (\A i \in 1 .. n : ai'[i] = ai[i + 1]) /\ Head(ai) = ai[1]
  BY <1>2, <1>3, <1>4, HeadTailProperties
<1>6. PICK s \in Seq(Seq(Sounds)) :
         /\ s = ToPlay /\ Len(s) = n + 1 /\ \A i \in 1 .. n + 1 : s[i] = Loud(bufs[ai[i]])
         /\ InBuffers = Joined(s)
  BY <1>1, <1>4, ToPlayIs
<1>7. PICK f \in Seq(Sounds), u \in Seq(Seq(Sounds)) :
        f = s[1] /\ u = Tail(s) /\ InBuffers = f \o Joined(u)
  <2>1. s # <<>>
    BY <1>6
  <2>2. s[1] \in Seq(Sounds) /\ Tail(s) \in Seq(Seq(Sounds)) /\ Joined(s) = s[1] \o Joined(Tail(s))
    BY <2>1, JoinedTail
  <2> QED
    BY <1>6, <2>2
<1>8. f = Loud(bufs[Head(ai)])
  <2>1. 1 \in 1 .. n + 1
    OBVIOUS
  <2> QED
    BY <1>5, <1>6, <1>7, <2>1
<1>9. asked' \in Seq(Sounds) /\ played' \in Seq(Sounds) /\ played' = played \o f
  BY <1>1, <1>2, <1>8, ConcatProperties DEF HeardInv
<1>10. HeardInv'
  <2>1. \A b \in 0 .. NBUF - 1 : bufs'[b] \in Seq(Samples)
    BY <1>1, <1>2 DEF HeardInv
  <2> QED
    BY <1>1, <1>2, <1>9, <2>1 DEF HeardInv
<1>11. RingInv'
  BY <1>1, <1>2 DEF RingInv, ring
<1>12. InRing' = InRing
  BY <1>2 DEF InRing, Rest, NotesFrom, ring
<1>13. /\ ToPlay' \in Seq(Seq(Sounds)) /\ Len(ToPlay') = n
       /\ \A i \in 1 .. n : ToPlay'[i] = Loud(bufs'[ai'[i]])
       /\ InBuffers' = Joined(ToPlay')
  <2>1. BufsInv' /\ HeardInv' => ListedToPlay'
    BY AllListed, PTL
  <2> QED
    BY <1>5, <1>10, <2>1 DEF ListedToPlay
<1>14. ToPlay' = u
  <2>1. Len(u) = n /\ \A i \in 1 .. n : u[i] = s[i + 1]
    <3>1. s # <<>>
      BY <1>6
    <3> QED
      BY <1>6, <1>7, <3>1, HeadTailProperties
  <2>2. \A i \in 1 .. n : ToPlay'[i] = u[i]
    <3> TAKE i \in 1 .. n
    <3>1. PICK j \in 1 .. n + 1 : j = i + 1
      OBVIOUS
    <3>2. bufs'[ai'[i]] = bufs[ai[j]]
      BY <1>2, <1>5, <3>1
    <3> QED
      BY <1>6, <1>13, <2>1, <3>1, <3>2, Zenon
  <2> QED
    BY <1>7, <1>13, <2>1, <2>2, SeqEqual
<1>15. NothingLost'
  <2>1. PICK a \in Seq(Sounds), b \in Seq(Sounds) : a = played /\ b = Joined(u)
    BY <1>1, JoinedTypes DEF HeardInv
  <2>2. a \o (f \o b) = (a \o f) \o b
    BY SoundsInThree, Zenon
  <2>3. asked = (a \o (f \o b)) \o InRing
    BY <1>1, <1>7, <2>1, Zenon DEF NothingLost
  <2>4. asked' = asked /\ played' = a \o f /\ InBuffers' = b
    BY <1>2, <1>9, <1>13, <1>14, <2>1
  <2> QED
    BY <1>12, <2>2, <2>3, <2>4, Zenon DEF NothingLost
<1> QED
  BY <1>10, <1>11, <1>15 DEF SoundInv

LEMMA SoundStep ==
  ASSUME Honest, SoundInv, [SoundNext]_avars
  PROVE  SoundInv'
<1>0. BufsInv'
  BY BufsStep DEF SoundInv
<1>1. CASE UNCHANGED <<ring, bufs, next_buf, ai, waiting, asked, played>>
  BY <1>1 DEF SoundInv, BufsInv, LastFilled, RingInv, HeardInv, NothingLost, InRing, Rest,
              NotesFrom, InBuffers, ring
<1>2. CASE \E ms \in Int : AudioNote(ms) /\ UNCHANGED <<bufs, next_buf, ai, played>>
  BY <1>2, NoteKeeps
<1>3. CASE QuietCall
  BY <1>3, QuietKeeps
<1>4. CASE PumpFills /\ Len(ai) < 2
  BY <1>0, <1>4, PumpKeeps
<1>5. CASE PlayedOut
  BY <1>0, <1>5, PlayedKeeps
<1>6. SoundNext => \/ UNCHANGED <<ring, bufs, next_buf, ai, waiting, asked, played>>
                   \/ \E ms \in Int : AudioNote(ms) /\ UNCHANGED <<bufs, next_buf, ai, played>>
                   \/ QuietCall \/ (PumpFills /\ Len(ai) < 2) \/ PlayedOut
  <2>1. PumpTurn => PumpEnds \/ (PumpFills /\ Len(ai) < 2)
    BY TurnsOf DEF SoundInv
  <2>2. PumpEnds \/ PumpStart \/ Frame => UNCHANGED <<ring, bufs, next_buf, ai, waiting, asked, played>>
    BY DEF PumpEnds, PumpStart, Frame
  <2>3. BeepAgain => \E ms \in Int : AudioNote(ms) /\ UNCHANGED <<bufs, next_buf, ai, played>>
    BY DEF BeepAgain, SoundInv, HeardInv
  <2>4. (\E ms \in Millis : Beep(ms))
        => \E ms \in Int : AudioNote(ms) /\ UNCHANGED <<bufs, next_buf, ai, played>>
    BY AudioAssumption DEF Beep
  <2> QED
    BY <2>1, <2>2, <2>3, <2>4 DEF SoundNext, Kernel
<1> QED
  <2>1. UNCHANGED avars => UNCHANGED <<ring, bufs, next_buf, ai, waiting, asked, played>>
    BY DEF avars, ring
  <2> QED
    BY <1>1, <1>2, <1>3, <1>4, <1>5, <1>6, <2>1

\* Between notes, buffers and the ring's end, with the status register as it is and
\* however often QUIET cuts a note short, no sample is lost, doubled or out of turn.
THEOREM EverySampleOnce ==
  ASSUME Honest
  PROVE  SoundSpec => []NothingLost
<1>1. SoundInit => SoundInv
  BY SoundStart
<1>2. SoundInv /\ [SoundNext]_avars => SoundInv'
  BY SoundStep
<1>3. SoundInv => NothingLost
  BY DEF SoundInv
<1> QED
  BY <1>1, <1>2, <1>3, PTL DEF SoundSpec

=============================================================================
