----------------------------- MODULE PromptProofs -----------------------------
(***************************************************************************)
(* The history of the prompt is a ring that is written over: for any size  *)
(* of it and any lines, what the arrow keys recall is what was run, in its *)
(* order.  And for a screen and regions of any size, what is on the screen *)
(* where the prompt has it is what the console's copy says.                *)
(***************************************************************************)
EXTENDS Prompt, TLAPS

-----------------------------------------------------------------------------
(* What each operation of the console keeps: whatever is written, scrolled *)
(* or cleared, the copy of the text and the screen change alike, and a     *)
(* console that is moved and painted again has on the screen what is in    *)
(* its copy.                                                               *)

Fields == {"text", "rows", "row", "place", "view"}

\* The state of a console.
ConType(c) ==
  /\ DOMAIN c = Fields /\ DOMAIN c.text = Row /\ DOMAIN c.rows = Row
  /\ c = [f \in Fields |-> c[f]]
  /\ c.text = [r \in Row |-> c.text[r]] /\ c.rows = [r \in Row |-> c.rows[r]]
  /\ c.row \in Row /\ c.place \in Places

\* The screen shows the copy.
Match(c) == Seen(c) => \A r \in Region(c.place) : c.rows[r] = c.text[r]

\* The same, but for what has been drawn over the cursor's row.
MatchButLine(c) ==
  Seen(c) => \A r \in Region(c.place) :
    c.rows[r] = c.text[r] \/ (r = c.row /\ c.text[r] = Blank /\ c.rows[r] # Ink)

\* d is c, a console still, where it was and as much seen.
Same(c, d) == ConType(d) /\ d.place = c.place /\ d.view = c.view

LEMMA RegionRows ==
  ASSUME NEW p \in Places
  PROVE  TopRow[p] \in Row /\ BotRow[p] \in Row /\ Region(p) \subseteq Row /\ ROWS \in Nat \ {0}
BY ConsoleAssumption DEF Region, Row

\* fill, draw_glyph: a row of both becomes the same.
LEMMA WriteKeeps ==
  ASSUME NEW c, ConType(c), NEW r \in Row, NEW what
  PROVE  /\ Same(c, Write(c, r, what)) /\ Write(c, r, what).row = c.row
         /\ Write(c, r, what).text[r] = what
         /\ Match(c) => Match(Write(c, r, what))
BY RegionRows DEF Write, Drawn, Seen, Same, ConType, Fields, Match

\* The line is erased, and what was drawn over its row is gone.
LEMMA EraseMatches ==
  ASSUME NEW c, ConType(c), MatchButLine(c)
  PROVE  Match(con_erase_row(c, c.row))
BY RegionRows DEF con_erase_row, Write, Drawn, Seen, ConType, Fields, Match, MatchButLine

LEMMA ScrollKeeps ==
  ASSUME NEW c, ConType(c)
  PROVE  /\ Same(c, scroll(c)) /\ scroll(c).row = BotRow[c.place]
         /\ Match(c) => Match(scroll(c))
<1> DEFINE p == c.place
           d == [c EXCEPT !.text = Up(@, p), !.row = BotRow[p]]
<1>1. p \in Places /\ TopRow[p] \in Row /\ BotRow[p] \in Row /\ ROWS \in Nat
      /\ Region(p) \subseteq Row
  BY RegionRows DEF ConType
<1>2. ConType(d) /\ d.place = p /\ d.view = c.view /\ d.row = BotRow[p]
      /\ d.text = Up(c.text, p) /\ d.rows = c.rows
  BY <1>1 DEF ConType, Fields, Up
<1>3. scroll(c) = IF c.view = p THEN [d EXCEPT !.rows = Up(c.rows, p)] ELSE d
  BY <1>2 DEF scroll, Drawn, Seen
<1>4. Same(c, scroll(c)) /\ scroll(c).row = BotRow[p]
  <2>1. CASE c.view = p
    <3>1. scroll(c) = [d EXCEPT !.rows = Up(c.rows, p)]
      BY <1>3, <2>1
    <3>2. Up(c.rows, p) = [r \in Row |-> Up(c.rows, p)[r]]
      BY DEF Up
    <3> HIDE DEF d
    <3> QED
      BY <1>2, <3>1, <3>2 DEF Same, ConType, Fields
  <2>2. CASE c.view # p
    <3> HIDE DEF d
    <3> QED
      BY <1>2, <1>3, <2>2 DEF Same
  <2> QED
    BY <2>1, <2>2
<1>5. ASSUME Match(c) PROVE Match(scroll(c))
  <2>1. CASE c.view = p
    <3>1. scroll(c).rows = Up(c.rows, p) /\ scroll(c).text = Up(c.text, p)
      BY <1>2, <1>3, <2>1 DEF ConType, Fields
    <3>2. \A r \in Region(p) : c.rows[r] = c.text[r]
      BY <1>5, <2>1 DEF Match, Seen
    <3>3. ASSUME NEW r \in Region(p)
          PROVE  Up(c.rows, p)[r] = Up(c.text, p)[r]
      <4>1. r \in Row /\ TopRow[p] \in Nat /\ BotRow[p] \in Nat /\ r \in Nat
            /\ (r = BotRow[p] \/ r \in TopRow[p] .. BotRow[p] - 1)
        BY <1>1, <3>3 DEF Region, Row
      <4>2. CASE r = BotRow[p]
        <5>1. r \notin TopRow[p] .. BotRow[p] - 1
          BY <4>1, <4>2
        <5> QED
          BY <4>1, <4>2, <5>1 DEF Up
      <4>3. CASE r \in TopRow[p] .. BotRow[p] - 1
        <5>1. r + 1 \in Region(p)
          BY <4>1, <4>3 DEF Region
        <5>2. c.rows[r + 1] = c.text[r + 1]
          BY <5>1, <3>2
        <5> QED
          BY <4>1, <4>3, <5>2 DEF Up
      <4> QED
        BY <4>1, <4>2, <4>3
    <3> QED
      BY <1>4, <3>1, <3>3 DEF Match, Same
  <2>2. CASE c.view # p
    BY <1>4, <2>2 DEF Match, Same, Seen
  <2> QED
    BY <2>1, <2>2
<1> QED
  BY <1>4, <1>5

LEMMA NewlineKeeps ==
  ASSUME NEW c, ConType(c)
  PROVE  /\ Same(c, Newline(c)) /\ Newline(c).row <= BotRow[c.place]
         /\ Match(c) => Match(Newline(c))
<1>1. c.row \in Row /\ TopRow[c.place] \in Row /\ BotRow[c.place] \in Row /\ ROWS \in Nat
  BY RegionRows DEF ConType
<1>2. CASE c.row + 1 > BotRow[c.place]
  BY <1>1, <1>2, ScrollKeeps DEF Newline, Row
<1>3. CASE ~(c.row + 1 > BotRow[c.place])
  <2>1. Newline(c) = [c EXCEPT !.row = c.row + 1]
    BY <1>3 DEF Newline
  <2>2. c.row + 1 \in Row /\ c.row + 1 <= BotRow[c.place]
    BY <1>1, <1>3 DEF Row
  <2>3. Same(c, Newline(c)) /\ Newline(c).row = c.row + 1
        /\ Newline(c).rows = c.rows /\ Newline(c).text = c.text
    BY <2>1, <2>2 DEF Same, ConType, Fields
  <2> QED
    BY <2>2, <2>3 DEF Match, Seen, Same
<1> QED
  BY <1>2, <1>3

LEMMA PutRowKeeps ==
  ASSUME NEW c, ConType(c)
  PROVE  /\ Same(c, PutRow(c)) /\ PutRow(c).row <= BotRow[c.place]
         /\ Match(c) => Match(PutRow(c))
<1> DEFINE w == Write(c, c.row, Ink)
<1>1. ConType(w) /\ w.place = c.place /\ w.view = c.view /\ (Match(c) => Match(w))
  BY WriteKeeps DEF ConType, Same
<1>2. /\ Same(w, Newline(w)) /\ Newline(w).row <= BotRow[w.place]
      /\ Match(w) => Match(Newline(w))
  BY <1>1, NewlineKeeps
<1> QED
  BY <1>1, <1>2 DEF PutRow, Same

LEMMA ClearKeeps ==
  ASSUME NEW c, ConType(c)
  PROVE  /\ Same(c, con_clear(c)) /\ con_clear(c).row = TopRow[c.place]
         /\ Match(con_clear(c))
<1>1. c.place \in Places /\ TopRow[c.place] \in Row /\ Region(c.place) \subseteq Row
  BY RegionRows DEF ConType
<1> QED
  BY <1>1 DEF con_clear, Drawn, Seen, Same, ConType, Fields, Match

LEMMA AtKeeps ==
  ASSUME NEW c, ConType(c), NEW r \in Row
  PROVE  /\ Same(c, con_at(c, r)) /\ con_at(c, r).row = r
         /\ Match(c) => Match(con_at(c, r))
BY DEF con_at, Same, ConType, Fields, Match, Seen

\* con_place, wherever the cursor is.
LEMMA PlaceKeeps ==
  ASSUME NEW c, ConType(c), NEW p \in Places
  PROVE  /\ ConType(con_place(c, p)) /\ con_place(c, p).place = p
         /\ con_place(c, p).view = c.view /\ con_place(c, p).row <= BotRow[p]
<1>1. c.row \in Row /\ TopRow[p] \in Row /\ BotRow[p] \in Row /\ ROWS \in Nat /\ TopRow[p] <= BotRow[p]
  BY RegionRows, ConsoleAssumption DEF ConType
<1> DEFINE d == con_scroll_region(c, p)
<1>2. ConType(d) /\ d.view = c.view /\ d.row <= BotRow[p]
  <2>1. CASE c.row > BotRow[p]
    <3> DEFINE shift == c.row - BotRow[p]
               kept == [r \in Row |->
                          IF r > BotRow[p] \/ (r \in Region(p) /\ r + shift >= ROWS) THEN Blank
                          ELSE IF r \in Region(p) THEN c.text[r + shift] ELSE c.text[r]]
    <3>1. d = [c EXCEPT !.text = kept, !.row = BotRow[p]]
      BY <2>1 DEF con_scroll_region
    <3>2. kept = [r \in Row |-> kept[r]] /\ DOMAIN kept = Row
      OBVIOUS
    <3> HIDE DEF kept, d
    <3>3. ConType(d) /\ d.view = c.view /\ d.row = BotRow[p]
      BY <1>1, <3>1, <3>2 DEF ConType, Fields
    <3> QED
      BY <1>1, <3>3 DEF Row
  <2>2. CASE ~(c.row > BotRow[p]) /\ c.row < TopRow[p]
    BY <1>1, <2>2 DEF con_scroll_region, ConType, Fields, Row
  <2>3. CASE ~(c.row > BotRow[p]) /\ ~(c.row < TopRow[p])
    BY <1>1, <2>3 DEF con_scroll_region, Row
  <2> QED
    BY <2>1, <2>2, <2>3
<1> QED
  BY <1>2 DEF con_place, ConType, Fields

\* con_place where the console is, with the cursor above the last row: only the cursor moves.
LEMMA PlaceStays ==
  ASSUME NEW c, ConType(c), c.row <= BotRow[c.place]
  PROVE  Match(c) => Match(con_place(c, c.place))
<1>1. c.row \in Row /\ TopRow[c.place] \in Row /\ BotRow[c.place] \in Row /\ ROWS \in Nat
  BY RegionRows DEF ConType
<1>2. ~(c.row > BotRow[c.place])
  BY <1>1 DEF Row
<1>3. con_place(c, c.place).rows = c.rows /\ con_place(c, c.place).text = c.text
      /\ con_place(c, c.place).place = c.place /\ con_place(c, c.place).view = c.view
  BY <1>2 DEF con_place, con_scroll_region, ConType, Fields
<1> QED
  BY <1>3 DEF Match, Seen

\* What somebody else paints.
LEMMA TakenKeeps ==
  ASSUME NEW c, ConType(c), NEW who
  PROVE  ConType(Taken(c, who)) /\ Taken(c, who).place = c.place /\ Taken(c, who).view = who
BY DEF Taken, ConType, Fields

\* con_redraw after that: the screen shows the copy again, wherever it was moved.
LEMMA RedrawnMatches ==
  ASSUME NEW c, ConType(c), c.view = c.place
  PROVE  Same(c, con_redraw(c)) /\ con_redraw(c).row = c.row /\ Match(con_redraw(c))
<1>1. Region(c.place) \subseteq Row
  BY RegionRows DEF ConType
<1> QED
  BY <1>1 DEF con_redraw, Drawn, Seen, Same, ConType, Fields, Match

-----------------------------------------------------------------------------
(* The history.                                                            *)

\* Numbers less than H apart have different places in a ring of H.
LEMMA RingApart ==
  ASSUME NEW H \in Nat \ {0}, NEW a \in Nat, NEW j \in 1 .. H - 1, j <= a
  PROVE  (a - j) % H # a % H
<1>1. PICK p \in Int, m \in 0 .. H - 1 : a = H * p + m /\ a % H = m
  <2>1. a = H * (a \div H) + (a % H) /\ a % H \in 0 .. H - 1 /\ a \div H \in Int
    OBVIOUS
  <2> QED
    BY <2>1
<1>2. PICK q \in Int, n \in 0 .. H - 1 : a - j = H * q + n /\ (a - j) % H = n
  <2>1. a - j \in Nat
    OBVIOUS
  <2>2. a - j = H * ((a - j) \div H) + ((a - j) % H)
        /\ (a - j) % H \in 0 .. H - 1 /\ (a - j) \div H \in Int
    BY <2>1
  <2> QED
    BY <2>2
<1>3. SUFFICES ASSUME m = n PROVE FALSE
  BY <1>1, <1>2
<1>4. j = H * (p - q) /\ p - q \in Int
  BY <1>1, <1>2, <1>3
<1>5. CASE p - q >= 1
  <2>1. \A d \in Int : d >= 1 => H * d >= H
    OBVIOUS
  <2> QED
    BY <1>4, <1>5, <2>1
<1>6. CASE p - q <= 0
  <2>1. \A d \in Int : d <= 0 => H * d <= 0
    OBVIOUS
  <2> QED
    BY <1>4, <1>6, <2>1
<1> QED
  BY <1>4, <1>5, <1>6

LEMMA RingPlace ==
  ASSUME NEW H \in Nat \ {0}, NEW a \in Nat
  PROVE  a % H \in 0 .. H - 1
OBVIOUS

Slots == 0 .. HISTORY - 1

HistoryType ==
  /\ hist_count \in Nat /\ hist_at \in Nat /\ back \in Nat
  /\ \E S : said \in Seq(S) /\ history \in [Slots -> S]

\* The ring holds the lines to be recalled, as many as there have been or it has room for.
RingIsSaid ==
  /\ Len(said) = IF hist_count > HISTORY THEN HISTORY ELSE hist_count
  /\ \A k \in 1 .. Len(said) : history[(hist_count - k) % HISTORY] = said[Len(said) + 1 - k]

\* How far back the arrow keys have gone.
BackIsAt == back \in 0 .. Len(said) /\ hist_at = hist_count - back

HistoryInv == HistoryType /\ RingIsSaid /\ BackIsAt

LEMMA SlotOf ==
  ASSUME NEW a \in Nat
  PROVE  a % HISTORY \in Slots
BY RingPlace, PromptAssumption DEF Slots

LEMMA InitHistory == Init => HistoryInv
<1> SUFFICES ASSUME Init PROVE HistoryInv
  OBVIOUS
<1>1. said \in Seq({<<>>}) /\ history \in [Slots -> {<<>>}]
  BY DEF Init, Slots
<1> QED
  BY <1>1, PromptAssumption DEF Init, HistoryInv, HistoryType, RingIsSaid, BackIsAt

LEMMA StillHistory ==
  ASSUME HistoryInv, UNCHANGED hvars
  PROVE  HistoryInv'
BY DEF HistoryInv, HistoryType, RingIsSaid, BackIsAt, hvars

LEMMA OpenedHistory ==
  ASSUME HistoryInv, hist_at' = hist_count, back' = 0, UNCHANGED <<history, hist_count, said>>
  PROVE  HistoryInv'
BY DEF HistoryInv, HistoryType, RingIsSaid, BackIsAt

\* The line before last is the same one exactly when the ring says so.
LEMMA NewestIsLast ==
  ASSUME HistoryInv
  PROVE  Newest <=> said # <<>> /\ Last(said) = line
<1>1. PICK S : said \in Seq(S)
  BY DEF HistoryInv, HistoryType
<1>2. hist_count > 0 <=> Len(said) > 0
  BY PromptAssumption DEF HistoryInv, HistoryType, RingIsSaid
<1>3. Len(said) > 0 => history[(hist_count - 1) % HISTORY] = said[Len(said)]
  BY <1>1 DEF HistoryInv, RingIsSaid
<1>4. said # <<>> <=> Len(said) > 0
  BY <1>1
<1> QED
  BY <1>2, <1>3, <1>4 DEF Newest, Last

LEMMA RememberHistory ==
  ASSUME HistoryInv, remember
  PROVE  HistoryInv'
<1>1. CASE line = <<>> \/ Newest
  BY <1>1, NewestIsLast, OpenedHistory DEF remember
<1>2. CASE ~(line = <<>> \/ Newest)
  <2> DEFINE s == Append(said, line)
  <2>1. /\ history' = [history EXCEPT ![hist_count % HISTORY] = line]
        /\ hist_count' = hist_count + 1 /\ hist_at' = hist_count' /\ back' = 0
        /\ said' = IF Len(s) > HISTORY THEN Tail(s) ELSE s
    BY <1>2, NewestIsLast DEF remember
  <2>2. PICK S : said \in Seq(S) /\ history \in [Slots -> S]
    BY DEF HistoryInv, HistoryType
  <2>3. said \in Seq(S \cup {line}) /\ hist_count \in Nat /\ HISTORY \in Nat \ {0}
    BY <2>2, PromptAssumption DEF HistoryInv, HistoryType
  <2>4. s \in Seq(S \cup {line}) /\ Len(s) = Len(said) + 1 /\ Len(said) \in Nat
    BY <2>3
  <2>5. Len(said) = IF hist_count > HISTORY THEN HISTORY ELSE hist_count
    BY DEF HistoryInv, RingIsSaid
  <2>6. said' \in Seq(S \cup {line}) /\ history' \in [Slots -> S \cup {line}]
    <3>1. said' \in Seq(S \cup {line})
      BY <2>1, <2>4
    <3>2. history' \in [Slots -> S \cup {line}]
      BY <2>1, <2>2
    <3> QED
      BY <3>1, <3>2
  <2>7. Len(said') = IF hist_count' > HISTORY THEN HISTORY ELSE hist_count'
    BY <2>1, <2>3, <2>4, <2>5
  <2>8. said'[Len(said')] = line
    BY <2>1, <2>3, <2>4, <2>5
  <2>9. \A k \in 2 .. Len(said') : said'[Len(said') + 1 - k] = said[Len(said) + 2 - k]
    <3>1. ASSUME NEW i \in 1 .. Len(said)
          PROVE  s[i] = said[i]
      BY <2>3
    <3>2. CASE Len(s) > HISTORY
      <4>1. said' = Tail(s) /\ Len(said') = Len(said)
        BY <3>2, <2>1, <2>4
      <4> QED
        BY <4>1, <3>1, <2>4
    <3>3. CASE ~(Len(s) > HISTORY)
      <4>1. said' = s /\ Len(said') = Len(said) + 1
        BY <3>3, <2>1, <2>4
      <4> QED
        BY <4>1, <3>1, <2>4
    <3> QED
      BY <3>2, <3>3
  <2>10. ASSUME NEW k \in 1 .. Len(said')
         PROVE  history'[(hist_count' - k) % HISTORY] = said'[Len(said') + 1 - k]
    <3>1. CASE k = 1
      <4>1. hist_count % HISTORY \in Slots
        BY <2>3, SlotOf
      <4>2. hist_count' - k = hist_count /\ Len(said') + 1 - k = Len(said')
        BY <3>1, <2>1, <2>3, <2>6
      <4>3. history'[hist_count % HISTORY] = line
        BY <4>1, <2>1, <2>2
      <4> QED
        BY <4>2, <4>3, <2>8
    <3>2. CASE k # 1
      <4>1. k - 1 \in 1 .. Len(said) /\ k - 1 \in 1 .. HISTORY - 1 /\ k - 1 <= hist_count
            /\ hist_count' - k = hist_count - (k - 1)
        BY <3>2, <2>1, <2>3, <2>4, <2>5, <2>7
      <4>2. (hist_count - (k - 1)) % HISTORY # hist_count % HISTORY
        BY <4>1, <2>3, RingApart
      <4>3. (hist_count - (k - 1)) % HISTORY \in Slots
        <5>1. hist_count - (k - 1) \in Nat
          BY <4>1, <2>3
        <5> QED
          BY <5>1, SlotOf
      <4>4. history'[(hist_count' - k) % HISTORY] = history[(hist_count - (k - 1)) % HISTORY]
        BY <4>1, <4>2, <4>3, <2>1, <2>2
      <4>5. history[(hist_count - (k - 1)) % HISTORY] = said[Len(said) + 1 - (k - 1)]
        BY <4>1 DEF HistoryInv, RingIsSaid
      <4> QED
        BY <3>2, <4>4, <4>5, <2>9, <2>4, <2>7, <2>3
    <3> QED
      BY <3>1, <3>2
  <2>11. HistoryType'
    BY <2>1, <2>3, <2>6 DEF HistoryType
  <2>12. RingIsSaid'
    BY <2>7, <2>10 DEF RingIsSaid
  <2>13. BackIsAt'
    BY <2>1, <2>3, <2>6 DEF BackIsAt
  <2> QED
    BY <2>11, <2>12, <2>13 DEF HistoryInv
<1> QED
  BY <1>1, <1>2

\* An arrow key: the place in the ring goes where the place among the lines goes.
LEMMA RecallHistory ==
  ASSUME HistoryInv, NEW step \in {-1, 1}, recall(step)
  PROVE  /\ HistoryInv'
         /\ line' = IF back' = 0 THEN <<>> ELSE Fit(said[Len(said) + 1 - back'], con.place)
<1>1. /\ hist_count \in Nat /\ HISTORY \in Nat \ {0} /\ Len(said) \in Nat
      /\ back \in 0 .. Len(said) /\ hist_at = hist_count - back
      /\ Len(said) = IF hist_count > HISTORY THEN HISTORY ELSE hist_count
  BY PromptAssumption DEF HistoryInv, HistoryType, RingIsSaid, BackIsAt
<1>2. Oldest = hist_count - Len(said)
  BY <1>1 DEF Oldest
<1>3. back' \in 0 .. Len(said) /\ hist_at' = hist_count - back'
  BY <1>1, <1>2 DEF recall
<1>4. line' = IF hist_at' = hist_count THEN <<>> ELSE Fit(history[hist_at' % HISTORY], con.place)
  BY DEF recall
<1>5. back' # 0 => history[hist_at' % HISTORY] = said[Len(said) + 1 - back']
  <2>1. back' # 0 => back' \in 1 .. Len(said)
    BY <1>1, <1>3
  <2>2. \A k \in 1 .. Len(said) : history[(hist_count - k) % HISTORY] = said[Len(said) + 1 - k]
    BY DEF HistoryInv, RingIsSaid
  <2> QED
    BY <2>1, <2>2, <1>3
<1>6. line' = IF back' = 0 THEN <<>> ELSE Fit(said[Len(said) + 1 - back'], con.place)
  <2>1. hist_at' = hist_count <=> back' = 0
    <3>1. \A c \in Nat, b \in Nat : c - b = c <=> b = 0
      OBVIOUS
    <3>2. back' \in Nat /\ hist_count \in Nat
      BY <1>1, <1>3
    <3> QED
      BY <1>3, <3>1, <3>2
  <2> QED
    BY <2>1, <1>4, <1>5, Zenon
<1>7. UNCHANGED <<history, hist_count, said>>
  BY DEF recall
<1> QED
  <2>1. HistoryType'
    <3>1. hist_count' \in Nat /\ hist_at' \in Nat /\ back' \in Nat
      <4>1. Len(said) <= hist_count
        BY <1>1
      <4>2. back' \in Nat /\ back' <= hist_count
        BY <1>1, <1>3, <4>1
      <4>3. hist_count - back' \in Nat
        <5>1. \A c \in Nat, b \in Nat : b <= c => c - b \in Nat
          OBVIOUS
        <5> QED
          BY <1>1, <4>2, <5>1
      <4> QED
        BY <1>1, <1>3, <1>7, <4>2, <4>3
    <3>2. \E S : said' \in Seq(S) /\ history' \in [Slots -> S]
      BY <1>7 DEF HistoryInv, HistoryType
    <3> QED
      BY <3>1, <3>2 DEF HistoryType
  <2>2. RingIsSaid' /\ BackIsAt'
    BY <1>3, <1>7 DEF HistoryInv, RingIsSaid, BackIsAt
  <2> QED
    BY <1>6, <2>1, <2>2 DEF HistoryInv

LEMMA NextHistory ==
  ASSUME HistoryInv, Next
  PROVE  HistoryInv'
<1>1. CASE recall(-1) \/ recall(1)
  BY <1>1, RecallHistory
<1>2. CASE Submit \/ SubmitTaking \/ SubmitDesk
  BY <1>2, RememberHistory DEF Submit, SubmitTaking, SubmitDesk
<1>3. CASE PromptOpen \/ PromptRuns
  BY <1>3, OpenedHistory DEF PromptOpen, PromptRuns
<1>4. CASE TypeChar \/ RubOut \/ Returns \/ Toggle \/ PromptLeave \/ DeskOpen \/ OtherPrints
  BY <1>4, StillHistory
  DEF TypeChar, RubOut, Returns, Toggle, PromptLeave, DeskOpen, OtherPrints, hvars
<1>5. CASE Frame
  BY <1>5, StillHistory DEF Frame, PromptFrame, DeskDraw, DeskFrame, hvars
<1> QED
  BY <1>1, <1>2, <1>3, <1>4, <1>5 DEF Next

LEMMA HistoryInductive == Init /\ [][Next]_vars => []HistoryInv
<1>1. Init => HistoryInv
  BY InitHistory
<1>2. HistoryInv /\ [Next]_vars => HistoryInv'
  BY NextHistory, StillHistory DEF vars
<1> QED
  BY <1>1, <1>2, PTL

\* "The arrow keys recalling earlier lines" (repl.c: remember, recall): each press is one
\* line further among those that were run, however often the ring has gone round.
THEOREM HistoryRecalls == Spec => RecallsInOrder
<1>1. HistoryInv /\ [Next]_vars =>
        [\A step \in {-1, 1} : recall(step) =>
           line' = IF back' = 0 THEN <<>> ELSE Fit(said[Len(said) + 1 - back'], con.place)]_vars
  BY RecallHistory
<1> QED
  BY <1>1, HistoryInductive, PTL DEF Spec, RecallsInOrder

-----------------------------------------------------------------------------
(* The screen.                                                             *)

\* The desk is started once, no other window of it prints, and AT-XY goes to no row below
\* the window's last.
QuietDesk == ~Prints /\ MaxDesks = 1 /\ \A g \in Gotos : g <= BotRow["window"]

Shows == Seen(con) /\ MatchButLine(con)

\* A prompt is opened at the bottom, or over something that took the screen.
Layered(s) ==
  /\ s \in Seq({"prompt", "desk", "other"})
  /\ \A i \in 1 .. Len(s) - 1 : s[i + 1] = "prompt" => s[i] = "other"

StackInv ==
  /\ Layered(stack) /\ desks \in Nat /\ win_seen = 0
  /\ \A i \in 1 .. Len(stack) : stack[i] = "desk" => desks >= 1

\* Where the prompt is: laid out over the screen, or in the window, inside its rows.
PromptShows == On("prompt") /\ active => Shows
DeskShows   == On("desk") /\ Painted => Shows /\ con.place = "window" /\ con.row <= BotRow["window"]

ScreenInv ==
  /\ ConType(con) /\ {active, DIRTY, taken, lost} \subseteq BOOLEAN
  /\ StackInv /\ PromptShows /\ DeskShows

LEMMA MatchIsEnough ==
  ASSUME NEW c, Match(c)
  PROVE  MatchButLine(c)
BY DEF Match, MatchButLine

LEMMA EchoKeeps ==
  ASSUME NEW c, ConType(c)
  PROVE  /\ Same(c, Echo(c)) /\ Echo(c).row <= BotRow[c.place]
         /\ MatchButLine(c) => Match(Echo(c))
<1> DEFINE e == con_erase_row(c, c.row)
<1>1. Same(c, e)
  BY WriteKeeps DEF con_erase_row, ConType
<1>2. MatchButLine(c) => Match(e)
  BY EraseMatches
<1>3. Same(e, PutRow(e)) /\ PutRow(e).row <= BotRow[e.place] /\ (Match(e) => Match(PutRow(e)))
  BY <1>1, PutRowKeeps DEF Same
<1> QED
  BY <1>1, <1>2, <1>3 DEF Echo, Same

LEMMA OutputsKeep ==
  ASSUME NEW c, ConType(c), c.row <= BotRow[c.place], NEW o \in Outputs(c)
  PROVE  /\ Same(c, o) /\ (Match(c) => Match(o))
         /\ QuietDesk /\ c.place = "window" => o.row <= BotRow[c.place]
<1>1. CASE o = c
  BY <1>1 DEF Same
<1>2. CASE o = PutRow(c)
  BY <1>2, PutRowKeeps
<1>3. CASE o = con_clear(c)
  BY <1>3, ClearKeeps, ConsoleAssumption DEF ConType
<1>4. ASSUME NEW r \in Gotos, o = con_at(c, r)
      PROVE  /\ Same(c, o) /\ (Match(c) => Match(o))
             /\ QuietDesk /\ c.place = "window" => o.row <= BotRow[c.place]
  BY <1>4, AtKeeps, PromptAssumption DEF QuietDesk
<1> QED
  BY <1>1, <1>2, <1>3, <1>4 DEF Outputs

\* Whatever the console was, and whoever had the screen.
LEMMA LaidOutMatches ==
  ASSUME NEW c, ConType(c), NEW p \in Places
  PROVE  /\ ConType(LaidOut(c, p)) /\ LaidOut(c, p).place = p /\ LaidOut(c, p).view = p
         /\ LaidOut(c, p).row <= BotRow[p] /\ Match(LaidOut(c, p))
<1> DEFINE t == Taken(c, p)
           d == con_place(t, p)
<1>1. ConType(t) /\ t.view = p
  BY TakenKeeps
<1>2. ConType(d) /\ d.place = p /\ d.view = p /\ d.row <= BotRow[p]
  BY <1>1, PlaceKeeps
<1>3. Same(d, con_redraw(d)) /\ con_redraw(d).row = d.row /\ Match(con_redraw(d))
  BY <1>2, RedrawnMatches
<1> QED
  BY <1>2, <1>3 DEF LaidOut, Same

\* The line is drawn over the cursor's row, which is blank in the copy.
LEMMA DrawnKeeps ==
  ASSUME ConType(con), NEW b, DrawnAt(b)
  PROVE  /\ Same(con, con') /\ con'.row = con.row
         /\ MatchButLine(con) => MatchButLine(con')
<1>1. CASE UNCHANGED con
  BY <1>1 DEF Same
<1>2. CASE con' = draw_line(con)
  <2> DEFINE e == con_erase_row(con, con.row)
             pic == Picture(line, con.place)
  <2>1. Same(con, e) /\ e.row = con.row /\ e.text[con.row] = Blank
    BY WriteKeeps DEF con_erase_row, ConType
  <2>2. MatchButLine(con) => Match(e)
    BY EraseMatches
  <2>3. pic # Ink
    BY DEF Picture, Ink
  <2>4. con' = Drawn(e, [e.rows EXCEPT ![con.row] = pic])
    BY <1>2 DEF draw_line
  <2> HIDE DEF e, pic
  <2>5. Same(con, con') /\ con'.row = con.row /\ con'.text = e.text
        /\ (Seen(e) => con'.rows = [e.rows EXCEPT ![con.row] = pic])
    BY <2>1, <2>4 DEF Drawn, Same, ConType, Fields
  <2>6. ASSUME Match(e), Seen(con'), NEW r \in Region(con'.place)
        PROVE  con'.rows[r] = con'.text[r] \/ (r = con'.row /\ con'.text[r] = Blank /\ con'.rows[r] # Ink)
    <3>1. Seen(e) /\ r \in Region(e.place) /\ e.rows[r] = e.text[r]
      BY <2>1, <2>5, <2>6 DEF Seen, Same, Match
    <3>2. r \in Row /\ DOMAIN e.rows = Row
      BY <2>1, <3>1, RegionRows DEF Same, ConType
    <3> QED
      BY <2>1, <2>3, <2>5, <3>1, <3>2 DEF Same, ConType
  <2> QED
    BY <2>2, <2>5, <2>6 DEF MatchButLine
<1> QED
  BY <1>1, <1>2 DEF DrawnAt

LEMMA InitScreen == Init => ScreenInv
<1> SUFFICES ASSUME Init PROVE ScreenInv
  OBVIOUS
<1>1. ConType(con)
  BY RegionRows, PromptAssumption DEF Init, con_init, ConType, Fields
<1>2. StackInv
  BY DEF Init, StackInv, Layered
<1> QED
  BY <1>1, <1>2 DEF Init, ScreenInv, PromptShows, DeskShows, On

\* What the desk knows of repaints, and what is known of them.
dvars == <<DIRTY, taken, lost, stepping>>

LEMMA StackPush ==
  ASSUME StackInv, NEW what \in {"prompt", "desk", "other"}, stack' = Append(stack, what),
         what = "prompt" => stack = <<>> \/ On("other"),
         desks' \in Nat, desks' >= desks, what = "desk" => desks' >= 1, win_seen' = 0
  PROVE  StackInv' /\ On(what)'
BY DEF StackInv, Layered, On, Last

LEMMA StackPop ==
  ASSUME StackInv, stack # <<>>, stack' = Front(stack), UNCHANGED desks, win_seen' = 0
  PROVE  /\ StackInv'
         /\ On("prompt") => ~On("prompt")' /\ ~On("desk")'
BY DEF StackInv, Layered, On, Last, Front

\* A line that only prints.
LEMMA SubmitScreen ==
  ASSUME ScreenInv, QuietDesk, Submit
  PROVE  ScreenInv'
<1>1. ConType(con) /\ UNCHANGED <<stack, active, dvars, desks, win_seen>>
  BY DEF ScreenInv, Submit, wvars, dvars
<1>2. Same(con, Echo(con)) /\ Echo(con).row <= BotRow[con.place]
      /\ (MatchButLine(con) => Match(Echo(con)))
  BY <1>1, EchoKeeps
<1>3. PICK o \in Outputs(Echo(con)) : con' = After(o)
  BY DEF Submit, Outputs
<1>4. /\ Same(con, o) /\ (MatchButLine(con) => Match(o))
      /\ con.place = "window" => o.row <= BotRow[con.place]
  BY <1>2, <1>3, OutputsKeep DEF Same
<1>5. CASE On("desk")
  <2>1. con' = con_place(o, "window") /\ "window" \in Places
    BY <1>3, <1>5, PromptAssumption DEF After
  <2>2. ConType(con') /\ con'.place = "window" /\ con'.view = o.view
        /\ con'.row <= BotRow["window"]
    BY <1>4, <2>1, PlaceKeeps DEF Same
  <2>3. CASE Painted
    <3>1. Seen(con) /\ MatchButLine(con) /\ con.place = "window"
      BY <1>5, <2>3 DEF ScreenInv, DeskShows, Shows
    <3>2. Match(con')
      BY <1>4, <2>1, <3>1, PlaceStays DEF Same
    <3>3. Seen(con')
      BY <1>4, <2>2, <3>1 DEF Seen, Same
    <3> QED
      BY <1>1, <1>5, <2>2, <3>2, <3>3, MatchIsEnough
      DEF ScreenInv, StackInv, PromptShows, DeskShows, Shows, On, dvars
  <2> QED
    BY <1>1, <1>5, <2>2, <2>3 DEF ScreenInv, StackInv, PromptShows, DeskShows, On, Painted, dvars
<1>6. CASE ~On("desk")
  <2>1. con' = o
    BY <1>3, <1>6 DEF After
  <2>2. Shows => Shows'
    BY <1>4, <2>1, MatchIsEnough DEF Shows, Seen, Same
  <2> QED
    BY <1>1, <1>4, <1>6, <2>1, <2>2
    DEF ScreenInv, StackInv, PromptShows, DeskShows, On, Same, dvars
<1> QED
  BY <1>5, <1>6

\* A line that takes the screen, or starts the desk.
LEMMA TakingScreen ==
  ASSUME ScreenInv, QuietDesk, SubmitTaking \/ SubmitDesk
  PROVE  ScreenInv'
<1>1. ConType(con')
  BY EchoKeeps, TakenKeeps DEF ScreenInv, SubmitTaking, SubmitDesk, Same
<1>2. CASE SubmitTaking
  <2>1. StackInv' /\ On("other")'
    BY <1>2, StackPush DEF SubmitTaking, ScreenInv, StackInv, wvars
  <2> QED
    BY <1>1, <1>2, <2>1 DEF SubmitTaking, wvars, ScreenInv, PromptShows, DeskShows, On
<1>3. CASE SubmitDesk
  <2>1. StackInv' /\ On("desk")' /\ DIRTY' = TRUE
       /\ stepping' = FALSE /\ taken' = FALSE /\ lost' = FALSE
    BY <1>3, StackPush DEF SubmitDesk, DeskStarts, ScreenInv, StackInv
  <2> QED
    BY <1>1, <1>3, <2>1 DEF SubmitDesk, ScreenInv, PromptShows, DeskShows, On, Painted
<1> QED
  BY <1>2, <1>3

LEMMA LayoutShows ==
  ASSUME NEW c, ConType(c), NEW l, NEW osk, layout(c, l, osk)
  PROVE  ConType(con') /\ Shows'
<1>1. PICK p \in Places : con' = LaidOut(c, p)
  BY PromptAssumption DEF layout
<1> QED
  BY <1>1, LaidOutMatches, MatchIsEnough DEF Shows, Seen

\* What took the screen has ended.
LEMMA ReturnsScreen ==
  ASSUME ScreenInv, Returns
  PROVE  ScreenInv'
<1>1. stack # <<>> /\ stack' = Front(stack) /\ UNCHANGED <<desks, win_seen, active>>
  BY DEF Returns, On
<1>2. StackInv'
  BY <1>1, StackPop DEF ScreenInv, StackInv
<1> DEFINE p == IF osk_on THEN "osk" ELSE "full"
<1>3. p \in Places /\ "window" \in Places
  BY PromptAssumption
<1>3a. (taken' \/ ~On("desk")') /\ {active, DIRTY, taken, lost}' \subseteq BOOLEAN
  <2>1. taken' = (taken \/ On("desk")')
    BY Zenon DEF Returns
  <2>2. (taken' \/ ~On("desk")') /\ taken' \in BOOLEAN
    BY <2>1
  <2>3. DIRTY' \in {DIRTY, FALSE} /\ lost' \in {lost, FALSE}
    BY DEF Returns
  <2> QED
    BY <1>1, <2>2, <2>3 DEF ScreenInv
<1>4. PICK c \in {Taken(con, Away), PutRow(Taken(con, Away))} :
        CASE On("prompt")' ->
               IF active THEN layout(c, line, osk_on) ELSE con' = c
          [] On("desk")' ->
               con' = IF active THEN con_place(LaidOut(c, p), "window") ELSE con_place(c, "window")
          [] OTHER -> con' = c
  BY DEF Returns, On
<1>5. ConType(c)
  BY <1>4, TakenKeeps, PutRowKeeps DEF ScreenInv, Same
<1>6. CASE On("prompt")'
  <2>1. ConType(con') /\ (active => Shows')
    <3>1. (IF active THEN layout(c, line, osk_on) ELSE con' = c) /\ ~On("desk")'
      <4>1. ~On("desk")'
        BY <1>6 DEF On
      <4> QED
        BY <1>4, <1>6, <4>1
    <3>2. CASE active
      BY <1>5, <3>1, <3>2, LayoutShows
    <3>3. CASE ~active
      BY <1>5, <3>1, <3>3
    <3> QED
      BY <3>2, <3>3
  <2>2. ~On("desk")'
    BY <1>6 DEF On
  <2> QED
    BY <1>1, <1>2, <1>3a, <2>1, <2>2 DEF ScreenInv, PromptShows, DeskShows
<1>7. CASE On("desk")'
  <2>1. ConType(LaidOut(c, p))
    BY <1>3, <1>5, LaidOutMatches
  <2>2. ~On("prompt")'
    BY <1>7 DEF On
  <2>3. ConType(con')
    BY <1>3, <1>4, <1>5, <1>7, <2>1, <2>2, PlaceKeeps
  <2> QED
    BY <1>1, <1>2, <1>3a, <1>7, <2>2, <2>3 DEF ScreenInv, PromptShows, DeskShows, Painted
<1>8. CASE ~On("prompt")' /\ ~On("desk")'
  BY <1>1, <1>2, <1>3a, <1>4, <1>5, <1>8 DEF ScreenInv, PromptShows, DeskShows
<1> QED
  BY <1>6, <1>7, <1>8

\* The prompt comes, and the prompt goes.
LEMMA OpenScreen ==
  ASSUME ScreenInv, PromptOpen \/ PromptRuns
  PROVE  ScreenInv'
<1>1. ConType(con) /\ active' = TRUE /\ UNCHANGED <<dvars, desks, win_seen>>
  BY DEF ScreenInv, PromptOpen, PromptRuns, wvars, dvars
<1>2. StackInv' /\ On("prompt")'
  <2>1. stack' = Append(stack, "prompt")
    <3>1. CASE PromptOpen
      BY <3>1 DEF PromptOpen
    <3>2. CASE PromptRuns
      BY <3>2 DEF PromptRuns
    <3> QED
      BY <3>1, <3>2
  <2> QED
    BY <1>1, <2>1, StackPush DEF PromptOpen, PromptRuns, ScreenInv, StackInv
<1>3. ConType(con') /\ Shows'
  <2>1. CASE PromptOpen
    BY <1>1, <2>1, LayoutShows DEF PromptOpen
  <2>2. CASE PromptRuns
    <3>1. PICK p \in Places : con' \in Outputs(Echo(LaidOut(con, p)))
      BY <2>2, PromptAssumption DEF PromptRuns
    <3> DEFINE c == LaidOut(con, p)
    <3>2. ConType(c) /\ Seen(c) /\ MatchButLine(c)
      BY <1>1, LaidOutMatches, MatchIsEnough DEF Seen
    <3>3. ConType(Echo(c)) /\ Seen(Echo(c)) /\ Match(Echo(c))
          /\ Echo(c).row <= BotRow[Echo(c).place]
      BY <3>2, EchoKeeps DEF Same, Seen
    <3>4. ConType(con') /\ Seen(con') /\ Match(con')
      BY <3>1, <3>3, OutputsKeep DEF Same, Seen
    <3> QED
      BY <3>4, MatchIsEnough DEF Shows
  <2> QED
    BY <2>1, <2>2
<1> QED
  BY <1>1, <1>2, <1>3 DEF ScreenInv, PromptShows, DeskShows, On, dvars

LEMMA LeaveScreen ==
  ASSUME ScreenInv, PromptLeave
  PROVE  ScreenInv'
<1>1. StackInv' /\ ~On("prompt")' /\ ~On("desk")'
  BY StackPop DEF PromptLeave, ScreenInv, StackInv, On, wvars
<1>2. ConType(con')
  BY PlaceKeeps, TakenKeeps, PromptAssumption DEF PromptLeave, ScreenInv
<1> QED
  BY <1>1, <1>2 DEF PromptLeave, ScreenInv, PromptShows, DeskShows, wvars

LEMMA ToggleScreen ==
  ASSUME ScreenInv, Toggle
  PROVE  ScreenInv'
<1>1. ConType(con') /\ Shows'
  BY LayoutShows DEF Toggle, ScreenInv
<1> QED
  BY <1>1 DEF Toggle, ScreenInv, StackInv, PromptShows, DeskShows, On, wvars

\* The end of a turn, of either loop.
LEMMA DrawScreen ==
  ASSUME ScreenInv, PromptFrame \/ DeskDraw
  PROVE  ScreenInv'
<1>1. PICK b : DrawnAt(b)
  BY DEF PromptFrame, DeskDraw
<1>2. /\ Same(con, con') /\ con'.row = con.row
      /\ MatchButLine(con) => MatchButLine(con')
  BY <1>1, DrawnKeeps DEF ScreenInv
<1>3. Shows => Shows'
  BY <1>2 DEF Shows, Seen, Same
<1>4. UNCHANGED <<stack, active, desks, win_seen>>
  BY DEF PromptFrame, DeskDraw, wvars
<1>5. {active, DIRTY, taken, lost}' \subseteq BOOLEAN /\ (Painted' => Painted)
  <2>1. CASE PromptFrame
    BY <2>1 DEF PromptFrame, ScreenInv, wvars, Painted
  <2>2. CASE DeskDraw
    BY <2>2 DEF DeskDraw, Asked, ScreenInv, Painted
  <2> QED
    BY <2>1, <2>2
<1> QED
  BY <1>2, <1>3, <1>4, <1>5 DEF ScreenInv, StackInv, PromptShows, DeskShows, On, Same

LEMMA DeskOpenScreen ==
  ASSUME ScreenInv, DeskOpen
  PROVE  ScreenInv'
<1>1. stack' = Append(stack, "desk")
  BY DEF DeskOpen, ScreenInv, StackInv, Layered
<1>2. StackInv' /\ On("desk")' /\ DIRTY' = TRUE
     /\ stepping' = FALSE /\ taken' = FALSE /\ lost' = FALSE
  BY <1>1, StackPush DEF DeskOpen, DeskStarts, ScreenInv, StackInv
<1> QED
  BY <1>2 DEF DeskOpen, ScreenInv, PromptShows, DeskShows, On, Painted

LEMMA DeskFrameScreen ==
  ASSUME ScreenInv, QuietDesk, NEW focused, NEW repaint \in BOOLEAN, DeskFrame(focused, repaint)
  PROVE  ScreenInv'
<1>1. /\ On("desk") /\ UNCHANGED <<stack, desks, active, taken>> /\ DIRTY' = repaint
      /\ lost' = (lost /\ ~repaint) /\ (DIRTY => repaint)
  BY DEF DeskFrame
<1>1a. {active, DIRTY, taken, lost}' \subseteq BOOLEAN
  BY <1>1 DEF ScreenInv
<1>2. desks >= 1 /\ win_seen = 0 /\ desks \in Nat
  BY <1>1 DEF ScreenInv, StackInv, Layered, On, Last
<1>3. win_seen' = 0
  BY <1>2 DEF DeskFrame, QuietDesk
<1>4. StackInv'
  BY <1>1, <1>3 DEF ScreenInv, StackInv
<1>5. /\ ConType(con')
      /\ Painted' => Shows' /\ con'.place = "window" /\ con'.row <= BotRow["window"]
  <2>1. CASE repaint
    <3>1. con' = LaidOut(con, "window")
      BY <1>2, <2>1 DEF DeskFrame, Placed, LaidOut
    <3> QED
      BY <3>1, LaidOutMatches, MatchIsEnough, PromptAssumption DEF ScreenInv, Shows, Seen
  <2>2. CASE ~repaint
    <3>1. con' = con /\ ~DIRTY
      BY <1>1, <2>2 DEF DeskFrame, Placed
    <3> QED
      BY <1>1, <2>2, <3>1 DEF ScreenInv, DeskShows, Shows, Painted
  <2> QED
    BY <2>1, <2>2
<1> QED
  BY <1>1, <1>1a, <1>4, <1>5 DEF ScreenInv, PromptShows, DeskShows, On

\* A window that prints when the desk is to be painted anyway.
LEMMA OtherPrintsScreen ==
  ASSUME ScreenInv, QuietDesk, OtherPrints
  PROVE  ScreenInv'
<1> DEFINE a == [con EXCEPT !.view = Away]
<1>1. ConType(a)
  BY DEF ScreenInv, ConType, Fields
<1>2. ConType(PutRow(a))
  BY <1>1, PutRowKeeps DEF Same
<1>3. con' = [PutRow(a) EXCEPT !.view = con.view]
  BY DEF OtherPrints
<1> HIDE DEF a
<1>4. ConType(con')
  BY <1>2, <1>3 DEF ConType, Fields
<1> QED
  BY <1>4 DEF OtherPrints, QuietDesk, ScreenInv, StackInv, PromptShows, DeskShows, On, Painted, wvars

LEMMA StillScreen ==
  ASSUME ScreenInv, UNCHANGED <<con, stack, active, dvars, desks, win_seen>>
  PROVE  ScreenInv'
BY DEF ScreenInv, StackInv, PromptShows, DeskShows, Shows, On, Painted, dvars

LEMMA NextScreen ==
  ASSUME ScreenInv, QuietDesk, Next
  PROVE  ScreenInv'
<1>1. CASE TypeChar \/ RubOut \/ recall(-1) \/ recall(1)
  BY <1>1, StillScreen DEF TypeChar, RubOut, recall, wvars, dvars
<1>2. CASE Submit \/ SubmitTaking \/ SubmitDesk
  BY <1>2, SubmitScreen, TakingScreen
<1>3. CASE Returns
  BY <1>3, ReturnsScreen
<1>4. CASE PromptOpen \/ PromptRuns \/ PromptLeave \/ Toggle
  BY <1>4, OpenScreen, LeaveScreen, ToggleScreen
<1>5. CASE DeskOpen \/ OtherPrints
  BY <1>5, DeskOpenScreen, OtherPrintsScreen
<1>6. CASE Frame
  BY <1>6, DrawScreen, DeskFrameScreen DEF Frame
<1> QED
  BY <1>1, <1>2, <1>3, <1>4, <1>5, <1>6 DEF Next

\* "Put the console's text back" (repl.c: layout, repl_repaint; console.c: con_redraw):
\* whatever a line printed, cleared or scrolled, wherever the console was moved, and whoever
\* had the screen, where the prompt has it the screen shows the text; in its window on the
\* desk, as long as no repaint is due and none was asked for during another, and so lost.
THEOREM TextIsOnTheScreen ==
  ASSUME QuietDesk
  PROVE  Spec => []ScreenShowsTheText
<1>1. Init => ScreenInv
  BY InitScreen
<1>2. ScreenInv /\ [Next]_vars => ScreenInv'
  BY QuietDesk, NextScreen, StillScreen DEF vars, wvars, dvars
<1>3. ScreenInv => ScreenShowsTheText
  BY DEF ScreenInv, PromptShows, DeskShows, Shows, MatchButLine, ScreenShowsTheText, Running
<1> QED
  BY <1>1, <1>2, <1>3, PTL DEF Spec
=============================================================================
