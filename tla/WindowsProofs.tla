--------------------------- MODULE WindowsProofs ---------------------------
(***************************************************************************)
(* For a screen, windows and a number of windows of any size: the table of *)
(* windows stays a table, a drag carries the window that was grabbed, and  *)
(* what the screen shows is what the table says, whatever of it was only   *)
(* drawn in part.                                                          *)
(***************************************************************************)
EXTENDS Windows, NumberLemmas

-----------------------------------------------------------------------------
(* The layout: what the mouse and the desk do to the table of windows.     *)

Window == [id : 1 .. Len(Places), x : 0 .. SCREEN_W - WIN_W, y : 0 .. SCREEN_H - WIN_H]

\* The records that Handle works on; no window is twice among the open ones.
Layouts ==
  {h \in [wins : [Records -> Window], n : 0 .. Len(Places), dragging : -1 .. Len(Places) - 1,
          grab : (0 .. WIN_W - 1) \X {0}, was_down : BOOLEAN, dirty : BOOLEAN] :
     \A i, j \in 0 .. h.n - 1 : h.wins[i].id = h.wins[j].id => i = j}



LEMMA Sizes ==
  /\ SCREEN_W \in Nat /\ SCREEN_H \in Nat /\ WIN_W \in Nat /\ WIN_H \in Nat
  /\ WIN_W >= 2 /\ WIN_W <= SCREEN_W /\ WIN_H >= 2 /\ WIN_H <= SCREEN_H
  /\ Len(Places) \in Nat \ {0} /\ ROWS = WIN_H - 1 /\ ROWS \in Nat \ {0}
  /\ 0 .. Len(Places) - 1 = Records
<1>1. Len(Places) \in Nat
  BY WindowsAssumption
<1>2. Slow \in 1 .. Len(Places)
  BY WindowsAssumption
<1> QED
  BY <1>1, <1>2, WindowsAssumption DEF Records, ROWS

LEMMA OpenRecords ==
  ASSUME NEW h \in Layouts
  PROVE  /\ h.n \in Nat /\ h.n <= Len(Places)
         /\ \A j \in 0 .. h.n - 1 : j \in Records /\ h.wins[j] \in Window
         /\ \A i, j \in 0 .. h.n - 1 : h.wins[i].id = h.wins[j].id => i = j
<1>1. h.n \in 0 .. Len(Places) /\ h.wins \in [Records -> Window]
  BY DEF Layouts
<1>2. h.n \in Nat /\ h.n <= Len(Places) /\ \A j \in 0 .. h.n - 1 : j \in Records
  BY <1>1, Sizes DEF Records
<1> QED
  BY <1>1, <1>2 DEF Layouts

\* A window that is raised changes places with none: those above it go down by one.
LEMMA RaiseLayout ==
  ASSUME NEW h \in Layouts, NEW i \in 0 .. h.n - 1
  PROVE  /\ Raise(h, i) \in Layouts
         /\ Raise(h, i) = [h EXCEPT !.wins = Raise(h, i).wins]
         /\ Raise(h, i).wins[h.n - 1] = h.wins[i]
         /\ Ids(Raise(h, i)) \subseteq Ids(h)
<1> DEFINE W == [j \in Records |-> IF i <= j /\ j < h.n - 1 THEN h.wins[j + 1]
                                   ELSE IF j = h.n - 1 THEN h.wins[i] ELSE h.wins[j]]
           r == [h EXCEPT !.wins = W]
<1>0. /\ h.wins \in [Records -> Window] /\ h.n \in 0 .. Len(Places) /\ i \in Nat /\ i < h.n
      /\ \A j, k \in 0 .. h.n - 1 : h.wins[j].id = h.wins[k].id => j = k
  BY Sizes DEF Layouts
<1>0a. \A a \in 0 .. h.n - 1 : a \in Records
  BY <1>0, Sizes DEF Records
<1>1. Raise(h, i) = r
  BY DEF Raise
<1>2. W \in [Records -> Window]
  <2>1. ASSUME NEW j \in Records, i <= j, j < h.n - 1 PROVE j + 1 \in Records
    <3>1. j + 1 \in 0 .. h.n - 1
      BY <2>1, <1>0 DEF Records
    <3> QED
      BY <3>1, <1>0a
  <2>2. i \in Records
    BY <1>0, Sizes DEF Records
  <2> QED
    BY <2>1, <2>2, <1>0
<1>3. ASSUME NEW j \in 0 .. h.n - 1, NEW k \in 0 .. h.n - 1, W[j].id = W[k].id PROVE j = k
  <2> DEFINE from(a) == IF i <= a /\ a < h.n - 1 THEN a + 1 ELSE IF a = h.n - 1 THEN i ELSE a
  <2>1. \A a \in 0 .. h.n - 1 : from(a) \in 0 .. h.n - 1 /\ W[a] = h.wins[from(a)]
    <3> TAKE a \in 0 .. h.n - 1
    <3>1. from(a) \in 0 .. h.n - 1 /\ a \in Records
      BY <1>0, <1>0a
    <3> QED
      BY <3>1
  <2>2. from(j) = from(k) => j = k
    BY <1>0
  <2> HIDE DEF from, W
  <2>3. from(j) = from(k)
    BY <2>1, <1>0, <1>3
  <2> QED
    BY <2>2, <2>3
<1>4. W[h.n - 1] = h.wins[i]
  BY <1>0, Sizes DEF Records
<1>4a. \A a \in 0 .. h.n - 1 : \E b \in 0 .. h.n - 1 : W[a] = h.wins[b]
  <2> TAKE a \in 0 .. h.n - 1
  <2>1. (i <= a /\ a < h.n - 1) => a + 1 \in 0 .. h.n - 1
    BY <1>0
  <2>2. a \in Records
    BY <1>0, <1>0a
  <2> QED
    BY <2>1, <2>2
<1> HIDE DEF W
<1>5. r \in Layouts /\ r.wins = W /\ r.n = h.n
  BY <1>2, <1>3 DEF Layouts
<1> HIDE DEF r
<1>6. Ids(r) \subseteq Ids(h)
  BY <1>4a, <1>5 DEF Ids
<1> QED
  BY <1>1, <1>4, <1>5, <1>6 DEF r

\* One that is closed leaves its place to the one above, and there is one less.
LEMMA CloseLayout ==
  ASSUME NEW h \in Layouts, NEW i \in 0 .. h.n - 1
  PROVE  /\ Close(h, i) \in Layouts
         /\ Close(h, i).dragging = h.dragging /\ Close(h, i).was_down = h.was_down
         /\ Close(h, i).n = h.n - 1
         /\ Ids(Close(h, i)) \subseteq Ids(h)
<1> DEFINE W == [j \in Records |-> IF i <= j /\ j < h.n - 1 THEN h.wins[j + 1]
                                   ELSE IF j >= h.n - 1 THEN Blank ELSE h.wins[j]]
           r == [h EXCEPT !.wins = W, !.n = h.n - 1]
<1>0. /\ h.wins \in [Records -> Window] /\ h.n \in 0 .. Len(Places) /\ i \in Nat /\ i < h.n
      /\ \A j, k \in 0 .. h.n - 1 : h.wins[j].id = h.wins[k].id => j = k
  BY Sizes DEF Layouts
<1>0a. \A a \in 0 .. h.n - 1 : a \in Records
  BY <1>0, Sizes DEF Records
<1>0b. \A j, k \in 0 .. h.n - 1 : h.wins[j].id = h.wins[k].id => j = k
  BY <1>0
<1>0c. h.n \in Nat /\ 0 < h.n /\ Len(Places) \in Nat /\ h.n <= Len(Places)
  BY <1>0, Sizes
<1>1. Close(h, i) = r
  <2>1. (IF h.n > 0 THEN h.n - 1 ELSE 0) = h.n - 1
    BY <1>0
  <2> QED
    BY <2>1 DEF Close
<1>2. W \in [Records -> Window]
  <2>1. ASSUME NEW j \in Records, i <= j, j < h.n - 1 PROVE j + 1 \in Records
    <3>1. j + 1 \in 0 .. h.n - 1
      BY <2>1, <1>0 DEF Records
    <3> QED
      BY <3>1, <1>0a
  <2>2. Blank \in Window
    BY Sizes DEF Blank, Window
  <2> QED
    BY <2>1, <2>2, <1>0
<1>3. ASSUME NEW j \in 0 .. h.n - 2, NEW k \in 0 .. h.n - 2, W[j].id = W[k].id PROVE j = k
  <2> DEFINE from(a) == IF i <= a THEN a + 1 ELSE a
  <2>1. \A a \in 0 .. h.n - 2 : from(a) \in 0 .. h.n - 1 /\ W[a] = h.wins[from(a)]
    <3> TAKE a \in 0 .. h.n - 2
    <3>1. from(a) \in 0 .. h.n - 1
      BY <1>0
    <3>2. a \in Records /\ a < h.n - 1 /\ ~ (a >= h.n - 1)
      BY <1>0, <1>0a
    <3>3. CASE i <= a
      <4>1. W[a] = h.wins[a + 1]
        BY <3>2, <3>3
      <4> QED
        BY <3>1, <3>3, <4>1
    <3>4. CASE ~ (i <= a)
      <4>1. W[a] = h.wins[a]
        BY <3>2, <3>4
      <4> QED
        BY <3>1, <3>4, <4>1
    <3> QED
      BY <3>3, <3>4
  <2>2. from(j) = from(k) => j = k
    BY <1>0
  <2> HIDE DEF from, W
  <2>3. from(j) \in 0 .. h.n - 1 /\ from(k) \in 0 .. h.n - 1
        /\ h.wins[from(j)].id = h.wins[from(k)].id
    BY <2>1, <1>3
  <2>4. from(j) = from(k)
    BY <2>3, <1>0b
  <2> QED
    BY <2>2, <2>4
<1>4. \A a \in 0 .. h.n - 2 : \E b \in 0 .. h.n - 1 : W[a] = h.wins[b]
  <2> TAKE a \in 0 .. h.n - 2
  <2>1. a \in 0 .. h.n - 1 /\ a + 1 \in 0 .. h.n - 1 /\ a < h.n - 1 /\ ~ (a >= h.n - 1)
    BY <1>0
  <2>2. a \in Records
    BY <1>0, <1>0a, <2>1
  <2>3. W[a] = h.wins[a + 1] \/ W[a] = h.wins[a]
    BY <2>1, <2>2
  <2> HIDE DEF W
  <2> QED
    BY <2>1, <2>3
<1> HIDE DEF W
<1>5. r \in Layouts
  <2>1. r.n = h.n - 1 /\ r.wins = W
    BY DEF Layouts
  <2>1a. h.n - 1 \in 0 .. Len(Places) /\ r.n - 1 = h.n - 2
    BY <1>0c, <2>1
  <2> QED
    BY <1>2, <1>3, <2>1, <2>1a DEF Layouts
<1>6. Ids(r) \subseteq Ids(h)
  <2>1. r.wins = W /\ r.n - 1 = h.n - 2
    BY <1>0 DEF Layouts
  <2> HIDE DEF r
  <2> QED
    BY <1>4, <2>1 DEF Ids
<1> QED
  BY <1>1, <1>5, <1>6 DEF r, Layouts

-----------------------------------------------------------------------------
(* The window in front.                                                    *)

\* Topmost is the greatest of the numbers of the windows at a place, or -1.
LEMMA TopmostIs ==
  ASSUME NEW h, h.n \in Nat, NEW p, NEW t, t = Topmost(h, p)
  PROVE  /\ t \in -1 .. h.n - 1
         /\ t < 0 => \A j \in 0 .. h.n - 1 : p \notin Rect(h.wins[j])
         /\ t >= 0 => p \in Rect(h.wins[t])
         /\ \A j \in t + 1 .. h.n - 1 : p \notin Rect(h.wins[j])
<1>1. CASE Under(h, p) = {}
  BY <1>1 DEF Topmost, Under
<1>2. CASE Under(h, p) # {}
  <2>1. Under(h, p) \in SUBSET (0 .. h.n - 1)
    BY DEF Under
  <2>2. Max(Under(h, p)) \in Under(h, p) /\ \A y \in Under(h, p) : y <= Max(Under(h, p))
    BY <1>2, <2>1, MaxIsGreatest
  <2>3. t = Max(Under(h, p))
    BY <1>2 DEF Topmost
  <2>4. t \in 0 .. h.n - 1 /\ p \in Rect(h.wins[t]) /\ \A y \in Under(h, p) : y <= t
    BY <2>1, <2>2, <2>3 DEF Under
  <2>5. ASSUME NEW j \in t + 1 .. h.n - 1 PROVE p \notin Rect(h.wins[j])
    <3>1. j \in 0 .. h.n - 1 /\ ~ (j <= t)
      BY <2>4
    <3> QED
      BY <2>4, <3>1 DEF Under
  <2> QED
    BY <2>4, <2>5
<1> QED
  BY <1>1, <1>2

\* And it is the only number of which that can be said.
LEMMA TopmostOnly ==
  ASSUME NEW h, h.n \in Nat, NEW p, NEW t \in 0 .. h.n - 1, p \in Rect(h.wins[t]),
         \A j \in t + 1 .. h.n - 1 : p \notin Rect(h.wins[j])
  PROVE  Topmost(h, p) = t
<1> DEFINE u == Topmost(h, p)
<1>1. /\ u \in -1 .. h.n - 1
      /\ u < 0 => \A j \in 0 .. h.n - 1 : p \notin Rect(h.wins[j])
      /\ u >= 0 => p \in Rect(h.wins[u])
      /\ \A j \in u + 1 .. h.n - 1 : p \notin Rect(h.wins[j])
  BY TopmostIs
<1> HIDE DEF u
<1>2. u >= 0 /\ u \in 0 .. h.n - 1
  BY <1>1
<1>3. ~ (t \in u + 1 .. h.n - 1)
  BY <1>1
<1>4. ~ (u \in t + 1 .. h.n - 1)
  BY <1>1, <1>2
<1>5. u = t
  BY <1>2, <1>3, <1>4
<1> QED
  BY <1>5 DEF u

-----------------------------------------------------------------------------
(* The mouse.                                                              *)

LEMMA SameIds ==
  ASSUME NEW h \in Layouts, NEW e \in Layouts, e.n = h.n,
         \A j \in Records : e.wins[j].id = h.wins[j].id
  PROVE  Ids(e) = Ids(h)
<1>1. \A j \in 0 .. h.n - 1 : j \in Records
  BY Sizes DEF Layouts, Records
<1> QED
  BY <1>1 DEF Ids

LEMMA MarkedLayout ==
  ASSUME NEW h \in Layouts
  PROVE  LET e == [h EXCEPT !.dirty = TRUE]
         IN  e \in Layouts /\ e.dirty /\ e.wins = h.wins /\ e.n = h.n /\ e.grab = h.grab
             /\ e.dragging = h.dragging /\ e.was_down = h.was_down /\ Ids(e) = Ids(h)
<1> DEFINE e == [h EXCEPT !.dirty = TRUE]
<1>1. e \in [wins : [Records -> Window], n : 0 .. Len(Places), dragging : -1 .. Len(Places) - 1,
             grab : (0 .. WIN_W - 1) \X {0}, was_down : BOOLEAN, dirty : BOOLEAN]
  BY DEF Layouts
<1>2. e.wins = h.wins /\ e.n = h.n /\ e.grab = h.grab /\ e.dragging = h.dragging
      /\ e.was_down = h.was_down /\ e.dirty = TRUE
  BY DEF Layouts
<1> HIDE DEF e
<1>3. \A i, j \in 0 .. e.n - 1 : e.wins[i].id = e.wins[j].id => i = j
  BY <1>2 DEF Layouts
<1>4. e \in Layouts
  BY <1>1, <1>3 DEF Layouts
<1> QED
  BY <1>2, <1>4 DEF e, Ids

LEMMA PressLayout ==
  ASSUME NEW h \in Layouts, h.dragging = -1, NEW p \in Cells
  PROVE  /\ Press(h, p) \in Layouts
         /\ Press(h, p) = h \/ Press(h, p).dirty
         /\ Press(h, p).dragging >= 0 =>
              Press(h, p).wins[Press(h, p).dragging].id = IdUnder(h, p)
         /\ Ids(Press(h, p)) \subseteq Ids(h)
<1> DEFINE t == Topmost(h, p)
           r == Raise(h, t)
           top == h.n - 1
<1>0. h.n \in 0 .. Len(Places) /\ h.n \in Nat
  BY Sizes DEF Layouts
<1>1. t \in -1 .. h.n - 1 /\ (t >= 0 => p \in Rect(h.wins[t]))
  BY <1>0, TopmostIs
<1>2. CASE t < 0
  BY <1>0, <1>2 DEF Press
<1>3. CASE t >= 0
  <2>1. t \in 0 .. h.n - 1
    BY <1>0, <1>1, <1>3
  <2>2. /\ r \in Layouts /\ r = [h EXCEPT !.wins = r.wins]
        /\ r.wins[top] = h.wins[t] /\ Ids(r) \subseteq Ids(h)
    BY <2>1, RaiseLayout
  <2>3. IdUnder(h, p) = h.wins[t].id
    <3>1. Under(h, p) # {}
      BY <1>1, <2>1 DEF Under
    <3> QED
      BY <3>1 DEF IdUnder
  <2>4. top \in 0 .. r.n - 1 /\ top \in Records /\ top \in -1 .. Len(Places) - 1
        /\ r.dragging = -1 /\ r.n = h.n /\ r.wins[top] \in Window
    <3> HIDE DEF r, t
    <3>1. r.dragging = -1 /\ r.n = h.n
      BY <2>2 DEF Layouts
    <3>2. top \in 0 .. r.n - 1 /\ top \in Records /\ top \in -1 .. Len(Places) - 1
      BY <1>0, <2>1, <3>1, Sizes DEF Records
    <3> QED
      BY <2>2, <3>1, <3>2 DEF Layouts
  <2>5. Press(h, p) = IF p \notin Bar(r.wins[top]) THEN [r EXCEPT !.dirty = TRUE]
                      ELSE IF p = Shut(r.wins[top]) THEN [Close(r, top) EXCEPT !.dirty = TRUE]
                      ELSE [r EXCEPT !.dragging = top,
                                     !.grab = <<p[1] - r.wins[top].x, p[2] - r.wins[top].y>>,
                                     !.dirty = TRUE]
    <3>1. ~ (Topmost(h, p) < 0)
      BY <1>0, <1>1, <1>3
    <3> QED
      BY <3>1, Zenon DEF Press
  <2> HIDE DEF r, t, top
  <2>6. CASE p \notin Bar(r.wins[top])
    BY <2>2, <2>4, <2>5, <2>6, MarkedLayout
  <2>7. CASE p \in Bar(r.wins[top]) /\ p = Shut(r.wins[top])
    <3>1. Close(r, top) \in Layouts /\ Close(r, top).dragging = -1
          /\ Ids(Close(r, top)) \subseteq Ids(h)
      BY <2>2, <2>4, CloseLayout
    <3> DEFINE e == Close(r, top)
    <3>2. Press(h, p) = [e EXCEPT !.dirty = TRUE]
      BY <2>5, <2>7
    <3> HIDE DEF e
    <3>3. e \in Layouts /\ e.dragging = -1 /\ Ids(e) \subseteq Ids(h)
      BY <3>1 DEF e
    <3> QED
      BY <3>2, <3>3, MarkedLayout
  <2>8. CASE p \in Bar(r.wins[top]) /\ p # Shut(r.wins[top])
    <3> DEFINE G == <<p[1] - r.wins[top].x, p[2] - r.wins[top].y>>
    <3>1. G \in (0 .. WIN_W - 1) \X {0}
      <4>1. p[1] \in r.wins[top].x .. r.wins[top].x + WIN_W - 1 /\ p[2] = r.wins[top].y
        BY <2>8 DEF Bar
      <4>2. r.wins[top].x \in Nat /\ r.wins[top].y \in Nat
        BY <2>4, Sizes DEF Window
      <4> QED
        BY <4>1, <4>2, Sizes
    <3>2. Press(h, p) = [r EXCEPT !.dragging = top, !.grab = G, !.dirty = TRUE]
      BY <2>5, <2>8
    <3> HIDE DEF G
    <3>3. Press(h, p).wins = r.wins /\ Press(h, p).n = r.n
      BY <2>2, <3>2 DEF Layouts
    <3>4. Ids(Press(h, p)) \subseteq Ids(h)
      BY <2>2, <3>3 DEF Ids
    <3> QED
      <4> DEFINE e == Press(h, p)
      <4>1. e \in [wins : [Records -> Window], n : 0 .. Len(Places),
                   dragging : -1 .. Len(Places) - 1, grab : (0 .. WIN_W - 1) \X {0},
                   was_down : BOOLEAN, dirty : BOOLEAN]
            /\ e.dragging = top /\ e.dirty
        BY <2>2, <2>4, <3>1, <3>2 DEF Layouts
      <4> HIDE DEF e
      <4>2. e.wins = r.wins /\ e.n = r.n
        BY <3>3 DEF e
      <4>3. e \in Layouts
        BY <2>2, <4>1, <4>2 DEF Layouts
      <4>4. e.wins[e.dragging].id = IdUnder(h, p)
        BY <2>2, <2>3, <4>1, <4>2
      <4> QED
        BY <3>4, <4>1, <4>3, <4>4 DEF e
  <2> QED
    BY <2>6, <2>7, <2>8
<1> QED
  BY <1>1, <1>2, <1>3

LEMMA DragLayout ==
  ASSUME NEW h \in Layouts, NEW p \in Cells
  PROVE  /\ Drag(h, p) \in Layouts
         /\ h.dragging < 0 => Drag(h, p) = h
         /\ h.dragging >= 0 => Drag(h, p).dirty
         /\ Drag(h, p).dragging = h.dragging /\ Drag(h, p).n = h.n
         /\ \A j \in Records : Drag(h, p).wins[j].id = h.wins[j].id
<1>1. CASE h.dragging < 0
  BY <1>1 DEF Drag, Layouts
<1>2. CASE h.dragging >= 0
  <2> DEFINE k == h.dragging
             X == Within(p[1] - h.grab[1], SCREEN_W - WIN_W)
             Y == Within(p[2] - h.grab[2], SCREEN_H - WIN_H)
             v == [h.wins[k] EXCEPT !.x = X, !.y = Y]
             e == [h EXCEPT !.wins = [h.wins EXCEPT ![k] = v], !.dirty = TRUE]
  <2>1. k \in Records /\ h.wins[k] \in Window /\ h.wins \in [Records -> Window]
    BY <1>2, Sizes DEF Layouts
  <2>2. X \in 0 .. SCREEN_W - WIN_W /\ Y \in 0 .. SCREEN_H - WIN_H
    <3>1. p[1] \in Int /\ p[2] \in Int /\ h.grab[1] \in Int /\ h.grab[2] \in Int
      <4>1. p[1] \in Int /\ p[2] \in Int
        BY Sizes DEF Cells
      <4>2. h.grab[1] \in Int /\ h.grab[2] \in Int
        BY Sizes DEF Layouts
      <4> QED
        BY <4>1, <4>2
    <3> QED
      <4>1. SCREEN_W - WIN_W \in Nat /\ SCREEN_H - WIN_H \in Nat
        BY Sizes
      <4>2. \A a \in Int, limit \in Nat : Within(a, limit) \in 0 .. limit
        BY DEF Within
      <4>3. p[1] - h.grab[1] \in Int /\ p[2] - h.grab[2] \in Int
        BY <3>1
      <4> QED
        BY <4>1, <4>2, <4>3
  <2>3. Drag(h, p) = e
    <3>1. Drag(h, p) = [h EXCEPT !.wins[h.dragging].x = X, !.wins[h.dragging].y = Y, !.dirty = TRUE]
      BY <1>2, <2>1, Sizes DEF Drag, Layouts
    <3> HIDE DEF X, Y
    <3> QED
      BY <2>1, <3>1 DEF Layouts
  <2> HIDE DEF X, Y
  <2>4. v \in Window /\ v.id = h.wins[k].id
    BY <2>1, <2>2 DEF Window
  <2> HIDE DEF v
  <2>5. [h.wins EXCEPT ![k] = v] \in [Records -> Window]
    BY <2>1, <2>4
  <2>6. \A j \in Records : [h.wins EXCEPT ![k] = v][j].id = h.wins[j].id
    BY <2>1, <2>4
  <2>7. e \in Layouts
    <3> DEFINE W == [h.wins EXCEPT ![k] = v]
    <3>1. \A i, j \in 0 .. h.n - 1 : W[i].id = W[j].id => i = j
      <4>1. \A i \in 0 .. h.n - 1 : i \in Records
        BY Sizes DEF Layouts, Records
      <4> HIDE DEF W
      <4>2. \A i \in 0 .. h.n - 1 : W[i].id = h.wins[i].id
        BY <2>6, <4>1 DEF W
      <4> QED
        BY <4>2 DEF Layouts
    <3> HIDE DEF W
    <3>2. e = [h EXCEPT !.wins = W, !.dirty = TRUE] /\ W \in [Records -> Window]
      BY <2>5 DEF W
    <3>3. [h EXCEPT !.wins = W] \in Layouts
      BY <3>1, <3>2 DEF Layouts
    <3> DEFINE f == [h EXCEPT !.wins = W]
    <3>4. e = [f EXCEPT !.dirty = TRUE]
      BY <3>2
    <3> HIDE DEF e, f
    <3>5. f \in Layouts
      BY <3>3 DEF f
    <3> QED
      BY <3>4, <3>5, MarkedLayout
  <2> QED
    BY <1>2, <2>3, <2>6, <2>7 DEF Layouts
<1> QED
  BY <1>1, <1>2 DEF Layouts

\* How Handle leaves the table: what is dragged, and whether the button was down.
Left(h, k, hit) == [[h EXCEPT !.dragging = k] EXCEPT !.was_down = hit]

LEMMA LeftLayout ==
  ASSUME NEW h \in Layouts, NEW hit \in BOOLEAN, NEW k \in -1 .. Len(Places) - 1,
         NEW e, e = Left(h, k, hit)
  PROVE  /\ e \in Layouts /\ e.dirty = h.dirty /\ e.wins = h.wins /\ e.n = h.n
         /\ e.dragging = k /\ e.was_down = hit
<1>1. e \in [wins : [Records -> Window], n : 0 .. Len(Places), dragging : -1 .. Len(Places) - 1,
             grab : (0 .. WIN_W - 1) \X {0}, was_down : BOOLEAN, dirty : BOOLEAN]
  BY DEF Layouts, Left
<1>2. e.wins = h.wins /\ e.n = h.n /\ e.dirty = h.dirty /\ e.dragging = k /\ e.was_down = hit
  BY DEF Layouts, Left
<1>3. \A i, j \in 0 .. e.n - 1 : e.wins[i].id = e.wins[j].id => i = j
  BY <1>2 DEF Layouts
<1>4. e \in Layouts
  BY <1>1, <1>3 DEF Layouts
<1> QED
  BY <1>2, <1>4

\* What Handle does to a table in which nothing is dragged while the button is up.
LEMMA HandleLayout ==
  ASSUME NEW h \in Layouts, h.was_down \/ h.dragging = -1, NEW p \in Cells, NEW hit \in BOOLEAN,
         NEW e, e = Handle(h, p, hit)
  PROVE  /\ e \in Layouts
         /\ e.was_down = hit
         /\ ~ hit => e.dragging = -1
         /\ ~ e.dirty => e.wins = h.wins /\ e.n = h.n /\ ~ h.dirty
         /\ hit /\ h.was_down =>
              e.dragging = h.dragging /\ \A j \in Records : e.wins[j].id = h.wins[j].id
         /\ hit /\ ~ h.was_down /\ e.dragging >= 0 => e.wins[e.dragging].id = IdUnder(h, p)
         /\ Ids(e) \subseteq Ids(h)
<1> DEFINE pressed == IF hit /\ ~ h.was_down THEN Press(h, p) ELSE h
           moved == IF hit THEN Drag(pressed, p) ELSE pressed
           k == IF hit THEN moved.dragging ELSE -1
<1>1. /\ pressed \in Layouts
      /\ pressed = h \/ pressed.dirty
      /\ ~ (hit /\ ~ h.was_down) => pressed = h
      /\ hit /\ ~ h.was_down /\ pressed.dragging >= 0 =>
           pressed.wins[pressed.dragging].id = IdUnder(h, p)
      /\ Ids(pressed) \subseteq Ids(h)
  BY PressLayout
<1> HIDE DEF pressed
<1>2. /\ moved \in Layouts
      /\ moved = pressed \/ moved.dirty
      /\ moved.dragging = pressed.dragging
      /\ \A j \in Records : moved.wins[j].id = pressed.wins[j].id
      /\ moved.n = pressed.n
  <2>1. pressed.dragging < 0 \/ pressed.dragging >= 0
    BY <1>1 DEF Layouts
  <2> QED
    BY <1>1, <2>1, DragLayout
<1>3. e = Left(moved, k, hit)
  <2>1. CASE hit
    <3>1. moved = [moved EXCEPT !.dragging = moved.dragging]
      BY <1>2 DEF Layouts
    <3>2. e = [moved EXCEPT !.was_down = hit]
      BY <2>1 DEF Handle, pressed
    <3> HIDE DEF moved
    <3> QED
      BY <2>1, <3>1, <3>2 DEF Left
  <2>2. CASE ~ hit
    BY <2>2 DEF Handle, pressed, Left
  <2> QED
    BY <2>1, <2>2
<1> HIDE DEF moved
<1>4. k \in -1 .. Len(Places) - 1
  BY <1>2, Sizes DEF Layouts
<1> HIDE DEF k
<1>5. e \in Layouts /\ e.dirty = moved.dirty /\ e.wins = moved.wins /\ e.n = moved.n
      /\ e.dragging = k /\ e.was_down = hit
  <2>1. moved \in Layouts
    BY <1>2
  <2> HIDE DEF Layouts
  <2> QED
    BY <2>1, <1>3, <1>4, LeftLayout
<1>6. hit /\ ~ h.was_down /\ e.dragging >= 0 => e.wins[e.dragging].id = IdUnder(h, p)
  <2> SUFFICES ASSUME hit, ~ h.was_down, e.dragging >= 0
               PROVE  e.wins[e.dragging].id = IdUnder(h, p)
    OBVIOUS
  <2>1. e.dragging = pressed.dragging /\ e.dragging \in Records
    <3>1. e.dragging = pressed.dragging
      BY <1>2, <1>5 DEF k
    <3>2. e.dragging \in -1 .. Len(Places) - 1
      BY <1>5 DEF Layouts
    <3>3. \A q \in -1 .. Len(Places) - 1 : q >= 0 => q \in Records
      BY Sizes DEF Records
    <3> QED
      BY <3>1, <3>2, <3>3
  <2> QED
    BY <1>1, <1>2, <1>5, <2>1
<1>7. ~ e.dirty => e.wins = h.wins /\ e.n = h.n /\ ~ h.dirty
  BY <1>1, <1>2, <1>5
<1>8. hit /\ h.was_down => e.dragging = h.dragging /\ \A j \in Records : e.wins[j].id = h.wins[j].id
  BY <1>1, <1>2, <1>5 DEF k
<1>9. ~ hit => e.dragging = -1
  BY <1>5 DEF k
<1>10. Ids(e) \subseteq Ids(h)
  <2>1. Ids(moved) = Ids(pressed)
    BY <1>1, <1>2, SameIds
  <2>2. Ids(e) = Ids(moved)
    BY <1>5 DEF Ids
  <2> QED
    BY <1>1, <2>1, <2>2
<1> QED
  BY <1>5, <1>6, <1>7, <1>8, <1>9, <1>10

\* A table that is as h but for its windows and its DIRTY.
Alike(g, h) == g \in Layouts /\ g.dragging = h.dragging /\ g.was_down = h.was_down

LEMMA BetweenLayout ==
  ASSUME NEW h \in Layouts, NEW g \in BetweenFrames(h)
  PROVE  /\ Alike(g, h)
         /\ g = h \/ g.dirty
         /\ Ids(g) \subseteq Ids(h)
<1>0. \A id : WindowOf(h, id) \subseteq 0 .. h.n - 1
  BY DEF WindowOf
<1>1. CASE g = h
  BY <1>1 DEF Alike
<1>2. ASSUME NEW i \in 0 .. h.n - 1, g = [Raise(h, i) EXCEPT !.dirty = TRUE]
      PROVE  Alike(g, h) /\ g.dirty /\ Ids(g) \subseteq Ids(h)
  <2> DEFINE r == Raise(h, i)
  <2>1. r \in Layouts /\ r = [h EXCEPT !.wins = r.wins] /\ Ids(r) \subseteq Ids(h)
    BY RaiseLayout
  <2> HIDE DEF r
  <2>2. r.dragging = h.dragging /\ r.was_down = h.was_down
    BY <2>1 DEF Layouts
  <2>3. g = [r EXCEPT !.dirty = TRUE]
    BY <1>2 DEF r
  <2> QED
    BY <2>1, <2>2, <2>3, MarkedLayout DEF Alike
<1>3. ASSUME NEW i \in 0 .. h.n - 1, g = [Close(h, i) EXCEPT !.dirty = TRUE]
      PROVE  Alike(g, h) /\ g.dirty /\ Ids(g) \subseteq Ids(h)
  <2> DEFINE r == Close(h, i)
  <2>1. r \in Layouts /\ r.dragging = h.dragging /\ r.was_down = h.was_down
        /\ Ids(r) \subseteq Ids(h)
    BY CloseLayout
  <2>2. g = [r EXCEPT !.dirty = TRUE]
    BY <1>3
  <2> HIDE DEF r
  <2> QED
    BY <2>1, <2>2, MarkedLayout DEF Alike
<1>4. \/ g = h
      \/ \E i \in 0 .. h.n - 1 : g = [Raise(h, i) EXCEPT !.dirty = TRUE]
      \/ \E i \in 0 .. h.n - 1 : g = [Close(h, i) EXCEPT !.dirty = TRUE]
  BY <1>0, Zenon DEF BetweenFrames, Switched
<1> QED
  BY <1>1, <1>2, <1>3, <1>4

\* A window that is made is the front one, and another than those there are.
LEMMA NewWindowLayout ==
  ASSUME NEW h \in Layouts, NEW id \in (1 .. Len(Places)) \ Ids(h), h.n < Len(Places)
  PROVE  Alike(NewWindow(h, id), h) /\ NewWindow(h, id).n >= h.n
<1> DEFINE w == [id |-> id, x |-> Places[id][1], y |-> Places[id][2]]
           W == [h.wins EXCEPT ![h.n] = w]
           e == [h EXCEPT !.wins = W, !.n = h.n + 1]
<1>0. /\ h.wins \in [Records -> Window] /\ h.n \in Nat /\ h.n \in Records
      /\ h.n + 1 \in 0 .. Len(Places)
      /\ \A j \in 0 .. h.n - 1 : j \in Records /\ j # h.n
  BY Sizes DEF Layouts, Records
<1>1. w \in Window
  <2>1. Places[id] \in (0 .. SCREEN_W - WIN_W) \X (0 .. SCREEN_H - WIN_H)
    BY WindowsAssumption
  <2> QED
    BY <2>1 DEF Window
<1>2. NewWindow(h, id) = e
  BY DEF NewWindow, Layouts
<1>3. w.id \notin Ids(h)
  OBVIOUS
<1> HIDE DEF w
<1>4. W \in [Records -> Window] /\ W[h.n] = w /\ \A j \in 0 .. h.n - 1 : W[j] = h.wins[j]
  BY <1>0, <1>1
<1> HIDE DEF W
<1>5. /\ e \in [wins : [Records -> Window], n : 0 .. Len(Places), dragging : -1 .. Len(Places) - 1,
                grab : (0 .. WIN_W - 1) \X {0}, was_down : BOOLEAN, dirty : BOOLEAN]
      /\ e.wins = W /\ e.n = h.n + 1 /\ e.dragging = h.dragging /\ e.was_down = h.was_down
  BY <1>0, <1>4 DEF Layouts
<1> HIDE DEF e
<1>6. \A i \in 0 .. h.n : i \in 0 .. h.n - 1 \/ i = h.n
  BY <1>0
<1>7. ASSUME NEW i \in 0 .. h.n, NEW j \in 0 .. h.n, W[i].id = W[j].id PROVE i = j
  <2>1. \A k \in 0 .. h.n - 1 : W[k].id \in Ids(h) /\ W[k].id = h.wins[k].id
    BY <1>4 DEF Ids
  <2>2. W[h.n].id \notin Ids(h)
    BY <1>3, <1>4
  <2>3. \A k, m \in 0 .. h.n - 1 : h.wins[k].id = h.wins[m].id => k = m
    BY DEF Layouts
  <2> QED
    BY <1>6, <1>7, <2>1, <2>2, <2>3
<1>8. e.n - 1 = h.n
  BY <1>0, <1>5
<1>9. \A i, j \in 0 .. e.n - 1 : e.wins[i].id = e.wins[j].id => i = j
  BY <1>5, <1>7, <1>8
<1>10. e \in Layouts
  BY <1>5, <1>9 DEF Layouts
<1> QED
  BY <1>0, <1>2, <1>5, <1>10 DEF Alike

\* A table whose DIRTY is set is as it was.
LEMMA MarkedAlike ==
  ASSUME NEW h \in Layouts, NEW g, Alike(g, h), g.n >= h.n,
         NEW a, a = [g EXCEPT !.dirty = TRUE]
  PROVE  Alike(a, h) /\ a.n >= h.n
BY MarkedLayout DEF Alike

LEMMA EditedLayout ==
  ASSUME NEW h \in Layouts, FrontTaker(h) = Prompt, WindowOf(h, Prompt) # {}
  PROVE  Alike(Edited(h), h) /\ Edited(h).n >= h.n
<1> DEFINE own == WindowOf(h, Editor)
<1>0. h.n \in Nat /\ own \in SUBSET (0 .. h.n - 1) /\ h.n <= Len(Places)
  BY OpenRecords DEF WindowOf
<1>1. CASE own # {}
  <2> DEFINE i == Max(own)
             r == Raise(h, i)
  <2>1. i \in 0 .. h.n - 1
    BY <1>0, <1>1, MaxIsGreatest
  <2> HIDE DEF i
  <2>2. r \in Layouts /\ r = [h EXCEPT !.wins = r.wins]
    BY <2>1, RaiseLayout
  <2>3. Edited(h) = [r EXCEPT !.dirty = TRUE]
    BY <1>1 DEF Edited, i
  <2> HIDE DEF r
  <2>4. r.dragging = h.dragging /\ r.was_down = h.was_down /\ r.n = h.n
    BY <2>2 DEF Layouts
  <2> QED
    BY <1>0, <2>2, <2>3, <2>4, MarkedAlike DEF Alike
<1>2. CASE own = {} /\ h.n < Len(Places) /\ Editor # 0
  <2>1. Editor \notin Ids(h)
    BY <1>2 DEF Ids, WindowOf
  <2>2. Editor \in 1 .. Len(Places)
    BY <1>2, WindowsAssumption, Sizes
  <2>3. Alike(NewWindow(h, Editor), h) /\ NewWindow(h, Editor).n >= h.n
    BY <1>2, <2>1, <2>2, NewWindowLayout
  <2>4. Edited(h) = [NewWindow(h, Editor) EXCEPT !.dirty = TRUE]
    BY <1>2 DEF Edited
  <2> QED
    BY <2>3, <2>4, MarkedAlike
<1>3. CASE own = {} /\ ~ (h.n < Len(Places))
  <2>1. Edited(h) = [h EXCEPT !.dirty = TRUE]
    BY <1>3 DEF Edited, NewWindow
  <2> QED
    BY <1>0, <2>1, MarkedAlike DEF Alike
<1>4. Editor # 0
  <2>1. Prompt # 0
    <3>1. \A i \in 0 .. h.n - 1 : h.wins[i].id # 0
      BY OpenRecords DEF Window
    <3> QED
      BY <3>1 DEF WindowOf
  <2> QED
    BY <2>1, WindowsAssumption
<1> QED
  BY <1>1, <1>2, <1>3, <1>4

\* Whatever is asked of the prompt leaves a table, and closes nothing.
LEMMA AskedLayout ==
  ASSUME NEW h \in Layouts, NEW a \in Asked(h)
  PROVE  Alike(a, h) /\ a.n >= h.n
<1>0. h.n \in Nat /\ WindowOf(h, Prompt) # {}
  BY OpenRecords DEF Asked
<1>1. CASE a = [h EXCEPT !.dirty = TRUE]
  BY <1>0, <1>1, MarkedAlike DEF Alike
<1>2. CASE FrontTaker(h) = Prompt /\ a = Edited(h)
  BY <1>0, <1>2, EditedLayout
<1>3. ASSUME NEW id \in (1 .. Len(Places)) \ Ids(h), h.n < Len(Places),
             a = [NewWindow(h, id) EXCEPT !.dirty = TRUE]
      PROVE  Alike(a, h) /\ a.n >= h.n
  BY <1>3, NewWindowLayout, MarkedAlike
<1>4. \/ a = [h EXCEPT !.dirty = TRUE]
      \/ FrontTaker(h) = Prompt /\ a = Edited(h)
      \/ \E id \in (1 .. Len(Places)) \ Ids(h) :
           h.n < Len(Places) /\ a = [NewWindow(h, id) EXCEPT !.dirty = TRUE]
  BY Zenon DEF Asked, Opened
<1> QED
  BY <1>1, <1>2, <1>3, <1>4

-----------------------------------------------------------------------------
(* Drawing.                                                                *)

Shown == {DESK} \cup ((1 .. Len(Places)) \X {"panel", "picture", "front", "behind"})
Slowness == [row : 0 .. ROWS, seen : -1 .. WRAP - 1,
             where : (-1 .. SCREEN_W) \X (-1 .. SCREEN_H)]
Drawings == [screen : [Cells -> Shown], slow : Slowness]

\* All of a window is on the screen, and its rows are inside it.
LEMMA RectCells ==
  ASSUME NEW w \in Window
  PROVE  /\ Rect(w) \subseteq Cells
         /\ Bar(w) \subseteq Rect(w)
         /\ \A rows : Row(w, rows) \subseteq Client(w)
<1>1. /\ w.x \in Nat /\ w.x + WIN_W <= SCREEN_W /\ w.x \in Int
      /\ w.y \in Nat /\ w.y + WIN_H <= SCREEN_H /\ w.y \in Int
  BY Sizes DEF Window
<1>0. /\ WIN_W \in Nat /\ 0 < WIN_W /\ SCREEN_W \in Nat
      /\ WIN_H \in Nat /\ 0 < WIN_H /\ SCREEN_H \in Nat
  BY Sizes
<1>1a. \A a, len, all \in Nat :
         len > 0 /\ a + len <= all => a .. a + len - 1 \subseteq 0 .. all - 1 /\ a \in a .. a + len - 1
  OBVIOUS
<1>2. w.x .. w.x + WIN_W - 1 \subseteq 0 .. SCREEN_W - 1
  BY <1>0, <1>1, <1>1a
<1>3. w.y .. w.y + WIN_H - 1 \subseteq 0 .. SCREEN_H - 1 /\ w.y \in w.y .. w.y + WIN_H - 1
  BY <1>0, <1>1, <1>1a
<1>4. ASSUME NEW rows PROVE Row(w, rows) \subseteq Client(w)
  <2> SUFFICES ASSUME NEW c \in Row(w, rows) PROVE c \in Client(w)
    OBVIOUS
  <2>1. PICK a \in w.x .. w.x + WIN_W - 1, r \in 0 .. ROWS - 1 : c = <<a, w.y + 1 + r>>
    BY DEF Row
  <2>2. w.y + 1 + r \in w.y .. w.y + WIN_H - 1 /\ w.y + 1 + r # w.y
    <3>1. \A y \in Int, k \in 0 .. ROWS - 1 : y + 1 + k \in y .. y + WIN_H - 1 /\ y + 1 + k # y
      BY Sizes
    <3> QED
      BY <1>1, <3>1
  <2> QED
    BY <2>1, <2>2 DEF Client, Rect, Bar
<1> QED
  BY <1>2, <1>3, <1>4 DEF Rect, Bar, Cells

LEMMA ShowIs ==
  ASSUME NEW d \in Drawings, NEW cells, NEW what \in Shown
  PROVE  /\ Show(d, cells, what) \in Drawings
         /\ Show(d, cells, what).slow = d.slow
         /\ \A c \in Cells : Show(d, cells, what).screen[c] = IF c \in cells THEN what ELSE d.screen[c]
<1>1. Show(d, cells, what) =
        [screen |-> [c \in Cells |-> IF c \in cells THEN what ELSE d.screen[c]], slow |-> d.slow]
  BY DEF Show, Drawings
<1> QED
  BY <1>1 DEF Drawings

LEMMA LooksShown ==
  ASSUME NEW w \in Window, NEW part \in {"panel", "picture", "front", "behind"}
  PROVE  <<w.id, part>> \in Shown
BY DEF Window, Shown

\* What the slow window knows changes without the screen.
LEMMA KnowsIs ==
  ASSUME NEW d \in Drawings, NEW s \in Slowness
  PROVE  LET e == [d EXCEPT !.slow = s] IN e \in Drawings /\ e.slow = s /\ e.screen = d.screen
BY DEF Drawings

\* Drawing inside a window changes nothing around it, and shows nothing but the panel
\* or the picture of that window.
Inside(d, e, w) ==
  \A c \in Cells :
    e.screen[c] \in {d.screen[c]} \cup
      (IF c \in Client(w) THEN {<<w.id, "panel">>, <<w.id, "picture">>} ELSE {})

LEMMA MandelInside ==
  ASSUME NEW d \in Drawings, NEW w \in Window
  PROVE  MandelRows(d, w) \in Drawings /\ Inside(d, MandelRows(d, w), w)
<1> DEFINE row == IF d.slow.where = <<w.x, w.y>> THEN d.slow.row ELSE 0
           s == [d.slow EXCEPT !.where = <<w.x, w.y>>, !.row = IF row + 2 < ROWS THEN row + 2 ELSE ROWS]
           f == [d EXCEPT !.slow = s]
<1>1. row \in 0 .. ROWS /\ <<w.x, w.y>> \in (-1 .. SCREEN_W) \X (-1 .. SCREEN_H)
  <2>1. d.slow.row \in 0 .. ROWS
    BY DEF Drawings, Slowness
  <2>2. w.x \in -1 .. SCREEN_W /\ w.y \in -1 .. SCREEN_H
    BY Sizes DEF Window
  <2> QED
    BY <2>1, <2>2, Sizes
<1> HIDE DEF row
<1>2. s \in Slowness
  <2>1. (IF row + 2 < ROWS THEN row + 2 ELSE ROWS) \in 0 .. ROWS
    BY <1>1, Sizes
  <2>2. d.slow \in Slowness
    BY DEF Drawings
  <2> QED
    BY <1>1, <2>1, <2>2 DEF Slowness
<1>3. MandelRows(d, w) = Show(f, Row(w, {row, row + 1}), <<w.id, "picture">>)
  BY DEF MandelRows, row, Drawings, Slowness
<1> HIDE DEF s
<1>4. f \in Drawings /\ f.screen = d.screen
  BY <1>2, KnowsIs
<1> HIDE DEF f
<1>5. Row(w, {row, row + 1}) \subseteq Client(w) /\ <<w.id, "picture">> \in Shown
  BY RectCells, LooksShown
<1> DEFINE e == Show(f, Row(w, {row, row + 1}), <<w.id, "picture">>)
<1>6. /\ e \in Drawings
      /\ \A c \in Cells : e.screen[c] = IF c \in Row(w, {row, row + 1}) THEN <<w.id, "picture">>
                                        ELSE f.screen[c]
  BY <1>4, <1>5, ShowIs
<1> HIDE DEF e
<1>7. Inside(d, e, w)
  BY <1>4, <1>5, <1>6 DEF Inside
<1> QED
  BY <1>3, <1>6, <1>7 DEF e

\* A task begins again on a clean canvas, or goes on where it was,
Canvas(d, w, now) ==
  IF d.slow.seen # now \/ d.slow.where # <<w.x, w.y>>
  THEN Show([d EXCEPT !.slow = [row |-> 0, seen |-> now, where |-> <<w.x, w.y>>]],
            Client(w), <<w.id, "panel">>)
  ELSE d

\* and draws a row.
NextRow(e, w) ==
  IF e.slow.row < ROWS
  THEN Show([e EXCEPT !.slow.row = @ + 1], Row(w, {e.slow.row}), <<w.id, "picture">>)
  ELSE IF Program = "animation" THEN [e EXCEPT !.slow.row = 0] ELSE e

LEMMA CanvasIs ==
  ASSUME NEW d \in Drawings, NEW w \in Window, NEW now \in 0 .. WRAP - 1
  PROVE  /\ Canvas(d, w, now) \in Drawings /\ Inside(d, Canvas(d, w, now), w)
         /\ IF d.slow.seen # now \/ d.slow.where # <<w.x, w.y>>
            THEN Canvas(d, w, now).slow = [row |-> 0, seen |-> now, where |-> <<w.x, w.y>>]
            ELSE Canvas(d, w, now) = d
<1>1. CASE ~ (d.slow.seen # now \/ d.slow.where # <<w.x, w.y>>)
  BY <1>1 DEF Canvas, Inside
<1>2. CASE d.slow.seen # now \/ d.slow.where # <<w.x, w.y>>
  <2> DEFINE s == [row |-> 0, seen |-> now, where |-> <<w.x, w.y>>]
             f == [d EXCEPT !.slow = s]
             e == Show(f, Client(w), <<w.id, "panel">>)
  <2>1. s \in Slowness
    <3>1. w.x \in -1 .. SCREEN_W /\ w.y \in -1 .. SCREEN_H /\ 0 \in 0 .. ROWS
      BY Sizes DEF Window
    <3>2. now \in -1 .. WRAP - 1
      BY WindowsAssumption
    <3> QED
      BY <3>1, <3>2 DEF Slowness
  <2>2. Canvas(d, w, now) = e
    BY <1>2 DEF Canvas
  <2> HIDE DEF s
  <2>3. f \in Drawings /\ f.screen = d.screen /\ f.slow = s
    BY <2>1, KnowsIs
  <2> HIDE DEF f
  <2>4. /\ e \in Drawings /\ e.slow = s
        /\ \A c \in Cells : e.screen[c] = IF c \in Client(w) THEN <<w.id, "panel">> ELSE f.screen[c]
    <3>1. <<w.id, "panel">> \in Shown
      BY LooksShown
    <3> QED
      BY <2>3, <3>1, ShowIs
  <2> HIDE DEF e
  <2>5. Inside(d, e, w)
    BY <2>3, <2>4 DEF Inside
  <2> QED
    BY <1>2, <2>2, <2>4, <2>5 DEF s
<1> QED
  BY <1>1, <1>2

LEMMA NextRowIs ==
  ASSUME NEW e \in Drawings, NEW w \in Window
  PROVE  /\ NextRow(e, w) \in Drawings /\ Inside(e, NextRow(e, w), w)
         /\ NextRow(e, w).slow.seen = e.slow.seen /\ NextRow(e, w).slow.where = e.slow.where
         /\ IF e.slow.row < ROWS
            THEN /\ NextRow(e, w).slow.row = e.slow.row + 1
                 /\ \A c \in Cells : NextRow(e, w).screen[c] =
                      IF c \in Row(w, {e.slow.row}) THEN <<w.id, "picture">> ELSE e.screen[c]
            ELSE /\ NextRow(e, w).slow.row \in {0, e.slow.row}
                 /\ NextRow(e, w).screen = e.screen
<1>0. e.slow \in Slowness /\ e.slow.row \in 0 .. ROWS
  BY DEF Drawings, Slowness
<1>1. CASE e.slow.row < ROWS
  <2> DEFINE s == [e.slow EXCEPT !.row = e.slow.row + 1]
             f == [e EXCEPT !.slow = s]
             r == Show(f, Row(w, {e.slow.row}), <<w.id, "picture">>)
  <2>1. e.slow.row + 1 \in 0 .. ROWS
    BY <1>0, <1>1, Sizes
  <2>2. /\ s \in Slowness /\ s.row = e.slow.row + 1
        /\ s.seen = e.slow.seen /\ s.where = e.slow.where
    BY <1>0, <2>1 DEF Slowness
  <2>3. NextRow(e, w) = r
    BY <1>1 DEF NextRow, Drawings
  <2> HIDE DEF s
  <2>4. f \in Drawings /\ f.screen = e.screen /\ f.slow = s
    BY <2>2, KnowsIs
  <2> HIDE DEF f
  <2>5. /\ r \in Drawings /\ r.slow = s
        /\ \A c \in Cells : r.screen[c] = IF c \in Row(w, {e.slow.row}) THEN <<w.id, "picture">>
                                          ELSE f.screen[c]
    <3>1. <<w.id, "picture">> \in Shown
      BY LooksShown
    <3> QED
      BY <2>4, <3>1, ShowIs
  <2> HIDE DEF r
  <2>6. Row(w, {e.slow.row}) \subseteq Client(w)
    BY RectCells
  <2>7. Inside(e, r, w)
    BY <2>4, <2>5, <2>6 DEF Inside
  <2> QED
    BY <1>1, <2>2, <2>3, <2>4, <2>5, <2>7
<1>2. CASE ~ (e.slow.row < ROWS) /\ Program = "animation"
  <2> DEFINE s == [e.slow EXCEPT !.row = 0]
             f == [e EXCEPT !.slow = s]
  <2>1. s \in Slowness /\ s.row = 0 /\ s.seen = e.slow.seen /\ s.where = e.slow.where
    <3>1. 0 \in 0 .. ROWS
      BY Sizes
    <3> QED
      BY <1>0, <3>1 DEF Slowness
  <2>2. NextRow(e, w) = f
    BY <1>2 DEF NextRow, Drawings
  <2> HIDE DEF s
  <2>3. f \in Drawings /\ f.screen = e.screen /\ f.slow = s
    BY <2>1, KnowsIs
  <2> HIDE DEF f
  <2>4. Inside(e, f, w)
    BY <2>3 DEF Inside
  <2> QED
    BY <1>2, <2>1, <2>2, <2>3, <2>4
<1>3. CASE ~ (e.slow.row < ROWS) /\ Program # "animation"
  BY <1>0, <1>3 DEF NextRow, Inside
<1> QED
  BY <1>1, <1>2, <1>3

LEMMA TaskStepIs ==
  ASSUME NEW d, NEW w, NEW now
  PROVE  TaskStep(d, w, now) = NextRow(Canvas(d, w, now), w)
BY DEF TaskStep, NextRow, Canvas

\* What a window draws is inside it, and only the slow one remembers where it was.
LEMMA ContentsInside ==
  ASSUME NEW d \in Drawings, NEW w \in Window, NEW now \in 0 .. WRAP - 1
  PROVE  /\ Contents(d, w, now) \in Drawings
         /\ Inside(d, Contents(d, w, now), w)
         /\ w.id # Slow => Contents(d, w, now).slow = d.slow
<1>1. CASE w.id # Slow
  <2> DEFINE e == Show(d, Client(w), <<w.id, "picture">>)
  <2>1. /\ e \in Drawings /\ e.slow = d.slow
        /\ \A c \in Cells : e.screen[c] = IF c \in Client(w) THEN <<w.id, "picture">> ELSE d.screen[c]
    <3>1. <<w.id, "picture">> \in Shown
      BY LooksShown
    <3> QED
      BY <3>1, ShowIs
  <2>2. Contents(d, w, now) = e
    BY <1>1 DEF Contents
  <2> HIDE DEF e
  <2> QED
    BY <2>1, <2>2 DEF Inside
<1>2. CASE w.id = Slow /\ Program = "mandel"
  BY <1>2, MandelInside DEF Contents
<1>3. CASE w.id = Slow /\ Program # "mandel"
  <2> DEFINE e == Canvas(d, w, now)
             r == NextRow(e, w)
  <2>1. e \in Drawings /\ Inside(d, e, w)
    BY CanvasIs
  <2> HIDE DEF e
  <2>2. r \in Drawings /\ Inside(e, r, w)
    BY <2>1, NextRowIs
  <2>3. Contents(d, w, now) = r
    BY <1>3, TaskStepIs DEF Contents, e
  <2> HIDE DEF r
  <2>4. Inside(d, r, w)
    BY <2>1, <2>2 DEF Inside
  <2> QED
    BY <1>3, <2>2, <2>3, <2>4
<1> QED
  BY <1>1, <1>2, <1>3

\* A task that draws has seen this repaint, or what it had seen.
LEMMA ContentsSeen ==
  ASSUME NEW d \in Drawings, NEW w \in Window, NEW now \in 0 .. WRAP - 1, Program # "mandel"
  PROVE  Contents(d, w, now).slow.seen \in {d.slow.seen, now}
<1>1. CASE w.id # Slow
  BY <1>1, ContentsInside
<1>2. CASE w.id = Slow
  <2> DEFINE e == Canvas(d, w, now)
  <2>0. /\ e \in Drawings
        /\ IF d.slow.seen # now \/ d.slow.where # <<w.x, w.y>>
           THEN e.slow = [row |-> 0, seen |-> now, where |-> <<w.x, w.y>>] ELSE e = d
    BY CanvasIs
  <2> HIDE DEF e
  <2>1. e.slow.seen \in {d.slow.seen, now}
    BY <2>0
  <2>2. Contents(d, w, now) = NextRow(e, w)
    BY <1>2, TaskStepIs DEF Contents, e
  <2>3. NextRow(e, w).slow.seen = e.slow.seen
    BY <2>0, NextRowIs
  <2> QED
    BY <2>1, <2>2, <2>3
<1> QED
  BY <1>1, <1>2

LEMMA RowNext ==
  ASSUME NEW w, NEW r \in Nat, NEW c \in Row(w, 0 .. r)
  PROVE  c \in Row(w, 0 .. r - 1) \/ c \in Row(w, {r})
<1>1. PICK a \in w.x .. w.x + WIN_W - 1, k \in (0 .. r) \cap (0 .. ROWS - 1) : c = <<a, w.y + 1 + k>>
  BY DEF Row
<1>2. k \in 0 .. r - 1 \/ k \in {r}
  OBVIOUS
<1>3. c \in Row(w, 0 .. r - 1) \/ c \in Row(w, {r})
  <2>1. CASE k \in 0 .. r - 1
    BY <1>1, <2>1 DEF Row
  <2>2. CASE k \in {r}
    BY <1>1, <2>2 DEF Row
  <2> QED
    BY <1>2, <2>1, <2>2
<1> QED
  BY <1>3

LEMMA RowNone == \A w : Row(w, 0 .. -1) = {}
<1>1. (0 .. -1) \cap 0 .. ROWS - 1 = {}
  OBVIOUS
<1> QED
  BY <1>1 DEF Row

\* What a task has drawn of its picture is there, among the cells of X.
Drawn(d, w, X) ==
  \A c \in Row(w, 0 .. d.slow.row - 1) \cap X : d.screen[c] = <<w.id, "picture">>

LEMMA NextRowDrawn ==
  ASSUME NEW e \in Drawings, NEW w \in Window, NEW X \in SUBSET Cells, Drawn(e, w, X)
  PROVE  Drawn(NextRow(e, w), w, X)
<1> DEFINE r == NextRow(e, w)
<1>0. e.slow.row \in 0 .. ROWS /\ e.slow.row \in Nat
  BY Sizes DEF Drawings, Slowness
<1>1. IF e.slow.row < ROWS
      THEN /\ r.slow.row = e.slow.row + 1
           /\ \A c \in Cells : r.screen[c] =
                IF c \in Row(w, {e.slow.row}) THEN <<w.id, "picture">> ELSE e.screen[c]
      ELSE r.slow.row \in {0, e.slow.row} /\ r.screen = e.screen
  BY NextRowIs
<1> HIDE DEF r
<1> SUFFICES ASSUME NEW c \in Row(w, 0 .. r.slow.row - 1) \cap X
             PROVE  r.screen[c] = <<w.id, "picture">>
  BY DEF Drawn, r
<1>2. CASE e.slow.row < ROWS
  <2>1. c \in Row(w, 0 .. e.slow.row)
    <3>1. r.slow.row - 1 = e.slow.row
      BY <1>0, <1>1, <1>2
    <3> QED
      BY <3>1
  <2>2. c \in Row(w, 0 .. e.slow.row - 1) \/ c \in Row(w, {e.slow.row})
    BY <1>0, <2>1, RowNext
  <2> QED
    BY <1>1, <1>2, <2>2 DEF Drawn
<1>3. CASE ~ (e.slow.row < ROWS)
  <2>1. r.slow.row # 0
    <3> SUFFICES ASSUME r.slow.row = 0 PROVE FALSE
      OBVIOUS
    <3>1. 0 .. r.slow.row - 1 = 0 .. -1
      OBVIOUS
    <3> QED
      BY <3>1, RowNone
  <2> QED
    BY <1>1, <1>3, <2>1 DEF Drawn
<1> QED
  BY <1>2, <1>3

\* A task whose picture was painted over, and which has not seen that, starts again;
LEMMA SlowStarts ==
  ASSUME NEW d \in Drawings, NEW w \in Window, NEW now \in 0 .. WRAP - 1,
         w.id = Slow, Program # "mandel", d.slow.seen # now
  PROVE  /\ Contents(d, w, now).slow.seen = now
         /\ Contents(d, w, now).slow.where = <<w.x, w.y>>
         /\ Drawn(Contents(d, w, now), w, Cells)
<1> DEFINE e == Canvas(d, w, now)
           r == NextRow(e, w)
<1>1. e \in Drawings /\ e.slow = [row |-> 0, seen |-> now, where |-> <<w.x, w.y>>]
  BY CanvasIs
<1>2. Contents(d, w, now) = r
  BY TaskStepIs DEF Contents
<1> HIDE DEF e
<1>3. Drawn(e, w, Cells)
  <2>1. 0 .. e.slow.row - 1 = 0 .. -1
    BY <1>1
  <2> QED
    BY <2>1, RowNone DEF Drawn
<1>4. r.slow.seen = e.slow.seen /\ r.slow.where = e.slow.where
  BY <1>1, NextRowIs
<1>5. Drawn(r, w, Cells)
  BY <1>1, <1>3, NextRowDrawn
<1> HIDE DEF r
<1> QED
  BY <1>1, <1>2, <1>4, <1>5

\* one that nothing was painted over goes on.
LEMMA SlowGoesOn ==
  ASSUME NEW d \in Drawings, NEW w \in Window, NEW now \in 0 .. WRAP - 1,
         w.id = Slow, Program # "mandel", d.slow.seen = now, d.slow.where = <<w.x, w.y>>,
         NEW X \in SUBSET Cells, Drawn(d, w, X)
  PROVE  /\ Contents(d, w, now).slow.seen = now
         /\ Contents(d, w, now).slow.where = <<w.x, w.y>>
         /\ Drawn(Contents(d, w, now), w, X)
<1>1. Canvas(d, w, now) = d
  BY DEF Canvas
<1>2. Contents(d, w, now) = NextRow(d, w)
  BY <1>1, TaskStepIs DEF Contents
<1>3. NextRow(d, w).slow.seen = d.slow.seen /\ NextRow(d, w).slow.where = d.slow.where
  BY NextRowIs
<1>4. Drawn(NextRow(d, w), w, X)
  BY NextRowDrawn
<1> QED
  BY <1>2, <1>3, <1>4

Ends(w, front) == <<w.id, IF front THEN "front" ELSE "behind">>

Look(w, front, c) ==
  IF c \in Bar(w) THEN {Ends(w, front)} ELSE {<<w.id, "panel">>, <<w.id, "picture">>}

\* The task of w has seen the repaint, and what it has drawn since is there.
Restarted(e, w, now) ==
  e.slow.seen = now /\ e.slow.where = <<w.x, w.y>> /\ Drawn(e, w, Cells)

LEMMA PaintIs ==
  ASSUME NEW d \in Drawings, NEW w \in Window, NEW front \in BOOLEAN, NEW now \in 0 .. WRAP - 1
  PROVE  /\ Paint(d, w, front, now) \in Drawings
         /\ \A c \in Cells :
              Paint(d, w, front, now).screen[c] \in
                IF c \notin Rect(w) THEN {d.screen[c]} ELSE Look(w, front, c)
         /\ Program # "mandel" => Paint(d, w, front, now).slow.seen \in {d.slow.seen, now}
         /\ w.id # Slow => Paint(d, w, front, now).slow = d.slow
         /\ w.id = Slow /\ Program # "mandel" /\ d.slow.seen # now =>
              Restarted(Paint(d, w, front, now), w, now)
<1> DEFINE p == Show(d, Client(w), <<w.id, "panel">>)
           b == Show(p, Bar(w), Ends(w, front))
           e == Contents(b, w, now)
<1>1. <<w.id, "panel">> \in Shown /\ Ends(w, front) \in Shown
  BY LooksShown DEF Ends
<1>2. /\ p \in Drawings /\ p.slow = d.slow
      /\ \A c \in Cells : p.screen[c] = IF c \in Client(w) THEN <<w.id, "panel">> ELSE d.screen[c]
  BY <1>1, ShowIs
<1>3. Paint(d, w, front, now) = e
  BY DEF Paint, Ends
<1> HIDE DEF p
<1>4. /\ b \in Drawings /\ b.slow = p.slow
      /\ \A c \in Cells : b.screen[c] = IF c \in Bar(w) THEN Ends(w, front) ELSE p.screen[c]
  BY <1>1, <1>2, ShowIs
<1> HIDE DEF b
<1>5. e \in Drawings /\ Inside(b, e, w) /\ (w.id # Slow => e.slow = b.slow)
  BY <1>4, ContentsInside
<1>6. w.id = Slow /\ Program # "mandel" /\ b.slow.seen # now => Restarted(e, w, now)
  BY <1>4, SlowStarts DEF Restarted
<1>6a. Program # "mandel" => e.slow.seen \in {b.slow.seen, now}
  BY <1>4, ContentsSeen
<1> HIDE DEF e
<1>7. ASSUME NEW c \in Cells
      PROVE  e.screen[c] \in IF c \notin Rect(w) THEN {d.screen[c]} ELSE Look(w, front, c)
  <2>1. c \in Rect(w) <=> c \in Bar(w) \/ c \in Client(w)
    BY RectCells DEF Client
  <2>2. ~ (c \in Bar(w) /\ c \in Client(w))
    BY DEF Client
  <2>3. e.screen[c] \in {b.screen[c]} \cup
          (IF c \in Client(w) THEN {<<w.id, "panel">>, <<w.id, "picture">>} ELSE {})
    BY <1>5 DEF Inside
  <2> QED
    BY <1>2, <1>4, <2>1, <2>2, <2>3 DEF Look
<1> QED
  BY <1>2, <1>3, <1>4, <1>5, <1>6, <1>6a, <1>7

-----------------------------------------------------------------------------
(* REPAINT: the desk, and the windows one over the other.                  *)

\* Where none of the windows from j on to k is.
Clear(h, j, k) == {c \in Cells : \A i \in j .. k - 1 : c \notin Rect(h.wins[i])}

\* The screen s shows the first k windows of h.
Layers(h, k, s) ==
  /\ \A c \in Clear(h, 0, k) : s[c] = DESK
  /\ \A j \in 0 .. k - 1 : \A c \in Rect(h.wins[j]) \cap Clear(h, j + 1, k) :
       s[c] \in Look(h.wins[j], j = h.n - 1, c)

\* The slow window among the first k knows of the repaint, and its rows are there.
SlowShown(h, k, e, now) ==
  \A j \in 0 .. k - 1 : h.wins[j].id = Slow =>
    /\ e.slow.seen = now /\ e.slow.where = <<h.wins[j].x, h.wins[j].y>>
    /\ Drawn(e, h.wins[j], Clear(h, j + 1, k))

SlowLayer(h, k, before, e, now) ==
  /\ (\A j \in 0 .. k - 1 : h.wins[j].id # Slow) => e.slow = before
  /\ SlowShown(h, k, e, now)

LEMMA LayerStep ==
  ASSUME NEW h \in Layouts, NEW k \in 0 .. h.n - 1, NEW now \in 0 .. WRAP - 1,
         NEW d \in Drawings, Layers(h, k, d.screen),
         NEW e, e = Paint(d, h.wins[k], k + 1 = h.n, now)
  PROVE  Layers(h, k + 1, e.screen)
<1>0. h.n \in Nat /\ h.wins[k] \in Window
  BY OpenRecords
<1>1. \A c \in Cells : e.screen[c] \in
        IF c \notin Rect(h.wins[k]) THEN {d.screen[c]} ELSE Look(h.wins[k], k + 1 = h.n, c)
  BY <1>0, PaintIs
<1>2. ASSUME NEW c \in Clear(h, 0, k + 1) PROVE e.screen[c] = DESK
  <2>1. c \in Clear(h, 0, k) /\ c \notin Rect(h.wins[k]) /\ c \in Cells
    BY <1>0 DEF Clear
  <2> QED
    BY <1>1, <2>1 DEF Layers
<1>3. ASSUME NEW j \in 0 .. k, NEW c \in Rect(h.wins[j]) \cap Clear(h, j + 1, k + 1)
      PROVE  e.screen[c] \in Look(h.wins[j], j = h.n - 1, c)
  <2>1. CASE j = k
    <3>1. c \in Cells /\ c \in Rect(h.wins[k]) /\ (k + 1 = h.n) = (j = h.n - 1)
      BY <1>0, <2>1 DEF Clear
    <3> QED
      BY <1>1, <2>1, <3>1
  <2>2. CASE j # k
    <3>1. j \in 0 .. k - 1 /\ k \in j + 1 .. k + 1 - 1
      BY <2>2
    <3>2. c \in Clear(h, j + 1, k) /\ c \notin Rect(h.wins[k]) /\ c \in Cells
      BY <3>1 DEF Clear
    <3> QED
      BY <1>1, <3>1, <3>2 DEF Layers
  <2> QED
    BY <2>1, <2>2
<1>4. k + 1 - 1 = k
  BY <1>0
<1> QED
  BY <1>2, <1>3, <1>4 DEF Layers

LEMMA SlowLayerStep ==
  ASSUME NEW h \in Layouts, NEW k \in 0 .. h.n - 1, NEW now \in 0 .. WRAP - 1,
         NEW before, before.seen # now, Program # "mandel",
         NEW d \in Drawings, SlowLayer(h, k, before, d, now),
         NEW e, e = Paint(d, h.wins[k], k + 1 = h.n, now)
  PROVE  SlowLayer(h, k + 1, before, e, now)
<1>0. /\ h.n \in Nat /\ h.wins[k] \in Window /\ k + 1 - 1 = k
      /\ \A j \in 0 .. k - 1 : h.wins[j].id # h.wins[k].id
  <2>1. \A j \in 0 .. k - 1 : j \in 0 .. h.n - 1 /\ j # k
    BY OpenRecords
  <2> QED
    BY <2>1, OpenRecords
<1>1. /\ \A c \in Cells : c \notin Rect(h.wins[k]) => e.screen[c] = d.screen[c]
      /\ h.wins[k].id # Slow => e.slow = d.slow
      /\ h.wins[k].id = Slow /\ d.slow.seen # now =>
           /\ e.slow.seen = now /\ e.slow.where = <<h.wins[k].x, h.wins[k].y>>
           /\ Drawn(e, h.wins[k], Cells)
  <2> DEFINE f == Paint(d, h.wins[k], k + 1 = h.n, now)
  <2>1. /\ \A c \in Cells : f.screen[c] \in
             IF c \notin Rect(h.wins[k]) THEN {d.screen[c]} ELSE Look(h.wins[k], k + 1 = h.n, c)
        /\ h.wins[k].id # Slow => f.slow = d.slow
        /\ h.wins[k].id = Slow /\ d.slow.seen # now => Restarted(f, h.wins[k], now)
    BY <1>0, PaintIs
  <2>2. e = f
    OBVIOUS
  <2> HIDE DEF f
  <2> QED
    BY <2>1, <2>2 DEF Restarted
<1>2. CASE h.wins[k].id = Slow
  <2>1. d.slow = before
    BY <1>0, <1>2 DEF SlowLayer, SlowShown
  <2>2. /\ e.slow.seen = now /\ e.slow.where = <<h.wins[k].x, h.wins[k].y>>
        /\ Drawn(e, h.wins[k], Cells)
    BY <1>1, <1>2, <2>1
  <2>3. Drawn(e, h.wins[k], Clear(h, k + 1, k + 1))
    BY <2>2 DEF Drawn, Clear
  <2>4. \A j \in 0 .. k : h.wins[j].id = Slow => j = k
    BY <1>0, <1>2
  <2>5. k \in 0 .. k
    BY <1>0
  <2> QED
    BY <1>0, <1>2, <2>2, <2>3, <2>4, <2>5 DEF SlowLayer, SlowShown
<1>3. CASE h.wins[k].id # Slow
  <2>1. e.slow = d.slow
    BY <1>1, <1>3
  <2>2. ASSUME \A j \in 0 .. k : h.wins[j].id # Slow PROVE e.slow = before
    <3>1. \A j \in 0 .. k - 1 : j \in 0 .. k
      OBVIOUS
    <3> QED
      BY <2>1, <2>2, <3>1 DEF SlowLayer, SlowShown
  <2>3. ASSUME NEW j \in 0 .. k, h.wins[j].id = Slow
        PROVE  /\ e.slow.seen = now /\ e.slow.where = <<h.wins[j].x, h.wins[j].y>>
               /\ Drawn(e, h.wins[j], Clear(h, j + 1, k + 1))
    <3>1. j \in 0 .. k - 1
      BY <1>3, <2>3
    <3>2. /\ d.slow.seen = now /\ d.slow.where = <<h.wins[j].x, h.wins[j].y>>
          /\ Drawn(d, h.wins[j], Clear(h, j + 1, k))
      BY <2>3, <3>1 DEF SlowLayer, SlowShown
    <3>3. \A c \in Clear(h, j + 1, k + 1) :
            c \in Clear(h, j + 1, k) /\ c \in Cells /\ c \notin Rect(h.wins[k])
      BY <3>1 DEF Clear
    <3>4. Drawn(e, h.wins[j], Clear(h, j + 1, k + 1))
      BY <1>1, <2>1, <3>2, <3>3 DEF Drawn
    <3> QED
      BY <2>1, <3>2, <3>4
  <2> QED
    BY <1>0, <2>2, <2>3 DEF SlowLayer, SlowShown
<1> QED
  BY <1>2, <1>3

Now == (repaints + 1) % WRAP

\* What the loop finds at its turn i is a window of one of the two tables, and of the one
\* there is if nothing was asked for.
LEMMA AtIs ==
  ASSUME NEW h \in Layouts, NEW a \in Layouts
  PROVE  /\ \A i \in 1 .. h.n : At(h, a, i - 1) \in Layouts /\ At(h, a, i - 1).wins[i - 1] \in Window
         /\ \A i : At(h, h, i) = h
<1>1. \A i \in 1 .. h.n : i - 1 \in Records
  BY OpenRecords, Sizes DEF Records
<1>2. \A e \in Layouts, i \in Records : e.wins[i] \in Window
  BY DEF Layouts
<1>3. \A i : At(h, a, i) \in Layouts
  BY DEF At
<1> QED
  BY <1>1, <1>2, <1>3 DEF At

\* The screen after each turn of the loop of REPAINT.
RepaintTurns(P, h, a, d) ==
  /\ P[0] = Show(d, Cells, DESK)
  /\ \A i \in 1 .. h.n :
       P[i] = Paint(P[i - 1], At(h, a, i - 1).wins[i - 1], i = At(h, a, i - 1).n, Now)
  /\ Repainted(h, a, d) = P[h.n]

LEMMA RepaintLoop ==
  ASSUME NEW h \in Layouts, NEW a \in Layouts, NEW d \in Drawings, repaints \in 0 .. WRAP - 1
  PROVE  /\ Now \in 0 .. WRAP - 1
         /\ \E P \in [0 .. h.n -> Drawings] : RepaintTurns(P, h, a, d)
<1> DEFINE turn(e, i) == Paint(e, At(h, a, i - 1).wins[i - 1], i = At(h, a, i - 1).n, Now)
           step == [i \in 1 .. h.n |-> [e \in Drawings |-> turn(e, i)]]
<1>1. h.n \in Nat /\ \A i \in 1 .. h.n : At(h, a, i - 1).wins[i - 1] \in Window
  BY OpenRecords, AtIs
<1>2. Now \in 0 .. WRAP - 1
  BY WindowsAssumption DEF Now
<1>3. Show(d, Cells, DESK) \in Drawings
  BY ShowIs DEF Shown
<1>4. ASSUME NEW i \in 1 .. h.n, NEW e \in Drawings PROVE turn(e, i) \in Drawings
  <2>1. At(h, a, i - 1).wins[i - 1] \in Window /\ (i = At(h, a, i - 1).n) \in BOOLEAN
    BY <1>1
  <2> QED
    BY <1>2, <2>1, PaintIs, Zenon
<1> HIDE DEF turn
<1>5. \A i \in 1 .. h.n : \A e \in Drawings : step[i][e] \in Drawings
  BY <1>4
<1> HIDE DEF step
<1>6. PICK P \in [0 .. h.n -> Drawings] : LoopOf(P, h.n, Show(d, Cells, DESK), step)
  BY <1>1, <1>3, <1>5, LoopExists
<1> DEFINE Loop(Q) == Q = [i \in 0 .. h.n |->
                             IF i = 0 THEN Show(d, Cells, DESK)
                             ELSE Paint(Q[i - 1], At(h, a, i - 1).wins[i - 1],
                                        i = At(h, a, i - 1).n, Now)]
           R == CHOOSE Q : Loop(Q)
<1>7. ASSUME NEW i \in 1 .. h.n PROVE P[i] = turn(P[i - 1], i)
  <2>1. i - 1 \in 0 .. h.n
    BY <1>1
  <2> QED
    BY <1>6, <2>1 DEF LoopOf, step
<1>8. Loop(P)
  BY <1>1, <1>6, <1>7 DEF LoopOf, turn
<1>9. Loop(R)
  BY <1>8, Zenon
<1>10. Repainted(h, a, d) = R[h.n]
  BY Zenon DEF Repainted, Now
<1> HIDE DEF R
<1>11. R = [i \in 0 .. h.n |-> R[i]] /\ R[0] = Show(d, Cells, DESK)
       /\ \A i \in 1 .. h.n : R[i] = turn(R[i - 1], i)
  <2>1. 0 \in 0 .. h.n /\ \A i \in 1 .. h.n : i \in 0 .. h.n /\ i # 0
    BY <1>1
  <2> QED
    BY <1>9, <2>1 DEF turn
<1>12. \A i \in 0 .. h.n : R[i] \in Drawings
  <2> DEFINE G == {i \in 0 .. h.n : R[i] \in Drawings}
  <2>1. 0 \in G
    BY <1>1, <1>3, <1>11
  <2>2. ASSUME NEW i \in 1 .. h.n, i - 1 \in G PROVE i \in G
    <3>1. R[i - 1] \in Drawings /\ i \in 0 .. h.n
      BY <1>1, <2>2
    <3> QED
      BY <1>4, <1>11, <3>1
  <2> HIDE DEF G
  <2>3. \A i \in 0 .. h.n : i \in G
    BY <1>1, <2>1, <2>2, UpTo
  <2> QED
    BY <2>3 DEF G
<1>13. R \in [0 .. h.n -> Drawings]
  BY <1>11, <1>12
<1>14. RepaintTurns(R, h, a, d)
  BY <1>10, <1>11, Zenon DEF RepaintTurns, turn
<1> QED
  BY <1>2, <1>13, <1>14

\* Whatever is asked for meanwhile, a repaint paints windows.
LEMMA RepaintedIs ==
  ASSUME NEW h \in Layouts, NEW a \in Layouts, NEW d \in Drawings, repaints \in 0 .. WRAP - 1
  PROVE  /\ Repainted(h, a, d) \in Drawings
         /\ Program # "mandel" => Repainted(h, a, d).slow.seen \in {d.slow.seen, Now}
<1>1. PICK P \in [0 .. h.n -> Drawings] : RepaintTurns(P, h, a, d)
  BY RepaintLoop
<1>2. h.n \in Nat /\ Now \in 0 .. WRAP - 1
  BY OpenRecords, RepaintLoop
<1>3. P[0].slow = d.slow
  BY <1>1, ShowIs DEF Shown, RepaintTurns
<1> DEFINE Fine(e) == Program # "mandel" => e.slow.seen \in {d.slow.seen, Now}
           G == {k \in 0 .. h.n : Fine(P[k])}
<1>4. 0 \in G
  BY <1>2, <1>3
<1>5. ASSUME NEW k \in 1 .. h.n, k - 1 \in G PROVE k \in G
  <2> DEFINE w == At(h, a, k - 1).wins[k - 1]
             f == At(h, a, k - 1).n
  <2>1. k - 1 \in 0 .. h.n /\ P[k - 1] \in Drawings /\ k \in 0 .. h.n /\ Fine(P[k - 1])
    BY <1>2, <1>5
  <2>2. P[k] = Paint(P[k - 1], w, k = f, Now) /\ w \in Window
    BY <1>1, AtIs, Zenon DEF RepaintTurns
  <2> HIDE DEF w, f
  <2>3. (k = f) \in BOOLEAN
    OBVIOUS
  <2>4. Program # "mandel" => Paint(P[k - 1], w, k = f, Now).slow.seen \in {P[k - 1].slow.seen, Now}
    BY <1>2, <2>1, <2>2, <2>3, PaintIs, Zenon
  <2>5. Fine(P[k])
    BY <2>1, <2>2, <2>4
  <2> QED
    BY <2>1, <2>5
<1> HIDE DEF G
<1>6. \A k \in 0 .. h.n : k \in G
  BY <1>2, <1>4, <1>5, UpTo
<1>7. Repainted(h, a, d) = P[h.n] /\ h.n \in 0 .. h.n
  BY <1>1, <1>2 DEF RepaintTurns
<1> QED
  BY <1>6, <1>7 DEF G

\* One during which nothing is asked for shows all the windows, and the slow one has seen it.
LEMMA RepaintShows ==
  ASSUME NEW h \in Layouts, NEW d \in Drawings, repaints \in 0 .. WRAP - 1
  PROVE  /\ Layers(h, h.n, Repainted(h, h, d).screen)
         /\ Program # "mandel" /\ d.slow.seen # Now => SlowShown(h, h.n, Repainted(h, h, d), Now)
<1>1. PICK P \in [0 .. h.n -> Drawings] : RepaintTurns(P, h, h, d)
  BY RepaintLoop
<1>2. h.n \in Nat /\ Now \in 0 .. WRAP - 1
  BY RepaintLoop, OpenRecords
<1>3. P[0].slow = d.slow /\ \A c \in Cells : P[0].screen[c] = DESK
  BY <1>1, ShowIs DEF Shown, RepaintTurns
<1>4. ASSUME NEW k \in 1 .. h.n
      PROVE  /\ k - 1 \in 0 .. h.n - 1 /\ k - 1 + 1 = k /\ k - 1 \in 0 .. h.n /\ k \in 0 .. h.n
             /\ P[k - 1] \in Drawings
             /\ P[k] = Paint(P[k - 1], h.wins[k - 1], k - 1 + 1 = h.n, Now)
  <2>1. k - 1 \in 0 .. h.n - 1 /\ k - 1 + 1 = k /\ k - 1 \in 0 .. h.n /\ k \in 0 .. h.n
    BY <1>2
  <2>2. P[k] = Paint(P[k - 1], At(h, h, k - 1).wins[k - 1], k = At(h, h, k - 1).n, Now)
    BY <1>1, Zenon DEF RepaintTurns
  <2>3. At(h, h, k - 1) = h
    BY AtIs
  <2>4. P[k] = Paint(P[k - 1], h.wins[k - 1], k - 1 + 1 = h.n, Now)
    BY <2>1, <2>2, <2>3, Zenon
  <2> QED
    BY <2>1, <2>4, Zenon
<1>5. Repainted(h, h, d) = P[h.n] /\ h.n \in 0 .. h.n
  BY <1>1, <1>2 DEF RepaintTurns
<1>6. Layers(h, h.n, Repainted(h, h, d).screen)
  <2> DEFINE G == {k \in 0 .. h.n : Layers(h, k, P[k].screen)}
  <2>1. 0 \in G
    <3>1. Layers(h, 0, P[0].screen)
      BY <1>3 DEF Layers, Clear
    <3> QED
      BY <1>2, <3>1
  <2>2. ASSUME NEW k \in 1 .. h.n, k - 1 \in G PROVE k \in G
    <3>1. Layers(h, k - 1, P[k - 1].screen)
      BY <2>2
    <3>0. /\ k - 1 \in 0 .. h.n - 1 /\ P[k - 1] \in Drawings
          /\ P[k] = Paint(P[k - 1], h.wins[k - 1], k - 1 + 1 = h.n, Now)
      BY <1>4, Zenon
    <3>2. Layers(h, k - 1 + 1, P[k].screen)
      BY <1>2, <3>0, <3>1, LayerStep
    <3> QED
      BY <1>4, <3>2
  <2> HIDE DEF G
  <2>3. \A k \in 0 .. h.n : k \in G
    BY <1>2, <2>1, <2>2, UpTo
  <2> QED
    BY <1>5, <2>3 DEF G
<1>7. ASSUME Program # "mandel", d.slow.seen # Now
      PROVE  SlowShown(h, h.n, Repainted(h, h, d), Now)
  <2> DEFINE G == {k \in 0 .. h.n : SlowLayer(h, k, d.slow, P[k], Now)}
  <2>1. 0 \in G
    <3>1. SlowLayer(h, 0, d.slow, P[0], Now)
      BY <1>3 DEF SlowLayer, SlowShown
    <3> QED
      BY <1>2, <3>1
  <2>2. ASSUME NEW k \in 1 .. h.n, k - 1 \in G PROVE k \in G
    <3>1. SlowLayer(h, k - 1, d.slow, P[k - 1], Now)
      BY <2>2
    <3>0. /\ k - 1 \in 0 .. h.n - 1 /\ P[k - 1] \in Drawings
          /\ P[k] = Paint(P[k - 1], h.wins[k - 1], k - 1 + 1 = h.n, Now)
      BY <1>4, Zenon
    <3>2. SlowLayer(h, k - 1 + 1, d.slow, P[k], Now)
      BY <1>2, <1>7, <3>0, <3>1, SlowLayerStep
    <3> QED
      BY <1>4, <3>2
  <2> HIDE DEF G
  <2>3. \A k \in 0 .. h.n : k \in G
    BY <1>2, <2>1, <2>2, UpTo
  <2> QED
    BY <1>5, <2>3 DEF G, SlowLayer
<1> QED
  BY <1>6, <1>7

-----------------------------------------------------------------------------
(* REDRAW: only inside the windows that nothing covers.                    *)

\* What is not covered has no window in front of any part of it, nor is it in front of
\* a part of the one below without that showing.
LEMMA UncoveredApart ==
  ASSUME NEW h \in Layouts, NEW k \in 0 .. h.n - 1, ~ Covered(h, k),
         NEW j \in 0 .. h.n - 1, j # k, NEW c \in Rect(h.wins[j]) \cap Clear(h, j + 1, h.n)
  PROVE  c \notin Rect(h.wins[k])
<1>1. h.n \in Nat
  BY OpenRecords
<1>2. CASE j < k
  <2>1. k \in j + 1 .. h.n - 1
    BY <1>1, <1>2
  <2> QED
    BY <2>1 DEF Clear
<1>3. CASE j > k
  <2>1. j \in k + 1 .. h.n - 1
    BY <1>1, <1>3
  <2> QED
    BY <2>1 DEF Covered, Overlap
<1> QED
  BY <1>1, <1>2, <1>3

LEMMA RedrawStep ==
  ASSUME NEW h \in Layouts, NEW k \in 0 .. h.n - 1, ~ Covered(h, k), NEW now \in 0 .. WRAP - 1,
         NEW d \in Drawings, Layers(h, h.n, d.screen),
         NEW e, e = Contents(d, h.wins[k], now)
  PROVE  /\ Layers(h, h.n, e.screen)
         /\ Program # "mandel" /\ SlowShown(h, h.n, d, now) => SlowShown(h, h.n, e, now)
<1>0. /\ h.n \in Nat /\ h.wins[k] \in Window
      /\ \A j \in 0 .. h.n - 1 : h.wins[j] \in Window /\ (j # k => h.wins[j].id # h.wins[k].id)
  BY OpenRecords
<1>1. /\ \A c \in Cells : e.screen[c] \in {d.screen[c]} \cup
           (IF c \in Client(h.wins[k])
            THEN {<<h.wins[k].id, "panel">>, <<h.wins[k].id, "picture">>} ELSE {})
      /\ h.wins[k].id # Slow => e.slow = d.slow
  BY <1>0, ContentsInside DEF Inside
<1>2. \A c \in Cells : c \notin Rect(h.wins[k]) => e.screen[c] = d.screen[c]
  BY <1>1 DEF Client
<1>3. ASSUME NEW c \in Clear(h, 0, h.n) PROVE e.screen[c] = DESK
  <2>1. c \in Cells /\ c \notin Rect(h.wins[k])
    BY DEF Clear
  <2> QED
    BY <1>2, <2>1 DEF Layers
<1>4. ASSUME NEW j \in 0 .. h.n - 1, NEW c \in Rect(h.wins[j]) \cap Clear(h, j + 1, h.n)
      PROVE  e.screen[c] \in Look(h.wins[j], j = h.n - 1, c)
  <2>1. c \in Cells /\ d.screen[c] \in Look(h.wins[j], j = h.n - 1, c)
    BY DEF Clear, Layers
  <2>2. CASE j # k
    BY <1>2, <2>1, <2>2, UncoveredApart
  <2>3. CASE j = k
    <3>1. CASE c \in Bar(h.wins[k])
      <4>1. c \notin Client(h.wins[k])
        BY <3>1 DEF Client
      <4> QED
        BY <1>1, <2>1, <4>1
    <3>2. CASE c \notin Bar(h.wins[k])
      BY <1>1, <2>1, <2>3, <3>2 DEF Look
    <3> QED
      BY <3>1, <3>2
  <2> QED
    BY <2>2, <2>3
<1>5. ASSUME Program # "mandel", SlowShown(h, h.n, d, now),
             NEW j \in 0 .. h.n - 1, h.wins[j].id = Slow
      PROVE  /\ e.slow.seen = now /\ e.slow.where = <<h.wins[j].x, h.wins[j].y>>
             /\ Drawn(e, h.wins[j], Clear(h, j + 1, h.n))
  <2>1. /\ d.slow.seen = now /\ d.slow.where = <<h.wins[j].x, h.wins[j].y>>
        /\ Drawn(d, h.wins[j], Clear(h, j + 1, h.n))
    BY <1>5 DEF SlowShown
  <2>2. CASE j = k
    <3>1. Clear(h, k + 1, h.n) \in SUBSET Cells
      BY DEF Clear
    <3> QED
      BY <1>0, <1>5, <2>1, <2>2, <3>1, SlowGoesOn
  <2>3. CASE j # k
    <3>1. e.slow = d.slow
      BY <1>0, <1>1, <1>5, <2>3
    <3>2. ASSUME NEW c \in Row(h.wins[j], 0 .. d.slow.row - 1) \cap Clear(h, j + 1, h.n)
          PROVE  e.screen[c] = <<h.wins[j].id, "picture">>
      <4>1. c \in Rect(h.wins[j]) /\ c \in Cells
        BY <1>0, RectCells DEF Client, Clear
      <4>2. c \notin Rect(h.wins[k])
        BY <2>3, <4>1, UncoveredApart
      <4> QED
        BY <1>2, <2>1, <4>1, <4>2 DEF Drawn
    <3> QED
      BY <2>1, <3>1, <3>2 DEF Drawn
  <2> QED
    BY <2>2, <2>3
<1> QED
  BY <1>3, <1>4, <1>5 DEF Layers, SlowShown

\* The screen after each turn of the loop of REDRAW.
RedrawTurns(P, h, a, d) ==
  /\ P[0] = d
  /\ \A i \in 1 .. h.n : P[i] = IF Covered(At(h, a, i - 1), i - 1) THEN P[i - 1]
                                ELSE Contents(P[i - 1], At(h, a, i - 1).wins[i - 1], repaints)
  /\ RedrawnContents(h, a, d) = P[h.n]

LEMMA RedrawLoop ==
  ASSUME NEW h \in Layouts, NEW a \in Layouts, NEW d \in Drawings, repaints \in 0 .. WRAP - 1
  PROVE  \E P \in [0 .. h.n -> Drawings] : RedrawTurns(P, h, a, d)
<1> DEFINE turn(e, i) == IF Covered(At(h, a, i - 1), i - 1) THEN e
                         ELSE Contents(e, At(h, a, i - 1).wins[i - 1], repaints)
           step == [i \in 1 .. h.n |-> [e \in Drawings |-> turn(e, i)]]
<1>1. h.n \in Nat /\ \A i \in 1 .. h.n : At(h, a, i - 1).wins[i - 1] \in Window /\ i - 1 \in 0 .. h.n
  <2>1. h.n \in Nat
    BY OpenRecords
  <2>2. \A i \in 1 .. h.n : i - 1 \in 0 .. h.n
    BY <2>1
  <2> QED
    BY <2>1, <2>2, AtIs
<1>2. ASSUME NEW i \in 1 .. h.n, NEW e \in Drawings PROVE turn(e, i) \in Drawings
  BY <1>1, ContentsInside
<1> HIDE DEF turn
<1>3. \A i \in 1 .. h.n : \A e \in Drawings : step[i][e] \in Drawings
  BY <1>2
<1> HIDE DEF step
<1>4. PICK P \in [0 .. h.n -> Drawings] : LoopOf(P, h.n, d, step)
  BY <1>1, <1>3, LoopExists
<1> DEFINE Loop(Q) == Q = [i \in 0 .. h.n |->
                             IF i = 0 THEN d
                             ELSE IF Covered(At(h, a, i - 1), i - 1) THEN Q[i - 1]
                             ELSE Contents(Q[i - 1], At(h, a, i - 1).wins[i - 1], repaints)]
           R == CHOOSE Q : Loop(Q)
<1>5. ASSUME NEW i \in 1 .. h.n PROVE P[i] = turn(P[i - 1], i)
  BY <1>1, <1>4 DEF LoopOf, step
<1>6. Loop(P)
  BY <1>1, <1>4, <1>5 DEF LoopOf, turn
<1>7. Loop(R)
  BY <1>6, Zenon
<1>8. RedrawnContents(h, a, d) = R[h.n]
  BY Zenon DEF RedrawnContents
<1> HIDE DEF R
<1>9. R = [i \in 0 .. h.n |-> R[i]] /\ R[0] = d /\ \A i \in 1 .. h.n : R[i] = turn(R[i - 1], i)
  <2>1. 0 \in 0 .. h.n /\ \A i \in 1 .. h.n : i \in 0 .. h.n /\ i # 0
    BY <1>1
  <2> QED
    BY <1>7, <2>1 DEF turn
<1>10. \A i \in 0 .. h.n : R[i] \in Drawings
  <2> DEFINE G == {i \in 0 .. h.n : R[i] \in Drawings}
  <2>1. 0 \in G
    BY <1>1, <1>9
  <2>2. ASSUME NEW i \in 1 .. h.n, i - 1 \in G PROVE i \in G
    <3>1. R[i - 1] \in Drawings /\ i \in 0 .. h.n
      BY <1>1, <2>2
    <3> QED
      BY <1>2, <1>9, <3>1
  <2> HIDE DEF G
  <2>3. \A i \in 0 .. h.n : i \in G
    BY <1>1, <2>1, <2>2, UpTo
  <2> QED
    BY <2>3 DEF G
<1>11. R \in [0 .. h.n -> Drawings]
  BY <1>9, <1>10
<1>12. RedrawTurns(R, h, a, d)
  BY <1>8, <1>9 DEF RedrawTurns, turn
<1> QED
  BY <1>11, <1>12

\* Whatever is asked for meanwhile, a redraw draws in windows.
LEMMA RedrawnIs ==
  ASSUME NEW h \in Layouts, NEW a \in Layouts, NEW d \in Drawings, repaints \in 0 .. WRAP - 1
  PROVE  /\ RedrawnContents(h, a, d) \in Drawings
         /\ Program # "mandel" => RedrawnContents(h, a, d).slow.seen \in {d.slow.seen, repaints}
<1>1. PICK P \in [0 .. h.n -> Drawings] : RedrawTurns(P, h, a, d)
  BY RedrawLoop
<1>2. h.n \in Nat
  BY OpenRecords
<1> DEFINE Fine(e) == Program # "mandel" => e.slow.seen \in {d.slow.seen, repaints}
           G == {k \in 0 .. h.n : Fine(P[k])}
<1>3. 0 \in G
  BY <1>1, <1>2 DEF RedrawTurns
<1>4. ASSUME NEW k \in 1 .. h.n, k - 1 \in G PROVE k \in G
  <2> DEFINE w == At(h, a, k - 1).wins[k - 1]
  <2>1. k - 1 \in 0 .. h.n /\ P[k - 1] \in Drawings /\ k \in 0 .. h.n /\ Fine(P[k - 1])
    BY <1>2, <1>4
  <2>2. (P[k] = P[k - 1] \/ P[k] = Contents(P[k - 1], w, repaints)) /\ w \in Window
    BY <1>1, AtIs, Zenon DEF RedrawTurns
  <2> HIDE DEF w
  <2>3. Program # "mandel" => Contents(P[k - 1], w, repaints).slow.seen \in {P[k - 1].slow.seen, repaints}
    BY <2>1, <2>2, ContentsSeen
  <2>4. Fine(P[k])
    BY <2>1, <2>2, <2>3
  <2> QED
    BY <2>1, <2>4
<1> HIDE DEF G
<1>5. \A k \in 0 .. h.n : k \in G
  BY <1>2, <1>3, <1>4, UpTo
<1>6. RedrawnContents(h, a, d) = P[h.n] /\ h.n \in 0 .. h.n
  BY <1>1, <1>2 DEF RedrawTurns
<1> QED
  BY <1>5, <1>6 DEF G

\* One during which nothing is asked for leaves the windows shown as they are.
LEMMA RedrawShows ==
  ASSUME NEW h \in Layouts, NEW d \in Drawings, repaints \in 0 .. WRAP - 1,
         Layers(h, h.n, d.screen)
  PROVE  /\ Layers(h, h.n, RedrawnContents(h, h, d).screen)
         /\ Program # "mandel" /\ SlowShown(h, h.n, d, repaints) =>
              SlowShown(h, h.n, RedrawnContents(h, h, d), repaints)
<1>1. PICK P \in [0 .. h.n -> Drawings] : RedrawTurns(P, h, h, d)
  BY RedrawLoop
<1>2. h.n \in Nat
  BY OpenRecords
<1> DEFINE Fine(e) == /\ Layers(h, h.n, e.screen)
                      /\ Program # "mandel" /\ SlowShown(h, h.n, d, repaints) =>
                           SlowShown(h, h.n, e, repaints)
           G == {k \in 0 .. h.n : Fine(P[k])}
<1>3. 0 \in G
  BY <1>1, <1>2 DEF RedrawTurns
<1>4. ASSUME NEW k \in 1 .. h.n, k - 1 \in G PROVE k \in G
  <2>1. /\ k - 1 \in 0 .. h.n - 1 /\ k - 1 \in 0 .. h.n /\ k \in 0 .. h.n
        /\ P[k - 1] \in Drawings /\ Fine(P[k - 1])
    BY <1>2, <1>4
  <2>2. P[k] = IF Covered(h, k - 1) THEN P[k - 1] ELSE Contents(P[k - 1], h.wins[k - 1], repaints)
    <3>1. At(h, h, k - 1) = h
      BY AtIs
    <3> QED
      BY <1>1, <3>1, Zenon DEF RedrawTurns
  <2>3. CASE Covered(h, k - 1)
    BY <2>1, <2>2, <2>3
  <2>4. CASE ~ Covered(h, k - 1)
    <3>1. P[k] = Contents(P[k - 1], h.wins[k - 1], repaints)
      BY <2>2, <2>4
    <3>2. /\ Layers(h, h.n, P[k].screen)
          /\ Program # "mandel" /\ SlowShown(h, h.n, P[k - 1], repaints) =>
               SlowShown(h, h.n, P[k], repaints)
      BY <2>1, <2>4, <3>1, RedrawStep
    <3> QED
      BY <2>1, <3>2
  <2> QED
    BY <2>3, <2>4
<1> HIDE DEF G
<1>5. \A k \in 0 .. h.n : k \in G
  BY <1>2, <1>3, <1>4, UpTo
<1>6. Fine(P[h.n]) /\ RedrawnContents(h, h, d) = P[h.n]
  BY <1>1, <1>2, <1>5 DEF G, RedrawTurns
<1> QED
  BY <1>6

\* Both are about the open windows, and nothing else of the table.
LEMMA SameTable ==
  ASSUME NEW h, NEW e, h.wins = e.wins, h.n = e.n, NEW k, NEW d, NEW now
  PROVE  /\ Layers(h, k, d) = Layers(e, k, d)
         /\ SlowShown(h, k, d, now) = SlowShown(e, k, d, now)
BY DEF Layers, SlowShown, Clear

-----------------------------------------------------------------------------
(* The invariant.                                                          *)

Table == [wins |-> wins, n |-> n, dragging |-> dragging, grab |-> grab,
          was_down |-> was_down, dirty |-> dirty]
Drawing == [screen |-> screen, slow |-> slow]

TableInv ==
  /\ Table \in Layouts /\ Drawing \in Drawings
  /\ repaints \in 0 .. WRAP - 1
  /\ phase \in {"poll", "frame", "left"} /\ leave \in BOOLEAN
  /\ b_down \in BOOLEAN /\ b_last \in BOOLEAN /\ b_polls \in 0 .. 1
  /\ meddled \in BOOLEAN /\ lost \in BOOLEAN

DragInv ==
  /\ ~ was_down => dragging = -1
  /\ was_down /\ ~ meddled /\ dragging >= 0 => wins[dragging].id = grabbed
  /\ DragCarriesTheGrabbed

\* A frame that leaves no repaint due, and loses none, leaves the desk painted; and the task
\* will see the next repaint.
ScreenInv ==
  /\ ~ dirty => n > 0
  /\ ~ dirty /\ ~ lost => Layers(Table, n, screen)
  /\ Program # "mandel" =>
       /\ ~ dirty /\ ~ lost => SlowShown(Table, n, Drawing, repaints)
       /\ ~ lost /\ Slow \in Ids(Table) => slow.seen \in {-1, repaints}

WindowsInv == TableInv /\ DragInv /\ ScreenInv

LEMMA FreshIs == Fresh \in Slowness /\ Fresh.seen = -1
BY Sizes, WindowsAssumption DEF Slowness, Fresh

LEMMA InitWindows == Init => WindowsInv
<1> SUFFICES ASSUME Init PROVE WindowsInv
  OBVIOUS
<1> USE DEF Init
<1>1. Table \in Layouts
  <2>1. wins \in [Records -> Window]
    <3>1. \A i \in Records : i + 1 \in 1 .. Len(Places)
      BY Sizes DEF Records
    <3>2. \A i \in 1 .. Len(Places) :
            Places[i] \in (0 .. SCREEN_W - WIN_W) \X (0 .. SCREEN_H - WIN_H)
      BY WindowsAssumption
    <3> QED
      BY <3>1, <3>2 DEF Window
  <2>2. n \in 0 .. Len(Places) /\ -1 \in -1 .. Len(Places) - 1
        /\ <<0, 0>> \in (0 .. WIN_W - 1) \X {0}
    BY Sizes
  <2>3. \A i, j \in 0 .. n - 1 : wins[i].id = wins[j].id => i = j
    <3>1. \A i \in 0 .. n - 1 : i \in Records /\ wins[i].id = i + 1 /\ i \in Int
      BY Sizes DEF Records
    <3> QED
      BY <3>1
  <2> QED
    <3>1. Table \in [wins : [Records -> Window], n : 0 .. Len(Places),
                     dragging : -1 .. Len(Places) - 1, grab : (0 .. WIN_W - 1) \X {0},
                     was_down : BOOLEAN, dirty : BOOLEAN]
      BY <2>1, <2>2 DEF Table
    <3>2. Table.wins = wins /\ Table.n = n
      BY DEF Table
    <3> QED
      BY <2>3, <3>1, <3>2 DEF Layouts
<1>2. Drawing \in Drawings
  <2>1. slow \in Slowness
    BY FreshIs
  <2> QED
    BY <2>1 DEF Drawing, Drawings, Shown
<1>3. 0 \in 0 .. WRAP - 1 /\ 0 \in 0 .. 1
  BY WindowsAssumption
<1>4. TableInv
  BY <1>1, <1>2, <1>3, Zenon DEF TableInv
<1>5. DragInv
  BY DEF DragInv, DragCarriesTheGrabbed
<1>6. ScreenInv
  BY DEF ScreenInv, Fresh
<1> QED
  BY <1>4, <1>5, <1>6 DEF WindowsInv

\* The buttons of the loop leave the desk and the screen alone.
LEMMA LoopWindows ==
  WindowsInv /\ (PressB \/ ReleaseB \/ Poll \/ UNCHANGED vars) => WindowsInv'
<1> SUFFICES ASSUME WindowsInv, PressB \/ ReleaseB \/ Poll \/ UNCHANGED vars
             PROVE  WindowsInv'
  OBVIOUS
<1>1. UNCHANGED <<layout, repaints, screen, slow, grabbed, carried, meddled, lost>>
  BY DEF PressB, ReleaseB, Poll, vars
<1>2. phase' \in {"poll", "frame", "left"} /\ (phase' = "left" <=> phase = "left")
      /\ leave' \in BOOLEAN /\ b_down' \in BOOLEAN /\ b_last' \in BOOLEAN /\ b_polls' \in 0 .. 1
  <2>1. /\ phase \in {"poll", "frame", "left"} /\ leave \in BOOLEAN
        /\ b_down \in BOOLEAN /\ b_last \in BOOLEAN /\ b_polls \in 0 .. 1
    BY DEF WindowsInv, TableInv
  <2>2. CASE PressB \/ ReleaseB
    <3>1. b_down' \in BOOLEAN /\ b_polls' = 0 /\ phase' = phase /\ leave' = leave /\ b_last' = b_last
      BY <2>2 DEF PressB, ReleaseB
    <3> QED
      BY <2>1, <3>1
  <2>3. CASE Poll
    BY <2>1, <2>3 DEF Poll
  <2>4. CASE UNCHANGED vars
    BY <2>1, <2>4 DEF vars, button
  <2> QED
    BY <2>2, <2>3, <2>4
<1>3. Table' = Table /\ Drawing' = Drawing
  BY <1>1 DEF Table, Drawing, layout
<1> QED
  BY <1>1, <1>2, <1>3 DEF WindowsInv, TableInv, DragInv, ScreenInv, DragCarriesTheGrabbed, layout

\* What Turn paints of a table h that the prompt makes a of.
Painted(h, a) == IF h.dirty THEN Repainted(h, a, Drawing) ELSE RedrawnContents(h, a, Drawing)

LEMMA TurnIs ==
  ASSUME TableInv, NEW hit \in BOOLEAN, NEW g \in Layouts, NEW o, o.h \in Layouts,
         NEW asked \in BOOLEAN, NEW a \in Layouts, Turn(hit, g, o, asked, a)
  PROVE  /\ Table' = [a EXCEPT !.dirty = (o.h.n = 0 \/ (asked /\ ~ o.h.dirty))] /\ Table' \in Layouts
         /\ wins' = a.wins /\ n' = a.n /\ dragging' = a.dragging /\ was_down' = a.was_down
         /\ dirty' = (o.h.n = 0 \/ (asked /\ ~ o.h.dirty))
         /\ screen' = Painted(o.h, a).screen
         /\ slow' = IF Slow \in Ids(a) \ Ids(o.h) THEN Fresh ELSE Painted(o.h, a).slow
         /\ repaints' = IF o.h.dirty THEN Now ELSE repaints
         /\ lost' = IF o.h.dirty THEN asked \/ (lost /\ slow.seen = Now) ELSE lost
         /\ phase' \in {"poll", "left"}
         /\ meddled' = (hit /\ (a.wins # o.h.wins
                                \/ (was_down /\ (meddled \/ g.wins # wins \/ g.n # n))))
         /\ carried' = IF hit /\ o.h.dragging >= 0 THEN o.h.wins[o.h.dragging].id ELSE 0
         /\ grabbed' = IF ~hit THEN 0 ELSE IF was_down THEN grabbed ELSE o.under
         /\ b_last' = b_down /\ UNCHANGED <<b_down, b_polls, leave>>
<1> DEFINE due == o.h.n = 0 \/ (asked /\ ~ o.h.dirty)
<1>1. /\ wins' = a.wins /\ n' = a.n /\ dragging' = a.dragging /\ grab' = a.grab
      /\ was_down' = a.was_down
  BY Zenon DEF Turn
<1>1a. dirty' = due
  BY Zenon DEF Turn
<1>1b. due \in BOOLEAN
  OBVIOUS
<1> HIDE DEF due
<1>2. Table' = [a EXCEPT !.dirty = due]
  <2>1. a = [wins |-> a.wins, n |-> a.n, dragging |-> a.dragging, grab |-> a.grab,
             was_down |-> a.was_down, dirty |-> a.dirty]
    BY DEF Layouts
  <2> QED
    BY <1>1, <1>1a, <2>1 DEF Table
<1>3. Table' \in Layouts
  <2> DEFINE e == [a EXCEPT !.dirty = due]
  <2>1. e \in [wins : [Records -> Window], n : 0 .. Len(Places), dragging : -1 .. Len(Places) - 1,
               grab : (0 .. WIN_W - 1) \X {0}, was_down : BOOLEAN, dirty : BOOLEAN]
        /\ e.wins = a.wins /\ e.n = a.n
    BY <1>1b DEF Layouts
  <2> HIDE DEF e
  <2>2. e \in Layouts
    BY <2>1 DEF Layouts
  <2> QED
    BY <1>2, <2>2 DEF e
<1>4. /\ screen' = Painted(o.h, a).screen
      /\ slow' = IF Slow \in Ids(a) \ Ids(o.h) THEN Fresh ELSE Painted(o.h, a).slow
  BY Zenon DEF Turn, Painted, Drawing
<1>5. /\ repaints' = IF o.h.dirty THEN Now ELSE repaints
      /\ lost' = IF o.h.dirty THEN asked \/ (lost /\ slow.seen = Now) ELSE lost
  BY Zenon DEF Turn, Now
<1>6. phase' \in {"poll", "left"}
  BY DEF Turn
<1>7. /\ meddled' = (hit /\ (a.wins # o.h.wins
                             \/ (was_down /\ (meddled \/ g.wins # wins \/ g.n # n))))
      /\ carried' = IF hit /\ o.h.dragging >= 0 THEN o.h.wins[o.h.dragging].id ELSE 0
      /\ grabbed' = IF ~hit THEN 0 ELSE IF was_down THEN grabbed ELSE o.under
      /\ b_last' = b_down /\ UNCHANGED <<b_down, b_polls, leave>>
  BY Zenon DEF Turn
<1> QED
  BY <1>1, <1>1a, <1>2, <1>3, <1>4, <1>5, <1>6, <1>7 DEF due

\* The frame's table, before the prompt runs a line: what the desk and the mouse make of it.
Worked(hit, g, o, asked, a) ==
  /\ g \in Layouts /\ Alike(g, Table) /\ (g = Table \/ g.dirty) /\ Ids(g) \subseteq Ids(Table)
  /\ o.h \in Layouts /\ o.h.was_down = hit
  /\ ~ hit => o.h.dragging = -1
  /\ ~ o.h.dirty => o.h.wins = g.wins /\ o.h.n = g.n /\ ~ g.dirty
  /\ hit /\ g.was_down =>
       o.h.dragging = g.dragging /\ \A j \in Records : o.h.wins[j].id = g.wins[j].id
  /\ hit /\ ~ g.was_down /\ o.h.dragging >= 0 => o.h.wins[o.h.dragging].id = o.under
  /\ Ids(o.h) \subseteq Ids(g)
  /\ Alike(a, o.h) /\ a.n >= o.h.n
  /\ ~ asked => a = o.h
  /\ Turn(hit, g, o, asked, a)

LEMMA TableIs ==
  /\ Table.n = n /\ Table.wins = wins /\ Table.dragging = dragging
  /\ Table.was_down = was_down /\ Table.dirty = dirty
  /\ Drawing.screen = screen /\ Drawing.slow = slow
BY DEF Table, Drawing

LEMMA FrameIs ==
  ASSUME WindowsInv, Frame
  PROVE  \E hit \in BOOLEAN, asked \in BOOLEAN : \E g, o, a : Worked(hit, g, o, asked, a)
<1>0. PICK hit \in BOOLEAN, asked \in BOOLEAN : \E g \in BetweenFrames(Table) :
        \E o \in {[h |-> Handle(g, p, hit), under |-> IF was_down THEN 0 ELSE IdUnder(g, p)] :
                    p \in IF hit THEN Cells ELSE {<<0, 0>>}} :
        \E a \in IF asked THEN Asked(o.h) ELSE {o.h} : Turn(hit, g, o, asked, a)
  BY Zenon DEF Frame, Table
<1>1. PICK g \in BetweenFrames(Table) :
        \E o \in {[h |-> Handle(g, p, hit), under |-> IF was_down THEN 0 ELSE IdUnder(g, p)] :
                    p \in IF hit THEN Cells ELSE {<<0, 0>>}} :
        \E a \in IF asked THEN Asked(o.h) ELSE {o.h} : Turn(hit, g, o, asked, a)
  BY <1>0, Zenon
<1>2. PICK o \in {[h |-> Handle(g, p, hit), under |-> IF was_down THEN 0 ELSE IdUnder(g, p)] :
                    p \in IF hit THEN Cells ELSE {<<0, 0>>}} :
        \E a \in IF asked THEN Asked(o.h) ELSE {o.h} : Turn(hit, g, o, asked, a)
  BY <1>1, Zenon
<1>3. PICK a \in IF asked THEN Asked(o.h) ELSE {o.h} : Turn(hit, g, o, asked, a)
  BY <1>2, Zenon
<1>4. PICK p \in Cells : o.h = Handle(g, p, hit) /\ (~ was_down => o.under = IdUnder(g, p))
  <2>1. <<0, 0>> \in Cells
    BY Sizes DEF Cells
  <2> QED
    BY <1>2, <2>1
<1>5. Table \in Layouts
  BY DEF WindowsInv, TableInv
<1>6. g \in Layouts /\ Alike(g, Table) /\ (g = Table \/ g.dirty) /\ Ids(g) \subseteq Ids(Table)
      /\ g.dragging = dragging /\ g.was_down = was_down
  BY <1>5, BetweenLayout, TableIs DEF Alike
<1>7. g.was_down \/ g.dragging = -1
  BY <1>6 DEF WindowsInv, DragInv, Layouts
<1> DEFINE h == o.h
<1>8. /\ h \in Layouts /\ h.was_down = hit
      /\ ~ hit => h.dragging = -1
      /\ ~ h.dirty => h.wins = g.wins /\ h.n = g.n /\ ~ g.dirty
      /\ hit /\ g.was_down =>
           h.dragging = g.dragging /\ \A j \in Records : h.wins[j].id = g.wins[j].id
      /\ hit /\ ~ g.was_down /\ h.dragging >= 0 => h.wins[h.dragging].id = IdUnder(g, p)
      /\ Ids(h) \subseteq Ids(g)
  BY <1>4, <1>6, <1>7, HandleLayout
<1> HIDE DEF h
<1>9. Alike(a, h) /\ a.n >= h.n /\ (~ asked => a = h)
  <2>1. CASE asked
    <3>1. a \in Asked(h)
      BY <1>3, <2>1 DEF h
    <3> QED
      BY <1>8, <2>1, <3>1, AskedLayout
  <2>2. CASE ~ asked
    <3>1. a = h
      BY <1>3, <2>2 DEF h
    <3>2. h.n \in Nat
      BY <1>8, OpenRecords
    <3> QED
      BY <1>8, <3>1, <3>2 DEF Alike
  <2> QED
    BY <2>1, <2>2
<1>10. hit /\ ~ g.was_down /\ h.dragging >= 0 => h.wins[h.dragging].id = o.under
  BY <1>4, <1>6, <1>8
<1>11. Worked(hit, g, o, asked, a)
  BY <1>3, <1>6, <1>8, <1>9, <1>10 DEF Worked, h
<1> QED
  BY <1>11

LEMMA NowIs ==
  ASSUME repaints \in 0 .. WRAP - 1
  PROVE  Now \in 0 .. WRAP - 1 /\ Now # repaints /\ Now # -1
<1>1. WRAP \in Nat /\ WRAP > 1 /\ repaints \in 0 .. WRAP - 1
  BY WindowsAssumption
<1>2. CASE repaints = WRAP - 1
  BY <1>1, <1>2 DEF Now
<1>3. CASE repaints # WRAP - 1
  <2>1. Now = repaints + 1
    BY <1>1, <1>3 DEF Now
  <2> QED
    BY <1>1, <1>3, <2>1
<1> QED
  BY <1>1, <1>2, <1>3

LEMMA FrameWindows == WindowsInv /\ Frame => WindowsInv'
<1> SUFFICES ASSUME WindowsInv, Frame PROVE WindowsInv'
  OBVIOUS
<1>0. PICK hit \in BOOLEAN, asked \in BOOLEAN : \E g, o, a : Worked(hit, g, o, asked, a)
  BY FrameIs
<1>1. PICK g, o, a : Worked(hit, g, o, asked, a)
  BY <1>0
<1> DEFINE h == o.h
<1>3. Table \in Layouts /\ Drawing \in Drawings /\ TableInv /\ repaints \in 0 .. WRAP - 1
  BY DEF WindowsInv, TableInv
<1>4. /\ g \in Layouts /\ g.dragging = dragging /\ g.was_down = was_down
      /\ g = Table \/ g.dirty
      /\ Ids(g) \subseteq Ids(Table)
  BY <1>1, TableIs DEF Worked, Alike
<1>6. /\ h \in Layouts /\ h.was_down = hit
      /\ ~ hit => h.dragging = -1
      /\ ~ h.dirty => h.wins = g.wins /\ h.n = g.n /\ ~ g.dirty
      /\ hit /\ g.was_down =>
           h.dragging = g.dragging /\ \A j \in Records : h.wins[j].id = g.wins[j].id
      /\ hit /\ ~ g.was_down /\ h.dragging >= 0 => h.wins[h.dragging].id = o.under
      /\ Ids(h) \subseteq Ids(g)
  BY <1>1 DEF Worked
<1>6a. /\ a \in Layouts /\ a.dragging = h.dragging /\ a.was_down = h.was_down /\ a.n >= h.n
       /\ ~ asked => a = h
  BY <1>1 DEF Worked, Alike
<1> DEFINE due == h.n = 0 \/ (asked /\ ~ h.dirty)
<1>7. /\ Table' = [a EXCEPT !.dirty = due] /\ Table' \in Layouts
      /\ wins' = a.wins /\ n' = a.n /\ dragging' = a.dragging /\ was_down' = a.was_down
      /\ dirty' = due
      /\ screen' = Painted(h, a).screen
      /\ slow' = IF Slow \in Ids(a) \ Ids(h) THEN Fresh ELSE Painted(h, a).slow
      /\ repaints' = IF h.dirty THEN Now ELSE repaints
      /\ lost' = IF h.dirty THEN asked \/ (lost /\ slow.seen = Now) ELSE lost
      /\ phase' \in {"poll", "left"}
      /\ meddled' = (hit /\ (a.wins # h.wins
                             \/ (was_down /\ (meddled \/ g.wins # wins \/ g.n # n))))
      /\ carried' = IF hit /\ h.dragging >= 0 THEN h.wins[h.dragging].id ELSE 0
      /\ grabbed' = IF ~hit THEN 0 ELSE IF was_down THEN grabbed ELSE o.under
      /\ b_last' = b_down /\ UNCHANGED <<b_down, b_polls, leave>>
  <2>1. Turn(hit, g, o, asked, a)
    BY <1>1 DEF Worked
  <2>2. o.h \in Layouts
    BY <1>6
  <2> QED
    BY <2>1, <2>2, <1>3, <1>4, <1>6a, TurnIs
<1> HIDE DEF h
<1>8. /\ h.n \in Nat /\ a.n \in Nat /\ h.wins \in [Records -> Window]
      /\ h.dirty \in BOOLEAN /\ h.dragging \in -1 .. Len(Places) - 1
  BY <1>6, <1>6a, OpenRecords DEF Layouts
<1>9. DragInv'
  <2>1. ~ was_down' => dragging' = -1
    BY <1>6, <1>6a, <1>7
  <2>2. ~ meddled' /\ hit /\ dragging' >= 0 => h.wins[h.dragging].id = grabbed' /\ wins' = h.wins
    <3> SUFFICES ASSUME ~ meddled', hit, dragging' >= 0
                 PROVE  h.wins[h.dragging].id = grabbed' /\ wins' = h.wins
      OBVIOUS
    <3>0. wins' = h.wins /\ h.dragging >= 0
      BY <1>6a, <1>7
    <3>1. CASE was_down
      <4>1. g.wins = wins /\ ~ meddled /\ grabbed' = grabbed /\ h.dragging = dragging
        BY <1>4, <1>6, <1>7, <3>1
      <4>2. dragging \in Records
        BY <1>8, <3>0, <4>1, Sizes DEF Records
      <4>3. h.wins[dragging].id = wins[dragging].id
        BY <1>4, <1>6, <3>1, <4>1, <4>2
      <4> QED
        BY <3>0, <3>1, <4>1, <4>3 DEF WindowsInv, DragInv
    <3>2. CASE ~ was_down
      BY <1>4, <1>6, <1>7, <3>0, <3>2
    <3> QED
      BY <3>1, <3>2
  <2>3. ~ meddled' => carried' \in {0, grabbed'}
    BY <1>6a, <1>7, <2>2
  <2> QED
    BY <1>6, <1>6a, <1>7, <2>1, <2>2, <2>3 DEF DragInv, DragCarriesTheGrabbed
<1>10. Now \in 0 .. WRAP - 1 /\ repaints \in 0 .. WRAP - 1 /\ Now # repaints /\ Now # -1
  BY <1>3, NowIs
<1>11. /\ Painted(h, a) \in Drawings
       /\ Program # "mandel" => Painted(h, a).slow.seen \in {slow.seen, repaints'}
  <2>1. CASE h.dirty
    BY <1>3, <1>6, <1>6a, <1>7, <2>1, RepaintedIs, TableIs DEF Painted
  <2>2. CASE ~ h.dirty
    BY <1>3, <1>6, <1>6a, <1>7, <2>2, RedrawnIs, TableIs DEF Painted
  <2> QED
    BY <2>1, <2>2
<1>12. /\ Drawing' \in Drawings /\ Drawing'.screen = screen' /\ Drawing'.slow = slow'
  <2>1. slow' \in Slowness /\ screen' \in [Cells -> Shown]
    BY <1>7, <1>11, FreshIs DEF Drawings
  <2> QED
    BY <2>1 DEF Drawing, Drawings
<1>13. TableInv'
  <2>1. /\ Table' \in Layouts /\ Drawing' \in Drawings /\ repaints' \in 0 .. WRAP - 1
        /\ phase' \in {"poll", "frame", "left"}
    BY <1>7, <1>10, <1>12
  <2>2. leave' \in BOOLEAN /\ b_down' \in BOOLEAN /\ b_last' \in BOOLEAN /\ b_polls' \in 0 .. 1
    BY <1>3, <1>7 DEF TableInv
  <2>3. meddled' \in BOOLEAN
    BY <1>7
  <2>4. lost' \in BOOLEAN
    BY <1>3, <1>7 DEF TableInv
  <2> QED
    BY <2>1, <2>2, <2>3, <2>4 DEF TableInv
\* Nothing is due and nothing was lost: nothing was asked for.
<1>14. ~ dirty' => h.n > 0 /\ n' > 0
  <2> SUFFICES ASSUME ~ dirty' PROVE h.n > 0 /\ n' > 0
    OBVIOUS
  <2>1. h.n # 0
    BY <1>7
  <2> QED
    BY <1>6a, <1>7, <1>8, <2>1
<1>15. ~ dirty' /\ ~ lost' => ~ asked /\ a = h
  BY <1>6a, <1>7, <1>8
<1>16. ~ h.dirty => ~ dirty /\ h.wins = wins /\ h.n = n
  BY <1>4, <1>6, TableIs
\* The task has not seen the repaint that is to come, unless one before it was lost.
<1>17. ASSUME Program # "mandel", Slow \in Ids(h), ~ lost PROVE slow.seen \in {-1, repaints}
  BY <1>4, <1>6, <1>17 DEF WindowsInv, ScreenInv
<1>18. ASSUME Program # "mandel", Slow \in Ids(h), h.dirty, ~ lost' PROVE slow.seen # Now
  <2>1. CASE ~ lost
    BY <1>10, <1>17, <1>18, <2>1
  <2>2. CASE lost
    BY <1>7, <1>18, <2>2
  <2> QED
    BY <2>1, <2>2
<1>19. ASSUME ~ dirty', ~ lost'
       PROVE  /\ Layers(h, h.n, screen')
              /\ Program # "mandel" => SlowShown(h, h.n, Drawing', repaints')
  <2>0. a = h /\ slow' = Painted(h, h).slow /\ screen' = Painted(h, h).screen
    BY <1>7, <1>15, <1>19
  <2>00. Drawing' = Painted(h, h)
    BY <1>11, <2>0 DEF Drawing, Drawings
  <2>1. CASE ~ h.dirty
    <3>1. ~ dirty /\ ~ lost /\ h.wins = wins /\ h.n = n
      BY <1>7, <1>16, <1>19, <2>1
    <3>2. /\ Layers(Table, n, screen)
          /\ Program # "mandel" => SlowShown(Table, n, Drawing, repaints)
      BY <3>1 DEF WindowsInv, ScreenInv
    <3>3. /\ Layers(h, h.n, Drawing.screen)
          /\ Program # "mandel" => SlowShown(h, h.n, Drawing, repaints)
      BY <3>1, <3>2, SameTable, TableIs
    <3>4. Painted(h, h) = RedrawnContents(h, h, Drawing) /\ repaints' = repaints
      BY <1>7, <2>1 DEF Painted
    <3> QED
      BY <1>3, <1>6, <2>0, <2>00, <3>3, <3>4, RedrawShows
  <2>2. CASE h.dirty
    <3>1. Painted(h, h) = Repainted(h, h, Drawing) /\ repaints' = Now
      BY <1>7, <2>2 DEF Painted
    <3>2. /\ Layers(h, h.n, Painted(h, h).screen)
          /\ Program # "mandel" /\ slow.seen # Now => SlowShown(h, h.n, Painted(h, h), Now)
      BY <1>3, <1>6, <3>1, RepaintShows, TableIs
    <3>3. Program # "mandel" /\ Slow \in Ids(h) => slow.seen # Now
      BY <1>18, <1>19, <2>2
    <3>4. Slow \notin Ids(h) => SlowShown(h, h.n, Painted(h, h), Now)
      BY DEF Ids, SlowShown
    <3> QED
      BY <2>0, <2>00, <3>1, <3>2, <3>3, <3>4
  <2> QED
    BY <2>1, <2>2
<1>20. ASSUME Program # "mandel", ~ lost', Slow \in Ids(Table') PROVE slow'.seen \in {-1, repaints'}
  <2>0. Slow \in Ids(a)
    <3>1. Table'.wins = a.wins /\ Table'.n = a.n
      BY <1>7 DEF Table
    <3> QED
      BY <1>20, <3>1 DEF Ids
  <2>1. CASE Slow \notin Ids(h)
    BY <1>7, <2>0, <2>1, FreshIs
  <2>2. CASE Slow \in Ids(h) /\ ~ h.dirty
    <3>1. ~ lost /\ repaints' = repaints /\ slow' = Painted(h, a).slow
      BY <1>7, <1>20, <2>2
    <3> QED
      BY <1>11, <1>17, <1>20, <2>2, <3>1
  <2>3. CASE Slow \in Ids(h) /\ h.dirty
    <3>1. ~ asked /\ a = h /\ repaints' = Now
      BY <1>6a, <1>7, <1>20, <2>3
    <3>2. slow' = Painted(h, h).slow /\ Painted(h, h) = Repainted(h, h, Drawing)
      BY <1>7, <2>3, <3>1 DEF Painted
    <3>3. SlowShown(h, h.n, Painted(h, h), Now)
      BY <1>3, <1>6, <1>18, <1>20, <2>3, <3>2, RepaintShows, TableIs
    <3>4. PICK j \in 0 .. h.n - 1 : h.wins[j].id = Slow
      BY <2>3 DEF Ids
    <3> QED
      BY <3>1, <3>2, <3>3, <3>4 DEF SlowShown
  <2> QED
    BY <2>1, <2>2, <2>3
<1>21. ScreenInv'
  <2>1. Table'.wins = a.wins /\ Table'.n = a.n
    BY <1>7 DEF Table
  <2>2. ASSUME ~ dirty', ~ lost'
        PROVE  /\ Layers(Table', n', screen')
               /\ Program # "mandel" => SlowShown(Table', n', Drawing', repaints')
    <3>1. a = h /\ n' = h.n
      BY <1>7, <1>15, <2>2
    <3>2. /\ Layers(h, h.n, screen')
          /\ Program # "mandel" => SlowShown(h, h.n, Drawing', repaints')
      BY <1>19, <2>2
    <3> QED
      BY <2>1, <3>1, <3>2, SameTable
  <2> QED
    BY <1>14, <1>20, <2>2 DEF ScreenInv
<1> QED
  BY <1>9, <1>13, <1>21 DEF WindowsInv

LEMMA NextWindows == WindowsInv /\ [Next]_vars => WindowsInv'
BY LoopWindows, FrameWindows DEF Next

LEMMA WindowsInductive == Spec => []WindowsInv
<1>1. Init => WindowsInv
  BY InitWindows
<1>2. WindowsInv /\ [Next]_vars => WindowsInv'
  BY NextWindows
<1> QED
  BY <1>1, <1>2, PTL DEF Spec

-----------------------------------------------------------------------------
(* What follows from it.                                                   *)

\* The table of windows keeps its shape: every window stays on the screen with all of it,
\* and PRESS, RAISE, CLOSE, DRAG and what the desk does between frames lose none and double none.
THEOREM WindowsTypeOK == Spec => []TypeOK
<1>1. WindowsInv => TypeOK
  <2> SUFFICES ASSUME WindowsInv PROVE TypeOK
    OBVIOUS
  <2>1. TableInv
    BY DEF WindowsInv
  <2>2. /\ wins \in [Records -> Window] /\ n \in 0 .. Len(Places)
        /\ \A i, j \in 0 .. n - 1 : wins[i].id = wins[j].id => i = j
        /\ dragging \in -1 .. Len(Places) - 1 /\ grab \in (0 .. WIN_W - 1) \X {0}
        /\ was_down \in BOOLEAN /\ dirty \in BOOLEAN
    BY <2>1 DEF TableInv, Table, Layouts
  <2>3. slow.row \in 0 .. ROWS
    BY <2>1 DEF TableInv, Drawing, Drawings, Slowness
  <2> QED
    BY <2>1, <2>2, <2>3 DEF TypeOK, TableInv, Window
<1> QED
  BY <1>1, WindowsInductive, PTL

\* Between two frames the screen shows the window in front at every place, though a frame
\* paints only what changed: nothing that REDRAW-CONTENTS leaves out was due.  It is so of a
\* frame that leaves no repaint due and during whose REPAINT no other was asked for.
THEOREM ScreenShowsLayout == Spec => []ScreenIsLayout
<1>1. WindowsInv => ScreenIsLayout
  <2> SUFFICES ASSUME WindowsInv, ~ dirty, ~ lost, NEW c \in Cells
               PROVE  LET i == Topmost(layoutNow, c)
                          w == wins[i]
                      IN IF i < 0 THEN screen[c] = DESK
                         ELSE screen[c] \in IF c \in Bar(w)
                                            THEN {<<w.id, IF i = n - 1 THEN "front" ELSE "behind">>}
                                            ELSE {<<w.id, "panel">>, <<w.id, "picture">>}
    BY DEF ScreenIsLayout
  <2>1. Layers(Table, n, screen) /\ Table \in Layouts /\ Table.wins = wins /\ Table.n = n
    BY DEF WindowsInv, ScreenInv, TableInv, Table
  <2>2. layoutNow.n = n /\ layoutNow.wins = wins /\ n \in Nat
    BY <2>1, OpenRecords DEF layoutNow
  <2> DEFINE i == Topmost(layoutNow, c)
  <2>3. /\ i \in -1 .. n - 1
        /\ i < 0 => \A j \in 0 .. n - 1 : c \notin Rect(wins[j])
        /\ i >= 0 => c \in Rect(wins[i])
        /\ \A j \in i + 1 .. n - 1 : c \notin Rect(wins[j])
    BY <2>2, TopmostIs
  <2> HIDE DEF i
  <2>4. CASE i < 0
    BY <2>1, <2>2, <2>3, <2>4 DEF Layers, Clear, i
  <2>5. CASE i >= 0
    <3>1. i \in 0 .. n - 1 /\ ~ (i < 0)
      BY <2>2, <2>3, <2>5
    <3>2. screen[c] \in Look(wins[i], i = n - 1, c)
      BY <2>1, <2>3, <2>5, <3>1 DEF Layers, Clear
    <3> QED
      BY <3>1, <3>2 DEF Look, Ends, i
  <2> QED
    BY <2>2, <2>3, <2>4, <2>5
<1> QED
  BY <1>1, WindowsInductive, PTL

\* What a task has drawn of its picture stays drawn, or is drawn again, wherever its window
\* is in front: no repaint goes by that it does not see, in whatever number they are counted,
\* unless a line at the prompt changed the table while one ran.
THEOREM TaskKeepsItsPicture ==
  ASSUME Program # "mandel"
  PROVE  Spec => []PictureKept
<1>1. WindowsInv => PictureKept
  <2> SUFFICES ASSUME WindowsInv, ~ dirty, ~ lost, NEW i \in 0 .. n - 1, wins[i].id = Slow,
                      NEW c \in Row(wins[i], 0 .. slow.row - 1), Topmost(layoutNow, c) = i
               PROVE  screen[c] = <<Slow, "picture">>
    BY DEF PictureKept
  <2>1. /\ Table \in Layouts /\ Table.wins = wins /\ Table.n = n
        /\ Drawing.slow = slow /\ Drawing.screen = screen
        /\ SlowShown(Table, n, Drawing, repaints)
    BY DEF WindowsInv, ScreenInv, TableInv, Table, Drawing
  <2>2. layoutNow.n = n /\ layoutNow.wins = wins /\ n \in Nat /\ wins[i] \in Window
    BY <2>1, OpenRecords DEF layoutNow
  <2>3. \A j \in i + 1 .. n - 1 : c \notin Rect(wins[j])
    BY <2>2, TopmostIs
  <2>4. c \in Cells
    BY <2>2, RectCells DEF Client
  <2>5. c \in Clear(Table, i + 1, n)
    BY <2>1, <2>3, <2>4 DEF Clear
  <2> QED
    BY <2>1, <2>5 DEF SlowShown, Drawn
<1> QED
  BY <1>1, WindowsInductive, PTL

\* A drag carries the window that its button went down on, from the press to the release,
\* as long as the desk leaves the table alone.
THEOREM DragCarriesOne == Spec => []DragCarriesTheGrabbed
<1>1. WindowsInv => DragCarriesTheGrabbed
  BY DEF WindowsInv, DragInv
<1> QED
  BY <1>1, WindowsInductive, PTL
=============================================================================
