----------------------------- MODULE Dictionary -----------------------------
(***************************************************************************)
(* The dictionary of src/src/forth.c: words laid down one after another,   *)
(* linked by their headers, taken back by an error in a definition, by     *)
(* FORGET, and by the desktop when an app closes; hidden by LATEST!, and   *)
(* holding what a running app was compiled to.                             *)
(*                                                                         *)
(* Memory is slots: a header (with its link), the code cell, each token or *)
(* datum, and a word's machine code take one each.  Names are left out, so *)
(* FORGET may pick any visible word, and so are the tokens themselves:     *)
(* each slot says which word or string wrote it.                           *)
(***************************************************************************)
EXTENDS Integers, Sequences, FiniteSets, SequencesExt

CONSTANTS
  SIZE,          \* slots
  MARKS,         \* places for marks
  MaxWords,      \* bound: words and strings made in a behaviour
  MaxApps,       \* bound: apps open one inside another
  Inside,        \* whether words are made, hidden or forgotten, or anything fails, between [ and ],
                 \* VARIABLE is used inside a definition, or ] outside one
  ForgetAny,     \* whether FORGET reaches words older than what an app holds
  Unfinished     \* whether apps open, close and keep strings with a definition unfinished

ASSUME DictionaryAssumption ==
  /\ SIZE \in Nat /\ SIZE > 2 /\ MARKS \in Nat \ {0}
  /\ MaxWords \in Nat /\ MaxApps \in Nat
  /\ {Inside, ForgetAny, Unfinished} \subseteq BOOLEAN

VARIABLES
  mem,                          \* what each slot holds
  dp, latest,                   \* forth.c
  state,                        \* forth.c: TRUE while compiling
  def_header, def_prev_latest,  \* forth.c: the definition under construction; 0: none
  marks,                        \* forth.c: marks, nmarks
  apps,                         \* the apps that are open: their marks, and what they hold
  size,                         \* how many slots each word or string took
  whole                         \* those whose definition came to its end

dvars == <<mem, dp, latest, state, def_header, def_prev_latest, marks, apps, size, whole>>

defining == <<state, def_header, def_prev_latest>>

Slots == 1 .. SIZE
Ids   == 0 .. MaxWords        \* 0 is the kernel's
Parts == {"header", "code", "body", "native", "free"}

Slot(id, part, link) == [id |-> id, part |-> part, link |-> link]

\* The kernel's words, as one: FORGET stops at its header.
primitives_end == 1

NoWords ==
  /\ mem = [a \in Slots |->
              CASE a = 1 -> Slot(0, "header", 0) [] a = 2 -> Slot(0, "code", 0)
                [] OTHER -> Slot(0, "free", 0)]
  /\ dp = 3 /\ latest = 1
  /\ state = FALSE /\ def_header = 0 /\ def_prev_latest = 0
  /\ marks = <<>> /\ apps = <<>> /\ size = <<>> /\ whole = {0}

room(n) == dp + n - 1 <= SIZE
NextId  == Len(size) + 1

\* What following the links from a header passes.
ChainFrom ==
  LET c[a \in 0 .. SIZE] ==
        IF a = 0 \/ mem[a].part # "header" THEN {}
        ELSE {a} \cup (IF mem[a].link < a THEN c[mem[a].link] ELSE {})
  IN  c
Chain == ChainFrom[latest]

-----------------------------------------------------------------------------
(* Errors.                                                                 *)

\* Mutant: the definition's space is given back, and it stays linked.
Undo_keeps_latest ==
  /\ IF state /\ def_header # 0 THEN dp' = def_header ELSE UNCHANGED dp
  /\ UNCHANGED latest
  /\ def_header' = 0 /\ state' = FALSE
  /\ UNCHANGED def_prev_latest

\* error(): a failed definition is unlinked and its space reclaimed.
Undo ==
  /\ IF state /\ def_header # 0
       THEN latest' = def_prev_latest /\ dp' = def_header
       ELSE UNCHANGED <<latest, dp>>
  /\ def_header' = 0 /\ state' = FALSE
  /\ UNCHANGED def_prev_latest

Error == Undo /\ UNCHANGED <<mem, marks, apps, size, whole>>

\* The word that tokens are compiled for; none, when ] is used outside a definition.
Host == IF def_header = 0 THEN 0 ELSE mem[def_header].id

\* An error in a compiling word that goes on: what it lays down then lies where the
\* definition began, and is no word's.
Spill ==
  LET at == IF def_header # 0 THEN def_header ELSE dp
  IN  /\ mem' = [mem EXCEPT ![at] = Slot(Host, "body", 0)]
      /\ dp' = at + 1
      /\ latest' = IF def_header # 0 THEN def_prev_latest ELSE latest
      /\ size' = IF Host = 0 THEN size ELSE [size EXCEPT ![Host] = 1]
      /\ whole' = whole \cup {Host}
      /\ def_header' = 0 /\ state' = FALSE
      /\ UNCHANGED <<def_prev_latest, marks, apps>>

-----------------------------------------------------------------------------
(* Words.                                                                  *)

\* A new header with what follows it, as one more word.
Lay(parts) ==
  /\ mem' = [a \in Slots |->
               IF a \in dp .. dp + Len(parts) - 1
                 THEN Slot(NextId, parts[a - dp + 1], IF a = dp THEN latest ELSE 0)
                 ELSE mem[a]]
  /\ dp' = dp + Len(parts)
  /\ size' = Append(size, Len(parts))

\* Whether a word may be made, hidden or forgotten now.
Tidy == Inside \/ def_header = 0

Header == <<"header", "code", "body">>

Colon ==
  /\ ~state /\ Tidy /\ room(Len(Header)) /\ NextId <= MaxWords
  /\ Lay(<<"header", "code">>)
  /\ latest' = dp
  /\ def_prev_latest' = latest /\ def_header' = dp /\ state' = TRUE
  /\ UNCHANGED <<marks, apps, whole>>

\* VARIABLE, CONSTANT, CREATE: at once, even while compiling.
Variable ==
  /\ Tidy /\ room(Len(Header)) /\ NextId <= MaxWords
  /\ Lay(Header)
  /\ latest' = dp
  /\ whole' = whole \cup {NextId}
  /\ UNCHANGED <<defining, marks, apps>>

Grow(parts) ==
  /\ mem' = [a \in Slots |->
               IF a \in dp .. dp + Len(parts) - 1
                 THEN Slot(Host, parts[a - dp + 1], 0) ELSE mem[a]]
  /\ dp' = dp + Len(parts)
  /\ size' = IF Host = 0 THEN size ELSE [size EXCEPT ![Host] = @ + Len(parts)]

Compile ==
  /\ state /\ room(1)
  /\ Grow(<<"body">>)
  /\ UNCHANGED <<latest, defining, marks, apps, whole>>

\* EXIT, and then machine code, if there is room for it.
Semi ==
  /\ state /\ room(1)
  /\ Grow(IF room(2) /\ Host # 0 THEN <<"body", "native">> ELSE <<"body">>)
  /\ whole' = whole \cup {Host}
  /\ def_header' = 0 /\ state' = FALSE
  /\ UNCHANGED <<latest, def_prev_latest, marks, apps>>

\* A word that does not exist, a second colon, a full dictionary: whatever goes wrong.
Fails == (Inside \/ state \/ def_header = 0) /\ Error

Bracket ==
  /\ Inside \/ def_header # 0
  /\ state' = ~state
  /\ UNCHANGED <<mem, dp, latest, def_header, def_prev_latest, marks, apps, size, whole>>

\* A line may end in the middle of a definition, and the desktop is one key away.
Settled == Unfinished \/ (~state /\ def_header = 0)

Held == UNION {apps[i].held : i \in DOMAIN apps}

\* Whether a program's user may be expected to forget h: it is no older than an open
\* app's own words, or what an app holds.
Recent(h) ==
  /\ \A i \in DOMAIN apps : h >= apps[i].dp
  /\ \A a \in Slots : mem[a].id \in Held /\ mem[a].part # "free" => a < h

\* Mutant: the space is reclaimed, and the word stays linked.
Forget_keeps_latest ==
  /\ ~state /\ Tidy
  /\ \E h \in Chain \ {primitives_end} :
       /\ ForgetAny \/ Recent(h)
       /\ dp' = h
  /\ UNCHANGED <<latest, mem, defining, marks, apps, size, whole>>

Forget ==
  /\ ~state /\ Tidy
  /\ \E h \in Chain \ {primitives_end} :
       /\ ForgetAny \/ Recent(h)
       /\ latest' = mem[h].link /\ dp' = h
  /\ UNCHANGED <<mem, defining, marks, apps, size, whole>>

-----------------------------------------------------------------------------
(* Apps.                                                                   *)

\* The app that runs holds these too.
Holding(ids) ==
  IF apps = <<>> THEN apps
  ELSE [apps EXCEPT ![Len(apps)].held = @ \cup ids]

\* Mutant: what is hidden is freed.
Hide_frees ==
  /\ ~state /\ Tidy
  /\ \E h \in Chain :
       /\ latest' = h
       /\ dp' = IF h = latest THEN dp ELSE CHOOSE a \in Chain : mem[a].link = h
       /\ apps' = Holding({mem[a].id : a \in Chain \ ChainFrom[h]} \cap whole)
  /\ UNCHANGED <<mem, defining, marks, size, whole>>

\* LATEST!, as OPEN uses it: the words that came after h are hidden, and are the app's.
Hide ==
  /\ ~state /\ Tidy
  /\ \E h \in Chain :
       /\ latest' = h
       /\ apps' = Holding({mem[a].id : a \in Chain \ ChainFrom[h]} \cap whole)
  /\ UNCHANGED <<mem, dp, defining, marks, size, whole>>

\* desk.fth, KEEP: a string of the running app's, in the dictionary.
Keep ==
  /\ apps # <<>> /\ room(1) /\ NextId <= MaxWords
  /\ Settled
  /\ mem' = [mem EXCEPT ![dp] = Slot(NextId, "body", 0)]
  /\ dp' = dp + 1
  /\ size' = Append(size, 1) /\ whole' = whole \cup {NextId}
  /\ apps' = Holding({NextId})
  /\ UNCHANGED <<latest, defining, marks>>

\* forth_mark: the oldest makes way.
Mark ==
  Append(IF Len(marks) = MARKS THEN Tail(marks) ELSE marks, [latest |-> latest, dp |-> dp])

AppOpen ==
  /\ Len(apps) < MaxApps /\ Settled
  /\ marks' = Mark
  /\ apps' = Append(apps, [mark |-> latest, dp |-> dp, held |-> {}])
  /\ UNCHANGED <<mem, dp, latest, defining, size, whole>>

\* Where the word at h ends, its machine code not counted.
EndOf(h) ==
  1 + CHOOSE a \in h .. SIZE :
        /\ \A b \in h .. a : mem[b].id = mem[h].id /\ mem[b].part \notin {"native", "free"}
        /\ a = SIZE \/ mem[a + 1].id # mem[h].id \/ mem[a + 1].part \in {"native", "free"}

\* Mutant: the mark is found, and where the dictionary ended is not put back.
Release_keeps_dp(mark) ==
  LET found == {i \in DOMAIN marks : marks[i].latest = mark}
  IN  IF found # {}
        THEN LET i == CHOOSE n \in found : \A k \in found : k <= n
             IN  latest' = mark /\ marks' = SubSeq(marks, 1, i - 1) /\ UNCHANGED dp
        ELSE UNCHANGED <<dp, latest, marks>>

\* forth_release: to the newest mark of that word, or, when it made way, to the word.
Release(mark) ==
  LET found == {i \in DOMAIN marks : marks[i].latest = mark}
  IN  IF found # {}
        THEN LET i == CHOOSE n \in found : \A k \in found : k <= n
             IN  latest' = mark /\ dp' = marks[i].dp /\ marks' = SubSeq(marks, 1, i - 1)
      ELSE IF mark \in Chain
        THEN latest' = mark /\ dp' = EndOf(mark) /\ UNCHANGED marks
      ELSE UNCHANGED <<dp, latest, marks>>

AppClose ==
  /\ apps # <<>> /\ Settled
  /\ Release(Last(apps).mark)
  /\ apps' = Front(apps)
  /\ UNCHANGED <<mem, defining, size, whole>>

-----------------------------------------------------------------------------
(* Properties.                                                             *)

\* What the variables hold.
WordsTypeOK ==
  /\ mem \in [Slots -> [id : Ids, part : Parts, link : 0 .. SIZE]]
  /\ dp \in 3 .. SIZE + 1 /\ latest \in Slots
  /\ state \in BOOLEAN /\ def_header \in 0 .. SIZE /\ def_prev_latest \in 0 .. SIZE
  /\ marks \in Seq([latest : Slots, dp : Slots \cup {SIZE + 1}]) /\ Len(marks) <= MARKS
  /\ apps \in Seq([mark : Slots, dp : Slots \cup {SIZE + 1}, held : SUBSET Ids])
  /\ size \in Seq(Nat) /\ whole \subseteq Ids

\* Everything a word or a string was made of is where it was put, and not free to be
\* put elsewhere.
Intact(id) ==
  id = 0 \/ Cardinality({a \in Slots : a < dp /\ mem[a].id = id}) = size[id]

\* The links lead from the newest word, through words that nothing was laid over, to the
\* kernel's; and a word that can be found is the one under construction or has its EXIT.
ChainIsSound ==
  /\ primitives_end \in Chain
  /\ \A h \in Chain : h < dp /\ Intact(mem[h].id)
  /\ \A h \in Chain : mem[h].id \in whole \/ h = def_header

\* What a running app was compiled to, and the strings it keeps, stay in memory.
HeldStays == \A id \in Held : Intact(id)

\* Why these hold and the next one too, as one inductive invariant, where Inside,
\* ForgetAny and Unfinished are FALSE and no mark makes way for another.  No word or
\* string lies on both sides of d;
Boundary(d) ==
  /\ d <= dp
  /\ \A a, b \in Slots : a < d /\ d <= b /\ b < dp => mem[a].id # mem[b].id

\* what is below dp is whole, and its headers are linked downwards, to the kernel's;
Headers == {a \in Slots : a < dp /\ mem[a].part = "header"}

LaidDown ==
  /\ mem[1] = Slot(0, "header", 0) /\ mem[2] = Slot(0, "code", 0) /\ latest \in Headers
  /\ \A a \in Slots : a < dp =>
       mem[a].part # "free" /\ mem[a].id <= Len(size) /\ Intact(mem[a].id)
  /\ \A h \in Headers :
       /\ Boundary(h)
       /\ h # primitives_end => mem[h].link \in Headers /\ mem[h].link < h

\* only the newest word is ever unfinished, and all that came after its header is its own;
OneUnfinished ==
  /\ state => def_header # 0
  /\ def_header # 0 =>
       /\ latest = def_header /\ def_header # primitives_end
       /\ def_prev_latest = mem[def_header].link /\ Host \notin whole
       /\ \A a \in Slots : def_header < a /\ a < dp => mem[a].id = Host /\ a \notin Headers
  /\ \A h \in Headers : mem[h].id \in whole \/ h = def_header
  /\ whole \subseteq 0 .. Len(size)

\* and each open app has its mark, from before all that came after it.
AppsNested ==
  /\ Len(marks) = Len(apps)
  /\ \A i \in DOMAIN apps :
       /\ marks[i] = [latest |-> apps[i].mark, dp |-> apps[i].dp]
       /\ Boundary(apps[i].dp) /\ apps[i].mark \in Headers /\ apps[i].mark < apps[i].dp
       /\ def_header # 0 => apps[i].dp <= def_header
       /\ apps[i].held \subseteq whole
       /\ \A j \in DOMAIN apps : i < j =>
            /\ apps[i].dp <= apps[j].dp
            /\ \A a \in Slots : a < dp /\ mem[a].id \in apps[i].held => a < apps[j].dp

WordsInv == WordsTypeOK /\ LaidDown /\ OneUnfinished /\ AppsNested /\ HeldStays

\* A release puts the dictionary back exactly where it was (forth.c).
GivesBack ==
  [][AppClose => dp' = Last(apps).dp /\ latest' = Last(apps).mark]_dvars
=============================================================================
