--------------------------- MODULE CompilerProofs ---------------------------
(***************************************************************************)
(* WordsInv is inductive, so whatever is defined, fails, is forgotten or   *)
(* hidden, and whichever apps open and close, every word that can be found *)
(* is whole, what an app holds stays in memory, and closing an app puts    *)
(* the dictionary back: for every size of memory, number of words and      *)
(* depth of apps, where Inside, ForgetAny and Unfinished are FALSE and     *)
(* there is a mark for every app that is open.  And FlowInv is: a well     *)
(* nested definition of any length compiles to what it means.              *)
(***************************************************************************)
EXTENDS Compiler, NumberLemmas, FiniteSetTheorems

-----------------------------------------------------------------------------
(* The chain of headers.  ChainFrom is a CHOOSE to the provers.            *)

IsChain(c, n) ==
  c = [a \in 0 .. n |->
         IF a = 0 \/ mem[a].part # "header" THEN {}
         ELSE {a} \cup (IF mem[a].link < a THEN c[mem[a].link] ELSE {})]

LinksType == mem \in [Slots -> [id : Ids, part : Parts, link : 0 .. SIZE]]

LEMMA ChainExists == ASSUME LinksType PROVE \A n \in 0 .. SIZE : \E c : IsChain(c, n)
<1> DEFINE Bad == {n \in 0 .. SIZE : ~ \E c : IsChain(c, n)}
           m == Min(Bad)
<1> SUFFICES ASSUME Bad # {} PROVE FALSE
  OBVIOUS
<1>0. SIZE \in Nat
  BY DictionaryAssumption
<1>1. m \in Bad /\ \A n \in Bad : m <= n
  <2>1. Bad \in SUBSET Nat
    BY <1>0
  <2> HIDE DEF Bad
  <2> QED
    BY <2>1, MinIsLeast
<1> HIDE DEF m
<1>2. m \in 0 .. SIZE /\ ~ \E c : IsChain(c, m)
  BY <1>1
<1>3. CASE m = 0
  <2> DEFINE e == [a \in 0 .. 0 |-> {}]
  <2>1. e = [a \in 0 .. 0 |->
               IF a = 0 \/ mem[a].part # "header" THEN {}
               ELSE {a} \cup (IF mem[a].link < a THEN e[mem[a].link] ELSE {})]
    OBVIOUS
  <2>2. IsChain(e, 0)
    BY <2>1 DEF IsChain
  <2> QED
    BY <1>2, <1>3, <2>2
<1>4. CASE m # 0
  <2>1. m - 1 \in 0 .. SIZE /\ m - 1 \notin Bad
    BY <1>0, <1>1, <1>2, <1>4
  <2>2. PICK h : IsChain(h, m - 1)
    BY <2>1
  <2> DEFINE new == IF mem[m].part # "header" THEN {}
                    ELSE {m} \cup (IF mem[m].link < m THEN h[mem[m].link] ELSE {})
             g == [a \in 0 .. m |-> IF a < m THEN h[a] ELSE new]
  <2>3. ASSUME NEW a \in 0 .. m
        PROVE  g[a] = IF a = 0 \/ mem[a].part # "header" THEN {}
                      ELSE {a} \cup (IF mem[a].link < a THEN g[mem[a].link] ELSE {})
    <3>1. a # 0 => mem[a].link \in 0 .. SIZE
      BY <1>0, <1>2 DEF LinksType, Slots
    <3>2. a # 0 /\ mem[a].link < a => g[mem[a].link] = h[mem[a].link]
      BY <1>0, <1>2, <3>1
    <3>3. CASE a < m
      <4>1. a \in 0 .. m - 1 /\ g[a] = h[a]
        BY <1>2, <3>3
      <4>2. h[a] = IF a = 0 \/ mem[a].part # "header" THEN {}
                   ELSE {a} \cup (IF mem[a].link < a THEN h[mem[a].link] ELSE {})
        BY <2>2, <4>1 DEF IsChain
      <4> QED
        BY <3>2, <4>1, <4>2
    <3>4. CASE a = m
      <4>1. g[m] = new
        BY <1>2
      <4> HIDE DEF g
      <4> QED
        BY <1>2, <1>4, <3>2, <3>4, <4>1
    <3> QED
      BY <1>2, <3>3, <3>4
  <2>4. g = [a \in 0 .. m |-> g[a]]
    OBVIOUS
  <2> HIDE DEF g
  <2>5. IsChain(g, m)
    BY <2>3, <2>4 DEF IsChain
  <2> QED
    BY <1>2, <2>5
<1> QED
  BY <1>3, <1>4

\* One link after another,
LEMMA ChainSteps ==
  ASSUME LinksType, NEW a \in 0 .. SIZE
  PROVE  ChainFrom[a] = IF a = 0 \/ mem[a].part # "header" THEN {}
                        ELSE {a} \cup (IF mem[a].link < a THEN ChainFrom[mem[a].link] ELSE {})
<1> DEFINE c == CHOOSE c : IsChain(c, SIZE)
<1>1. SIZE \in 0 .. SIZE
  BY DictionaryAssumption
<1>2. IsChain(c, SIZE)
  BY <1>1, ChainExists, Zenon
<1>3. ChainFrom = c
  BY Zenon DEF ChainFrom, IsChain
<1> HIDE DEF c
<1> QED
  BY <1>2, <1>3 DEF IsChain

\* down to the kernel's.
LEMMA ChainDown ==
  ASSUME LinksType, LaidDown, NEW a \in Headers
  PROVE  /\ ChainFrom[a] \subseteq Headers /\ a \in ChainFrom[a]
         /\ primitives_end \in ChainFrom[a] /\ \A b \in ChainFrom[a] : b <= a
<1> DEFINE Good(b) == /\ ChainFrom[b] \subseteq Headers /\ b \in ChainFrom[b]
                      /\ primitives_end \in ChainFrom[b] /\ \A d \in ChainFrom[b] : d <= b
           Bad == {b \in Headers : ~ Good(b)}
           m == Min(Bad)
<1> SUFFICES ASSUME Bad # {} PROVE FALSE
  BY DEF Good
<1> HIDE DEF Good
<1>0. SIZE \in Nat /\ SIZE > 2 /\ Headers \subseteq Slots /\ Slots \subseteq Nat
  BY DictionaryAssumption DEF Headers, Slots
<1>1. m \in Bad /\ \A n \in Bad : m <= n
  <2>1. Bad \in SUBSET Nat
    BY <1>0
  <2> HIDE DEF Bad
  <2> QED
    BY <2>1, MinIsLeast
<1> HIDE DEF m
<1>2. m \in Headers /\ m \in Slots /\ m \in 0 .. SIZE /\ m # 0 /\ mem[m].part = "header" /\ ~ Good(m)
  BY <1>0, <1>1 DEF Headers, Slots
<1>3. ChainFrom[m] = {m} \cup (IF mem[m].link < m THEN ChainFrom[mem[m].link] ELSE {})
  BY <1>2, ChainSteps
<1>4. CASE m = primitives_end
  <2>1. mem[m].link = 0 /\ 0 \in 0 .. SIZE
    BY <1>0, <1>4 DEF LaidDown, Slot, primitives_end
  <2>2. ChainFrom[0] = {}
    BY <2>1, ChainSteps
  <2> QED
    BY <1>2, <1>3, <1>4, <2>1, <2>2 DEF Good, primitives_end
<1>5. CASE m # primitives_end
  <2>1. mem[m].link \in Headers /\ mem[m].link < m
    BY <1>2, <1>5 DEF LaidDown
  <2>2. mem[m].link \in Nat /\ m \in Nat
    BY <1>0, <1>2, <2>1
  <2>3. Good(mem[m].link)
    BY <1>1, <2>1, <2>2
  <2>4. \A d \in ChainFrom[mem[m].link] : d \in Nat
    BY <1>0, <2>3 DEF Good
  <2> QED
    BY <1>2, <1>3, <2>1, <2>2, <2>3, <2>4 DEF Good
<1> QED
  BY <1>4, <1>5

\* A word that can be found is whole and is finished, unless it is the one being made.
LEMMA InvGivesChain == WordsInv => ChainIsSound
<1> SUFFICES ASSUME WordsInv PROVE ChainIsSound
  OBVIOUS
<1>1. LinksType /\ LaidDown /\ latest \in Headers /\ latest \in 0 .. SIZE
  BY DictionaryAssumption
  DEF WordsInv, WordsTypeOK, LinksType, LaidDown, Slots
<1>2. Chain \subseteq Headers /\ primitives_end \in Chain
  BY <1>1, ChainDown DEF Chain
<1> QED
  BY <1>2 DEF ChainIsSound, WordsInv, LaidDown, OneUnfinished, Headers

-----------------------------------------------------------------------------
(* Memory that is given back, and memory that is laid down.                *)

Under(id) == {a \in Slots : a < dp /\ mem[a].id = id}

LEMMA SlotFacts ==
  /\ SIZE \in Nat /\ SIZE > 2 /\ Slots \subseteq Nat /\ 1 \in Slots /\ 2 \in Slots
  /\ \A S \in SUBSET Slots : IsFiniteSet(S) /\ Cardinality(S) \in Nat
<1>1. SIZE \in Nat /\ SIZE > 2
  BY DictionaryAssumption
<1>2. IsFiniteSet(Slots)
  BY <1>1, FS_Interval DEF Slots
<1>3. ASSUME NEW S \in SUBSET Slots
      PROVE  IsFiniteSet(S) /\ Cardinality(S) \in Nat
  BY <1>2, <1>3, FS_Subset, FS_CardinalityType
<1> QED
  BY <1>1, <1>3 DEF Slots

LEMMA AppFacts ==
  ASSUME WordsTypeOK, NEW i \in DOMAIN apps
  PROVE  /\ i \in 1 .. Len(apps) /\ apps[i].dp \in Nat /\ apps[i].mark \in Slots
         /\ apps[i].dp \in Slots \cup {SIZE + 1} /\ apps[i].held \subseteq Ids
<1> DEFINE App == [mark : Slots, dp : Slots \cup {SIZE + 1}, held : SUBSET Ids]
<1>1. apps \in Seq(App)
  BY DEF WordsTypeOK
<1>2. i \in 1 .. Len(apps) /\ apps[i] \in App
  <2> HIDE DEF App
  <2> QED
    BY <1>1
<1>3. Slots \cup {SIZE + 1} \subseteq Nat
  BY SlotFacts
<1> QED
  BY <1>2, <1>3

\* What has the slots it had is as whole as it was.
LEMMA IntactStays ==
  ASSUME NEW id, Under(id)' = Under(id), size'[id] = size[id]
  PROVE  Intact(id)' <=> Intact(id)
BY DEF Intact, Under

\* Giving back what is above d, where nothing lies across, leaves what is below as it was.
LEMMA GivenBack ==
  ASSUME WordsTypeOK, LaidDown, UNCHANGED <<mem, size>>,
         Boundary(dp'), dp' \in 3 .. dp, latest' \in Headers, latest' < dp'
  PROVE  /\ LaidDown'
         /\ Headers' = {h \in Headers : h < dp'}
         /\ \A e \in Nat : Boundary(e) /\ e <= dp' => Boundary(e)'
         /\ \A id : (\A a \in Slots : a < dp /\ mem[a].id = id => a < dp')
              => (Intact(id)' <=> Intact(id))
<1>0. dp \in Nat /\ dp' \in Nat /\ dp' <= dp /\ mem' = mem /\ size' = size /\ Slots \subseteq Nat
  BY SlotFacts DEF WordsTypeOK
<1>1. Headers' = {h \in Headers : h < dp'}
  <2>1. \A a : a \in Headers <=> a \in Slots /\ a < dp /\ mem[a].part = "header"
    BY DEF Headers
  <2>2. \A a : a \in Headers' <=> a \in Slots /\ a < dp' /\ mem[a].part = "header"
    BY <1>0 DEF Headers
  <2>3. \A a \in Slots : a < dp' => a < dp
    BY <1>0
  <2> QED
    BY <2>1, <2>2, <2>3
<1>2. ASSUME NEW e \in Nat, Boundary(e), e <= dp'
      PROVE  Boundary(e)'
  BY <1>0, <1>2 DEF Boundary
<1>3. ASSUME NEW id, \A a \in Slots : a < dp /\ mem[a].id = id => a < dp'
      PROVE  Intact(id)' <=> Intact(id)
  <2>1. Under(id)' = Under(id)
    <3>1. \A a : a \in Under(id) <=> a \in Slots /\ a < dp /\ mem[a].id = id
      BY DEF Under
    <3>2. \A a : a \in Under(id)' <=> a \in Slots /\ a < dp' /\ mem[a].id = id
      BY <1>0 DEF Under
    <3>3. \A a \in Slots : a < dp' => a < dp
      BY <1>0
    <3> QED
      BY <1>3, <3>1, <3>2, <3>3
  <2> QED
    BY <1>0, <2>1, IntactStays
<1>4. ASSUME NEW a \in Slots, a < dp'
      PROVE  /\ mem[a].part # "free" /\ mem[a].id <= Len(size)
             /\ Intact(mem[a].id)'
  <2> PICK id : id = mem[a].id
    OBVIOUS
  <2>1. mem[a].part # "free" /\ mem[a].id <= Len(size) /\ Intact(mem[a].id)
    BY <1>0, <1>4 DEF LaidDown
  <2>2. \A b \in Slots : b < dp /\ mem[b].id = id => b < dp'
    BY <1>0, <1>4 DEF Boundary
  <2>3. Intact(id)' <=> Intact(id)
    BY <1>3, <2>2
  <2>4. Intact(id)'
    BY <2>1, <2>3
  <2> QED
    BY <1>0, <2>1, <2>4 DEF Intact
<1>5. ASSUME NEW h \in Headers, h < dp'
      PROVE  /\ Boundary(h)'
             /\ h # primitives_end => mem[h].link \in Headers' /\ mem[h].link < h
  <2>1. h \in Nat /\ Boundary(h) /\ (h # primitives_end => mem[h].link \in Headers /\ mem[h].link < h)
    BY <1>0 DEF LaidDown, Headers
  <2>2. Headers \subseteq Nat
    BY <1>0 DEF Headers
  <2>3. h <= dp' /\ Boundary(h)'
    BY <1>0, <1>2, <1>5, <2>1
  <2>4. ASSUME h # primitives_end
        PROVE  mem[h].link \in Headers' /\ mem[h].link < h
    <3>1. mem[h].link \in Headers /\ mem[h].link < h /\ mem[h].link \in Nat
      BY <2>1, <2>2, <2>4
    <3>2. mem[h].link < dp'
      BY <1>0, <1>5, <2>1, <3>1
    <3> QED
      BY <1>1, <3>1, <3>2
  <2> QED
    BY <2>3, <2>4
<1>6. LaidDown'
  BY <1>0, <1>1, <1>4, <1>5 DEF LaidDown
<1> QED
  BY <1>1, <1>2, <1>3, <1>6

\* What all of it has in common: something is given back, and nothing held or finished
\* was in it, but what the apps that close had.
GiveBack ==
  /\ mem' = mem /\ size' = size /\ whole' = whole
  /\ ~state' /\ def_header' = 0
  /\ dp' <= dp /\ Boundary(dp') /\ latest' \in Headers /\ latest' < dp'
  /\ \A h \in Headers : h < dp' => mem[h].id \in whole
  /\ Len(marks') = Len(apps')
  /\ \A i \in DOMAIN apps' :
       /\ i \in DOMAIN apps /\ apps'[i] = apps[i] /\ marks'[i] = marks[i]
       /\ apps[i].dp <= dp'
       /\ \A a \in Slots : a < dp /\ mem[a].id \in apps[i].held => a < dp'

LEMMA GiveBackKeeps ==
  ASSUME WordsInv, WordsTypeOK', GiveBack
  PROVE  WordsInv'
<1>0. /\ WordsTypeOK /\ LaidDown /\ OneUnfinished /\ AppsNested /\ HeldStays
      /\ dp \in Nat /\ dp' \in Nat /\ dp' \in 3 .. dp /\ dp' <= dp /\ Slots \subseteq Nat
      /\ mem' = mem /\ size' = size /\ whole' = whole /\ ~state' /\ def_header' = 0
  <2>1. WordsTypeOK /\ LaidDown /\ OneUnfinished /\ AppsNested /\ HeldStays
    BY DEF WordsInv
  <2>2. /\ dp' <= dp /\ mem' = mem /\ size' = size /\ whole' = whole
        /\ ~state' /\ def_header' = 0
    BY DEF GiveBack
  <2>3. dp \in 3 .. SIZE + 1 /\ dp' \in 3 .. SIZE + 1
    BY <2>1 DEF WordsTypeOK
  <2> QED
    BY SlotFacts, <2>1, <2>2, <2>3
<1>1. /\ LaidDown'
      /\ Headers' = {h \in Headers : h < dp'}
      /\ \A e \in Nat : Boundary(e) /\ e <= dp' => Boundary(e)'
      /\ \A id : (\A a \in Slots : a < dp /\ mem[a].id = id => a < dp')
           => (Intact(id)' <=> Intact(id))
  <2>1. UNCHANGED <<mem, size>> /\ Boundary(dp') /\ latest' \in Headers /\ latest' < dp'
    BY DEF GiveBack
  <2> QED
    BY <1>0, <2>1, GivenBack, Zenon
<1>2. OneUnfinished'
  <2>1. whole \subseteq 0 .. Len(size)
    BY <1>0 DEF OneUnfinished
  <2>2. \A h \in Headers' : mem[h].id \in whole
    BY <1>1 DEF GiveBack
  <2> QED
    BY <1>0, <2>1, <2>2 DEF OneUnfinished
<1>3. ASSUME NEW i \in DOMAIN apps'
      PROVE  /\ i \in DOMAIN apps /\ apps'[i] = apps[i] /\ marks'[i] = marks[i]
             /\ apps[i].dp <= dp' /\ apps[i].dp \in Nat
             /\ \A a \in Slots : a < dp /\ mem[a].id \in apps[i].held => a < dp'
  <2>1. i \in DOMAIN apps
    BY DEF GiveBack
  <2>2. apps[i].dp \in Nat
    BY <1>0, <2>1, AppFacts
  <2> QED
    BY <2>2 DEF GiveBack
<1>4. AppsNested'
  <2>1. Len(marks') = Len(apps')
    BY DEF GiveBack
  <2>2. ASSUME NEW i \in DOMAIN apps'
        PROVE  /\ marks'[i] = [latest |-> apps'[i].mark, dp |-> apps'[i].dp]
               /\ apps'[i].held \subseteq whole'
               /\ apps'[i].mark \in Headers' /\ apps'[i].mark < apps'[i].dp
    <3>1. /\ marks[i] = [latest |-> apps[i].mark, dp |-> apps[i].dp]
          /\ apps[i].held \subseteq whole
          /\ apps[i].mark \in Headers /\ apps[i].mark < apps[i].dp
      BY <1>0, <1>3 DEF AppsNested
    <3>2. apps[i].mark \in Nat
      BY <1>0, <3>1 DEF Headers
    <3>3. apps[i].mark < dp'
      BY <1>0, <1>3, <3>1, <3>2
    <3> QED
      BY <1>0, <1>1, <1>3, <3>1, <3>3
  <2>3. ASSUME NEW i \in DOMAIN apps'
        PROVE  Boundary(apps[i].dp)'
    <3> PICK e : e = apps[i].dp
      OBVIOUS
    <3>1. Boundary(e) /\ e \in Nat /\ e <= dp'
      BY <1>0, <1>3 DEF AppsNested
    <3>2. Boundary(e)'
      BY <1>1, <3>1
    <3> QED
      BY <1>3, <3>2 DEF Boundary
  <2>4. ASSUME NEW i \in DOMAIN apps', NEW j \in DOMAIN apps', i < j
        PROVE  /\ apps'[i].dp <= apps'[j].dp
               /\ \A a \in Slots : a < dp' /\ mem'[a].id \in apps'[i].held => a < apps'[j].dp
    <3>1. /\ apps[i].dp <= apps[j].dp
          /\ \A a \in Slots : a < dp /\ mem[a].id \in apps[i].held => a < apps[j].dp
      BY <1>0, <1>3, <2>4 DEF AppsNested
    <3> QED
      BY <1>0, <1>3, <3>1
  <2> QED
    BY <1>0, <2>1, <2>2, <2>3, <2>4 DEF AppsNested
<1>5. HeldStays'
  <2> SUFFICES ASSUME NEW i \in DOMAIN apps', NEW id \in apps'[i].held
               PROVE  Intact(id)'
    BY DEF HeldStays, Held
  <2>1. id \in apps[i].held /\ i \in DOMAIN apps
    BY <1>3
  <2>2. Intact(id)
    BY <1>0, <2>1 DEF HeldStays, Held
  <2>3. \A a \in Slots : a < dp /\ mem[a].id = id => a < dp'
    BY <1>3, <2>1
  <2> QED
    BY <1>1, <2>2, <2>3
<1> QED
  BY <1>1, <1>2, <1>4, <1>5 DEF WordsInv

\* n gets the k slots from dp on.
Laid(n, k) ==
  /\ dp' = dp + k /\ dp' <= SIZE + 1
  /\ \A a \in Slots : a < dp => mem'[a] = mem[a]
  /\ \A a \in Slots : dp <= a /\ a < dp' => mem'[a].id = n /\ mem'[a].part # "free"

\* Nothing else has more slots than it had, or fewer; and nothing lies across a boundary
\* but what had slots below it.
LEMMA LaidOut ==
  ASSUME WordsTypeOK, NEW n, NEW k \in 1 .. 3, Laid(n, k)
  PROVE  /\ \A id : id # n => Under(id)' = Under(id)
         /\ Cardinality(Under(n)') = Cardinality(Under(n)) + k
         /\ \A e \in Nat : Boundary(e) /\ (\A a \in Slots : a < e => mem[a].id # n) => Boundary(e)'
         /\ Headers' = Headers \cup {a \in Slots : dp <= a /\ a < dp' /\ mem'[a].part = "header"}
<1>0. /\ dp \in Nat /\ 3 <= dp /\ dp' \in Nat /\ dp < dp' /\ Slots \subseteq Nat
      /\ dp' = dp + k /\ dp' <= SIZE + 1 /\ SIZE \in Nat
      /\ \A a \in Slots : a < dp => mem'[a] = mem[a]
      /\ \A a \in Slots : dp <= a /\ a < dp' => mem'[a].id = n
  <2>1. dp \in 3 .. SIZE + 1
    BY DEF WordsTypeOK
  <2>2. /\ dp' = dp + k /\ dp' <= SIZE + 1
        /\ \A a \in Slots : a < dp => mem'[a] = mem[a]
        /\ \A a \in Slots : dp <= a /\ a < dp' => mem'[a].id = n
    BY DEF Laid
  <2>3. SIZE \in Nat /\ Slots \subseteq Nat
    BY SlotFacts
  <2>4. dp \in Nat /\ 3 <= dp /\ dp' \in Nat /\ dp < dp'
    BY <2>1, <2>2, <2>3
  <2> QED
    BY <2>2, <2>3, <2>4
<1>1. \A a \in Slots : (a < dp => a < dp') /\ (a < dp' => a < dp \/ dp <= a)
  <2>1. dp \in Nat /\ dp' \in Nat /\ dp < dp' /\ Slots \subseteq Nat
    BY <1>0
  <2> QED
    BY <2>1
<1>2. \A a \in Slots : a < dp' => a < dp \/ dp <= a
  BY <1>1
<1>3. ASSUME NEW id
      PROVE  /\ \A a : a \in Under(id) <=> a \in Slots /\ a < dp /\ mem[a].id = id
             /\ \A a : a \in Under(id)' <=> a \in Slots /\ a < dp' /\ mem'[a].id = id
  BY DEF Under
<1>4. ASSUME NEW id, id # n
      PROVE  Under(id)' = Under(id)
  <2>1. /\ \A a : a \in Under(id) <=> a \in Slots /\ a < dp /\ mem[a].id = id
        /\ \A a : a \in Under(id)' <=> a \in Slots /\ a < dp' /\ mem'[a].id = id
    BY <1>3
  <2>2. \A a \in Slots : a < dp' /\ mem'[a].id = id => a < dp /\ mem[a].id = id
    BY <1>0, <1>2, <1>4
  <2>3. \A a \in Slots : a < dp /\ mem[a].id = id => a < dp' /\ mem'[a].id = id
    BY <1>0, <1>1
  <2> QED
    BY <2>1, <2>2, <2>3
<1>5. Under(n)' = Under(n) \cup (dp .. dp' - 1)
  <2>1. \A a : a \in dp .. dp' - 1 <=> a \in Slots /\ dp <= a /\ a < dp'
    BY <1>0 DEF Slots
  <2>2. /\ \A a : a \in Under(n) <=> a \in Slots /\ a < dp /\ mem[a].id = n
        /\ \A a : a \in Under(n)' <=> a \in Slots /\ a < dp' /\ mem'[a].id = n
    BY <1>3
  <2>3. \A a \in Slots : a < dp' /\ mem'[a].id = n => (a < dp /\ mem[a].id = n) \/ dp <= a
    BY <1>0, <1>2
  <2>4. \A a \in Slots : a < dp /\ mem[a].id = n => a < dp' /\ mem'[a].id = n
    BY <1>0, <1>1
  <2> QED
    BY <1>0, <2>1, <2>2, <2>3, <2>4
<1>6. Cardinality(Under(n)') = Cardinality(Under(n)) + k
  <2> PICK U, V : U = Under(n) /\ V = dp .. dp' - 1
    OBVIOUS
  <2>1. U \in SUBSET Slots /\ \A a \in U : a < dp
    BY <1>3
  <2>2. IsFiniteSet(U) /\ Cardinality(U) \in Nat
    BY <2>1, SlotFacts
  <2>3. IsFiniteSet(V) /\ Cardinality(V) = k
    BY <1>0, FS_Interval
  <2>4. U \cap V = {}
    BY <1>0, <2>1
  <2>5. Cardinality(U \cup V) = Cardinality(U) + Cardinality(V) - Cardinality(U \cap V)
    BY <2>2, <2>3, FS_Union
  <2>6. Cardinality(U \cap V) = 0
    BY <2>4, FS_EmptySet, Zenon
  <2>7. Cardinality(U \cup V) = Cardinality(U) + k - 0
    BY <2>3, <2>5, <2>6, Zenon
  <2>8. Cardinality(U \cup V) = Cardinality(U) + k
    BY <2>2, <2>7
  <2> QED
    BY <1>5, <2>8, Zenon
<1>7. ASSUME NEW e \in Nat, Boundary(e), \A a \in Slots : a < e => mem[a].id # n
      PROVE  Boundary(e)'
  <2>1. e <= dp /\ \A a, b \in Slots : a < e /\ e <= b /\ b < dp => mem[a].id # mem[b].id
    BY <1>7 DEF Boundary
  <2>2. e <= dp'
    BY <1>0, <2>1
  <2>3. ASSUME NEW a \in Slots, NEW b \in Slots, a < e, e <= b, b < dp'
        PROVE  mem'[a].id # mem'[b].id
    <3>1. mem'[a] = mem[a]
      BY <1>0, <2>1, <2>3
    <3> QED
      BY <1>0, <1>2, <1>7, <2>1, <2>3, <3>1
  <2> QED
    BY <2>2, <2>3 DEF Boundary
<1>8. Headers' = Headers \cup {a \in Slots : dp <= a /\ a < dp' /\ mem'[a].part = "header"}
  <2>1. \A a : a \in Headers <=> a \in Slots /\ a < dp /\ mem[a].part = "header"
    BY DEF Headers
  <2>2. \A a : a \in Headers' <=> a \in Slots /\ a < dp' /\ mem'[a].part = "header"
    BY DEF Headers
  <2> QED
    BY <1>0, <1>1, <1>2, <2>1, <2>2
<1> QED
  BY <1>4, <1>6, <1>7, <1>8

\* What laying down has in common: n is new, or the word under construction, so it has
\* nothing below what an open app began with, and is not held; a header among it is the
\* first of it, and of a new word.
Growth(n, k) ==
  /\ Laid(n, k)
  /\ n \in Nat \ {0} /\ n <= Len(size') /\ n \notin whole
  /\ Len(size) <= Len(size') /\ size'[n] = Cardinality(Under(n)) + k
  /\ \A id \in 1 .. Len(size) : id # n => size'[id] = size[id]
  /\ \A h \in Headers, a \in Slots : a < h => mem[a].id # n
  /\ \A i \in DOMAIN apps, a \in Slots : a < apps[i].dp => mem[a].id # n
  /\ \A a \in Slots : dp <= a /\ a < dp' /\ mem'[a].part = "header" =>
       /\ a = dp /\ mem'[a].link = latest
       /\ \A b \in Slots : b < dp => mem[b].id # n
  /\ latest' \in Headers' /\ whole \subseteq whole' /\ marks' = marks
  /\ Len(apps') = Len(apps)
  /\ \A i \in DOMAIN apps :
       /\ apps'[i].mark = apps[i].mark /\ apps'[i].dp = apps[i].dp
       /\ def_header' # 0 => apps[i].dp <= def_header'
       /\ \/ apps'[i].held = apps[i].held
          \/ i = Len(apps) /\ apps'[i].held = apps[i].held \cup {n} /\ n \in whole'

LEMMA GrowthKeeps ==
  ASSUME WordsInv, WordsTypeOK', NEW n, NEW k \in 1 .. 3, Growth(n, k)
  PROVE  LaidDown' /\ AppsNested' /\ HeldStays'
<1>0. /\ WordsTypeOK /\ LaidDown /\ OneUnfinished /\ AppsNested /\ HeldStays
      /\ Laid(n, k) /\ n \in Nat /\ n # 0 /\ n \notin whole
      /\ dp \in Nat /\ dp' \in Nat /\ dp < dp' /\ 3 <= dp /\ Slots \subseteq Nat
      /\ Len(size) \in Nat /\ Len(size') \in Nat /\ Len(size) <= Len(size')
      /\ n <= Len(size')
  <2>1. WordsTypeOK /\ LaidDown /\ OneUnfinished /\ AppsNested /\ HeldStays
    BY DEF WordsInv
  <2>2. Laid(n, k) /\ n \in Nat /\ n # 0 /\ n \notin whole /\ n <= Len(size') /\ Len(size) <= Len(size')
    BY DEF Growth
  <2>3. dp \in 3 .. SIZE + 1 /\ dp' \in 3 .. SIZE + 1 /\ size \in Seq(Nat) /\ size' \in Seq(Nat)
    BY <2>1 DEF WordsTypeOK
  <2>4. dp' = dp + k
    BY <2>2 DEF Laid
  <2>5. SIZE \in Nat /\ Slots \subseteq Nat
    BY SlotFacts
  <2>6. dp \in Nat /\ dp' \in Nat /\ dp < dp' /\ 3 <= dp
    BY <2>3, <2>4, <2>5
  <2>7. Len(size) \in Nat /\ Len(size') \in Nat
    BY <2>3
  <2> QED
    BY <2>1, <2>2, <2>5, <2>6, <2>7
<1>1. /\ \A id : id # n => Under(id)' = Under(id)
      /\ Cardinality(Under(n)') = Cardinality(Under(n)) + k
      /\ \A e \in Nat : Boundary(e) /\ (\A a \in Slots : a < e => mem[a].id # n) => Boundary(e)'
      /\ Headers' = Headers \cup {a \in Slots : dp <= a /\ a < dp' /\ mem'[a].part = "header"}
  BY <1>0, LaidOut
<1>2. /\ \A a \in Slots : a < dp => mem'[a] = mem[a]
      /\ \A a \in Slots : dp <= a /\ a < dp' => mem'[a].id = n /\ mem'[a].part # "free"
      /\ \A a \in Slots : a < dp => a < dp'
      /\ \A a \in Slots : a < dp' => a < dp \/ dp <= a
  <2>1. /\ \A a \in Slots : a < dp => mem'[a] = mem[a]
        /\ \A a \in Slots : dp <= a /\ a < dp' => mem'[a].id = n /\ mem'[a].part # "free"
    BY <1>0 DEF Laid
  <2> QED
    BY <1>0, <2>1
<1>3. ASSUME NEW id, Intact(id), id \in 0 .. Len(size), id # n
      PROVE  Intact(id)'
  <2>1. CASE id = 0
    BY <2>1 DEF Intact
  <2>2. CASE id # 0
    <3>1. size'[id] = size[id]
      BY <1>0, <1>3, <2>2 DEF Growth
    <3>2. Under(id)' = Under(id)
      BY <1>1, <1>3
    <3> QED
      BY <1>3, <3>1, <3>2, IntactStays
  <2> QED
    BY <2>1, <2>2
<1>4. Intact(n)'
  <2>1. size'[n] = Cardinality(Under(n)')
    BY <1>1 DEF Growth
  <2> QED
    BY <2>1 DEF Intact, Under
<1>5. LaidDown'
  <2>1. mem'[1] = Slot(0, "header", 0) /\ mem'[2] = Slot(0, "code", 0) /\ latest' \in Headers'
    BY <1>0, <1>2, SlotFacts DEF LaidDown, Growth
  <2>2. ASSUME NEW a \in Slots, a < dp'
        PROVE  mem'[a].part # "free" /\ mem'[a].id <= Len(size') /\ Intact(mem[a].id)'
    <3>1. CASE a < dp
      <4> PICK id : id = mem[a].id
        OBVIOUS
      <4>1. mem'[a] = mem[a]
        BY <1>2, <3>1
      <4>2. mem[a].part # "free" /\ mem[a].id <= Len(size) /\ Intact(mem[a].id)
        BY <1>0, <3>1 DEF LaidDown
      <4>3. id \in Nat /\ id <= Len(size)
        <5>1. mem \in [Slots -> [id : Ids, part : Parts, link : 0 .. SIZE]] /\ MaxWords \in Nat
          BY <1>0, DictionaryAssumption DEF WordsTypeOK
        <5>2. id \in Ids
          BY <5>1
        <5> QED
          BY <4>2, <5>1, <5>2 DEF Ids
      <4>4. id \in 0 .. Len(size) /\ id <= Len(size')
        BY <1>0, <4>3
      <4>5. Intact(id)'
        BY <1>3, <1>4, <4>2, <4>4
      <4> QED
        BY <4>1, <4>2, <4>4, <4>5 DEF Intact
    <3>2. CASE dp <= a
      <4>1. mem'[a].id = n /\ mem'[a].part # "free"
        BY <1>2, <2>2, <3>2
      <4> QED
        BY <1>0, <1>4, <4>1 DEF Intact
    <3> QED
      BY <1>2, <2>2, <3>1, <3>2
  <2>3. ASSUME NEW h \in Headers'
        PROVE  /\ Boundary(h)'
               /\ h # primitives_end => mem'[h].link \in Headers' /\ mem'[h].link < h
    <3>1. CASE h \in Headers
      <4>1. /\ h \in Nat /\ h \in Slots /\ h < dp /\ Boundary(h)
            /\ (h # primitives_end => mem[h].link \in Headers /\ mem[h].link < h)
        BY <1>0, <3>1 DEF LaidDown, Headers
      <4>2. \A a \in Slots : a < h => mem[a].id # n
        BY <3>1 DEF Growth
      <4>3. Boundary(h)'
        BY <1>1, <4>1, <4>2
      <4> QED
        BY <1>1, <1>2, <4>1, <4>3
    <3>2. CASE h \notin Headers
      <4>1. h \in Slots /\ dp <= h /\ h < dp' /\ mem'[h].part = "header"
        BY <1>1, <3>2
      <4>2. h = dp /\ mem'[h].link = latest /\ \A b \in Slots : b < dp => mem[b].id # n
        BY <4>1 DEF Growth
      <4>3. Boundary(dp)
        BY <1>0 DEF Boundary
      <4>4. Boundary(h)'
        BY <1>0, <1>1, <4>2, <4>3
      <4>5. latest \in Headers /\ latest < dp
        BY <1>0 DEF LaidDown, Headers
      <4> QED
        BY <1>1, <4>2, <4>4, <4>5
    <3> QED
      BY <3>1, <3>2
  <2> QED
    BY <2>1, <2>2, <2>3 DEF LaidDown
<1>6. DOMAIN apps' = DOMAIN apps /\ Len(apps') = Len(apps)
  <2> DEFINE App == [mark : Slots, dp : Slots \cup {SIZE + 1}, held : SUBSET Ids]
  <2>1. apps \in Seq(App) /\ apps' \in Seq(App)
    BY <1>0 DEF WordsTypeOK
  <2>2. Len(apps') = Len(apps)
    BY DEF Growth
  <2> HIDE DEF App
  <2> QED
    BY <2>1, <2>2
<1>7. ASSUME NEW i \in DOMAIN apps
      PROVE  /\ apps'[i].mark = apps[i].mark /\ apps'[i].dp = apps[i].dp
             /\ (def_header' # 0 => apps[i].dp <= def_header')
             /\ \A a \in Slots : a < apps[i].dp => mem[a].id # n
             /\ apps[i].held \subseteq whole /\ apps[i].held \subseteq whole'
             /\ \/ apps'[i].held = apps[i].held
                \/ i = Len(apps) /\ apps'[i].held = apps[i].held \cup {n} /\ n \in whole'
             /\ apps[i].dp \in Nat /\ i \in 1 .. Len(apps)
  BY <1>0, AppFacts DEF Growth, AppsNested
<1>8. AppsNested'
  <2>1. Len(marks') = Len(apps')
    BY <1>0 DEF Growth, AppsNested
  <2>2. ASSUME NEW i \in DOMAIN apps
        PROVE  /\ marks'[i] = [latest |-> apps'[i].mark, dp |-> apps'[i].dp]
               /\ apps'[i].held \subseteq whole'
               /\ apps'[i].mark \in Headers' /\ apps'[i].mark < apps'[i].dp
               /\ (def_header' # 0 => apps'[i].dp <= def_header')
    <3>1. /\ marks[i] = [latest |-> apps[i].mark, dp |-> apps[i].dp]
          /\ apps[i].mark \in Headers /\ apps[i].mark < apps[i].dp
      BY <1>0 DEF AppsNested
    <3>2. marks' = marks
      BY DEF Growth
    <3> QED
      BY <1>1, <1>7, <3>1, <3>2
  <2>3. ASSUME NEW i \in DOMAIN apps
        PROVE  Boundary(apps[i].dp)'
    <3> PICK e : e = apps[i].dp
      OBVIOUS
    <3>1. Boundary(e) /\ e \in Nat /\ \A a \in Slots : a < e => mem[a].id # n
      BY <1>0, <1>7 DEF AppsNested
    <3>2. Boundary(e)'
      BY <1>1, <3>1
    <3> QED
      BY <1>7, <3>2 DEF Boundary
  <2>4. ASSUME NEW i \in DOMAIN apps, NEW j \in DOMAIN apps, i < j
        PROVE  /\ apps'[i].dp <= apps'[j].dp
               /\ \A a \in Slots : a < dp' /\ mem'[a].id \in apps'[i].held => a < apps'[j].dp
    <3>1. /\ apps[i].dp <= apps[j].dp
          /\ \A a \in Slots : a < dp /\ mem[a].id \in apps[i].held => a < apps[j].dp
      BY <1>0, <2>4 DEF AppsNested
    <3>2. apps'[i].held = apps[i].held /\ apps'[i].dp = apps[i].dp /\ apps'[j].dp = apps[j].dp
      <4>1. i # Len(apps)
        BY <1>7, <2>4
      <4> QED
        BY <1>7, <4>1
    <3>3. ASSUME NEW a \in Slots, a < dp', mem'[a].id \in apps[i].held
          PROVE  a < apps[j].dp
      <4>1. a < dp /\ mem'[a] = mem[a]
        BY <1>0, <1>2, <1>7, <3>3
      <4> QED
        BY <3>1, <3>3, <4>1
    <3> QED
      BY <3>1, <3>2, <3>3
  <2> QED
    BY <1>6, <2>1, <2>2, <2>3, <2>4 DEF AppsNested
<1>9. HeldStays'
  <2> SUFFICES ASSUME NEW i \in DOMAIN apps, NEW id \in apps'[i].held
               PROVE  Intact(id)'
    BY <1>6 DEF HeldStays, Held
  <2>1. CASE id = n
    BY <1>4, <2>1
  <2>2. CASE id # n
    <3>1. id \in apps[i].held
      BY <1>7, <2>2
    <3>2. Intact(id)
      BY <1>0, <3>1 DEF HeldStays, Held
    <3>3. id \in 0 .. Len(size)
      BY <1>0, <1>7, <3>1 DEF OneUnfinished
    <3> QED
      BY <1>3, <2>2, <3>2, <3>3
  <2> QED
    BY <2>1, <2>2
<1> QED
  BY <1>5, <1>8, <1>9

-----------------------------------------------------------------------------
(* What lays something down.                                               *)

LEMMA InvFacts ==
  ASSUME WordsInv
  PROVE  /\ WordsTypeOK /\ LaidDown /\ OneUnfinished /\ AppsNested /\ HeldStays
         /\ dp \in Nat /\ 3 <= dp /\ dp <= SIZE + 1 /\ SIZE \in Nat /\ MaxWords \in Nat
         /\ Slots \subseteq Nat /\ Slots = 1 .. SIZE
         /\ size \in Seq(Nat) /\ Len(size) \in Nat /\ NextId = Len(size) + 1
         /\ latest \in Headers /\ latest \in Slots
         /\ Headers \subseteq Slots /\ \A h \in Headers : h < dp
<1>1. WordsTypeOK /\ LaidDown /\ OneUnfinished /\ AppsNested /\ HeldStays
  BY DEF WordsInv
<1>2. dp \in 3 .. SIZE + 1 /\ size \in Seq(Nat) /\ latest \in Slots
  BY <1>1 DEF WordsTypeOK
<1>3. SIZE \in Nat /\ Slots \subseteq Nat /\ MaxWords \in Nat
  BY SlotFacts, DictionaryAssumption
<1>4. latest \in Headers
  BY <1>1 DEF LaidDown
<1>5. Headers \subseteq Slots /\ \A h \in Headers : h < dp
  BY DEF Headers
<1>6. dp \in Nat /\ 3 <= dp /\ dp <= SIZE + 1
  BY <1>2, <1>3
<1>7. Len(size) \in Nat
  BY <1>2
<1> QED
  BY <1>1, <1>2, <1>3, <1>4, <1>5, <1>6, <1>7 DEF NextId, Slots

\* The next number is nobody's.
LEMMA Fresh ==
  ASSUME WordsInv
  PROVE  /\ NextId \in Nat \ {0} /\ NextId \notin whole /\ Cardinality(Under(NextId)) = 0
         /\ \A a \in Slots : a < dp => mem[a].id # NextId
<1>1. Len(size) \in Nat /\ NextId = Len(size) + 1
  BY InvFacts
<1>2. \A a \in Slots : a < dp => mem[a].id # NextId
  <2>1. \A a \in Slots : a < dp => mem[a].id <= Len(size)
    BY InvFacts DEF LaidDown
  <2> QED
    BY <1>1, <2>1
<1>3. NextId \notin whole
  <2>1. whole \subseteq 0 .. Len(size)
    BY InvFacts DEF OneUnfinished
  <2> QED
    BY <1>1, <2>1
<1>4. Under(NextId) = {}
  BY <1>2 DEF Under
<1>5. Cardinality(Under(NextId)) = 0
  BY <1>4, FS_EmptySet
<1>6. NextId \in Nat \ {0}
  BY <1>1
<1> QED
  BY <1>2, <1>3, <1>5, <1>6

\* One slot, or a few, each with its part; the first may be a header.
Placed(n, parts) ==
  /\ \A a \in Slots : dp <= a /\ a < dp + Len(parts) =>
       /\ mem'[a].id = n /\ mem'[a].part = parts[a - dp + 1]
       /\ mem'[a].part = "header" => mem'[a].link = latest
  /\ \A a \in Slots : ~ (dp <= a /\ a < dp + Len(parts)) => mem'[a] = mem[a]
  /\ dp' = dp + Len(parts)

Sequel(parts) ==
  /\ parts \in Seq(Parts) /\ Len(parts) \in 1 .. 3
  /\ \A i \in 1 .. Len(parts) : parts[i] # "free" /\ (parts[i] = "header" => i = 1)

LEMMA PlacedIsLaid ==
  ASSUME WordsInv, NEW n, NEW parts, Sequel(parts), Placed(n, parts), room(Len(parts))
  PROVE  /\ Laid(n, Len(parts)) /\ Len(parts) \in 1 .. 3 /\ dp' \in 3 .. SIZE + 1
         /\ \A a \in Slots : dp <= a /\ a < dp' /\ mem'[a].part = "header" =>
              a = dp /\ mem'[a].link = latest
<1>0. /\ dp \in Nat /\ 3 <= dp /\ SIZE \in Nat /\ Slots \subseteq Nat
      /\ Len(parts) \in 1 .. 3 /\ dp + Len(parts) - 1 <= SIZE /\ dp' = dp + Len(parts)
  BY InvFacts DEF Sequel, Placed, room
<1>1. dp' \in 3 .. SIZE + 1 /\ dp' <= SIZE + 1 /\ dp < dp'
  BY <1>0
<1>2. ASSUME NEW a \in Slots, a < dp
      PROVE  mem'[a] = mem[a]
  BY <1>0, <1>2 DEF Placed
<1>3. ASSUME NEW a \in Slots, dp <= a, a < dp'
      PROVE  /\ mem'[a].id = n /\ mem'[a].part # "free"
             /\ mem'[a].part = "header" => a = dp /\ mem'[a].link = latest
  <2>1. a - dp + 1 \in 1 .. Len(parts) /\ (a - dp + 1 = 1 => a = dp)
    BY <1>0, <1>3
  <2>2. mem'[a].id = n /\ mem'[a].part = parts[a - dp + 1]
        /\ (mem'[a].part = "header" => mem'[a].link = latest)
    BY <1>0, <1>3 DEF Placed
  <2>3. parts[a - dp + 1] # "free" /\ (parts[a - dp + 1] = "header" => a - dp + 1 = 1)
    BY <2>1 DEF Sequel
  <2> QED
    BY <2>1, <2>2, <2>3
<1> QED
  BY <1>0, <1>1, <1>2, <1>3 DEF Laid

LEMMA LayPlaces ==
  ASSUME WordsInv, NEW parts, Sequel(parts), Lay(parts), room(Len(parts)), NextId <= MaxWords
  PROVE  /\ Placed(NextId, parts) /\ LinksType' /\ mem'[dp].part = parts[1] /\ dp \in Slots
         /\ size' \in Seq(Nat) /\ Len(size') = NextId /\ size'[NextId] = Len(parts)
         /\ \A id \in 1 .. Len(size) : size'[id] = size[id]
<1>0. /\ dp \in Nat /\ 3 <= dp /\ SIZE \in Nat /\ Slots \subseteq Nat /\ Slots = 1 .. SIZE
      /\ Len(parts) \in 1 .. 3 /\ dp + Len(parts) - 1 <= SIZE /\ dp' = dp + Len(parts)
      /\ size \in Seq(Nat) /\ Len(size) \in Nat /\ NextId = Len(size) + 1
      /\ size' = Append(size, Len(parts)) /\ MaxWords \in Nat
  BY InvFacts DEF Sequel, Lay, room
<1>1. ASSUME NEW a \in Slots
      PROVE  mem'[a] = IF dp <= a /\ a < dp + Len(parts)
                         THEN Slot(NextId, parts[a - dp + 1], IF a = dp THEN latest ELSE 0)
                         ELSE mem[a]
  <2>1. a \in dp .. dp + Len(parts) - 1 <=> dp <= a /\ a < dp + Len(parts)
    BY <1>0
  <2> QED
    BY <2>1 DEF Lay
<1>2. ASSUME NEW a \in Slots, dp <= a, a < dp + Len(parts)
      PROVE  /\ a - dp + 1 \in 1 .. Len(parts)
             /\ mem'[a].id = NextId /\ mem'[a].part = parts[a - dp + 1]
             /\ mem'[a].link = IF a = dp THEN latest ELSE 0
             /\ mem'[a] = Slot(NextId, parts[a - dp + 1], IF a = dp THEN latest ELSE 0)
  <2>1. a - dp + 1 \in 1 .. Len(parts)
    BY <1>0, <1>2
  <2>2. mem'[a] = Slot(NextId, parts[a - dp + 1], IF a = dp THEN latest ELSE 0)
    BY <1>1, <1>2
  <2> QED
    BY <2>1, <2>2 DEF Slot
<1>3. Placed(NextId, parts)
  <2>1. ASSUME NEW a \in Slots, dp <= a, a < dp + Len(parts), mem'[a].part = "header"
        PROVE  mem'[a].link = latest
    <3>1. a - dp + 1 = 1
      BY <1>2, <2>1 DEF Sequel
    <3>2. a = dp
      BY <1>0, <3>1
    <3> QED
      BY <1>2, <2>1, <3>2
  <2>2. \A a \in Slots : ~ (dp <= a /\ a < dp + Len(parts)) => mem'[a] = mem[a]
    BY <1>1
  <2> QED
    BY <1>0, <1>2, <2>1, <2>2 DEF Placed
<1>4. LinksType'
  <2>1. mem' = [a \in Slots |-> mem'[a]]
    BY DEF Lay
  <2>2. ASSUME NEW a \in Slots
        PROVE  mem'[a] \in [id : Ids, part : Parts, link : 0 .. SIZE]
    <3>1. CASE dp <= a /\ a < dp + Len(parts)
      <4>1. NextId \in Ids
        BY <1>0 DEF Ids
      <4>2. parts[a - dp + 1] \in Parts
        BY <1>2, <3>1 DEF Sequel
      <4>3. (IF a = dp THEN latest ELSE 0) \in 0 .. SIZE
        BY <1>0, InvFacts
      <4>4. mem'[a] = Slot(NextId, parts[a - dp + 1], IF a = dp THEN latest ELSE 0)
        BY <1>2, <3>1
      <4> HIDE DEF Parts, Ids
      <4> QED
        BY <4>1, <4>2, <4>3, <4>4 DEF Slot
    <3>2. CASE ~ (dp <= a /\ a < dp + Len(parts))
      BY <1>1, <3>2, InvFacts DEF WordsTypeOK
    <3> QED
      BY <3>1, <3>2
  <2> QED
    BY <2>1, <2>2 DEF LinksType
<1>5. /\ size' \in Seq(Nat) /\ Len(size') = NextId /\ size'[NextId] = Len(parts)
      /\ \A id \in 1 .. Len(size) : size'[id] = size[id]
  BY <1>0
<1>6. dp \in Slots /\ mem'[dp].part = parts[1]
  <2> PICK k \in 1 .. 3 : k = Len(parts)
    BY <1>0
  <2>1. dp \in 1 .. SIZE /\ dp < dp + k
    <3>1. dp \in Nat /\ 3 <= dp /\ SIZE \in Nat /\ dp + k - 1 <= SIZE
      BY <1>0
    <3> QED
      BY <3>1
  <2>2. dp \in Slots /\ dp <= dp /\ dp < dp + Len(parts)
    BY <1>0, <2>1
  <2>3. mem'[dp] = Slot(NextId, parts[dp - dp + 1], IF dp = dp THEN latest ELSE 0)
    BY <1>2, <2>2
  <2>4. dp - dp + 1 = 1
    BY <1>0
  <2> QED
    BY <2>2, <2>3, <2>4 DEF Slot
<1> QED
  BY <1>3, <1>4, <1>5, <1>6

\* The word under construction: all that is from its header on, and the newest.
LEMMA HostFacts ==
  ASSUME WordsInv, def_header # 0
  PROVE  /\ def_header = latest /\ def_header \in Headers /\ def_header \in Nat /\ def_header < dp
         /\ Host = mem[def_header].id /\ Host \notin whole /\ Host \in 1 .. Len(size)
         /\ def_header # primitives_end /\ def_prev_latest = mem[def_header].link
         /\ Cardinality(Under(Host)) = size[Host]
         /\ \A a \in Slots : a < def_header => mem[a].id # Host
         /\ \A h \in Headers : h <= def_header
         /\ \A a \in Slots : def_header <= a /\ a < dp => mem[a].id = Host
<1>1. /\ LaidDown /\ OneUnfinished /\ WordsTypeOK /\ latest \in Headers /\ Slots \subseteq Nat
      /\ Headers \subseteq Slots /\ Len(size) \in Nat /\ dp \in Nat /\ 3 <= dp /\ 1 \in Slots
  BY InvFacts, SlotFacts
<1>2. /\ def_header = latest /\ def_header # primitives_end
      /\ def_prev_latest = mem[def_header].link /\ Host \notin whole
      /\ \A a \in Slots : def_header < a /\ a < dp => mem[a].id = Host /\ a \notin Headers
  BY <1>1 DEF OneUnfinished
<1>3. Host = mem[def_header].id /\ def_header \in Headers /\ def_header \in Slots /\ def_header < dp
  BY <1>1, <1>2, InvFacts DEF Host
<1>4. def_header \in Nat
  BY <1>1, <1>3
<1>5. 0 \in whole
  <2>1. mem[1] = Slot(0, "header", 0)
    BY <1>1 DEF LaidDown
  <2>2. 1 \in Headers /\ mem[1].id = 0
    BY <1>1, <2>1 DEF Headers, Slot
  <2> QED
    BY <1>1, <1>2, <2>2 DEF OneUnfinished, primitives_end
<1>6. Host \in 1 .. Len(size) /\ Intact(mem[def_header].id)
  <2>1. mem[def_header].id <= Len(size) /\ Intact(mem[def_header].id)
    BY <1>1, <1>3 DEF LaidDown
  <2>2. Host \in Ids /\ MaxWords \in Nat
    BY <1>1, <1>3, DictionaryAssumption DEF WordsTypeOK
  <2>3. Host \in Nat /\ Host # 0
    BY <1>2, <1>5, <2>2 DEF Ids
  <2> QED
    BY <1>1, <1>3, <2>1, <2>3
<1>7. Cardinality(Under(Host)) = size[Host]
  <2> PICK id : id = Host
    OBVIOUS
  <2>1. Intact(id) /\ id # 0
    BY <1>1, <1>3, <1>6
  <2>2. Cardinality(Under(id)) = size[id]
    BY <2>1 DEF Intact, Under
  <2> QED
    BY <2>2
<1>8. \A a \in Slots : a < def_header => mem[a].id # Host
  <2>1. Boundary(def_header)
    BY <1>1, <1>3 DEF LaidDown
  <2> QED
    BY <1>3, <1>4, <2>1 DEF Boundary
<1>9. \A h \in Headers : h <= def_header
  <2>1. \A h \in Headers : h \in Slots /\ h \in Nat /\ h < dp
    BY <1>1, InvFacts
  <2> QED
    BY <1>2, <1>4, <2>1
<1>10. \A a \in Slots : def_header <= a /\ a < dp => mem[a].id = Host
  <2>1. \A a \in Slots : def_header <= a => a = def_header \/ def_header < a
    BY <1>1, <1>4
  <2> QED
    BY <1>2, <1>3, <2>1
<1> QED
  BY <1>2, <1>3, <1>4, <1>6, <1>7, <1>8, <1>9, <1>10

LEMMA GrowPlaces ==
  ASSUME WordsInv, def_header # 0, NEW parts, Sequel(parts), Grow(parts), room(Len(parts)),
         \A i \in 1 .. Len(parts) : parts[i] # "header"
  PROVE  /\ Placed(Host, parts) /\ LinksType'
         /\ \A a \in Slots : dp <= a /\ a < dp + Len(parts) => mem'[a].part # "header"
         /\ size' \in Seq(Nat) /\ Len(size') = Len(size) /\ size'[Host] = size[Host] + Len(parts)
         /\ \A id \in 1 .. Len(size) : id # Host => size'[id] = size[id]
<1>0. /\ dp \in Nat /\ 3 <= dp /\ SIZE \in Nat /\ Slots \subseteq Nat /\ Slots = 1 .. SIZE
      /\ Len(parts) \in 1 .. 3 /\ dp + Len(parts) - 1 <= SIZE /\ dp' = dp + Len(parts)
      /\ size \in Seq(Nat) /\ Len(size) \in Nat /\ MaxWords \in Nat
      /\ Host \in 1 .. Len(size) /\ WordsTypeOK
  BY InvFacts, HostFacts DEF Sequel, Grow, room
<1>1. ASSUME NEW a \in Slots
      PROVE  mem'[a] = IF dp <= a /\ a < dp + Len(parts)
                         THEN Slot(Host, parts[a - dp + 1], 0) ELSE mem[a]
  <2>1. a \in dp .. dp + Len(parts) - 1 <=> dp <= a /\ a < dp + Len(parts)
    BY <1>0
  <2> QED
    BY <2>1 DEF Grow
<1>2. ASSUME NEW a \in Slots, dp <= a, a < dp + Len(parts)
      PROVE  /\ a - dp + 1 \in 1 .. Len(parts)
             /\ mem'[a].id = Host /\ mem'[a].part = parts[a - dp + 1]
             /\ mem'[a] = Slot(Host, parts[a - dp + 1], 0)
  <2>1. a - dp + 1 \in 1 .. Len(parts)
    BY <1>0, <1>2
  <2>2. mem'[a] = Slot(Host, parts[a - dp + 1], 0)
    BY <1>1, <1>2
  <2> QED
    BY <2>1, <2>2 DEF Slot
<1>3. \A a \in Slots : dp <= a /\ a < dp + Len(parts) => mem'[a].part # "header"
  BY <1>2
<1>4. Placed(Host, parts)
  <2>1. \A a \in Slots : ~ (dp <= a /\ a < dp + Len(parts)) => mem'[a] = mem[a]
    BY <1>1
  <2> QED
    BY <1>0, <1>2, <1>3, <2>1 DEF Placed
<1>5. LinksType'
  <2>1. mem' = [a \in Slots |-> mem'[a]]
    BY DEF Grow
  <2>2. ASSUME NEW a \in Slots
        PROVE  mem'[a] \in [id : Ids, part : Parts, link : 0 .. SIZE]
    <3>1. CASE dp <= a /\ a < dp + Len(parts)
      <4>1. Host \in Ids
        BY <1>0, HostFacts DEF Host, WordsTypeOK, Headers
      <4>2. parts[a - dp + 1] \in Parts
        BY <1>2, <3>1 DEF Sequel
      <4>3. 0 \in 0 .. SIZE
        BY <1>0
      <4>4. mem'[a] = Slot(Host, parts[a - dp + 1], 0)
        BY <1>2, <3>1
      <4> HIDE DEF Parts, Ids
      <4> QED
        BY <4>1, <4>2, <4>3, <4>4 DEF Slot
    <3>2. CASE ~ (dp <= a /\ a < dp + Len(parts))
      BY <1>0, <1>1, <3>2 DEF WordsTypeOK
    <3> QED
      BY <3>1, <3>2
  <2> QED
    BY <2>1, <2>2 DEF LinksType
<1>6. /\ size' \in Seq(Nat) /\ Len(size') = Len(size) /\ size'[Host] = size[Host] + Len(parts)
      /\ \A id \in 1 .. Len(size) : id # Host => size'[id] = size[id]
  <2> PICK n, k : n = Host /\ k = Len(parts)
    OBVIOUS
  <2>1. size' = [size EXCEPT ![n] = size[n] + k] /\ n \in 1 .. Len(size) /\ k \in Nat
    BY <1>0 DEF Grow
  <2>2. size[n] \in Nat
    BY <1>0, <2>1
  <2> QED
    BY <1>0, <2>1, <2>2
<1> QED
  BY <1>3, <1>4, <1>5, <1>6

\* What the theorems ask of the constants: nothing is made, hidden or forgotten between
\* [ and ] and nothing fails there, what an app holds is not forgotten, no app opens in
\* the middle of a definition, and no mark makes way for another.
Orderly == ~Inside /\ ~ForgetAny /\ ~Unfinished /\ MaxApps <= MARKS

\* A new word, and nothing else of the apps' or of the marks changed.
LEMMA NewWordGrows ==
  ASSUME WordsInv, WordsTypeOK', NEW parts, Sequel(parts), Lay(parts), room(Len(parts)),
         NextId <= MaxWords, parts[1] = "header", latest' = dp, def_header' \in {0, dp},
         marks' = marks, apps' = apps, whole' \in {whole, whole \cup {NextId}}
  PROVE  /\ LaidDown' /\ AppsNested' /\ HeldStays'
         /\ Headers' = Headers \cup {dp} /\ dp \in Slots /\ dp < dp'
         /\ mem'[dp].id = NextId /\ mem'[dp].link = latest
         /\ \A a \in Slots : a < dp => mem'[a] = mem[a]
         /\ \A a \in Slots : dp <= a /\ a < dp' => mem'[a].id = NextId
         /\ whole' \subseteq 0 .. Len(size')
<1>0. /\ dp \in Nat /\ NextId \in Nat \ {0} /\ NextId \notin whole
      /\ Cardinality(Under(NextId)) = 0 /\ \A a \in Slots : a < dp => mem[a].id # NextId
      /\ Len(size) \in Nat /\ NextId = Len(size) + 1 /\ Slots \subseteq Nat
      /\ Headers \subseteq Slots /\ \A h \in Headers : h < dp
  BY InvFacts, Fresh
<1>1. /\ Placed(NextId, parts) /\ mem'[dp].part = "header" /\ dp \in Slots
      /\ Len(size') = NextId /\ size'[NextId] = Len(parts)
      /\ \A id \in 1 .. Len(size) : size'[id] = size[id]
  BY LayPlaces
<1>2. /\ Laid(NextId, Len(parts)) /\ Len(parts) \in 1 .. 3
      /\ \A a \in Slots : dp <= a /\ a < dp' /\ mem'[a].part = "header" =>
           a = dp /\ mem'[a].link = latest
  BY <1>1, PlacedIsLaid
<1>3. Headers' = Headers \cup {a \in Slots : dp <= a /\ a < dp' /\ mem'[a].part = "header"}
  BY <1>2, LaidOut, InvFacts
<1>4. /\ \A a \in Slots : a < dp => mem'[a] = mem[a]
      /\ \A a \in Slots : dp <= a /\ a < dp' => mem'[a].id = NextId
      /\ dp' = dp + Len(parts)
  BY <1>2 DEF Laid
<1>5. dp <= dp /\ dp < dp'
  BY <1>0, <1>2, <1>4
<1>6. Headers' = Headers \cup {dp}
  BY <1>1, <1>2, <1>3, <1>5
<1>7. \A i \in DOMAIN apps : apps[i].dp <= dp /\ apps[i].dp \in Nat
  BY InvFacts, AppFacts DEF AppsNested, Boundary
<1>8. Growth(NextId, Len(parts))
  <2>1. \A h \in Headers, a \in Slots : a < h => mem[a].id # NextId
    <3>1. \A h \in Headers, a \in Slots : a < h => a < dp
      BY <1>0
    <3> QED
      BY <1>0, <3>1
  <2>2. \A i \in DOMAIN apps, a \in Slots : a < apps[i].dp => mem[a].id # NextId
    <3>1. \A i \in DOMAIN apps, a \in Slots : a < apps[i].dp => a < dp
      BY <1>0, <1>7
    <3> QED
      BY <1>0, <3>1
  <2>3. Len(size) <= Len(size') /\ NextId <= Len(size') /\ size'[NextId] = Cardinality(Under(NextId)) + Len(parts)
    BY <1>0, <1>1, <1>2
  <2>4. \A i \in DOMAIN apps : def_header' # 0 => apps[i].dp <= def_header'
    BY <1>7
  <2> QED
    BY <1>0, <1>1, <1>2, <1>6, <2>1, <2>2, <2>3, <2>4 DEF Growth
<1>9. LaidDown' /\ AppsNested' /\ HeldStays'
  BY <1>2, <1>8, GrowthKeeps
<1>10. whole' \subseteq 0 .. Len(size')
  <2>1. whole \subseteq 0 .. Len(size)
    BY InvFacts DEF OneUnfinished
  <2>2. whole \subseteq 0 .. Len(size') /\ NextId \in 0 .. Len(size')
    BY <1>0, <1>1, <2>1
  <2> QED
    BY <2>2
<1> QED
  BY <1>1, <1>2, <1>4, <1>5, <1>6, <1>9, <1>10

LEMMA ColonKeeps == ASSUME WordsInv, Orderly, Colon PROVE WordsInv'
<1> DEFINE parts == <<"header", "code">>
<1>0. /\ dp \in Nat /\ 3 <= dp /\ SIZE \in Nat /\ WordsTypeOK /\ OneUnfinished
      /\ MaxWords \in Nat /\ Len(size) \in Nat /\ NextId = Len(size) + 1 /\ latest \in Slots
      /\ Slots \subseteq Nat /\ Slots = 1 .. SIZE /\ Headers \subseteq Slots /\ \A h \in Headers : h < dp
  BY InvFacts
<1>1. /\ Lay(parts) /\ dp + Len(Header) - 1 <= SIZE /\ NextId <= MaxWords /\ latest' = dp
      /\ def_prev_latest' = latest /\ def_header' = dp /\ state' = TRUE
      /\ marks' = marks /\ apps' = apps /\ whole' = whole /\ ~state /\ def_header = 0
  BY DEF Colon, Tidy, Orderly, room
<1>2. Sequel(parts) /\ Len(parts) = 2 /\ Len(Header) = 3 /\ parts[1] = "header"
  BY DEF Sequel, Header, Parts
<1>3. room(Len(parts))
  BY <1>0, <1>1, <1>2 DEF room
<1> HIDE DEF parts
<1>4. /\ Placed(NextId, parts) /\ LinksType' /\ size' \in Seq(Nat) /\ Len(size') = NextId /\ dp \in Slots
  BY <1>1, <1>2, <1>3, LayPlaces
<1>5. dp' \in 3 .. SIZE + 1
  BY <1>2, <1>3, <1>4, PlacedIsLaid
<1>6. WordsTypeOK'
  <2>1. dp \in 0 .. SIZE /\ latest \in 0 .. SIZE
    BY <1>0, <1>4
  <2> QED
    BY <1>0, <1>1, <1>4, <1>5, <2>1 DEF WordsTypeOK, LinksType
<1>7. /\ LaidDown' /\ AppsNested' /\ HeldStays'
      /\ Headers' = Headers \cup {dp} /\ dp \in Slots /\ dp < dp'
      /\ mem'[dp].id = NextId /\ mem'[dp].link = latest
      /\ \A a \in Slots : a < dp => mem'[a] = mem[a]
      /\ \A a \in Slots : dp <= a /\ a < dp' => mem'[a].id = NextId
      /\ whole' \subseteq 0 .. Len(size')
  BY <1>1, <1>2, <1>3, <1>6, NewWordGrows
<1>8. OneUnfinished'
  <2>1. Host' = NextId
    BY <1>0, <1>1, <1>7 DEF Host
  <2>2. NextId \notin whole
    BY Fresh
  <2>3. \A a \in Slots : dp < a /\ a < dp' => mem'[a].id = NextId /\ a \notin Headers'
    BY <1>0, <1>7
  <2>4. \A h \in Headers' : mem'[h].id \in whole' \/ h = def_header'
    BY <1>0, <1>1, <1>7 DEF OneUnfinished
  <2>5. dp # primitives_end /\ dp # 0
    BY <1>0 DEF primitives_end
  <2>6. /\ latest' = def_header' /\ def_header' # primitives_end
        /\ def_prev_latest' = mem'[def_header'].link /\ Host' \notin whole'
    BY <1>1, <1>7, <2>1, <2>2, <2>5
  <2>7. \A a \in Slots : def_header' < a /\ a < dp' => mem'[a].id = Host' /\ a \notin Headers'
    BY <1>1, <2>1, <2>3
  <2>8. def_header' # 0 /\ whole' \subseteq 0 .. Len(size')
    BY <1>1, <1>7, <2>5
  <2> QED
    BY <2>4, <2>6, <2>7, <2>8 DEF OneUnfinished
<1> QED
  BY <1>6, <1>7, <1>8 DEF WordsInv

LEMMA VariableKeeps == ASSUME WordsInv, Orderly, Variable PROVE WordsInv'
<1>0. /\ dp \in Nat /\ 3 <= dp /\ SIZE \in Nat /\ WordsTypeOK /\ OneUnfinished
      /\ MaxWords \in Nat /\ Len(size) \in Nat /\ NextId = Len(size) + 1 /\ latest \in Slots
      /\ Slots \subseteq Nat /\ Slots = 1 .. SIZE /\ Headers \subseteq Slots /\ \A h \in Headers : h < dp
  BY InvFacts
<1>1. /\ Lay(Header) /\ room(Len(Header)) /\ NextId <= MaxWords /\ latest' = dp
      /\ state' = state /\ def_header' = def_header /\ def_prev_latest' = def_prev_latest
      /\ marks' = marks /\ apps' = apps /\ whole' = whole \cup {NextId} /\ def_header = 0
  BY DEF Variable, Tidy, Orderly, defining
<1>2. Sequel(Header) /\ Header[1] = "header"
  BY DEF Sequel, Header, Parts
<1>4. /\ Placed(NextId, Header) /\ LinksType' /\ size' \in Seq(Nat) /\ Len(size') = NextId /\ dp \in Slots
  BY <1>1, <1>2, LayPlaces
<1>5. dp' \in 3 .. SIZE + 1
  BY <1>1, <1>2, <1>4, PlacedIsLaid
<1>6. WordsTypeOK'
  <2>1. NextId \in Ids
    BY <1>0, <1>1 DEF Ids
  <2> QED
    BY <1>0, <1>1, <1>4, <1>5, <2>1 DEF WordsTypeOK, LinksType
<1>7. /\ LaidDown' /\ AppsNested' /\ HeldStays'
      /\ Headers' = Headers \cup {dp} /\ dp \in Slots /\ dp < dp'
      /\ mem'[dp].id = NextId /\ mem'[dp].link = latest
      /\ \A a \in Slots : a < dp => mem'[a] = mem[a]
      /\ whole' \subseteq 0 .. Len(size')
  BY <1>1, <1>2, <1>6, NewWordGrows
<1>8. OneUnfinished'
  <2>1. \A h \in Headers' : mem'[h].id \in whole'
    BY <1>0, <1>1, <1>7 DEF OneUnfinished
  <2>2. ~ state' /\ def_header' = 0
    BY <1>0, <1>1 DEF OneUnfinished
  <2> QED
    BY <1>7, <2>1, <2>2 DEF OneUnfinished
<1> QED
  BY <1>6, <1>7, <1>8 DEF WordsInv

\* What the app that runs holds from now on.
LEMMA HoldingFacts ==
  ASSUME WordsTypeOK, NEW ids \in SUBSET Ids, apps' = Holding(ids)
  PROVE  /\ apps' \in Seq([mark : Slots, dp : Slots \cup {SIZE + 1}, held : SUBSET Ids])
         /\ Len(apps') = Len(apps) /\ DOMAIN apps' = DOMAIN apps
         /\ \A i \in DOMAIN apps :
              /\ apps'[i].mark = apps[i].mark /\ apps'[i].dp = apps[i].dp
              /\ apps'[i].held = IF i = Len(apps) THEN apps[i].held \cup ids ELSE apps[i].held
<1> DEFINE App == [mark : Slots, dp : Slots \cup {SIZE + 1}, held : SUBSET Ids]
<1>1. apps \in Seq(App)
  BY DEF WordsTypeOK
<1>2. CASE apps = <<>>
  <2>1. apps' = apps
    BY <1>2 DEF Holding
  <2> HIDE DEF App
  <2> QED
    BY <1>1, <1>2, <2>1
<1>3. CASE apps # <<>>
  <2> PICK n, app : n = Len(apps) /\ app = [apps[n] EXCEPT !.held = @ \cup ids]
    OBVIOUS
  <2>1. n \in DOMAIN apps /\ DOMAIN apps = 1 .. n /\ n \in Nat
    <3> HIDE DEF App
    <3> QED
      BY <1>1, <1>3
  <2>2. apps[n] \in App
    <3> HIDE DEF App
    <3> QED
      BY <1>1, <2>1
  <2>3. app \in App /\ app.mark = apps[n].mark /\ app.dp = apps[n].dp
        /\ app.held = apps[n].held \cup ids
    BY <2>2
  <2>4. apps' = [apps EXCEPT ![n] = app]
    BY <1>3 DEF Holding
  <2> HIDE DEF App
  <2>5. apps' \in Seq(App) /\ Len(apps') = Len(apps) /\ DOMAIN apps' = DOMAIN apps
    BY <1>1, <2>1, <2>3, <2>4
  <2>6. \A i \in DOMAIN apps : apps'[i] = IF i = n THEN app ELSE apps[i]
    BY <1>1, <2>1, <2>4
  <2> QED
    BY <2>3, <2>5, <2>6 DEF App
<1> QED
  BY <1>2, <1>3

LEMMA KeepKeeps == ASSUME WordsInv, Orderly, Keep PROVE WordsInv'
<1> DEFINE parts == <<"body">>
<1>0. /\ dp \in Nat /\ 3 <= dp /\ SIZE \in Nat /\ WordsTypeOK /\ OneUnfinished /\ AppsNested
      /\ MaxWords \in Nat /\ Len(size) \in Nat /\ NextId = Len(size) + 1
      /\ size \in Seq(Nat)
      /\ Slots \subseteq Nat /\ Slots = 1 .. SIZE /\ Headers \subseteq Slots /\ \A h \in Headers : h < dp
  BY InvFacts
<1>1. /\ room(1) /\ NextId <= MaxWords /\ mem' = [mem EXCEPT ![dp] = Slot(NextId, "body", 0)]
      /\ dp' = dp + 1 /\ size' = Append(size, 1) /\ latest' = latest
      /\ state' = state /\ def_header' = def_header /\ def_prev_latest' = def_prev_latest
      /\ marks' = marks /\ apps' = Holding({NextId}) /\ whole' = whole \cup {NextId}
      /\ ~state /\ def_header = 0
  BY DEF Keep, Settled, Orderly, defining
<1>2. Sequel(parts) /\ Len(parts) = 1 /\ parts[1] = "body"
  BY DEF Sequel, Parts
<1>3. dp \in Slots /\ NextId \in Ids
  BY <1>0, <1>1 DEF room, Ids
<1>4. LinksType' /\ \A a \in Slots : mem'[a] = IF a = dp THEN Slot(NextId, "body", 0) ELSE mem[a]
  <2>1. LinksType
    BY <1>0 DEF WordsTypeOK, LinksType
  <2>2. \A a \in Slots : mem'[a] = IF a = dp THEN Slot(NextId, "body", 0) ELSE mem[a]
    BY <1>1, <1>3, <2>1 DEF LinksType
  <2>3. Slot(NextId, "body", 0) \in [id : Ids, part : Parts, link : 0 .. SIZE]
    BY <1>0, <1>3 DEF Slot, Parts
  <2> QED
    BY <1>1, <1>3, <2>1, <2>2, <2>3 DEF LinksType
<1>5. Placed(NextId, parts)
  <2>1. \A a \in Slots : dp <= a /\ a < dp + 1 <=> a = dp
    BY <1>0
  <2>2. mem'[dp].id = NextId /\ mem'[dp].part = "body" /\ mem'[dp].part # "header"
    BY <1>3, <1>4 DEF Slot
  <2>3. dp - dp + 1 = 1
    BY <1>0
  <2> HIDE DEF parts
  <2> QED
    BY <1>1, <1>2, <1>4, <2>1, <2>2, <2>3 DEF Placed
<1> HIDE DEF parts
<1>6. /\ Laid(NextId, 1) /\ dp' \in 3 .. SIZE + 1
      /\ \A a \in Slots : dp <= a /\ a < dp' => mem'[a].part # "header"
  <2>1. Laid(NextId, 1) /\ dp' \in 3 .. SIZE + 1
    BY <1>1, <1>2, <1>5, PlacedIsLaid
  <2>2. \A a \in Slots : dp <= a /\ a < dp' => a = dp
    BY <1>0, <1>1
  <2> QED
    BY <1>3, <1>4, <2>1, <2>2 DEF Slot
<1>7. /\ apps' \in Seq([mark : Slots, dp : Slots \cup {SIZE + 1}, held : SUBSET Ids])
      /\ Len(apps') = Len(apps) /\ DOMAIN apps' = DOMAIN apps
      /\ \A i \in DOMAIN apps :
           /\ apps'[i].mark = apps[i].mark /\ apps'[i].dp = apps[i].dp
           /\ apps'[i].held = IF i = Len(apps) THEN apps[i].held \cup {NextId} ELSE apps[i].held
  BY <1>0, <1>1, <1>3, HoldingFacts
<1>8. size' \in Seq(Nat) /\ Len(size') = NextId /\ size'[NextId] = 1
      /\ \A id \in 1 .. Len(size) : size'[id] = size[id]
  BY <1>0, <1>1
<1>9. WordsTypeOK'
  BY <1>0, <1>1, <1>3, <1>4, <1>6, <1>7, <1>8 DEF WordsTypeOK, LinksType
<1>10. Headers' = Headers
  <2>1. Headers' = Headers \cup {a \in Slots : dp <= a /\ a < dp' /\ mem'[a].part = "header"}
    BY <1>0, <1>6, LaidOut
  <2> QED
    BY <1>6, <2>1
<1>11. Growth(NextId, 1)
  <2>1. /\ NextId \in Nat \ {0} /\ NextId \notin whole /\ Cardinality(Under(NextId)) = 0
        /\ \A a \in Slots : a < dp => mem[a].id # NextId
    BY Fresh
  <2>2. \A h \in Headers, a \in Slots : a < h => mem[a].id # NextId
    <3>1. \A h \in Headers, a \in Slots : a < h => a < dp
      BY <1>0
    <3> QED
      BY <2>1, <3>1
  <2>3. \A i \in DOMAIN apps, a \in Slots : a < apps[i].dp => mem[a].id # NextId
    <3>1. \A i \in DOMAIN apps : apps[i].dp <= dp /\ apps[i].dp \in Nat
      BY <1>0, AppFacts DEF AppsNested, Boundary
    <3>2. \A i \in DOMAIN apps, a \in Slots : a < apps[i].dp => a < dp
      BY <1>0, <3>1
    <3> QED
      BY <2>1, <3>2
  <2>4. Len(size) <= Len(size') /\ NextId <= Len(size') /\ size'[NextId] = Cardinality(Under(NextId)) + 1
    BY <1>0, <1>8, <2>1
  <2>5. latest' \in Headers'
    BY <1>1, <1>10, InvFacts
  <2>6. whole \subseteq whole' /\ NextId \in whole' /\ def_header' = 0
    BY <1>1
  <2> QED
    BY <1>1, <1>6, <1>7, <1>8, <2>1, <2>2, <2>3, <2>4, <2>5, <2>6 DEF Growth
<1>12. LaidDown' /\ AppsNested' /\ HeldStays'
  BY <1>9, <1>11, GrowthKeeps
<1>13. OneUnfinished'
  <2>1. \A h \in Headers' : mem'[h].id \in whole'
    <3>1. \A h \in Headers : h # dp /\ mem'[h] = mem[h]
      BY <1>0, <1>4
    <3> QED
      BY <1>0, <1>1, <1>10, <3>1 DEF OneUnfinished
  <2>2. whole \subseteq 0 .. Len(size)
    BY <1>0 DEF OneUnfinished
  <2>3. whole' \subseteq 0 .. Len(size')
    <3>1. Len(size') \in Nat /\ NextId \in 0 .. Len(size') /\ 0 .. Len(size) \subseteq 0 .. Len(size')
      BY <1>0, <1>8
    <3> QED
      BY <1>1, <2>2, <3>1
  <2> QED
    BY <1>1, <2>1, <2>3 DEF OneUnfinished
<1> QED
  BY <1>9, <1>12, <1>13 DEF WordsInv

\* The word under construction grows.
LEMMA HostGrows ==
  ASSUME WordsInv, WordsTypeOK', def_header # 0, NEW parts, Sequel(parts), Grow(parts),
         room(Len(parts)), \A i \in 1 .. Len(parts) : parts[i] # "header",
         latest' = latest, def_header' \in {0, def_header},
         marks' = marks, apps' = apps, whole' \in {whole, whole \cup {Host}}
  PROVE  /\ LaidDown' /\ AppsNested' /\ HeldStays' /\ Headers' = Headers
         /\ \A a \in Slots : a < dp => mem'[a] = mem[a]
         /\ \A a \in Slots : dp <= a /\ a < dp' => mem'[a].id = Host
         /\ whole' \subseteq 0 .. Len(size')
<1> PICK n : n = Host
  OBVIOUS
<1>0. /\ dp \in Nat /\ Len(size) \in Nat /\ Slots \subseteq Nat /\ OneUnfinished
      /\ n \in 1 .. Len(size) /\ n \notin whole /\ def_header \in Nat /\ def_header < dp
      /\ Cardinality(Under(n)) = size[n]
      /\ \A a \in Slots : a < def_header => mem[a].id # n
      /\ \A h \in Headers : h \in Nat /\ h <= def_header
      /\ WordsTypeOK /\ latest \in Headers
  BY InvFacts, HostFacts
<1>1. /\ Placed(n, parts)
      /\ \A a \in Slots : dp <= a /\ a < dp + Len(parts) => mem'[a].part # "header"
      /\ Len(size') = Len(size) /\ size'[n] = size[n] + Len(parts)
      /\ \A id \in 1 .. Len(size) : id # n => size'[id] = size[id]
  BY GrowPlaces
<1>2. Laid(n, Len(parts)) /\ Len(parts) \in 1 .. 3
  BY <1>1, PlacedIsLaid
<1>3. /\ \A a \in Slots : a < dp => mem'[a] = mem[a]
      /\ \A a \in Slots : dp <= a /\ a < dp' => mem'[a].id = n
      /\ dp' = dp + Len(parts)
  BY <1>2 DEF Laid
<1>4. Headers' = Headers
  <2>1. Headers' = Headers \cup {a \in Slots : dp <= a /\ a < dp' /\ mem'[a].part = "header"}
    BY <1>0, <1>2, LaidOut
  <2>2. {a \in Slots : dp <= a /\ a < dp' /\ mem'[a].part = "header"} = {}
    BY <1>1, <1>3
  <2> QED
    BY <2>1, <2>2
<1>5. \A i \in DOMAIN apps : apps[i].dp <= def_header /\ apps[i].dp \in Nat
  BY <1>0, InvFacts, AppFacts DEF AppsNested
<1>6. Growth(n, Len(parts))
  <2>1. \A h \in Headers, a \in Slots : a < h => mem[a].id # n
    <3>1. \A h \in Headers, a \in Slots : a < h => a < def_header
      BY <1>0
    <3> QED
      BY <1>0, <3>1
  <2>2. \A i \in DOMAIN apps, a \in Slots : a < apps[i].dp => mem[a].id # n
    <3>1. \A i \in DOMAIN apps, a \in Slots : a < apps[i].dp => a < def_header
      BY <1>0, <1>5
    <3> QED
      BY <1>0, <3>1
  <2>3. /\ Len(size) <= Len(size') /\ n <= Len(size') /\ n \in Nat \ {0}
        /\ size'[n] = Cardinality(Under(n)) + Len(parts)
    BY <1>0, <1>1
  <2>4. \A i \in DOMAIN apps : def_header' # 0 => apps[i].dp <= def_header'
    BY <1>5
  <2>5. \A a \in Slots : ~ (dp <= a /\ a < dp' /\ mem'[a].part = "header")
    BY <1>1, <1>3
  <2> QED
    BY <1>0, <1>1, <1>2, <1>4, <2>1, <2>2, <2>3, <2>4, <2>5 DEF Growth
<1>7. LaidDown' /\ AppsNested' /\ HeldStays'
  BY <1>2, <1>6, GrowthKeeps
<1>8. whole' \subseteq 0 .. Len(size')
  <2>1. whole \subseteq 0 .. Len(size)
    BY <1>0 DEF OneUnfinished
  <2>2. n \in 0 .. Len(size)
    BY <1>0
  <2> QED
    BY <1>1, <2>1, <2>2
<1> QED
  BY <1>3, <1>4, <1>7, <1>8

LEMMA CompileKeeps == ASSUME WordsInv, Orderly, Compile PROVE WordsInv'
<1> DEFINE parts == <<"body">>
<1>0. WordsTypeOK /\ OneUnfinished /\ dp \in Nat /\ Slots \subseteq Nat /\ Headers \subseteq Slots
      /\ (\A h \in Headers : h < dp)
  BY InvFacts
<1>1. /\ state /\ room(1) /\ Grow(parts) /\ latest' = latest
      /\ state' = state /\ def_header' = def_header /\ def_prev_latest' = def_prev_latest
      /\ marks' = marks /\ apps' = apps /\ whole' = whole
  BY DEF Compile, defining
<1>2. Sequel(parts) /\ Len(parts) = 1 /\ \A i \in 1 .. Len(parts) : parts[i] # "header"
  BY DEF Sequel, Parts
<1> HIDE DEF parts
<1>3. def_header # 0
  BY <1>0, <1>1 DEF OneUnfinished
<1>4. Placed(Host, parts) /\ LinksType' /\ size' \in Seq(Nat)
  BY <1>1, <1>2, <1>3, GrowPlaces
<1>5. dp' \in 3 .. SIZE + 1
  BY <1>1, <1>2, <1>4, PlacedIsLaid
<1>6. WordsTypeOK'
  BY <1>0, <1>1, <1>4, <1>5 DEF WordsTypeOK, LinksType
<1>7. /\ LaidDown' /\ AppsNested' /\ HeldStays' /\ Headers' = Headers
      /\ \A a \in Slots : a < dp => mem'[a] = mem[a]
      /\ \A a \in Slots : dp <= a /\ a < dp' => mem'[a].id = Host
      /\ whole' \subseteq 0 .. Len(size')
  BY <1>1, <1>2, <1>3, <1>6, HostGrows
<1>8. OneUnfinished'
  <2>1. /\ latest = def_header /\ def_header # primitives_end /\ def_header \in Headers
        /\ def_prev_latest = mem[def_header].link /\ Host \notin whole
        /\ Host = mem[def_header].id
        /\ \A a \in Slots : def_header < a /\ a < dp => mem[a].id = Host /\ a \notin Headers
        /\ \A h \in Headers : mem[h].id \in whole \/ h = def_header
    BY <1>0, <1>3, HostFacts DEF OneUnfinished
  <2>2. mem'[def_header] = mem[def_header] /\ def_header \in Slots
    BY <1>0, <1>7, <2>1
  <2>3. Host' = Host
    BY <1>1, <2>1, <2>2 DEF Host
  <2>4. \A h \in Headers : mem'[h] = mem[h]
    BY <1>0, <1>7
  <2>5. \A a \in Slots : def_header < a /\ a < dp' => mem'[a].id = Host /\ a \notin Headers
    <3> SUFFICES ASSUME NEW a \in Slots, def_header < a, a < dp'
                 PROVE  mem'[a].id = Host /\ a \notin Headers
      OBVIOUS
    <3>1. CASE a < dp
      BY <1>7, <2>1, <3>1
    <3>2. CASE dp <= a
      BY <1>0, <1>7, <3>2
    <3> QED
      BY <1>0, <3>1, <3>2
  <2>6. \A h \in Headers' : mem'[h].id \in whole' \/ h = def_header'
    BY <1>1, <1>7, <2>1, <2>4
  <2>7. /\ latest' = def_header' /\ def_header' # primitives_end /\ def_header' # 0
        /\ def_prev_latest' = mem'[def_header'].link /\ Host' \notin whole'
    BY <1>1, <1>3, <2>1, <2>2, <2>3
  <2>8. \A a \in Slots : def_header' < a /\ a < dp' => mem'[a].id = Host' /\ a \notin Headers'
    BY <1>1, <1>7, <2>3, <2>5
  <2> QED
    BY <1>7, <2>6, <2>7, <2>8 DEF OneUnfinished
<1> QED
  BY <1>6, <1>7, <1>8 DEF WordsInv

LEMMA SemiKeeps == ASSUME WordsInv, Orderly, Semi PROVE WordsInv'
<1> DEFINE parts == IF room(2) /\ Host # 0 THEN <<"body", "native">> ELSE <<"body">>
<1>0. WordsTypeOK /\ OneUnfinished /\ dp \in Nat /\ Slots \subseteq Nat /\ Headers \subseteq Slots
      /\ (\A h \in Headers : h < dp)
  BY InvFacts
<1>1. /\ state /\ room(1) /\ Grow(parts) /\ latest' = latest
      /\ ~state' /\ state' \in BOOLEAN /\ def_header' = 0 /\ def_prev_latest' = def_prev_latest
      /\ marks' = marks /\ apps' = apps /\ whole' = whole \cup {Host}
  BY DEF Semi
<1>2. /\ Sequel(parts) /\ room(Len(parts))
      /\ \A i \in 1 .. Len(parts) : parts[i] # "header"
  <2>1. CASE room(2) /\ Host # 0
    <3>1. parts = <<"body", "native">>
      BY <2>1
    <3> HIDE DEF parts
    <3> QED
      BY <2>1, <3>1 DEF Sequel, Parts
  <2>2. CASE ~ (room(2) /\ Host # 0)
    <3>1. parts = <<"body">>
      BY <2>2
    <3> HIDE DEF parts
    <3> QED
      BY <1>1, <3>1 DEF Sequel, Parts
  <2> QED
    BY <2>1, <2>2
<1> HIDE DEF parts
<1>3. def_header # 0
  BY <1>0, <1>1 DEF OneUnfinished
<1>4. Placed(Host, parts) /\ LinksType' /\ size' \in Seq(Nat)
  BY <1>1, <1>2, <1>3, GrowPlaces
<1>5. dp' \in 3 .. SIZE + 1
  BY <1>1, <1>2, <1>4, PlacedIsLaid
<1>6. WordsTypeOK'
  <2>1. Host \in Ids /\ 0 \in 0 .. SIZE
    BY <1>0, <1>3, HostFacts, SlotFacts DEF WordsTypeOK
  <2> QED
    BY <1>0, <1>1, <1>4, <1>5, <2>1 DEF WordsTypeOK, LinksType
<1>7. /\ LaidDown' /\ AppsNested' /\ HeldStays' /\ Headers' = Headers
      /\ \A a \in Slots : a < dp => mem'[a] = mem[a]
      /\ whole' \subseteq 0 .. Len(size')
  BY <1>1, <1>2, <1>3, <1>6, HostGrows
<1>8. OneUnfinished'
  <2>1. /\ Host = mem[def_header].id
        /\ \A h \in Headers : mem[h].id \in whole \/ h = def_header
    BY <1>0, <1>3, HostFacts DEF OneUnfinished
  <2>2. \A h \in Headers : mem'[h] = mem[h]
    BY <1>0, <1>7
  <2>3. \A h \in Headers' : mem'[h].id \in whole'
    BY <1>1, <1>7, <2>1, <2>2
  <2> QED
    BY <1>1, <1>7, <2>3 DEF OneUnfinished
<1> QED
  BY <1>6, <1>7, <1>8 DEF WordsInv

-----------------------------------------------------------------------------
(* What gives something back, and the rest.                                *)

LEMMA WordsStay == ASSUME WordsInv, UNCHANGED dvars PROVE WordsInv'
<1>1. /\ mem' = mem /\ dp' = dp /\ latest' = latest /\ state' = state /\ def_header' = def_header
      /\ def_prev_latest' = def_prev_latest /\ marks' = marks /\ apps' = apps /\ size' = size
      /\ whole' = whole
  BY DEF dvars
<1>2. WordsTypeOK' /\ LaidDown' /\ OneUnfinished' /\ AppsNested' /\ HeldStays'
  <2>1. WordsTypeOK /\ LaidDown /\ OneUnfinished /\ AppsNested /\ HeldStays
    BY DEF WordsInv
  <2>2. WordsTypeOK'
    BY <1>1, <2>1 DEF WordsTypeOK
  <2>3. LaidDown'
    BY <1>1, <2>1 DEF LaidDown, Headers, Boundary, Intact
  <2>4. OneUnfinished'
    BY <1>1, <2>1 DEF OneUnfinished, Headers, Host
  <2>5. AppsNested'
    BY <1>1, <2>1 DEF AppsNested, Headers, Boundary
  <2>6. HeldStays'
    BY <1>1, <2>1 DEF HeldStays, Held, Intact
  <2> QED
    BY <2>2, <2>3, <2>4, <2>5, <2>6
<1> QED
  BY <1>2 DEF WordsInv

\* A header but the kernel's is past the kernel, and no word lies across it.
LEMMA HeaderFacts ==
  ASSUME WordsInv, NEW h \in Headers, h # primitives_end
  PROVE  /\ h \in 3 .. SIZE /\ h <= dp /\ h \in Nat /\ Boundary(h)
         /\ mem[h].link \in Headers /\ mem[h].link < h /\ mem[h].link \in Slots
<1>1. LaidDown /\ Headers \subseteq Slots /\ Slots = 1 .. SIZE /\ SIZE \in Nat /\ dp \in Nat /\ h < dp
  BY InvFacts
<1>2. h # 2
  BY <1>1 DEF LaidDown, Headers, Slot
<1>3. h \in 1 .. SIZE /\ h # 1
  BY <1>1 DEF primitives_end
<1>4. h \in 3 .. SIZE /\ h \in Nat
  BY <1>1, <1>2, <1>3
<1>5. Boundary(h) /\ mem[h].link \in Headers /\ mem[h].link < h
  BY <1>1 DEF LaidDown
<1>6. h <= dp
  BY <1>1, <1>4
<1>7. mem[h].link \in Slots
  BY <1>1, <1>5, Zenon
<1> QED
  BY <1>4, <1>5, <1>6, <1>7

LEMMA ErrorKeeps == ASSUME WordsInv, state \/ def_header = 0, Error PROVE WordsInv'
<1>0. WordsTypeOK /\ OneUnfinished /\ AppsNested /\ dp \in Nat /\ Slots \subseteq Nat /\ SIZE \in Nat
  BY InvFacts
<1>1. /\ mem' = mem /\ size' = size /\ whole' = whole /\ marks' = marks /\ apps' = apps
      /\ def_header' = 0 /\ ~state' /\ state' \in BOOLEAN /\ def_prev_latest' = def_prev_latest
  BY DEF Error, Undo
<1>2. CASE state
  <2>1. def_header # 0
    BY <1>0, <1>2 DEF OneUnfinished
  <2>2. latest' = def_prev_latest /\ dp' = def_header
    BY <1>2, <2>1 DEF Error, Undo
  <2>3. /\ def_header \in Headers /\ def_header \in Nat /\ def_header # primitives_end
        /\ def_prev_latest = mem[def_header].link /\ Host \notin whole
        /\ \A a \in Slots : def_header <= a /\ a < dp => mem[a].id = Host
    BY <2>1, HostFacts
  <2>4. /\ def_header \in 3 .. SIZE /\ def_header <= dp /\ Boundary(def_header)
        /\ mem[def_header].link \in Headers /\ mem[def_header].link < def_header
        /\ mem[def_header].link \in Slots
    BY <2>3, HeaderFacts
  <2>5. WordsTypeOK'
    <3>1. dp' \in 3 .. SIZE + 1 /\ 0 \in 0 .. SIZE
      BY <1>0, <2>2, <2>4
    <3> QED
      BY <1>0, <1>1, <2>2, <2>3, <2>4, <3>1 DEF WordsTypeOK
  <2>6. \A h \in Headers : h < dp' => mem[h].id \in whole
    <3>1. \A h \in Headers : mem[h].id \in whole \/ h = def_header
      BY <1>0 DEF OneUnfinished
    <3> QED
      BY <2>2, <2>3, <3>1
  <2>7. \A i \in DOMAIN apps : apps[i].dp <= dp'
    BY <1>0, <2>1, <2>2 DEF AppsNested
  <2>8. ASSUME NEW i \in DOMAIN apps, NEW a \in Slots, a < dp, mem[a].id \in apps[i].held
        PROVE  a < dp'
    <3>1. mem[a].id # Host
      BY <1>0, <2>3, <2>8 DEF AppsNested
    <3> QED
      BY <1>0, <2>2, <2>3, <2>8, <3>1
  <2>9. Boundary(dp')
    BY <2>2, <2>4
  <2>10. Len(marks) = Len(apps)
    BY <1>0 DEF AppsNested
  <2>11. GiveBack
    BY <1>1, <2>2, <2>3, <2>4, <2>6, <2>7, <2>8, <2>9, <2>10 DEF GiveBack
  <2> QED
    BY <2>5, <2>11, GiveBackKeeps
<1>3. CASE ~state
  <2>1. state \in BOOLEAN
    BY <1>0 DEF WordsTypeOK
  <2>2. state' = state
    BY <1>1, <1>3, <2>1
  <2>3. dp' = dp /\ latest' = latest /\ def_header' = def_header
    BY <1>1, <1>3 DEF Error, Undo
  <2>4. UNCHANGED dvars
    BY <1>1, <2>2, <2>3 DEF dvars
  <2> QED
    BY <2>4, WordsStay
<1> QED
  BY <1>2, <1>3

\* What a compiling word lays down after its error lies where the definition was, which is
\* above all that is held and all that can be found.
LEMMA SpillKeeps == ASSUME WordsInv, def_header # 0, Spill PROVE WordsInv'
<1> PICK h, n : h = def_header /\ n = Host
  OBVIOUS
<1>0. /\ WordsTypeOK /\ LaidDown /\ OneUnfinished /\ AppsNested /\ HeldStays
      /\ dp \in Nat /\ SIZE \in Nat /\ MaxWords \in Nat /\ Slots \subseteq Nat /\ Slots = 1 .. SIZE
      /\ size \in Seq(Nat) /\ Len(size) \in Nat /\ Headers \subseteq Slots
  BY InvFacts
<1>1. /\ h \in Headers /\ h \in Nat /\ h < dp /\ n \notin whole /\ n \in 1 .. Len(size)
      /\ h # primitives_end /\ def_prev_latest = mem[h].link
      /\ \A a \in Slots : a < h => mem[a].id # n
      /\ \A a \in Slots : h <= a /\ a < dp => mem[a].id = n
  BY HostFacts
<1>2. /\ \A g \in Headers : g <= h
  BY HostFacts
<1>3. /\ h \in 3 .. SIZE /\ h <= dp /\ Boundary(h)
      /\ mem[h].link \in Headers /\ mem[h].link < h /\ mem[h].link \in Slots
  BY <1>1, HeaderFacts
<1>4. /\ mem' = [mem EXCEPT ![h] = Slot(n, "body", 0)] /\ dp' = h + 1 /\ latest' = mem[h].link
      /\ size' = [size EXCEPT ![n] = 1] /\ whole' = whole \cup {n}
      /\ def_header' = 0 /\ ~state' /\ state' \in BOOLEAN /\ def_prev_latest' = def_prev_latest
      /\ marks' = marks /\ apps' = apps
  <2>1. n # 0
    BY <1>0, <1>1
  <2> QED
    BY <1>1, <2>1 DEF Spill
<1>5. h \in Slots /\ n \in Ids /\ dp' \in 3 .. SIZE + 1 /\ dp' \in Nat
  <2>1. mem \in [Slots -> [id : Ids, part : Parts, link : 0 .. SIZE]]
    BY <1>0 DEF WordsTypeOK
  <2>2. h \in Slots
    BY <1>0, <1>1
  <2>3. n \in Ids
    BY <1>1, <2>1, <2>2
  <2> QED
    BY <1>0, <1>3, <1>4, <2>2, <2>3
<1>6. \A a \in Slots : mem'[a] = IF a = h THEN Slot(n, "body", 0) ELSE mem[a]
  BY <1>0, <1>4, <1>5 DEF WordsTypeOK
<1>7. \A a \in Slots : /\ (a < dp' <=> a < h \/ a = h) /\ (a < h => a < dp /\ a # h)
  BY <1>0, <1>1, <1>4
<1>8. mem'[h].id = n /\ mem'[h].part = "body" /\ \A a \in Slots : a < h => mem'[a] = mem[a]
  BY <1>5, <1>6, <1>7 DEF Slot
<1>9. /\ size' \in Seq(Nat) /\ Len(size') = Len(size) /\ size'[n] = 1
      /\ \A id \in 1 .. Len(size) : id # n => size'[id] = size[id]
  BY <1>0, <1>1, <1>4
<1>10. ASSUME NEW id, id # n
       PROVE  Under(id)' = Under(id)
  <2>1. \A a : a \in Under(id) <=> a \in Slots /\ a < dp /\ mem[a].id = id
    BY DEF Under
  <2>2. \A a : a \in Under(id)' <=> a \in Slots /\ a < dp' /\ mem'[a].id = id
    BY DEF Under
  <2>3. \A a \in Slots : a < dp /\ mem[a].id = id => a < h
    <3>1. \A a \in Slots : a < h \/ h <= a
      BY <1>0, <1>1
    <3> QED
      BY <1>1, <1>10, <3>1
  <2>4. \A a \in Slots : a < dp' /\ mem'[a].id = id => a < h
    BY <1>7, <1>8, <1>10
  <2> QED
    BY <1>7, <1>8, <2>1, <2>2, <2>3, <2>4
<1>11. Cardinality(Under(n)') = 1
  <2>1. \A a : a \in Under(n)' <=> a \in Slots /\ a < dp' /\ mem'[a].id = n
    BY DEF Under
  <2>2. Under(n)' = {h}
    BY <1>1, <1>5, <1>7, <1>8, <2>1
  <2>3. Cardinality({h}) = 1
    BY FS_Singleton
  <2> QED
    BY <2>2, <2>3, Zenon
<1>12. ASSUME NEW id, Intact(id), id \in 0 .. Len(size), id # n
       PROVE  Intact(id)'
  <2>1. CASE id = 0
    BY <2>1 DEF Intact
  <2>2. CASE id # 0
    <3>1. id \in 1 .. Len(size)
      BY <1>0, <1>12, <2>2
    <3>2. size'[id] = size[id] /\ Under(id)' = Under(id)
      BY <1>9, <1>10, <1>12, <3>1
    <3> QED
      BY <1>12, <3>2, IntactStays
  <2> QED
    BY <2>1, <2>2
<1>13. Intact(n)'
  <2>1. size'[n] = Cardinality(Under(n)')
    BY <1>9, <1>11
  <2> QED
    BY <2>1 DEF Intact, Under
<1>14. Headers' = Headers \ {h}
  <2>1. \A a : a \in Headers <=> a \in Slots /\ a < dp /\ mem[a].part = "header"
    BY DEF Headers
  <2>2. \A a : a \in Headers' <=> a \in Slots /\ a < dp' /\ mem'[a].part = "header"
    BY DEF Headers
  <2>3. \A a \in Headers : a = h \/ a < h
    BY <1>0, <1>1, <1>2
  <2> QED
    BY <1>7, <1>8, <2>1, <2>2, <2>3
<1>15. ASSUME NEW e \in Nat, Boundary(e), e <= h
       PROVE  Boundary(e)'
  <2>1. \A a, b \in Slots : a < e /\ e <= b /\ b < dp => mem[a].id # mem[b].id
    BY <1>15 DEF Boundary
  <2>2. e <= dp' /\ \A a \in Slots : a < e => a < h
    BY <1>0, <1>1, <1>4, <1>15
  <2>3. ASSUME NEW a \in Slots, NEW b \in Slots, a < e, e <= b, b < dp'
        PROVE  mem'[a].id # mem'[b].id
    <3>1. a < h /\ mem'[a] = mem[a] /\ mem[a].id # n
      BY <1>1, <1>8, <2>2, <2>3
    <3>2. CASE b = h
      BY <1>8, <3>1, <3>2
    <3>3. CASE b < h
      BY <1>7, <1>8, <2>1, <2>3, <3>1, <3>3
    <3> QED
      BY <1>7, <2>3, <3>2, <3>3
  <2> QED
    BY <2>2, <2>3 DEF Boundary
<1>16. LaidDown'
  <2>1. mem'[1] = Slot(0, "header", 0) /\ mem'[2] = Slot(0, "code", 0)
    <3>1. 1 \in Slots /\ 2 \in Slots /\ 1 < h /\ 2 < h
      BY <1>3, SlotFacts
    <3> QED
      BY <1>0, <1>8, <3>1 DEF LaidDown
  <2>2. latest' \in Headers'
    BY <1>0, <1>1, <1>3, <1>4, <1>14
  <2>3. ASSUME NEW a \in Slots, a < dp'
        PROVE  mem'[a].part # "free" /\ mem'[a].id <= Len(size') /\ Intact(mem[a].id)'
    <3>1. CASE a = h
      <4>1. mem'[a].id = n /\ mem'[a].part = "body" /\ mem[a].id = n
        BY <1>0, <1>1, <1>8, <3>1
      <4>2. n <= Len(size') /\ "body" # "free"
        BY <1>1, <1>9
      <4>3. Intact(mem[a].id)'
        BY <1>13, <4>1 DEF Intact
      <4> QED
        BY <4>1, <4>2, <4>3
    <3>2. CASE a < h
      <4> PICK id : id = mem[a].id
        OBVIOUS
      <4>1. mem'[a] = mem[a] /\ a < dp /\ id # n
        BY <1>1, <1>7, <1>8, <3>2
      <4>2. mem[a].part # "free" /\ id <= Len(size) /\ Intact(mem[a].id)
        BY <1>0, <4>1 DEF LaidDown
      <4>3. id \in 0 .. Len(size)
        <5>1. mem \in [Slots -> [id : Ids, part : Parts, link : 0 .. SIZE]]
          BY <1>0 DEF WordsTypeOK
        <5>2. id \in Ids
          BY <5>1
        <5> QED
          BY <1>0, <4>2, <5>2 DEF Ids
      <4>4. Intact(id)'
        BY <1>12, <4>1, <4>2, <4>3
      <4> QED
        BY <1>9, <4>1, <4>2, <4>4 DEF Intact
    <3> QED
      BY <1>7, <2>3, <3>1, <3>2
  <2>4. ASSUME NEW g \in Headers'
        PROVE  /\ Boundary(g)'
               /\ g # primitives_end => mem'[g].link \in Headers' /\ mem'[g].link < g
    <3>1. g \in Headers /\ g # h /\ g \in Slots /\ g \in Nat /\ g < h
      BY <1>0, <1>1, <1>2, <1>14
    <3>2. /\ Boundary(g)
          /\ g # primitives_end => mem[g].link \in Headers /\ mem[g].link < g
      BY <1>0, <3>1 DEF LaidDown
    <3>3. Boundary(g)'
      BY <1>1, <1>15, <3>1, <3>2
    <3>4. mem'[g] = mem[g]
      BY <1>8, <3>1
    <3>5. g # primitives_end => mem[g].link # h
      <4>1. Headers \subseteq Nat
        BY <1>0
      <4> QED
        BY <1>1, <3>1, <3>2, <4>1
    <3> QED
      BY <1>14, <3>2, <3>3, <3>4, <3>5
  <2> QED
    BY <2>1, <2>2, <2>3, <2>4 DEF LaidDown
<1>17. WordsTypeOK'
  <2>1. mem' \in [Slots -> [id : Ids, part : Parts, link : 0 .. SIZE]]
    <3>1. Slot(n, "body", 0) \in [id : Ids, part : Parts, link : 0 .. SIZE]
      BY <1>0, <1>5 DEF Slot, Parts
    <3> QED
      BY <1>0, <1>4, <1>5, <3>1 DEF WordsTypeOK
  <2>2. 0 \in 0 .. SIZE /\ whole' \subseteq Ids
    BY <1>0, <1>4, <1>5 DEF WordsTypeOK
  <2> QED
    BY <1>0, <1>3, <1>4, <1>5, <1>9, <2>1, <2>2 DEF WordsTypeOK
<1>18. OneUnfinished'
  <2>1. \A g \in Headers' : mem'[g].id \in whole'
    <3>1. \A g \in Headers' : g \in Headers /\ g # h /\ mem'[g] = mem[g]
      BY <1>0, <1>6, <1>14
    <3>2. \A g \in Headers : mem[g].id \in whole \/ g = h
      BY <1>0 DEF OneUnfinished
    <3> QED
      BY <1>4, <3>1, <3>2
  <2>2. whole' \subseteq 0 .. Len(size')
    <3>1. whole \subseteq 0 .. Len(size) /\ n \in 0 .. Len(size)
      BY <1>0, <1>1 DEF OneUnfinished
    <3> QED
      BY <1>4, <1>9, <3>1
  <2> QED
    BY <1>4, <2>1, <2>2 DEF OneUnfinished
<1>19. ASSUME NEW i \in DOMAIN apps
       PROVE  /\ apps[i].dp \in Nat /\ apps[i].dp <= h /\ Boundary(apps[i].dp)
              /\ marks[i] = [latest |-> apps[i].mark, dp |-> apps[i].dp]
              /\ apps[i].mark \in Headers /\ apps[i].mark < apps[i].dp /\ apps[i].mark # h
              /\ apps[i].held \subseteq whole /\ n \notin apps[i].held
  <2>1. /\ apps[i].dp <= h /\ Boundary(apps[i].dp)
        /\ marks[i] = [latest |-> apps[i].mark, dp |-> apps[i].dp]
        /\ apps[i].mark \in Headers /\ apps[i].mark < apps[i].dp
        /\ apps[i].held \subseteq whole
    BY <1>0 DEF AppsNested
  <2>2. apps[i].dp \in Nat /\ apps[i].mark \in Nat
    BY <1>0, <2>1, AppFacts
  <2>3. apps[i].mark # h
    BY <1>1, <2>1, <2>2
  <2> QED
    BY <1>1, <2>1, <2>2, <2>3
<1>20. AppsNested'
  <2>1. Len(marks') = Len(apps')
    BY <1>0, <1>4 DEF AppsNested
  <2>2. ASSUME NEW i \in DOMAIN apps
        PROVE  Boundary(apps[i].dp)'
    <3> PICK e : e = apps[i].dp
      OBVIOUS
    <3>1. Boundary(e) /\ e \in Nat /\ e <= h
      BY <1>19
    <3>2. Boundary(e)'
      BY <1>15, <3>1
    <3> QED
      BY <1>4, <3>2 DEF Boundary
  <2>3. ASSUME NEW i \in DOMAIN apps, NEW j \in DOMAIN apps, i < j
        PROVE  /\ apps[i].dp <= apps[j].dp
               /\ \A a \in Slots : a < dp' /\ mem'[a].id \in apps[i].held => a < apps[j].dp
    <3>1. /\ apps[i].dp <= apps[j].dp
          /\ \A a \in Slots : a < dp /\ mem[a].id \in apps[i].held => a < apps[j].dp
      BY <1>0, <2>3 DEF AppsNested
    <3>2. ASSUME NEW a \in Slots, a < dp', mem'[a].id \in apps[i].held
          PROVE  a < apps[j].dp
      <4>1. a # h
        BY <1>8, <1>19, <3>2
      <4>2. a < h /\ a < dp /\ mem'[a] = mem[a]
        BY <1>7, <1>8, <3>2, <4>1
      <4> QED
        BY <3>1, <3>2, <4>2
    <3> QED
      BY <3>1, <3>2
  <2>4. ASSUME NEW i \in DOMAIN apps
        PROVE  apps[i].mark \in Headers' /\ apps[i].held \subseteq whole'
    BY <1>4, <1>14, <1>19
  <2> QED
    BY <1>4, <1>19, <2>1, <2>2, <2>3, <2>4 DEF AppsNested
<1>21. HeldStays'
  <2> SUFFICES ASSUME NEW i \in DOMAIN apps, NEW id \in apps[i].held
               PROVE  Intact(id)'
    BY <1>4 DEF HeldStays, Held
  <2>1. Intact(id) /\ id # n
    BY <1>0, <1>19 DEF HeldStays, Held
  <2>2. id \in 0 .. Len(size)
    BY <1>0, <1>19 DEF OneUnfinished
  <2> QED
    BY <1>12, <2>1, <2>2
<1> QED
  BY <1>16, <1>17, <1>18, <1>20, <1>21 DEF WordsInv

\* What a link leads to is below dp.
LEMMA ChainIsHeaders == ASSUME WordsInv PROVE Chain \subseteq Headers
<1>1. LinksType /\ LaidDown /\ latest \in Headers
  BY InvFacts DEF WordsTypeOK, LinksType
<1> QED
  BY <1>1, ChainDown DEF Chain

LEMMA ForgetKeeps == ASSUME WordsInv, Orderly, Forget PROVE WordsInv'
<1>0. /\ WordsTypeOK /\ OneUnfinished /\ AppsNested /\ LaidDown /\ dp \in Nat
      /\ Slots \subseteq Nat /\ SIZE \in Nat
  BY InvFacts
<1>1. PICK h \in Chain \ {primitives_end} : Recent(h) /\ latest' = mem[h].link /\ dp' = h
  BY DEF Forget, Orderly
<1>2. /\ mem' = mem /\ size' = size /\ whole' = whole /\ marks' = marks /\ apps' = apps
      /\ state' = state /\ ~state /\ def_header = 0 /\ def_header' = 0
      /\ def_prev_latest' = def_prev_latest
  BY DEF Forget, Tidy, Orderly, defining
<1>3. h \in Headers /\ h # primitives_end
  BY <1>1, ChainIsHeaders
<1>4. /\ h \in 3 .. SIZE /\ h <= dp /\ h \in Nat /\ Boundary(h)
      /\ mem[h].link \in Headers /\ mem[h].link < h /\ mem[h].link \in Slots
  BY <1>3, HeaderFacts
<1>5. WordsTypeOK'
  <2>1. dp' \in 3 .. SIZE + 1
    BY <1>0, <1>1, <1>4
  <2> QED
    BY <1>0, <1>1, <1>2, <1>4, <2>1 DEF WordsTypeOK
<1>6. \A k \in Headers : mem[k].id \in whole
  <2>1. \A k \in Headers : k # 0
    BY SlotFacts DEF Headers, Slots
  <2> QED
    BY <1>0, <1>2, <2>1 DEF OneUnfinished
<1>7. ASSUME NEW i \in DOMAIN apps
      PROVE  apps[i].dp <= dp'
  BY <1>0, <1>1, <1>4, AppFacts DEF Recent
<1>8. ASSUME NEW i \in DOMAIN apps, NEW a \in Slots, a < dp, mem[a].id \in apps[i].held
      PROVE  a < dp'
  <2>1. mem[a].part # "free"
    BY <1>0, <1>8 DEF LaidDown
  <2>2. mem[a].id \in Held
    BY <1>8 DEF Held
  <2> QED
    BY <1>1, <2>1, <2>2 DEF Recent
<1>9. Boundary(dp') /\ dp' <= dp /\ latest' \in Headers /\ latest' < dp'
  BY <1>1, <1>4
<1>10. Len(marks) = Len(apps)
  BY <1>0 DEF AppsNested
<1>11. GiveBack
  BY <1>2, <1>6, <1>7, <1>8, <1>9, <1>10 DEF GiveBack
<1> QED
  BY <1>5, <1>11, GiveBackKeeps

\* An app's own mark is the last there is, and is of that app.
LEMMA CloseGivesBack ==
  ASSUME WordsInv, AppClose
  PROVE  /\ apps # <<>> /\ Len(apps) \in DOMAIN apps /\ dp' = Last(apps).dp /\ latest' = Last(apps).mark
         /\ marks' = SubSeq(marks, 1, Len(apps) - 1)
<1> DEFINE App == [mark : Slots, dp : Slots \cup {SIZE + 1}, held : SUBSET Ids]
           Marked == [latest : Slots, dp : Slots \cup {SIZE + 1}]
           mark == Last(apps).mark
           found == {i \in DOMAIN marks : marks[i].latest = mark}
           i == CHOOSE n \in found : \A k \in found : k <= n
<1>0. WordsTypeOK /\ AppsNested /\ apps # <<>>
  BY InvFacts DEF AppClose
<1>1. apps \in Seq(App) /\ marks \in Seq(Marked)
  BY <1>0 DEF WordsTypeOK
<1> HIDE DEF App, Marked
<1>2. /\ Len(apps) \in Nat /\ Len(apps) # 0 /\ Len(marks) = Len(apps)
      /\ DOMAIN apps = 1 .. Len(apps) /\ DOMAIN marks = 1 .. Len(apps)
      /\ Len(apps) \in DOMAIN apps
  <2>1. Len(marks) = Len(apps)
    BY <1>0 DEF AppsNested
  <2> QED
    BY <1>0, <1>1, <2>1
<1>3. Last(apps) = apps[Len(apps)]
  BY DEF Last
<1>4. marks[Len(apps)] = [latest |-> mark, dp |-> Last(apps).dp]
  BY <1>0, <1>2, <1>3 DEF AppsNested
<1>5. Len(apps) \in found
  BY <1>2, <1>4
<1>6. \A k \in found : k <= Len(apps) /\ k \in Nat
  BY <1>2
<1>7. i = Len(apps)
  <2> HIDE DEF found
  <2>1. \E n \in found : \A k \in found : k <= n
    BY <1>5, <1>6
  <2>2. i \in found /\ \A k \in found : k <= i
    BY <2>1
  <2> HIDE DEF i
  <2> QED
    BY <1>2, <1>5, <1>6, <2>2
<1>8. Release(mark)
  BY DEF AppClose
<1>9. latest' = mark /\ dp' = marks[i].dp /\ marks' = SubSeq(marks, 1, i - 1)
  BY <1>5, <1>8, Zenon DEF Release
<1> HIDE DEF i, found
<1> QED
  BY <1>0, <1>2, <1>4, <1>7, <1>9

LEMMA AppCloseKeeps == ASSUME WordsInv, Orderly, AppClose PROVE WordsInv'
<1> DEFINE App == [mark : Slots, dp : Slots \cup {SIZE + 1}, held : SUBSET Ids]
           Marked == [latest : Slots, dp : Slots \cup {SIZE + 1}]
<1> PICK n : n = Len(apps)
  OBVIOUS
<1>0. /\ WordsTypeOK /\ OneUnfinished /\ AppsNested /\ LaidDown /\ dp \in Nat /\ 3 <= dp
      /\ Slots = 1 .. SIZE /\ Slots \subseteq Nat /\ SIZE \in Nat /\ Headers \subseteq Slots /\ dp <= SIZE + 1
  BY InvFacts
<1>1. /\ apps # <<>> /\ n \in DOMAIN apps /\ dp' = apps[n].dp /\ latest' = apps[n].mark
      /\ marks' = SubSeq(marks, 1, n - 1)
  BY CloseGivesBack DEF Last
<1>2. /\ mem' = mem /\ size' = size /\ whole' = whole /\ apps' = Front(apps)
      /\ state' = state /\ ~state /\ def_header = 0 /\ def_header' = 0
      /\ def_prev_latest' = def_prev_latest
  BY DEF AppClose, Settled, Orderly, defining
<1>3. apps \in Seq(App) /\ marks \in Seq(Marked) /\ Len(marks) = n
  BY <1>0 DEF WordsTypeOK, AppsNested
<1>4. n \in Nat /\ n # 0 /\ DOMAIN apps = 1 .. n
  <2> HIDE DEF App, Marked
  <2> QED
    BY <1>1, <1>3
<1>5. /\ apps' \in Seq(App) /\ Len(apps') = n - 1 /\ DOMAIN apps' = 1 .. n - 1
      /\ \A i \in 1 .. n - 1 : apps'[i] = apps[i]
  <2> HIDE DEF App, Marked
  <2>1. apps' = SubSeq(apps, 1, n - 1)
    BY <1>2 DEF Front
  <2> QED
    BY <1>3, <1>4, <2>1
<1>6. /\ marks' \in Seq(Marked) /\ Len(marks') = n - 1
      /\ \A i \in 1 .. n - 1 : marks'[i] = marks[i]
  <2> HIDE DEF App, Marked
  <2> QED
    BY <1>1, <1>3, <1>4
<1>7. /\ Boundary(apps[n].dp) /\ apps[n].mark \in Headers /\ apps[n].mark < apps[n].dp
      /\ apps[n].dp \in Nat /\ apps[n].mark \in Slots /\ apps[n].dp <= dp
  BY <1>0, <1>1, AppFacts DEF AppsNested, Boundary
<1>8. apps[n].dp # 2
  <2>1. mem[1].id = 0 /\ mem[2].id = 0 /\ 1 \in Slots /\ 2 \in Slots
    BY <1>0, SlotFacts DEF LaidDown, Slot
  <2>2. 2 < dp
    BY <1>0
  <2>3. ~ Boundary(2)
    BY <2>1, <2>2 DEF Boundary
  <2> QED
    BY <1>7, <2>3
<1>9. dp' \in 3 .. SIZE + 1
  <2>1. apps[n].mark \in Nat /\ apps[n].mark >= 1
    BY <1>0, <1>7
  <2> QED
    BY <1>0, <1>1, <1>7, <1>8, <2>1
<1>10. WordsTypeOK'
  <2>1. Len(marks') <= MARKS
    <3>1. Len(marks) <= MARKS /\ MARKS \in Nat
      BY <1>0, DictionaryAssumption DEF WordsTypeOK
    <3> QED
      BY <1>3, <1>4, <1>6, <3>1
  <2> QED
    BY <1>0, <1>1, <1>2, <1>5, <1>6, <1>7, <1>9, <2>1 DEF WordsTypeOK
<1> HIDE DEF App, Marked
<1>11. \A k \in Headers : mem[k].id \in whole
  <2>1. \A k \in Headers : k # 0
    BY SlotFacts DEF Headers, Slots
  <2> QED
    BY <1>0, <1>2, <2>1 DEF OneUnfinished
<1>12. ASSUME NEW i \in DOMAIN apps'
       PROVE  /\ i \in DOMAIN apps /\ apps'[i] = apps[i] /\ marks'[i] = marks[i]
              /\ apps[i].dp <= dp'
              /\ \A a \in Slots : a < dp /\ mem[a].id \in apps[i].held => a < dp'
  <2>1. i \in 1 .. n - 1 /\ i \in DOMAIN apps /\ i < n
    BY <1>4, <1>5
  <2>2. /\ apps[i].dp <= apps[n].dp
        /\ \A a \in Slots : a < dp /\ mem[a].id \in apps[i].held => a < apps[n].dp
    BY <1>0, <1>1, <2>1 DEF AppsNested
  <2> QED
    BY <1>1, <1>5, <1>6, <2>1, <2>2
<1>13. Boundary(dp') /\ dp' <= dp /\ latest' \in Headers /\ latest' < dp'
  BY <1>1, <1>7
<1>14. GiveBack
  BY <1>2, <1>5, <1>6, <1>11, <1>12, <1>13 DEF GiveBack
<1> QED
  BY <1>10, <1>14, GiveBackKeeps

LEMMA HideKeeps == ASSUME WordsInv, Orderly, Hide PROVE WordsInv'
<1>0. WordsTypeOK /\ OneUnfinished /\ AppsNested /\ LaidDown /\ HeldStays /\ Headers \subseteq Slots
  BY InvFacts
<1>1. PICK h \in Chain : latest' = h
                      /\ apps' = Holding({mem[a].id : a \in Chain \ ChainFrom[h]} \cap whole)
  BY DEF Hide
<1>2. /\ mem' = mem /\ size' = size /\ whole' = whole /\ marks' = marks /\ dp' = dp
      /\ state' = state /\ ~state /\ def_header = 0 /\ def_header' = 0
      /\ def_prev_latest' = def_prev_latest
  BY DEF Hide, Tidy, Orderly, defining
<1> DEFINE ids == {mem[a].id : a \in Chain \ ChainFrom[h]} \cap whole
<1>3. h \in Headers /\ h \in Slots /\ Chain \subseteq Headers
  BY <1>0, <1>1, ChainIsHeaders
<1>4. /\ ids \subseteq whole /\ ids \in SUBSET Ids
      /\ \A id \in ids : \E a \in Headers : id = mem[a].id
  BY <1>0, <1>3 DEF WordsTypeOK
<1>5. apps' = Holding(ids)
  BY <1>1
<1> HIDE DEF ids
<1>6. /\ apps' \in Seq([mark : Slots, dp : Slots \cup {SIZE + 1}, held : SUBSET Ids])
      /\ Len(apps') = Len(apps) /\ DOMAIN apps' = DOMAIN apps
      /\ \A i \in DOMAIN apps :
           /\ apps'[i].mark = apps[i].mark /\ apps'[i].dp = apps[i].dp
           /\ apps'[i].held = IF i = Len(apps) THEN apps[i].held \cup ids ELSE apps[i].held
  BY <1>0, <1>4, <1>5, HoldingFacts
<1>7. WordsTypeOK'
  BY <1>0, <1>1, <1>2, <1>3, <1>6 DEF WordsTypeOK
<1>8. /\ Headers' = Headers
      /\ \A id : Intact(id)' <=> Intact(id)
      /\ \A e \in Nat : Boundary(e)' <=> Boundary(e)
  BY <1>2 DEF Headers, Intact, Boundary
<1>9. LaidDown'
  <2>1. \A k \in Headers : Boundary(k)' <=> Boundary(k)
    BY <1>2 DEF Boundary
  <2>2. \A a \in Slots : Intact(mem[a].id)' <=> Intact(mem[a].id)
    BY <1>2 DEF Intact
  <2> QED
    BY <1>0, <1>1, <1>2, <1>3, <1>8, <2>1, <2>2 DEF LaidDown
<1>10. OneUnfinished'
  <2>1. \A k \in Headers : mem[k].id \in whole
    <3>1. \A k \in Headers : k # 0
      BY SlotFacts DEF Headers, Slots
    <3> QED
      BY <1>0, <1>2, <3>1 DEF OneUnfinished
  <2>2. whole \subseteq 0 .. Len(size)
    BY <1>0 DEF OneUnfinished
  <2> QED
    BY <1>2, <1>8, <2>1, <2>2 DEF OneUnfinished
<1>11. AppsNested'
  <2>1. Len(marks') = Len(apps')
    BY <1>0, <1>2, <1>6 DEF AppsNested
  <2>2. ASSUME NEW i \in DOMAIN apps
        PROVE  /\ marks'[i] = [latest |-> apps'[i].mark, dp |-> apps'[i].dp]
               /\ apps'[i].held \subseteq whole'
               /\ apps'[i].mark \in Headers' /\ apps'[i].mark < apps'[i].dp
    BY <1>0, <1>2, <1>4, <1>6, <1>8 DEF AppsNested
  <2>3. ASSUME NEW i \in DOMAIN apps
        PROVE  Boundary(apps[i].dp)'
    <3>1. Boundary(apps[i].dp)
      BY <1>0 DEF AppsNested
    <3> QED
      BY <1>2, <1>6, <3>1 DEF Boundary
  <2>4. ASSUME NEW i \in DOMAIN apps, NEW j \in DOMAIN apps, i < j
        PROVE  /\ apps'[i].dp <= apps'[j].dp
               /\ \A a \in Slots : a < dp' /\ mem'[a].id \in apps'[i].held => a < apps'[j].dp
    <3>1. /\ apps[i].dp <= apps[j].dp
          /\ \A a \in Slots : a < dp /\ mem[a].id \in apps[i].held => a < apps[j].dp
      BY <1>0, <2>4 DEF AppsNested
    <3>2. i # Len(apps)
      BY <1>0, <2>4, AppFacts
    <3> QED
      BY <1>2, <1>6, <3>1, <3>2
  <2> QED
    BY <1>2, <1>6, <2>1, <2>2, <2>3, <2>4 DEF AppsNested
<1>12. HeldStays'
  <2> SUFFICES ASSUME NEW i \in DOMAIN apps, NEW id \in apps'[i].held
               PROVE  Intact(id)'
    BY <1>6 DEF HeldStays, Held
  <2>1. CASE id \in apps[i].held
    <3>1. Intact(id)
      BY <1>0, <2>1 DEF HeldStays, Held
    <3> QED
      BY <1>8, <3>1
  <2>2. CASE id \in ids
    <3>1. PICK a \in Headers : id = mem[a].id
      BY <1>4, <2>2
    <3>2. Intact(mem[a].id)
      BY <1>0 DEF LaidDown, Headers
    <3>3. Intact(id)
      BY <3>1, <3>2
    <3> QED
      BY <1>8, <3>3
  <2> QED
    BY <1>6, <2>1, <2>2
<1> QED
  BY <1>7, <1>9, <1>10, <1>11, <1>12 DEF WordsInv

LEMMA BracketKeeps == ASSUME WordsInv, Orderly, Bracket PROVE WordsInv'
<1>0. WordsTypeOK /\ LaidDown /\ OneUnfinished /\ AppsNested /\ HeldStays
  BY InvFacts
<1>1. /\ mem' = mem /\ dp' = dp /\ latest' = latest /\ def_header' = def_header /\ def_header # 0
      /\ def_prev_latest' = def_prev_latest /\ marks' = marks /\ apps' = apps /\ size' = size
      /\ whole' = whole /\ state' = ~state
  BY DEF Bracket, Orderly
<1>2. WordsTypeOK'
  BY <1>0, <1>1 DEF WordsTypeOK
<1>3. LaidDown'
  BY <1>0, <1>1 DEF LaidDown, Headers, Boundary, Intact
<1>4. OneUnfinished'
  BY <1>0, <1>1 DEF OneUnfinished, Headers, Host
<1>5. AppsNested'
  BY <1>0, <1>1 DEF AppsNested, Headers, Boundary
<1>6. HeldStays'
  BY <1>0, <1>1 DEF HeldStays, Held, Intact
<1> QED
  BY <1>2, <1>3, <1>4, <1>5, <1>6 DEF WordsInv

LEMMA AppOpenKeeps == ASSUME WordsInv, Orderly, AppOpen PROVE WordsInv'
<1> DEFINE App == [mark : Slots, dp : Slots \cup {SIZE + 1}, held : SUBSET Ids]
           Marked == [latest : Slots, dp : Slots \cup {SIZE + 1}]
           app == [mark |-> latest, dp |-> dp, held |-> {}]
           one == [latest |-> latest, dp |-> dp]
<1> PICK n : n = Len(apps)
  OBVIOUS
<1>0. /\ WordsTypeOK /\ OneUnfinished /\ AppsNested /\ LaidDown /\ HeldStays /\ dp \in Nat /\ 3 <= dp
      /\ Slots = 1 .. SIZE /\ Slots \subseteq Nat /\ SIZE \in Nat /\ dp <= SIZE + 1
      /\ latest \in Headers /\ latest \in Slots /\ latest < dp
  BY InvFacts
<1>1. /\ mem' = mem /\ size' = size /\ whole' = whole /\ dp' = dp /\ latest' = latest
      /\ state' = state /\ ~state /\ def_header = 0 /\ def_header' = 0
      /\ def_prev_latest' = def_prev_latest
      /\ n < MaxApps /\ marks' = Mark /\ apps' = Append(apps, app)
  BY DEF AppOpen, Settled, Orderly, defining
<1>2. apps \in Seq(App) /\ marks \in Seq(Marked) /\ Len(marks) = n
  BY <1>0 DEF WordsTypeOK, AppsNested
<1>3. app \in App /\ one \in Marked
  <2>1. dp \in Slots \cup {SIZE + 1}
    BY <1>0
  <2> QED
    BY <1>0, <2>1
<1>4. n \in Nat /\ DOMAIN apps = 1 .. n /\ n < MARKS /\ MARKS \in Nat
  <2>1. MaxApps \in Nat /\ MARKS \in Nat /\ MaxApps <= MARKS
    BY DictionaryAssumption DEF Orderly
  <2>2. n \in Nat /\ DOMAIN apps = 1 .. n
    <3> HIDE DEF App, Marked
    <3> QED
      BY <1>2
  <2> QED
    BY <1>1, <2>1, <2>2
<1>5. marks' = Append(marks, one)
  BY <1>1, <1>2, <1>4 DEF Mark
<1> HIDE DEF App, Marked, app, one
<1>6. /\ apps' \in Seq(App) /\ Len(apps') = n + 1 /\ DOMAIN apps' = 1 .. n + 1
      /\ apps'[n + 1] = app /\ \A i \in 1 .. n : apps'[i] = apps[i]
  BY <1>1, <1>2, <1>3, <1>4
<1>7. /\ marks' \in Seq(Marked) /\ Len(marks') = n + 1
      /\ marks'[n + 1] = one /\ \A i \in 1 .. n : marks'[i] = marks[i]
  BY <1>2, <1>3, <1>4, <1>5
<1>8. WordsTypeOK'
  <2>1. Len(marks') <= MARKS
    BY <1>4, <1>7
  <2> QED
    BY <1>0, <1>1, <1>6, <1>7, <2>1 DEF WordsTypeOK, App, Marked
<1>9. Headers' = Headers
  BY <1>1 DEF Headers
<1>10. LaidDown'
  <2>1. \A k \in Headers : Boundary(k)' <=> Boundary(k)
    BY <1>1 DEF Boundary
  <2>2. \A a \in Slots : Intact(mem[a].id)' <=> Intact(mem[a].id)
    BY <1>1 DEF Intact
  <2> QED
    BY <1>0, <1>1, <1>9, <2>1, <2>2 DEF LaidDown
<1>11. OneUnfinished'
  <2>1. \A k \in Headers : mem[k].id \in whole
    <3>1. \A k \in Headers : k # 0
      BY SlotFacts DEF Headers, Slots
    <3> QED
      BY <1>0, <1>1, <3>1 DEF OneUnfinished
  <2>2. whole \subseteq 0 .. Len(size)
    BY <1>0 DEF OneUnfinished
  <2> QED
    BY <1>1, <1>9, <2>1, <2>2 DEF OneUnfinished
<1>12. /\ apps'[n + 1].mark = latest /\ apps'[n + 1].dp = dp /\ apps'[n + 1].held = {}
       /\ marks'[n + 1] = [latest |-> latest, dp |-> dp]
  BY <1>6, <1>7 DEF app, one
<1>13. ASSUME NEW i \in 1 .. n
       PROVE  /\ i \in DOMAIN apps /\ apps'[i] = apps[i] /\ marks'[i] = marks[i]
              /\ marks[i] = [latest |-> apps[i].mark, dp |-> apps[i].dp]
              /\ Boundary(apps[i].dp) /\ apps[i].dp <= dp
              /\ apps[i].mark \in Headers /\ apps[i].mark < apps[i].dp
              /\ apps[i].held \subseteq whole
  BY <1>0, <1>4, <1>6, <1>7 DEF AppsNested, Boundary
<1>14. \A i \in 1 .. n + 1 : i \in 1 .. n \/ i = n + 1
  BY <1>4
<1>15. AppsNested'
  <2>1. Len(marks') = Len(apps')
    BY <1>6, <1>7
  <2>2. ASSUME NEW i \in 1 .. n + 1
        PROVE  /\ marks'[i] = [latest |-> apps'[i].mark, dp |-> apps'[i].dp]
               /\ apps'[i].held \subseteq whole'
               /\ apps'[i].mark \in Headers' /\ apps'[i].mark < apps'[i].dp
    <3>1. CASE i = n + 1
      BY <1>0, <1>9, <1>12, <3>1
    <3>2. CASE i \in 1 .. n
      BY <1>1, <1>9, <1>13, <3>2
    <3> QED
      BY <1>14, <3>1, <3>2
  <2>3. ASSUME NEW i \in 1 .. n + 1
        PROVE  Boundary(apps[i].dp)'
    <3>1. CASE i = n + 1
      BY <1>0, <1>1, <1>12, <3>1 DEF Boundary
    <3>2. CASE i \in 1 .. n
      <4> PICK e : e = apps[i].dp
        OBVIOUS
      <4>1. Boundary(e) /\ apps'[i].dp = e
        BY <1>13, <3>2
      <4> QED
        BY <1>1, <4>1 DEF Boundary
    <3> QED
      BY <1>14, <3>1, <3>2
  <2>4. ASSUME NEW i \in 1 .. n + 1, NEW j \in 1 .. n + 1, i < j
        PROVE  /\ apps'[i].dp <= apps'[j].dp
               /\ \A a \in Slots : a < dp' /\ mem'[a].id \in apps'[i].held => a < apps'[j].dp
    <3>1. i \in 1 .. n
      BY <1>4, <2>4
    <3>2. CASE j = n + 1
      BY <1>1, <1>12, <1>13, <3>1, <3>2
    <3>3. CASE j \in 1 .. n
      <4>1. /\ apps[i].dp <= apps[j].dp
            /\ \A a \in Slots : a < dp /\ mem[a].id \in apps[i].held => a < apps[j].dp
        BY <1>0, <1>13, <2>4, <3>1, <3>3 DEF AppsNested
      <4> QED
        BY <1>1, <1>13, <3>1, <3>3, <4>1
    <3> QED
      BY <1>14, <3>2, <3>3
  <2> QED
    BY <1>1, <1>6, <2>1, <2>2, <2>3, <2>4 DEF AppsNested
<1>16. HeldStays'
  <2> SUFFICES ASSUME NEW i \in 1 .. n + 1, NEW id \in apps'[i].held
               PROVE  Intact(id)'
    BY <1>6 DEF HeldStays, Held
  <2>1. i \in 1 .. n
    BY <1>12, <1>14
  <2>2. Intact(id)
    BY <1>0, <1>13, <2>1 DEF HeldStays, Held
  <2> QED
    BY <1>1, <2>2 DEF Intact
<1> QED
  BY <1>8, <1>10, <1>11, <1>15, <1>16 DEF WordsInv

-----------------------------------------------------------------------------
(* The theorems.                                                           *)

LEMMA InitWords == ASSUME NoWords PROVE WordsInv
<1> DEFINE m == [a \in Slots |->
                   CASE a = 1 -> Slot(0, "header", 0) [] a = 2 -> Slot(0, "code", 0)
                     [] OTHER -> Slot(0, "free", 0)]
<1>1. /\ mem = m /\ dp = 3 /\ latest = 1
      /\ state = FALSE /\ def_header = 0 /\ def_prev_latest = 0
      /\ marks = <<>> /\ apps = <<>> /\ size = <<>> /\ whole = {0}
  BY DEF NoWords
<1>2. /\ SIZE \in Nat /\ SIZE > 2 /\ MaxWords \in Nat /\ Slots \subseteq Nat
      /\ Slots = 1 .. SIZE /\ 1 \in Slots /\ 2 \in Slots /\ MARKS \in Nat /\ 0 \in Ids
  BY SlotFacts, DictionaryAssumption DEF Slots, Ids
<1>3. /\ mem[1] = Slot(0, "header", 0) /\ mem[2] = Slot(0, "code", 0)
      /\ \A a \in Slots : /\ mem[a].id = 0 /\ mem[a].link = 0 /\ mem[a].part \in {"header", "code", "free"}
                          /\ mem[a].part = "header" <=> a = 1
                          /\ a < 3 => mem[a].part # "free"
  BY <1>1, <1>2 DEF Slot
<1>4. mem \in [Slots -> [id : Ids, part : Parts, link : 0 .. SIZE]]
  <2>1. /\ Slot(0, "header", 0) \in [id : Ids, part : Parts, link : 0 .. SIZE]
        /\ Slot(0, "code", 0) \in [id : Ids, part : Parts, link : 0 .. SIZE]
        /\ Slot(0, "free", 0) \in [id : Ids, part : Parts, link : 0 .. SIZE]
    BY <1>2 DEF Slot, Parts
  <2> QED
    BY <1>1, <2>1
<1> HIDE DEF m
<1>5. WordsTypeOK
  <2>1. 3 \in 3 .. SIZE + 1 /\ 0 \in 0 .. SIZE /\ 0 <= MARKS
    BY <1>2
  <2>2. \A S : <<>> \in Seq(S) /\ Len(<<>>) = 0
    OBVIOUS
  <2> QED
    BY <1>1, <1>2, <1>4, <2>1, <2>2 DEF WordsTypeOK
<1>6. Headers = {1}
  BY <1>1, <1>2, <1>3 DEF Headers
<1>7. LaidDown
  <2>1. Boundary(1)
    BY <1>1, <1>2 DEF Boundary
  <2>2. \A a \in Slots : Intact(mem[a].id)
    BY <1>3 DEF Intact
  <2> QED
    BY <1>1, <1>3, <1>6, <2>1, <2>2 DEF LaidDown, primitives_end
<1>8. OneUnfinished
  BY <1>1, <1>2, <1>3, <1>6 DEF OneUnfinished
<1>9. AppsNested /\ HeldStays
  BY <1>1 DEF AppsNested, HeldStays, Held
<1> QED
  BY <1>5, <1>7, <1>8, <1>9 DEF WordsInv

LEMMA NextKeeps == ASSUME WordsInv, Orderly, [Next]_vars PROVE WordsInv'
<1>1. CASE Begin
  BY <1>1, ColonKeeps DEF Begin
<1>2. CASE WordStep
  <2>1. state /\ (Error \/ Spill \/ UNCHANGED dvars \/ Compile)
    BY <1>2 DEF WordStep
  <2>2. def_header # 0
    BY <2>1, InvFacts DEF OneUnfinished
  <2> QED
    BY <2>1, <2>2, ErrorKeeps, SpillKeeps, WordsStay, CompileKeeps
<1>3. CASE End
  <2>1. Semi \/ (state /\ Error)
    BY <1>3 DEF End
  <2> QED
    BY <2>1, SemiKeeps, ErrorKeeps
<1>4. CASE FailsAt
  <2>1. (state \/ def_header = 0) /\ Error
    BY <1>4 DEF FailsAt, Fails, Orderly
  <2> QED
    BY <2>1, ErrorKeeps
<1>5. CASE Aside
  <2>1. Variable \/ Bracket \/ Forget \/ Hide \/ Keep \/ AppOpen \/ AppClose
    BY <1>5 DEF Aside, Bracketed
  <2> QED
    BY <2>1, VariableKeeps, BracketKeeps, ForgetKeeps, HideKeeps, KeepKeeps, AppOpenKeeps,
       AppCloseKeeps
<1>6. CASE UNCHANGED vars
  BY <1>6, WordsStay DEF vars
<1>7. CASE Overflows
  <2>1. state /\ (Error \/ (def_header # 0 /\ Spill))
    BY <1>7 DEF Overflows
  <2> QED
    BY <2>1, ErrorKeeps, SpillKeeps
<1> QED
  BY <1>1, <1>2, <1>3, <1>4, <1>5, <1>6, <1>7 DEF Next

\* Whatever is defined, fails, is forgotten or hidden, and whichever apps open and close
\* (forth.c: f_colon, f_semi, error, f_forget, forth_mark and forth_release), the
\* dictionary is laid down as WordsInv says.
THEOREM DictionaryInvariant == ASSUME Orderly PROVE Spec => []WordsInv
<1>1. Init => WordsInv
  BY InitWords DEF Init
<1>2. WordsInv /\ [Next]_vars => WordsInv'
  BY NextKeeps
<1> QED
  BY <1>1, <1>2, PTL DEF Spec

\* A word that can be found is whole, below dp, and has its EXIT unless it is being made;
\* and the links lead to the kernel's words.
THEOREM FoundWordsAreWhole == ASSUME Orderly PROVE Spec => []ChainIsSound
<1>1. WordsInv => ChainIsSound
  BY InvGivesChain
<1> QED
  BY <1>1, DictionaryInvariant, PTL

\* What a running app was compiled to, and the strings it keeps, stay in memory, though
\* its words were hidden by LATEST! and others were defined, failed or forgotten since.
THEOREM HeldIsNotOverwritten == ASSUME Orderly PROVE Spec => []HeldStays
<1>1. WordsInv => HeldStays
  BY DEF WordsInv
<1> QED
  BY <1>1, DictionaryInvariant, PTL

\* forth_release finds the mark of the app that closes, and puts the dictionary back
\* where it was when that app opened.
THEOREM ReleasePutsBack == ASSUME Orderly PROVE Spec => GivesBack
<1>1. WordsInv /\ [Next]_vars
        => [AppClose => dp' = Last(apps).dp /\ latest' = Last(apps).mark]_dvars
  BY CloseGivesBack
<1> QED
  BY <1>1, DictionaryInvariant, PTL DEF Spec, GivesBack

-----------------------------------------------------------------------------
(* The thread, by what each word makes of the compiler's variables.        *)

IsJumps(j) == DOMAIN j \subseteq Int /\ \A x \in DOMAIN j : j[x] \in Int

Typed(c) ==
  /\ c = [cells |-> c.cells, jumps |-> c.jumps, cstack |-> c.cstack, leaves |-> c.leaves,
          failed |-> c.failed]
  /\ c.cells \in Nat /\ c.failed \in BOOLEAN /\ IsJumps(c.jumps)
  /\ c.cstack \in Seq(Int) /\ Len(c.cstack) <= CSTACK_MAX
  /\ c.leaves \in Seq(Nat) /\ Len(c.leaves) <= LEAVES_MAX

LEMMA Places == CSTACK_MAX \in Nat /\ LEAVES_MAX \in Nat
BY ControlFlowAssumption

\* A stack after a place is taken or left, or only its lower part is kept.
LEMMA StackTypes ==
  ASSUME NEW S, NEW s \in Seq(S), NEW x \in S
  PROVE  /\ Append(s, x) \in Seq(S) /\ Len(Append(s, x)) = Len(s) + 1 /\ Len(s) \in Nat
         /\ s # <<>> => /\ Front(s) \in Seq(S) /\ Len(Front(s)) = Len(s) - 1
                        /\ Last(s) \in S
         /\ \A n \in 0 .. Len(s) : SubSeq(s, 1, n - 1) \in Seq(S) /\ Len(SubSeq(s, 1, n - 1)) <= Len(s)
<1>1. /\ Append(s, x) \in Seq(S) /\ Len(Append(s, x)) = Len(s) + 1 /\ Len(s) \in Nat
  OBVIOUS
<1>2. ASSUME s # <<>>
      PROVE  /\ Front(s) \in Seq(S) /\ Len(Front(s)) = Len(s) - 1
             /\ Last(s) \in S
  <2>1. Len(s) # 0
    BY <1>2
  <2>2. Front(s) = SubSeq(s, 1, Len(s) - 1) /\ Last(s) = s[Len(s)]
    BY DEF Front, Last
  <2>3. Len(s) \in Nat /\ Len(s) \in 1 .. Len(s) /\ s[Len(s)] \in S
    BY <2>1
  <2>4. SubSeq(s, 1, Len(s) - 1) \in Seq(S) /\ Len(SubSeq(s, 1, Len(s) - 1)) = Len(s) - 1
    <3> PICK m \in Nat : m + 1 = Len(s)
      BY <2>1, <2>3
    <3>1. \A i \in 1 .. m : s[i] \in S
      OBVIOUS
    <3>2. SubSeq(s, 1, m) \in Seq(S) /\ Len(SubSeq(s, 1, m)) = m
      BY <3>1
    <3>3. Len(s) - 1 = m
      OBVIOUS
    <3> QED
      BY <3>2, <3>3
  <2> QED
    BY <2>2, <2>3, <2>4
<1>3. ASSUME NEW n \in 0 .. Len(s)
      PROVE  SubSeq(s, 1, n - 1) \in Seq(S) /\ Len(SubSeq(s, 1, n - 1)) <= Len(s)
  BY <1>1
<1> QED
  BY <1>1, <1>2, <1>3

LEMMA MoreCells == ASSUME NEW c, Typed(c), NEW n \in Nat PROVE Typed(comma(c, n))
<1> PICK k, j, st, l, f : c = [cells |-> k, jumps |-> j, cstack |-> st, leaves |-> l, failed |-> f]
  BY DEF Typed
<1>1. /\ k \in Nat /\ f \in BOOLEAN /\ IsJumps(j) /\ st \in Seq(Int) /\ Len(st) <= CSTACK_MAX
      /\ l \in Seq(Nat) /\ Len(l) <= LEAVES_MAX
  BY DEF Typed
<1>2. comma(c, n) = [cells |-> k + n, jumps |-> j, cstack |-> st, leaves |-> l, failed |-> f]
  BY DEF comma
<1> QED
  BY <1>1, <1>2 DEF Typed

LEMMA Pointed ==
  ASSUME NEW c, Typed(c), NEW slots \in SUBSET Int, NEW to \in Int
  PROVE  /\ Typed(Point(c, slots, to)) /\ Point(c, slots, to).cells = c.cells
         /\ Point(c, slots, to).leaves = c.leaves /\ Point(c, slots, to).cstack = c.cstack
<1> DEFINE j == [x \in slots \cup DOMAIN c.jumps |-> IF x \in slots THEN to ELSE c.jumps[x]]
<1>1. IsJumps(j)
  BY DEF Typed, IsJumps
<1>2. Point(c, slots, to) = [c EXCEPT !.jumps = j]
  BY DEF Point
<1> HIDE DEF j
<1> QED
  BY <1>1, <1>2 DEF Typed

\* error, cpush and cpop.
LEMMA Failed == ASSUME NEW c, Typed(c) PROVE Typed(error(c))
<1>1. c.cells \in Nat /\ IsJumps(c.jumps)
  BY DEF Typed
<1>2. \A S : <<>> \in Seq(S) /\ Len(<<>>) = 0
  OBVIOUS
<1>3. 0 <= CSTACK_MAX /\ 0 <= LEAVES_MAX
  BY Places
<1> QED
  BY <1>1, <1>2, <1>3 DEF Typed, error

LEMMA NewStack ==
  ASSUME NEW c, Typed(c), NEW s \in Seq(Int), Len(s) <= CSTACK_MAX
  PROVE  Typed([c EXCEPT !.cstack = s])
<1> PICK k, j, st, l, f : c = [cells |-> k, jumps |-> j, cstack |-> st, leaves |-> l, failed |-> f]
  BY DEF Typed
<1>1. /\ k \in Nat /\ f \in BOOLEAN /\ IsJumps(j) /\ st \in Seq(Int) /\ Len(st) <= CSTACK_MAX
      /\ l \in Seq(Nat) /\ Len(l) <= LEAVES_MAX
  BY DEF Typed
<1>2. [c EXCEPT !.cstack = s] = [cells |-> k, jumps |-> j, cstack |-> s, leaves |-> l, failed |-> f]
  OBVIOUS
<1> QED
  BY <1>1, <1>2 DEF Typed

LEMMA NewLeaves ==
  ASSUME NEW c, Typed(c), NEW s \in Seq(Nat), Len(s) <= LEAVES_MAX
  PROVE  Typed([c EXCEPT !.leaves = s])
<1> PICK k, j, st, l, f : c = [cells |-> k, jumps |-> j, cstack |-> st, leaves |-> l, failed |-> f]
  BY DEF Typed
<1>1. /\ k \in Nat /\ f \in BOOLEAN /\ IsJumps(j) /\ st \in Seq(Int) /\ Len(st) <= CSTACK_MAX
      /\ l \in Seq(Nat) /\ Len(l) <= LEAVES_MAX
  BY DEF Typed
<1>2. [c EXCEPT !.leaves = s] = [cells |-> k, jumps |-> j, cstack |-> st, leaves |-> s, failed |-> f]
  OBVIOUS
<1> QED
  BY <1>1, <1>2 DEF Typed

LEMMA Pushed == ASSUME NEW c, Typed(c), NEW v \in Int PROVE Typed(cpush(c, v))
<1>1. CASE Len(c.cstack) >= CSTACK_MAX
  BY <1>1, Failed DEF cpush
<1>2. CASE ~ (Len(c.cstack) >= CSTACK_MAX)
  <2>1. c.cstack \in Seq(Int) /\ Len(c.cstack) \in Nat /\ CSTACK_MAX \in Nat
    BY Places DEF Typed
  <2>2. Append(c.cstack, v) \in Seq(Int) /\ Len(Append(c.cstack, v)) <= CSTACK_MAX
    BY <1>2, <2>1
  <2>3. cpush(c, v) = [c EXCEPT !.cstack = Append(c.cstack, v)]
    BY <1>2 DEF cpush
  <2> QED
    BY <2>2, <2>3, NewStack
<1> QED
  BY <1>1, <1>2

LEMMA Popped == ASSUME NEW c, Typed(c) PROVE Typed(cpop(c)) /\ Top(c) \in Int
<1>0. c.cstack \in Seq(Int) /\ Len(c.cstack) <= CSTACK_MAX /\ CSTACK_MAX \in Nat
  BY Places DEF Typed
<1>1. CASE c.cstack = <<>>
  BY <1>1, Failed DEF cpop, Top
<1>2. CASE c.cstack # <<>>
  <2>1. Front(c.cstack) \in Seq(Int) /\ Len(Front(c.cstack)) = Len(c.cstack) - 1 /\ Last(c.cstack) \in Int
        /\ Len(c.cstack) \in Nat
    BY <1>0, <1>2, StackTypes
  <2>2. cpop(c) = [c EXCEPT !.cstack = Front(c.cstack)] /\ Top(c) = Last(c.cstack)
    BY <1>2 DEF cpop, Top
  <2>3. Len(Front(c.cstack)) <= CSTACK_MAX
    BY <1>0, <2>1
  <2> QED
    BY <2>1, <2>2, <2>3, NewStack
<1> QED
  BY <1>1, <1>2

LEMMA Jumped ==
  ASSUME NEW c, Typed(c), NEW to \in Int
  PROVE  Typed(Jump(c, to)) /\ Jump(c, to).leaves = c.leaves
<1>1. c.cells + 1 \in Int
  BY DEF Typed
<1>2. Typed(Point(c, {c.cells + 1}, to)) /\ Point(c, {c.cells + 1}, to).leaves = c.leaves
  BY <1>1, Pointed
<1>3. Typed(Jump(c, to))
  BY <1>2, MoreCells DEF Jump
<1>4. Jump(c, to).leaves = c.leaves
  BY <1>2 DEF Jump, comma, Typed
<1> QED
  BY <1>3, <1>4

LEMMA ForwardTyped == ASSUME NEW c, Typed(c) PROVE Typed(Forward(c))
<1>1. c.cells + 1 \in Int /\ Unresolved \in Int
  BY DEF Typed, Unresolved
<1> QED
  BY <1>1, Jumped, Pushed DEF Forward

LEMMA Resolved == ASSUME NEW c, Typed(c), NEW slot \in Int PROVE Typed(Resolve(c, slot))
<1>1. c.cells \in Int
  BY DEF Typed
<1> QED
  BY <1>1, Pointed DEF Resolve

\* The greatest place in a stack of which something holds, as the code finds it from the top.
LEMMA FromTop ==
  ASSUME NEW n \in Nat, NEW S \in SUBSET (1 .. n), S # {}
  PROVE  (CHOOSE i \in S : \A j \in S : j <= i) \in S
<1>1. S \in SUBSET (0 .. (n + 1) - 1) /\ n + 1 \in Nat
  OBVIOUS
<1>2. \E i \in S : \A j \in S : j <= i
  BY <1>1, MaxIsGreatest
<1> QED
  BY <1>2

LEMMA LeavesOpened == ASSUME NEW c, Typed(c) PROVE Typed(OpenLeaves(c))
<1>0. c.leaves \in Seq(Nat) /\ LEAVES_MAX \in Nat /\ 0 \in Nat
  BY Places DEF Typed
<1>1. CASE Len(c.leaves) < LEAVES_MAX
  <2>1. Append(c.leaves, 0) \in Seq(Nat) /\ Len(Append(c.leaves, 0)) = Len(c.leaves) + 1
        /\ Len(c.leaves) \in Nat
    BY <1>0, StackTypes
  <2>2. OpenLeaves(c) = [c EXCEPT !.leaves = Append(c.leaves, 0)]
    BY <1>1 DEF OpenLeaves
  <2>3. Len(Append(c.leaves, 0)) <= LEAVES_MAX
    BY <1>0, <1>1, <2>1
  <2> QED
    BY <2>1, <2>2, <2>3, NewLeaves
<1>2. CASE ~ (Len(c.leaves) < LEAVES_MAX)
  BY <1>2 DEF OpenLeaves
<1> QED
  BY <1>1, <1>2

LEMMA LeavesResolved ==
  ASSUME NEW c, Typed(c)
  PROVE  Typed(resolve_leaves(c)) /\ Len(resolve_leaves(c).leaves) <= Len(c.leaves)
<1> DEFINE zeros == {i \in DOMAIN c.leaves : c.leaves[i] = 0}
           from  == IF zeros = {} THEN 0 ELSE CHOOSE i \in zeros : \A j \in zeros : j <= i
           mine  == {c.leaves[i] : i \in from + 1 .. Len(c.leaves)}
           p     == Point(c, mine, c.cells)
<1>0. /\ c.leaves \in Seq(Nat) /\ Len(c.leaves) <= LEAVES_MAX /\ LEAVES_MAX \in Nat
      /\ c.cells \in Int /\ Len(c.leaves) \in Nat /\ DOMAIN c.leaves = 1 .. Len(c.leaves)
  <2>1. /\ c.leaves \in Seq(Nat) /\ Len(c.leaves) <= LEAVES_MAX /\ LEAVES_MAX \in Nat
        /\ c.cells \in Nat
    BY Places DEF Typed
  <2> QED
    BY <2>1
<1>1. from \in 0 .. Len(c.leaves)
  <2>1. zeros \in SUBSET (1 .. Len(c.leaves))
    BY <1>0
  <2> HIDE DEF zeros
  <2>2. zeros # {} => from \in zeros
    BY <1>0, <2>1, FromTop
  <2>3. zeros = {} => from = 0
    OBVIOUS
  <2> HIDE DEF from
  <2>4. zeros # {} => from \in 1 .. Len(c.leaves)
    BY <2>1, <2>2
  <2>5. \A n \in Nat : 0 \in 0 .. n /\ 1 .. n \subseteq 0 .. n
    OBVIOUS
  <2> QED
    BY <1>0, <2>3, <2>4, <2>5
<1> HIDE DEF from
<1>2. mine \in SUBSET Int
  <2>1. \A i \in from + 1 .. Len(c.leaves) : i \in 1 .. Len(c.leaves)
    BY <1>0, <1>1
  <2>2. \A i \in 1 .. Len(c.leaves) : c.leaves[i] \in Nat
    BY <1>0
  <2> QED
    BY <2>1, <2>2
<1> HIDE DEF mine
<1>3. Typed(p) /\ p.leaves = c.leaves
  BY <1>0, <1>2, Pointed
<1>4. SubSeq(c.leaves, 1, from - 1) \in Seq(Nat) /\ Len(SubSeq(c.leaves, 1, from - 1)) <= Len(c.leaves)
  BY <1>0, <1>1, StackTypes
<1>5. resolve_leaves(c) = [p EXCEPT !.leaves = SubSeq(p.leaves, 1, from - 1)]
  BY DEF resolve_leaves, mine, from
<1> HIDE DEF p
<1>6. Len(SubSeq(c.leaves, 1, from - 1)) \in Nat
  BY <1>4
<1>7. Len(SubSeq(c.leaves, 1, from - 1)) <= LEAVES_MAX
  BY <1>0, <1>4, <1>6
<1>8. resolve_leaves(c) = [p EXCEPT !.leaves = SubSeq(c.leaves, 1, from - 1)]
  BY <1>3, <1>5
<1>9. resolve_leaves(c).leaves = SubSeq(c.leaves, 1, from - 1)
  BY <1>3, <1>8 DEF Typed
<1> QED
  BY <1>3, <1>4, <1>7, <1>8, <1>9, NewLeaves

\* One for each control word.
LEMMA ElseTyped == ASSUME NEW c, Typed(c) PROVE Typed(ELSE_(c)) /\ Typed(THEN_(c)) /\ Typed(UNTIL_(c))
<1>1. Typed(cpop(c)) /\ Top(c) \in Int
  BY Popped
<1>2. Typed(Forward(cpop(c)))
  BY <1>1, ForwardTyped
<1>3. Typed(Resolve(Forward(cpop(c)), Top(c))) /\ Typed(Resolve(cpop(c), Top(c)))
      /\ Typed(Jump(cpop(c), Top(c))) /\ Typed(error(c))
  BY <1>1, <1>2, Resolved, Jumped, Failed
<1> QED
  BY <1>1, <1>3 DEF ELSE_, THEN_, UNTIL_

LEMMA RepeatTyped == ASSUME NEW c, Typed(c) PROVE Typed(REPEAT_(c)) /\ Typed(LOOP_(c))
<1>1. Typed(cpop(c)) /\ Top(c) \in Int
  BY Popped
<1>2. Typed(cpop(cpop(c))) /\ Top(cpop(c)) \in Int
  BY <1>1, Popped
<1>3. Typed(cpop(cpop(cpop(c)))) /\ Top(cpop(cpop(c))) \in Int
  BY <1>2, Popped
<1>4. /\ Typed(Jump(cpop(cpop(c)), Top(cpop(c)))) /\ Typed(Jump(cpop(cpop(cpop(c))), Top(cpop(c))))
      /\ Typed(Jump(cpop(c), Top(c))) /\ Typed(error(c))
  BY <1>1, <1>2, <1>3, Jumped, Failed
<1>5. /\ Typed(Resolve(Jump(cpop(cpop(c)), Top(cpop(c))), Top(c)))
      /\ Typed(Resolve(Jump(cpop(cpop(cpop(c))), Top(cpop(c))), Top(cpop(cpop(c)))))
  BY <1>1, <1>3, <1>4, Resolved
<1>6. /\ Typed(resolve_leaves(Resolve(Jump(cpop(cpop(cpop(c))), Top(cpop(c))), Top(cpop(cpop(c))))))
      /\ Typed(resolve_leaves(Jump(cpop(c), Top(c))))
  BY <1>4, <1>5, LeavesResolved
<1> QED
  BY <1>1, <1>4, <1>5, <1>6 DEF REPEAT_, LOOP_

LEMMA DoTyped == ASSUME NEW c, Typed(c) PROVE Typed(DO_(c)) /\ Typed(QDO_(c)) /\ Typed(BEGIN_(c)) /\ Typed(CASE_(c))
<1>1. c.cells \in Int /\ c.cells + 1 \in Int /\ CS_QDO \in Int /\ CS_CASE \in Int
  BY DEF Typed, CS_QDO, CS_CASE
<1>2. Typed(comma(c, 1)) /\ Typed(Forward(c))
  BY MoreCells, ForwardTyped
<1>3. Typed(cpush(comma(c, 1), c.cells + 1)) /\ Typed(cpush(c, c.cells)) /\ Typed(cpush(c, CS_CASE))
  BY <1>1, <1>2, Pushed
<1>4. Forward(c).cells \in Int
  BY <1>2 DEF Typed
<1>5. Typed(cpush(cpush(Forward(c), Forward(c).cells), CS_QDO))
  BY <1>1, <1>2, <1>4, Pushed
<1>6. Typed(DO_(c))
  BY <1>3, LeavesOpened DEF DO_
<1>7. Typed(QDO_(c))
  BY <1>5, LeavesOpened DEF QDO_
<1> QED
  BY <1>3, <1>6, <1>7 DEF BEGIN_, CASE_

LEMMA LeaveTyped == ASSUME NEW c, Typed(c) PROVE Typed(LEAVE_(c))
<1> DEFINE j == Jump(c, Unresolved)
<1>0. /\ c.leaves \in Seq(Nat) /\ LEAVES_MAX \in Nat /\ c.cells + 1 \in Nat /\ Unresolved \in Int
      /\ Typed(error(c))
  <2>1. c.leaves \in Seq(Nat) /\ c.cells \in Nat
    BY DEF Typed
  <2> QED
    BY <2>1, Places, Failed DEF Unresolved
<1>1. Typed(j) /\ j.leaves = c.leaves
  BY <1>0, Jumped
<1>2. CASE c.leaves = <<>> \/ Len(c.leaves) >= LEAVES_MAX
  BY <1>0, <1>2 DEF LEAVE_
<1>3. CASE ~ (c.leaves = <<>> \/ Len(c.leaves) >= LEAVES_MAX)
  <2>1. Append(c.leaves, c.cells + 1) \in Seq(Nat)
        /\ Len(Append(c.leaves, c.cells + 1)) = Len(c.leaves) + 1 /\ Len(c.leaves) \in Nat
    BY <1>0, StackTypes
  <2>2. Len(Append(c.leaves, c.cells + 1)) <= LEAVES_MAX
    BY <1>0, <1>3, <2>1
  <2>3. LEAVE_(c) = [j EXCEPT !.leaves = Append(j.leaves, c.cells + 1)]
    BY <1>3 DEF LEAVE_
  <2> HIDE DEF j
  <2>4. LEAVE_(c) = [j EXCEPT !.leaves = Append(c.leaves, c.cells + 1)]
    BY <1>1, <2>3
  <2> QED
    BY <1>1, <2>1, <2>2, <2>4, NewLeaves
<1> QED
  BY <1>2, <1>3

LEMMA OfTyped == ASSUME NEW c, Typed(c) PROVE Typed(OF_(c)) /\ Typed(ENDOF_(c))
<1>1. Typed(OF_(c))
  BY MoreCells, ForwardTyped DEF OF_
<1>2. Typed(cpop(c)) /\ Top(c) \in Int /\ Unresolved \in Int
  BY Popped DEF Unresolved
<1>3. Typed(Resolve(Jump(cpop(c), Unresolved), Top(c)))
  BY <1>2, Jumped, Resolved
<1>4. cpop(c).cells + 1 \in Int
  BY <1>2 DEF Typed
<1>5. Typed(cpush(Resolve(Jump(cpop(c), Unresolved), Top(c)), cpop(c).cells + 1))
  BY <1>3, <1>4, Pushed
<1> QED
  BY <1>1, <1>2, <1>5 DEF ENDOF_

LEMMA EndcaseTyped == ASSUME NEW c, Typed(c) PROVE Typed(ENDCASE_(c))
<1> DEFINE found == {i \in DOMAIN c.cstack : c.cstack[i] = CS_CASE}
           from  == CHOOSE i \in found : \A j \in found : j <= i
           exits == {c.cstack[i] : i \in from + 1 .. Len(c.cstack)}
           end   == comma(c, 1)
           p     == Point(end, exits, end.cells)
<1>0. /\ c.cstack \in Seq(Int) /\ Len(c.cstack) <= CSTACK_MAX /\ CSTACK_MAX \in Nat
      /\ Len(c.cstack) \in Nat /\ DOMAIN c.cstack = 1 .. Len(c.cstack)
  <2>1. c.cstack \in Seq(Int) /\ Len(c.cstack) <= CSTACK_MAX /\ CSTACK_MAX \in Nat
    BY Places DEF Typed
  <2> QED
    BY <2>1
<1>1. CASE found = {}
  BY <1>1, Failed DEF ENDCASE_
<1>2. CASE found # {}
  <2>1. found \in SUBSET (1 .. Len(c.cstack))
    BY <1>0
  <2>2. from \in 0 .. Len(c.cstack)
    <3> HIDE DEF found
    <3>1. from \in found
      BY <1>0, <1>2, <2>1, FromTop
    <3> HIDE DEF from
    <3> QED
      BY <1>0, <2>1, <3>1
  <2>3. ENDCASE_(c) = [p EXCEPT !.cstack = SubSeq(p.cstack, 1, from - 1)]
    BY <1>2 DEF ENDCASE_
  <2> HIDE DEF from
  <2>4. exits \in SUBSET Int
    <3>1. \A i \in from + 1 .. Len(c.cstack) : i \in 1 .. Len(c.cstack)
      BY <1>0, <2>2
    <3>2. \A i \in 1 .. Len(c.cstack) : c.cstack[i] \in Int
      BY <1>0
    <3> QED
      BY <3>1, <3>2
  <2> HIDE DEF exits
  <2>5. Typed(end) /\ end.cells \in Int /\ end.cstack = c.cstack
    <3>1. Typed(end)
      BY MoreCells
    <3> QED
      BY <3>1 DEF Typed, comma
  <2> HIDE DEF end
  <2>6. Typed(p) /\ p.cstack = c.cstack
    BY <2>4, <2>5, Pointed
  <2> HIDE DEF p
  <2>7. SubSeq(c.cstack, 1, from - 1) \in Seq(Int) /\ Len(SubSeq(c.cstack, 1, from - 1)) <= Len(c.cstack)
    BY <1>0, <2>2, StackTypes
  <2>8. Len(SubSeq(c.cstack, 1, from - 1)) \in Nat
    BY <2>7
  <2>9. Len(SubSeq(c.cstack, 1, from - 1)) <= CSTACK_MAX
    BY <1>0, <2>7, <2>8
  <2>10. ENDCASE_(c) = [p EXCEPT !.cstack = SubSeq(c.cstack, 1, from - 1)]
    BY <2>3, <2>6
  <2> QED
    BY <2>6, <2>7, <2>9, <2>10, NewStack
<1> QED
  BY <1>1, <1>2

LEMMA CompiledTyped == ASSUME NEW w \in AllWords, Typed(Now) PROVE Typed(Compiled(w))
<1> DEFINE Straight == {"X", "IF", "WHILE", "ELSE", "THEN", "BEGIN", "UNTIL", "AGAIN", "REPEAT"}
<1>1. /\ Typed(comma(Now, 1)) /\ Typed(IF_(Now)) /\ Typed(ELSE_(Now)) /\ Typed(THEN_(Now))
      /\ Typed(BEGIN_(Now)) /\ Typed(UNTIL_(Now)) /\ Typed(REPEAT_(Now)) /\ Typed(DO_(Now))
      /\ Typed(QDO_(Now)) /\ Typed(LOOP_(Now)) /\ Typed(LEAVE_(Now)) /\ Typed(CASE_(Now))
      /\ Typed(OF_(Now)) /\ Typed(ENDOF_(Now)) /\ Typed(ENDCASE_(Now))
  BY MoreCells, ForwardTyped, ElseTyped, RepeatTyped, DoTyped, LeaveTyped, OfTyped, EndcaseTyped
  DEF IF_
<1>2. CASE w \in Straight
  BY <1>1, <1>2 DEF Compiled
<1>3. CASE w \in AllWords \ Straight
  BY <1>1, <1>3 DEF Compiled, AllWords
<1> QED
  BY <1>2, <1>3

\* The thread's variables are what Typed says.
ThreadInv ==
  /\ source \in Seq(Words) /\ flow \in {"idle", "compiling", "failed", "done"}
  /\ Typed(Now)

LEMMA NowFields ==
  Typed(Now) <=> /\ cells \in Nat /\ IsJumps(jumps)
                 /\ cstack \in Seq(Int) /\ Len(cstack) <= CSTACK_MAX
                 /\ leaves \in Seq(Nat) /\ Len(leaves) <= LEAVES_MAX
BY DEF Typed, Now

LEMMA NoThreadTyped ==
  ASSUME NEW c, c = <<>>
  PROVE  IsJumps(c) /\ (\A S : c \in Seq(S)) /\ Len(c) = 0
BY DEF IsJumps

\* What a word leaves that has met the end of the dictionary.
LEMMA WithoutRoomTyped ==
  ASSUME Typed(Now), NEW w, NEW k
  PROVE  Typed(WithoutRoom(w, k))
<1> PICK c : c = error(Now)
  OBVIOUS
<1>1. Typed(c) /\ Stale \in Int /\ Stale \in Nat /\ CS_QDO \in Int
  BY Failed DEF Stale, CS_QDO
<1>2. /\ Typed(cpush(c, Stale)) /\ Typed(cpush(cpush(c, Stale), CS_QDO))
      /\ Typed(cpush(cpush(cpush(c, Stale), Stale), CS_QDO))
  <2>1. Typed(cpush(c, Stale))
    BY <1>1, Pushed
  <2>2. Typed(cpush(cpush(c, Stale), Stale)) /\ Typed(cpush(cpush(c, Stale), CS_QDO))
    BY <1>1, <2>1, Pushed
  <2> QED
    BY <1>1, <2>1, <2>2, Pushed
<1>3. /\ Typed(OpenLeaves(cpush(c, Stale))) /\ Typed(OpenLeaves(cpush(cpush(c, Stale), CS_QDO)))
      /\ Typed(OpenLeaves(cpush(cpush(cpush(c, Stale), Stale), CS_QDO)))
  BY <1>2, LeavesOpened
<1>4. LEAVES_MAX # 0 => Typed([c EXCEPT !.leaves = <<Stale>>])
  <2>1. LEAVES_MAX \in Nat
    BY Places
  <2>2. <<Stale>> \in Seq(Nat) /\ Len(<<Stale>>) = 1
    BY <1>1
  <2>3. LEAVES_MAX # 0 => Len(<<Stale>>) <= LEAVES_MAX
    BY <2>1, <2>2
  <2> QED
    BY <1>1, <2>2, <2>3, NewLeaves
<1> QED
  BY <1>1, <1>2, <1>3, <1>4 DEF WithoutRoom

LEMMA ThreadKept == ASSUME ThreadInv, [Next]_vars PROVE ThreadInv'
<1>0. /\ source \in Seq(Words) /\ flow \in {"idle", "compiling", "failed", "done"} /\ Typed(Now)
  BY DEF ThreadInv
<1>1. ASSUME NEW how \in {"idle", "compiling"}, Thread(how)
      PROVE  ThreadInv'
  <2>1. /\ source' = <<>> /\ cells' = 0 /\ jumps' = <<>> /\ cstack' = <<>> /\ leaves' = <<>>
        /\ flow' = how
    BY <1>1 DEF Thread
  <2>2. IsJumps(jumps)' /\ source' \in Seq(Words) /\ cstack' \in Seq(Int) /\ leaves' \in Seq(Nat)
        /\ Len(cstack') = 0 /\ Len(leaves') = 0
    BY <2>1, NoThreadTyped DEF IsJumps
  <2>3. Typed(Now)'
    BY <2>1, <2>2, Places DEF Typed, Now
  <2> QED
    BY <2>1, <2>2, <2>3 DEF ThreadInv
<1>2. ASSUME UNCHANGED cvars
      PROVE  ThreadInv'
  <2>1. /\ source' = source /\ cells' = cells /\ jumps' = jumps /\ cstack' = cstack
        /\ leaves' = leaves /\ flow' = flow
    BY <1>2 DEF cvars
  <2>2. Typed(Now)'
    BY <1>0, <2>1 DEF Typed, Now
  <2> QED
    BY <1>0, <2>1, <2>2 DEF ThreadInv
<1>3. ASSUME NEW w \in Words, Word(w)
      PROVE  ThreadInv'
  <2> PICK c : c = Compiled(w)
    OBVIOUS
  <2>1. Typed(c)
    BY <1>0, CompiledTyped, ControlFlowAssumption
  <2>2. /\ cells' = c.cells /\ jumps' = c.jumps /\ cstack' = c.cstack /\ leaves' = c.leaves
        /\ flow' \in {"failed", "compiling"} /\ source' = Append(source, w)
    BY <1>3 DEF Word
  <2>3. Typed(Now)'
    BY <2>1, <2>2 DEF Typed, Now
  <2>4. source' \in Seq(Words)
    BY <1>0, <2>2
  <2> QED
    BY <2>2, <2>3, <2>4 DEF ThreadInv
<1>4. ASSUME EndThread
      PROVE  ThreadInv'
  <2>1. /\ source' = source /\ cells' = cells /\ jumps' = jumps /\ cstack' = <<>>
        /\ (leaves' = leaves \/ leaves' = <<>>) /\ flow' \in {"done", "failed"}
    BY <1>4 DEF EndThread
  <2>2. /\ cstack' \in Seq(Int) /\ Len(cstack') = 0 /\ Len(<<>>) = 0 /\ <<>> \in Seq(Nat)
    BY <2>1
  <2>3. /\ cells \in Nat /\ IsJumps(jumps) /\ leaves \in Seq(Nat) /\ Len(leaves) <= LEAVES_MAX
    BY <1>0, NowFields
  <2>4. IsJumps(jumps)'
    BY <2>1, <2>3 DEF IsJumps
  <2>5. leaves' \in Seq(Nat) /\ Len(leaves') <= LEAVES_MAX /\ Len(cstack') <= CSTACK_MAX
    <3>1. Len(cstack') <= CSTACK_MAX /\ 0 <= LEAVES_MAX
      BY <2>2, Places
    <3>2. CASE leaves' = leaves
      BY <2>3, <3>1, <3>2
    <3>3. CASE leaves' = <<>>
      BY <2>2, <3>1, <3>3
    <3> QED
      BY <2>1, <3>2, <3>3
  <2>6. Typed(Now)'
    BY <2>1, <2>2, <2>3, <2>4, <2>5 DEF Typed, Now
  <2> QED
    BY <1>0, <2>1, <2>6 DEF ThreadInv
<1>11. ASSUME NEW c, Typed(c), Dropped(c)
       PROVE  ThreadInv'
  <2>1. /\ source' = <<>> /\ cells' = 0 /\ jumps' = <<>> /\ cstack' = c.cstack
        /\ leaves' = c.leaves /\ flow' = "idle"
    BY <1>11 DEF Dropped
  <2>2. IsJumps(jumps)' /\ source' \in Seq(Words)
    BY <2>1, NoThreadTyped DEF IsJumps
  <2>3. Typed(Now)'
    BY <1>11, <2>1, <2>2 DEF Typed, Now
  <2> QED
    BY <2>1, <2>2, <2>3 DEF ThreadInv
<1>5. CASE Begin
  BY <1>1, <1>5 DEF Begin
<1>6. CASE WordStep
  BY <1>3, <1>6 DEF WordStep
<1>7. CASE End
  BY <1>4, <1>7 DEF End
<1>8. CASE FailsAt
  BY <1>1, <1>8 DEF FailsAt
<1>9. CASE Aside
  <2>1. UNCHANGED cvars \/ Dropped(Now)
    BY <1>9 DEF Aside
  <2> QED
    BY <1>0, <1>2, <1>11, <2>1
<1>10. CASE UNCHANGED vars
  BY <1>2, <1>10 DEF vars
<1>12. CASE Overflows
  <2>1. PICK w, k : Dropped(WithoutRoom(w, k))
    BY <1>12 DEF Overflows
  <2>2. Typed(WithoutRoom(w, k))
    BY <1>0, WithoutRoomTyped
  <2> QED
    BY <1>11, <2>1, <2>2
<1> QED
  BY <1>5, <1>6, <1>7, <1>8, <1>9, <1>10, <1>12 DEF Next

LEMMA InitThread == ASSUME NoThread PROVE ThreadInv
<1>1. /\ source = <<>> /\ cells = 0 /\ jumps = <<>> /\ cstack = <<>> /\ leaves = <<>> /\ flow = "idle"
  BY DEF NoThread
<1>2. /\ IsJumps(jumps) /\ source \in Seq(Words) /\ cstack \in Seq(Int) /\ leaves \in Seq(Nat)
      /\ Len(cstack) = 0 /\ Len(leaves) = 0
  BY <1>1, NoThreadTyped
<1> QED
  BY <1>1, <1>2, Places, NowFields DEF ThreadInv

\* The stacks of jumps never leave their places (forth.c: cpush, cpop, P_LEAVEIMM, whose
\* bounds are CSTACK_MAX and LEAVES_MAX), whatever a word still pushes when the dictionary
\* or the control stack was full, and memory for words is never left.
THEOREM CompilerTypeOK == ASSUME Orderly PROVE Spec => []TypeOK
<1>1. Init => ThreadInv
  BY InitThread DEF Init
<1>2. ThreadInv /\ [Next]_vars => ThreadInv'
  BY ThreadKept
<1>3. WordsInv /\ ThreadInv => TypeOK
  <2>1. ThreadInv => ThreadTypeOK
    BY NowFields DEF ThreadInv, ThreadTypeOK, IsJumps
  <2> QED
    BY <2>1 DEF WordsInv, TypeOK
<1> QED
  BY <1>1, <1>2, <1>3, DictionaryInvariant, PTL DEF Spec

-----------------------------------------------------------------------------
(* The source of a definition, by the structures that are open after each  *)
(* word of it.  OpenAfter and Before are CHOOSEs to the provers.           *)

\* What is open after word i, from what was before it.
Turn(s, i, x) ==
  IF s[i] \in Openers THEN Append(x, i)
  ELSE IF s[i] \in Closers /\ x # <<>> THEN Front(x) ELSE x

LEMMA OpenTurns ==
  ASSUME NEW s, Len(s) \in Nat
  PROVE  /\ OpenAfter(s) \in [0 .. Len(s) -> Seq(Nat)] /\ OpenAfter(s)[0] = <<>>
         /\ \A i \in 1 .. Len(s) : OpenAfter(s)[i] = Turn(s, i, OpenAfter(s)[i - 1])
<1> DEFINE m == Len(s)
           step == [i \in 1 .. m |-> [x \in Seq(Nat) |-> Turn(s, i, x)]]
           Is(o) == o = [i \in 0 .. Len(s) |->
                           IF i = 0 THEN <<>>
                           ELSE IF s[i] \in Openers THEN Append(o[i - 1], i)
                           ELSE IF s[i] \in Closers /\ o[i - 1] # <<>> THEN Front(o[i - 1])
                           ELSE o[i - 1]]
           c == CHOOSE o : Is(o)
<1>1. ASSUME NEW i \in 1 .. m, NEW x \in Seq(Nat)
      PROVE  Turn(s, i, x) \in Seq(Nat) /\ step[i][x] = Turn(s, i, x)
  <2>1. Append(x, i) \in Seq(Nat) /\ (x # <<>> => Front(x) \in Seq(Nat))
    BY StackTypes
  <2> QED
    BY <2>1 DEF Turn
<1>2. <<>> \in Seq(Nat) /\ m \in Nat
  OBVIOUS
<1>3. \A i \in 1 .. m : \A x \in Seq(Nat) : step[i][x] \in Seq(Nat)
  BY <1>1
<1> HIDE DEF step
<1>4. PICK P \in [0 .. m -> Seq(Nat)] : LoopOf(P, m, <<>>, step)
  BY <1>2, <1>3, LoopExists
<1>5. \A i \in 1 .. m : P[i] = Turn(s, i, P[i - 1])
  <2> TAKE i \in 1 .. m
  <2>1. i - 1 \in 0 .. m /\ P[i] = step[i][P[i - 1]]
    BY <1>2, <1>4 DEF LoopOf
  <2>2. P[i - 1] \in Seq(Nat)
    BY <1>4, <2>1
  <2> QED
    BY <1>1, <2>1, <2>2
<1>6. \A i \in 0 .. m :
        P[i] = IF i = 0 THEN <<>>
               ELSE IF s[i] \in Openers THEN Append(P[i - 1], i)
               ELSE IF s[i] \in Closers /\ P[i - 1] # <<>> THEN Front(P[i - 1])
               ELSE P[i - 1]
  <2> TAKE i \in 0 .. m
  <2>1. CASE i = 0
    BY <1>4, <2>1 DEF LoopOf
  <2>2. CASE i # 0
    <3>1. P[i] = Turn(s, i, P[i - 1])
      BY <1>2, <1>5, <2>2
    <3> QED
      BY <2>2, <3>1 DEF Turn
  <2> QED
    BY <2>1, <2>2
<1>7. P = [i \in 0 .. m |-> P[i]]
  BY <1>4
<1>8. Is(P)
  BY <1>6, <1>7
<1> HIDE DEF Is
<1>9. Is(c)
  BY <1>8
<1>10. c = OpenAfter(s)
  BY Zenon DEF OpenAfter, Is
<1> HIDE DEF c
<1> USE DEF Is
<1>11. /\ DOMAIN c = 0 .. m /\ c[0] = <<>>
       /\ \A i \in 1 .. m : c[i] = Turn(s, i, c[i - 1])
  <2>1. DOMAIN c = 0 .. m /\ 0 \in 0 .. m
    BY <1>2, <1>9
  <2>2. c[0] = <<>>
    BY <1>9, <2>1
  <2>3. ASSUME NEW i \in 1 .. m PROVE c[i] = Turn(s, i, c[i - 1])
    <3>1. i \in 0 .. m /\ i # 0
      BY <1>2
    <3> QED
      BY <1>9, <3>1 DEF Turn
  <2> QED
    BY <2>1, <2>2, <2>3
<1>12. \A i \in 0 .. m : c[i] \in Seq(Nat)
  <2> DEFINE G == {i \in 0 .. m : c[i] \in Seq(Nat)}
  <2>1. 0 \in G
    <3>1. 0 \in 0 .. m /\ c[0] = <<>> /\ <<>> \in Seq(Nat)
      BY <1>2, <1>11
    <3> QED
      BY <3>1
  <2>2. \A i \in 1 .. m : i - 1 \in G => i \in G
    BY <1>1, <1>11
  <2> HIDE DEF G
  <2>3. \A i \in 0 .. m : i \in G
    BY <2>1, <2>2, UpTo
  <2> QED
    BY <2>3 DEF G
<1>13. c = [i \in 0 .. m |-> c[i]]
  BY <1>9, <1>11
<1> QED
  BY <1>10, <1>11, <1>12, <1>13

\* What is open after a word does not depend on those that come later.
LEMMA SameOpen ==
  ASSUME NEW s, NEW t, Len(s) \in Nat, Len(t) \in Nat, NEW n \in Nat, n <= Len(s), n <= Len(t),
         \A i \in 1 .. n : s[i] = t[i]
  PROVE  \A i \in 0 .. n : OpenAfter(s)[i] = OpenAfter(t)[i]
<1> DEFINE G == {i \in 0 .. n : OpenAfter(s)[i] = OpenAfter(t)[i]}
<1>1. 0 \in G
  BY OpenTurns
<1>2. ASSUME NEW i \in 1 .. n, i - 1 \in G PROVE i \in G
  <2>1. i \in 1 .. Len(s) /\ i \in 1 .. Len(t)
    OBVIOUS
  <2>2. OpenAfter(s)[i] = Turn(s, i, OpenAfter(s)[i - 1]) /\ OpenAfter(t)[i] = Turn(t, i, OpenAfter(t)[i - 1])
    BY <2>1, OpenTurns
  <2>3. Turn(s, i, OpenAfter(s)[i - 1]) = Turn(t, i, OpenAfter(t)[i - 1])
    BY <1>2 DEF Turn
  <2> QED
    BY <2>2, <2>3
<1> HIDE DEF G
<1>3. \A i \in 0 .. n : i \in G
  BY <1>1, <1>2, UpTo
<1> QED
  BY <1>3 DEF G

\* What a word does to what is open: one more, one less, or nothing.
OneOpens(i, old, new) ==
  /\ Len(new) = Len(old) + 1 /\ new[Len(new)] = i
  /\ \A k \in 1 .. Len(old) : new[k] = old[k]

OneCloses(old, new) ==
  /\ Len(new) = Len(old) - 1 /\ new = Front(old)
  /\ \A k \in 1 .. Len(new) : new[k] = old[k]

LEMMA TurnCases ==
  ASSUME NEW s, Len(s) \in Nat, NEW i \in 1 .. Len(s),
         NEW old, NEW new, old = OpenAfter(s)[i - 1], new = OpenAfter(s)[i]
  PROVE  /\ Len(old) \in Nat /\ Len(new) \in Nat /\ old \in Seq(Nat) /\ new \in Seq(Nat)
         /\ s[i] \in Openers => OneOpens(i, old, new)
         /\ s[i] \notin Openers /\ s[i] \in Closers /\ old # <<>> => OneCloses(old, new)
         /\ s[i] \notin Openers /\ (s[i] \notin Closers \/ old = <<>>) => new = old
<1>1. i - 1 \in 0 .. Len(s) /\ i \in 0 .. Len(s)
  OBVIOUS
<1>2. old \in Seq(Nat) /\ new \in Seq(Nat) /\ new = Turn(s, i, old)
  BY <1>1, OpenTurns
<1>3. s[i] \in Openers => new = Append(old, i)
  BY <1>2 DEF Turn
<1>4. s[i] \notin Openers /\ s[i] \in Closers /\ old # <<>> => new = SubSeq(old, 1, Len(old) - 1) /\ new = Front(old)
  BY <1>2 DEF Turn, Front
<1>5. s[i] \notin Openers /\ (s[i] \notin Closers \/ old = <<>>) => new = old
  BY <1>2 DEF Turn
<1>6. ASSUME old # <<>>
      PROVE  /\ Len(SubSeq(old, 1, Len(old) - 1)) = Len(old) - 1
             /\ \A k \in 1 .. Len(old) - 1 : SubSeq(old, 1, Len(old) - 1)[k] = old[k]
  <2> PICK m \in Nat : m + 1 = Len(old)
    BY <1>2, <1>6
  <2>1. Len(SubSeq(old, 1, m)) = m /\ \A k \in 1 .. m : SubSeq(old, 1, m)[k] = old[k]
    BY <1>2
  <2>2. Len(old) - 1 = m
    OBVIOUS
  <2> QED
    BY <2>1, <2>2
<1>7. s[i] \in Openers => OneOpens(i, old, new)
  BY <1>2, <1>3, SMTT(20) DEF OneOpens
<1>8. s[i] \notin Openers /\ s[i] \in Closers /\ old # <<>> => OneCloses(old, new)
  BY <1>2, <1>4, <1>6 DEF OneCloses
<1> QED
  BY <1>2, <1>5, <1>7, <1>8

\* Structures close in the order opposite to the one in which they were opened: where p is
\* open at depth k after word i, the ones around it are those that were open when it was
\* opened, and it has been open at that depth since.
Nest(s, i) ==
  \A k \in 1 .. Len(OpenAfter(s)[i]) :
    LET p == OpenAfter(s)[i][k]
    IN  /\ p \in 1 .. i /\ s[p] \in Openers
        /\ Len(OpenAfter(s)[p - 1]) = k - 1 /\ Len(OpenAfter(s)[p]) = k
        /\ \A j \in 1 .. k - 1 : OpenAfter(s)[p - 1][j] = OpenAfter(s)[i][j]
        /\ \A r \in p .. i : k <= Len(OpenAfter(s)[r]) /\ \A j \in 1 .. k : OpenAfter(s)[r][j] = OpenAfter(s)[i][j]

LEMMA StructuresNest ==
  ASSUME NEW s, Len(s) \in Nat
  PROVE  \A i \in 0 .. Len(s) : Nest(s, i)
<1> DEFINE G == {i \in 0 .. Len(s) : Nest(s, i)}
<1>1. 0 \in G
  <2>1. Len(OpenAfter(s)[0]) = 0
    BY OpenTurns
  <2> QED
    BY <2>1 DEF Nest
<1>2. ASSUME NEW i \in 1 .. Len(s), i - 1 \in G PROVE i \in G
  <2> PICK old, new : old = OpenAfter(s)[i - 1] /\ new = OpenAfter(s)[i]
    OBVIOUS
  <2>1. Len(old) \in Nat /\ Len(new) \in Nat /\ Len(s) \in Nat
    BY TurnCases
  <2>5. s[i] \notin Openers /\ s[i] \in Closers /\ old # <<>> =>
          Len(new) = Len(old) - 1 /\ \A j \in 1 .. Len(new) : new[j] = old[j]
    <3>1. s[i] \notin Openers /\ s[i] \in Closers /\ old # <<>> => OneCloses(old, new)
      BY TurnCases
    <3> QED
      BY <3>1 DEF OneCloses
  <2>6. s[i] \in Openers => /\ Len(new) = Len(old) + 1 /\ new[Len(new)] = i
                            /\ \A j \in 1 .. Len(old) : new[j] = old[j]
    <3>1. s[i] \in Openers => OneOpens(i, old, new)
      BY TurnCases
    <3> QED
      BY <3>1 DEF OneOpens
  <2>2. Nest(s, i - 1)
    BY <1>2
  <2>3. ASSUME NEW k \in 1 .. Len(new)
        PROVE  \/ k <= Len(old) /\ \A j \in 1 .. k : new[j] = old[j]
               \/ /\ k = Len(old) + 1 /\ k = Len(new) /\ new[k] = i /\ s[i] \in Openers
                  /\ \A j \in 1 .. k - 1 : new[j] = old[j]
    <3>1. CASE s[i] \in Openers
      BY <2>1, <2>6, <3>1
    <3>2. CASE s[i] \notin Openers /\ s[i] \in Closers /\ old # <<>>
      <4>1. Len(new) = Len(old) - 1 /\ \A j \in 1 .. Len(new) : new[j] = old[j]
        BY <2>5, <3>2
      <4> QED
        BY <2>1, <4>1
    <3>3. CASE s[i] \notin Openers /\ (s[i] \notin Closers \/ old = <<>>)
      <4>1. new = old
        BY <3>3, TurnCases
      <4> QED
        BY <2>1, <4>1
    <3> QED
      BY <3>1, <3>2, <3>3
  <2>4. ASSUME NEW k \in 1 .. Len(new), NEW p, p = new[k]
        PROVE  /\ p \in 1 .. i /\ s[p] \in Openers
               /\ Len(OpenAfter(s)[p - 1]) = k - 1 /\ Len(OpenAfter(s)[p]) = k
               /\ \A j \in 1 .. k - 1 : OpenAfter(s)[p - 1][j] = new[j]
               /\ \A r \in p .. i : k <= Len(OpenAfter(s)[r]) /\ \A j \in 1 .. k : OpenAfter(s)[r][j] = new[j]
    <3>1. CASE k <= Len(old) /\ \A j \in 1 .. k : new[j] = old[j]
      <4>1. k \in 1 .. Len(old) /\ p = old[k]
        BY <2>1, <2>4, <3>1
      <4>2. /\ p \in 1 .. i - 1 /\ s[p] \in Openers
            /\ Len(OpenAfter(s)[p - 1]) = k - 1 /\ Len(OpenAfter(s)[p]) = k
            /\ \A j \in 1 .. k - 1 : OpenAfter(s)[p - 1][j] = old[j]
            /\ \A r \in p .. i - 1 : k <= Len(OpenAfter(s)[r]) /\ \A j \in 1 .. k : OpenAfter(s)[r][j] = old[j]
        BY <2>2, <4>1 DEF Nest
      <4>3. \A j \in 1 .. k - 1 : OpenAfter(s)[p - 1][j] = new[j]
        BY <3>1, <4>2
      <4>4. ASSUME NEW r \in p .. i
            PROVE  k <= Len(OpenAfter(s)[r]) /\ \A j \in 1 .. k : OpenAfter(s)[r][j] = new[j]
        <5>1. CASE r = i
          BY <2>1, <5>1
        <5>2. CASE r # i
          <6>1. r \in p .. i - 1
            BY <4>2, <5>2
          <6> QED
            BY <3>1, <4>2, <6>1
        <5> QED
          BY <5>1, <5>2
      <4> QED
        BY <4>2, <4>3, <4>4
    <3>2. CASE /\ k = Len(old) + 1 /\ k = Len(new) /\ new[k] = i /\ s[i] \in Openers
               /\ \A j \in 1 .. k - 1 : new[j] = old[j]
      BY <2>1, <2>4, <3>2, SMTT(20)
    <3> QED
      BY <2>3, <3>1, <3>2
  <2> QED
    BY <2>4, SMTT(20) DEF Nest
<1> HIDE DEF G
<1>3. \A i \in 0 .. Len(s) : i \in G
  BY <1>1, <1>2, UpTo
<1> QED
  BY <1>3 DEF G

\* The cells of the thread before each word add up.
LEMMA Sizes == \A w : Size(w) \in Nat
BY DEF Size

LEMMA BeforeTurns ==
  ASSUME NEW s, Len(s) \in Nat
  PROVE  /\ Before(s) \in [1 .. Len(s) + 1 -> Nat] /\ Before(s)[1] = 0
         /\ \A i \in 1 .. Len(s) : Before(s)[i + 1] = Before(s)[i] + Size(s[i])
<1> DEFINE m == Len(s)
           step == [i \in 1 .. m |-> [x \in Nat |-> x + Size(s[i])]]
           Is(b) == b = [i \in 1 .. Len(s) + 1 |-> IF i = 1 THEN 0 ELSE b[i - 1] + Size(s[i - 1])]
           c == CHOOSE b : Is(b)
<1>1. ASSUME NEW i \in 1 .. m, NEW x \in Nat
      PROVE  x + Size(s[i]) \in Nat /\ step[i][x] = x + Size(s[i])
  BY Sizes
<1>2. 0 \in Nat /\ m \in Nat
  OBVIOUS
<1>3. \A i \in 1 .. m : \A x \in Nat : step[i][x] \in Nat
  BY <1>1
<1> HIDE DEF step
<1>4. PICK P \in [0 .. m -> Nat] : LoopOf(P, m, 0, step)
  BY <1>2, <1>3, LoopExists
<1> DEFINE b == [i \in 1 .. m + 1 |-> P[i - 1]]
<1>5. ASSUME NEW i \in 1 .. m + 1
      PROVE  b[i] = IF i = 1 THEN 0 ELSE b[i - 1] + Size(s[i - 1])
  <2>1. CASE i = 1
    BY <1>4, <2>1 DEF LoopOf
  <2>2. CASE i # 1
    <3>1. i - 1 \in 1 .. m /\ i - 2 \in 0 .. m /\ i - 1 - 1 = i - 2
      BY <1>2, <2>2
    <3>2. P[i - 1] = step[i - 1][P[i - 2]] /\ P[i - 2] \in Nat
      BY <1>4, <3>1 DEF LoopOf
    <3>3. P[i - 1] = P[i - 2] + Size(s[i - 1])
      BY <1>1, <3>1, <3>2
    <3>4. b[i] = P[i - 1] /\ b[i - 1] = P[i - 2]
      BY <1>2, <3>1
    <3> QED
      BY <2>2, <3>3, <3>4
  <2> QED
    BY <2>1, <2>2
<1>6. b = [i \in 1 .. m + 1 |-> b[i]]
  OBVIOUS
<1> HIDE DEF b
<1>7. Is(b)
  BY <1>5, <1>6
<1> HIDE DEF Is
<1>8. Is(c)
  BY <1>7
<1>9. c = Before(s)
  BY Zenon DEF Before, Is
<1> HIDE DEF c
<1> USE DEF Is
<1>10. DOMAIN c = 1 .. m + 1 /\ c[1] = 0
  <2>1. 1 \in 1 .. m + 1
    BY <1>2
  <2> QED
    BY <1>8, <2>1
<1>11. ASSUME NEW i \in 1 .. m PROVE c[i + 1] = c[i] + Size(s[i])
  <2>1. i + 1 \in 1 .. m + 1 /\ i + 1 # 1 /\ i + 1 - 1 = i
    BY <1>2
  <2> QED
    BY <1>8, <2>1
<1>12. \A i \in 0 .. m : c[i + 1] \in Nat
  <2> DEFINE G == {i \in 0 .. m : c[i + 1] \in Nat}
  <2>1. 0 \in G
    BY <1>10
  <2>2. ASSUME NEW i \in 1 .. m, i - 1 \in G PROVE i \in G
    <3>1. c[i] \in Nat
      BY <2>2
    <3> QED
      BY <1>11, <3>1, Sizes
  <2> HIDE DEF G
  <2>3. \A i \in 0 .. m : i \in G
    BY <2>1, <2>2, UpTo
  <2> QED
    BY <2>3 DEF G
<1>13. ASSUME NEW i \in 1 .. m + 1 PROVE c[i] \in Nat
  <2>1. i - 1 \in 0 .. m /\ i - 1 + 1 = i
    BY <1>2
  <2> QED
    BY <1>12, <2>1
<1>14. c = [i \in 1 .. m + 1 |-> c[i]]
  BY <1>8, <1>10
<1> QED
  BY <1>9, <1>10, <1>11, <1>13, <1>14

LEMMA SameBefore ==
  ASSUME NEW s, NEW t, Len(s) \in Nat, Len(t) \in Nat, NEW n \in Nat, n <= Len(s), n <= Len(t),
         \A i \in 1 .. n : s[i] = t[i]
  PROVE  \A i \in 1 .. n + 1 : Before(s)[i] = Before(t)[i]
<1> DEFINE G == {i \in 0 .. n : Before(s)[i + 1] = Before(t)[i + 1]}
<1>1. 0 \in G
  BY BeforeTurns
<1>2. ASSUME NEW i \in 1 .. n, i - 1 \in G PROVE i \in G
  <2>1. i \in 1 .. Len(s) /\ i \in 1 .. Len(t)
    OBVIOUS
  <2>2. Before(s)[i + 1] = Before(s)[i] + Size(s[i]) /\ Before(t)[i + 1] = Before(t)[i] + Size(t[i])
    BY <2>1, BeforeTurns
  <2>3. Before(s)[i] = Before(t)[i]
    BY <1>2
  <2> QED
    BY <2>2, <2>3
<1> HIDE DEF G
<1>3. \A i \in 0 .. n : i \in G
  BY <1>1, <1>2, UpTo
<1>4. ASSUME NEW i \in 1 .. n + 1 PROVE Before(s)[i] = Before(t)[i]
  <2>1. i - 1 \in 0 .. n /\ i - 1 + 1 = i
    OBVIOUS
  <2> QED
    BY <1>3, <2>1 DEF G
<1> QED
  BY <1>4

LEMMA BeforeGrows ==
  ASSUME NEW s, Len(s) \in Nat, NEW i \in 1 .. Len(s) + 1, NEW j \in i .. Len(s) + 1
  PROVE  Before(s)[i] <= Before(s)[j]
<1> DEFINE m == Len(s) + 1 - i
           G == {d \in 0 .. m : Before(s)[i] <= Before(s)[i + d]}
<1>0. \A k \in 1 .. Len(s) + 1 : Before(s)[k] \in Nat
  BY BeforeTurns
<1>1. 0 \in G
  BY <1>0
<1>2. ASSUME NEW d \in 1 .. m, d - 1 \in G PROVE d \in G
  <2>1. i + (d - 1) \in 1 .. Len(s) /\ i + (d - 1) + 1 = i + d
    OBVIOUS
  <2>2. Before(s)[i + d] = Before(s)[i + (d - 1)] + Size(s[i + (d - 1)])
    BY <2>1, BeforeTurns
  <2>3. Before(s)[i] <= Before(s)[i + (d - 1)]
    BY <1>2
  <2>4. Before(s)[i] \in Nat /\ Before(s)[i + (d - 1)] \in Nat /\ Size(s[i + (d - 1)]) \in Nat
    BY <1>0, <2>1, Sizes
  <2>5. Before(s)[i] <= Before(s)[i + d]
    BY <2>2, <2>3, <2>4
  <2> QED
    BY <2>5
<1> HIDE DEF G
<1>3. m \in Nat
  OBVIOUS
<1>4. \A d \in 0 .. m : d \in G
  BY <1>1, <1>2, <1>3, UpTo
<1>5. j - i \in 0 .. m /\ i + (j - i) = j
  OBVIOUS
<1> QED
  BY <1>4, <1>5 DEF G

\* Whether p is open after word i, and the innermost structure that is.
Opened(s, i, p) == \E k \in 1 .. Len(OpenAfter(s)[i]) : OpenAfter(s)[i][k] = p
Inner(s, i) == Last(OpenAfter(s)[i])

LEMMA OpenerCloser == \A w : w \in Closers => w \notin Openers
BY DEF Closers, Openers

LEMMA OpenLen ==
  ASSUME NEW s, Len(s) \in Nat, NEW i \in 0 .. Len(s)
  PROVE  /\ OpenAfter(s)[i] \in Seq(Nat) /\ Len(OpenAfter(s)[i]) \in Nat
         /\ OpenAfter(s)[i] = <<>> <=> Len(OpenAfter(s)[i]) = 0
         /\ DOMAIN OpenAfter(s)[i] = 1 .. Len(OpenAfter(s)[i])
         /\ Inner(s, i) = OpenAfter(s)[i][Len(OpenAfter(s)[i])]
<1>1. OpenAfter(s)[i] \in Seq(Nat)
  BY OpenTurns
<1> QED
  BY <1>1 DEF Inner, Last

\* The outer ones come first.
LEMMA Rising ==
  ASSUME NEW s, Len(s) \in Nat, NEW i \in 0 .. Len(s),
         NEW k \in 1 .. Len(OpenAfter(s)[i]), NEW j \in 1 .. k - 1
  PROVE  OpenAfter(s)[i][j] < OpenAfter(s)[i][k]
<1> DEFINE p == OpenAfter(s)[i][k]
<1>1. /\ p \in 1 .. i /\ Len(OpenAfter(s)[p - 1]) = k - 1
      /\ OpenAfter(s)[p - 1][j] = OpenAfter(s)[i][j]
  BY StructuresNest DEF Nest
<1>2. p - 1 \in 0 .. Len(s)
  BY <1>1
<1>3. OpenAfter(s)[p - 1][j] \in 1 .. p - 1
  <2> HIDE DEF p
  <2>1. Nest(s, p - 1) /\ j \in 1 .. Len(OpenAfter(s)[p - 1])
    BY <1>1, <1>2, StructuresNest
  <2> QED
    BY <2>1 DEF Nest
<1> QED
  BY <1>1, <1>3

\* The innermost open structure p, at depth k.
InnerIs(s, i, p, k) ==
  /\ k \in Nat \ {0} /\ OpenAfter(s)[i][k] = p /\ Opened(s, i, p)
  /\ p \in 1 .. i /\ s[p] \in Openers
  /\ Len(OpenAfter(s)[p - 1]) = k - 1 /\ Len(OpenAfter(s)[p]) = k
  /\ \A j \in 1 .. k - 1 : OpenAfter(s)[p - 1][j] = OpenAfter(s)[i][j]
  /\ \A r \in p .. i : k <= Len(OpenAfter(s)[r]) /\ \A j \in 1 .. k : OpenAfter(s)[r][j] = OpenAfter(s)[i][j]

LEMMA InnerFacts ==
  ASSUME NEW s, Len(s) \in Nat, NEW i \in 0 .. Len(s), OpenAfter(s)[i] # <<>>
  PROVE  InnerIs(s, i, Inner(s, i), Len(OpenAfter(s)[i]))
<1> PICK k, p : k = Len(OpenAfter(s)[i]) /\ p = Inner(s, i)
  OBVIOUS
<1>1. k \in Nat \ {0} /\ OpenAfter(s)[i][k] = p /\ k \in 1 .. Len(OpenAfter(s)[i])
  BY OpenLen
<1>2. LET q == OpenAfter(s)[i][k]
      IN  /\ q \in 1 .. i /\ s[q] \in Openers
          /\ Len(OpenAfter(s)[q - 1]) = k - 1 /\ Len(OpenAfter(s)[q]) = k
          /\ \A j \in 1 .. k - 1 : OpenAfter(s)[q - 1][j] = OpenAfter(s)[i][j]
          /\ \A r \in q .. i : k <= Len(OpenAfter(s)[r]) /\ \A j \in 1 .. k : OpenAfter(s)[r][j] = OpenAfter(s)[i][j]
  <2>1. Nest(s, i)
    BY StructuresNest
  <2> QED
    BY <1>1, <2>1, Zenon DEF Nest
<1>3. Opened(s, i, p)
  BY <1>1, Zenon DEF Opened
<1> QED
  BY <1>1, <1>2, <1>3, Zenon DEF InnerIs

\* What is open tells which others are.
LEMMA InnerSame ==
  ASSUME NEW s, Len(s) \in Nat, NEW i \in 0 .. Len(s), NEW e \in 0 .. i,
         OpenAfter(s)[i] # <<>>, OpenAfter(s)[e] # <<>>, Inner(s, i) = Inner(s, e)
  PROVE  OpenAfter(s)[e] = OpenAfter(s)[i]
<1> PICK p, k, n : p = Inner(s, i) /\ k = Len(OpenAfter(s)[i]) /\ n = Len(OpenAfter(s)[e])
  OBVIOUS
<1>1. InnerIs(s, i, p, k) /\ e \in 0 .. Len(s)
  BY InnerFacts
<1>2. InnerIs(s, e, p, n)
  BY <1>1, InnerFacts
<1>3. n = k /\ e \in p .. i
  BY <1>1, <1>2 DEF InnerIs
<1>4. OpenAfter(s)[e] \in Seq(Nat) /\ OpenAfter(s)[i] \in Seq(Nat)
  BY <1>1, OpenLen
<1>5. \A j \in 1 .. k : OpenAfter(s)[e][j] = OpenAfter(s)[i][j]
  BY <1>1, <1>3 DEF InnerIs
<1>6. \A x \in Seq(Nat) : x = [j \in 1 .. Len(x) |-> x[j]]
  OBVIOUS
<1>7. [j \in 1 .. n |-> OpenAfter(s)[e][j]] = [j \in 1 .. k |-> OpenAfter(s)[i][j]]
  BY <1>3, <1>5
<1> QED
  BY <1>4, <1>6, <1>7

LEMMA OpenedStays ==
  ASSUME NEW s, Len(s) \in Nat, NEW i \in 0 .. Len(s), NEW p, Opened(s, i, p), NEW r \in p .. i
  PROVE  p \in 1 .. i /\ s[p] \in Openers /\ Opened(s, r, p)
<1> PICK k \in 1 .. Len(OpenAfter(s)[i]) : OpenAfter(s)[i][k] = p
  BY DEF Opened
<1>1. /\ p \in 1 .. i /\ s[p] \in Openers
      /\ k <= Len(OpenAfter(s)[r]) /\ OpenAfter(s)[r][k] = p
  <2>1. Nest(s, i)
    BY StructuresNest
  <2> QED
    BY <2>1 DEF Nest
<1>2. k \in 1 .. Len(OpenAfter(s)[r])
  <2>1. r \in 0 .. Len(s)
    BY <1>1
  <2>2. Len(OpenAfter(s)[r]) \in Nat
    BY <2>1, OpenLen
  <2> QED
    BY <1>1, <2>2
<1> QED
  BY <1>1, <1>2 DEF Opened

\* A closing word closes the innermost, for good;
LEMMA Closes ==
  ASSUME NEW s, Len(s) \in Nat, NEW i \in 1 .. Len(s), s[i] \in Closers, OpenAfter(s)[i - 1] # <<>>,
         NEW j \in i .. Len(s)
  PROVE  ~ Opened(s, j, Inner(s, i - 1))
<1> PICK p, k, old, new : /\ p = Inner(s, i - 1) /\ k = Len(OpenAfter(s)[i - 1])
                          /\ old = OpenAfter(s)[i - 1] /\ new = OpenAfter(s)[i]
  OBVIOUS
<1>0. i - 1 \in 0 .. Len(s) /\ i \in 0 .. Len(s) /\ j \in 0 .. Len(s)
  OBVIOUS
<1>1. k \in Nat \ {0} /\ old[k] = p /\ p \in 1 .. i - 1
  BY <1>0, InnerFacts DEF InnerIs
<1>2. Len(new) = k - 1 /\ \A n \in 1 .. Len(new) : new[n] = old[n]
  <2>1. s[i] \notin Openers /\ old # <<>>
    BY OpenerCloser
  <2>2. OneCloses(old, new)
    BY <2>1, TurnCases
  <2> QED
    BY <2>2 DEF OneCloses
<1>3. ASSUME NEW n \in 1 .. k - 1 PROVE old[n] < p
  <2>1. k \in 1 .. Len(OpenAfter(s)[i - 1])
    BY <1>1
  <2> QED
    BY <1>0, <1>1, <2>1, Rising
<1>4. ~ Opened(s, i, p)
  <2> SUFFICES ASSUME NEW n \in 1 .. Len(new), new[n] = p PROVE FALSE
    BY DEF Opened
  <2>1. n \in 1 .. k - 1 /\ old[n] = p
    BY <1>1, <1>2
  <2> QED
    BY <1>1, <1>3, <2>1
<1>5. i \in p .. j
  BY <1>1
<1> QED
  BY <1>0, <1>4, <1>5, OpenedStays

\* and what is not open any more has been closed by one.
LEMMA Ends ==
  ASSUME NEW s, Len(s) \in Nat, NEW n \in 0 .. Len(s), NEW i \in 0 .. n, NEW p \in 1 .. i,
         Opened(s, i, p), ~ Opened(s, n, p)
  PROVE  \E q \in i + 1 .. n : s[q] \in Closers /\ OpenAfter(s)[q - 1] # <<>> /\ Inner(s, q - 1) = p
<1> DEFINE Bad == {q \in i .. n : ~ Opened(s, q, p)}
           q == Min(Bad)
<1>1. Bad \in SUBSET Nat /\ Bad # {}
  OBVIOUS
<1>2. q \in Bad /\ \A r \in Bad : q <= r
  <2> HIDE DEF Bad
  <2> QED
    BY <1>1, MinIsLeast
<1> HIDE DEF q
<1>3. q \in i + 1 .. n /\ ~ Opened(s, q, p) /\ Opened(s, q - 1, p) /\ q \in 1 .. Len(s)
  <2>1. q # i
    BY <1>2
  <2>2. q - 1 \notin Bad
    BY <1>2
  <2> QED
    BY <1>2, <2>1, <2>2
<1> HIDE DEF Bad
<1> PICK old, new : old = OpenAfter(s)[q - 1] /\ new = OpenAfter(s)[q]
  OBVIOUS
<1>4. Len(old) \in Nat /\ Len(new) \in Nat
  BY <1>3, OpenLen
<1> PICK k \in 1 .. Len(old) : old[k] = p
  BY <1>3 DEF Opened
<1>5. \A m \in 1 .. Len(new) : new[m] # p
  BY <1>3 DEF Opened
<1>6. s[q] \in Openers => /\ Len(new) = Len(old) + 1 /\ new[Len(new)] = q
                          /\ \A m \in 1 .. Len(old) : new[m] = old[m]
  <2>1. s[q] \in Openers => OneOpens(q, old, new)
    BY <1>3, TurnCases
  <2> QED
    BY <2>1 DEF OneOpens
<1>7. s[q] \notin Openers /\ s[q] \in Closers /\ old # <<>> =>
        Len(new) = Len(old) - 1 /\ \A m \in 1 .. Len(new) : new[m] = old[m]
  <2>1. s[q] \notin Openers /\ s[q] \in Closers /\ old # <<>> => OneCloses(old, new)
    BY <1>3, TurnCases
  <2> QED
    BY <2>1 DEF OneCloses
<1>8. s[q] \notin Openers /\ (s[q] \notin Closers \/ old = <<>>) => new = old
  BY <1>3, TurnCases
<1>9. s[q] \notin Openers /\ s[q] \in Closers /\ old # <<>>
  BY <1>4, <1>5, <1>6, <1>8, SMTT(40)
<1>11. Len(new) = Len(old) - 1 /\ \A m \in 1 .. Len(new) : new[m] = old[m]
  BY <1>7, <1>9
<1>10. k = Len(old)
  BY <1>4, <1>5, <1>11
<1> QED
  BY <1>3, <1>9, <1>10, OpenLen

-----------------------------------------------------------------------------
(* What it takes for each word to fit, in the whole source.                *)

Loops    == {"DO", "?DO"}
Forwards == {"IF", "ELSE", "WHILE", "LEAVE", "OF", "ENDOF", "?DO"}
Backs    == {"UNTIL", "AGAIN", "REPEAT", "LOOP"}

Within(s, i, kinds) == OpenAfter(s)[i - 1] # <<>> /\ s[Inner(s, i - 1)] \in kinds
Since(s, i, w) == \E e \in Inner(s, i - 1) + 1 .. i - 1 :
                    s[e] = w /\ OpenAfter(s)[e] = OpenAfter(s)[i - 1]

FitAt(s, i) ==
  /\ s[i] \in {"ELSE", "THEN"} => Within(s, i, {"IF"})
  /\ s[i] \in {"WHILE", "REPEAT", "UNTIL", "AGAIN"} => Within(s, i, {"BEGIN"})
  /\ s[i] = "LOOP" => Within(s, i, Loops)
  /\ s[i] \in {"OF", "ENDCASE"} => Within(s, i, {"CASE"})
  /\ s[i] = "ENDOF" => Within(s, i, {"OF"})
  /\ s[i] = "LEAVE" => \E k \in 1 .. Len(OpenAfter(s)[i - 1]) : s[OpenAfter(s)[i - 1][k]] \in Loops
  /\ s[i] = "ELSE" => ~ Since(s, i, "ELSE")
  /\ s[i] \in {"WHILE", "UNTIL", "AGAIN"} => ~ Since(s, i, "WHILE")
  /\ s[i] = "REPEAT" => Since(s, i, "WHILE")

AllFit(s) == \A i \in DOMAIN s : Fits(SubSeq(s, 1, i - 1), s[i])

LEMMA Prefix ==
  ASSUME NEW s \in Seq(AllWords), NEW i \in 1 .. Len(s), NEW t, t = SubSeq(s, 1, i - 1)
  PROVE  Len(t) = i - 1 /\ \A j \in 1 .. i - 1 : t[j] = s[j]
<1> PICK m \in Nat : m = i - 1
  OBVIOUS
<1>1. \A j \in 1 .. m : s[j] \in AllWords
  OBVIOUS
<1>2. Len(SubSeq(s, 1, m)) = m /\ \A j \in 1 .. m : SubSeq(s, 1, m)[j] = s[j]
  BY <1>1
<1> QED
  BY <1>2

LEMMA PrefixOpen ==
  ASSUME NEW s \in Seq(AllWords), NEW i \in 1 .. Len(s), NEW t, t = SubSeq(s, 1, i - 1)
  PROVE  \A j \in 0 .. i - 1 : OpenAfter(t)[j] = OpenAfter(s)[j]
<1> PICK n \in Nat : n = i - 1
  OBVIOUS
<1>1. /\ Len(s) \in Nat /\ Len(t) \in Nat /\ n <= Len(s) /\ n <= Len(t)
      /\ \A j \in 1 .. n : t[j] = s[j]
  BY Prefix
<1>2. \A j \in 0 .. n : OpenAfter(t)[j] = OpenAfter(s)[j]
  BY <1>1, SameOpen, Zenon
<1> QED
  BY <1>2

LEMMA FitHere ==
  ASSUME NEW s \in Seq(AllWords), NEW i \in 1 .. Len(s), Fits(SubSeq(s, 1, i - 1), s[i])
  PROVE  FitAt(s, i)
<1> PICK t, open, inner, kind :
      /\ t = SubSeq(s, 1, i - 1) /\ open = OpenAfter(t)[Len(t)]
      /\ inner = (IF open = <<>> THEN 0 ELSE Last(open))
      /\ kind = (IF inner = 0 THEN "none" ELSE t[inner])
  OBVIOUS
<1>0. Len(s) \in Nat /\ i - 1 \in 0 .. Len(s)
  OBVIOUS
<1>1. Len(t) = i - 1 /\ \A j \in 1 .. i - 1 : t[j] = s[j]
  BY Prefix
<1>2. \A j \in 0 .. i - 1 : OpenAfter(t)[j] = OpenAfter(s)[j]
  BY PrefixOpen
<1>3. open = OpenAfter(s)[i - 1]
  BY <1>0, <1>1, <1>2
<1>4. open # <<>> => /\ inner = Inner(s, i - 1) /\ inner \in 1 .. i - 1 /\ kind = s[inner]
  <2> SUFFICES ASSUME open # <<>>
               PROVE  inner = Inner(s, i - 1) /\ inner \in 1 .. i - 1 /\ kind = s[inner]
    OBVIOUS
  <2>1. inner = Inner(s, i - 1)
    BY <1>3 DEF Inner
  <2>2. InnerIs(s, i - 1, inner, Len(OpenAfter(s)[i - 1]))
    BY <1>0, <1>3, <2>1, InnerFacts
  <2>3. inner \in 1 .. i - 1
    BY <2>2 DEF InnerIs
  <2> QED
    BY <1>0, <1>1, <2>1, <2>3
<1>5. open = <<>> => kind = "none"
  OBVIOUS
<1>6. ASSUME NEW K, kind \in K, "none" \notin K
      PROVE  Within(s, i, K)
  <2>1. open # <<>>
    BY <1>5, <1>6
  <2> QED
    BY <1>3, <1>4, <1>6, <2>1 DEF Within
<1> DEFINE S(w) == \E p \in inner + 1 .. Len(t) : t[p] = w /\ OpenAfter(t)[p] = open
<1>7. ASSUME NEW w, open # <<>> PROVE S(w) <=> Since(s, i, w)
  <2>1. \A p \in inner + 1 .. i - 1 : t[p] = s[p] /\ OpenAfter(t)[p] = OpenAfter(s)[p]
    BY <1>1, <1>2, <1>4, <1>7
  <2> QED
    BY <1>1, <1>3, <1>4, <1>7, <2>1 DEF Since
<1>8. /\ s[i] = "ELSE" => kind = "IF" /\ ~ S("ELSE")
      /\ s[i] = "THEN" => kind = "IF"
      /\ s[i] = "WHILE" => kind = "BEGIN" /\ ~ S("WHILE")
      /\ s[i] = "REPEAT" => kind = "BEGIN" /\ S("WHILE")
      /\ s[i] \in {"UNTIL", "AGAIN"} => kind = "BEGIN" /\ ~ S("WHILE")
      /\ s[i] = "LOOP" => kind \in Loops
      /\ s[i] = "LEAVE" => \E k \in DOMAIN open : t[open[k]] \in Loops
      /\ s[i] \in {"OF", "ENDCASE"} => kind = "CASE"
      /\ s[i] = "ENDOF" => kind = "OF"
  BY Zenon DEF Fits, Loops
<1> HIDE DEF S
<1>9. s[i] = "LEAVE" => \E k \in 1 .. Len(OpenAfter(s)[i - 1]) : s[OpenAfter(s)[i - 1][k]] \in Loops
  <2> SUFFICES ASSUME s[i] = "LEAVE"
               PROVE  \E k \in 1 .. Len(OpenAfter(s)[i - 1]) : s[OpenAfter(s)[i - 1][k]] \in Loops
    OBVIOUS
  <2> PICK k \in DOMAIN open : t[open[k]] \in Loops
    BY <1>8
  <2>3. DOMAIN OpenAfter(s)[i - 1] = 1 .. Len(OpenAfter(s)[i - 1])
    BY <1>0, OpenLen
  <2>1. k \in 1 .. Len(OpenAfter(s)[i - 1])
    BY <1>3, <2>3
  <2>2. OpenAfter(s)[i - 1][k] \in 1 .. i - 1
    BY <1>0, <2>1, StructuresNest DEF Nest
  <2> QED
    BY <1>1, <1>3, <2>1, <2>2
<1>10. open = <<>> => ~ (kind \in {"IF", "BEGIN", "CASE", "OF"} \/ kind \in Loops)
  BY <1>5 DEF Loops
<1>11. /\ kind = "IF" => Within(s, i, {"IF"})
       /\ kind = "BEGIN" => Within(s, i, {"BEGIN"})
       /\ kind \in Loops => Within(s, i, Loops)
       /\ kind = "CASE" => Within(s, i, {"CASE"})
       /\ kind = "OF" => Within(s, i, {"OF"})
  BY <1>3, <1>4, <1>10 DEF Within
<1>12. /\ s[i] = "ELSE" => ~ Since(s, i, "ELSE")
       /\ s[i] \in {"WHILE", "UNTIL", "AGAIN"} => ~ Since(s, i, "WHILE")
       /\ s[i] = "REPEAT" => Since(s, i, "WHILE")
  BY <1>7, <1>8, <1>10
<1> QED
  BY <1>8, <1>9, <1>11, <1>12 DEF FitAt

\* The structure that a word belongs to.
LEMMA OpenerIs ==
  ASSUME NEW s, NEW i, s[i] # "LEAVE"
  PROVE  OpenerOf(s, i) = Inner(s, i - 1)
BY DEF OpenerOf, Inner

\* For LEAVE it is the innermost loop.
LoopAt(s, open, k) == s[open[k]] \in Loops /\ \A j \in k + 1 .. Len(open) : s[open[j]] \notin Loops

LEMMA LoopOpener ==
  ASSUME NEW s, Len(s) \in Nat, NEW i \in 1 .. Len(s), s[i] = "LEAVE",
         NEW open, open = OpenAfter(s)[i - 1], NEW k \in 1 .. Len(open), LoopAt(s, open, k)
  PROVE  OpenerOf(s, i) = open[k]
<1> DEFINE I(x) == /\ s[open[x]] \in {"DO", "?DO"}
                   /\ \A j \in DOMAIN open : j > x => s[open[j]] \notin {"DO", "?DO"}
<1>0. DOMAIN open = 1 .. Len(open) /\ Len(open) \in Nat
  <2>1. i - 1 \in 0 .. Len(s)
    OBVIOUS
  <2> QED
    BY <2>1, OpenLen
<1>1. k \in DOMAIN open /\ I(k)
  BY <1>0 DEF LoopAt, Loops
<1>2. ASSUME NEW x \in DOMAIN open, I(x) PROVE x = k
  BY <1>0, <1>1, <1>2
<1>3. OpenerOf(s, i) = open[CHOOSE x \in DOMAIN open : I(x)]
  BY Zenon DEF OpenerOf
<1> HIDE DEF I
<1>4. (CHOOSE x \in DOMAIN open : I(x)) = k
  BY <1>1, <1>2
<1> QED
  BY <1>3, <1>4

LEMMA LoopThere ==
  ASSUME NEW s, Len(s) \in Nat, NEW i \in 1 .. Len(s), s[i] = "LEAVE", FitAt(s, i)
  PROVE  \E k \in 1 .. Len(OpenAfter(s)[i - 1]) : LoopAt(s, OpenAfter(s)[i - 1], k)
<1> PICK open : open = OpenAfter(s)[i - 1]
  OBVIOUS
<1> DEFINE L == {k \in 1 .. Len(open) : s[open[k]] \in Loops}
<1>0. Len(open) \in Nat
  <2>1. i - 1 \in 0 .. Len(s)
    OBVIOUS
  <2> QED
    BY <2>1, OpenLen
<1>1. L # {}
  BY DEF FitAt
<1>2. L \in SUBSET (0 .. (Len(open) + 1) - 1) /\ Len(open) + 1 \in Nat
  BY <1>0
<1>3. Max(L) \in L /\ \A y \in L : y <= Max(L)
  <2> HIDE DEF L
  <2> QED
    BY <1>1, <1>2, MaxIsGreatest
<1> PICK k : k = Max(L)
  OBVIOUS
<1>4. k \in 1 .. Len(open) /\ s[open[k]] \in Loops
  BY <1>3
<1>5. \A j \in k + 1 .. Len(open) : s[open[j]] \notin Loops
  <2> SUFFICES ASSUME NEW j \in k + 1 .. Len(open), s[open[j]] \in Loops PROVE FALSE
    OBVIOUS
  <2>1. j \in L
    BY <1>0, <1>4
  <2>2. j <= k
    BY <1>3, <2>1
  <2> QED
    BY <1>0, <1>4, <2>2
<1> QED
  BY <1>4, <1>5 DEF LoopAt

\* The words that are part of what another one opened, and what that one can be.
Belonging == {"ELSE", "THEN", "WHILE", "REPEAT", "UNTIL", "AGAIN", "LOOP", "OF", "ENDCASE", "ENDOF", "LEAVE"}

OpenedBy(w) ==
  CASE w \in {"ELSE", "THEN"} -> {"IF"}
    [] w \in {"WHILE", "REPEAT", "UNTIL", "AGAIN"} -> {"BEGIN"}
    [] w \in {"LOOP", "LEAVE"} -> Loops
    [] w \in {"OF", "ENDCASE"} -> {"CASE"}
    [] w = "ENDOF" -> {"OF"}

LEMMA OpenerThere ==
  ASSUME NEW s, Len(s) \in Nat, NEW i \in 1 .. Len(s), s[i] \in Belonging, FitAt(s, i)
  PROVE  /\ OpenerOf(s, i) \in 1 .. i - 1 /\ Opened(s, i - 1, OpenerOf(s, i))
         /\ s[OpenerOf(s, i)] \in OpenedBy(s[i])
         /\ s[i] # "LEAVE" => OpenAfter(s)[i - 1] # <<>> /\ OpenerOf(s, i) = Inner(s, i - 1)
<1>0. i - 1 \in 0 .. Len(s)
  OBVIOUS
<1>1. CASE s[i] = "LEAVE"
  <2> PICK k \in 1 .. Len(OpenAfter(s)[i - 1]) : LoopAt(s, OpenAfter(s)[i - 1], k)
    BY <1>1, LoopThere
  <2>1. OpenerOf(s, i) = OpenAfter(s)[i - 1][k]
    BY <1>1, LoopOpener
  <2>2. OpenAfter(s)[i - 1][k] \in 1 .. i - 1
    BY <1>0, StructuresNest DEF Nest
  <2>3. Opened(s, i - 1, OpenerOf(s, i))
    BY <2>1 DEF Opened
  <2>4. OpenedBy(s[i]) = Loops
    BY <1>1 DEF OpenedBy
  <2> QED
    BY <1>1, <2>1, <2>2, <2>3, <2>4 DEF LoopAt
<1>2. CASE s[i] # "LEAVE"
  <2>1. Within(s, i, OpenedBy(s[i]))
    BY <1>2 DEF Belonging, OpenedBy, FitAt
  <2>2. OpenAfter(s)[i - 1] # <<>> /\ s[Inner(s, i - 1)] \in OpenedBy(s[i])
    BY <2>1 DEF Within
  <2>3. InnerIs(s, i - 1, Inner(s, i - 1), Len(OpenAfter(s)[i - 1]))
    BY <1>0, <2>2, InnerFacts
  <2>4. OpenerOf(s, i) = Inner(s, i - 1)
    BY <1>2, OpenerIs
  <2> QED
    BY <2>2, <2>3, <2>4 DEF InnerIs
<1> QED
  BY <1>1, <1>2

\* The structure at whose end it is known where a word jumps.
WaitsFor(s, p) ==
  CASE s[p] \in {"IF", "OF", "?DO"} -> p
    [] s[p] = "ENDOF"               -> OpenerOf(s, OpenerOf(s, p))
    [] OTHER                        -> OpenerOf(s, p)

WaitKinds(w) ==
  CASE w \in {"IF", "ELSE"} -> {"IF"}
    [] w = "WHILE"          -> {"BEGIN"}
    [] w = "OF"             -> {"OF"}
    [] w = "ENDOF"          -> {"CASE"}
    [] OTHER                -> Loops

Fitting(s) == s \in Seq(AllWords) /\ \A i \in 1 .. Len(s) : FitAt(s, i)

LEMMA WaitsOpen ==
  ASSUME NEW s, Fitting(s), NEW p \in 1 .. Len(s), s[p] \in Forwards
  PROVE  /\ WaitsFor(s, p) \in 1 .. p /\ Opened(s, p, WaitsFor(s, p))
         /\ s[WaitsFor(s, p)] \in WaitKinds(s[p])
         /\ s[p] \in {"ELSE", "WHILE", "ENDOF"} => OpenAfter(s)[p] # <<>> /\ WaitsFor(s, p) = Inner(s, p)
<1> PICK old, new : old = OpenAfter(s)[p - 1] /\ new = OpenAfter(s)[p]
  OBVIOUS
<1>0. /\ Len(s) \in Nat /\ p - 1 \in 0 .. Len(s) /\ p \in 0 .. Len(s) /\ FitAt(s, p)
      /\ Len(old) \in Nat /\ Len(new) \in Nat
  <2>1. Len(s) \in Nat /\ p - 1 \in 0 .. Len(s) /\ p \in 0 .. Len(s) /\ FitAt(s, p)
    BY DEF Fitting
  <2> QED
    BY <2>1, OpenLen
<1>1. CASE s[p] \in {"IF", "OF", "?DO"}
  <2>1. s[p] \in Openers /\ WaitsFor(s, p) = p /\ s[p] \in WaitKinds(s[p])
    BY <1>1 DEF Openers, WaitsFor, WaitKinds, Loops
  <2>2. s[p] \in Openers => Len(new) = Len(old) + 1 /\ new[Len(new)] = p
    <3>1. s[p] \in Openers => OneOpens(p, old, new)
      BY <1>0, TurnCases
    <3> QED
      BY <3>1 DEF OneOpens
  <2>3. Opened(s, p, p)
    <3>1. Len(new) \in 1 .. Len(new) /\ new[Len(new)] = p
      BY <1>0, <2>1, <2>2
    <3> QED
      BY <3>1 DEF Opened
  <2> QED
    BY <1>1, <2>1, <2>3
<1>2. CASE s[p] \in {"ELSE", "WHILE", "LEAVE"}
  <2>1. s[p] \notin Openers /\ s[p] \notin Closers /\ s[p] \in Belonging
    BY <1>2 DEF Openers, Closers, Belonging
  <2>2. s[p] \notin Openers /\ (s[p] \notin Closers \/ old = <<>>) => new = old
    BY <1>0, TurnCases
  <2>3. new = old
    BY <2>1, <2>2
  <2>4. WaitsFor(s, p) = OpenerOf(s, p) /\ WaitKinds(s[p]) = OpenedBy(s[p])
    BY <1>2 DEF WaitsFor, WaitKinds, OpenedBy
  <2>5. /\ OpenerOf(s, p) \in 1 .. p - 1 /\ Opened(s, p - 1, OpenerOf(s, p))
        /\ s[OpenerOf(s, p)] \in OpenedBy(s[p])
        /\ s[p] # "LEAVE" => OpenAfter(s)[p - 1] # <<>> /\ OpenerOf(s, p) = Inner(s, p - 1)
    BY <1>0, <2>1, OpenerThere
  <2>6. Opened(s, p, OpenerOf(s, p)) /\ Inner(s, p) = Inner(s, p - 1)
    BY <2>3, <2>5 DEF Opened, Inner
  <2> QED
    BY <1>2, <2>3, <2>4, <2>5, <2>6
<1>3. CASE s[p] = "ENDOF"
  <2> PICK o, k : o = Inner(s, p - 1) /\ k = Len(old)
    OBVIOUS
  <2>1. s[p] \notin Openers /\ s[p] \in Closers /\ s[p] \in Belonging /\ OpenedBy(s[p]) = {"OF"}
    BY <1>3 DEF Openers, Closers, Belonging, OpenedBy
  <2>2. old # <<>> /\ OpenerOf(s, p) = o /\ s[o] = "OF"
    BY <1>0, <1>3, <2>1, OpenerThere
  <2>3. s[p] \notin Openers /\ s[p] \in Closers /\ old # <<>> =>
          Len(new) = Len(old) - 1 /\ \A j \in 1 .. Len(new) : new[j] = old[j]
    <3>1. s[p] \notin Openers /\ s[p] \in Closers /\ old # <<>> => OneCloses(old, new)
      BY <1>0, TurnCases
    <3> QED
      BY <3>1 DEF OneCloses
  <2>4. Len(new) = k - 1 /\ \A j \in 1 .. Len(new) : new[j] = old[j]
    BY <2>1, <2>2, <2>3
  <2>5. InnerIs(s, p - 1, o, k)
    BY <1>0, <2>2, InnerFacts
  <2>6. /\ o \in 1 .. p - 1 /\ Len(OpenAfter(s)[o - 1]) = k - 1
        /\ \A j \in 1 .. k - 1 : OpenAfter(s)[o - 1][j] = old[j]
    BY <2>5 DEF InnerIs
  <2>7. o \in 1 .. Len(s) /\ FitAt(s, o) /\ o - 1 \in 0 .. Len(s) /\ s[o] \in Belonging /\ OpenedBy(s[o]) = {"CASE"}
    BY <1>0, <2>2, <2>6 DEF Fitting, Belonging, OpenedBy
  <2>8. /\ OpenerOf(s, o) \in 1 .. o - 1 /\ s[OpenerOf(s, o)] = "CASE"
        /\ OpenAfter(s)[o - 1] # <<>> /\ OpenerOf(s, o) = Inner(s, o - 1)
    BY <1>0, <2>2, <2>7, OpenerThere
  <2>9. Inner(s, o - 1) = OpenAfter(s)[o - 1][k - 1] /\ k - 1 \in Nat \ {0}
    <3>1. /\ OpenAfter(s)[o - 1] = <<>> <=> Len(OpenAfter(s)[o - 1]) = 0
          /\ Inner(s, o - 1) = OpenAfter(s)[o - 1][Len(OpenAfter(s)[o - 1])]
      BY <1>0, <2>7, OpenLen
    <3>2. k \in Nat \ {0}
      BY <2>5 DEF InnerIs
    <3> QED
      BY <2>6, <2>8, <3>1, <3>2
  <2>10. Inner(s, o - 1) = new[Len(new)] /\ Len(new) \in 1 .. Len(new)
    <3>3. \A m \in Nat \ {0} : m \in 1 .. m
      OBVIOUS
    <3>1. k - 1 \in 1 .. k - 1
      BY <2>9, <3>3
    <3>2. OpenAfter(s)[o - 1][k - 1] = old[k - 1] /\ new[k - 1] = old[k - 1]
      BY <2>4, <2>6, <3>1
    <3> QED
      BY <2>4, <2>9, <3>1, <3>2
  <2>11. Inner(s, p) = Inner(s, o - 1) /\ new # <<>>
    BY <1>0, <2>4, <2>9, <2>10, OpenLen
  <2>12. Opened(s, p, Inner(s, o - 1))
    BY <2>10 DEF Opened
  <2>13. WaitsFor(s, p) = Inner(s, o - 1) /\ WaitKinds(s[p]) = {"CASE"}
    BY <1>3, <2>2, <2>8 DEF WaitsFor, WaitKinds
  <2> QED
    BY <2>6, <2>8, <2>11, <2>12, <2>13
<1> QED
  BY <1>1, <1>2, <1>3 DEF Forwards

-----------------------------------------------------------------------------
(* One more word.                                                          *)

LEMMA FitsAll == ASSUME NEW s \in Seq(AllWords), AllFit(s) PROVE Fitting(s)
<1>1. DOMAIN s = 1 .. Len(s)
  OBVIOUS
<1> QED
  BY <1>1, FitHere DEF AllFit, Fitting

More(s, w, t) == s \in Seq(AllWords) /\ w \in AllWords /\ t = Append(s, w)

LEMMA Grown ==
  ASSUME NEW s, NEW w, NEW t, More(s, w, t)
  PROVE  /\ t \in Seq(AllWords) /\ Len(s) \in Nat /\ Len(t) = Len(s) + 1 /\ t[Len(s) + 1] = w
         /\ \A i \in 1 .. Len(s) : t[i] = s[i]
         /\ \A i \in 0 .. Len(s) : OpenAfter(t)[i] = OpenAfter(s)[i] /\ Inner(t, i) = Inner(s, i)
         /\ \A i \in 1 .. Len(s) + 1 : Before(t)[i] = Before(s)[i]
         /\ Before(t)[Len(s) + 2] = Before(s)[Len(s) + 1] + Size(w)
<1> PICK n : n = Len(s)
  OBVIOUS
<1>1. /\ t \in Seq(AllWords) /\ n \in Nat /\ Len(t) = n + 1 /\ t[n + 1] = w
      /\ \A i \in 1 .. n : t[i] = s[i]
  BY DEF More
<1>2. Len(s) \in Nat /\ Len(t) \in Nat /\ n <= Len(s) /\ n <= Len(t)
  BY <1>1
<1>3. \A i \in 0 .. n : OpenAfter(t)[i] = OpenAfter(s)[i]
  BY <1>1, <1>2, SameOpen
<1>4. \A i \in 1 .. n + 1 : Before(t)[i] = Before(s)[i]
  BY <1>1, <1>2, SameBefore
<1>5. Before(t)[n + 2] = Before(s)[n + 1] + Size(w)
  <2>1. n + 1 \in 1 .. Len(t) /\ n + 1 + 1 = n + 2 /\ n + 1 \in 1 .. n + 1
    BY <1>1
  <2>2. Before(t)[n + 1 + 1] = Before(t)[n + 1] + Size(t[n + 1])
    BY <1>2, <2>1, BeforeTurns
  <2> QED
    BY <1>1, <1>4, <2>1, <2>2
<1> QED
  BY <1>1, <1>3, <1>4, <1>5 DEF Inner

LEMMA GrownOpen ==
  ASSUME NEW s, NEW w, NEW t, More(s, w, t), NEW m \in 0 .. Len(s)
  PROVE  OpenAfter(t)[m] = OpenAfter(s)[m] /\ Inner(t, m) = Inner(s, m)
BY Grown

LEMMA GrownFits ==
  ASSUME NEW s, NEW w, NEW t, More(s, w, t)
  PROVE  AllFit(t) <=> AllFit(s) /\ Fits(s, w)
<1> PICK n : n = Len(s)
  OBVIOUS
<1>1. /\ s \in Seq(AllWords) /\ t \in Seq(AllWords)
      /\ n \in Nat /\ DOMAIN t = 1 .. n + 1 /\ DOMAIN s = 1 .. n
      /\ t[n + 1] = w /\ \A i \in 1 .. n : t[i] = s[i]
  BY DEF More
<1>2. ASSUME NEW i \in 1 .. n + 1 PROVE SubSeq(t, 1, i - 1) = SubSeq(s, 1, i - 1)
  <2> PICK m \in Nat : m = i - 1
    OBVIOUS
  <2>1. SubSeq(t, 1, m) = [j \in 1 .. m |-> t[j]] /\ SubSeq(s, 1, m) = [j \in 1 .. m |-> s[j]]
    <3>1. \A j \in 1 .. m : t[j] \in AllWords /\ s[j] \in AllWords
      BY <1>1
    <3> QED
      BY <1>1, <3>1
  <2>2. \A j \in 1 .. m : t[j] = s[j]
    BY <1>1
  <2> QED
    BY <2>1, <2>2
<1>3. SubSeq(s, 1, n) = s
  BY <1>1
<1>4. Fits(SubSeq(t, 1, n), t[n + 1]) = Fits(s, w)
  <2>1. n + 1 \in 1 .. n + 1 /\ n + 1 - 1 = n
    BY <1>1
  <2>2. SubSeq(t, 1, n) = s
    BY <1>2, <1>3, <2>1
  <2> QED
    BY <1>1, <2>2
<1>5. \A i \in 1 .. n : Fits(SubSeq(t, 1, i - 1), t[i]) = Fits(SubSeq(s, 1, i - 1), s[i])
  <2> TAKE i \in 1 .. n
  <2>1. i \in 1 .. n + 1
    BY <1>1
  <2>2. SubSeq(t, 1, i - 1) = SubSeq(s, 1, i - 1) /\ t[i] = s[i]
    BY <1>1, <1>2, <2>1
  <2> QED
    BY <2>2
<1>6. AllFit(t) <=> Fits(SubSeq(t, 1, n), t[n + 1]) /\ \A i \in 1 .. n : Fits(SubSeq(t, 1, i - 1), t[i])
  <2> DEFINE F(i) == Fits(SubSeq(t, 1, i - 1), t[i])
  <2>1. \A i : i \in 1 .. n + 1 <=> i \in 1 .. n \/ i = n + 1
    BY <1>1
  <2>2. F(n + 1) <=> Fits(SubSeq(t, 1, n), t[n + 1])
    <3>1. n + 1 - 1 = n
      BY <1>1
    <3> QED
      BY <3>1
  <2>3. AllFit(t) <=> \A i \in 1 .. n + 1 : F(i)
    BY <1>1, Zenon DEF AllFit
  <2> HIDE DEF F
  <2>4. AllFit(t) <=> F(n + 1) /\ \A i \in 1 .. n : F(i)
    BY <2>1, <2>3, Zenon
  <2> QED
    BY <2>2, <2>4 DEF F
<1>7. AllFit(s) <=> \A i \in 1 .. n : Fits(SubSeq(s, 1, i - 1), s[i])
  BY <1>1 DEF AllFit
<1> QED
  BY <1>4, <1>5, <1>6, <1>7

\* What a word belongs to and waits for stays what it was.
LEMMA SameOpener ==
  ASSUME NEW s, NEW t, Len(s) \in Nat, Len(t) \in Nat, NEW i \in 1 .. Len(s), i \in 1 .. Len(t),
         FitAt(s, i), OpenAfter(t)[i - 1] = OpenAfter(s)[i - 1], \A j \in 1 .. i : t[j] = s[j]
  PROVE  OpenerOf(t, i) = OpenerOf(s, i)
<1> PICK open : open = OpenAfter(s)[i - 1]
  OBVIOUS
<1>1. CASE s[i] = "LEAVE"
  <2> PICK k \in 1 .. Len(open) : LoopAt(s, open, k)
    BY <1>1, LoopThere
  <2>1. ASSUME NEW j \in 1 .. Len(open) PROVE t[open[j]] = s[open[j]]
    <3>1. i - 1 \in 0 .. Len(s)
      OBVIOUS
    <3>2. open[j] \in 1 .. i - 1
      BY <3>1, StructuresNest DEF Nest
    <3> QED
      BY <3>2
  <2>2. OpenerOf(s, i) = open[k]
    BY <1>1, LoopOpener
  <2>3. \A j \in k + 1 .. Len(open) : j \in 1 .. Len(open)
    <3>1. i - 1 \in 0 .. Len(s)
      OBVIOUS
    <3>2. Len(open) \in Nat
      BY <3>1, OpenLen
    <3> QED
      BY <3>2
  <2>4. LoopAt(t, open, k)
    BY <2>1, <2>3 DEF LoopAt
  <2>5. t[i] = "LEAVE"
    BY <1>1
  <2>6. OpenerOf(t, i) = open[k]
    BY <2>4, <2>5, LoopOpener
  <2> QED
    BY <2>2, <2>6
<1>2. CASE s[i] # "LEAVE"
  <2>1. t[i] = s[i]
    OBVIOUS
  <2> QED
    BY <1>2, <2>1, OpenerIs DEF Inner
<1> QED
  BY <1>1, <1>2

LEMMA GrownOpener ==
  ASSUME NEW s, NEW w, NEW t, More(s, w, t),
         Fitting(s), NEW i \in 1 .. Len(s), s[i] \in Belonging
  PROVE  OpenerOf(t, i) = OpenerOf(s, i)
<1>1. FitAt(s, i) /\ Len(s) \in Nat /\ Len(t) \in Nat /\ i \in 1 .. Len(t) /\ i - 1 \in 0 .. Len(s)
  BY Grown DEF Fitting
<1>2. \A j \in 1 .. i : t[j] = s[j]
  <2>1. \A j \in 1 .. Len(s) : t[j] = s[j]
    BY Grown
  <2> QED
    BY <1>1, <2>1
<1>3. ASSUME NEW m \in 0 .. Len(s) PROVE OpenAfter(t)[m] = OpenAfter(s)[m]
  BY <1>3, GrownOpen
<1>4. OpenAfter(t)[i - 1] = OpenAfter(s)[i - 1]
  BY <1>1, <1>3
<1> QED
  BY <1>1, <1>2, <1>4, SameOpener

LEMMA GrownWaits ==
  ASSUME NEW s, NEW w, NEW t, More(s, w, t),
         Fitting(s), NEW p \in 1 .. Len(s), s[p] \in Forwards
  PROVE  WaitsFor(t, p) = WaitsFor(s, p)
<1>1. t[p] = s[p]
  BY Grown
<1>2. CASE s[p] \in {"IF", "OF", "?DO"}
  BY <1>1, <1>2 DEF WaitsFor
<1>3. CASE s[p] \in {"ELSE", "WHILE", "LEAVE"}
  <2>1. OpenerOf(t, p) = OpenerOf(s, p)
    BY <1>3, GrownOpener DEF Belonging
  <2> QED
    BY <1>1, <1>3, <2>1 DEF WaitsFor
<1>4. CASE s[p] = "ENDOF"
  <2> PICK o : o = OpenerOf(s, p)
    OBVIOUS
  <2>1. OpenerOf(t, p) = o
    BY <1>4, GrownOpener DEF Belonging
  <2>2. o \in 1 .. p - 1 /\ s[o] = "OF"
    <3>1. s[p] \in Belonging /\ OpenedBy(s[p]) = {"OF"} /\ FitAt(s, p) /\ Len(s) \in Nat
      BY <1>4 DEF Belonging, OpenedBy, Fitting
    <3> QED
      BY <3>1, OpenerThere
  <2>3. o \in 1 .. Len(s) /\ s[o] \in Belonging
    BY <2>2 DEF Belonging
  <2>4. OpenerOf(t, o) = OpenerOf(s, o)
    BY <2>3, GrownOpener
  <2> QED
    BY <1>1, <1>4, <2>1, <2>4 DEF WaitsFor
<1> QED
  BY <1>2, <1>3, <1>4 DEF Forwards

-----------------------------------------------------------------------------
(* The cells of the jumps.                                                 *)

Jumping(s) == {p \in 1 .. Len(s) : s[p] \in Forwards \cup Backs}

\* The cell that holds where p jumps, and where the thread goes on after p.
Cell(s, p) == Before(s)[p] + IF s[p] = "OF" THEN 3 ELSE 1
Past(s, p) == Before(s)[p + 1]

CellsOf(s, S) == {Cell(s, p) : p \in S}

LEMMA CellWithin ==
  ASSUME NEW s, Len(s) \in Nat, NEW p \in Jumping(s)
  PROVE  /\ Before(s)[p] \in Nat /\ Past(s, p) \in Nat /\ Cell(s, p) \in Nat
         /\ Before(s)[p] < Cell(s, p) /\ Cell(s, p) < Past(s, p)
<1>1. p \in 1 .. Len(s) /\ s[p] \in Forwards \cup Backs
  BY DEF Jumping
<1>2. Before(s)[p] \in Nat /\ Before(s)[p + 1] = Before(s)[p] + Size(s[p])
  <2>1. Before(s) \in [1 .. Len(s) + 1 -> Nat] /\ p \in 1 .. Len(s) + 1
    BY <1>1, BeforeTurns
  <2>2. Before(s)[p + 1] = Before(s)[p] + Size(s[p])
    BY <1>1, BeforeTurns
  <2> QED
    BY <2>1, <2>2
<1>3. Size(s[p]) = IF s[p] = "OF" THEN 5 ELSE 2
  BY <1>1 DEF Size, Forwards, Backs
<1> QED
  BY <1>2, <1>3 DEF Cell, Past

\* No two jumps have the same cell.
LEMMA CellsApart ==
  ASSUME NEW s, Len(s) \in Nat, NEW p \in Jumping(s), NEW r \in Jumping(s), Cell(s, p) = Cell(s, r)
  PROVE  p = r
<1>1. ASSUME NEW x \in Jumping(s), NEW y \in Jumping(s), x < y PROVE Cell(s, x) < Cell(s, y)
  <2>1. x \in 1 .. Len(s) /\ y \in 1 .. Len(s)
    BY DEF Jumping
  <2>2. x + 1 \in 1 .. Len(s) + 1 /\ y \in x + 1 .. Len(s) + 1
    BY <1>1, <2>1
  <2>3. Past(s, x) <= Before(s)[y]
    BY <2>2, BeforeGrows DEF Past
  <2> QED
    BY <2>3, CellWithin
<1>2. p \in Nat /\ r \in Nat /\ Cell(s, p) \in Nat
  BY CellWithin DEF Jumping
<1>3. ~ (p < r) /\ ~ (r < p)
  BY <1>1, <1>2
<1> QED
  BY <1>2, <1>3

\* They are those of the thread so far, and the next word's.
LEMMA NextCells ==
  ASSUME NEW s, NEW w, NEW t, More(s, w, t)
  PROVE  /\ \A p \in 1 .. Len(s) : Cell(t, p) = Cell(s, p) /\ Past(t, p) = Past(s, p)
         /\ Cell(t, Len(s) + 1) = Before(s)[Len(s) + 1] + IF w = "OF" THEN 3 ELSE 1
         /\ Past(t, Len(s) + 1) = Before(s)[Len(s) + 1] + Size(w)
         /\ Before(s)[Len(s) + 1] \in Nat /\ Size(w) \in Nat
<1>1. Len(s) \in Nat /\ t[Len(s) + 1] = w /\ \A i \in 1 .. Len(s) : t[i] = s[i]
  BY Grown
<1>2. \A i \in 1 .. Len(s) + 1 : Before(t)[i] = Before(s)[i]
  BY Grown
<1>3. Before(t)[Len(s) + 2] = Before(s)[Len(s) + 1] + Size(w)
  BY Grown
<1>4. ASSUME NEW p \in 1 .. Len(s) PROVE Cell(t, p) = Cell(s, p) /\ Past(t, p) = Past(s, p)
  BY <1>1, <1>2 DEF Cell, Past
<1>5. Len(s) + 1 \in 1 .. Len(s) + 1 /\ Len(s) + 1 + 1 = Len(s) + 2
  BY <1>1
<1>6. Cell(t, Len(s) + 1) = Before(s)[Len(s) + 1] + IF w = "OF" THEN 3 ELSE 1
  BY <1>1, <1>2, <1>5 DEF Cell
<1>7. Past(t, Len(s) + 1) = Before(s)[Len(s) + 1] + Size(w)
  BY <1>3, <1>5 DEF Past
<1>8. Before(s)[Len(s) + 1] \in Nat
  BY <1>1, <1>5, BeforeTurns
<1>9. Size(w) \in Nat
  BY Sizes
<1>10. \A p \in 1 .. Len(s) : Cell(t, p) = Cell(s, p) /\ Past(t, p) = Past(s, p)
  BY <1>4
<1>11. Cell(t, Len(s) + 1) = Before(s)[Len(s) + 1] + IF w = "OF" THEN 3 ELSE 1
  BY <1>6
<1>12. Past(t, Len(s) + 1) = Before(s)[Len(s) + 1] + Size(w) /\ Before(s)[Len(s) + 1] \in Nat /\ Size(w) \in Nat
  BY <1>7, <1>8, <1>9
<1> QED
  BY <1>10, <1>11, <1>12

LEMMA MoreJumping ==
  ASSUME NEW s, NEW w, NEW t, More(s, w, t)
  PROVE  Jumping(t) = Jumping(s) \cup (IF w \in Forwards \cup Backs THEN {Len(s) + 1} ELSE {})
<1> PICK n : n = Len(s)
  OBVIOUS
<1>1. n \in Nat /\ Len(t) = n + 1 /\ t[n + 1] = w /\ \A i \in 1 .. n : t[i] = s[i]
  BY Grown
<1>2. \A p : p \in 1 .. n + 1 <=> p \in 1 .. n \/ p = n + 1
  BY <1>1
<1> QED
  BY <1>1, <1>2 DEF Jumping

-----------------------------------------------------------------------------
(* The words whose jumps wait for the end of a structure.                  *)

Halved(s, p, i) == \E e \in 1 .. i : s[e] = "ELSE" /\ OpenerOf(s, e) = p

Waiting(s, P) ==
  {p \in 1 .. Len(s) : s[p] \in Forwards /\ WaitsFor(s, p) = P /\ (s[p] = "IF" => ~ Halved(s, p, Len(s)))}

LEMMA MoreFacts ==
  ASSUME NEW s, NEW w, NEW t, More(s, w, t)
  PROVE  /\ Len(s) \in Nat /\ Len(t) = Len(s) + 1 /\ Len(t) \in Nat /\ t[Len(s) + 1] = w
         /\ \A i \in 1 .. Len(s) : t[i] = s[i]
         /\ Len(s) + 1 \in 1 .. Len(t) /\ \A i \in 1 .. Len(s) : i \in 1 .. Len(t)
<1>1. Len(s) \in Nat /\ Len(t) = Len(s) + 1 /\ t[Len(s) + 1] = w /\ \A i \in 1 .. Len(s) : t[i] = s[i]
  BY Grown
<1> QED
  BY <1>1

LEMMA NextHalved ==
  ASSUME NEW s, NEW w, NEW t, More(s, w, t), Fitting(s), NEW p
  PROVE  /\ \A i \in 0 .. Len(s) : Halved(t, p, i) <=> Halved(s, p, i)
         /\ Halved(t, p, Len(t)) <=> Halved(s, p, Len(s)) \/ (w = "ELSE" /\ Inner(s, Len(s)) = p)
<1>1. /\ Len(s) \in Nat /\ Len(t) = Len(s) + 1 /\ t[Len(s) + 1] = w
      /\ \A i \in 1 .. Len(s) : t[i] = s[i]
  BY MoreFacts
<1>2. ASSUME NEW e \in 1 .. Len(s), s[e] = "ELSE" PROVE OpenerOf(t, e) = OpenerOf(s, e)
  <2>1. s[e] \in Belonging
    BY <1>2 DEF Belonging
  <2> QED
    BY <2>1, GrownOpener
<1>3. \A i \in 0 .. Len(s) : Halved(t, p, i) <=> Halved(s, p, i)
  <2> TAKE i \in 0 .. Len(s)
  <2>1. \A e \in 1 .. i : e \in 1 .. Len(s)
    BY <1>1
  <2>2. \A e \in 1 .. i : (t[e] = "ELSE" /\ OpenerOf(t, e) = p) <=> (s[e] = "ELSE" /\ OpenerOf(s, e) = p)
    BY <1>1, <1>2, <2>1
  <2> QED
    BY <2>2 DEF Halved
<1>4. w = "ELSE" => OpenerOf(t, Len(s) + 1) = Inner(s, Len(s))
  <2> SUFFICES ASSUME w = "ELSE" PROVE OpenerOf(t, Len(s) + 1) = Inner(s, Len(s))
    OBVIOUS
  <2>1. OpenerOf(t, Len(s) + 1) = Inner(t, Len(s) + 1 - 1)
    BY <1>1, OpenerIs
  <2>2. Len(s) + 1 - 1 = Len(s) /\ Len(s) \in 0 .. Len(s)
    BY <1>1
  <2>3. Inner(t, Len(s)) = Inner(s, Len(s))
    BY <2>2, GrownOpen
  <2> QED
    BY <2>1, <2>2, <2>3
<1>5. \A e : e \in 1 .. Len(t) <=> e \in 1 .. Len(s) \/ e = Len(s) + 1
  BY <1>1
<1>6. Halved(t, p, Len(t)) <=> Halved(t, p, Len(s)) \/ (t[Len(s) + 1] = "ELSE" /\ OpenerOf(t, Len(s) + 1) = p)
  BY <1>5 DEF Halved
<1>7. Halved(t, p, Len(s)) <=> Halved(s, p, Len(s))
  <2>1. Len(s) \in 0 .. Len(s)
    BY <1>1
  <2> QED
    BY <1>3, <2>1
<1>8. Halved(t, p, Len(t)) <=> Halved(s, p, Len(s)) \/ (w = "ELSE" /\ Inner(s, Len(s)) = p)
  BY <1>1, <1>4, <1>6, <1>7
<1> QED
  BY <1>3, <1>8

\* The structure that the next word itself waits for.
LEMMA NextWaits ==
  ASSUME NEW s, NEW w, NEW t, More(s, w, t), Fitting(s), Fitting(t), w \in Forwards
  PROVE  /\ w \in {"IF", "OF", "?DO"} => WaitsFor(t, Len(s) + 1) = Len(s) + 1
         /\ w \notin {"IF", "OF", "?DO"} => WaitsFor(t, Len(s) + 1) \in 1 .. Len(s)
         /\ w \in {"ELSE", "WHILE"} => WaitsFor(t, Len(s) + 1) = Inner(s, Len(s)) /\ OpenAfter(s)[Len(s)] # <<>>
<1> DEFINE q == Len(s) + 1
<1>1. q \in 1 .. Len(t) /\ t[q] = w /\ Len(s) \in Nat /\ Len(t) \in Nat /\ q - 1 = Len(s) /\ Len(s) \in 0 .. Len(s)
  BY MoreFacts
<1>2. WaitsFor(t, q) \in 1 .. q
  BY <1>1, WaitsOpen
<1> HIDE DEF q
<1>3. w \in {"IF", "OF", "?DO"} => WaitsFor(t, q) = q
  BY <1>1 DEF WaitsFor
<1>4. CASE w \in {"ELSE", "WHILE"}
  <2>1. WaitsFor(t, q) = OpenerOf(t, q) /\ t[q] \in Belonging /\ t[q] # "LEAVE"
    BY <1>1, <1>4 DEF WaitsFor, Belonging
  <2>2. /\ OpenerOf(t, q) \in 1 .. q - 1 /\ OpenAfter(t)[q - 1] # <<>> /\ OpenerOf(t, q) = Inner(t, q - 1)
    BY <1>1, <2>1, OpenerThere DEF Fitting
  <2>3. OpenAfter(t)[Len(s)] = OpenAfter(s)[Len(s)] /\ Inner(t, Len(s)) = Inner(s, Len(s))
    BY <1>1, GrownOpen
  <2> QED
    BY <1>1, <1>4, <2>1, <2>2, <2>3 DEF q
<1>5. CASE w = "LEAVE"
  <2>1. WaitsFor(t, q) = OpenerOf(t, q) /\ t[q] \in Belonging
    BY <1>1, <1>5 DEF WaitsFor, Belonging
  <2>2. OpenerOf(t, q) \in 1 .. q - 1
    BY <1>1, <2>1, OpenerThere DEF Fitting
  <2> QED
    BY <1>1, <1>5, <2>1, <2>2 DEF q
<1>6. CASE w = "ENDOF"
  <2>1. WaitsFor(t, q) = OpenerOf(t, OpenerOf(t, q)) /\ t[q] \in Belonging
    BY <1>1, <1>6 DEF WaitsFor, Belonging
  <2>2. OpenerOf(t, q) \in 1 .. q - 1 /\ t[OpenerOf(t, q)] \in OpenedBy(t[q])
    BY <1>1, <2>1, OpenerThere DEF Fitting
  <2> DEFINE o == OpenerOf(t, q)
  <2>3. t[o] = "OF" /\ o \in 1 .. Len(t) /\ o \in 1 .. q - 1
    BY <1>1, <1>6, <2>2 DEF OpenedBy
  <2> HIDE DEF o
  <2>4. OpenerOf(t, o) \in 1 .. o - 1
    <3>1. t[o] \in Belonging
      BY <2>3 DEF Belonging
    <3> QED
      BY <1>1, <2>3, <3>1, OpenerThere DEF Fitting
  <2>5. OpenerOf(t, o) \in 1 .. q - 1
    BY <1>1, <2>3, <2>4
  <2> QED
    BY <1>1, <1>6, <2>1, <2>5 DEF q, o
<1> QED
  BY <1>3, <1>4, <1>5, <1>6 DEF q, Forwards

LEMMA StillWaiting ==
  ASSUME NEW s, NEW w, NEW t, More(s, w, t), Fitting(s), Fitting(t), NEW P \in 1 .. Len(s),
         w \in Forwards => WaitsFor(t, Len(s) + 1) # P
  PROVE  Waiting(t, P) = Waiting(s, P)
<1>1. /\ Len(s) \in Nat /\ Len(t) = Len(s) + 1 /\ t[Len(s) + 1] = w
      /\ \A i \in 1 .. Len(s) : t[i] = s[i]
  BY MoreFacts
<1>2. \A i : i \in 1 .. Len(t) <=> i \in 1 .. Len(s) \/ i = Len(s) + 1
  BY <1>1
<1>3. ASSUME NEW p \in 1 .. Len(s) PROVE p \in Waiting(t, P) <=> p \in Waiting(s, P)
  <2>1. t[p] = s[p] /\ p \in 1 .. Len(t)
    BY <1>1, <1>2
  <2>2. s[p] \in Forwards => WaitsFor(t, p) = WaitsFor(s, p)
    BY GrownWaits
  <2>3. Halved(t, p, Len(t)) <=> Halved(s, p, Len(s)) \/ (w = "ELSE" /\ Inner(s, Len(s)) = p)
    BY NextHalved
  <2>4. s[p] = "IF" /\ WaitsFor(s, p) = P => ~ (w = "ELSE" /\ Inner(s, Len(s)) = p)
    <3> SUFFICES ASSUME s[p] = "IF", WaitsFor(s, p) = P, w = "ELSE", Inner(s, Len(s)) = p PROVE FALSE
      OBVIOUS
    <3>1. P = p
      BY DEF WaitsFor
    <3>2. w \in Forwards /\ WaitsFor(t, Len(s) + 1) = Inner(s, Len(s))
      BY NextWaits DEF Forwards
    <3> QED
      BY <3>1, <3>2
  <2> QED
    BY <2>1, <2>2, <2>3, <2>4 DEF Waiting
<1>4. Len(s) + 1 \notin Waiting(t, P)
  BY <1>1 DEF Waiting
<1>5. \A p \in Waiting(t, P) : p \in 1 .. Len(s)
  BY <1>2, <1>4 DEF Waiting
<1>6. \A p \in Waiting(s, P) : p \in 1 .. Len(s)
  BY DEF Waiting
<1> QED
  BY <1>3, <1>5, <1>6

LEMMA OneMoreWaits ==
  ASSUME NEW s, NEW w, NEW t, More(s, w, t), Fitting(s), Fitting(t), NEW P \in 1 .. Len(s),
         w \in {"WHILE", "LEAVE", "ENDOF"}, WaitsFor(t, Len(s) + 1) = P
  PROVE  Waiting(t, P) = Waiting(s, P) \cup {Len(s) + 1}
<1>1. /\ Len(s) \in Nat /\ Len(t) = Len(s) + 1 /\ t[Len(s) + 1] = w
      /\ \A i \in 1 .. Len(s) : t[i] = s[i]
  BY MoreFacts
<1>2. \A i : i \in 1 .. Len(t) <=> i \in 1 .. Len(s) \/ i = Len(s) + 1
  BY <1>1
<1>3. ASSUME NEW p \in 1 .. Len(s) PROVE p \in Waiting(t, P) <=> p \in Waiting(s, P)
  <2>1. t[p] = s[p] /\ p \in 1 .. Len(t)
    BY <1>1, <1>2
  <2>2. s[p] \in Forwards => WaitsFor(t, p) = WaitsFor(s, p)
    BY GrownWaits
  <2>3. Halved(t, p, Len(t)) <=> Halved(s, p, Len(s))
    BY NextHalved
  <2> QED
    BY <2>1, <2>2, <2>3 DEF Waiting
<1>4. Len(s) + 1 \in Waiting(t, P)
  BY <1>1, <1>2 DEF Waiting, Forwards
<1>5. \A p \in Waiting(t, P) : p \in 1 .. Len(s) \/ p = Len(s) + 1
  BY <1>2 DEF Waiting
<1>6. \A p \in Waiting(s, P) : p \in 1 .. Len(s)
  BY DEF Waiting
<1> QED
  BY <1>3, <1>4, <1>5, <1>6

\* Nothing waits yet for the structure that a word opens but the word itself.
LEMMA NewWaits ==
  ASSUME NEW s, NEW w, NEW t, More(s, w, t), Fitting(s), Fitting(t), w \in Openers
  PROVE  Waiting(t, Len(s) + 1) = IF w \in {"IF", "OF", "?DO"} THEN {Len(s) + 1} ELSE {}
<1>1. /\ Len(s) \in Nat /\ Len(t) = Len(s) + 1 /\ t[Len(s) + 1] = w
      /\ \A i \in 1 .. Len(s) : t[i] = s[i]
  BY MoreFacts
<1>2. \A i : i \in 1 .. Len(t) <=> i \in 1 .. Len(s) \/ i = Len(s) + 1
  BY <1>1
<1>3. ASSUME NEW p \in 1 .. Len(s), s[p] \in Forwards PROVE WaitsFor(t, p) # Len(s) + 1
  <2>1. WaitsFor(s, p) \in 1 .. p
    BY <1>3, WaitsOpen
  <2>2. WaitsFor(t, p) = WaitsFor(s, p)
    BY <1>3, GrownWaits
  <2> QED
    BY <1>1, <2>1, <2>2
<1>4. \A p \in Waiting(t, Len(s) + 1) : p = Len(s) + 1 /\ w \in Forwards
  BY <1>1, <1>2, <1>3 DEF Waiting
<1>5. CASE w \in {"IF", "OF", "?DO"}
  <2>1. WaitsFor(t, Len(s) + 1) = Len(s) + 1 /\ w \in Forwards
    BY <1>5, NextWaits DEF Forwards
  <2>2. w = "IF" => ~ Halved(t, Len(s) + 1, Len(t))
    <3> SUFFICES ASSUME w = "IF", Halved(t, Len(s) + 1, Len(t)) PROVE FALSE
      OBVIOUS
    <3>1. PICK e \in 1 .. Len(t) : t[e] = "ELSE" /\ OpenerOf(t, e) = Len(s) + 1
      BY DEF Halved
    <3>2. t[e] \in Belonging /\ Len(t) \in Nat
      BY <1>1, <3>1 DEF Belonging
    <3>3. OpenerOf(t, e) \in 1 .. e - 1
      BY <3>2, OpenerThere DEF Fitting
    <3> QED
      BY <1>1, <3>1, <3>3
  <2>3. Len(s) + 1 \in Waiting(t, Len(s) + 1)
    BY <1>1, <1>2, <2>1, <2>2 DEF Waiting
  <2> QED
    BY <1>4, <1>5, <2>3
<1>6. CASE w \notin {"IF", "OF", "?DO"}
  <2>1. w \notin Forwards
    BY <1>6 DEF Forwards, Openers
  <2> QED
    BY <1>4, <1>6, <2>1
<1> QED
  BY <1>5, <1>6

\* The part of the innermost structure that Fits asks for.
LEMMA SinceThen ==
  ASSUME NEW s, NEW w, NEW t, More(s, w, t), Fitting(s), OpenAfter(s)[Len(s)] # <<>>, NEW v \in {"ELSE", "WHILE"}
  PROVE  Since(t, Len(s) + 1, v) <=> \E e \in 1 .. Len(s) : s[e] = v /\ OpenerOf(s, e) = Inner(s, Len(s))
<1> DEFINE n == Len(s)
<1>1. n \in Nat /\ n \in 0 .. n /\ n + 1 - 1 = n /\ \A i \in 1 .. n : t[i] = s[i]
  BY MoreFacts
<1>2. \A i \in 0 .. n : OpenAfter(t)[i] = OpenAfter(s)[i] /\ Inner(t, i) = Inner(s, i)
  BY GrownOpen
<1>3. InnerIs(s, n, Inner(s, n), Len(OpenAfter(s)[n]))
  BY <1>1, InnerFacts
<1>4. Inner(s, n) \in 1 .. n
  BY <1>3 DEF InnerIs
<1>5. ASSUME NEW e \in 1 .. n, s[e] = v
      PROVE  OpenAfter(s)[e] # <<>> /\ OpenerOf(s, e) = Inner(s, e) /\ Inner(s, e) \in 1 .. e - 1
  <2>1. s[e] \in Forwards /\ s[e] \in {"ELSE", "WHILE", "ENDOF"} /\ WaitsFor(s, e) = OpenerOf(s, e) /\ s[e] \in Belonging
    BY <1>5 DEF Forwards, WaitsFor, Belonging
  <2>2. OpenAfter(s)[e] # <<>> /\ WaitsFor(s, e) = Inner(s, e)
    BY <2>1, WaitsOpen
  <2>3. OpenerOf(s, e) \in 1 .. e - 1
    BY <1>1, <2>1, OpenerThere DEF Fitting
  <2> QED
    BY <2>1, <2>2, <2>3
<1>6. ASSUME NEW e \in 1 .. n, s[e] = v, OpenerOf(s, e) = Inner(s, n) PROVE Since(t, n + 1, v)
  <2>1. e \in 0 .. n /\ e \in Inner(s, n) + 1 .. n
    BY <1>1, <1>4, <1>5, <1>6
  <2>2. OpenAfter(s)[e] = OpenAfter(s)[n]
    BY <1>1, <1>5, <1>6, <2>1, InnerSame
  <2>3. e \in Inner(t, n) + 1 .. n /\ t[e] = v /\ OpenAfter(t)[e] = OpenAfter(t)[n]
    BY <1>1, <1>2, <1>6, <2>1, <2>2
  <2> QED
    BY <1>1, <2>3 DEF Since
<1>7. ASSUME Since(t, n + 1, v) PROVE \E e \in 1 .. n : s[e] = v /\ OpenerOf(s, e) = Inner(s, n)
  <2>1. PICK e \in Inner(t, n) + 1 .. n : t[e] = v /\ OpenAfter(t)[e] = OpenAfter(t)[n]
    BY <1>1, <1>7 DEF Since
  <2>2. e \in 1 .. n /\ e \in 0 .. n
    BY <1>1, <1>2, <1>4
  <2>3. s[e] = v /\ OpenAfter(s)[e] = OpenAfter(s)[n]
    BY <1>1, <1>2, <2>1, <2>2
  <2>4. Inner(s, e) = Inner(s, n)
    BY <2>3 DEF Inner
  <2> QED
    BY <1>5, <2>2, <2>3, <2>4
<1> QED
  BY <1>6, <1>7

\* What a word that belongs to the innermost structure finds: that one, of its kind.
LEMMA Innermost ==
  ASSUME NEW s, NEW w, NEW t, More(s, w, t), Fitting(s), Fitting(t), w \in Belonging \ {"LEAVE"}
  PROVE  /\ OpenAfter(s)[Len(s)] # <<>> /\ Inner(s, Len(s)) \in 1 .. Len(s)
         /\ s[Inner(s, Len(s))] \in OpenedBy(w)
         /\ OpenerOf(t, Len(s) + 1) = Inner(s, Len(s))
<1>1. /\ Len(s) + 1 \in 1 .. Len(t) /\ t[Len(s) + 1] = w /\ Len(t) \in Nat /\ Len(s) \in Nat
      /\ Len(s) + 1 - 1 = Len(s) /\ Len(s) \in 0 .. Len(s) /\ \A i \in 1 .. Len(s) : t[i] = s[i]
  BY MoreFacts
<1>2. OpenAfter(t)[Len(s)] = OpenAfter(s)[Len(s)] /\ Inner(t, Len(s)) = Inner(s, Len(s))
  BY <1>1, GrownOpen
<1>3. FitAt(t, Len(s) + 1)
  BY <1>1 DEF Fitting
<1>4. /\ OpenerOf(t, Len(s) + 1) \in 1 .. Len(s) /\ t[OpenerOf(t, Len(s) + 1)] \in OpenedBy(w)
      /\ OpenAfter(t)[Len(s)] # <<>> /\ OpenerOf(t, Len(s) + 1) = Inner(t, Len(s))
  BY <1>1, <1>3, OpenerThere
<1> QED
  BY <1>1, <1>2, <1>4

\* At most one WHILE waits for the end of a BEGIN; REPEAT finds one, the others none.
LEMMA WhileWaits ==
  ASSUME NEW s, NEW w, NEW t, More(s, w, t), Fitting(s), Fitting(t),
         w \in {"WHILE", "UNTIL", "AGAIN", "REPEAT"}
  PROVE  Waiting(s, Inner(s, Len(s))) = {} <=> w # "REPEAT"
<1> DEFINE P == Inner(s, Len(s))
<1>1. OpenAfter(s)[Len(s)] # <<>> /\ P \in 1 .. Len(s) /\ s[P] = "BEGIN"
  BY Innermost DEF Belonging, OpenedBy
<1>2. Since(t, Len(s) + 1, "WHILE") <=> \E e \in 1 .. Len(s) : s[e] = "WHILE" /\ OpenerOf(s, e) = P
  BY <1>1, SinceThen
<1>3. FitAt(t, Len(s) + 1) /\ t[Len(s) + 1] = w
  BY MoreFacts DEF Fitting
<1>4. Since(t, Len(s) + 1, "WHILE") <=> w = "REPEAT"
  BY <1>3 DEF FitAt
<1> HIDE DEF P
<1>5. ASSUME NEW p \in Waiting(s, P) PROVE s[p] = "WHILE" /\ OpenerOf(s, p) = P /\ p \in 1 .. Len(s)
  <2>1. p \in 1 .. Len(s) /\ s[p] \in Forwards /\ WaitsFor(s, p) = P
    BY DEF Waiting
  <2>2. "BEGIN" \in WaitKinds(s[p])
    BY <1>1, <2>1, WaitsOpen
  <2>3. s[p] = "WHILE"
    BY <2>1, <2>2 DEF WaitKinds, Forwards, Loops
  <2> QED
    BY <2>1, <2>3 DEF WaitsFor
<1>6. ASSUME NEW e \in 1 .. Len(s), s[e] = "WHILE", OpenerOf(s, e) = P PROVE e \in Waiting(s, P)
  BY <1>6 DEF Waiting, WaitsFor, Forwards
<1>7. Waiting(s, P) = {} <=> ~ \E e \in 1 .. Len(s) : s[e] = "WHILE" /\ OpenerOf(s, e) = P
  BY <1>5, <1>6
<1> QED
  BY <1>2, <1>4, <1>7 DEF P

\* ELSE waits in place of the IF.
LEMMA ElseWaits ==
  ASSUME NEW s, NEW w, NEW t, More(s, w, t), Fitting(s), Fitting(t), w = "ELSE"
  PROVE  /\ Waiting(s, Inner(s, Len(s))) = {Inner(s, Len(s))}
         /\ Waiting(t, Inner(s, Len(s))) = {Len(s) + 1}
<1> DEFINE P == Inner(s, Len(s))
<1>1. /\ OpenAfter(s)[Len(s)] # <<>> /\ P \in 1 .. Len(s) /\ s[P] = "IF"
      /\ OpenerOf(t, Len(s) + 1) = P
  BY Innermost DEF Belonging, OpenedBy
<1>2. Since(t, Len(s) + 1, "ELSE") <=> \E e \in 1 .. Len(s) : s[e] = "ELSE" /\ OpenerOf(s, e) = P
  BY <1>1, SinceThen
<1>3. /\ FitAt(t, Len(s) + 1) /\ t[Len(s) + 1] = w /\ Len(s) \in Nat /\ Len(t) = Len(s) + 1
      /\ \A i \in 1 .. Len(s) : t[i] = s[i]
  BY MoreFacts DEF Fitting
<1>4. ~ Halved(s, P, Len(s))
  <2>1. ~ Since(t, Len(s) + 1, "ELSE")
    BY <1>3 DEF FitAt
  <2> QED
    BY <1>2, <2>1 DEF Halved
<1>5. Halved(t, P, Len(t)) /\ WaitsFor(t, Len(s) + 1) = P
  BY NextHalved, NextWaits DEF Forwards
<1> HIDE DEF P
<1>6. ASSUME NEW p \in 1 .. Len(s), s[p] \in Forwards, WaitsFor(s, p) = P PROVE p = P
  <2>1. "IF" \in WaitKinds(s[p])
    BY <1>1, <1>6, WaitsOpen
  <2>2. s[p] \in {"IF", "ELSE"}
    BY <1>6, <2>1 DEF WaitKinds, Forwards, Loops
  <2>3. CASE s[p] = "IF"
    BY <1>6, <2>3 DEF WaitsFor
  <2>4. CASE s[p] = "ELSE"
    <3>1. OpenerOf(s, p) = P
      BY <1>6, <2>4 DEF WaitsFor
    <3> QED
      BY <1>4, <2>4, <3>1 DEF Halved
  <2> QED
    BY <2>2, <2>3, <2>4
<1>7. P \in Waiting(s, P)
  BY <1>1, <1>4 DEF Waiting, WaitsFor, Forwards
<1>8. Waiting(s, P) = {P}
  BY <1>6, <1>7 DEF Waiting
<1>9. \A i : i \in 1 .. Len(t) <=> i \in 1 .. Len(s) \/ i = Len(s) + 1
  BY <1>3
<1>10. ASSUME NEW p \in Waiting(t, P) PROVE p = Len(s) + 1
  <2>1. p \in 1 .. Len(t) /\ t[p] \in Forwards /\ WaitsFor(t, p) = P /\ (t[p] = "IF" => ~ Halved(t, p, Len(t)))
    BY DEF Waiting
  <2>2. ASSUME p \in 1 .. Len(s) PROVE FALSE
    <3>1. t[p] = s[p] /\ WaitsFor(s, p) = P
      BY <1>3, <2>1, <2>2, GrownWaits
    <3>2. p = P
      BY <1>6, <2>1, <2>2, <3>1
    <3> QED
      BY <1>1, <1>5, <2>1, <3>1, <3>2
  <2> QED
    BY <1>9, <2>1, <2>2
<1>11. Len(s) + 1 \in Waiting(t, P)
  BY <1>3, <1>5, <1>9 DEF Waiting, Forwards
<1> QED
  BY <1>8, <1>10, <1>11 DEF P

-----------------------------------------------------------------------------
(* When it becomes known where a word jumps.                               *)

\* With q it is known where p jumps: past q.
Resolves(s, q, p) ==
  /\ p < q /\ s[p] \in Forwards
  /\ \/ s[q] = "ELSE" /\ s[p] = "IF" /\ OpenerOf(s, q) = p
     \/ s[q] \in Closers /\ Inner(s, q - 1) = WaitsFor(s, p) /\ (s[p] = "IF" => ~ Halved(s, p, q - 1))

\* What waits for the end of a structure that is open has not been resolved.
LEMMA NotYet ==
  ASSUME NEW s, Fitting(s), NEW P, Opened(s, Len(s), P), NEW p \in Waiting(s, P), NEW q \in 1 .. Len(s)
  PROVE  ~ Resolves(s, q, p)
<1>1. p \in 1 .. Len(s) /\ WaitsFor(s, p) = P /\ (s[p] = "IF" => ~ Halved(s, p, Len(s))) /\ Len(s) \in Nat
  BY DEF Waiting, Fitting
<1>2. ~ (s[q] = "ELSE" /\ s[p] = "IF" /\ OpenerOf(s, q) = p)
  BY <1>1 DEF Halved
<1>3. ASSUME s[q] \in Closers, Inner(s, q - 1) = P PROVE FALSE
  <2>1. s[q] \in Belonging \/ s[q] = "LEAVE"
    BY <1>3 DEF Closers, Belonging
  <2>2. s[q] \in Belonging /\ s[q] # "LEAVE" /\ FitAt(s, q)
    BY <1>3, <2>1 DEF Closers, Belonging, Fitting
  <2>3. OpenAfter(s)[q - 1] # <<>>
    BY <1>1, <2>2, OpenerThere
  <2>4. Len(s) \in q .. Len(s)
    BY <1>1
  <2>5. ~ Opened(s, Len(s), Inner(s, q - 1))
    BY <1>1, <1>3, <2>3, <2>4, Closes
  <2> QED
    BY <1>3, <2>5
<1> QED
  BY <1>1, <1>2, <1>3 DEF Resolves

\* What the next word w resolves.
ResolvedBy(s, w) == IF w \in Closers \cup {"ELSE"} THEN Waiting(s, Inner(s, Len(s))) ELSE {}

LEMMA NextResolves ==
  ASSUME NEW s, NEW w, NEW t, More(s, w, t), Fitting(s), Fitting(t), NEW p \in 1 .. Len(s)
  PROVE  /\ Resolves(t, Len(s) + 1, p) <=> p \in ResolvedBy(s, w)
         /\ \A q \in 1 .. Len(s) : Resolves(t, q, p) <=> Resolves(s, q, p)
<1>1. /\ Len(s) \in Nat /\ Len(t) = Len(s) + 1 /\ t[Len(s) + 1] = w /\ t[p] = s[p]
      /\ \A i \in 1 .. Len(s) : t[i] = s[i]
  BY MoreFacts
<1>2. s[p] \in Forwards => WaitsFor(t, p) = WaitsFor(s, p)
  BY GrownWaits
<1>3. \A i \in 0 .. Len(s) : Halved(t, p, i) <=> Halved(s, p, i)
  BY NextHalved
<1>4. \A i \in 0 .. Len(s) : Inner(t, i) = Inner(s, i)
  BY GrownOpen
<1>5. ASSUME NEW q \in 1 .. Len(s) PROVE Resolves(t, q, p) <=> Resolves(s, q, p)
  <2>1. t[q] = s[q] /\ q - 1 \in 0 .. Len(s)
    BY <1>1
  <2>2. s[q] = "ELSE" => OpenerOf(t, q) = OpenerOf(s, q)
    BY GrownOpener DEF Belonging
  <2>3. Inner(t, q - 1) = Inner(s, q - 1) /\ (Halved(t, p, q - 1) <=> Halved(s, p, q - 1))
    BY <1>3, <1>4, <2>1
  <2> QED
    BY <1>1, <1>2, <2>1, <2>2, <2>3 DEF Resolves
<1>6. /\ Len(s) + 1 - 1 = Len(s) /\ Len(s) \in 0 .. Len(s) /\ p < Len(s) + 1
      /\ Inner(t, Len(s)) = Inner(s, Len(s)) /\ (Halved(t, p, Len(s)) <=> Halved(s, p, Len(s)))
  BY <1>1, <1>3, <1>4
<1>7. CASE w = "ELSE"
  <2>1. ResolvedBy(s, w) = {Inner(s, Len(s))}
    BY <1>7, ElseWaits DEF ResolvedBy
  <2>2. s[Inner(s, Len(s))] = "IF" /\ OpenerOf(t, Len(s) + 1) = Inner(s, Len(s))
    BY <1>7, Innermost DEF Belonging, OpenedBy
  <2>3. w \notin Closers /\ "IF" \in Forwards
    BY <1>7 DEF Closers, Forwards
  <2>4. Resolves(t, Len(s) + 1, p) <=> s[p] = "IF" /\ OpenerOf(t, Len(s) + 1) = p
    BY <1>1, <1>6, <1>7, <2>3 DEF Resolves
  <2> QED
    BY <1>5, <2>1, <2>2, <2>4
<1>8. CASE w \in Closers
  <2>1. w # "ELSE"
    BY <1>8 DEF Closers
  <2>2. ResolvedBy(s, w) = Waiting(s, Inner(s, Len(s)))
    BY <1>8 DEF ResolvedBy
  <2>3. Resolves(t, Len(s) + 1, p) <=>
          /\ s[p] \in Forwards /\ Inner(s, Len(s)) = WaitsFor(s, p)
          /\ (s[p] = "IF" => ~ Halved(s, p, Len(s)))
    BY <1>1, <1>2, <1>6, <1>8, <2>1 DEF Resolves
  <2> QED
    BY <1>5, <2>2, <2>3 DEF Waiting
<1>9. CASE w \notin Closers \cup {"ELSE"}
  BY <1>1, <1>5, <1>9 DEF Resolves, ResolvedBy
<1> QED
  BY <1>7, <1>8, <1>9

\* The jumps of the thread of s: the cells there are, and where those go of which it is known.
Jumps(s, j) ==
  /\ DOMAIN j = CellsOf(s, Jumping(s))
  /\ \A p \in Jumping(s) :
       /\ s[p] \in Backs => j[Cell(s, p)] = Past(s, OpenerOf(s, p))
       /\ \A q \in 1 .. Len(s) : Resolves(s, q, p) => j[Cell(s, p)] = Past(s, q)

\* What the next word does to them.
ResolvesAll(s, w, t, j, k) ==
  /\ DOMAIN k = DOMAIN j \cup (IF w \in Forwards \cup Backs THEN {Cell(t, Len(t))} ELSE {})
  /\ \A p \in ResolvedBy(s, w) : k[Cell(s, p)] = Past(t, Len(t))
  /\ \A x \in DOMAIN j \ CellsOf(s, ResolvedBy(s, w)) : k[x] = j[x]
  /\ w \in Backs => k[Cell(t, Len(t))] = Past(s, Inner(s, Len(s)))

LEMMA ResolvedWaits ==
  ASSUME NEW s, NEW w, NEW t, More(s, w, t), Fitting(s), Fitting(t), NEW p \in ResolvedBy(s, w)
  PROVE  p \in Jumping(s) /\ s[p] \in Forwards /\ \A q \in 1 .. Len(s) : ~ Resolves(s, q, p)
<1>1. w \in Closers \cup {"ELSE"} /\ p \in Waiting(s, Inner(s, Len(s)))
  BY DEF ResolvedBy
<1>2. p \in Jumping(s) /\ s[p] \in Forwards
  BY <1>1 DEF Waiting, Jumping
<1>3. w \in Belonging \ {"LEAVE"}
  BY <1>1 DEF Closers, Belonging
<1>4. OpenAfter(s)[Len(s)] # <<>> /\ Len(s) \in Nat /\ Len(s) \in 0 .. Len(s)
  BY <1>3, Innermost, MoreFacts
<1>5. InnerIs(s, Len(s), Inner(s, Len(s)), Len(OpenAfter(s)[Len(s)]))
  BY <1>4, InnerFacts
<1>6. Opened(s, Len(s), Inner(s, Len(s)))
  BY <1>5 DEF InnerIs
<1> QED
  BY <1>1, <1>2, <1>6, NotYet

LEMMA JumpsStep ==
  ASSUME NEW s, NEW w, NEW t, More(s, w, t), Fitting(s), Fitting(t), NEW j, NEW k,
         Jumps(s, j), ResolvesAll(s, w, t, j, k)
  PROVE  Jumps(t, k)
<1>1. /\ Len(s) \in Nat /\ Len(t) = Len(s) + 1 /\ Len(t) \in Nat /\ t[Len(t)] = w
      /\ \A i \in 1 .. Len(s) : t[i] = s[i]
  BY MoreFacts
<1>2. Jumping(t) = Jumping(s) \cup (IF w \in Forwards \cup Backs THEN {Len(t)} ELSE {})
  BY <1>1, MoreJumping
<1>3. \A p \in 1 .. Len(s) : Cell(t, p) = Cell(s, p) /\ Past(t, p) = Past(s, p)
  BY NextCells
<1>4. \A p \in Jumping(s) : p \in 1 .. Len(s)
  BY DEF Jumping
<1>5. DOMAIN k = CellsOf(t, Jumping(t))
  <2>1. CellsOf(t, Jumping(s)) = CellsOf(s, Jumping(s))
    BY <1>3, <1>4 DEF CellsOf
  <2>2. DOMAIN k = CellsOf(s, Jumping(s)) \cup (IF w \in Forwards \cup Backs THEN {Cell(t, Len(t))} ELSE {})
    BY DEF Jumps, ResolvesAll
  <2>3. CellsOf(t, Jumping(t)) = CellsOf(t, Jumping(s)) \cup (IF w \in Forwards \cup Backs THEN {Cell(t, Len(t))} ELSE {})
    BY <1>2 DEF CellsOf
  <2> QED
    BY <2>1, <2>2, <2>3
<1>6. ASSUME NEW p \in Jumping(s), p \notin ResolvedBy(s, w) PROVE k[Cell(s, p)] = j[Cell(s, p)]
  <2>1. Cell(s, p) \in DOMAIN j
    BY DEF Jumps, CellsOf
  <2>2. ASSUME NEW r \in ResolvedBy(s, w), Cell(s, p) = Cell(s, r) PROVE FALSE
    <3>1. r \in Jumping(s)
      BY ResolvedWaits
    <3> QED
      BY <1>1, <1>6, <2>2, <3>1, CellsApart
  <2>3. Cell(s, p) \notin CellsOf(s, ResolvedBy(s, w))
    BY <2>2 DEF CellsOf
  <2> QED
    BY <2>1, <2>3 DEF ResolvesAll
<1>7. ASSUME NEW p \in Jumping(s), t[p] \in Backs PROVE k[Cell(t, p)] = Past(t, OpenerOf(t, p))
  <2>1. p \in 1 .. Len(s) /\ s[p] \in Backs /\ s[p] \notin Forwards /\ s[p] \in Belonging
    BY <1>1, <1>4, <1>7 DEF Backs, Forwards, Belonging
  <2>2. p \notin ResolvedBy(s, w)
    BY <2>1, ResolvedWaits
  <2>3. OpenerOf(t, p) = OpenerOf(s, p)
    BY <2>1, GrownOpener
  <2>4. OpenerOf(s, p) \in 1 .. Len(s)
    <3>1. OpenerOf(s, p) \in 1 .. p - 1
      BY <1>1, <2>1, OpenerThere DEF Fitting
    <3> QED
      BY <1>1, <2>1, <3>1
  <2>5. j[Cell(s, p)] = Past(s, OpenerOf(s, p))
    BY <2>1 DEF Jumps
  <2> QED
    BY <1>3, <1>6, <2>1, <2>2, <2>3, <2>4, <2>5
<1>8. ASSUME NEW p \in Jumping(s), NEW q \in 1 .. Len(t), Resolves(t, q, p) PROVE k[Cell(t, p)] = Past(t, q)
  <2>1. p \in 1 .. Len(s) /\ Cell(t, p) = Cell(s, p)
    BY <1>3, <1>4
  <2>2. CASE q = Len(s) + 1
    <3>1. p \in ResolvedBy(s, w)
      BY <1>8, <2>1, <2>2, NextResolves
    <3> QED
      BY <1>1, <2>1, <2>2, <3>1 DEF ResolvesAll
  <2>3. CASE q \in 1 .. Len(s)
    <3>1. Resolves(s, q, p)
      BY <1>8, <2>1, <2>3, NextResolves
    <3>2. p \notin ResolvedBy(s, w)
      BY <2>3, <3>1, ResolvedWaits
    <3>3. j[Cell(s, p)] = Past(s, q)
      BY <2>3, <3>1 DEF Jumps
    <3> QED
      BY <1>3, <1>6, <2>1, <2>3, <3>2, <3>3
  <2> QED
    BY <1>1, <2>2, <2>3
<1>9. ASSUME w \in Backs PROVE k[Cell(t, Len(t))] = Past(t, OpenerOf(t, Len(t)))
  <2>1. w \in Belonging \ {"LEAVE"}
    BY <1>9 DEF Backs, Belonging
  <2>2. OpenerOf(t, Len(t)) = Inner(s, Len(s)) /\ Inner(s, Len(s)) \in 1 .. Len(s)
    BY <1>1, <2>1, Innermost
  <2> QED
    BY <1>3, <1>9, <2>2 DEF ResolvesAll
<1>10. ASSUME NEW q \in 1 .. Len(t) PROVE ~ Resolves(t, q, Len(t))
  BY <1>1 DEF Resolves
<1>11. ASSUME NEW p \in Jumping(t)
       PROVE  /\ t[p] \in Backs => k[Cell(t, p)] = Past(t, OpenerOf(t, p))
              /\ \A q \in 1 .. Len(t) : Resolves(t, q, p) => k[Cell(t, p)] = Past(t, q)
  <2>1. CASE p \in Jumping(s)
    BY <1>7, <1>8, <2>1
  <2>2. CASE p = Len(t)
    BY <1>1, <1>9, <1>10, <2>2
  <2> QED
    BY <1>2, <2>1, <2>2
<1> QED
  BY <1>5, <1>11 DEF Jumps

-----------------------------------------------------------------------------
(* The thread of a well nested source is what it means.                    *)

\* A structure ends once.
LEMMA OneEnd ==
  ASSUME NEW s, Fitting(s), NEW q \in 1 .. Len(s), NEW r \in 1 .. Len(s),
         s[q] \in Closers, s[r] \in Closers, OpenerOf(s, q) = OpenerOf(s, r)
  PROVE  q = r
<1>1. ASSUME NEW x \in 1 .. Len(s), NEW y \in 1 .. Len(s), x < y, s[x] \in Closers, s[y] \in Closers,
             OpenerOf(s, x) = OpenerOf(s, y)
      PROVE  FALSE
  <2>1. /\ s[x] \in Belonging /\ s[y] \in Belonging /\ s[x] # "LEAVE" /\ s[y] # "LEAVE"
        /\ FitAt(s, x) /\ FitAt(s, y) /\ Len(s) \in Nat
    BY <1>1 DEF Closers, Belonging, Fitting
  <2>2. OpenAfter(s)[x - 1] # <<>> /\ Inner(s, x - 1) = OpenerOf(s, x)
    BY <1>1, <2>1, OpenerThere
  <2>3. Opened(s, y - 1, OpenerOf(s, y))
    BY <1>1, <2>1, OpenerThere
  <2>4. y - 1 \in x .. Len(s)
    BY <1>1, <2>1
  <2>5. ~ Opened(s, y - 1, Inner(s, x - 1))
    BY <1>1, <2>1, <2>2, <2>4, Closes
  <2> QED
    BY <1>1, <2>2, <2>3, <2>5
<1>2. ~ (q < r) /\ ~ (r < q)
  BY <1>1
<1> QED
  BY <1>2

\* An IF has one ELSE.
LEMMA OneElse ==
  ASSUME NEW s, Fitting(s), NEW q \in 1 .. Len(s), NEW r \in 1 .. Len(s),
         s[q] = "ELSE", s[r] = "ELSE", OpenerOf(s, q) = OpenerOf(s, r)
  PROVE  q = r
<1>1. ASSUME NEW x \in 1 .. Len(s), NEW y \in 1 .. Len(s), x < y, s[x] = "ELSE", s[y] = "ELSE",
             OpenerOf(s, x) = OpenerOf(s, y)
      PROVE  FALSE
  <2>1. /\ s[x] \in Belonging /\ s[y] \in Belonging /\ s[x] \in Forwards /\ WaitsFor(s, x) = OpenerOf(s, x)
        /\ FitAt(s, x) /\ FitAt(s, y) /\ Len(s) \in Nat
    BY <1>1 DEF Forwards, Belonging, Fitting, WaitsFor
  <2>2. OpenAfter(s)[x] # <<>> /\ Inner(s, x) = OpenerOf(s, x)
    BY <1>1, <2>1, WaitsOpen
  <2>3. OpenAfter(s)[y - 1] # <<>> /\ Inner(s, y - 1) = OpenerOf(s, y)
    BY <1>1, <2>1, OpenerThere
  <2>4. y - 1 \in 0 .. Len(s) /\ x \in 0 .. y - 1
    BY <1>1, <2>1
  <2>5. OpenAfter(s)[x] = OpenAfter(s)[y - 1]
    BY <1>1, <2>1, <2>2, <2>3, <2>4, InnerSame
  <2>6. OpenerOf(s, x) \in 1 .. x - 1
    BY <1>1, <2>1, OpenerThere
  <2>7. x \in Inner(s, y - 1) + 1 .. y - 1
    BY <1>1, <2>1, <2>3, <2>6
  <2>8. Since(s, y, "ELSE")
    BY <1>1, <2>5, <2>7 DEF Since
  <2> QED
    BY <1>1, <2>1, <2>8 DEF FitAt
<1>2. ~ (q < r) /\ ~ (r < q)
  BY <1>1
<1> QED
  BY <1>2

\* What is open at p ends after it, when nothing is open in the end.
LEMMA EndsLater ==
  ASSUME NEW s, Fitting(s), OpenAfter(s)[Len(s)] = <<>>, NEW p \in 1 .. Len(s), NEW P, Opened(s, p, P)
  PROVE  \E q \in p + 1 .. Len(s) :
           /\ q \in PartsOf(s, P) /\ s[q] \in Closers /\ Inner(s, q - 1) = P
           /\ (CHOOSE r \in PartsOf(s, P) : s[r] \in Closers) = q
<1>1. Len(s) \in Nat /\ p \in 0 .. Len(s) /\ Len(s) \in 0 .. Len(s) /\ p \in P .. p
  <2>1. Len(s) \in Nat
    BY DEF Fitting
  <2>2. p \in 0 .. Len(s)
    BY <2>1
  <2> DEFINE o == OpenAfter(s)[p]
  <2>3. PICK k \in 1 .. Len(o) : o[k] = P
    BY DEF Opened
  <2>4. P \in 1 .. p
    BY <2>1, <2>2, <2>3, StructuresNest DEF Nest
  <2> QED
    BY <2>1, <2>2, <2>4
<1>2. P \in 1 .. p
  BY <1>1, OpenedStays
<1>3. ~ Opened(s, Len(s), P)
  <2>1. Len(OpenAfter(s)[Len(s)]) = 0
    BY <1>1, OpenLen
  <2> QED
    BY <2>1 DEF Opened
<1>4. p \in 0 .. Len(s) /\ Len(s) \in 0 .. Len(s)
  BY <1>1
<1> PICK q \in p + 1 .. Len(s) : s[q] \in Closers /\ OpenAfter(s)[q - 1] # <<>> /\ Inner(s, q - 1) = P
  BY <1>1, <1>2, <1>3, Ends
<1>5. q \in 1 .. Len(s) /\ s[q] # "LEAVE"
  BY <1>1 DEF Closers
<1>6. OpenerOf(s, q) = P
  BY <1>5, OpenerIs
<1>7. q \in PartsOf(s, P)
  BY <1>1, <1>2, <1>6 DEF PartsOf
<1>8. ASSUME NEW r \in PartsOf(s, P), s[r] \in Closers PROVE r = q
  <2>1. r \in 1 .. Len(s) /\ OpenerOf(s, r) = P
    BY <1>1, <1>2 DEF PartsOf
  <2> QED
    BY <1>5, <1>6, <1>8, <2>1, OneEnd
<1>9. (CHOOSE r \in PartsOf(s, P) : s[r] \in Closers) = q
  BY <1>7, <1>8
<1> QED
  BY <1>7, <1>9

\* Where p jumps.
Part(s, p, v) == CHOOSE q \in PartsOf(s, p) : s[q] \in v
AfterWord(s, q) == Before(s)[q] + Size(s[q])
HasElse(s, p) == \E q \in PartsOf(s, p) : s[q] = "ELSE"
Goes(s, p) ==
  CASE s[p] = "IF"                         -> AfterWord(s, Part(s, p, IF HasElse(s, p) THEN {"ELSE"} ELSE Closers))
    [] s[p] \in {"OF", "?DO"}              -> AfterWord(s, Part(s, p, Closers))
    [] s[p] \in {"ELSE", "WHILE", "LEAVE"} -> AfterWord(s, Part(s, OpenerOf(s, p), Closers))
    [] s[p] = "ENDOF"                      -> AfterWord(s, Part(s, OpenerOf(s, OpenerOf(s, p)), Closers))
    [] OTHER                               -> AfterWord(s, OpenerOf(s, p))

LEMMA MeaningIs ==
  ASSUME NEW s \in Seq(AllWords)
  PROVE  Meaning(s) = [c \in CellsOf(s, Jumping(s)) |-> Goes(s, CHOOSE p \in Jumping(s) : Cell(s, p) = c)]
<1> DEFINE jumping == {p \in DOMAIN s : s[p] \in {"IF", "ELSE", "UNTIL", "AGAIN", "WHILE", "REPEAT",
                                             "?DO", "LOOP", "LEAVE", "OF", "ENDOF"}}
<1>1. jumping = Jumping(s)
  BY DEF Jumping, Forwards, Backs
<1> HIDE DEF jumping
<1>2. Meaning(s) = [c \in {Cell(s, p) : p \in jumping} |-> Goes(s, CHOOSE p \in jumping : Cell(s, p) = c)]
  BY Zenon DEF Meaning, Goes, HasElse, AfterWord, Part, Cell, jumping
<1> QED
  BY <1>1, <1>2, Zenon DEF CellsOf

LEMMA GoesPast ==
  ASSUME NEW s, Fitting(s), OpenAfter(s)[Len(s)] = <<>>, NEW j, Jumps(s, j), NEW p \in Jumping(s)
  PROVE  j[Cell(s, p)] = Goes(s, p)
<1>1. /\ p \in 1 .. Len(s) /\ s[p] \in Forwards \cup Backs /\ Len(s) \in Nat
      /\ s[p] \in Backs => j[Cell(s, p)] = Past(s, OpenerOf(s, p))
  BY DEF Jumping, Fitting, Jumps
<1>2. \A q \in 1 .. Len(s) : Resolves(s, q, p) => j[Cell(s, p)] = Past(s, q)
  BY DEF Jumps
<1>3. \A q \in 1 .. Len(s) : AfterWord(s, q) = Past(s, q)
  BY <1>1, BeforeTurns DEF AfterWord, Past
<1>4. ASSUME NEW q \in 1 .. Len(s), q > p, s[q] \in Closers, Inner(s, q - 1) = WaitsFor(s, p),
             s[p] \in Forwards, s[p] = "IF" => ~ Halved(s, p, q - 1)
      PROVE  j[Cell(s, p)] = AfterWord(s, q)
  <2>1. Resolves(s, q, p)
    BY <1>1, <1>4 DEF Resolves
  <2> QED
    BY <1>2, <1>3, <2>1
<1>5. s[p] \in Forwards => WaitsFor(s, p) \in 1 .. p /\ Opened(s, p, WaitsFor(s, p))
  BY <1>1, WaitsOpen
<1>6. CASE s[p] = "IF" /\ HasElse(s, p)
  <2> PICK q \in PartsOf(s, p) : s[q] = "ELSE"
    BY <1>6 DEF HasElse
  <2>1. q \in 1 .. Len(s) /\ p < q /\ OpenerOf(s, q) = p
    BY <1>1 DEF PartsOf
  <2>2. ASSUME NEW r \in PartsOf(s, p), s[r] = "ELSE" PROVE r = q
    <3>1. r \in 1 .. Len(s) /\ OpenerOf(s, r) = p
      BY <1>1 DEF PartsOf
    <3> QED
      BY <2>1, <2>2, <3>1, OneElse
  <2>3. Part(s, p, {"ELSE"}) = q
    BY <2>2 DEF Part
  <2>4. Resolves(s, q, p)
    BY <1>6, <2>1 DEF Resolves, Forwards
  <2>5. Goes(s, p) = AfterWord(s, q)
    <3>1. Goes(s, p) = AfterWord(s, Part(s, p, {"ELSE"}))
      BY <1>6 DEF Goes
    <3> QED
      BY <2>3, <3>1
  <2> QED
    BY <1>2, <1>3, <2>1, <2>4, <2>5
<1>7. CASE s[p] = "IF" /\ ~ HasElse(s, p)
  <2>1. WaitsFor(s, p) = p /\ s[p] \in Forwards
    BY <1>7 DEF WaitsFor, Forwards
  <2> PICK q \in p + 1 .. Len(s) :
           /\ q \in PartsOf(s, p) /\ s[q] \in Closers /\ Inner(s, q - 1) = p
           /\ (CHOOSE r \in PartsOf(s, p) : s[r] \in Closers) = q
    BY <1>1, <1>5, <2>1, EndsLater
  <2>2. ~ Halved(s, p, q - 1)
    <3> SUFFICES ASSUME NEW e \in 1 .. q - 1, s[e] = "ELSE", OpenerOf(s, e) = p PROVE FALSE
      BY DEF Halved
    <3>1. e \in 1 .. Len(s) /\ s[e] \in Belonging
      BY <1>1 DEF Belonging
    <3>2. OpenerOf(s, e) \in 1 .. e - 1
      BY <1>1, <3>1, OpenerThere DEF Fitting
    <3>3. e \in PartsOf(s, p)
      BY <1>1, <3>1, <3>2 DEF PartsOf
    <3> QED
      BY <1>7, <3>3 DEF HasElse
  <2>3. Part(s, p, Closers) = q
    BY DEF Part
  <2>4. Goes(s, p) = AfterWord(s, q)
    BY <1>7, <2>3 DEF Goes
  <2>5. q \in 1 .. Len(s) /\ q > p
    BY <1>1
  <2> QED
    BY <1>4, <2>1, <2>2, <2>4, <2>5
<1>8. CASE s[p] \in Forwards /\ s[p] # "IF"
  <2> DEFINE P == WaitsFor(s, p)
  <2>1. Goes(s, p) = AfterWord(s, Part(s, P, Closers))
    BY <1>8 DEF Goes, WaitsFor, Forwards
  <2>2. Opened(s, p, P)
    BY <1>5, <1>8
  <2> HIDE DEF P
  <2> PICK q \in p + 1 .. Len(s) :
           /\ q \in PartsOf(s, P) /\ s[q] \in Closers /\ Inner(s, q - 1) = P
           /\ (CHOOSE r \in PartsOf(s, P) : s[r] \in Closers) = q
    BY <1>1, <2>2, EndsLater
  <2>3. Part(s, P, Closers) = q
    BY DEF Part
  <2>4. q \in 1 .. Len(s) /\ q > p
    BY <1>1
  <2> QED
    BY <1>4, <1>8, <2>1, <2>3, <2>4 DEF P
<1>9. CASE s[p] \in Backs
  <2>1. Goes(s, p) = AfterWord(s, OpenerOf(s, p))
    BY <1>9 DEF Goes, Backs
  <2>2. OpenerOf(s, p) \in 1 .. p - 1
    BY <1>1, <1>9, OpenerThere DEF Backs, Belonging, Fitting
  <2>3. OpenerOf(s, p) \in 1 .. Len(s)
    BY <1>1, <2>2
  <2> QED
    BY <1>1, <1>3, <1>9, <2>1, <2>3
<1> QED
  BY <1>1, <1>6, <1>7, <1>8, <1>9

LEMMA JumpsMeant ==
  ASSUME NEW s, Fitting(s), OpenAfter(s)[Len(s)] = <<>>, NEW j, Jumps(s, j), j = [x \in DOMAIN j |-> j[x]]
  PROVE  j = Meaning(s)
<1>1. s \in Seq(AllWords) /\ Len(s) \in Nat
  BY DEF Fitting
<1>2. DOMAIN j = CellsOf(s, Jumping(s))
  BY DEF Jumps
<1>3. ASSUME NEW c \in CellsOf(s, Jumping(s))
      PROVE  j[c] = Goes(s, CHOOSE p \in Jumping(s) : Cell(s, p) = c)
  <2> PICK p \in Jumping(s) : Cell(s, p) = c
    BY DEF CellsOf
  <2>1. \A r \in Jumping(s) : Cell(s, r) = c => r = p
    BY <1>1, CellsApart
  <2>2. (CHOOSE r \in Jumping(s) : Cell(s, r) = c) = p
    BY <2>1
  <2> QED
    BY <2>2, GoesPast
<1>4. j = [c \in CellsOf(s, Jumping(s)) |-> Goes(s, CHOOSE p \in Jumping(s) : Cell(s, p) = c)]
  BY <1>2, <1>3
<1> QED
  BY <1>1, <1>4, MeaningIs

-----------------------------------------------------------------------------
(* The two stacks, by the structures that are open: each has its part of   *)
(* them, above those of the ones around it.                                *)

\* What a structure of this kind has on them, from a + 1 to z and from x + 1 to y: b cells are
\* before its opening word, which has its own jump at cell and the thread goes on at past;
\* the jumps at slots wait for its end, and among them those at mine are not its own.
Holds(kind, b, cell, past, slots, mine, st, lv, a, z, x, y) ==
  /\ a < z /\ x <= y
  /\ kind \in {"IF", "OF"} => z = a + 1 /\ slots = {st[z]}
  /\ kind = "BEGIN" => /\ st[a + 1] = b
                       /\ (z = a + 1 /\ slots = {}) \/ (z = a + 2 /\ slots = {st[z]})
  /\ kind = "CASE" => st[a + 1] = CS_CASE /\ slots = {st[i] : i \in a + 2 .. z}
  /\ kind = "DO" => z = a + 1 /\ st[z] = past
  /\ kind = "?DO" => z = a + 3 /\ st[a + 1] = cell /\ st[a + 2] = past /\ st[z] = CS_QDO
  /\ kind \in Loops => x < y /\ lv[x + 1] = 0 /\ mine = {lv[i] : i \in x + 2 .. y}
  /\ kind \notin Loops => x = y

\* The one that P opens.
Frame(s, st, lv, P, a, z, x, y) ==
  Holds(s[P], Before(s)[P], Cell(s, P), Past(s, P),
        CellsOf(s, Waiting(s, P)), CellsOf(s, Waiting(s, P) \ {P}), st, lv, a, z, x, y)

Frames(s, st, lv, at, lat) ==
  LET open == OpenAfter(s)[Len(s)]
      d    == Len(open)
  IN  /\ at \in [1 .. d + 1 -> Nat] /\ lat \in [1 .. d + 1 -> Nat]
      /\ at[1] = 0 /\ lat[1] = 0 /\ at[d + 1] = Len(st) /\ lat[d + 1] = Len(lv)
      /\ \A i \in 1 .. d + 1 : \A j \in i .. d + 1 : at[i] <= at[j] /\ lat[i] <= lat[j]
      /\ \A i \in 1 .. d : Frame(s, st, lv, open[i], at[i], at[i + 1], lat[i], lat[i + 1])

Framed(s, st, lv) == \E at, lat : Frames(s, st, lv, at, lat)

LEMMA CellsStay ==
  ASSUME NEW s, NEW w, NEW t, More(s, w, t), NEW S \in SUBSET (1 .. Len(s))
  PROVE  CellsOf(t, S) = CellsOf(s, S)
<1>1. \A p \in S : Cell(t, p) = Cell(s, p)
  BY NextCells
<1> QED
  BY <1>1 DEF CellsOf

Alike(f, g, a, z) == \A i \in a + 1 .. z : g[i] = f[i]

LEMMA FrameStays ==
  ASSUME NEW s, NEW w, NEW t, More(s, w, t), Fitting(s), Fitting(t), NEW P \in 1 .. Len(s),
         w \in Forwards => WaitsFor(t, Len(s) + 1) # P,
         NEW st, NEW lv, NEW st2, NEW lv2, NEW a \in Nat, NEW z \in Nat, NEW x \in Nat, NEW y \in Nat,
         Frame(s, st, lv, P, a, z, x, y),
         Alike(st, st2, a, z), Alike(lv, lv2, x, y)
  PROVE  Frame(t, st2, lv2, P, a, z, x, y)
<1>1. Waiting(t, P) = Waiting(s, P)
  BY StillWaiting
<1>2. Waiting(s, P) \in SUBSET (1 .. Len(s)) /\ Waiting(s, P) \ {P} \in SUBSET (1 .. Len(s))
  BY DEF Waiting
<1>3. CellsOf(t, Waiting(t, P)) = CellsOf(s, Waiting(s, P))
  BY <1>1, <1>2, CellsStay
<1>4. CellsOf(t, Waiting(t, P) \ {P}) = CellsOf(s, Waiting(s, P) \ {P})
  BY <1>1, <1>2, CellsStay
<1>5. t[P] = s[P] /\ Cell(t, P) = Cell(s, P) /\ Past(t, P) = Past(s, P)
  BY NextCells, MoreFacts
<1>6. Before(t)[P] = Before(s)[P]
  <2>1. P \in 1 .. Len(s) + 1
    BY MoreFacts
  <2> QED
    BY <2>1, Grown
<1>7. ASSUME NEW kind, NEW b, NEW cell, NEW past, NEW slots, NEW mine,
             Holds(kind, b, cell, past, slots, mine, st, lv, a, z, x, y)
      PROVE  Holds(kind, b, cell, past, slots, mine, st2, lv2, a, z, x, y)
  <2>1. a < z
    BY <1>7 DEF Holds
  <2>2. st2[z] = st[z] /\ st2[a + 1] = st[a + 1] /\ (a + 2 <= z => st2[a + 2] = st[a + 2])
    BY <2>1 DEF Alike
  <2>3. {st2[i] : i \in a + 2 .. z} = {st[i] : i \in a + 2 .. z}
    <3>1. \A i \in a + 2 .. z : st2[i] = st[i]
      BY DEF Alike
    <3> QED
      BY <3>1
  <2>4. x < y => lv2[x + 1] = lv[x + 1]
    BY DEF Alike
  <2>5. {lv2[i] : i \in x + 2 .. y} = {lv[i] : i \in x + 2 .. y}
    <3>1. \A i \in x + 2 .. y : lv2[i] = lv[i]
      BY DEF Alike
    <3> QED
      BY <3>1
  <2>6. kind = "?DO" => st2[a + 2] = st[a + 2]
    BY <1>7, <2>2 DEF Holds
  <2> QED
    BY <1>7, <2>1, <2>2, <2>3, <2>4, <2>5, <2>6, Zenon DEF Holds
<1> QED
  BY <1>3, <1>4, <1>5, <1>6, <1>7, Zenon DEF Frame

\* The lowest k frames are left as they are.
Keeps(s, w, t, st, st2, lv, lv2, at, lat, k) ==
  /\ k \in 0 .. Len(OpenAfter(s)[Len(s)]) /\ k <= Len(OpenAfter(t)[Len(t)])
  /\ \A i \in 1 .. k : OpenAfter(t)[Len(t)][i] = OpenAfter(s)[Len(s)][i]
  /\ w \in Forwards => \A i \in 1 .. k : WaitsFor(t, Len(s) + 1) # OpenAfter(s)[Len(s)][i]
  /\ Len(st2) \in Nat /\ \A i \in 1 .. at[k + 1] : st2[i] = st[i]
  /\ Len(lv2) \in Nat /\ \A i \in 1 .. lat[k + 1] : lv2[i] = lv[i]

LEMMA FramesBelow ==
  ASSUME NEW s, NEW w, NEW t, More(s, w, t), Fitting(s), Fitting(t),
         NEW st, NEW lv, NEW at, NEW lat, Frames(s, st, lv, at, lat),
         NEW k, NEW st2, NEW lv2, Keeps(s, w, t, st, st2, lv, lv2, at, lat, k)
  PROVE  \A i \in 1 .. k :
           Frame(t, st2, lv2, OpenAfter(t)[Len(t)][i], at[i], at[i + 1], lat[i], lat[i + 1])
<1> DEFINE old == OpenAfter(s)[Len(s)]
           d   == Len(old)
<1>1. /\ k \in 0 .. d /\ d \in Nat
      /\ \A i \in 1 .. k : OpenAfter(t)[Len(t)][i] = old[i]
      /\ w \in Forwards => \A i \in 1 .. k : WaitsFor(t, Len(s) + 1) # old[i]
      /\ \A i \in 1 .. at[k + 1] : st2[i] = st[i]
      /\ \A i \in 1 .. lat[k + 1] : lv2[i] = lv[i]
  <2>1. Len(s) \in 0 .. Len(s) /\ Len(s) \in Nat
    BY MoreFacts
  <2>2. d \in Nat
    BY <2>1, OpenLen
  <2> QED
    BY <2>2 DEF Keeps
<1>2. /\ at \in [1 .. d + 1 -> Nat] /\ lat \in [1 .. d + 1 -> Nat]
      /\ \A i \in 1 .. d + 1 : \A j \in i .. d + 1 : at[i] <= at[j] /\ lat[i] <= lat[j]
      /\ \A i \in 1 .. d : Frame(s, st, lv, old[i], at[i], at[i + 1], lat[i], lat[i + 1])
  BY DEF Frames
<1>3. \A i \in 1 .. d : old[i] \in 1 .. Len(s)
  <2>1. Len(s) \in 0 .. Len(s) /\ Len(s) \in Nat
    BY MoreFacts
  <2> QED
    BY <2>1, StructuresNest DEF Nest
<1> HIDE DEF d, old
<1>4. ASSUME NEW i \in 1 .. k
      PROVE  Frame(t, st2, lv2, old[i], at[i], at[i + 1], lat[i], lat[i + 1])
  <2>1. i \in 1 .. d /\ i \in 1 .. d + 1 /\ i + 1 \in 1 .. d + 1 /\ k + 1 \in i + 1 .. d + 1
    BY <1>1
  <2>2. /\ at[i] \in Nat /\ at[i + 1] \in Nat /\ lat[i] \in Nat /\ lat[i + 1] \in Nat
        /\ at[k + 1] \in Nat /\ lat[k + 1] \in Nat
    <3>1. k + 1 \in 1 .. d + 1
      BY <1>1
    <3> QED
      BY <1>2, <2>1, <3>1
  <2>3. at[i + 1] <= at[k + 1] /\ lat[i + 1] <= lat[k + 1]
    BY <1>2, <2>1
  <2>4. Alike(st, st2, at[i], at[i + 1])
    <3>1. \A j \in at[i] + 1 .. at[i + 1] : j \in 1 .. at[k + 1]
      BY <2>2, <2>3
    <3> QED
      BY <1>1, <3>1 DEF Alike
  <2>5. Alike(lv, lv2, lat[i], lat[i + 1])
    <3>1. \A j \in lat[i] + 1 .. lat[i + 1] : j \in 1 .. lat[k + 1]
      BY <2>2, <2>3
    <3> QED
      BY <1>1, <3>1 DEF Alike
  <2>6. old[i] \in 1 .. Len(s) /\ (w \in Forwards => WaitsFor(t, Len(s) + 1) # old[i])
    BY <1>1, <1>3, <2>1
  <2>7. Frame(s, st, lv, old[i], at[i], at[i + 1], lat[i], lat[i + 1])
    BY <1>2, <2>1
  <2> QED
    BY <2>2, <2>4, <2>5, <2>6, <2>7, FrameStays
<1> QED
  BY <1>1, <1>4

\* They are all that is left,
LEMMA FramesLeft ==
  ASSUME NEW s, NEW w, NEW t, More(s, w, t), Fitting(s), Fitting(t),
         NEW st, NEW lv, NEW at, NEW lat, Frames(s, st, lv, at, lat),
         NEW k, NEW st2, NEW lv2, Keeps(s, w, t, st, st2, lv, lv2, at, lat, k),
         Len(OpenAfter(t)[Len(t)]) = k, Len(st2) = at[k + 1], Len(lv2) = lat[k + 1]
  PROVE  Framed(t, st2, lv2)
<1> DEFINE d    == Len(OpenAfter(s)[Len(s)])
           at2  == [i \in 1 .. k + 1 |-> at[i]]
           lat2 == [i \in 1 .. k + 1 |-> lat[i]]
<1>1. \A i \in 1 .. k :
        Frame(t, st2, lv2, OpenAfter(t)[Len(t)][i], at[i], at[i + 1], lat[i], lat[i + 1])
  BY FramesBelow
<1>2. /\ at \in [1 .. d + 1 -> Nat] /\ lat \in [1 .. d + 1 -> Nat]
      /\ \A i \in 1 .. d + 1 : \A j \in i .. d + 1 : at[i] <= at[j] /\ lat[i] <= lat[j]
      /\ at[1] = 0 /\ lat[1] = 0
  BY DEF Frames
<1>3. k \in 0 .. d /\ d \in Nat
  <2>1. Len(s) \in 0 .. Len(s) /\ Len(s) \in Nat
    BY MoreFacts
  <2>2. d \in Nat
    BY <2>1, OpenLen
  <2> QED
    BY <2>2 DEF Keeps
<1> HIDE DEF d
<1>4. /\ at2 \in [1 .. k + 1 -> Nat] /\ lat2 \in [1 .. k + 1 -> Nat]
      /\ \A i \in 1 .. k + 1 : at2[i] = at[i] /\ lat2[i] = lat[i]
  <2>1. \A i \in 1 .. k + 1 : i \in 1 .. d + 1
    BY <1>3
  <2> QED
    BY <1>2, <2>1
<1> HIDE DEF at2, lat2
<1>5. at2[1] = 0 /\ lat2[1] = 0 /\ at2[k + 1] = Len(st2) /\ lat2[k + 1] = Len(lv2)
  <2>1. 1 \in 1 .. k + 1 /\ k + 1 \in 1 .. k + 1
    BY <1>3
  <2> QED
    BY <1>2, <1>4, <2>1
<1>6. \A i \in 1 .. k + 1 : \A j \in i .. k + 1 : at2[i] <= at2[j] /\ lat2[i] <= lat2[j]
  <2> TAKE i \in 1 .. k + 1
  <2> TAKE j \in i .. k + 1
  <2>1. i \in 1 .. d + 1 /\ j \in i .. d + 1 /\ j \in 1 .. k + 1
    BY <1>3
  <2> QED
    BY <1>2, <1>4, <2>1
<1>7. \A i \in 1 .. k :
        Frame(t, st2, lv2, OpenAfter(t)[Len(t)][i], at2[i], at2[i + 1], lat2[i], lat2[i + 1])
  <2> TAKE i \in 1 .. k
  <2>1. i \in 1 .. k + 1 /\ i + 1 \in 1 .. k + 1
    BY <1>3
  <2> QED
    BY <1>1, <1>4, <2>1
<1>8. Frames(t, st2, lv2, at2, lat2)
  BY <1>4, <1>5, <1>6, <1>7 DEF Frames
<1> QED
  BY <1>8 DEF Framed

\* or there is one more.
LEMMA FrameOnTop ==
  ASSUME NEW s, NEW w, NEW t, More(s, w, t), Fitting(s), Fitting(t),
         NEW st, NEW lv, NEW at, NEW lat, Frames(s, st, lv, at, lat),
         NEW k, NEW st2, NEW lv2, Keeps(s, w, t, st, st2, lv, lv2, at, lat, k),
         Len(OpenAfter(t)[Len(t)]) = k + 1, at[k + 1] <= Len(st2), lat[k + 1] <= Len(lv2),
         Frame(t, st2, lv2, Inner(t, Len(t)), at[k + 1], Len(st2), lat[k + 1], Len(lv2))
  PROVE  Framed(t, st2, lv2)
<1> DEFINE d    == Len(OpenAfter(s)[Len(s)])
           at2  == [i \in 1 .. k + 1 + 1 |-> IF i <= k + 1 THEN at[i] ELSE Len(st2)]
           lat2 == [i \in 1 .. k + 1 + 1 |-> IF i <= k + 1 THEN lat[i] ELSE Len(lv2)]
<1>1. \A i \in 1 .. k :
        Frame(t, st2, lv2, OpenAfter(t)[Len(t)][i], at[i], at[i + 1], lat[i], lat[i + 1])
  BY FramesBelow
<1>2. /\ at \in [1 .. d + 1 -> Nat] /\ lat \in [1 .. d + 1 -> Nat]
      /\ \A i \in 1 .. d + 1 : \A j \in i .. d + 1 : at[i] <= at[j] /\ lat[i] <= lat[j]
      /\ at[1] = 0 /\ lat[1] = 0
  BY DEF Frames
<1>3. k \in 0 .. d /\ d \in Nat /\ k \in Nat /\ Len(st2) \in Nat /\ Len(lv2) \in Nat
  <2>1. Len(s) \in 0 .. Len(s) /\ Len(s) \in Nat
    BY MoreFacts
  <2>2. d \in Nat
    BY <2>1, OpenLen
  <2> QED
    BY <2>2 DEF Keeps
<1>9. OpenAfter(t)[Len(t)][k + 1] = Inner(t, Len(t))
  <2>1. Len(t) \in 0 .. Len(t) /\ Len(t) \in Nat
    BY MoreFacts
  <2> QED
    BY <2>1, OpenLen
<1> HIDE DEF d
<1>4. /\ \A i \in 1 .. k + 1 : i \in 1 .. d + 1 /\ at[i] \in Nat /\ lat[i] \in Nat
      /\ \A i \in 1 .. k + 1 : at[i] <= at[k + 1] /\ lat[i] <= lat[k + 1]
  <2>1. \A i \in 1 .. k + 1 : i \in 1 .. d + 1 /\ k + 1 \in i .. d + 1
    BY <1>3
  <2> QED
    BY <1>2, <2>1
<1>5. /\ at2 \in [1 .. k + 1 + 1 -> Nat] /\ lat2 \in [1 .. k + 1 + 1 -> Nat]
      /\ \A i \in 1 .. k + 1 : at2[i] = at[i] /\ lat2[i] = lat[i]
      /\ at2[k + 1 + 1] = Len(st2) /\ lat2[k + 1 + 1] = Len(lv2)
  <2>1. \A i \in 1 .. k + 1 + 1 : i <= k + 1 => i \in 1 .. k + 1
    BY <1>3
  <2>2. \A i \in 1 .. k + 1 : i \in 1 .. k + 1 + 1 /\ i <= k + 1
    BY <1>3
  <2>3. k + 1 + 1 \in 1 .. k + 1 + 1 /\ ~ (k + 1 + 1 <= k + 1)
    BY <1>3
  <2> QED
    BY <1>3, <1>4, <2>1, <2>2, <2>3
<1> HIDE DEF at2, lat2
<1>6. at2[1] = 0 /\ lat2[1] = 0
  <2>1. 1 \in 1 .. k + 1
    BY <1>3
  <2> QED
    BY <1>2, <1>5, <2>1
<1>7. \A i \in 1 .. k + 1 + 1 : \A j \in i .. k + 1 + 1 : at2[i] <= at2[j] /\ lat2[i] <= lat2[j]
  <2> TAKE i \in 1 .. k + 1 + 1
  <2> TAKE j \in i .. k + 1 + 1
  <2>1. CASE j <= k + 1
    <3>1. i \in 1 .. k + 1 /\ j \in 1 .. k + 1 /\ i \in 1 .. d + 1 /\ j \in i .. d + 1
      BY <1>3, <2>1
    <3> QED
      BY <1>2, <1>5, <3>1
  <2>2. CASE ~ (j <= k + 1)
    <3>1. j = k + 1 + 1
      BY <1>3, <2>2
    <3>2. CASE i = k + 1 + 1
      BY <1>3, <1>5, <3>1, <3>2
    <3>3. CASE i # k + 1 + 1
      <4>1. i \in 1 .. k + 1 /\ k + 1 \in 1 .. k + 1
        BY <1>3, <3>3
      <4>2. at[i] <= at[k + 1] /\ lat[i] <= lat[k + 1] /\ at[i] \in Nat /\ lat[i] \in Nat
            /\ at[k + 1] \in Nat /\ lat[k + 1] \in Nat
        BY <1>4, <4>1
      <4> QED
        BY <1>3, <1>5, <3>1, <4>1, <4>2
    <3> QED
      BY <3>2, <3>3
  <2> QED
    BY <2>1, <2>2
<1>8. ASSUME NEW i \in 1 .. k + 1
      PROVE  Frame(t, st2, lv2, OpenAfter(t)[Len(t)][i], at2[i], at2[i + 1], lat2[i], lat2[i + 1])
  <2>1. CASE i = k + 1
    <3>1. i \in 1 .. k + 1
      BY <1>3
    <3> QED
      BY <1>5, <1>9, <2>1, <3>1
  <2>2. CASE i # k + 1
    <3>1. i \in 1 .. k /\ i + 1 \in 1 .. k + 1
      BY <1>3, <2>2
    <3> QED
      BY <1>1, <1>5, <3>1
  <2> QED
    BY <2>1, <2>2
<1>10. Frames(t, st2, lv2, at2, lat2)
  BY <1>5, <1>6, <1>7, <1>8 DEF Frames
<1> QED
  BY <1>10 DEF Framed

-----------------------------------------------------------------------------
(* What each word makes of the compiler's variables, when it does not fail. *)

Rec(k, j, st, l, f) == [cells |-> k, jumps |-> j, cstack |-> st, leaves |-> l, failed |-> f]

\* j with the cells of S made to point there.
Aimed(j, S, to) == [x \in S \cup DOMAIN j |-> IF x \in S THEN to ELSE j[x]]

LEMMA RecFields ==
  \A k, j, st, l, f :
    LET c == Rec(k, j, st, l, f)
    IN  c.cells = k /\ c.jumps = j /\ c.cstack = st /\ c.leaves = l /\ c.failed = f
BY DEF Rec

LEMMA RecComma == \A k, j, st, l, f, n : comma(Rec(k, j, st, l, f), n) = Rec(k + n, j, st, l, f)
BY DEF Rec, comma

LEMMA RecCells == \A k \in Nat, n \in Nat : \A j, st, l, f : comma(Rec(k, j, st, l, f), n) = Rec(k + n, j, st, l, f)
<1> TAKE k \in Nat, n \in Nat
<1> TAKE j, st, l, f
<1> QED
  BY DEF Rec, comma

LEMMA RecPoint ==
  \A k, j, st, l, f, S, to : Point(Rec(k, j, st, l, f), S, to) = Rec(k, Aimed(j, S, to), st, l, f)
<1> TAKE k, j, st, l, f, S, to
<1>1. Rec(k, j, st, l, f).jumps = j
  BY RecFields
<1>2. \A x : [Rec(k, j, st, l, f) EXCEPT !.jumps = x] = Rec(k, x, st, l, f)
  BY DEF Rec
<1>3. Point(Rec(k, j, st, l, f), S, to) = [Rec(k, j, st, l, f) EXCEPT !.jumps = Aimed(j, S, to)]
  BY <1>1, Zenon DEF Point, Aimed
<1> QED
  BY <1>2, <1>3

LEMMA RecJump ==
  \A k \in Nat : \A j, st, l, f, to : Jump(Rec(k, j, st, l, f), to) = Rec(k + 2, Aimed(j, {k + 1}, to), st, l, f)
<1> TAKE k \in Nat
<1> TAKE j, st, l, f, to
<1>1. Rec(k, j, st, l, f).cells = k
  BY RecFields
<1>2. Point(Rec(k, j, st, l, f), {k + 1}, to) = Rec(k, Aimed(j, {k + 1}, to), st, l, f)
  BY RecPoint
<1>3. comma(Rec(k, Aimed(j, {k + 1}, to), st, l, f), 2) = Rec(k + 2, Aimed(j, {k + 1}, to), st, l, f)
  BY RecCells
<1> QED
  BY <1>1, <1>2, <1>3 DEF Jump

LEMMA RecResolve ==
  \A k, j, st, l, f, slot : Resolve(Rec(k, j, st, l, f), slot) = Rec(k, Aimed(j, {slot}, k), st, l, f)
<1> TAKE k, j, st, l, f, slot
<1>1. Rec(k, j, st, l, f).cells = k
  BY RecFields
<1> QED
  BY <1>1, RecPoint DEF Resolve

Yes == TRUE
HasFailed(c) == \E k, j, st, l : c = Rec(k, j, st, l, Yes)

LEMMA RecPush ==
  \A k, j, st, l, f, v :
    /\ ~ (Len(st) >= CSTACK_MAX) => cpush(Rec(k, j, st, l, f), v) = Rec(k, j, Append(st, v), l, f)
    /\ Len(st) >= CSTACK_MAX => HasFailed(cpush(Rec(k, j, st, l, f), v))
<1> TAKE k, j, st, l, f, v
<1>1. /\ Rec(k, j, st, l, f).cstack = st /\ Rec(k, j, st, l, f).cells = k /\ Rec(k, j, st, l, f).jumps = j
  BY RecFields
<1>2. \A x : [Rec(k, j, st, l, f) EXCEPT !.cstack = x] = Rec(k, j, x, l, f)
  BY DEF Rec
<1>3. HasFailed(error(Rec(k, j, st, l, f)))
  <2>1. error(Rec(k, j, st, l, f)) = Rec(k, j, <<>>, <<>>, TRUE)
    BY <1>1 DEF error, Rec
  <2>2. error(Rec(k, j, st, l, f)) = Rec(k, j, <<>>, <<>>, Yes)
    BY <2>1, Zenon DEF Yes
  <2> QED
    BY <2>2 DEF HasFailed
<1>4. ~ (Len(st) >= CSTACK_MAX) =>
        cpush(Rec(k, j, st, l, f), v) = [Rec(k, j, st, l, f) EXCEPT !.cstack = Append(st, v)]
  BY <1>1 DEF cpush
<1>5. Len(st) >= CSTACK_MAX => cpush(Rec(k, j, st, l, f), v) = error(Rec(k, j, st, l, f))
  BY <1>1 DEF cpush
<1> QED
  BY <1>2, <1>3, <1>4, <1>5

LEMMA RecPop ==
  \A k, j, st, l, f :
    st # <<>> => /\ cpop(Rec(k, j, st, l, f)) = Rec(k, j, Front(st), l, f)
                 /\ Top(Rec(k, j, st, l, f)) = Last(st)
<1> TAKE k, j, st, l, f
<1>1. Rec(k, j, st, l, f).cstack = st
  BY RecFields
<1>2. \A x : [Rec(k, j, st, l, f) EXCEPT !.cstack = x] = Rec(k, j, x, l, f)
  BY DEF Rec
<1>3. st # <<>> => /\ cpop(Rec(k, j, st, l, f)) = [Rec(k, j, st, l, f) EXCEPT !.cstack = Front(st)]
                   /\ Top(Rec(k, j, st, l, f)) = Last(st)
  BY <1>1 DEF cpop, Top
<1> QED
  BY <1>2, <1>3

LEMMA RecLeaves ==
  \A k, j, st, l, f :
    OpenLeaves(Rec(k, j, st, l, f)) = Rec(k, j, st, IF Len(l) < LEAVES_MAX THEN Append(l, 0) ELSE l, f)
<1> TAKE k, j, st, l, f
<1>1. Rec(k, j, st, l, f).leaves = l
  BY RecFields
<1>2. \A x : [Rec(k, j, st, l, f) EXCEPT !.leaves = x] = Rec(k, j, st, x, f)
  BY DEF Rec
<1>3. Len(l) < LEAVES_MAX => OpenLeaves(Rec(k, j, st, l, f)) = [Rec(k, j, st, l, f) EXCEPT !.leaves = Append(l, 0)]
  BY <1>1 DEF OpenLeaves
<1>4. ~ (Len(l) < LEAVES_MAX) => OpenLeaves(Rec(k, j, st, l, f)) = Rec(k, j, st, l, f)
  BY <1>1 DEF OpenLeaves
<1> QED
  BY <1>2, <1>3, <1>4

\* What failed stays so.
LEMMA RecFailed ==
  ASSUME NEW c, HasFailed(c)
  PROVE  /\ c.failed = Yes
         /\ \A v : HasFailed(cpush(c, v)) /\ HasFailed(comma(c, v))
         /\ HasFailed(OpenLeaves(c))
<1>1. ASSUME NEW k, NEW j, NEW st, NEW l, NEW f, c = Rec(k, j, st, l, f)
      PROVE  /\ c.failed = f
             /\ \A v : /\ HasFailed(cpush(c, v)) \/ cpush(c, v) = Rec(k, j, Append(st, v), l, f)
                       /\ comma(c, v) = Rec(k + v, j, st, l, f)
             /\ \E l2 : OpenLeaves(c) = Rec(k, j, st, l2, f)
  BY <1>1, RecFields, RecPush, RecComma, RecLeaves
<1>2. c.failed = Yes
  BY <1>1 DEF HasFailed
<1>3. ASSUME NEW v PROVE HasFailed(cpush(c, v)) /\ HasFailed(comma(c, v))
  BY <1>1 DEF HasFailed
<1>4. HasFailed(OpenLeaves(c))
  BY <1>1 DEF HasFailed
<1> QED
  BY <1>2, <1>3, <1>4

\* The place of the last one of a stack of which something holds.
LEMMA LastPlace ==
  ASSUME NEW n \in Nat, NEW S \in SUBSET (1 .. n), NEW f \in S, \A i \in f + 1 .. n : i \notin S
  PROVE  (CHOOSE i \in S : \A i2 \in S : i2 <= i) = f
<1>1. \A i \in S : i \in 1 .. n
  OBVIOUS
<1>2. \A i \in S : i <= f
  <2> TAKE i \in S
  <2>1. i \in 1 .. n /\ f \in 1 .. n /\ i \notin f + 1 .. n
    BY <1>1
  <2> QED
    BY <2>1
<1>3. \A i \in S : (\A i2 \in S : i2 <= i) => i = f
  <2> TAKE i \in S
  <2>1. i \in 1 .. n /\ f \in 1 .. n /\ i <= f
    BY <1>1, <1>2
  <2> QED
    BY <2>1
<1> QED
  BY <1>2, <1>3

\* The jumps of a loop's LEAVEs, from the last 0.
Left(l, x) == {l[i] : i \in x + 1 .. Len(l)}
Zero(l, x) == x \in 1 .. Len(l) /\ l[x] = 0 /\ \A i \in x + 1 .. Len(l) : l[i] # 0

LEMMA RecResolveLeaves ==
  ASSUME NEW k, NEW j, NEW st, NEW l \in Seq(Nat), NEW f, NEW x, Zero(l, x)
  PROVE  resolve_leaves(Rec(k, j, st, l, f)) = Rec(k, Aimed(j, Left(l, x), k), st, SubSeq(l, 1, x - 1), f)
<1> DEFINE c == Rec(k, j, st, l, f)
           zeros == {i \in DOMAIN c.leaves : c.leaves[i] = 0}
           from  == IF zeros = {} THEN 0 ELSE CHOOSE i \in zeros : \A i2 \in zeros : i2 <= i
           mine  == {c.leaves[i] : i \in from + 1 .. Len(c.leaves)}
           p     == Point(c, mine, c.cells)
<1>1. c.leaves = l /\ c.cells = k
  BY RecFields
<1>5. resolve_leaves(c) = [p EXCEPT !.leaves = SubSeq(p.leaves, 1, from - 1)]
  BY DEF resolve_leaves
<1>2. from = x
  <2>1. zeros = {i \in 1 .. Len(l) : l[i] = 0} /\ Len(l) \in Nat
    BY <1>1
  <2>2. x \in zeros /\ zeros \in SUBSET (1 .. Len(l)) /\ \A i \in x + 1 .. Len(l) : i \notin zeros
    BY <2>1 DEF Zero
  <2> HIDE DEF zeros
  <2>3. (CHOOSE i \in zeros : \A i2 \in zeros : i2 <= i) = x
    BY <2>1, <2>2, LastPlace
  <2>4. zeros # {}
    BY <2>2
  <2> QED
    BY <2>3, <2>4
<1> HIDE DEF from
<1>3. mine = {l[i] : i \in x + 1 .. Len(l)}
  BY <1>1, <1>2
<1> HIDE DEF mine
<1>4. p = Rec(k, Aimed(j, mine, k), st, l, f)
  BY <1>1, RecPoint
<1> HIDE DEF p
<1>6. p.leaves = l
  BY <1>4, RecFields
<1>7. \A y : [Rec(k, Aimed(j, mine, k), st, l, f) EXCEPT !.leaves = y] = Rec(k, Aimed(j, mine, k), st, y, f)
  BY DEF Rec
<1>8. resolve_leaves(c) = Rec(k, Aimed(j, mine, k), st, SubSeq(l, 1, x - 1), f)
  BY <1>2, <1>4, <1>5, <1>6, <1>7
<1> QED
  BY <1>3, <1>8 DEF Left

\* A stack without its top.
LEMMA FrontIs ==
  ASSUME NEW S, NEW s \in Seq(S), NEW n \in Nat, Len(s) = n + 1
  PROVE  /\ s # <<>> /\ Front(s) \in Seq(S) /\ Len(Front(s)) = n
         /\ \A i \in 1 .. n : Front(s)[i] = s[i]
         /\ Last(s) = s[n + 1] /\ Last(s) \in S
<1>1. s # <<>>
  OBVIOUS
<1>2. n = Len(s) - 1 /\ n + 1 \in 1 .. Len(s)
  OBVIOUS
<1>3. \A i \in 1 .. n : s[i] \in S
  OBVIOUS
<1>4. SubSeq(s, 1, n) \in Seq(S) /\ Len(SubSeq(s, 1, n)) = n /\ \A i \in 1 .. n : SubSeq(s, 1, n)[i] = s[i]
  BY <1>3
<1>5. Front(s) = SubSeq(s, 1, n) /\ Last(s) = s[n + 1]
  BY <1>2 DEF Front, Last
<1>6. s[n + 1] \in S
  BY <1>2
<1> QED
  BY <1>1, <1>4, <1>5, <1>6

LEMMA DoneIF ==
  ASSUME NEW k \in Nat, NEW j, NEW st, NEW l, NEW f, NEW c, c = Forward(Rec(k, j, st, l, f))
  PROVE  HasFailed(c) \/ c = Rec(k + 2, Aimed(j, {k + 1}, Unresolved), Append(st, k + 1), l, f)
<1> DEFINE J == Aimed(j, {k + 1}, Unresolved)
<1>1. c = cpush(Rec(k + 2, J, st, l, f), k + 1)
  <2>1. Jump(Rec(k, j, st, l, f), Unresolved) = Rec(k + 2, J, st, l, f)
    BY RecJump
  <2> HIDE DEF J
  <2> QED
    BY <2>1, RecFields DEF Forward
<1> QED
  BY <1>1, RecPush

LEMMA DoneDO ==
  ASSUME NEW k \in Nat, NEW j, NEW st, NEW l, NEW f, Len(l) < LEAVES_MAX, NEW c, c = DO_(Rec(k, j, st, l, f))
  PROVE  HasFailed(c) \/ c = Rec(k + 1, j, Append(st, k + 1), Append(l, 0), f)
<1> DEFINE p == cpush(Rec(k + 1, j, st, l, f), k + 1)
<1>1. c = OpenLeaves(p)
  <2>1. comma(Rec(k, j, st, l, f), 1) = Rec(k + 1, j, st, l, f)
    BY RecCells
  <2>2. Rec(k, j, st, l, f).cells = k
    BY RecFields
  <2> QED
    BY <2>1, <2>2 DEF DO_
<1>2. HasFailed(p) \/ p = Rec(k + 1, j, Append(st, k + 1), l, f)
  BY RecPush
<1> HIDE DEF p
<1> QED
  BY <1>1, <1>2, RecFailed, RecLeaves

LEMMA DoneQDO ==
  ASSUME NEW k \in Nat, NEW j, NEW st, NEW l, NEW f, Len(l) < LEAVES_MAX, NEW c, c = QDO_(Rec(k, j, st, l, f))
  PROVE  \/ HasFailed(c)
         \/ c = Rec(k + 2, Aimed(j, {k + 1}, Unresolved),
                    Append(Append(Append(st, k + 1), k + 2), CS_QDO), Append(l, 0), f)
<1> DEFINE J == Aimed(j, {k + 1}, Unresolved)
           F == Forward(Rec(k, j, st, l, f))
           G == cpush(F, F.cells)
           H == cpush(G, CS_QDO)
<1>1. c = OpenLeaves(H)
  BY DEF QDO_
<1>2. HasFailed(F) \/ F = Rec(k + 2, J, Append(st, k + 1), l, f)
  BY DoneIF
<1> HIDE DEF F, J
<1>3. HasFailed(G) \/ G = Rec(k + 2, J, Append(Append(st, k + 1), k + 2), l, f)
  <2>1. CASE HasFailed(F)
    BY <2>1, RecFailed
  <2>2. CASE F = Rec(k + 2, J, Append(st, k + 1), l, f)
    <3>1. F.cells = k + 2
      BY <2>2, RecFields
    <3> QED
      BY <2>2, <3>1, RecPush
  <2> QED
    BY <1>2, <2>1, <2>2
<1> HIDE DEF G
<1>4. HasFailed(H) \/ H = Rec(k + 2, J, Append(Append(Append(st, k + 1), k + 2), CS_QDO), l, f)
  <2>1. CASE HasFailed(G)
    BY <2>1, RecFailed
  <2>2. CASE G = Rec(k + 2, J, Append(Append(st, k + 1), k + 2), l, f)
    BY <2>2, RecPush
  <2> QED
    BY <1>3, <2>1, <2>2
<1> HIDE DEF H
<1>5. \/ HasFailed(c)
      \/ c = Rec(k + 2, J, Append(Append(Append(st, k + 1), k + 2), CS_QDO), Append(l, 0), f)
  BY <1>1, <1>4, RecFailed, RecLeaves
<1> QED
  BY <1>5 DEF J

-----------------------------------------------------------------------------
(* The words that find something on the control stack.                     *)

No == FALSE

LEMMA RecOpen == \A k, j, st, l : ~ Rec(k, j, st, l, No).failed
<1> TAKE k, j, st, l
<1>1. Rec(k, j, st, l, No).failed = No
  BY RecFields
<1> QED
  BY <1>1, Zenon DEF No

LEMMA DoneELSE ==
  ASSUME NEW k \in Nat, NEW j, NEW st \in Seq(Int), NEW l, st # <<>>, Len(st) <= CSTACK_MAX, CSTACK_MAX \in Nat,
         NEW c, c = ELSE_(Rec(k, j, st, l, No))
  PROVE  c = Rec(k + 2, Aimed(Aimed(j, {k + 1}, Unresolved), {Last(st)}, k + 2), Append(Front(st), k + 1), l, No)
<1> DEFINE r == Rec(k, j, st, l, No)
           p == Rec(k, j, Front(st), l, No)
           J == Aimed(j, {k + 1}, Unresolved)
<1>1. Top(r) = Last(st) /\ cpop(r) = p
  BY RecPop
<1>2. c = Resolve(Forward(p), Last(st))
  <2>1. ~ p.failed
    BY RecOpen
  <2> HIDE DEF p
  <2> QED
    BY <1>1, <2>1 DEF ELSE_
<1>3. ~ (Len(Front(st)) >= CSTACK_MAX)
  <2>1. Len(st) \in Nat /\ Len(st) # 0
    OBVIOUS
  <2>2. Len(st) - 1 \in Nat /\ Len(st) = (Len(st) - 1) + 1
    BY <2>1
  <2>3. Len(Front(st)) = Len(st) - 1
    BY <2>2, FrontIs
  <2> QED
    BY <2>1, <2>3
<1>4. Forward(p) = Rec(k + 2, J, Append(Front(st), k + 1), l, No)
  <2>1. Forward(p) = cpush(Rec(k + 2, J, Front(st), l, No), k + 1)
    <3>1. Jump(p, Unresolved) = Rec(k + 2, J, Front(st), l, No)
      BY RecJump
    <3>2. p.cells = k
      BY RecFields
    <3> HIDE DEF J, p
    <3> QED
      BY <3>1, <3>2 DEF Forward
  <2> HIDE DEF J
  <2> QED
    BY <1>3, <2>1, RecPush
<1> HIDE DEF p, J
<1>5. c = Rec(k + 2, Aimed(J, {Last(st)}, k + 2), Append(Front(st), k + 1), l, No)
  BY <1>2, <1>4, RecResolve
<1> QED
  BY <1>5 DEF J

LEMMA DoneTHEN ==
  ASSUME NEW k \in Nat, NEW j, NEW st \in Seq(Int), NEW l, st # <<>>,
         NEW c, c = THEN_(Rec(k, j, st, l, No))
  PROVE  c = Rec(k, Aimed(j, {Last(st)}, k), Front(st), l, No)
<1> DEFINE r == Rec(k, j, st, l, No)
           p == Rec(k, j, Front(st), l, No)
<1>1. Top(r) = Last(st) /\ cpop(r) = p /\ r.cstack = st
  BY RecPop, RecFields
<1>2. c = Resolve(p, Last(st))
  <2> HIDE DEF p
  <2> QED
    BY <1>1 DEF THEN_
<1> QED
  BY <1>2, RecResolve

LEMMA DoneUNTIL ==
  ASSUME NEW k \in Nat, NEW j, NEW st \in Seq(Int), NEW l, st # <<>>,
         NEW c, c = UNTIL_(Rec(k, j, st, l, No))
  PROVE  c = Rec(k + 2, Aimed(j, {k + 1}, Last(st)), Front(st), l, No)
<1> DEFINE r == Rec(k, j, st, l, No)
           p == Rec(k, j, Front(st), l, No)
<1>1. Top(r) = Last(st) /\ cpop(r) = p /\ r.cstack = st
  BY RecPop, RecFields
<1>2. c = Jump(p, Last(st))
  <2> HIDE DEF p
  <2> QED
    BY <1>1 DEF UNTIL_
<1> QED
  BY <1>2, RecJump

LEMMA DoneREPEAT ==
  ASSUME NEW k \in Nat, NEW j, NEW st \in Seq(Int), NEW l, st # <<>>, Front(st) # <<>>,
         NEW c, c = REPEAT_(Rec(k, j, st, l, No))
  PROVE  c = Rec(k + 2, Aimed(Aimed(j, {k + 1}, Last(Front(st))), {Last(st)}, k + 2), Front(Front(st)), l, No)
<1> DEFINE r == Rec(k, j, st, l, No)
           p == Rec(k, j, Front(st), l, No)
           q == Rec(k, j, Front(Front(st)), l, No)
           J == Aimed(j, {k + 1}, Last(Front(st)))
<1>1. Top(r) = Last(st) /\ cpop(r) = p
  BY RecPop
<1>2. Top(p) = Last(Front(st)) /\ cpop(p) = q
  BY RecPop
<1>3. c = Resolve(Jump(q, Last(Front(st))), Last(st))
  <2>1. ~ p.failed /\ ~ q.failed
    BY RecOpen
  <2> HIDE DEF p, q
  <2> QED
    BY <1>1, <1>2, <2>1 DEF REPEAT_
<1>4. Jump(q, Last(Front(st))) = Rec(k + 2, J, Front(Front(st)), l, No)
  BY RecJump
<1> HIDE DEF J, q
<1>5. c = Rec(k + 2, Aimed(J, {Last(st)}, k + 2), Front(Front(st)), l, No)
  BY <1>3, <1>4, RecResolve
<1> QED
  BY <1>5 DEF J

LEMMA DoneLOOP ==
  ASSUME NEW k \in Nat, NEW j, NEW st \in Seq(Int), NEW l \in Seq(Nat), st # <<>>, Last(st) # CS_QDO,
         NEW x, Zero(l, x), NEW c, c = LOOP_(Rec(k, j, st, l, No))
  PROVE  c = Rec(k + 2, Aimed(Aimed(j, {k + 1}, Last(st)), Left(l, x), k + 2), Front(st), SubSeq(l, 1, x - 1), No)
<1> DEFINE r == Rec(k, j, st, l, No)
           p == Rec(k, j, Front(st), l, No)
           J == Aimed(j, {k + 1}, Last(st))
<1>1. Top(r) = Last(st) /\ cpop(r) = p
  BY RecPop
<1>2. c = resolve_leaves(Jump(p, Last(st)))
  <2>1. ~ p.failed
    BY RecOpen
  <2> HIDE DEF p
  <2> QED
    BY <1>1, <2>1 DEF LOOP_
<1>3. Jump(p, Last(st)) = Rec(k + 2, J, Front(st), l, No)
  BY RecJump
<1> HIDE DEF J, p
<1>4. c = Rec(k + 2, Aimed(J, Left(l, x), k + 2), Front(st), SubSeq(l, 1, x - 1), No)
  BY <1>2, <1>3, RecResolveLeaves
<1> QED
  BY <1>4 DEF J

\* What LOOP makes of what ?DO left.
ThreeFound(st) == st # <<>> /\ Last(st) = CS_QDO /\ Front(st) # <<>> /\ Front(Front(st)) # <<>>
QLooped(k, j, st, l, x) ==
  Rec(k + 2,
      Aimed(Aimed(Aimed(j, {k + 1}, Last(Front(st))), {Last(Front(Front(st)))}, k + 2), Left(l, x), k + 2),
      Front(Front(Front(st))), SubSeq(l, 1, x - 1), No)

LEMMA DoneQLOOP ==
  ASSUME NEW k \in Nat, NEW j, NEW st \in Seq(Int), NEW l \in Seq(Nat), ThreeFound(st),
         NEW x, Zero(l, x), NEW c, c = LOOP_(Rec(k, j, st, l, No))
  PROVE  c = QLooped(k, j, st, l, x)
<1>0. st # <<>> /\ Last(st) = CS_QDO /\ Front(st) # <<>> /\ Front(Front(st)) # <<>>
  BY DEF ThreeFound
<1> DEFINE r == Rec(k, j, st, l, No)
           s1 == Front(st)
           s2 == Front(s1)
           s3 == Front(s2)
           p == Rec(k, j, s1, l, No)
           q == Rec(k, j, s2, l, No)
           o == Rec(k, j, s3, l, No)
           J == Aimed(j, {k + 1}, Last(s1))
           K == Aimed(J, {Last(s2)}, k + 2)
<1>1. Top(r) = Last(st) /\ cpop(r) = p
  BY <1>0, RecPop
<1>2. Top(p) = Last(s1) /\ cpop(p) = q
  <2> HIDE DEF s1
  <2> QED
    BY <1>0, RecPop DEF s1
<1>3. Top(q) = Last(s2) /\ cpop(q) = o
  <2> HIDE DEF s2
  <2> QED
    BY <1>0, RecPop DEF s1, s2
<1>4. c = resolve_leaves(Resolve(Jump(o, Last(s1)), Last(s2)))
  <2>1. ~ p.failed
    BY RecOpen
  <2> HIDE DEF p, q, o, s1, s2, s3
  <2> QED
    BY <1>0, <1>1, <1>2, <1>3, <2>1 DEF LOOP_
<1>5. Jump(o, Last(s1)) = Rec(k + 2, J, s3, l, No)
  <2> HIDE DEF s1, s3
  <2> QED
    BY RecJump
<1> HIDE DEF J, o, s1, s2, s3
<1>6. Resolve(Jump(o, Last(s1)), Last(s2)) = Rec(k + 2, K, s3, l, No)
  BY <1>5, RecResolve
<1> HIDE DEF K
<1>8. c = Rec(k + 2, Aimed(K, Left(l, x), k + 2), s3, SubSeq(l, 1, x - 1), No)
  BY <1>4, <1>6, RecResolveLeaves
<1> QED
  BY <1>8, Zenon DEF J, K, s1, s2, s3, QLooped

LEMMA DoneLEAVE ==
  ASSUME NEW k \in Nat, NEW j, NEW st, NEW l, NEW c, c = LEAVE_(Rec(k, j, st, l, No))
  PROVE  HasFailed(c) \/ c = Rec(k + 2, Aimed(j, {k + 1}, Unresolved), st, Append(l, k + 1), No)
<1> DEFINE r == Rec(k, j, st, l, No)
           J == Aimed(j, {k + 1}, Unresolved)
           p == Jump(r, Unresolved)
<1>1. r.leaves = l /\ r.cells = k /\ r.jumps = j
  BY RecFields
<1>2. HasFailed(error(r))
  <2>1. error(r) = Rec(k, j, <<>>, <<>>, TRUE)
    BY <1>1 DEF error, Rec
  <2>2. error(r) = Rec(k, j, <<>>, <<>>, Yes)
    BY <2>1, Zenon DEF Yes
  <2> QED
    BY <2>2 DEF HasFailed
<1> HIDE DEF r
<1>3. c = error(r) \/ c = [p EXCEPT !.leaves = Append(p.leaves, k + 1)]
  BY <1>1 DEF LEAVE_, r
<1>4. p = Rec(k + 2, J, st, l, No)
  BY RecJump DEF r
<1> HIDE DEF p
<1>5. p.leaves = l
  BY <1>4, RecFields
<1>6. \A y : [Rec(k + 2, J, st, l, No) EXCEPT !.leaves = y] = Rec(k + 2, J, st, y, No)
  BY DEF Rec
<1> QED
  BY <1>2, <1>3, <1>4, <1>5, <1>6

LEMMA DoneOF ==
  ASSUME NEW k \in Nat, NEW j, NEW st, NEW l, NEW c, c = OF_(Rec(k, j, st, l, No))
  PROVE  HasFailed(c) \/ c = Rec(k + 5, Aimed(j, {k + 3}, Unresolved), Append(st, k + 3), l, No)
<1> DEFINE m == k + 2
           F == Forward(Rec(m, j, st, l, No))
<1>3. m \in Nat /\ m + 1 = k + 3 /\ m + 2 \in Nat /\ (m + 2) + 1 = k + 5
  OBVIOUS
<1>1. c = comma(F, 1)
  BY RecCells DEF OF_
<1> HIDE DEF m
<1>2. HasFailed(F) \/ F = Rec(m + 2, Aimed(j, {m + 1}, Unresolved), Append(st, m + 1), l, No)
  BY <1>3, DoneIF
<1> HIDE DEF F
<1>4. CASE HasFailed(F)
  BY <1>1, <1>4, RecFailed
<1>5. CASE F = Rec(m + 2, Aimed(j, {m + 1}, Unresolved), Append(st, m + 1), l, No)
  <2>1. c = Rec((m + 2) + 1, Aimed(j, {m + 1}, Unresolved), Append(st, m + 1), l, No)
    BY <1>1, <1>3, <1>5, RecCells
  <2> QED
    BY <1>3, <2>1
<1> QED
  BY <1>2, <1>4, <1>5

LEMMA DoneENDOF ==
  ASSUME NEW k \in Nat, NEW j, NEW st \in Seq(Int), NEW l, st # <<>>, Len(st) <= CSTACK_MAX, CSTACK_MAX \in Nat,
         NEW c, c = ENDOF_(Rec(k, j, st, l, No))
  PROVE  c = Rec(k + 2, Aimed(Aimed(j, {k + 1}, Unresolved), {Last(st)}, k + 2), Append(Front(st), k + 1), l, No)
<1> DEFINE r == Rec(k, j, st, l, No)
           p == Rec(k, j, Front(st), l, No)
           J == Aimed(j, {k + 1}, Unresolved)
           K == Aimed(J, {Last(st)}, k + 2)
<1>1. Top(r) = Last(st) /\ cpop(r) = p
  BY RecPop
<1>2. c = cpush(Resolve(Jump(p, Unresolved), Last(st)), k + 1)
  <2>1. ~ p.failed /\ p.cells = k
    BY RecOpen, RecFields
  <2> HIDE DEF p
  <2> QED
    BY <1>1, <2>1 DEF ENDOF_
<1>3. ~ (Len(Front(st)) >= CSTACK_MAX)
  <2>1. Len(st) \in Nat /\ Len(st) # 0
    OBVIOUS
  <2>2. Len(st) - 1 \in Nat /\ Len(st) = (Len(st) - 1) + 1
    BY <2>1
  <2>3. Len(Front(st)) = Len(st) - 1
    BY <2>2, FrontIs
  <2> QED
    BY <2>1, <2>3
<1>4. Jump(p, Unresolved) = Rec(k + 2, J, Front(st), l, No)
  BY RecJump
<1> HIDE DEF p, J
<1>5. Resolve(Jump(p, Unresolved), Last(st)) = Rec(k + 2, K, Front(st), l, No)
  BY <1>4, RecResolve
<1> HIDE DEF K
<1>6. c = Rec(k + 2, K, Append(Front(st), k + 1), l, No)
  BY <1>2, <1>3, <1>5, RecPush
<1> QED
  BY <1>6 DEF J, K

LastCase(st, x) == x \in 1 .. Len(st) /\ st[x] = CS_CASE /\ \A i \in x + 1 .. Len(st) : st[i] # CS_CASE

LEMMA DoneENDCASE ==
  ASSUME NEW k \in Nat, NEW j, NEW st \in Seq(Int), NEW l, NEW x, LastCase(st, x),
         NEW c, c = ENDCASE_(Rec(k, j, st, l, No))
  PROVE  c = Rec(k + 1, Aimed(j, Left(st, x), k + 1), SubSeq(st, 1, x - 1), l, No)
<1> DEFINE r     == Rec(k, j, st, l, No)
           found == {i \in DOMAIN r.cstack : r.cstack[i] = CS_CASE}
           from  == CHOOSE i \in found : \A i2 \in found : i2 <= i
           exits == {r.cstack[i] : i \in from + 1 .. Len(r.cstack)}
           end   == comma(r, 1)
           p     == Point(end, exits, end.cells)
<1>1. r.cstack = st
  BY RecFields
<1>2. found # {} => c = [p EXCEPT !.cstack = SubSeq(p.cstack, 1, from - 1)]
  BY DEF ENDCASE_
<1>3. found # {} /\ from = x
  <2>1. found = {i \in 1 .. Len(st) : st[i] = CS_CASE} /\ Len(st) \in Nat
    BY <1>1
  <2>2. x \in found /\ found \in SUBSET (1 .. Len(st)) /\ \A i \in x + 1 .. Len(st) : i \notin found
    BY <2>1 DEF LastCase
  <2> HIDE DEF found
  <2> QED
    BY <2>1, <2>2, LastPlace
<1> HIDE DEF from, found
<1>4. exits = {st[i] : i \in x + 1 .. Len(st)}
  BY <1>1, <1>3
<1> HIDE DEF exits
<1>5. end = Rec(k + 1, j, st, l, No)
  BY RecCells
<1> HIDE DEF end
<1>6. end.cells = k + 1
  BY <1>5, RecFields
<1>7. p = Rec(k + 1, Aimed(j, exits, k + 1), st, l, No)
  BY <1>5, <1>6, RecPoint
<1> HIDE DEF p
<1>8. p.cstack = st
  BY <1>7, RecFields
<1>9. \A y : [Rec(k + 1, Aimed(j, exits, k + 1), st, l, No) EXCEPT !.cstack = y] = Rec(k + 1, Aimed(j, exits, k + 1), y, l, No)
  BY DEF Rec
<1>10. c = Rec(k + 1, Aimed(j, exits, k + 1), SubSeq(st, 1, x - 1), l, No)
  BY <1>2, <1>3, <1>7, <1>8, <1>9
<1> QED
  BY <1>4, <1>10 DEF Left

-----------------------------------------------------------------------------
(* The jumps of the next word, as what it makes of them.                   *)

LEMMA AimedIs ==
  \A j, S, to :
    /\ DOMAIN Aimed(j, S, to) = S \cup DOMAIN j
    /\ \A x \in S : Aimed(j, S, to)[x] = to
    /\ \A x \in DOMAIN j \ S : Aimed(j, S, to)[x] = j[x]
BY DEF Aimed

Fun(k) == k = [x \in DOMAIN k |-> k[x]]

LEMMA AimedFun == \A j, S, to : Fun(Aimed(j, S, to))
BY DEF Aimed, Fun

LEMMA AimedTwice ==
  ASSUME NEW j, NEW S, NEW T, NEW to
  PROVE  Aimed(Aimed(j, S, to), T, to) = Aimed(j, T \cup S, to)
<1> DEFINE k == Aimed(j, S, to)
<1>1. DOMAIN k = S \cup DOMAIN j
  BY AimedIs
<1>4. \A x \in S : k[x] = to
  BY AimedIs
<1>5. \A x \in DOMAIN j \ S : k[x] = j[x]
  BY AimedIs
<1> HIDE DEF k
<1>2. Aimed(k, T, to) = [x \in (T \cup S) \cup DOMAIN j |-> IF x \in T THEN to ELSE k[x]]
  <2>1. T \cup DOMAIN k = (T \cup S) \cup DOMAIN j
    BY <1>1
  <2> QED
    BY <2>1 DEF Aimed
<1>3. \A x \in (T \cup S) \cup DOMAIN j :
        (IF x \in T THEN to ELSE k[x]) = IF x \in T \cup S THEN to ELSE j[x]
  BY <1>4, <1>5
<1> QED
  BY <1>2, <1>3 DEF Aimed, k

LEMMA NewCell ==
  ASSUME NEW s, NEW w, NEW t, More(s, w, t), w \in Forwards \cup Backs, NEW j, Jumps(s, j)
  PROVE  Cell(t, Len(t)) \notin DOMAIN j
<1>1. /\ Len(s) \in Nat /\ Len(t) = Len(s) + 1 /\ Len(t) \in Nat /\ Len(t) \in Jumping(t)
      /\ \A p \in Jumping(s) : p \in Jumping(t) /\ p # Len(t)
  BY MoreFacts, MoreJumping DEF Jumping
<1>2. \A p \in Jumping(s) : Cell(t, p) = Cell(s, p)
  BY NextCells DEF Jumping
<1>3. \A p \in Jumping(s) : Cell(s, p) # Cell(t, Len(t))
  BY <1>1, <1>2, CellsApart
<1> QED
  BY <1>3 DEF Jumps, CellsOf

LEMMA AimsOnly ==
  ASSUME NEW s, NEW w, NEW t, More(s, w, t), Fitting(s), Fitting(t), NEW j, Jumps(s, j),
         w \notin Forwards, w \notin Backs,
         NEW k, k = Aimed(j, CellsOf(s, ResolvedBy(s, w)), Past(t, Len(t)))
  PROVE  Jumps(t, k) /\ Fun(k)
<1>1. CellsOf(s, ResolvedBy(s, w)) \subseteq DOMAIN j
  <2>1. \A p \in ResolvedBy(s, w) : p \in Jumping(s)
    BY ResolvedWaits
  <2> QED
    BY <2>1 DEF Jumps, CellsOf
<1>2. \A p \in ResolvedBy(s, w) : Cell(s, p) \in CellsOf(s, ResolvedBy(s, w))
  BY DEF CellsOf
<1>5. /\ DOMAIN k = CellsOf(s, ResolvedBy(s, w)) \cup DOMAIN j
      /\ \A x \in CellsOf(s, ResolvedBy(s, w)) : k[x] = Past(t, Len(t))
      /\ \A x \in DOMAIN j \ CellsOf(s, ResolvedBy(s, w)) : k[x] = j[x]
  <2>1. DOMAIN k = CellsOf(s, ResolvedBy(s, w)) \cup DOMAIN j
    BY AimedIs
  <2>2. \A x \in CellsOf(s, ResolvedBy(s, w)) : k[x] = Past(t, Len(t))
    BY AimedIs
  <2>3. \A x \in DOMAIN j \ CellsOf(s, ResolvedBy(s, w)) : k[x] = j[x]
    BY AimedIs
  <2> QED
    BY <2>1, <2>2, <2>3
<1>3. ResolvesAll(s, w, t, j, k)
  BY <1>1, <1>2, <1>5 DEF ResolvesAll
<1>4. Fun(k)
  BY AimedFun
<1> QED
  BY <1>3, <1>4, JumpsStep

LEMMA AimsBoth ==
  ASSUME NEW s, NEW w, NEW t, More(s, w, t), Fitting(s), Fitting(t), NEW j, Jumps(s, j),
         w \in Forwards \cup Backs,
         NEW v, w \in Backs => v = Past(s, Inner(s, Len(s))),
         NEW k, k = Aimed(Aimed(j, {Cell(t, Len(t))}, v), CellsOf(s, ResolvedBy(s, w)), Past(t, Len(t)))
  PROVE  Jumps(t, k) /\ Fun(k)
<1> DEFINE own == Cell(t, Len(t))
           m   == Aimed(j, {own}, v)
           C   == CellsOf(s, ResolvedBy(s, w))
<1>1. C \subseteq DOMAIN j
  <2>1. \A p \in ResolvedBy(s, w) : p \in Jumping(s)
    BY ResolvedWaits
  <2> QED
    BY <2>1 DEF Jumps, CellsOf
<1>2. \A p \in ResolvedBy(s, w) : Cell(s, p) \in C
  BY DEF CellsOf
<1>3. own \notin DOMAIN j
  BY NewCell
<1>4. DOMAIN m = {own} \cup DOMAIN j /\ m[own] = v /\ \A x \in DOMAIN j : x # own => m[x] = j[x]
  <2> HIDE DEF own
  <2>1. DOMAIN m = {own} \cup DOMAIN j
    BY AimedIs
  <2>2. \A x \in {own} : m[x] = v
    BY AimedIs
  <2>3. \A x \in DOMAIN j \ {own} : m[x] = j[x]
    BY AimedIs
  <2> HIDE DEF m
  <2> QED
    BY <2>1, <2>2, <2>3
<1>5. k = Aimed(m, C, Past(t, Len(t)))
  OBVIOUS
<1> HIDE DEF m, C
<1>6. /\ DOMAIN k = C \cup DOMAIN m /\ Fun(k)
      /\ \A x \in C : k[x] = Past(t, Len(t))
      /\ \A x \in DOMAIN m \ C : k[x] = m[x]
  <2>1. DOMAIN k = C \cup DOMAIN m
    BY <1>5, AimedIs
  <2>2. \A x \in C : k[x] = Past(t, Len(t))
    BY <1>5, AimedIs
  <2>3. \A x \in DOMAIN m \ C : k[x] = m[x]
    BY <1>5, AimedIs
  <2>4. Fun(k)
    BY <1>5, AimedFun
  <2> QED
    BY <2>1, <2>2, <2>3, <2>4
<1>7. own \notin C /\ own \in DOMAIN m
  BY <1>1, <1>3, <1>4
<1>8. /\ DOMAIN k = DOMAIN j \cup {own}
      /\ \A p \in ResolvedBy(s, w) : k[Cell(s, p)] = Past(t, Len(t))
      /\ \A x \in DOMAIN j \ C : k[x] = j[x]
      /\ k[own] = v
  BY <1>1, <1>2, <1>3, <1>4, <1>6, <1>7
<1>9. ResolvesAll(s, w, t, j, k)
  BY <1>8, Zenon DEF ResolvesAll, own, C
<1> QED
  BY <1>6, <1>9, JumpsStep

\* A word that resolves nothing.
LEMMA AimsNone ==
  ASSUME NEW s, NEW w, NEW t, More(s, w, t), Fitting(s), Fitting(t), NEW j, Jumps(s, j),
         Fun(j), ResolvedBy(s, w) = {},
         NEW v, w \in Backs => v = Past(s, Inner(s, Len(s)))
  PROVE  /\ w \notin Forwards /\ w \notin Backs => Jumps(t, j)
         /\ w \in Forwards \cup Backs =>
              \A k : k = Aimed(j, {Cell(t, Len(t))}, v) => Jumps(t, k) /\ Fun(k)
<1>1. CellsOf(s, ResolvedBy(s, w)) = {}
  BY DEF CellsOf
<1>2. \A m : Fun(m) => Aimed(m, {}, Past(t, Len(t))) = m
  <2> TAKE m
  <2> HAVE Fun(m)
  <2>1. Aimed(m, {}, Past(t, Len(t))) = [x \in DOMAIN m |-> m[x]]
    BY DEF Aimed
  <2> QED
    BY <2>1 DEF Fun
<1>3. Aimed(j, CellsOf(s, ResolvedBy(s, w)), Past(t, Len(t))) = j
  BY <1>1, <1>2
<1>4. ASSUME NEW k, k = Aimed(j, {Cell(t, Len(t))}, v)
      PROVE  Aimed(Aimed(j, {Cell(t, Len(t))}, v), CellsOf(s, ResolvedBy(s, w)), Past(t, Len(t))) = k
  <2>1. Fun(k)
    BY <1>4, AimedFun
  <2> QED
    BY <1>1, <1>2, <1>4, <2>1
<1>5. w \notin Forwards /\ w \notin Backs => Jumps(t, j)
  BY <1>3, AimsOnly
<1>6. ASSUME w \in Forwards \cup Backs, NEW k, k = Aimed(j, {Cell(t, Len(t))}, v)
      PROVE  Jumps(t, k) /\ Fun(k)
  <2>1. k = Aimed(Aimed(j, {Cell(t, Len(t))}, v), CellsOf(s, ResolvedBy(s, w)), Past(t, Len(t)))
    BY <1>4, <1>6
  <2> QED
    BY <1>6, <2>1, AimsBoth
<1> QED
  BY <1>5, <1>6

-----------------------------------------------------------------------------
(* The frames after the next word.                                         *)

LEMMA TopFrame ==
  ASSUME NEW s \in Seq(AllWords), OpenAfter(s)[Len(s)] # <<>>,
         NEW st, NEW lv, NEW at, NEW lat, Frames(s, st, lv, at, lat),
         NEW d, d = Len(OpenAfter(s)[Len(s)])
  PROVE  /\ d \in Nat \ {0} /\ OpenAfter(s)[Len(s)][d] = Inner(s, Len(s))
         /\ Inner(s, Len(s)) \in 1 .. Len(s)
         /\ at[d] \in Nat /\ lat[d] \in Nat /\ Len(st) \in Nat /\ Len(lv) \in Nat
         /\ at[d] <= Len(st) /\ lat[d] <= Len(lv)
         /\ Frame(s, st, lv, Inner(s, Len(s)), at[d], Len(st), lat[d], Len(lv))
<1>1. Len(s) \in Nat /\ Len(s) \in 0 .. Len(s)
  OBVIOUS
<1>2. d \in Nat \ {0} /\ OpenAfter(s)[Len(s)][d] = Inner(s, Len(s))
  BY <1>1, OpenLen
<1>3. Inner(s, Len(s)) \in 1 .. Len(s)
  BY <1>1, InnerFacts DEF InnerIs
<1>4. d \in 1 .. d /\ d \in 1 .. d + 1 /\ d + 1 \in 1 .. d + 1 /\ d + 1 \in d .. d + 1
  BY <1>2
<1>5. /\ at \in [1 .. d + 1 -> Nat] /\ lat \in [1 .. d + 1 -> Nat]
      /\ at[d + 1] = Len(st) /\ lat[d + 1] = Len(lv)
      /\ \A i \in 1 .. d + 1 : \A j \in i .. d + 1 : at[i] <= at[j] /\ lat[i] <= lat[j]
      /\ \A i \in 1 .. d : Frame(s, st, lv, OpenAfter(s)[Len(s)][i], at[i], at[i + 1], lat[i], lat[i + 1])
  BY DEF Frames
<1>6. at[d] \in Nat /\ lat[d] \in Nat /\ at[d + 1] \in Nat /\ lat[d + 1] \in Nat
  BY <1>4, <1>5
<1>7. at[d] <= at[d + 1] /\ lat[d] <= lat[d + 1]
  BY <1>4, <1>5
<1>8. Frame(s, st, lv, Inner(s, Len(s)), at[d], at[d + 1], lat[d], lat[d + 1])
  BY <1>2, <1>4, <1>5
<1> QED
  BY <1>2, <1>3, <1>5, <1>6, <1>7, <1>8

LEMMA TurnOpens ==
  ASSUME NEW s, Len(s) \in Nat, NEW i \in 1 .. Len(s), NEW old, NEW new, old = OpenAfter(s)[i - 1], new = OpenAfter(s)[i],
         s[i] \in Openers
  PROVE  Len(new) = Len(old) + 1 /\ new[Len(new)] = i /\ \A k \in 1 .. Len(old) : new[k] = old[k]
<1>1. OneOpens(i, old, new)
  BY TurnCases
<1> QED
  BY <1>1 DEF OneOpens

LEMMA TurnCloses ==
  ASSUME NEW s, Len(s) \in Nat, NEW i \in 1 .. Len(s), NEW old, NEW new, old = OpenAfter(s)[i - 1], new = OpenAfter(s)[i],
         s[i] \in Closers, old # <<>>
  PROVE  Len(new) = Len(old) - 1 /\ \A k \in 1 .. Len(new) : new[k] = old[k]
<1>1. s[i] \notin Openers
  BY OpenerCloser
<1>2. s[i] \notin Openers /\ s[i] \in Closers /\ old # <<>> =>
        Len(new) = Len(old) - 1 /\ \A k \in 1 .. Len(new) : new[k] = old[k]
  <2>1. s[i] \notin Openers /\ s[i] \in Closers /\ old # <<>> => OneCloses(old, new)
    BY TurnCases
  <2> QED
    BY <2>1 DEF OneCloses
<1> QED
  BY <1>1, <1>2

LEMMA TurnStays ==
  ASSUME NEW s, Len(s) \in Nat, NEW i \in 1 .. Len(s), NEW old, NEW new, old = OpenAfter(s)[i - 1], new = OpenAfter(s)[i],
         s[i] \notin Openers, s[i] \notin Closers
  PROVE  new = old
BY TurnCases

\* What is open after the next word.
LEMMA NextOpen ==
  ASSUME NEW s, NEW w, NEW t, More(s, w, t), NEW d, d = Len(OpenAfter(s)[Len(s)]),
         NEW e, e = Len(OpenAfter(t)[Len(t)])
  PROVE  /\ d \in Nat /\ e \in Nat
         /\ w \in Openers => e = d + 1 /\ Inner(t, Len(t)) = Len(s) + 1
         /\ w \in Closers /\ d # 0 => e = d - 1
         /\ w \notin Openers /\ w \notin Closers => e = d /\ Inner(t, Len(t)) = Inner(s, Len(s))
         /\ \A i \in 1 .. d : i <= e => OpenAfter(t)[Len(t)][i] = OpenAfter(s)[Len(s)][i]
<1> DEFINE old == OpenAfter(t)[Len(s)]
           new == OpenAfter(t)[Len(t)]
<1>1. /\ Len(s) \in Nat /\ Len(t) \in Nat /\ Len(t) = Len(s) + 1 /\ t[Len(t)] = w
      /\ Len(t) \in 1 .. Len(t) /\ Len(t) - 1 = Len(s) /\ Len(s) \in 0 .. Len(s) /\ Len(s) \in 0 .. Len(t)
      /\ Len(t) \in 0 .. Len(t)
  BY MoreFacts
<1>2. old = OpenAfter(s)[Len(s)]
  BY <1>1, GrownOpen
<1>3. /\ d \in Nat /\ e \in Nat /\ (old = <<>> <=> d = 0)
      /\ Inner(s, Len(s)) = old[d] /\ Inner(t, Len(t)) = new[e]
  BY <1>1, <1>2, OpenLen
<1>4. old = OpenAfter(t)[Len(t) - 1]
  BY <1>1
<1> HIDE DEF old, new
<1>5. /\ w \in Openers => e = d + 1 /\ new[e] = Len(t) /\ \A k \in 1 .. d : new[k] = old[k]
      /\ w \notin Openers /\ w \in Closers /\ old # <<>> =>
           e = d - 1 /\ \A k \in 1 .. e : new[k] = old[k]
      /\ w \notin Openers /\ w \notin Closers => new = old
  <2>1. e = Len(new) /\ d = Len(old) /\ new = OpenAfter(t)[Len(t)]
    BY <1>2 DEF new
  <2>2. /\ t[Len(t)] \in Openers =>
             /\ Len(new) = Len(old) + 1 /\ new[Len(new)] = Len(t)
             /\ \A k \in 1 .. Len(old) : new[k] = old[k]
        /\ t[Len(t)] \notin Openers /\ t[Len(t)] \in Closers /\ old # <<>> =>
             /\ Len(new) = Len(old) - 1
             /\ \A k \in 1 .. Len(new) : new[k] = old[k]
        /\ t[Len(t)] \notin Openers /\ t[Len(t)] \notin Closers => new = old
    <3>1. old = OpenAfter(t)[Len(t) - 1] /\ new = OpenAfter(t)[Len(t)]
      BY <1>4, <2>1
    <3>2. t[Len(t)] \in Openers => Len(new) = Len(old) + 1 /\ new[Len(new)] = Len(t) /\ \A k \in 1 .. Len(old) : new[k] = old[k]
      BY <1>1, <3>1, TurnOpens, SMTT(20)
    <3>3. t[Len(t)] \in Closers /\ old # <<>> => Len(new) = Len(old) - 1 /\ \A k \in 1 .. Len(new) : new[k] = old[k]
      BY <1>1, <3>1, TurnCloses, SMTT(20)
    <3>4. t[Len(t)] \notin Openers /\ t[Len(t)] \notin Closers => new = old
      BY <1>1, <3>1, TurnStays
    <3> QED
      BY <3>2, <3>3, <3>4
  <2> QED
    BY <1>1, <2>1, <2>2
<1>6. w \in Closers => w \notin Openers
  BY OpenerCloser
<1>7. w \notin Openers /\ w \notin Closers => e = d
  BY <1>2, <1>5 DEF new
<1>8. \A i \in 1 .. d : i <= e => new[i] = old[i]
  <2>1. CASE w \in Openers
    BY <1>5, <2>1
  <2>2. CASE w \notin Openers /\ w \in Closers /\ old # <<>>
    <3>1. \A i \in 1 .. d : i <= e => i \in 1 .. e
      BY <1>3
    <3> QED
      BY <1>5, <2>2, <3>1
  <2>3. CASE w \notin Openers /\ w \notin Closers
    BY <1>5, <2>3
  <2>4. CASE old = <<>>
    BY <1>3, <2>4
  <2> QED
    BY <2>1, <2>2, <2>3, <2>4
<1>9. \A i \in 1 .. d : i <= e => OpenAfter(t)[Len(t)][i] = OpenAfter(s)[Len(s)][i]
  BY <1>2, <1>8 DEF new
<1> QED
  BY <1>1, <1>3, <1>5, <1>6, <1>7, <1>9

\* What is kept of a stack.
SameTo(f, g, n) == Len(g) \in Nat /\ \A i \in 1 .. n : g[i] = f[i]

\* A closing word takes the innermost frame away.
LEMMA FramePopped ==
  ASSUME NEW s, NEW w, NEW t, More(s, w, t), Fitting(s), Fitting(t), w \in Closers, w \notin Forwards,
         NEW st, NEW lv, NEW at, NEW lat, Frames(s, st, lv, at, lat),
         NEW d, d = Len(OpenAfter(s)[Len(s)]), d # 0,
         NEW st2, NEW lv2, SameTo(st, st2, at[d]), SameTo(lv, lv2, lat[d]),
         Len(st2) = at[d], Len(lv2) = lat[d]
  PROVE  Framed(t, st2, lv2)
<1>1. /\ d \in Nat /\ Len(OpenAfter(t)[Len(t)]) = d - 1
      /\ \A i \in 1 .. d - 1 : OpenAfter(t)[Len(t)][i] = OpenAfter(s)[Len(s)][i]
  <2>1. PICK e : e = Len(OpenAfter(t)[Len(t)])
    OBVIOUS
  <2>2. /\ d \in Nat /\ e \in Nat /\ e = d - 1
        /\ \A i \in 1 .. d : i <= e => OpenAfter(t)[Len(t)][i] = OpenAfter(s)[Len(s)][i]
    <3>1. d \in Nat /\ e \in Nat /\ \A i \in 1 .. d : i <= e => OpenAfter(t)[Len(t)][i] = OpenAfter(s)[Len(s)][i]
      BY <2>1, NextOpen
    <3>2. w \in Closers /\ d # 0 => e = d - 1
      BY <2>1, NextOpen
    <3> QED
      BY <3>1, <3>2
  <2>3. \A i \in 1 .. d - 1 : i \in 1 .. d /\ i <= e
    BY <2>2
  <2> QED
    BY <2>1, <2>2, <2>3
<1>2. d - 1 \in Nat /\ d - 1 \in 0 .. d /\ (d - 1) + 1 = d
  BY <1>1
<1>3. Keeps(s, w, t, st, st2, lv, lv2, at, lat, d - 1)
  BY <1>1, <1>2 DEF Keeps, SameTo
<1> QED
  BY <1>1, <1>2, <1>3, FramesLeft

\* An opening word adds one.
LEMMA FramePushed ==
  ASSUME NEW s, NEW w, NEW t, More(s, w, t), Fitting(s), Fitting(t), w \in Openers,
         NEW st \in Seq(Int), NEW lv \in Seq(Nat), Framed(s, st, lv),
         NEW st2, NEW lv2, SameTo(st, st2, Len(st)), SameTo(lv, lv2, Len(lv)),
         Len(st) <= Len(st2), Len(lv) <= Len(lv2),
         Frame(t, st2, lv2, Len(s) + 1, Len(st), Len(st2), Len(lv), Len(lv2))
  PROVE  Framed(t, st2, lv2)
<1> PICK at, lat : Frames(s, st, lv, at, lat)
  BY DEF Framed
<1> PICK d : d = Len(OpenAfter(s)[Len(s)])
  OBVIOUS
<1>1. /\ d \in Nat /\ Len(OpenAfter(t)[Len(t)]) = d + 1 /\ Inner(t, Len(t)) = Len(s) + 1
      /\ \A i \in 1 .. d : OpenAfter(t)[Len(t)][i] = OpenAfter(s)[Len(s)][i]
  <2>1. PICK e : e = Len(OpenAfter(t)[Len(t)])
    OBVIOUS
  <2>2. /\ d \in Nat /\ e \in Nat /\ e = d + 1 /\ Inner(t, Len(t)) = Len(s) + 1
        /\ \A i \in 1 .. d : i <= e => OpenAfter(t)[Len(t)][i] = OpenAfter(s)[Len(s)][i]
    BY <2>1, NextOpen
  <2>3. \A i \in 1 .. d : i <= e
    BY <2>2
  <2> QED
    BY <2>1, <2>2, <2>3
<1>2. at[d + 1] = Len(st) /\ lat[d + 1] = Len(lv)
  BY DEF Frames
<1>3. d \in 0 .. d /\ d <= d + 1
  BY <1>1
<1>4. w \in Forwards => \A i \in 1 .. d : WaitsFor(t, Len(s) + 1) # OpenAfter(s)[Len(s)][i]
  <2>1. w \in Forwards => w \in {"IF", "OF", "?DO"}
    BY DEF Forwards, Openers
  <2>2. w \in Forwards => WaitsFor(t, Len(s) + 1) = Len(s) + 1
    BY <2>1, NextWaits
  <2>3. Len(s) \in Nat /\ Len(s) \in 0 .. Len(s)
    BY MoreFacts
  <2>4. \A i \in 1 .. d : OpenAfter(s)[Len(s)][i] \in 1 .. Len(s)
    BY <2>3, StructuresNest DEF Nest
  <2>5. \A i \in 1 .. d : OpenAfter(s)[Len(s)][i] # Len(s) + 1
    BY <2>3, <2>4
  <2> QED
    BY <2>2, <2>5
<1>5. Keeps(s, w, t, st, st2, lv, lv2, at, lat, d)
  BY <1>1, <1>2, <1>3, <1>4 DEF Keeps, SameTo
<1> QED
  BY <1>1, <1>2, <1>5, FrameOnTop

\* ELSE and WHILE change the innermost.
LEMMA FrameChanged ==
  ASSUME NEW s, NEW w, NEW t, More(s, w, t), Fitting(s), Fitting(t), w \in {"ELSE", "WHILE"},
         NEW st, NEW lv, NEW at, NEW lat, Frames(s, st, lv, at, lat),
         NEW d, d = Len(OpenAfter(s)[Len(s)]), d # 0,
         NEW st2, NEW lv2, SameTo(st, st2, at[d]), SameTo(lv, lv2, lat[d]),
         at[d] <= Len(st2), lat[d] <= Len(lv2),
         Frame(t, st2, lv2, Inner(s, Len(s)), at[d], Len(st2), lat[d], Len(lv2))
  PROVE  Framed(t, st2, lv2)
<1>0. w \notin Openers /\ w \notin Closers /\ w \in Forwards
  BY DEF Openers, Closers, Forwards
<1>1. /\ d \in Nat /\ Len(OpenAfter(t)[Len(t)]) = d /\ Inner(t, Len(t)) = Inner(s, Len(s))
      /\ \A i \in 1 .. d - 1 : OpenAfter(t)[Len(t)][i] = OpenAfter(s)[Len(s)][i]
  <2>1. PICK e : e = Len(OpenAfter(t)[Len(t)])
    OBVIOUS
  <2>2. /\ d \in Nat /\ e \in Nat /\ e = d /\ Inner(t, Len(t)) = Inner(s, Len(s))
        /\ \A i \in 1 .. d : i <= e => OpenAfter(t)[Len(t)][i] = OpenAfter(s)[Len(s)][i]
    BY <1>0, <2>1, NextOpen
  <2>3. \A i \in 1 .. d - 1 : i \in 1 .. d /\ i <= e
    BY <2>2
  <2> QED
    BY <2>1, <2>2, <2>3
<1>2. d - 1 \in Nat /\ d - 1 \in 0 .. d /\ (d - 1) + 1 = d /\ d - 1 <= d
  BY <1>1
<1>3. \A i \in 1 .. d - 1 : WaitsFor(t, Len(s) + 1) # OpenAfter(s)[Len(s)][i]
  <2>1. WaitsFor(t, Len(s) + 1) = Inner(s, Len(s))
    BY <1>0, NextWaits
  <2>2. Len(s) \in Nat /\ Len(s) \in 0 .. Len(s)
    BY MoreFacts
  <2>3. Inner(s, Len(s)) = OpenAfter(s)[Len(s)][d] /\ d \in 1 .. d
    BY <1>2, <2>2, OpenLen
  <2>4. \A i \in 1 .. d - 1 : OpenAfter(s)[Len(s)][i] < OpenAfter(s)[Len(s)][d]
    BY <2>2, <2>3, Rising
  <2>5. \A i \in 1 .. d : OpenAfter(s)[Len(s)][i] \in 1 .. Len(s)
    BY <2>2, StructuresNest DEF Nest
  <2>6. \A i \in 1 .. d - 1 : i \in 1 .. d
    BY <1>2
  <2> QED
    BY <2>1, <2>3, <2>4, <2>5, <2>6
<1>4. Keeps(s, w, t, st, st2, lv, lv2, at, lat, d - 1)
  BY <1>1, <1>2, <1>3 DEF Keeps, SameTo
<1> QED
  BY <1>1, <1>2, <1>4, FrameOnTop

\* ENDOF takes one away and changes the next.
LEMMA FrameEnded ==
  ASSUME NEW s, NEW w, NEW t, More(s, w, t), Fitting(s), Fitting(t), w = "ENDOF",
         NEW st, NEW lv, NEW at, NEW lat, Frames(s, st, lv, at, lat),
         NEW d, d = Len(OpenAfter(s)[Len(s)]), d > 1,
         NEW st2, NEW lv2, SameTo(st, st2, at[d - 1]), SameTo(lv, lv2, lat[d - 1]),
         at[d - 1] <= Len(st2), lat[d - 1] <= Len(lv2),
         Frame(t, st2, lv2, OpenAfter(s)[Len(s)][d - 1], at[d - 1], Len(st2), lat[d - 1], Len(lv2))
  PROVE  Framed(t, st2, lv2)
<1>0. w \notin Openers /\ w \in Closers /\ w \in Forwards
  BY DEF Openers, Closers, Forwards
<1>1. /\ d \in Nat /\ Len(OpenAfter(t)[Len(t)]) = d - 1
      /\ \A i \in 1 .. d - 1 : OpenAfter(t)[Len(t)][i] = OpenAfter(s)[Len(s)][i]
  <2>1. PICK e : e = Len(OpenAfter(t)[Len(t)])
    OBVIOUS
  <2>2. /\ d \in Nat /\ e \in Nat /\ e = d - 1
        /\ \A i \in 1 .. d : i <= e => OpenAfter(t)[Len(t)][i] = OpenAfter(s)[Len(s)][i]
    <3>1. d \in Nat /\ e \in Nat /\ \A i \in 1 .. d : i <= e => OpenAfter(t)[Len(t)][i] = OpenAfter(s)[Len(s)][i]
      BY <2>1, NextOpen
    <3>2. w \in Closers /\ d # 0 => e = d - 1
      BY <2>1, NextOpen
    <3>3. d # 0
      BY <3>1
    <3> QED
      BY <1>0, <3>1, <3>2, <3>3
  <2>3. \A i \in 1 .. d - 1 : i \in 1 .. d /\ i <= e
    BY <2>2
  <2> QED
    BY <2>1, <2>2, <2>3
<1>2. /\ d - 2 \in Nat /\ d - 2 \in 0 .. d /\ (d - 2) + 1 = d - 1 /\ d - 2 <= d - 1
      /\ d - 1 \in 1 .. d - 1 /\ \A i \in 1 .. d - 2 : i \in 1 .. d - 1
  BY <1>1
<1>3. /\ Len(t) \in Nat /\ Len(t) \in 0 .. Len(t) /\ Len(t) \in 1 .. Len(t) /\ t[Len(t)] = w /\ Len(t) = Len(s) + 1
  BY MoreFacts
<1>4. /\ Inner(t, Len(t)) = OpenAfter(t)[Len(t)][d - 1]
      /\ Inner(t, Len(t)) = OpenAfter(s)[Len(s)][d - 1]
  BY <1>1, <1>2, <1>3, OpenLen
<1>5. \A i \in 1 .. d - 2 : WaitsFor(t, Len(s) + 1) # OpenAfter(s)[Len(s)][i]
  <2>1. WaitsFor(t, Len(t)) = Inner(t, Len(t))
    BY <1>0, <1>3, WaitsOpen
  <2>4. \A i \in 1 .. d - 2 : OpenAfter(t)[Len(t)][i] < OpenAfter(t)[Len(t)][d - 1]
    <3>1. d - 1 \in 1 .. Len(OpenAfter(t)[Len(t)]) /\ (d - 1) - 1 = d - 2
      BY <1>1, <1>2
    <3> QED
      BY <1>3, <3>1, Rising
  <2>5. \A i \in 1 .. d - 1 : OpenAfter(t)[Len(t)][i] \in 1 .. Len(t)
    BY <1>1, <1>3, StructuresNest DEF Nest
  <2> TAKE i \in 1 .. d - 2
  <2>6. i \in 1 .. d - 1 /\ OpenAfter(t)[Len(t)][i] = OpenAfter(s)[Len(s)][i]
    BY <1>1, <1>2
  <2>7. OpenAfter(t)[Len(t)][i] \in 1 .. Len(t) /\ OpenAfter(t)[Len(t)][d - 1] \in 1 .. Len(t)
    BY <1>2, <2>5, <2>6
  <2>8. OpenAfter(t)[Len(t)][i] # OpenAfter(t)[Len(t)][d - 1]
    BY <1>3, <2>4, <2>7
  <2> QED
    BY <1>3, <1>4, <2>1, <2>6, <2>8
<1>6. Keeps(s, w, t, st, st2, lv, lv2, at, lat, d - 2)
  BY <1>1, <1>2, <1>5 DEF Keeps, SameTo
<1> QED
  BY <1>1, <1>2, <1>4, <1>6, FrameOnTop, SMTT(20)

\* X changes none.
LEMMA FramesSame ==
  ASSUME NEW s, NEW w, NEW t, More(s, w, t), Fitting(s), Fitting(t),
         w \notin Openers, w \notin Closers, w \notin Forwards,
         NEW st \in Seq(Int), NEW lv \in Seq(Nat), Framed(s, st, lv)
  PROVE  Framed(t, st, lv)
<1> PICK at, lat : Frames(s, st, lv, at, lat)
  BY DEF Framed
<1> PICK d : d = Len(OpenAfter(s)[Len(s)])
  OBVIOUS
<1>1. /\ d \in Nat /\ Len(OpenAfter(t)[Len(t)]) = d
      /\ \A i \in 1 .. d : OpenAfter(t)[Len(t)][i] = OpenAfter(s)[Len(s)][i]
  <2>1. PICK e : e = Len(OpenAfter(t)[Len(t)])
    OBVIOUS
  <2>2. /\ d \in Nat /\ e \in Nat /\ e = d
        /\ \A i \in 1 .. d : i <= e => OpenAfter(t)[Len(t)][i] = OpenAfter(s)[Len(s)][i]
    BY <2>1, NextOpen
  <2> QED
    BY <2>1, <2>2
<1>2. at[d + 1] = Len(st) /\ lat[d + 1] = Len(lv)
  BY DEF Frames
<1>3. Keeps(s, w, t, st, st, lv, lv, at, lat, d)
  BY <1>1 DEF Keeps
<1> QED
  BY <1>1, <1>2, <1>3, FramesLeft

LEMMA LevelFrom ==
  ASSUME NEW d \in Nat, NEW m \in 1 .. d, NEW lat, \A i \in m + 1 .. d : lat[i + 1] = lat[i]
  PROVE  \A i \in m + 1 .. d + 1 : lat[i] = lat[m + 1]
<1> DEFINE G == {r \in 0 .. d - m : lat[m + 1 + r] = lat[m + 1]}
<1>1. 0 \in G
  OBVIOUS
<1>2. \A r \in 1 .. d - m : r - 1 \in G => r \in G
  <2> TAKE r \in 1 .. d - m
  <2> HAVE r - 1 \in G
  <2>1. m + r \in m + 1 .. d /\ m + 1 + (r - 1) = m + r /\ m + 1 + r = (m + r) + 1
    OBVIOUS
  <2>2. lat[m + 1 + (r - 1)] = lat[m + 1]
    OBVIOUS
  <2>3. lat[(m + r) + 1] = lat[m + r]
    BY <2>1
  <2> QED
    BY <2>1, <2>2, <2>3
<1>3. d - m \in Nat
  OBVIOUS
<1> HIDE DEF G
<1>4. \A r \in 0 .. d - m : r \in G
  BY <1>1, <1>2, <1>3, UpTo
<1> TAKE i \in m + 1 .. d + 1
<1>5. i - (m + 1) \in 0 .. d - m /\ m + 1 + (i - (m + 1)) = i
  OBVIOUS
<1> QED
  BY <1>4, <1>5 DEF G

LEMMA FrameLevel ==
  ASSUME NEW s, NEW P, s[P] \notin Loops, NEW st, NEW lv, NEW a, NEW z, NEW x, NEW y,
         Frame(s, st, lv, P, a, z, x, y)
  PROVE  x = y
BY DEF Frame, Holds

\* A frame without a loop holds wherever the other stack is.
LEMMA FrameShifts ==
  ASSUME NEW s, NEW P, s[P] \notin Loops, NEW st, NEW lv, NEW lv2, NEW a, NEW z,
         NEW x \in Nat, NEW y \in Nat, NEW x2 \in Nat, Frame(s, st, lv, P, a, z, x, y)
  PROVE  x = y /\ Frame(s, st, lv2, P, a, z, x2, x2)
<1> DEFINE k == s[P]
<1>1. k \notin Loops
  OBVIOUS
<1> HIDE DEF k
<1>2. \A b, cell, past, slots, mine :
        Holds(k, b, cell, past, slots, mine, st, lv, a, z, x, y) =>
          x = y /\ Holds(k, b, cell, past, slots, mine, st, lv2, a, z, x2, x2)
  <2> TAKE b, cell, past, slots, mine
  <2> HAVE Holds(k, b, cell, past, slots, mine, st, lv, a, z, x, y)
  <2>1. x = y
    BY <1>1 DEF Holds
  <2>2. x2 <= x2
    OBVIOUS
  <2>3. Holds(k, b, cell, past, slots, mine, st, lv2, a, z, x2, x2)
    BY <1>1, <2>2, Zenon DEF Holds
  <2> QED
    BY <2>1, <2>3
<1> QED
  BY <1>2 DEF Frame, k

OneMore(lv, c, lv2) == lv2 = Append(lv, c)

\* The loop of a LEAVE has one more jump to resolve.
LEMMA FrameLeft ==
  ASSUME NEW s, NEW w, NEW t, More(s, w, t), Fitting(s), Fitting(t), w = "LEAVE",
         NEW P \in 1 .. Len(s), s[P] \in Loops, WaitsFor(t, Len(s) + 1) = P,
         NEW st, NEW lv \in Seq(Nat), NEW lv2, OneMore(lv, Cell(t, Len(t)), lv2),
         NEW a, NEW z, NEW x \in Nat, Frame(s, st, lv, P, a, z, x, Len(lv))
  PROVE  Frame(t, st, lv2, P, a, z, x, Len(lv2))
<1> DEFINE c == Cell(t, Len(t))
           k == s[P]
           slots  == CellsOf(s, Waiting(s, P))
           mine   == CellsOf(s, Waiting(s, P) \ {P})
           slots2 == CellsOf(t, Waiting(t, P))
           mine2  == CellsOf(t, Waiting(t, P) \ {P})
<1>1. /\ Len(s) \in Nat /\ Len(t) = Len(s) + 1 /\ t[P] = s[P]
      /\ Cell(t, P) = Cell(s, P) /\ Past(t, P) = Past(s, P)
  BY MoreFacts, NextCells
<1>2. Before(t)[P] = Before(s)[P]
  <2>1. P \in 1 .. Len(s) + 1
    BY <1>1
  <2> QED
    BY <2>1, Grown
<1>3. Waiting(t, P) = Waiting(s, P) \cup {Len(t)}
  BY <1>1, OneMoreWaits
<1>4. Waiting(s, P) \in SUBSET (1 .. Len(s)) /\ Waiting(s, P) \ {P} \in SUBSET (1 .. Len(s))
  BY DEF Waiting
<1>5. mine2 = mine \cup {c}
  <2>1. Waiting(t, P) \ {P} = (Waiting(s, P) \ {P}) \cup {Len(t)}
    BY <1>1, <1>3
  <2>2. CellsOf(t, Waiting(t, P) \ {P}) = CellsOf(t, Waiting(s, P) \ {P}) \cup {Cell(t, Len(t))}
    BY <2>1 DEF CellsOf
  <2>3. CellsOf(t, Waiting(s, P) \ {P}) = CellsOf(s, Waiting(s, P) \ {P})
    BY <1>4, CellsStay
  <2> QED
    BY <2>2, <2>3
<1>6. /\ Len(lv2) = Len(lv) + 1 /\ Len(lv) \in Nat /\ lv2[Len(lv) + 1] = c
      /\ \A i \in 1 .. Len(lv) : lv2[i] = lv[i]
  BY DEF OneMore
<1>7. /\ Holds(k, Before(s)[P], Cell(s, P), Past(s, P), slots, mine, st, lv, a, z, x, Len(lv))
      /\ k \in Loops
  BY DEF Frame
<1> HIDE DEF c, k, slots, mine, slots2, mine2
<1>8. x < Len(lv) /\ lv[x + 1] = 0 /\ mine = {lv[i] : i \in x + 2 .. Len(lv)} /\ a < z
  BY <1>7 DEF Holds
<1>9. x < Len(lv2) /\ x <= Len(lv2) /\ lv2[x + 1] = 0
  BY <1>6, <1>8, SMTT(20)
<1>10. mine2 = {lv2[i] : i \in x + 2 .. Len(lv2)}
  <2>1. \A i \in x + 2 .. Len(lv) : lv2[i] = lv[i]
    BY <1>6
  <2>2. {lv2[i] : i \in x + 2 .. Len(lv)} = {lv[i] : i \in x + 2 .. Len(lv)}
    BY <2>1
  <2>3. x + 2 .. Len(lv2) = (x + 2 .. Len(lv)) \cup {Len(lv) + 1}
    BY <1>6, <1>8
  <2>4. {lv2[i] : i \in x + 2 .. Len(lv2)} = {lv2[i] : i \in x + 2 .. Len(lv)} \cup {lv2[Len(lv) + 1]}
    BY <2>3
  <2> QED
    BY <1>5, <1>6, <1>8, <2>2, <2>4
<1>11. k \notin {"IF", "OF"} /\ k # "BEGIN" /\ k # "CASE"
  BY <1>7 DEF Loops
<1>12. Holds(k, Before(s)[P], Cell(s, P), Past(s, P), slots2, mine2, st, lv2, a, z, x, Len(lv2))
  <2>1. /\ k = "DO" => z = a + 1 /\ st[z] = Past(s, P)
        /\ k = "?DO" => z = a + 3 /\ st[a + 1] = Cell(s, P) /\ st[a + 2] = Past(s, P) /\ st[z] = CS_QDO
    BY <1>7, Zenon DEF Holds
  <2> QED
    BY <1>7, <1>8, <1>9, <1>10, <1>11, <2>1, Zenon DEF Holds
<1> QED
  BY <1>1, <1>2, <1>12 DEF Frame, k, slots2, mine2

LEMMA FramesLEAVE ==
  ASSUME NEW s, NEW w, NEW t, More(s, w, t), Fitting(s), Fitting(t), w = "LEAVE",
         NEW st \in Seq(Int), NEW lv \in Seq(Nat), Framed(s, st, lv),
         NEW lv2, OneMore(lv, Cell(t, Len(t)), lv2)
  PROVE  Framed(t, st, lv2) /\ OpenAfter(t)[Len(t)] # <<>>
<1> PICK at, lat : Frames(s, st, lv, at, lat)
  BY DEF Framed
<1> DEFINE open == OpenAfter(s)[Len(s)]
<1> PICK d : d = Len(open)
  OBVIOUS
<1>0. w \notin Openers /\ w \notin Closers /\ w \in Forwards
  BY DEF Openers, Closers, Forwards
<1>1. /\ Len(s) \in Nat /\ Len(t) = Len(s) + 1 /\ Len(t) \in Nat /\ Len(t) \in 1 .. Len(t) /\ t[Len(t)] = w
      /\ Len(t) - 1 = Len(s) /\ Len(s) \in 0 .. Len(s) /\ Len(s) \in 0 .. Len(t) /\ Len(t) \in 0 .. Len(t)
  BY MoreFacts
<1>2. /\ d \in Nat /\ Len(OpenAfter(t)[Len(t)]) = d
      /\ \A i \in 1 .. d : OpenAfter(t)[Len(t)][i] = open[i]
  <2>1. PICK e : e = Len(OpenAfter(t)[Len(t)])
    OBVIOUS
  <2>2. /\ d \in Nat /\ e \in Nat /\ e = d
        /\ \A i \in 1 .. d : i <= e => OpenAfter(t)[Len(t)][i] = OpenAfter(s)[Len(s)][i]
    BY <1>0, <2>1, NextOpen
  <2> QED
    BY <2>1, <2>2
<1>3. OpenAfter(t)[Len(t) - 1] = open
  BY <1>1, GrownOpen
<1>4. \A i \in 1 .. d : open[i] \in 1 .. Len(s)
  BY <1>1, StructuresNest DEF Nest
<1>5. PICK m \in 1 .. d : LoopAt(t, open, m) /\ OpenerOf(t, Len(t)) = open[m]
  <2>1. FitAt(t, Len(t))
    BY <1>1 DEF Fitting
  <2>2. PICK m \in 1 .. Len(OpenAfter(t)[Len(t) - 1]) : LoopAt(t, OpenAfter(t)[Len(t) - 1], m)
    BY <1>1, <2>1, LoopThere
  <2>3. m \in 1 .. d /\ LoopAt(t, open, m)
    BY <1>3, <2>2
  <2>4. OpenerOf(t, Len(t)) = open[m]
    BY <1>1, <1>3, <2>3, LoopOpener
  <2> QED
    BY <2>3, <2>4
<1>6. WaitsFor(t, Len(s) + 1) = open[m]
  <2>1. t[Len(s) + 1] = "LEAVE"
    BY <1>1
  <2>2. WaitsFor(t, Len(s) + 1) = OpenerOf(t, Len(s) + 1)
    BY <2>1 DEF WaitsFor
  <2> QED
    BY <1>1, <1>5, <2>2
<1>7. s[open[m]] \in Loops /\ \A i \in m + 1 .. d : s[open[i]] \notin Loops
  <2>1. t[open[m]] \in Loops /\ \A i \in m + 1 .. d : t[open[i]] \notin Loops
    BY <1>5 DEF LoopAt
  <2>2. \A i \in 1 .. Len(s) : t[i] = s[i]
    BY MoreFacts
  <2>3. \A i \in m + 1 .. d : i \in 1 .. d
    BY <1>2
  <2>4. \A i \in 1 .. d : t[open[i]] = s[open[i]]
    BY <1>4, <2>2
  <2> QED
    BY <2>1, <2>3, <2>4
<1>8. \A i \in 1 .. d : i # m => open[i] # open[m]
  <2> TAKE i \in 1 .. d
  <2> HAVE i # m
  <2>1. \A i1 \in 1 .. d : \A i2 \in 1 .. i1 - 1 : open[i2] < open[i1]
    BY <1>1, Rising
  <2>2. i \in 1 .. m - 1 \/ m \in 1 .. i - 1
    BY <1>2
  <2>3. open[i] \in Nat /\ open[m] \in Nat
    BY <1>4
  <2> QED
    BY <2>1, <2>2, <2>3
<1>9. /\ at \in [1 .. d + 1 -> Nat] /\ lat \in [1 .. d + 1 -> Nat]
      /\ at[1] = 0 /\ lat[1] = 0 /\ at[d + 1] = Len(st) /\ lat[d + 1] = Len(lv)
      /\ \A i \in 1 .. d + 1 : \A j \in i .. d + 1 : at[i] <= at[j] /\ lat[i] <= lat[j]
      /\ \A i \in 1 .. d : Frame(s, st, lv, open[i], at[i], at[i + 1], lat[i], lat[i + 1])
  BY DEF Frames
<1>10. \A i \in 1 .. d : /\ i \in 1 .. d + 1 /\ i + 1 \in 1 .. d + 1
                         /\ at[i] \in Nat /\ at[i + 1] \in Nat /\ lat[i] \in Nat /\ lat[i + 1] \in Nat
  <2> TAKE i \in 1 .. d
  <2>1. i \in 1 .. d + 1 /\ i + 1 \in 1 .. d + 1
    BY <1>2
  <2> QED
    BY <1>9, <2>1
<1> HIDE DEF open
<1>11. \A i \in m + 1 .. d + 1 : lat[i] = Len(lv)
  <2>1. \A i \in m + 1 .. d : lat[i + 1] = lat[i]
    <3> TAKE i \in m + 1 .. d
    <3>1. i \in 1 .. d
      BY <1>2
    <3>2. /\ s[open[i]] \notin Loops /\ lat[i] \in Nat /\ lat[i + 1] \in Nat
          /\ Frame(s, st, lv, open[i], at[i], at[i + 1], lat[i], lat[i + 1])
      BY <1>7, <1>9, <1>10, <3>1
    <3> QED
      BY <3>2, FrameLevel
  <2>2. \A i \in m + 1 .. d + 1 : lat[i] = lat[m + 1]
    BY <1>2, <2>1, LevelFrom
  <2>3. d + 1 \in m + 1 .. d + 1
    BY <1>2
  <2>4. lat[m + 1] = Len(lv)
    BY <1>9, <2>2, <2>3
  <2> QED
    BY <2>2, <2>4
<1> DEFINE lat2 == [i \in 1 .. d + 1 |-> IF i <= m THEN lat[i] ELSE Len(lv2)]
<1>12. Len(lv) \in Nat /\ Len(lv2) = Len(lv) + 1 /\ Len(lv2) \in Nat /\ \A i \in 1 .. Len(lv) : lv2[i] = lv[i]
  BY DEF OneMore
<1>13. /\ \A i \in 1 .. d + 1 : i <= m => lat2[i] = lat[i]
       /\ \A i \in 1 .. d + 1 : ~ (i <= m) => lat2[i] = Len(lv2)
       /\ lat2 \in [1 .. d + 1 -> Nat]
  BY <1>9, <1>12
<1> HIDE DEF lat2
<1>14. \A i \in 1 .. d + 1 : \A j \in i .. d + 1 : lat2[i] <= lat2[j]
  <2> TAKE i \in 1 .. d + 1
  <2> TAKE j \in i .. d + 1
  <2>1. j \in 1 .. d + 1 /\ d + 1 \in i .. d + 1 /\ i <= j
    BY <1>2
  <2>2. lat[i] \in Nat /\ lat[j] \in Nat /\ lat[i] <= lat[j] /\ lat[i] <= Len(lv)
    BY <1>9, <2>1
  <2>3. CASE j <= m
    <3>1. i <= m
      BY <1>2, <2>1, <2>3
    <3> QED
      BY <1>13, <2>1, <2>2, <2>3, <3>1
  <2>4. CASE ~ (j <= m)
    <3>1. lat2[j] = Len(lv2)
      BY <1>13, <2>1, <2>4
    <3> QED
      BY <1>12, <1>13, <2>2, <3>1
  <2> QED
    BY <2>3, <2>4
<1>15. ASSUME NEW i \in 1 .. d
       PROVE  Frame(t, st, lv2, open[i], at[i], at[i + 1], lat2[i], lat2[i + 1])
  <2>1. /\ Frame(s, st, lv, open[i], at[i], at[i + 1], lat[i], lat[i + 1]) /\ open[i] \in 1 .. Len(s)
        /\ i \in 1 .. d + 1 /\ i + 1 \in 1 .. d + 1
        /\ at[i] \in Nat /\ at[i + 1] \in Nat /\ lat[i] \in Nat /\ lat[i + 1] \in Nat
    BY <1>4, <1>9, <1>10
  <2>2. Alike(st, st, at[i], at[i + 1])
    BY DEF Alike
  <2>3. CASE i + 1 <= m
    <3>1. lat2[i] = lat[i] /\ lat2[i + 1] = lat[i + 1]
      BY <1>2, <1>13, <2>1, <2>3
    <3>2. lat[i + 1] <= Len(lv)
      <4>1. d + 1 \in i + 1 .. d + 1
        BY <1>2
      <4> QED
        BY <1>9, <2>1, <4>1
    <3>3. Alike(lv, lv2, lat[i], lat[i + 1])
      <4>1. \A j \in lat[i] + 1 .. lat[i + 1] : j \in 1 .. Len(lv)
        BY <1>12, <2>1, <3>2, SMTT(20)
      <4> QED
        BY <1>12, <4>1 DEF Alike
    <3>4. open[i] # open[m]
      <4>1. i # m
        BY <1>2, <2>3
      <4> QED
        BY <1>8, <4>1
    <3>5. Frame(t, st, lv2, open[i], at[i], at[i + 1], lat[i], lat[i + 1])
      BY <1>6, <2>1, <2>2, <3>3, <3>4, FrameStays, SMTT(20)
    <3> QED
      BY <3>1, <3>5
  <2>4. CASE i = m
    <3>1. lat2[i] = lat[i] /\ lat2[i + 1] = Len(lv2) /\ lat[i + 1] = Len(lv)
      <4>1. i + 1 \in m + 1 .. d + 1 /\ ~ (i + 1 <= m) /\ i <= m
        BY <1>2, <2>4
      <4> QED
        BY <1>11, <1>13, <2>1, <4>1
    <3>2. Frame(s, st, lv, open[i], at[i], at[i + 1], lat[i], Len(lv))
      BY <2>1, <3>1
    <3>3. Frame(t, st, lv2, open[i], at[i], at[i + 1], lat[i], Len(lv2))
      <4>1. s[open[i]] \in Loops /\ WaitsFor(t, Len(s) + 1) = open[i] /\ open[i] \in 1 .. Len(s)
        BY <1>6, <1>7, <2>1, <2>4
      <4> QED
        BY <2>1, <3>2, <4>1, FrameLeft
    <3> QED
      BY <3>1, <3>3
  <2>5. CASE ~ (i <= m)
    <3>1. /\ lat2[i] = Len(lv2) /\ lat2[i + 1] = Len(lv2) /\ lat[i] = Len(lv) /\ lat[i + 1] = Len(lv)
          /\ i \in m + 1 .. d /\ i # m
      <4>1. i + 1 \in m + 1 .. d + 1 /\ ~ (i + 1 <= m) /\ i \in m + 1 .. d + 1 /\ i \in m + 1 .. d /\ i # m
        BY <1>2, <2>5
      <4> QED
        BY <1>11, <1>13, <2>1, <2>5, <4>1
    <3>2. Alike(lv, lv, lat[i], lat[i + 1])
      BY DEF Alike
    <3>3. open[i] # open[m]
      BY <1>8, <3>1
    <3>4. Frame(t, st, lv, open[i], at[i], at[i + 1], lat[i], lat[i + 1])
      BY <1>6, <2>1, <2>2, <3>2, <3>3, FrameStays, SMTT(20)
    <3>5. t[open[i]] \notin Loops
      <4>1. t[open[i]] = s[open[i]]
        BY <2>1, MoreFacts
      <4> QED
        BY <1>7, <3>1, <4>1
    <3>6. Frame(t, st, lv2, open[i], at[i], at[i + 1], Len(lv2), Len(lv2))
      BY <1>12, <2>1, <3>4, <3>5, FrameShifts, SMTT(20)
    <3> QED
      BY <3>1, <3>6
  <2>6. i + 1 <= m \/ i = m \/ ~ (i <= m)
    BY <1>2
  <2> QED
    BY <2>3, <2>4, <2>5, <2>6
<1>16. lat2[1] = 0 /\ lat2[d + 1] = Len(lv2)
  <2>1. 1 \in 1 .. d + 1 /\ 1 <= m /\ d + 1 \in 1 .. d + 1 /\ ~ (d + 1 <= m)
    BY <1>2
  <2> QED
    BY <1>9, <1>13, <2>1
<1>17. Frames(t, st, lv2, at, lat2)
  <2>1. \A i \in 1 .. d : Frame(t, st, lv2, OpenAfter(t)[Len(t)][i], at[i], at[i + 1], lat2[i], lat2[i + 1])
    BY <1>2, <1>15
  <2>2. \A i \in 1 .. d + 1 : \A j \in i .. d + 1 : at[i] <= at[j] /\ lat2[i] <= lat2[j]
    BY <1>9, <1>14
  <2> QED
    BY <1>2, <1>9, <1>13, <1>16, <2>1, <2>2 DEF Frames
<1>18. OpenAfter(t)[Len(t)] # <<>>
  <2>1. Len(OpenAfter(t)[Len(t)]) # 0
    BY <1>2
  <2> QED
    BY <1>1, <2>1, OpenLen
<1> QED
  BY <1>17, <1>18 DEF Framed

-----------------------------------------------------------------------------
(* What the compiler has of a source: its cells, its jumps, and its        *)
(* structures on the stacks; and what each word makes of it.               *)

Shape(s, k, j, st, l) ==
  /\ k = Before(s)[Len(s) + 1] /\ Jumps(s, j) /\ Fun(j)
  /\ st \in Seq(Int) /\ l \in Seq(Nat) /\ Framed(s, st, l)

\* A word that fails leaves something open.
Went(t, c) ==
  \/ HasFailed(c) /\ OpenAfter(t)[Len(t)] # <<>>
  \/ \E k, j, st, l : c = Rec(k, j, st, l, No) /\ Shape(t, k, j, st, l)

LEMMA ShapeMore ==
  ASSUME NEW s, NEW w, NEW t, More(s, w, t), NEW k, NEW j, NEW st, NEW l, Shape(s, k, j, st, l)
  PROVE  /\ k \in Nat /\ Size(w) \in Nat
         /\ Before(t)[Len(s) + 1] = k /\ Before(t)[Len(t) + 1] = k + Size(w) /\ Past(t, Len(t)) = k + Size(w)
         /\ Cell(t, Len(t)) = k + IF w = "OF" THEN 3 ELSE 1
         /\ Len(t) = Len(s) + 1 /\ t[Len(s) + 1] = w /\ Len(s) \in Nat /\ Len(t) \in Nat
<1>1. /\ Len(s) \in Nat /\ Len(t) = Len(s) + 1 /\ Len(t) \in Nat /\ t[Len(s) + 1] = w
      /\ Len(s) + 1 \in 1 .. Len(s) + 1 /\ Len(t) + 1 = Len(s) + 2
  BY MoreFacts
<1>2. k = Before(s)[Len(s) + 1]
  BY DEF Shape
<1>3. k \in Nat /\ Size(w) \in Nat
  BY <1>2, NextCells
<1>4. Before(t)[Len(s) + 1] = k /\ Before(t)[Len(s) + 2] = k + Size(w)
  BY <1>1, <1>2, Grown
<1>5. Cell(t, Len(t)) = k + IF w = "OF" THEN 3 ELSE 1
  BY <1>1, <1>2, NextCells
<1>6. Past(t, Len(t)) = k + Size(w)
  BY <1>1, <1>2, NextCells
<1> QED
  BY <1>1, <1>3, <1>4, <1>5, <1>6

LEMMA ShapePushed ==
  ASSUME NEW s, NEW w, NEW t, More(s, w, t), Fitting(s), Fitting(t), w \in Openers,
         NEW k, NEW j, NEW st, NEW l, Shape(s, k, j, st, l),
         NEW st2 \in Seq(Int), NEW l2 \in Seq(Nat), SameTo(st, st2, Len(st)), SameTo(l, l2, Len(l)),
         NEW slots, slots = IF w \in {"IF", "OF", "?DO"} THEN {Cell(t, Len(t))} ELSE {},
         Holds(w, k, Cell(t, Len(t)), k + Size(w), slots, {}, st2, l2, Len(st), Len(st2), Len(l), Len(l2))
  PROVE  Framed(t, st2, l2)
<1>1. st \in Seq(Int) /\ l \in Seq(Nat) /\ Framed(s, st, l)
  BY DEF Shape
<1>2. Len(t) = Len(s) + 1 /\ t[Len(s) + 1] = w /\ Before(t)[Len(s) + 1] = k /\ Past(t, Len(t)) = k + Size(w)
  BY ShapeMore
<1>3. Waiting(t, Len(s) + 1) = IF w \in {"IF", "OF", "?DO"} THEN {Len(s) + 1} ELSE {}
  BY NewWaits
<1>4. CellsOf(t, Waiting(t, Len(s) + 1)) = slots
  <2>1. CellsOf(t, {Len(s) + 1}) = {Cell(t, Len(s) + 1)} /\ CellsOf(t, {}) = {}
    BY DEF CellsOf
  <2>2. CASE w \in {"IF", "OF", "?DO"}
    BY <1>2, <1>3, <2>1, <2>2
  <2>3. CASE w \notin {"IF", "OF", "?DO"}
    BY <1>3, <2>1, <2>3
  <2> QED
    BY <2>2, <2>3
<1>5. CellsOf(t, Waiting(t, Len(s) + 1) \ {Len(s) + 1}) = {}
  BY <1>3 DEF CellsOf
<1>6. Len(st) <= Len(st2) /\ Len(l) <= Len(l2)
  <2>1. Len(st) < Len(st2) /\ Len(l) <= Len(l2)
    BY DEF Holds
  <2>2. Len(st) \in Nat /\ Len(st2) \in Nat
    BY <1>1
  <2> QED
    BY <2>1, <2>2
<1>7. Holds(t[Len(s) + 1], Before(t)[Len(s) + 1], Cell(t, Len(s) + 1), Past(t, Len(s) + 1),
            CellsOf(t, Waiting(t, Len(s) + 1)), CellsOf(t, Waiting(t, Len(s) + 1) \ {Len(s) + 1}),
            st2, l2, Len(st), Len(st2), Len(l), Len(l2))
  BY <1>2, <1>4, <1>5
<1>8. Frame(t, st2, l2, Len(s) + 1, Len(st), Len(st2), Len(l), Len(l2))
  BY <1>7, Zenon DEF Frame
<1> QED
  BY <1>1, <1>6, <1>8, FramePushed

\* The stack with one more on it.
LEMMA PushedIs ==
  ASSUME NEW S, NEW st \in Seq(S), NEW v \in S, NEW st2, st2 = Append(st, v)
  PROVE  /\ st2 \in Seq(S) /\ Len(st) \in Nat /\ Len(st2) = Len(st) + 1 /\ st2[Len(st) + 1] = v
         /\ SameTo(st, st2, Len(st))
BY DEF SameTo

LEMMA OpenerOpens ==
  ASSUME NEW s, NEW w, NEW t, More(s, w, t), w \in Openers
  PROVE  OpenAfter(t)[Len(t)] # <<>>
<1> PICK d : d = Len(OpenAfter(s)[Len(s)])
  OBVIOUS
<1> PICK e : e = Len(OpenAfter(t)[Len(t)])
  OBVIOUS
<1>1. d \in Nat /\ e = d + 1
  BY NextOpen
<1>2. Len(OpenAfter(t)[Len(t)]) # 0
  BY <1>1
<1>3. Len(t) \in Nat /\ Len(t) \in 0 .. Len(t)
  BY MoreFacts
<1> QED
  BY <1>2, <1>3, OpenLen

\* The word, when it resolves nothing and does not jump, or jumps forwards.
LEMMA PlainJumps ==
  ASSUME NEW s, NEW w, NEW t, More(s, w, t), Fitting(s), Fitting(t),
         NEW k, NEW j, NEW st, NEW l, Shape(s, k, j, st, l), w \notin Closers, w # "ELSE"
  PROVE  /\ w \notin Forwards => Jumps(t, j) /\ Fun(j)
         /\ w \in Forwards =>
              /\ Jumps(t, Aimed(j, {Cell(t, Len(t))}, Unresolved))
              /\ Fun(Aimed(j, {Cell(t, Len(t))}, Unresolved))
<1>1. ResolvedBy(s, w) = {}
  BY DEF ResolvedBy
<1>2. w \notin Backs
  BY DEF Backs, Closers
<1>3. Jumps(s, j) /\ Fun(j)
  BY DEF Shape
<1>4. w \notin Forwards => Jumps(t, j)
  BY <1>1, <1>2, <1>3, AimsNone
<1>5. w \in Forwards => \A m : m = Aimed(j, {Cell(t, Len(t))}, Unresolved) => Jumps(t, m) /\ Fun(m)
  BY <1>1, <1>2, <1>3, AimsNone
<1> QED
  BY <1>3, <1>4, <1>5

\* How a shape is come by.
LEMMA ShapeMade ==
  ASSUME NEW s, NEW w, NEW t, More(s, w, t), NEW k, NEW j, NEW st, NEW l, Shape(s, k, j, st, l),
         NEW c, NEW j2, NEW st2 \in Seq(Int), NEW l2 \in Seq(Nat), NEW k2, k2 = k + Size(w),
         Jumps(t, j2), Fun(j2), Framed(t, st2, l2), c = Rec(k2, j2, st2, l2, No)
  PROVE  Went(t, c)
<1>1. k2 = Before(t)[Len(t) + 1]
  BY ShapeMore
<1>2. Shape(t, k2, j2, st2, l2)
  BY <1>1 DEF Shape
<1> QED
  BY <1>2 DEF Went

LEMMA ShapeX ==
  ASSUME NEW s, NEW w, NEW t, More(s, w, t), Fitting(s), Fitting(t),
         NEW k, NEW j, NEW st, NEW l, Shape(s, k, j, st, l),
         w = "X", NEW c, c = comma(Rec(k, j, st, l, No), 1)
  PROVE  Went(t, c)
<1>1. w \notin Openers /\ w \notin Closers /\ w \notin Forwards /\ w # "ELSE" /\ Size(w) = 1
  BY DEF Openers, Closers, Forwards, Size
<1>2. Jumps(t, j) /\ Fun(j)
  BY <1>1, PlainJumps
<1>3. st \in Seq(Int) /\ l \in Seq(Nat) /\ Framed(s, st, l) /\ k \in Nat
  BY ShapeMore DEF Shape
<1>4. Framed(t, st, l)
  BY <1>1, <1>3, FramesSame
<1>5. c = Rec(k + 1, j, st, l, No)
  BY <1>3, RecCells
<1> QED
  BY <1>1, <1>2, <1>3, <1>4, <1>5, ShapeMade

LEMMA ShapeIF ==
  ASSUME NEW s, NEW w, NEW t, More(s, w, t), Fitting(s), Fitting(t),
         NEW k, NEW j, NEW st, NEW l, Shape(s, k, j, st, l),
         w = "IF", NEW c, c = IF_(Rec(k, j, st, l, No))
  PROVE  Went(t, c)
<1>1. w \in Openers /\ w \notin Closers /\ w \in Forwards /\ w # "ELSE" /\ Size(w) = 2
  BY DEF Openers, Closers, Forwards, Size
<1>2. st \in Seq(Int) /\ l \in Seq(Nat) /\ k \in Nat /\ Cell(t, Len(t)) = k + 1
  BY ShapeMore DEF Shape
<1> DEFINE j2  == Aimed(j, {k + 1}, Unresolved)
           st2 == Append(st, k + 1)
<1>3. Jumps(t, j2) /\ Fun(j2)
  BY <1>1, <1>2, PlainJumps
<1>4. c = Forward(Rec(k, j, st, l, No))
  BY DEF IF_
<1>5. HasFailed(c) \/ c = Rec(k + 2, j2, st2, l, No)
  BY <1>2, <1>4, DoneIF
<1>6. /\ st2 \in Seq(Int) /\ Len(st) \in Nat /\ Len(st2) = Len(st) + 1 /\ st2[Len(st) + 1] = k + 1
      /\ SameTo(st, st2, Len(st))
  BY <1>2 DEF SameTo
<1> HIDE DEF j2, st2
<1>7. SameTo(l, l, Len(l)) /\ Len(l) \in Nat
  BY <1>2 DEF SameTo
<1>8. Holds(w, k, Cell(t, Len(t)), k + Size(w), {Cell(t, Len(t))}, {}, st2, l, Len(st), Len(st2), Len(l), Len(l))
  BY <1>2, <1>6, <1>7 DEF Holds, Loops
<1>9. Framed(t, st2, l)
  BY <1>1, <1>2, <1>6, <1>7, <1>8, ShapePushed
<1>10. CASE HasFailed(c)
  BY <1>1, <1>10, OpenerOpens DEF Went
<1>11. CASE c = Rec(k + 2, j2, st2, l, No)
  BY <1>1, <1>2, <1>3, <1>6, <1>9, <1>11, ShapeMade
<1> QED
  BY <1>5, <1>10, <1>11

LEMMA ShapeBEGIN ==
  ASSUME NEW s, NEW w, NEW t, More(s, w, t), Fitting(s), Fitting(t),
         NEW k, NEW j, NEW st, NEW l, Shape(s, k, j, st, l),
         w \in {"BEGIN", "CASE"}, NEW c,
         c = IF w = "BEGIN" THEN BEGIN_(Rec(k, j, st, l, No)) ELSE CASE_(Rec(k, j, st, l, No))
  PROVE  Went(t, c)
<1>1. w \in Openers /\ w \notin Closers /\ w \notin Forwards /\ w # "ELSE" /\ Size(w) = 0 /\ w \notin {"IF", "OF", "?DO"}
  BY DEF Openers, Closers, Forwards, Size
<1>2. st \in Seq(Int) /\ l \in Seq(Nat) /\ k \in Nat
  BY ShapeMore DEF Shape
<1> DEFINE v   == IF w = "BEGIN" THEN k ELSE CS_CASE
           st2 == Append(st, v)
<1>3. Jumps(t, j) /\ Fun(j)
  BY <1>1, PlainJumps
<1>4. c = cpush(Rec(k, j, st, l, No), v) /\ v \in Int
  <2>1. Rec(k, j, st, l, No).cells = k
    BY RecFields
  <2> QED
    BY <1>2, <2>1 DEF BEGIN_, CASE_, CS_CASE
<1>5. HasFailed(c) \/ c = Rec(k, j, st2, l, No)
  <2> HIDE DEF v
  <2> QED
    BY <1>4, RecPush
<1>6. /\ st2 \in Seq(Int) /\ Len(st) \in Nat /\ Len(st2) = Len(st) + 1 /\ st2[Len(st) + 1] = v
      /\ SameTo(st, st2, Len(st))
  <2> HIDE DEF v
  <2> QED
    BY <1>2, <1>4, PushedIs
<1> HIDE DEF st2
<1>7. SameTo(l, l, Len(l)) /\ Len(l) \in Nat
  BY <1>2 DEF SameTo
<1>8. Holds(w, k, Cell(t, Len(t)), k + Size(w), {}, {}, st2, l, Len(st), Len(st2), Len(l), Len(l))
  BY <1>2, <1>6, <1>7 DEF Holds, Loops
<1>9. Framed(t, st2, l)
  BY <1>1, <1>2, <1>6, <1>7, <1>8, ShapePushed
<1>10. CASE HasFailed(c)
  BY <1>1, <1>10, OpenerOpens DEF Went
<1>11. CASE c = Rec(k, j, st2, l, No)
  <2>1. k = k + Size(w)
    BY <1>1, <1>2
  <2> QED
    BY <1>2, <1>3, <1>6, <1>9, <1>11, <2>1, ShapeMade
<1> QED
  BY <1>5, <1>10, <1>11

LEMMA ShapeDO ==
  ASSUME NEW s, NEW w, NEW t, More(s, w, t), Fitting(s), Fitting(t),
         NEW k, NEW j, NEW st, NEW l, Shape(s, k, j, st, l), Len(l) < LEAVES_MAX,
         w = "DO", NEW c, c = DO_(Rec(k, j, st, l, No))
  PROVE  Went(t, c)
<1>1. w \in Openers /\ w \notin Closers /\ w \notin Forwards /\ w # "ELSE" /\ Size(w) = 1 /\ w \notin {"IF", "OF", "?DO"}
  BY DEF Openers, Closers, Forwards, Size
<1>2. st \in Seq(Int) /\ l \in Seq(Nat) /\ k \in Nat
  BY ShapeMore DEF Shape
<1> DEFINE st2 == Append(st, k + 1)
           l2  == Append(l, 0)
<1>3. Jumps(t, j) /\ Fun(j)
  BY <1>1, PlainJumps
<1>5. HasFailed(c) \/ c = Rec(k + 1, j, st2, l2, No)
  BY <1>2, DoneDO
<1>6. /\ st2 \in Seq(Int) /\ Len(st) \in Nat /\ Len(st2) = Len(st) + 1 /\ st2[Len(st) + 1] = k + 1
      /\ SameTo(st, st2, Len(st))
  BY <1>2 DEF SameTo
<1>7. /\ l2 \in Seq(Nat) /\ Len(l) \in Nat /\ Len(l2) = Len(l) + 1 /\ l2[Len(l) + 1] = 0
      /\ SameTo(l, l2, Len(l))
  BY <1>2 DEF SameTo
<1> HIDE DEF st2, l2
<1>8. Holds(w, k, Cell(t, Len(t)), k + Size(w), {}, {}, st2, l2, Len(st), Len(st2), Len(l), Len(l2))
  <2>1. {l2[i] : i \in Len(l) + 2 .. Len(l2)} = {}
    BY <1>7
  <2> QED
    BY <1>1, <1>2, <1>6, <1>7, <2>1 DEF Holds, Loops
<1>9. Framed(t, st2, l2)
  BY <1>1, <1>2, <1>6, <1>7, <1>8, ShapePushed
<1>10. CASE HasFailed(c)
  BY <1>1, <1>10, OpenerOpens DEF Went
<1>11. CASE c = Rec(k + 1, j, st2, l2, No)
  BY <1>1, <1>2, <1>3, <1>6, <1>7, <1>9, <1>11, ShapeMade
<1> QED
  BY <1>5, <1>10, <1>11

LEMMA ShapeQDO ==
  ASSUME NEW s, NEW w, NEW t, More(s, w, t), Fitting(s), Fitting(t),
         NEW k, NEW j, NEW st, NEW l, Shape(s, k, j, st, l), Len(l) < LEAVES_MAX,
         w = "?DO", NEW c, c = QDO_(Rec(k, j, st, l, No))
  PROVE  Went(t, c)
<1>1. w \in Openers /\ w \notin Closers /\ w \in Forwards /\ w # "ELSE" /\ Size(w) = 2
  BY DEF Openers, Closers, Forwards, Size
<1>2. st \in Seq(Int) /\ l \in Seq(Nat) /\ k \in Nat /\ Cell(t, Len(t)) = k + 1
  BY ShapeMore DEF Shape
<1> DEFINE j2  == Aimed(j, {k + 1}, Unresolved)
           sa  == Append(st, k + 1)
           sb  == Append(sa, k + 2)
           st2 == Append(sb, CS_QDO)
           l2  == Append(l, 0)
<1>3. Jumps(t, j2) /\ Fun(j2)
  BY <1>1, <1>2, PlainJumps
<1>5. HasFailed(c) \/ c = Rec(k + 2, j2, st2, l2, No)
  BY <1>2, DoneQDO
<1>4. CS_QDO \in Int
  BY DEF CS_QDO
<1>12. /\ sa \in Seq(Int) /\ Len(st) \in Nat /\ Len(sa) = Len(st) + 1 /\ sa[Len(st) + 1] = k + 1
       /\ SameTo(st, sa, Len(st))
  BY <1>2 DEF SameTo
<1> HIDE DEF sa
<1>13. sb \in Seq(Int) /\ Len(sb) = Len(sa) + 1 /\ sb[Len(sa) + 1] = k + 2 /\ SameTo(sa, sb, Len(sa))
  BY <1>2, <1>12 DEF SameTo
<1> HIDE DEF sb
<1>14. st2 \in Seq(Int) /\ Len(st2) = Len(sb) + 1 /\ st2[Len(sb) + 1] = CS_QDO /\ SameTo(sb, st2, Len(sb))
  BY <1>4, <1>13 DEF SameTo
<1>7. /\ l2 \in Seq(Nat) /\ Len(l) \in Nat /\ Len(l2) = Len(l) + 1 /\ l2[Len(l) + 1] = 0
      /\ SameTo(l, l2, Len(l))
  BY <1>2 DEF SameTo
<1> HIDE DEF j2, st2, l2
<1>6. /\ Len(st2) = Len(st) + 3 /\ st2[Len(st) + 1] = k + 1 /\ st2[Len(st) + 2] = k + 2 /\ st2[Len(st) + 3] = CS_QDO
      /\ SameTo(st, st2, Len(st))
  <2>1. Len(sa) = Len(st) + 1 /\ Len(sb) = Len(st) + 2 /\ Len(st2) = Len(st) + 3 /\ Len(st2) \in Nat
    BY <1>12, <1>13, <1>14
  <2>2. \A i \in 1 .. Len(st) + 1 : i \in 1 .. Len(sa) /\ i \in 1 .. Len(sb)
    BY <1>12, <2>1
  <2>3. \A i \in 1 .. Len(st) : i \in 1 .. Len(st) + 1
    BY <1>12
  <2>4. \A i \in 1 .. Len(st) + 1 : st2[i] = sa[i]
    BY <1>13, <1>14, <2>2 DEF SameTo
  <2>5. \A i \in 1 .. Len(st) : st2[i] = st[i]
    BY <1>12, <2>3, <2>4 DEF SameTo
  <2>6. st2[Len(st) + 1] = k + 1
    BY <1>12, <2>4
  <2>7. st2[Len(st) + 2] = k + 2
    <3>1. Len(st) + 2 \in 1 .. Len(sb) /\ Len(sa) + 1 = Len(st) + 2
      BY <1>12, <2>1
    <3> QED
      BY <1>13, <1>14, <3>1 DEF SameTo
  <2>8. st2[Len(st) + 3] = CS_QDO
    <3>1. Len(sb) + 1 = Len(st) + 3
      BY <1>12, <2>1
    <3> QED
      BY <1>14, <3>1
  <2> QED
    BY <2>1, <2>5, <2>6, <2>7, <2>8 DEF SameTo
<1>8. Holds(w, k, Cell(t, Len(t)), k + Size(w), {Cell(t, Len(t))}, {}, st2, l2, Len(st), Len(st2), Len(l), Len(l2))
  <2>1. {l2[i] : i \in Len(l) + 2 .. Len(l2)} = {}
    BY <1>7
  <2> QED
    BY <1>1, <1>2, <1>6, <1>7, <1>12, <2>1, SMTT(20) DEF Holds, Loops
<1>9. Framed(t, st2, l2)
  BY <1>1, <1>2, <1>6, <1>7, <1>8, <1>14, ShapePushed
<1>10. CASE HasFailed(c)
  BY <1>1, <1>10, OpenerOpens DEF Went
<1>11. CASE c = Rec(k + 2, j2, st2, l2, No)
  BY <1>1, <1>2, <1>3, <1>7, <1>9, <1>11, <1>14, ShapeMade
<1> QED
  BY <1>5, <1>10, <1>11

LEMMA ShapeOF ==
  ASSUME NEW s, NEW w, NEW t, More(s, w, t), Fitting(s), Fitting(t),
         NEW k, NEW j, NEW st, NEW l, Shape(s, k, j, st, l),
         w = "OF", NEW c, c = OF_(Rec(k, j, st, l, No))
  PROVE  Went(t, c)
<1>1. w \in Openers /\ w \notin Closers /\ w \in Forwards /\ w # "ELSE" /\ Size(w) = 5
  BY DEF Openers, Closers, Forwards, Size
<1>2. st \in Seq(Int) /\ l \in Seq(Nat) /\ k \in Nat /\ Cell(t, Len(t)) = k + 3
  BY ShapeMore DEF Shape
<1> DEFINE j2  == Aimed(j, {k + 3}, Unresolved)
           st2 == Append(st, k + 3)
<1>3. Jumps(t, j2) /\ Fun(j2)
  BY <1>1, <1>2, PlainJumps
<1>5. HasFailed(c) \/ c = Rec(k + 5, j2, st2, l, No)
  BY <1>2, DoneOF
<1>6. /\ st2 \in Seq(Int) /\ Len(st) \in Nat /\ Len(st2) = Len(st) + 1 /\ st2[Len(st) + 1] = k + 3
      /\ SameTo(st, st2, Len(st))
  BY <1>2 DEF SameTo
<1> HIDE DEF j2, st2
<1>7. SameTo(l, l, Len(l)) /\ Len(l) \in Nat
  BY <1>2 DEF SameTo
<1>8. Holds(w, k, Cell(t, Len(t)), k + Size(w), {Cell(t, Len(t))}, {}, st2, l, Len(st), Len(st2), Len(l), Len(l))
  BY <1>2, <1>6, <1>7 DEF Holds, Loops
<1>9. Framed(t, st2, l)
  BY <1>1, <1>2, <1>6, <1>7, <1>8, ShapePushed
<1>10. CASE HasFailed(c)
  BY <1>1, <1>10, OpenerOpens DEF Went
<1>11. CASE c = Rec(k + 5, j2, st2, l, No)
  BY <1>1, <1>2, <1>3, <1>6, <1>9, <1>11, ShapeMade
<1> QED
  BY <1>5, <1>10, <1>11

LEMMA PastIs ==
  ASSUME NEW s \in Seq(AllWords), NEW P \in 1 .. Len(s)
  PROVE  Past(s, P) = Before(s)[P] + Size(s[P]) /\ Before(s)[P] \in Nat
<1>1. Len(s) \in Nat /\ P \in 1 .. Len(s) + 1
  OBVIOUS
<1> QED
  BY <1>1, BeforeTurns DEF Past

\* What is on top of the stacks when the next word belongs to the innermost structure.
LEMMA TopHolds ==
  ASSUME NEW s, NEW w, NEW t, More(s, w, t), Fitting(s), Fitting(t), w \in Belonging \ {"LEAVE"},
         NEW k, NEW j, NEW st, NEW l, Shape(s, k, j, st, l),
         NEW P, P = Inner(s, Len(s)), NEW d, d = Len(OpenAfter(s)[Len(s)])
  PROVE  /\ P \in 1 .. Len(s) /\ s[P] \in OpenedBy(w) /\ d \in Nat \ {0}
         /\ Len(st) \in Nat /\ Len(l) \in Nat
         /\ \E at, lat : /\ Frames(s, st, l, at, lat)
                         /\ at[d] \in Nat /\ lat[d] \in Nat /\ at[d] <= Len(st) /\ lat[d] <= Len(l)
                         /\ Frame(s, st, l, P, at[d], Len(st), lat[d], Len(l))
<1>1. OpenAfter(s)[Len(s)] # <<>> /\ P \in 1 .. Len(s) /\ s[P] \in OpenedBy(w)
  BY Innermost
<1>2. s \in Seq(AllWords)
  BY DEF More
<1> PICK at, lat : Frames(s, st, l, at, lat)
  BY DEF Shape, Framed
<1>3. /\ d \in Nat \ {0} /\ at[d] \in Nat /\ lat[d] \in Nat /\ Len(st) \in Nat /\ Len(l) \in Nat
      /\ at[d] <= Len(st) /\ lat[d] <= Len(l)
      /\ Frame(s, st, l, P, at[d], Len(st), lat[d], Len(l))
  BY <1>1, <1>2, TopFrame
<1> QED
  BY <1>1, <1>3

\* The jumps after a word that resolves others.
AfterJumps(s, w, j, k) ==
  LET slots == CellsOf(s, Waiting(s, Inner(s, Len(s))))
  IN  IF w \in Backs THEN Aimed(Aimed(j, {k + 1}, Past(s, Inner(s, Len(s)))), slots, k + Size(w))
      ELSE IF w \in Forwards THEN Aimed(Aimed(j, {k + 1}, Unresolved), slots, k + Size(w))
      ELSE Aimed(j, slots, k + Size(w))

LEMMA ResolvedJumps ==
  ASSUME NEW s, NEW w, NEW t, More(s, w, t), Fitting(s), Fitting(t), w \in Closers \cup {"ELSE"},
         NEW k, NEW j, NEW st, NEW l, Shape(s, k, j, st, l), NEW j2, j2 = AfterJumps(s, w, j, k)
  PROVE  Jumps(t, j2) /\ Fun(j2)
<1> DEFINE slots == CellsOf(s, Waiting(s, Inner(s, Len(s))))
<1>1. w # "OF"
  BY DEF Closers
<1>2. k \in Nat /\ Past(t, Len(t)) = k + Size(w) /\ Cell(t, Len(t)) = k + 1
  BY <1>1, ShapeMore
<1>3. CellsOf(s, ResolvedBy(s, w)) = slots
  BY DEF ResolvedBy
<1>4. Jumps(s, j)
  BY DEF Shape
<1> HIDE DEF slots
<1>5. CASE w \in Backs
  <2>1. j2 = Aimed(Aimed(j, {k + 1}, Past(s, Inner(s, Len(s)))), slots, k + Size(w))
    BY <1>5 DEF AfterJumps, slots
  <2>2. j2 = Aimed(Aimed(j, {Cell(t, Len(t))}, Past(s, Inner(s, Len(s)))),
                   CellsOf(s, ResolvedBy(s, w)), Past(t, Len(t)))
    BY <1>2, <1>3, <2>1
  <2> QED
    BY <1>4, <1>5, <2>2, AimsBoth
<1>6. CASE w \notin Backs /\ w \in Forwards
  <2>1. j2 = Aimed(Aimed(j, {k + 1}, Unresolved), slots, k + Size(w))
    BY <1>6 DEF AfterJumps, slots
  <2>2. j2 = Aimed(Aimed(j, {Cell(t, Len(t))}, Unresolved), CellsOf(s, ResolvedBy(s, w)), Past(t, Len(t)))
    BY <1>2, <1>3, <2>1
  <2> QED
    BY <1>4, <1>6, <2>2, AimsBoth
<1>7. CASE w \notin Backs /\ w \notin Forwards
  <2>1. j2 = Aimed(j, slots, k + Size(w))
    BY <1>7 DEF AfterJumps, slots
  <2>2. j2 = Aimed(j, CellsOf(s, ResolvedBy(s, w)), Past(t, Len(t)))
    BY <1>2, <1>3, <2>1
  <2> QED
    BY <1>4, <1>7, <2>2, AimsOnly
<1> QED
  BY <1>5, <1>6, <1>7

\* A word that closes the innermost structure leaves what was below it on the stacks.
LEMMA ShapeClosed ==
  ASSUME NEW s, NEW w, NEW t, More(s, w, t), Fitting(s), Fitting(t), w \in Closers, w \notin Forwards,
         NEW k, NEW j, NEW st, NEW l, Shape(s, k, j, st, l),
         NEW d, d = Len(OpenAfter(s)[Len(s)]), d # 0,
         NEW at, NEW lat, Frames(s, st, l, at, lat),
         NEW st2 \in Seq(Int), NEW l2 \in Seq(Nat), SameTo(st, st2, at[d]), SameTo(l, l2, lat[d]),
         Len(st2) = at[d], Len(l2) = lat[d],
         NEW k2, k2 = k + Size(w),
         NEW j2, j2 = AfterJumps(s, w, j, k), NEW c, c = Rec(k2, j2, st2, l2, No)
  PROVE  Went(t, c)
<1>1. Jumps(t, j2) /\ Fun(j2)
  BY ResolvedJumps
<1>2. Framed(t, st2, l2)
  BY FramePopped
<1> QED
  BY <1>1, <1>2, ShapeMade

\* The stack without its top.
LEMMA PoppedIs ==
  ASSUME NEW st \in Seq(Int), NEW a \in Nat, Len(st) = a + 1
  PROVE  /\ st # <<>> /\ Front(st) \in Seq(Int) /\ Len(Front(st)) = a /\ SameTo(st, Front(st), a)
         /\ Last(st) = st[a + 1] /\ Last(st) \in Int
BY FrontIs DEF SameTo

LEMMA ShapeTHEN ==
  ASSUME NEW s, NEW w, NEW t, More(s, w, t), Fitting(s), Fitting(t),
         NEW k, NEW j, NEW st, NEW l, Shape(s, k, j, st, l),
         w = "THEN", NEW c, c = THEN_(Rec(k, j, st, l, No))
  PROVE  Went(t, c)
<1>1. w \in Closers /\ w \notin Forwards /\ w \notin Backs /\ w \in Belonging \ {"LEAVE"} /\ Size(w) = 0 /\ OpenedBy(w) = {"IF"}
  BY DEF Closers, Forwards, Backs, Belonging, Size, OpenedBy
<1> PICK P, d : P = Inner(s, Len(s)) /\ d = Len(OpenAfter(s)[Len(s)])
  OBVIOUS
<1>2. P \in 1 .. Len(s) /\ s[P] = "IF" /\ d \in Nat \ {0} /\ Len(st) \in Nat /\ Len(l) \in Nat
  BY <1>1, TopHolds
<1> PICK at, lat : /\ Frames(s, st, l, at, lat)
                   /\ at[d] \in Nat /\ lat[d] \in Nat /\ at[d] <= Len(st) /\ lat[d] <= Len(l)
                   /\ Frame(s, st, l, P, at[d], Len(st), lat[d], Len(l))
  BY <1>1, TopHolds
<1>3. st \in Seq(Int) /\ l \in Seq(Nat) /\ k \in Nat
  BY ShapeMore DEF Shape
<1>4. Len(st) = at[d] + 1 /\ CellsOf(s, Waiting(s, P)) = {st[Len(st)]} /\ lat[d] = Len(l)
  BY <1>2 DEF Frame, Holds, Loops
<1>5. /\ st # <<>> /\ Front(st) \in Seq(Int) /\ Len(Front(st)) = at[d] /\ SameTo(st, Front(st), at[d])
      /\ Last(st) = st[at[d] + 1]
  BY <1>3, <1>4, PoppedIs
<1>6. c = Rec(k, Aimed(j, {Last(st)}, k), Front(st), l, No)
  BY <1>3, <1>5, DoneTHEN
<1>7. k = k + Size(w)
  BY <1>1, <1>3
<1>8. Aimed(j, {Last(st)}, k) = AfterJumps(s, w, j, k)
  BY <1>1, <1>4, <1>5, <1>7 DEF AfterJumps
<1>9. SameTo(l, l, lat[d])
  BY <1>3 DEF SameTo
<1> QED
  BY <1>1, <1>2, <1>3, <1>4, <1>5, <1>6, <1>7, <1>8, <1>9, ShapeClosed

LEMMA ShapeUNTIL ==
  ASSUME NEW s, NEW w, NEW t, More(s, w, t), Fitting(s), Fitting(t),
         NEW k, NEW j, NEW st, NEW l, Shape(s, k, j, st, l),
         w \in {"UNTIL", "AGAIN"}, NEW c, c = UNTIL_(Rec(k, j, st, l, No))
  PROVE  Went(t, c)
<1>1. w \in Closers /\ w \notin Forwards /\ w \in Backs /\ w \in Belonging \ {"LEAVE"} /\ Size(w) = 2 /\ OpenedBy(w) = {"BEGIN"}
  BY DEF Closers, Forwards, Backs, Belonging, Size, OpenedBy
<1> PICK P, d : P = Inner(s, Len(s)) /\ d = Len(OpenAfter(s)[Len(s)])
  OBVIOUS
<1>2. P \in 1 .. Len(s) /\ s[P] = "BEGIN" /\ d \in Nat \ {0} /\ Len(st) \in Nat /\ Len(l) \in Nat
  BY <1>1, TopHolds
<1> PICK at, lat : /\ Frames(s, st, l, at, lat)
                   /\ at[d] \in Nat /\ lat[d] \in Nat /\ at[d] <= Len(st) /\ lat[d] <= Len(l)
                   /\ Frame(s, st, l, P, at[d], Len(st), lat[d], Len(l))
  BY <1>1, TopHolds
<1>3. st \in Seq(Int) /\ l \in Seq(Nat) /\ k \in Nat /\ s \in Seq(AllWords)
  BY ShapeMore DEF Shape, More
<1>10. CellsOf(s, Waiting(s, P)) = {}
  <2>1. Waiting(s, P) = {}
    BY WhileWaits
  <2> QED
    BY <2>1 DEF CellsOf
<1>4. Len(st) = at[d] + 1 /\ st[at[d] + 1] = Before(s)[P] /\ lat[d] = Len(l)
  BY <1>2, <1>10 DEF Frame, Holds, Loops
<1>11. Past(s, P) = Before(s)[P]
  <2>1. Past(s, P) = Before(s)[P] + Size(s[P]) /\ Before(s)[P] \in Nat
    BY <1>2, <1>3, PastIs
  <2>2. Size(s[P]) = 0
    BY <1>2 DEF Size
  <2> QED
    BY <2>1, <2>2
<1>5. /\ st # <<>> /\ Front(st) \in Seq(Int) /\ Len(Front(st)) = at[d] /\ SameTo(st, Front(st), at[d])
      /\ Last(st) = Past(s, P)
  BY <1>3, <1>4, <1>11, PoppedIs
<1>6. c = Rec(k + 2, Aimed(j, {k + 1}, Last(st)), Front(st), l, No)
  BY <1>3, <1>5, DoneUNTIL
<1>7. k + 2 = k + Size(w)
  BY <1>1, <1>3
<1>8. Aimed(j, {k + 1}, Last(st)) = AfterJumps(s, w, j, k)
  <2> DEFINE m == Aimed(j, {k + 1}, Past(s, P))
  <2>1. Fun(m)
    BY AimedFun
  <2>2. AfterJumps(s, w, j, k) = Aimed(m, {}, k + Size(w))
    BY <1>1, <1>10 DEF AfterJumps
  <2> HIDE DEF m
  <2>3. Aimed(m, {}, k + Size(w)) = [y \in DOMAIN m |-> m[y]]
    BY DEF Aimed
  <2>4. AfterJumps(s, w, j, k) = m
    BY <2>1, <2>2, <2>3 DEF Fun
  <2> QED
    BY <1>5, <2>4 DEF m
<1>9. SameTo(l, l, lat[d])
  BY <1>3 DEF SameTo
<1> QED
  BY <1>1, <1>2, <1>3, <1>4, <1>5, <1>6, <1>7, <1>8, <1>9, ShapeClosed

LEMMA ShapeREPEAT ==
  ASSUME NEW s, NEW w, NEW t, More(s, w, t), Fitting(s), Fitting(t),
         NEW k, NEW j, NEW st, NEW l, Shape(s, k, j, st, l),
         w = "REPEAT", NEW c, c = REPEAT_(Rec(k, j, st, l, No))
  PROVE  Went(t, c)
<1>1. w \in Closers /\ w \notin Forwards /\ w \in Backs /\ w \in Belonging \ {"LEAVE"} /\ Size(w) = 2 /\ OpenedBy(w) = {"BEGIN"}
  BY DEF Closers, Forwards, Backs, Belonging, Size, OpenedBy
<1> PICK P, d : P = Inner(s, Len(s)) /\ d = Len(OpenAfter(s)[Len(s)])
  OBVIOUS
<1>2. P \in 1 .. Len(s) /\ s[P] = "BEGIN" /\ d \in Nat \ {0} /\ Len(st) \in Nat /\ Len(l) \in Nat
  BY <1>1, TopHolds
<1> PICK at, lat : /\ Frames(s, st, l, at, lat)
                   /\ at[d] \in Nat /\ lat[d] \in Nat /\ at[d] <= Len(st) /\ lat[d] <= Len(l)
                   /\ Frame(s, st, l, P, at[d], Len(st), lat[d], Len(l))
  BY <1>1, TopHolds
<1>3. st \in Seq(Int) /\ l \in Seq(Nat) /\ k \in Nat /\ s \in Seq(AllWords)
  BY ShapeMore, ZenonT(40) DEF Shape, More
<1>10. CellsOf(s, Waiting(s, P)) # {}
  <2>1. Waiting(s, P) # {}
    BY WhileWaits
  <2> QED
    BY <2>1 DEF CellsOf
<1>4. /\ Len(st) = at[d] + 2 /\ st[at[d] + 1] = Before(s)[P] /\ lat[d] = Len(l)
      /\ CellsOf(s, Waiting(s, P)) = {st[at[d] + 2]}
  BY <1>2, <1>10 DEF Frame, Holds, Loops
<1>11. Past(s, P) = Before(s)[P]
  <2>1. Past(s, P) = Before(s)[P] + Size(s[P]) /\ Before(s)[P] \in Nat
    BY <1>2, <1>3, PastIs
  <2>2. Size(s[P]) = 0
    BY <1>2 DEF Size
  <2> QED
    BY <2>1, <2>2
<1> DEFINE sa == Front(st)
           sb == Front(sa)
<1>5. /\ st # <<>> /\ sa \in Seq(Int) /\ Len(sa) = at[d] + 1 /\ SameTo(st, sa, at[d] + 1)
      /\ Last(st) = st[at[d] + 2]
  <2>1. at[d] + 1 \in Nat /\ Len(st) = (at[d] + 1) + 1 /\ (at[d] + 1) + 1 = at[d] + 2
    BY <1>4
  <2> QED
    BY <1>3, <2>1, PoppedIs
<1> HIDE DEF sa
<1>12. /\ sa # <<>> /\ sb \in Seq(Int) /\ Len(sb) = at[d] /\ SameTo(sa, sb, at[d])
       /\ Last(sa) = sa[at[d] + 1]
  BY <1>5, PoppedIs
<1>13. Last(sa) = Past(s, P) /\ SameTo(st, sb, at[d])
  <2>1. sa[at[d] + 1] = st[at[d] + 1]
    BY <1>5, SMTT(20) DEF SameTo
  <2>2. \A i \in 1 .. at[d] : i \in 1 .. at[d] + 1
    OBVIOUS
  <2>3. SameTo(st, sb, at[d])
    BY <1>5, <1>12, <2>2 DEF SameTo
  <2> QED
    BY <1>4, <1>11, <1>12, <2>1, <2>3
<1>6. c = Rec(k + 2, Aimed(Aimed(j, {k + 1}, Last(sa)), {Last(st)}, k + 2), sb, l, No)
  BY <1>3, <1>5, <1>12, DoneREPEAT, ZenonT(40) DEF sa
<1> HIDE DEF sb
<1>7. k + 2 = k + Size(w)
  BY <1>1, <1>3
<1>8. Aimed(Aimed(j, {k + 1}, Last(sa)), {Last(st)}, k + 2) = AfterJumps(s, w, j, k)
  BY <1>1, <1>4, <1>5, <1>7, <1>13 DEF AfterJumps
<1>9. SameTo(l, l, lat[d])
  BY <1>3 DEF SameTo
<1> QED
  BY <1>1, <1>2, <1>3, <1>4, <1>6, <1>7, <1>8, <1>9, <1>12, <1>13, ShapeClosed

\* The lowest n of a stack.
LEMMA LowestIs ==
  ASSUME NEW S, NEW l \in Seq(S), NEW n \in Nat, n <= Len(l)
  PROVE  SubSeq(l, 1, n) \in Seq(S) /\ Len(SubSeq(l, 1, n)) = n /\ SameTo(l, SubSeq(l, 1, n), n)
<1>1. Len(l) \in Nat /\ \A i \in 1 .. Len(l) : l[i] \in S
  OBVIOUS
<1>2. SubSeq(l, 1, n) \in Seq(S) /\ Len(SubSeq(l, 1, n)) = n /\ \A i \in 1 .. n : SubSeq(l, 1, n)[i] = l[i]
  BY <1>1
<1> QED
  BY <1>2 DEF SameTo

\* The jumps of what waits, by their cells.
LEMMA WaitingCells ==
  ASSUME NEW s \in Seq(AllWords), NEW P, NEW S \in SUBSET Waiting(s, P)
  PROVE  \A x \in CellsOf(s, S) : x \in Nat /\ x > 0
<1>1. \A p \in S : p \in Jumping(s)
  BY DEF Waiting, Jumping
<1>2. \A p \in S : Cell(s, p) \in Nat /\ Cell(s, p) > 0
  BY <1>1, CellWithin
<1> QED
  BY <1>2 DEF CellsOf

\* The part of a loop on the stack of LEAVEs.
LEMMA LoopLeaves ==
  ASSUME NEW s \in Seq(AllWords), NEW P, NEW l \in Seq(Nat), NEW x \in Nat, x < Len(l), l[x + 1] = 0,
         NEW mine, mine = CellsOf(s, Waiting(s, P) \ {P}), mine = {l[i] : i \in x + 2 .. Len(l)}
  PROVE  Zero(l, x + 1) /\ Left(l, x + 1) = mine
<1>1. Waiting(s, P) \ {P} \in SUBSET Waiting(s, P)
  OBVIOUS
<1>7. \A y \in CellsOf(s, Waiting(s, P) \ {P}) : y \in Nat /\ y > 0
  BY <1>1, WaitingCells
<1>8. \A y \in mine : y \in Nat /\ y > 0
  BY <1>7, Zenon
<1>2. \A y \in mine : y # 0
  <2> TAKE y \in mine
  <2>1. y \in Nat /\ y > 0
    BY <1>8, Zenon
  <2> QED
    BY <2>1
<1>3. \A i \in x + 2 .. Len(l) : l[i] # 0
  BY <1>2
<1>4. (x + 1) + 1 = x + 2 /\ x + 1 \in 1 .. Len(l)
  OBVIOUS
<1>5. Zero(l, x + 1)
  BY <1>3, <1>4 DEF Zero
<1>6. Left(l, x + 1) = mine
  BY <1>4 DEF Left
<1> QED
  BY <1>5, <1>6

LEMMA ShapeLOOP ==
  ASSUME NEW s, NEW w, NEW t, More(s, w, t), Fitting(s), Fitting(t),
         NEW k, NEW j, NEW st, NEW l, Shape(s, k, j, st, l),
         w = "LOOP", NEW c, c = LOOP_(Rec(k, j, st, l, No))
  PROVE  Went(t, c)
<1>1. w \in Closers /\ w \notin Forwards /\ w \in Backs /\ w \in Belonging \ {"LEAVE"} /\ Size(w) = 2 /\ OpenedBy(w) = Loops
  BY DEF Closers, Forwards, Backs, Belonging, Size, OpenedBy
<1> PICK P, d : P = Inner(s, Len(s)) /\ d = Len(OpenAfter(s)[Len(s)])
  OBVIOUS
<1>2. P \in 1 .. Len(s) /\ s[P] \in Loops /\ d \in Nat \ {0} /\ Len(st) \in Nat /\ Len(l) \in Nat
  BY <1>1, TopHolds
<1> PICK at, lat : /\ Frames(s, st, l, at, lat)
                   /\ at[d] \in Nat /\ lat[d] \in Nat /\ at[d] <= Len(st) /\ lat[d] <= Len(l)
                   /\ Frame(s, st, l, P, at[d], Len(st), lat[d], Len(l))
  BY <1>1, TopHolds
<1>3. st \in Seq(Int) /\ l \in Seq(Nat) /\ k \in Nat /\ s \in Seq(AllWords)
  BY ShapeMore, ZenonT(40) DEF Shape, More
<1> DEFINE mine == CellsOf(s, Waiting(s, P) \ {P})
<1>4. lat[d] < Len(l) /\ l[lat[d] + 1] = 0 /\ mine = {l[i] : i \in lat[d] + 2 .. Len(l)}
  BY <1>2 DEF Frame, Holds
<1>5. Zero(l, lat[d] + 1) /\ Left(l, lat[d] + 1) = mine
  BY <1>3, <1>4, LoopLeaves, Zenon
<1>6. Past(s, P) \in Nat /\ Before(s)[P] \in Nat
  <2>1. Past(s, P) = Before(s)[P] + Size(s[P]) /\ Before(s)[P] \in Nat
    BY <1>2, <1>3, PastIs
  <2> QED
    BY <2>1, Sizes
<1> DEFINE l2 == SubSeq(l, 1, (lat[d] + 1) - 1)
<1>7. l2 \in Seq(Nat) /\ Len(l2) = lat[d] /\ SameTo(l, l2, lat[d])
  <2>1. (lat[d] + 1) - 1 = lat[d]
    OBVIOUS
  <2> QED
    BY <1>3, <2>1, LowestIs
<1>8. k + 2 = k + Size(w)
  BY <1>1, <1>3
<1>9. AfterJumps(s, w, j, k) = Aimed(Aimed(j, {k + 1}, Past(s, P)), CellsOf(s, Waiting(s, P)), k + Size(w))
  BY <1>1 DEF AfterJumps
<1> HIDE DEF mine, l2
<1>10. CASE s[P] = "DO"
  <2>1. Len(st) = at[d] + 1 /\ st[at[d] + 1] = Past(s, P)
    BY <1>10 DEF Frame, Holds
  <2>2. /\ st # <<>> /\ Front(st) \in Seq(Int) /\ Len(Front(st)) = at[d] /\ SameTo(st, Front(st), at[d])
        /\ Last(st) = Past(s, P)
    BY <1>3, <2>1, PoppedIs
  <2>3. Last(st) # CS_QDO
    BY <1>6, <2>2 DEF CS_QDO
  <2>4. c = Rec(k + 2, Aimed(Aimed(j, {k + 1}, Last(st)), mine, k + 2), Front(st), l2, No)
    <3>1. c = Rec(k + 2, Aimed(Aimed(j, {k + 1}, Last(st)), Left(l, lat[d] + 1), k + 2), Front(st),
                  SubSeq(l, 1, (lat[d] + 1) - 1), No)
      BY <1>3, <1>5, <2>2, <2>3, DoneLOOP
    <3> QED
      BY <1>5, <3>1 DEF l2
  <2>5. Waiting(s, P) \ {P} = Waiting(s, P)
    BY <1>10 DEF Waiting, Forwards
  <2>6. Aimed(Aimed(j, {k + 1}, Last(st)), mine, k + 2) = AfterJumps(s, w, j, k)
    BY <1>8, <1>9, <2>2, <2>5 DEF mine
  <2> QED
    BY <1>1, <1>2, <1>7, <1>8, <2>2, <2>4, <2>6, ShapeClosed
<1>11. CASE s[P] = "?DO"
  <2>1. Len(st) = at[d] + 3 /\ st[at[d] + 1] = Cell(s, P) /\ st[at[d] + 2] = Past(s, P) /\ st[at[d] + 3] = CS_QDO
    BY <1>11 DEF Frame, Holds
  <2> DEFINE sa == Front(st)
             sb == Front(sa)
             sc == Front(sb)
  <2>2. /\ st # <<>> /\ sa \in Seq(Int) /\ Len(sa) = at[d] + 2 /\ SameTo(st, sa, at[d] + 2)
        /\ Last(st) = CS_QDO
    <3>1. at[d] + 2 \in Nat /\ Len(st) = (at[d] + 2) + 1 /\ (at[d] + 2) + 1 = at[d] + 3
      BY <2>1, SMTT(20)
    <3> QED
      BY <1>3, <2>1, <3>1, PoppedIs
  <2> HIDE DEF sa
  <2>3. /\ sa # <<>> /\ sb \in Seq(Int) /\ Len(sb) = at[d] + 1 /\ SameTo(sa, sb, at[d] + 1)
        /\ Last(sa) = sa[at[d] + 2]
    <3>1. at[d] + 1 \in Nat /\ Len(sa) = (at[d] + 1) + 1 /\ (at[d] + 1) + 1 = at[d] + 2
      BY <2>2, SMTT(20)
    <3> QED
      BY <2>2, <3>1, PoppedIs
  <2> HIDE DEF sb
  <2>4. /\ sb # <<>> /\ sc \in Seq(Int) /\ Len(sc) = at[d] /\ SameTo(sb, sc, at[d])
        /\ Last(sb) = sb[at[d] + 1]
    BY <2>3, PoppedIs
  <2>5. c = Rec(k + 2, Aimed(Aimed(Aimed(j, {k + 1}, Last(sa)), {Last(sb)}, k + 2), mine, k + 2), sc, l2, No)
    <3>1. ThreeFound(st)
      BY <2>2, <2>3, <2>4 DEF sa, sb, ThreeFound
    <3>2. c = QLooped(k, j, st, l, lat[d] + 1)
      BY <1>3, <1>5, <3>1, DoneQLOOP
    <3>3. l2 = SubSeq(l, 1, (lat[d] + 1) - 1)
      BY DEF l2
    <3> QED
      BY <1>5, <3>2, <3>3, Zenon DEF sa, sb, sc, QLooped
  <2> HIDE DEF sc
  <2>6. Last(sa) = Past(s, P) /\ Last(sb) = Cell(s, P) /\ SameTo(st, sc, at[d])
    <3>1. at[d] + 2 \in 1 .. at[d] + 2 /\ at[d] + 1 \in 1 .. at[d] + 1 /\ at[d] + 1 \in 1 .. at[d] + 2
      OBVIOUS
    <3>2. sa[at[d] + 2] = st[at[d] + 2] /\ sb[at[d] + 1] = sa[at[d] + 1] /\ sa[at[d] + 1] = st[at[d] + 1]
      BY <2>2, <2>3, <3>1 DEF SameTo
    <3>3. \A i \in 1 .. at[d] : i \in 1 .. at[d] + 1 /\ i \in 1 .. at[d] + 2
      OBVIOUS
    <3>4. SameTo(st, sc, at[d])
      BY <2>2, <2>3, <2>4, <3>3 DEF SameTo
    <3> QED
      BY <2>1, <2>3, <2>4, <3>2, <3>4
  <2>7. CellsOf(s, Waiting(s, P)) = mine \cup {Cell(s, P)}
    <3>1. P \in Waiting(s, P)
      BY <1>2, <1>11 DEF Waiting, Forwards, WaitsFor
    <3> QED
      BY <3>1 DEF mine, CellsOf
  <2>8. Aimed(Aimed(Aimed(j, {k + 1}, Last(sa)), {Last(sb)}, k + 2), mine, k + 2) = AfterJumps(s, w, j, k)
    <3> DEFINE m == Aimed(j, {k + 1}, Past(s, P))
    <3>1. AfterJumps(s, w, j, k) = Aimed(m, mine \cup {Cell(s, P)}, k + 2)
      BY <1>8, <1>9, <2>7
    <3>2. Aimed(Aimed(Aimed(j, {k + 1}, Last(sa)), {Last(sb)}, k + 2), mine, k + 2) =
            Aimed(Aimed(m, {Cell(s, P)}, k + 2), mine, k + 2)
      BY <2>6
    <3> HIDE DEF m
    <3>3. Aimed(Aimed(m, {Cell(s, P)}, k + 2), mine, k + 2) = Aimed(m, mine \cup {Cell(s, P)}, k + 2)
      BY AimedTwice
    <3> QED
      BY <3>1, <3>2, <3>3
  <2> QED
    BY <1>1, <1>2, <1>7, <1>8, <2>4, <2>5, <2>6, <2>8, ShapeClosed
<1>12. s[P] = "DO" \/ s[P] = "?DO"
  BY <1>2 DEF Loops
<1> QED
  BY <1>10, <1>11, <1>12

LEMMA ShapeENDCASE ==
  ASSUME NEW s, NEW w, NEW t, More(s, w, t), Fitting(s), Fitting(t),
         NEW k, NEW j, NEW st, NEW l, Shape(s, k, j, st, l),
         w = "ENDCASE", NEW c, c = ENDCASE_(Rec(k, j, st, l, No))
  PROVE  Went(t, c)
<1>1. w \in Closers /\ w \notin Forwards /\ w \notin Backs /\ w \in Belonging \ {"LEAVE"} /\ Size(w) = 1 /\ OpenedBy(w) = {"CASE"}
  BY DEF Closers, Forwards, Backs, Belonging, Size, OpenedBy
<1> PICK P, d : P = Inner(s, Len(s)) /\ d = Len(OpenAfter(s)[Len(s)])
  OBVIOUS
<1>2. P \in 1 .. Len(s) /\ s[P] = "CASE" /\ d \in Nat \ {0} /\ Len(st) \in Nat /\ Len(l) \in Nat
  BY <1>1, TopHolds
<1> PICK at, lat : /\ Frames(s, st, l, at, lat)
                   /\ at[d] \in Nat /\ lat[d] \in Nat /\ at[d] <= Len(st) /\ lat[d] <= Len(l)
                   /\ Frame(s, st, l, P, at[d], Len(st), lat[d], Len(l))
  BY <1>1, TopHolds
<1>3. st \in Seq(Int) /\ l \in Seq(Nat) /\ k \in Nat /\ s \in Seq(AllWords)
  BY ShapeMore, ZenonT(40) DEF Shape, More
<1> DEFINE slots == CellsOf(s, Waiting(s, P))
           x     == at[d] + 1
<1>4. /\ at[d] < Len(st) /\ st[x] = CS_CASE /\ slots = {st[i] : i \in at[d] + 2 .. Len(st)} /\ lat[d] = Len(l)
  BY <1>2 DEF Frame, Holds, Loops
<1>5. \A i \in at[d] + 2 .. Len(st) : st[i] # CS_CASE
  <2>1. \A y \in slots : y \in Nat
    BY <1>3, WaitingCells
  <2> HIDE DEF slots
  <2>2. \A y \in slots : y # CS_CASE
    BY <2>1 DEF CS_CASE
  <2> QED
    BY <1>4, <2>2
<1>6. x \in 1 .. Len(st) /\ x + 1 = at[d] + 2 /\ x - 1 = at[d]
  BY <1>4, SMTT(20)
<1> HIDE DEF slots, x
<1>7. c = Rec(k + 1, Aimed(j, slots, k + 1), SubSeq(st, 1, at[d]), l, No)
  <2>1. LastCase(st, x)
    BY <1>4, <1>5, <1>6 DEF LastCase
  <2>2. c = Rec(k + 1, Aimed(j, Left(st, x), k + 1), SubSeq(st, 1, x - 1), l, No)
    BY <1>3, <2>1, DoneENDCASE
  <2>3. Left(st, x) = slots
    BY <1>4, <1>6 DEF Left
  <2> QED
    BY <1>6, <2>2, <2>3
<1> DEFINE st2 == SubSeq(st, 1, at[d])
<1>8. st2 \in Seq(Int) /\ Len(st2) = at[d] /\ SameTo(st, st2, at[d])
  BY <1>3, LowestIs
<1> HIDE DEF st2
<1>9. k + 1 = k + Size(w)
  BY <1>1, <1>3
<1>10. Aimed(j, slots, k + 1) = AfterJumps(s, w, j, k)
  BY <1>1, <1>9 DEF AfterJumps, slots
<1>11. SameTo(l, l, lat[d])
  BY <1>3 DEF SameTo
<1>12. c = Rec(k + 1, Aimed(j, slots, k + 1), st2, l, No)
  BY <1>7 DEF st2
<1> QED
  BY <1>1, <1>2, <1>3, <1>4, <1>8, <1>9, <1>10, <1>11, <1>12, ShapeClosed

\* What stays of the words there were.
LEMMA StaysOf ==
  ASSUME NEW s, NEW w, NEW t, More(s, w, t), NEW P \in 1 .. Len(s)
  PROVE  /\ t[P] = s[P] /\ Before(t)[P] = Before(s)[P] /\ Cell(t, P) = Cell(s, P) /\ Past(t, P) = Past(s, P)
<1>1. P \in 1 .. Len(s) + 1
  BY MoreFacts
<1> QED
  BY <1>1, Grown, NextCells, MoreFacts

LEMMA ShapeELSE ==
  ASSUME NEW s, NEW w, NEW t, More(s, w, t), Fitting(s), Fitting(t),
         NEW k, NEW j, NEW st, NEW l, Shape(s, k, j, st, l), Len(st) <= CSTACK_MAX, CSTACK_MAX \in Nat,
         w = "ELSE", NEW c, c = ELSE_(Rec(k, j, st, l, No))
  PROVE  Went(t, c)
<1>1. w \in Forwards /\ w \notin Backs /\ w \in Belonging \ {"LEAVE"} /\ Size(w) = 2 /\ OpenedBy(w) = {"IF"}
  BY DEF Forwards, Backs, Belonging, Size, OpenedBy
<1> PICK P, d : P = Inner(s, Len(s)) /\ d = Len(OpenAfter(s)[Len(s)])
  OBVIOUS
<1>2. P \in 1 .. Len(s) /\ s[P] = "IF" /\ d \in Nat \ {0} /\ Len(st) \in Nat /\ Len(l) \in Nat
  BY <1>1, TopHolds
<1> PICK at, lat : /\ Frames(s, st, l, at, lat)
                   /\ at[d] \in Nat /\ lat[d] \in Nat /\ at[d] <= Len(st) /\ lat[d] <= Len(l)
                   /\ Frame(s, st, l, P, at[d], Len(st), lat[d], Len(l))
  BY <1>1, TopHolds
<1>3. st \in Seq(Int) /\ l \in Seq(Nat) /\ k \in Nat /\ Cell(t, Len(t)) = k + 1 /\ Len(t) = Len(s) + 1
  BY ShapeMore DEF Shape
<1>4. Len(st) = at[d] + 1 /\ CellsOf(s, Waiting(s, P)) = {st[Len(st)]} /\ lat[d] = Len(l)
  BY <1>2 DEF Frame, Holds, Loops
<1> DEFINE sa  == Front(st)
           st2 == Append(sa, k + 1)
<1>5. st # <<>> /\ sa \in Seq(Int) /\ Len(sa) = at[d] /\ SameTo(st, sa, at[d]) /\ Last(st) = st[at[d] + 1]
  BY <1>3, <1>4, PoppedIs
<1>6. c = Rec(k + 2, Aimed(Aimed(j, {k + 1}, Unresolved), {Last(st)}, k + 2), st2, l, No)
  BY <1>3, <1>5, DoneELSE, ZenonT(40)
<1> HIDE DEF sa
<1>7. st2 \in Seq(Int) /\ Len(st2) = at[d] + 1 /\ st2[at[d] + 1] = k + 1 /\ SameTo(sa, st2, at[d])
  <2>1. k + 1 \in Int
    BY <1>3
  <2>2. st2 \in Seq(Int) /\ Len(st2) = Len(sa) + 1 /\ st2[Len(sa) + 1] = k + 1 /\ SameTo(sa, st2, Len(sa))
    BY <1>5, <2>1, SMTT(20) DEF SameTo
  <2> HIDE DEF st2
  <2> QED
    BY <1>5, <2>2
<1> HIDE DEF st2
<1>8. SameTo(st, st2, at[d]) /\ SameTo(l, l, lat[d])
  BY <1>3, <1>5, <1>7, SMTT(20) DEF SameTo
<1>9. k + 2 = k + Size(w)
  BY <1>1, <1>3
<1> DEFINE j2 == Aimed(Aimed(j, {k + 1}, Unresolved), {Last(st)}, k + 2)
<1>10. j2 = AfterJumps(s, w, j, k)
  BY <1>1, <1>4, <1>5, <1>9 DEF AfterJumps
<1> HIDE DEF j2
<1>11. Jumps(t, j2) /\ Fun(j2)
  BY <1>10, ResolvedJumps
<1>12. CellsOf(t, Waiting(t, P)) = {st2[at[d] + 1]}
  <2>1. Waiting(t, P) = {Len(t)}
    BY <1>3, ElseWaits
  <2>2. CellsOf(t, {Len(t)}) = {Cell(t, Len(t))}
    BY DEF CellsOf
  <2> QED
    BY <1>3, <1>7, <2>1, <2>2
<1>13. Frame(t, st2, l, P, at[d], Len(st2), lat[d], Len(l))
  <2>1. t[P] = "IF"
    BY <1>2, StaysOf
  <2>2. \A b, cell, past, mine :
          Holds("IF", b, cell, past, {st2[at[d] + 1]}, mine, st2, l, at[d], at[d] + 1, Len(l), Len(l))
    BY <1>2 DEF Holds, Loops
  <2>3. Holds("IF", Before(t)[P], Cell(t, P), Past(t, P), {st2[at[d] + 1]}, CellsOf(t, Waiting(t, P) \ {P}),
              st2, l, at[d], at[d] + 1, Len(l), Len(l))
    BY <2>2, Zenon
  <2> QED
    BY <1>4, <1>7, <1>12, <2>1, <2>3 DEF Frame
<1>14. Framed(t, st2, l)
  <2>1. d # 0 /\ at[d] <= Len(st2) /\ w \in {"ELSE", "WHILE"}
    BY <1>2, <1>7
  <2> QED
    BY <1>8, <1>13, <2>1, FrameChanged
<1>15. c = Rec(k + 2, j2, st2, l, No)
  BY <1>6 DEF j2
<1> QED
  BY <1>3, <1>7, <1>9, <1>11, <1>14, <1>15, ShapeMade

\* Something stays open after a word that is no closing one.
LEMMA StaysOpen ==
  ASSUME NEW s, NEW w, NEW t, More(s, w, t), OpenAfter(s)[Len(s)] # <<>>, w \notin Closers
  PROVE  OpenAfter(t)[Len(t)] # <<>>
<1> PICK d : d = Len(OpenAfter(s)[Len(s)])
  OBVIOUS
<1> PICK e : e = Len(OpenAfter(t)[Len(t)])
  OBVIOUS
<1>1. /\ Len(s) \in Nat /\ Len(s) \in 0 .. Len(s) /\ Len(t) \in Nat /\ Len(t) \in 0 .. Len(t)
  BY MoreFacts
<1>2. d # 0 /\ d \in Nat
  BY <1>1, OpenLen
<1>3. w \in Openers => e = d + 1
  BY NextOpen
<1>4. w \notin Openers /\ w \notin Closers => e = d
  BY NextOpen
<1>5. e # 0
  BY <1>2, <1>3, <1>4
<1> QED
  BY <1>1, <1>5, OpenLen

LEMMA ShapeWHILE ==
  ASSUME NEW s, NEW w, NEW t, More(s, w, t), Fitting(s), Fitting(t),
         NEW k, NEW j, NEW st, NEW l, Shape(s, k, j, st, l),
         w = "WHILE", NEW c, c = IF_(Rec(k, j, st, l, No))
  PROVE  Went(t, c)
<1>1. /\ w \in Forwards /\ w \notin Openers /\ w \notin Closers /\ w # "ELSE" /\ w \in Belonging \ {"LEAVE"}
      /\ Size(w) = 2 /\ OpenedBy(w) = {"BEGIN"}
  BY DEF Forwards, Openers, Closers, Belonging, Size, OpenedBy
<1> PICK P, d : P = Inner(s, Len(s)) /\ d = Len(OpenAfter(s)[Len(s)])
  OBVIOUS
<1>2. P \in 1 .. Len(s) /\ s[P] = "BEGIN" /\ d \in Nat \ {0} /\ Len(st) \in Nat /\ Len(l) \in Nat
  BY <1>1, TopHolds
<1> PICK at, lat : /\ Frames(s, st, l, at, lat)
                   /\ at[d] \in Nat /\ lat[d] \in Nat /\ at[d] <= Len(st) /\ lat[d] <= Len(l)
                   /\ Frame(s, st, l, P, at[d], Len(st), lat[d], Len(l))
  BY <1>1, TopHolds
<1>3. st \in Seq(Int) /\ l \in Seq(Nat) /\ k \in Nat /\ Cell(t, Len(t)) = k + 1 /\ Len(t) = Len(s) + 1
  BY ShapeMore DEF Shape
<1>4. Waiting(s, P) = {}
  BY WhileWaits
<1>5. Len(st) = at[d] + 1 /\ st[at[d] + 1] = Before(s)[P] /\ lat[d] = Len(l)
  <2>1. CellsOf(s, Waiting(s, P)) = {}
    BY <1>4 DEF CellsOf
  <2> QED
    BY <1>2, <2>1 DEF Frame, Holds, Loops
<1> DEFINE j2  == Aimed(j, {k + 1}, Unresolved)
           st2 == Append(st, k + 1)
<1>6. Jumps(t, j2) /\ Fun(j2)
  BY <1>1, <1>3, PlainJumps
<1>7. c = Forward(Rec(k, j, st, l, No))
  BY DEF IF_
<1>8. HasFailed(c) \/ c = Rec(k + 2, j2, st2, l, No)
  <2>1. k \in Nat
    BY <1>3
  <2> QED
    BY <1>7, <2>1, DoneIF
<1>9. /\ st2 \in Seq(Int) /\ Len(st2) = at[d] + 2 /\ st2[at[d] + 2] = k + 1 /\ SameTo(st, st2, at[d])
      /\ st2[at[d] + 1] = Before(s)[P]
  <2>1. st2 \in Seq(Int) /\ Len(st2) = Len(st) + 1 /\ st2[Len(st) + 1] = k + 1 /\ SameTo(st, st2, Len(st))
    BY <1>3 DEF SameTo
  <2> HIDE DEF st2
  <2>2. Len(st) + 1 = at[d] + 2 /\ at[d] + 1 \in 1 .. Len(st) /\ \A i \in 1 .. at[d] : i \in 1 .. Len(st)
    BY <1>5
  <2> QED
    BY <1>5, <2>1, <2>2 DEF SameTo
<1> HIDE DEF j2, st2
<1>10. CellsOf(t, Waiting(t, P)) = {st2[at[d] + 2]}
  <2>0. WaitsFor(t, Len(s) + 1) = P
    BY <1>1, NextWaits
  <2>1. Waiting(t, P) = {Len(t)}
    BY <1>2, <1>3, <1>4, <2>0, OneMoreWaits
  <2>2. CellsOf(t, {Len(t)}) = {Cell(t, Len(t))}
    BY DEF CellsOf
  <2> QED
    BY <1>3, <1>9, <2>1, <2>2
<1>11. Frame(t, st2, l, P, at[d], Len(st2), lat[d], Len(l))
  <2>1. t[P] = "BEGIN" /\ Before(t)[P] = Before(s)[P]
    BY <1>2, StaysOf
  <2>2. \A cell, past, mine :
          Holds("BEGIN", Before(s)[P], cell, past, {st2[at[d] + 2]}, mine, st2, l, at[d], at[d] + 2, Len(l), Len(l))
    BY <1>2, <1>9 DEF Holds, Loops
  <2> QED
    BY <1>5, <1>9, <1>10, <2>1, <2>2 DEF Frame
<1>12. Framed(t, st2, l)
  <2>1. d # 0 /\ at[d] <= Len(st2) /\ w \in {"ELSE", "WHILE"} /\ SameTo(l, l, lat[d])
    BY <1>2, <1>9 DEF SameTo
  <2> QED
    BY <1>9, <1>11, <2>1, FrameChanged
<1>13. CASE HasFailed(c)
  <2>1. OpenAfter(s)[Len(s)] # <<>>
    BY <1>1, Innermost
  <2> QED
    BY <1>1, <1>13, <2>1, StaysOpen DEF Went
<1>14. CASE c = Rec(k + 2, j2, st2, l, No)
  <2>1. k + 2 = k + Size(w)
    BY <1>1, <1>3
  <2> QED
    BY <1>3, <1>6, <1>9, <1>12, <1>14, <2>1, ShapeMade
<1> QED
  BY <1>8, <1>13, <1>14

LEMMA ShapeLEAVE ==
  ASSUME NEW s, NEW w, NEW t, More(s, w, t), Fitting(s), Fitting(t),
         NEW k, NEW j, NEW st, NEW l, Shape(s, k, j, st, l),
         w = "LEAVE", NEW c, c = LEAVE_(Rec(k, j, st, l, No))
  PROVE  Went(t, c)
<1>1. w \in Forwards /\ w \notin Openers /\ w \notin Closers /\ w # "ELSE" /\ Size(w) = 2
  BY DEF Forwards, Openers, Closers, Size
<1>2. st \in Seq(Int) /\ l \in Seq(Nat) /\ k \in Nat /\ Cell(t, Len(t)) = k + 1 /\ Framed(s, st, l)
  BY ShapeMore DEF Shape
<1> DEFINE j2 == Aimed(j, {k + 1}, Unresolved)
           l2 == Append(l, k + 1)
<1>3. Jumps(t, j2) /\ Fun(j2)
  BY <1>1, <1>2, PlainJumps
<1>4. HasFailed(c) \/ c = Rec(k + 2, j2, st, l2, No)
  BY <1>2, DoneLEAVE
<1>5. l2 \in Seq(Nat) /\ OneMore(l, Cell(t, Len(t)), l2)
  BY <1>2 DEF OneMore
<1> HIDE DEF j2, l2
<1>6. Framed(t, st, l2) /\ OpenAfter(t)[Len(t)] # <<>>
  BY <1>2, <1>5, FramesLEAVE
<1>7. CASE HasFailed(c)
  BY <1>6, <1>7 DEF Went
<1>8. CASE c = Rec(k + 2, j2, st, l2, No)
  <2>1. k + 2 = k + Size(w)
    BY <1>1, <1>2
  <2> QED
    BY <1>2, <1>3, <1>5, <1>6, <1>8, <2>1, ShapeMade
<1> QED
  BY <1>4, <1>7, <1>8

\* An OF is in a CASE.
LEMMA CaseAround ==
  ASSUME NEW s, NEW w, NEW t, More(s, w, t), Fitting(s), Fitting(t), w = "ENDOF",
         NEW P, P = Inner(s, Len(s)), NEW d, d = Len(OpenAfter(s)[Len(s)]), P \in 1 .. Len(s), s[P] = "OF"
  PROVE  /\ d \in Nat /\ d > 1
         /\ OpenAfter(s)[Len(s)][d - 1] \in 1 .. Len(s) /\ s[OpenAfter(s)[Len(s)][d - 1]] = "CASE"
         /\ WaitsFor(t, Len(s) + 1) = OpenAfter(s)[Len(s)][d - 1]
<1>1. w \in Belonging \ {"LEAVE"} /\ "OF" \in Belonging
  BY DEF Belonging
<1>2. OpenAfter(s)[Len(s)] # <<>> /\ OpenerOf(t, Len(s) + 1) = P
  BY <1>1, Innermost
<1>3. /\ Len(s) \in Nat /\ Len(s) \in 0 .. Len(s) /\ t[Len(s) + 1] = w
      /\ P - 1 \in 0 .. Len(s) /\ P \in 1 .. Len(s)
  BY MoreFacts
<1>4. InnerIs(s, Len(s), P, d)
  BY <1>2, <1>3, InnerFacts
<1>5. /\ d \in Nat \ {0} /\ Len(OpenAfter(s)[P - 1]) = d - 1
      /\ \A j \in 1 .. d - 1 : OpenAfter(s)[P - 1][j] = OpenAfter(s)[Len(s)][j]
  BY <1>4 DEF InnerIs
<1>6. OpenAfter(s)[P - 1] # <<>> /\ s[Inner(s, P - 1)] = "CASE"
  <2>1. FitAt(s, P)
    BY <1>3 DEF Fitting
  <2> QED
    BY <2>1 DEF FitAt, Within
<1>7. d - 1 # 0 /\ Inner(s, P - 1) = OpenAfter(s)[P - 1][d - 1]
  <2>1. PICK r : r = P - 1
    OBVIOUS
  <2>2. r \in 0 .. Len(s) /\ OpenAfter(s)[r] # <<>> /\ Len(OpenAfter(s)[r]) = d - 1
    BY <1>3, <1>5, <1>6, <2>1
  <2>3. Len(OpenAfter(s)[r]) # 0 /\ Inner(s, r) = OpenAfter(s)[r][Len(OpenAfter(s)[r])]
    BY <1>3, <2>2, OpenLen
  <2> QED
    BY <2>1, <2>2, <2>3
<1>8. d > 1 /\ d - 1 \in 1 .. d - 1 /\ d - 1 \in 1 .. d
  <2>1. \A n \in Nat \ {0} : n - 1 # 0 => n > 1 /\ n - 1 \in 1 .. n - 1 /\ n - 1 \in 1 .. n
    OBVIOUS
  <2> QED
    BY <1>5, <1>7, <2>1
<1>9. Inner(s, P - 1) = OpenAfter(s)[Len(s)][d - 1]
  BY <1>5, <1>7, <1>8
<1>10. OpenAfter(s)[Len(s)][d - 1] \in 1 .. Len(s)
  BY <1>3, <1>8, StructuresNest DEF Nest
<1>11. WaitsFor(t, Len(s) + 1) = OpenerOf(t, P)
  BY <1>2, <1>3 DEF WaitsFor
<1>12. OpenerOf(t, P) = Inner(s, P - 1)
  <2>1. OpenerOf(t, P) = OpenerOf(s, P)
    BY <1>1, GrownOpener
  <2>2. OpenerOf(s, P) = Inner(s, P - 1)
    BY OpenerIs
  <2> QED
    BY <2>1, <2>2
<1> QED
  BY <1>5, <1>6, <1>8, <1>9, <1>10, <1>11, <1>12

LEMMA ShapeENDOF ==
  ASSUME NEW s, NEW w, NEW t, More(s, w, t), Fitting(s), Fitting(t),
         NEW k, NEW j, NEW st, NEW l, Shape(s, k, j, st, l), Len(st) <= CSTACK_MAX, CSTACK_MAX \in Nat,
         w = "ENDOF", NEW c, c = ENDOF_(Rec(k, j, st, l, No))
  PROVE  Went(t, c)
<1>1. /\ w \in Forwards /\ w \in Closers /\ w \notin Backs /\ w \in Belonging \ {"LEAVE"}
      /\ Size(w) = 2 /\ OpenedBy(w) = {"OF"}
  BY DEF Forwards, Closers, Backs, Belonging, Size, OpenedBy
<1> PICK P, d : P = Inner(s, Len(s)) /\ d = Len(OpenAfter(s)[Len(s)])
  OBVIOUS
<1>2. P \in 1 .. Len(s) /\ s[P] = "OF" /\ d \in Nat \ {0} /\ Len(st) \in Nat /\ Len(l) \in Nat
  BY <1>1, TopHolds
<1> PICK at, lat : /\ Frames(s, st, l, at, lat)
                   /\ at[d] \in Nat /\ lat[d] \in Nat /\ at[d] <= Len(st) /\ lat[d] <= Len(l)
                   /\ Frame(s, st, l, P, at[d], Len(st), lat[d], Len(l))
  BY <1>1, TopHolds
<1>3. st \in Seq(Int) /\ l \in Seq(Nat) /\ k \in Nat /\ Cell(t, Len(t)) = k + 1 /\ Len(t) = Len(s) + 1
  BY ShapeMore DEF Shape
<1>4. Len(st) = at[d] + 1 /\ CellsOf(s, Waiting(s, P)) = {st[Len(st)]} /\ lat[d] = Len(l)
  BY <1>2 DEF Frame, Holds, Loops
<1> PICK C : C = OpenAfter(s)[Len(s)][d - 1]
  OBVIOUS
<1>5. d \in Nat /\ d > 1 /\ C \in 1 .. Len(s) /\ s[C] = "CASE" /\ WaitsFor(t, Len(s) + 1) = C
  BY <1>2, CaseAround
<1> PICK a, x : a = at[d - 1] /\ x = lat[d - 1]
  OBVIOUS
<1>6. a \in Nat /\ x \in Nat /\ Frame(s, st, l, C, a, at[d], x, Len(l))
  <2>1. \A n \in Nat : n > 1 => n - 1 \in 1 .. n /\ n - 1 \in 1 .. n + 1 /\ (n - 1) + 1 = n
    OBVIOUS
  <2>2. d - 1 \in 1 .. d /\ d - 1 \in 1 .. d + 1 /\ (d - 1) + 1 = d
    BY <1>5, <2>1
  <2>3. /\ at \in [1 .. d + 1 -> Nat] /\ lat \in [1 .. d + 1 -> Nat]
        /\ \A i \in 1 .. d : Frame(s, st, l, OpenAfter(s)[Len(s)][i], at[i], at[i + 1], lat[i], lat[i + 1])
    BY DEF Frames
  <2>4. a \in Nat /\ x \in Nat
    BY <2>2, <2>3
  <2>5. Frame(s, st, l, OpenAfter(s)[Len(s)][d - 1], at[d - 1], at[(d - 1) + 1], lat[d - 1], lat[(d - 1) + 1])
    BY <2>2, <2>3
  <2> QED
    BY <1>4, <2>2, <2>4, <2>5
<1>7. a < at[d] /\ st[a + 1] = CS_CASE /\ CellsOf(s, Waiting(s, C)) = {st[i] : i \in a + 2 .. at[d]} /\ x = Len(l)
  BY <1>5, <1>6 DEF Frame, Holds, Loops
<1> DEFINE sa  == Front(st)
           st2 == Append(sa, k + 1)
<1>8. st # <<>> /\ sa \in Seq(Int) /\ Len(sa) = at[d] /\ SameTo(st, sa, at[d]) /\ Last(st) = st[at[d] + 1]
  BY <1>3, <1>4, PoppedIs
<1>9. c = Rec(k + 2, Aimed(Aimed(j, {k + 1}, Unresolved), {Last(st)}, k + 2), st2, l, No)
  BY <1>3, <1>8, DoneENDOF, ZenonT(40)
<1> HIDE DEF sa
<1>10. st2 \in Seq(Int) /\ Len(st2) = at[d] + 1 /\ st2[at[d] + 1] = k + 1 /\ SameTo(sa, st2, at[d])
  <2>1. k + 1 \in Int
    BY <1>3
  <2>2. st2 \in Seq(Int) /\ Len(st2) = Len(sa) + 1 /\ st2[Len(sa) + 1] = k + 1 /\ SameTo(sa, st2, Len(sa))
    BY <1>8, <2>1, SMTT(20) DEF SameTo
  <2> HIDE DEF st2
  <2> QED
    BY <1>8, <2>2
<1> HIDE DEF st2
<1>11. SameTo(st, st2, at[d])
  BY <1>8, <1>10 DEF SameTo
<1>12. SameTo(st, st2, a) /\ SameTo(l, l, x)
  <2>1. \A i \in 1 .. a : i \in 1 .. at[d]
    BY <1>6, <1>7
  <2> QED
    BY <1>3, <1>11, <2>1 DEF SameTo
<1>13. k + 2 = k + Size(w)
  BY <1>1, <1>3
<1> DEFINE j2 == Aimed(Aimed(j, {k + 1}, Unresolved), {Last(st)}, k + 2)
<1>14. j2 = AfterJumps(s, w, j, k)
  BY <1>1, <1>4, <1>8, <1>13 DEF AfterJumps
<1> HIDE DEF j2
<1>15. Jumps(t, j2) /\ Fun(j2)
  BY <1>1, <1>14, ResolvedJumps
<1>16. CellsOf(t, Waiting(t, C)) = {st2[i] : i \in a + 2 .. at[d] + 1}
  <2>1. Waiting(t, C) = Waiting(s, C) \cup {Len(t)}
    BY <1>3, <1>5, OneMoreWaits
  <2>2. CellsOf(t, Waiting(t, C)) = CellsOf(t, Waiting(s, C)) \cup {Cell(t, Len(t))}
    BY <2>1 DEF CellsOf
  <2>3. CellsOf(t, Waiting(s, C)) = CellsOf(s, Waiting(s, C))
    <3>1. Waiting(s, C) \in SUBSET (1 .. Len(s))
      BY DEF Waiting
    <3> QED
      BY <3>1, CellsStay
  <2>4. CellsOf(t, Waiting(t, C)) = {st[i] : i \in a + 2 .. at[d]} \cup {k + 1}
    BY <1>3, <1>7, <2>2, <2>3
  <2>5. {st2[i] : i \in a + 2 .. at[d]} = {st[i] : i \in a + 2 .. at[d]}
    <3>1. \A i \in a + 2 .. at[d] : i \in 1 .. at[d]
      BY <1>6
    <3>2. \A i \in a + 2 .. at[d] : st2[i] = st[i]
      BY <1>11, <3>1 DEF SameTo
    <3> QED
      BY <3>2
  <2>6. a + 2 .. at[d] + 1 = (a + 2 .. at[d]) \cup {at[d] + 1}
    <3>1. \A m, n \in Nat : m < n => m + 2 .. n + 1 = (m + 2 .. n) \cup {n + 1}
      OBVIOUS
    <3>2. a \in Nat /\ at[d] \in Nat /\ a < at[d]
      BY <1>6, <1>7
    <3> QED
      BY <3>1, <3>2
  <2>7. {st2[i] : i \in a + 2 .. at[d] + 1} = {st2[i] : i \in a + 2 .. at[d]} \cup {st2[at[d] + 1]}
    BY <2>6
  <2> QED
    BY <1>10, <2>4, <2>5, <2>7
<1>17. Frame(t, st2, l, C, a, Len(st2), x, Len(l))
  <2>1. t[C] = "CASE"
    BY <1>5, StaysOf
  <2>2. st2[a + 1] = CS_CASE
    <3>1. a + 1 \in 1 .. at[d]
      BY <1>6, <1>7, SMTT(20)
    <3> QED
      BY <1>7, <1>11, <3>1 DEF SameTo
  <2>3. a < at[d] + 1
    BY <1>6, <1>7
  <2> DEFINE slots == {st2[i] : i \in a + 2 .. at[d] + 1}
  <2>4. \A b, cell, past, mine : Holds("CASE", b, cell, past, slots, mine, st2, l, a, at[d] + 1, Len(l), Len(l))
    BY <1>2, <2>2, <2>3 DEF Holds, Loops
  <2> HIDE DEF slots
  <2>5. Holds("CASE", Before(t)[C], Cell(t, C), Past(t, C), slots, CellsOf(t, Waiting(t, C) \ {C}),
              st2, l, a, at[d] + 1, Len(l), Len(l))
    BY <2>4, Zenon
  <2>6. CellsOf(t, Waiting(t, C)) = slots
    BY <1>16 DEF slots
  <2> QED
    BY <1>7, <1>10, <2>1, <2>5, <2>6 DEF Frame
<1>18. Framed(t, st2, l)
  <2>1. a <= Len(st2) /\ x <= Len(l)
    <3>1. \A m, n \in Nat : m < n => m <= n + 1
      OBVIOUS
    <3>2. a \in Nat /\ at[d] \in Nat /\ a < at[d] /\ x = Len(l) /\ Len(l) \in Nat /\ Len(st2) = at[d] + 1
      BY <1>2, <1>6, <1>7, <1>10
    <3>3. a <= at[d] + 1
      BY <3>1, <3>2
    <3>4. \A n \in Nat : n <= n
      OBVIOUS
    <3>5. a <= Len(st2)
      BY <3>2, <3>3
    <3>6. x <= Len(l)
      BY <3>2, <3>4
    <3> QED
      BY <3>5, <3>6
  <2> QED
    BY <1>5, <1>12, <1>17, <2>1, FrameEnded
<1>19. c = Rec(k + 2, j2, st2, l, No)
  BY <1>9 DEF j2
<1> QED
  BY <1>3, <1>10, <1>13, <1>15, <1>18, <1>19, ShapeMade

-----------------------------------------------------------------------------
(* Every word.                                                             *)

LEMMA CompiledShape ==
  ASSUME NEW w, NEW t, More(source, w, t), Fitting(source), Fitting(t),
         Shape(source, cells, jumps, cstack, leaves), Len(cstack) <= CSTACK_MAX,
         w \in Loops => Len(leaves) < LEAVES_MAX
  PROVE  Went(t, Compiled(w))
<1>1. Now = Rec(cells, jumps, cstack, leaves, No)
  <2>1. Now = Rec(cells, jumps, cstack, leaves, FALSE)
    BY DEF Now, Rec
  <2> QED
    BY <2>1, Zenon DEF No
<1>2. CSTACK_MAX \in Nat
  BY ControlFlowAssumption
<1>3. w \in AllWords
  BY DEF More
<1>4. CASE w = "X"
  <2>1. Compiled(w) = comma(Now, 1)
    BY <1>4 DEF Compiled
  <2> QED
    BY <1>1, <1>4, <2>1, ShapeX
<1>5. CASE w = "IF"
  <2>1. Compiled(w) = IF_(Now)
    BY <1>5 DEF Compiled
  <2> QED
    BY <1>1, <1>5, <2>1, ShapeIF
<1>6. CASE w = "WHILE"
  <2>1. Compiled(w) = IF_(Now)
    BY <1>6 DEF Compiled
  <2> QED
    BY <1>1, <1>6, <2>1, ShapeWHILE
<1>7. CASE w = "ELSE"
  <2>1. Compiled(w) = ELSE_(Now)
    BY <1>7 DEF Compiled
  <2> QED
    BY <1>1, <1>2, <1>7, <2>1, ShapeELSE
<1>8. CASE w = "THEN"
  <2>1. Compiled(w) = THEN_(Now)
    BY <1>8 DEF Compiled
  <2> QED
    BY <1>1, <1>8, <2>1, ShapeTHEN
<1>9. CASE w \in {"BEGIN", "CASE"}
  <2>1. Compiled(w) = IF w = "BEGIN" THEN BEGIN_(Now) ELSE CASE_(Now)
    BY <1>9 DEF Compiled
  <2> QED
    BY <1>1, <1>9, <2>1, ShapeBEGIN
<1>10. CASE w \in {"UNTIL", "AGAIN"}
  <2>1. Compiled(w) = UNTIL_(Now)
    BY <1>10 DEF Compiled
  <2> QED
    BY <1>1, <1>10, <2>1, ShapeUNTIL
<1>11. CASE w = "REPEAT"
  <2>1. Compiled(w) = REPEAT_(Now)
    BY <1>11 DEF Compiled
  <2> QED
    BY <1>1, <1>11, <2>1, ShapeREPEAT
<1>12. CASE w = "DO"
  <2>1. Compiled(w) = DO_(Now) /\ w \in Loops
    BY <1>12 DEF Compiled, Loops
  <2> QED
    BY <1>1, <1>12, <2>1, ShapeDO
<1>13. CASE w = "?DO"
  <2>1. Compiled(w) = QDO_(Now) /\ w \in Loops
    BY <1>13 DEF Compiled, Loops
  <2> QED
    BY <1>1, <1>13, <2>1, ShapeQDO
<1>14. CASE w = "LOOP"
  <2>1. Compiled(w) = LOOP_(Now)
    BY <1>14 DEF Compiled
  <2> QED
    BY <1>1, <1>14, <2>1, ShapeLOOP
<1>15. CASE w = "LEAVE"
  <2>1. Compiled(w) = LEAVE_(Now)
    BY <1>15 DEF Compiled
  <2> QED
    BY <1>1, <1>15, <2>1, ShapeLEAVE
<1>16. CASE w = "OF"
  <2>1. Compiled(w) = OF_(Now)
    BY <1>16 DEF Compiled
  <2> QED
    BY <1>1, <1>16, <2>1, ShapeOF
<1>17. CASE w = "ENDOF"
  <2>1. Compiled(w) = ENDOF_(Now)
    BY <1>17 DEF Compiled
  <2> QED
    BY <1>1, <1>2, <1>17, <2>1, ShapeENDOF
<1>18. CASE w = "ENDCASE"
  <2>1. Compiled(w) = ENDCASE_(Now)
    BY <1>18 DEF Compiled
  <2> QED
    BY <1>1, <1>18, <2>1, ShapeENDCASE
<1> QED
  BY <1>3, <1>4, <1>5, <1>6, <1>7, <1>8, <1>9, <1>10, <1>11, <1>12, <1>13, <1>14, <1>15, <1>16, <1>17, <1>18
     DEF AllWords

-----------------------------------------------------------------------------
(* The definition from its colon to its semicolon.                         *)

\* A loop is only opened when there is a place for its mark among the LEAVEs.
LoopsHaveRoom == (\E w \in Loops : source' = Append(source, w)) => Len(leaves) < LEAVES_MAX

\* While nothing has failed, the thread and the stacks are those of the source, when it is
\* well nested so far; and what has ended is not added to.
Shaped == AllFit(source) => Shape(source, cells, jumps, cstack, leaves)

FlowInv ==
  /\ ThreadInv /\ CompilesAsMeant
  /\ flow \in {"compiling", "done"} => Shaped
  /\ Nested => AllFit(source)
  /\ state \/ def_header # 0 => flow = "compiling"

LEMMA EmptyOpen == \A s : s = <<>> => Len(s) = 0 /\ OpenAfter(s)[Len(s)] = <<>> /\ Before(s)[Len(s) + 1] = 0
<1> SUFFICES ASSUME NEW s, s = <<>> PROVE Len(s) = 0 /\ OpenAfter(s)[Len(s)] = <<>> /\ Before(s)[Len(s) + 1] = 0
  OBVIOUS
<1>1. Len(s) = 0 /\ Len(s) \in Nat /\ 0 + 1 = 1
  OBVIOUS
<1> QED
  BY <1>1, OpenTurns, BeforeTurns

LEMMA EmptyShape ==
  ASSUME NEW s, s = <<>>, NEW k, k = 0, NEW j, j = <<>>, NEW st, st = <<>>, NEW l, l = <<>>
  PROVE  Shape(s, k, j, st, l)
<1>1. Len(s) = 0 /\ OpenAfter(s)[Len(s)] = <<>> /\ Before(s)[Len(s) + 1] = 0
  BY EmptyOpen
<1>2. Jumps(s, j)
  <2>1. Jumping(s) = {}
    BY <1>1 DEF Jumping
  <2>2. CellsOf(s, {}) = {} /\ DOMAIN j = {}
    BY DEF CellsOf
  <2> QED
    BY <2>1, <2>2 DEF Jumps
<1>3. Fun(j)
  BY DEF Fun
<1>4. Framed(s, st, l)
  <2> DEFINE at == [i \in 1 .. 1 |-> 0]
  <2>1. Len(OpenAfter(s)[Len(s)]) = 0 /\ Len(st) = 0 /\ Len(l) = 0
    BY <1>1
  <2>2. at \in [1 .. 1 -> Nat] /\ at[1] = 0
    OBVIOUS
  <2> HIDE DEF at
  <2>3. /\ \A i \in 1 .. 1 : \A m \in i .. 1 : at[i] <= at[m] /\ at[i] <= at[m]
        /\ \A i \in 1 .. 0 : FALSE
        /\ 0 + 1 = 1
    BY <2>2
  <2>4. Frames(s, st, l, at, at)
    BY <2>1, <2>2, <2>3 DEF Frames
  <2> QED
    BY <2>4 DEF Framed
<1>5. st \in Seq(Int) /\ l \in Seq(Nat)
  OBVIOUS
<1> QED
  BY <1>1, <1>2, <1>3, <1>4, <1>5 DEF Shape

\* Nothing is left on the control stack when, and only when, every structure is closed.
LEMMA ShapeClosing ==
  ASSUME NEW s \in Seq(AllWords), NEW k, NEW j, NEW st, NEW l, Shape(s, k, j, st, l)
  PROVE  st = <<>> <=> OpenAfter(s)[Len(s)] = <<>>
<1> PICK at, lat : Frames(s, st, l, at, lat)
  BY DEF Shape, Framed
<1> PICK d : d = Len(OpenAfter(s)[Len(s)])
  OBVIOUS
<1>1. Len(s) \in Nat /\ Len(s) \in 0 .. Len(s)
  OBVIOUS
<1>2. d \in Nat /\ (OpenAfter(s)[Len(s)] = <<>> <=> d = 0)
  BY <1>1, OpenLen
<1>3. st \in Seq(Int) /\ (st = <<>> <=> Len(st) = 0)
  BY DEF Shape
<1>4. at[1] = 0 /\ at[d + 1] = Len(st)
  BY DEF Frames
<1>5. CASE d = 0
  <2>1. d + 1 = 1
    BY <1>5
  <2> QED
    BY <1>2, <1>3, <1>4, <1>5, <2>1
<1>6. CASE d # 0
  <2>1. /\ at[d] \in Nat /\ Len(st) \in Nat
        /\ Frame(s, st, l, Inner(s, Len(s)), at[d], Len(st), lat[d], Len(l))
    BY <1>2, <1>6, TopFrame
  <2>2. at[d] < Len(st)
    BY <2>1 DEF Frame, Holds
  <2>3. Len(st) # 0
    BY <2>1, <2>2
  <2> QED
    BY <1>2, <1>3, <1>6, <2>3
<1> QED
  BY <1>5, <1>6

LEMMA NestedIs == \A s : WellNested(s) <=> AllFit(s) /\ OpenAfter(s)[Len(s)] = <<>>
BY DEF WellNested, AllFit

LEMMA InAllWords == ASSUME ThreadInv PROVE source \in Seq(AllWords) /\ Len(cstack) <= CSTACK_MAX
<1>1. source \in Seq(Words) /\ Words \subseteq AllWords /\ Len(cstack) <= CSTACK_MAX
  BY ControlFlowAssumption, NowFields DEF ThreadInv
<1> QED
  BY <1>1

\* A thread that starts, or is cleared.
LEMMA FlowStarts ==
  ASSUME NEW how \in {"idle", "compiling"}, Thread(how), ThreadInv',
         how = "idle" => ~state' /\ def_header' = 0
  PROVE  FlowInv'
<1>1. /\ source' = <<>> /\ cells' = 0 /\ jumps' = <<>> /\ cstack' = <<>> /\ leaves' = <<>>
      /\ flow' = how
  BY DEF Thread
<1>2. Shape(source, cells, jumps, cstack, leaves)'
  BY <1>1, EmptyShape
<1>3. AllFit(source)'
  BY <1>1 DEF AllFit
<1> QED
  BY <1>1, <1>2, <1>3 DEF FlowInv, Shaped, CompilesAsMeant

\* Outside a definition there is none, whatever is on the two stacks.
LEMMA FlowDropped ==
  ASSUME NEW c, Dropped(c), ThreadInv', ~state', def_header' = 0
  PROVE  FlowInv'
<1>1. source' = <<>> /\ flow' = "idle"
  BY DEF Dropped
<1>2. AllFit(source)'
  BY <1>1 DEF AllFit
<1> QED
  BY <1>1, <1>2 DEF FlowInv, CompilesAsMeant

\* One more word of it.
LEMMA FlowWord ==
  ASSUME FlowInv, flow = "compiling", NEW w \in Words, Word(w), LoopsHaveRoom, ThreadInv',
         flow' = "failed" => Error \/ Spill
  PROVE  FlowInv'
<1> PICK t, c : t = Append(source, w) /\ c = Compiled(w)
  OBVIOUS
<1>1. source \in Seq(AllWords) /\ Len(cstack) <= CSTACK_MAX /\ w \in AllWords
  BY InAllWords, ControlFlowAssumption DEF FlowInv
<1>2. More(source, w, t)
  BY <1>1 DEF More
<1>3. /\ cells' = c.cells /\ jumps' = c.jumps /\ cstack' = c.cstack /\ leaves' = c.leaves
      /\ flow' = (IF c.failed THEN "failed" ELSE "compiling") /\ source' = t
      /\ (Nested => Fits(source, w))
  BY DEF Word, Written
<1>4. AllFit(t) <=> AllFit(source) /\ Fits(source, w)
  BY <1>2, GrownFits
<1>5. (Nested => AllFit(source))'
  BY <1>3, <1>4 DEF FlowInv
<1>6. flow' = "failed" => ~state' /\ def_header' = 0
  BY DEF Error, Undo, Spill
<1>7. AllFit(t) => Went(t, c)
  <2> SUFFICES ASSUME AllFit(t) PROVE Went(t, c)
    OBVIOUS
  <2>1. AllFit(source) /\ Fitting(source)
    BY <1>1, <1>4, FitsAll
  <2>2. t \in Seq(AllWords)
    BY <1>2, Grown
  <2>3. Fitting(t)
    BY <2>2, FitsAll
  <2>4. Shape(source, cells, jumps, cstack, leaves)
    BY <2>1 DEF FlowInv, Shaped
  <2>5. w \in Loops => Len(leaves) < LEAVES_MAX
    BY <1>3 DEF LoopsHaveRoom
  <2> QED
    BY <1>1, <1>2, <2>1, <2>3, <2>4, <2>5, CompiledShape
<1>8. CASE c.failed
  <2>1. flow' = "failed"
    BY <1>3, <1>8
  <2>2. AllFit(t) => OpenAfter(t)[Len(t)] # <<>>
    <3>1. \A k, j, st, l : c # Rec(k, j, st, l, No)
      <4> SUFFICES ASSUME NEW k, NEW j, NEW st, NEW l, c = Rec(k, j, st, l, No) PROVE FALSE
        OBVIOUS
      <4>1. c.failed = No
        BY RecFields
      <4> QED
        BY <1>8, <4>1 DEF No
    <3> QED
      BY <1>7, <3>1 DEF Went
  <2>3. ~ WellNested(t)
    BY <2>2, NestedIs
  <2> QED
    BY <1>3, <1>5, <1>6, <2>1, <2>3 DEF FlowInv, CompilesAsMeant
<1>9. CASE ~ c.failed
  <2>1. flow' = "compiling"
    BY <1>3, <1>9
  <2>2. AllFit(t) => Shape(t, c.cells, c.jumps, c.cstack, c.leaves)
    <3> SUFFICES ASSUME AllFit(t) PROVE Shape(t, c.cells, c.jumps, c.cstack, c.leaves)
      OBVIOUS
    <3>1. ~ HasFailed(c)
      BY <1>9, RecFailed DEF Yes
    <3>2. PICK k, j, st, l : c = Rec(k, j, st, l, No) /\ Shape(t, k, j, st, l)
      BY <1>7, <3>1 DEF Went
    <3>3. c.cells = k /\ c.jumps = j /\ c.cstack = st /\ c.leaves = l
      BY <3>2, RecFields
    <3> QED
      BY <3>2, <3>3
  <2>3. Shaped'
    BY <1>3, <2>2 DEF Shaped
  <2> QED
    BY <1>5, <2>1, <2>3 DEF FlowInv, CompilesAsMeant
<1> QED
  BY <1>8, <1>9

\* Its end: what it has become is what it means, or it was not well nested.
LEMMA FlowEnds ==
  ASSUME FlowInv, flow = "compiling", EndThread, ThreadInv', ~state', def_header' = 0
  PROVE  FlowInv'
<1>1. /\ source' = source /\ cells' = cells /\ jumps' = jumps
      /\ (cstack = <<>> => cstack' = cstack /\ leaves' = leaves)
      /\ flow' = (IF cstack = <<>> THEN "done" ELSE "failed")
  BY DEF EndThread, Complete
<1>2. source \in Seq(AllWords)
  BY InAllWords DEF FlowInv
<1>3. Shaped /\ (cstack = <<>> => Shaped') /\ (Nested => AllFit(source))'
  BY <1>1 DEF FlowInv, Shaped
<1>4. AllFit(source) => (cstack = <<>> <=> OpenAfter(source)[Len(source)] = <<>>)
  BY <1>2, <1>3, ShapeClosing DEF Shaped
<1>5. CASE cstack = <<>>
  <2>1. AllFit(source) => jumps = Meaning(source)
    <3> SUFFICES ASSUME AllFit(source) PROVE jumps = Meaning(source)
      OBVIOUS
    <3>1. Jumps(source, jumps) /\ Fun(jumps) /\ Fitting(source)
      BY <1>2, <1>3, FitsAll DEF Shaped, Shape
    <3>2. jumps = [x \in DOMAIN jumps |-> jumps[x]]
      BY <3>1 DEF Fun
    <3> QED
      BY <1>4, <1>5, <3>1, <3>2, JumpsMeant
  <2>2. Nested \/ WellNested(source) => AllFit(source)
    BY <1>1, <1>3, NestedIs
  <2>3. CompilesAsMeant'
    BY <1>1, <1>5, <2>1, <2>2 DEF CompilesAsMeant
  <2> QED
    BY <1>1, <1>3, <1>5, <2>3 DEF FlowInv
<1>6. CASE cstack # <<>>
  <2>1. ~ WellNested(source)
    BY <1>4, <1>6, NestedIs
  <2>2. CompilesAsMeant'
    BY <1>1, <1>6, <2>1 DEF CompilesAsMeant
  <2> QED
    BY <1>1, <1>3, <1>6, <2>2 DEF FlowInv
<1> QED
  BY <1>5, <1>6

LEMMA FlowStays ==
  ASSUME FlowInv, UNCHANGED cvars, ThreadInv',
         state' \/ def_header' # 0 => state \/ def_header # 0
  PROVE  FlowInv'
<1>1. /\ source' = source /\ cells' = cells /\ jumps' = jumps /\ cstack' = cstack
      /\ leaves' = leaves /\ flow' = flow
  BY DEF cvars
<1>2. CompilesAsMeant'
  BY <1>1 DEF CompilesAsMeant, FlowInv
<1>3. (flow \in {"compiling", "done"} => Shaped)' /\ (Nested => AllFit(source))'
  BY <1>1 DEF Shaped, FlowInv
<1>4. (state \/ def_header # 0 => flow = "compiling")'
  BY <1>1 DEF FlowInv
<1> QED
  BY <1>2, <1>3, <1>4 DEF FlowInv

LEMMA FlowKept == ASSUME FlowInv, ~Inside, [Next]_vars, [LoopsHaveRoom]_vars PROVE FlowInv'
<1>0. ThreadInv'
  BY ThreadKept DEF FlowInv
<1>1. state \/ def_header # 0 => flow = "compiling"
  BY DEF FlowInv
<1>2. CASE Begin
  BY <1>0, <1>2, FlowStarts DEF Begin
<1>3. CASE WordStep
  <2>1. PICK w \in Words : state /\ Word(w) /\ (flow' = "failed" => Error \/ Spill)
    BY <1>3 DEF WordStep
  <2>2. source' = Append(source, w)
    BY <2>1 DEF Word
  <2>3. source' # source
    <3>1. source \in Seq(Words)
      BY DEF FlowInv, ThreadInv
    <3>2. Len(source') # Len(source)
      BY <2>2, <3>1
    <3> QED
      BY <3>2
  <2>4. LoopsHaveRoom
    BY <2>3 DEF vars, cvars
  <2> QED
    BY <1>0, <1>1, <2>1, <2>4, FlowWord
<1>4. CASE End
  <2>1. state /\ EndThread /\ ~state' /\ def_header' = 0
    BY <1>4 DEF End, Semi, Error, Undo
  <2> QED
    BY <1>0, <1>1, <2>1, FlowEnds
<1>5. CASE FailsAt
  <2>1. Thread("idle") /\ ~state' /\ def_header' = 0
    BY <1>5 DEF FailsAt, Fails, Error, Undo
  <2> QED
    BY <1>0, <2>1, FlowStarts
<1>6. CASE Aside
  <2>1. def_header' = def_header /\ (state' = state \/ def_header # 0)
    BY <1>6 DEF Aside, Bracketed, Bracket, Variable, Forget, Hide, Keep, AppOpen, AppClose, defining
  <2>2. CASE state \/ def_header # 0
    <3>1. UNCHANGED cvars
      BY <1>6, <2>2 DEF Aside
    <3> QED
      BY <1>0, <2>2, <3>1, FlowStays
  <2>3. CASE ~state /\ def_header = 0
    <3>1. Dropped(Now) /\ ~state' /\ def_header' = 0
      BY <1>6, <2>1, <2>3 DEF Aside
    <3> QED
      BY <1>0, <3>1, FlowDropped
  <2> QED
    BY <2>2, <2>3
<1>7. CASE UNCHANGED vars
  <2>1. UNCHANGED cvars /\ state' = state /\ def_header' = def_header
    BY <1>7 DEF vars, dvars, defining
  <2> QED
    BY <1>0, <2>1, FlowStays
<1>8. CASE Overflows
  <2>1. PICK w, k : Dropped(WithoutRoom(w, k)) /\ (Spill \/ Error)
    BY <1>8 DEF Overflows
  <2>2. ~state' /\ def_header' = 0
    BY <2>1 DEF Spill, Error, Undo
  <2> QED
    BY <1>0, <2>1, <2>2, FlowDropped
<1> QED
  BY <1>2, <1>3, <1>4, <1>5, <1>6, <1>7, <1>8 DEF Next

LEMMA InitFlow == ASSUME NoThread, NoWords PROVE FlowInv
<1>1. /\ source = <<>> /\ cells = 0 /\ jumps = <<>> /\ cstack = <<>> /\ leaves = <<>> /\ flow = "idle"
  BY DEF NoThread
<1>2. Shape(source, cells, jumps, cstack, leaves)
  BY <1>1, EmptyShape
<1>3. AllFit(source)
  BY <1>1 DEF AllFit
<1> QED
  BY <1>1, <1>2, <1>3, InitThread DEF FlowInv, Shaped, CompilesAsMeant, NoWords

\* A well nested definition is not refused when it is complete, and compiles to what it means,
\* however long it is: each jump that IF, ELSE, WHILE, REPEAT, UNTIL, AGAIN, ?DO, LOOP, LEAVE,
\* OF and ENDOF lay down goes where the structure it belongs to says (forth.c: the immediate
\* words from P_IF to P_ENDCASE), as long as no loop is opened when the stack of LEAVEs is full,
\* and ] is not used outside a definition, where what an earlier error left may still wait.
THEOREM WordsCompileAsMeant ==
  ASSUME ~Inside
  PROVE  Spec /\ [][LoopsHaveRoom]_vars => []CompilesAsMeant
<1>1. Init => FlowInv
  BY InitFlow DEF Init
<1>2. FlowInv /\ [Next]_vars /\ [LoopsHaveRoom]_vars => FlowInv'
  BY FlowKept
<1>3. FlowInv => CompilesAsMeant
  BY DEF FlowInv
<1> QED
  BY <1>1, <1>2, <1>3, PTL DEF Spec

-----------------------------------------------------------------------------
(* There are never more LEAVEs than words.                                 *)

Low(c, n) == Typed(c) /\ Len(c.leaves) <= n

LEMMA LowLen == ASSUME NEW c, Typed(c) PROVE Len(c.leaves) \in Nat /\ c.leaves \in Seq(Nat)
BY DEF Typed

\* What does not touch the LEAVEs, or takes all of them.
LEMMA LowSteps ==
  ASSUME NEW n \in Nat
  PROVE  \A c : Low(c, n) =>
           /\ Low(error(c), n)
           /\ Low(cpop(c), n) /\ Top(c) \in Int /\ c.cells \in Nat /\ c.cells + 1 \in Nat
           /\ \A v \in Int : Low(cpush(c, v), n) /\ Low(Jump(c, v), n) /\ Low(Resolve(c, v), n)
           /\ \A k \in Nat : Low(comma(c, k), n)
<1> SUFFICES ASSUME NEW c, Low(c, n)
             PROVE  /\ Low(error(c), n)
                    /\ Low(cpop(c), n) /\ Top(c) \in Int /\ c.cells \in Nat /\ c.cells + 1 \in Nat
                    /\ \A v \in Int : Low(cpush(c, v), n) /\ Low(Jump(c, v), n) /\ Low(Resolve(c, v), n)
                    /\ \A k \in Nat : Low(comma(c, k), n)
  OBVIOUS
<1> PICK k, j, st, l, f : c = [cells |-> k, jumps |-> j, cstack |-> st, leaves |-> l, failed |-> f]
  BY DEF Low, Typed
<1>0. Typed(c) /\ Len(l) <= n /\ c.leaves = l /\ c.cells = k /\ k \in Nat /\ k + 1 \in Nat
  BY DEF Low, Typed
<1>1. Low(error(c), n)
  <2>1. Typed(error(c)) /\ error(c).leaves = <<>>
    BY <1>0, Failed DEF error
  <2> QED
    BY <2>1 DEF Low
<1>2. Low(cpop(c), n) /\ Top(c) \in Int
  <2>1. Typed(cpop(c)) /\ Top(c) \in Int
    BY <1>0, Popped
  <2>2. cpop(c) = error(c) \/ cpop(c).leaves = l
    BY DEF cpop
  <2> QED
    BY <1>0, <1>1, <2>1, <2>2 DEF Low
<1>3. ASSUME NEW v \in Int PROVE Low(cpush(c, v), n)
  <2>1. Typed(cpush(c, v))
    BY <1>0, Pushed
  <2>2. cpush(c, v) = error(c) \/ cpush(c, v).leaves = l
    BY DEF cpush
  <2> QED
    BY <1>0, <1>1, <2>1, <2>2 DEF Low
<1>4. ASSUME NEW v \in Int PROVE Low(Jump(c, v), n)
  BY <1>0, Jumped DEF Low
<1>5. ASSUME NEW v \in Int PROVE Low(Resolve(c, v), n)
  <2>1. Typed(Resolve(c, v))
    BY <1>0, Resolved
  <2>2. Resolve(c, v).leaves = l
    BY DEF Resolve, Point
  <2> QED
    BY <1>0, <2>1, <2>2 DEF Low
<1>6. ASSUME NEW i \in Nat PROVE Low(comma(c, i), n)
  <2>1. Typed(comma(c, i))
    BY <1>0, MoreCells
  <2>2. comma(c, i).leaves = l
    BY DEF comma
  <2> QED
    BY <1>0, <2>1, <2>2 DEF Low
<1> QED
  BY <1>0, <1>1, <1>2, <1>3, <1>4, <1>5, <1>6

\* A loop that opens, and one that closes.
LEMMA LowLoops ==
  ASSUME NEW n \in Nat
  PROVE  \A c : Low(c, n) => Low(OpenLeaves(c), n + 1) /\ Low(resolve_leaves(c), n)
<1> SUFFICES ASSUME NEW c, Low(c, n) PROVE Low(OpenLeaves(c), n + 1) /\ Low(resolve_leaves(c), n)
  OBVIOUS
<1> PICK k, j, st, l, f : c = [cells |-> k, jumps |-> j, cstack |-> st, leaves |-> l, failed |-> f]
  BY DEF Low, Typed
<1>0. Typed(c) /\ Len(l) <= n /\ c.leaves = l /\ l \in Seq(Nat) /\ Len(l) \in Nat
  BY LowLen DEF Low
<1>1. Low(OpenLeaves(c), n + 1)
  <2>1. Typed(OpenLeaves(c))
    BY <1>0, LeavesOpened
  <2>2. OpenLeaves(c).leaves = l \/ OpenLeaves(c).leaves = Append(l, 0)
    BY DEF OpenLeaves
  <2>3. Len(Append(l, 0)) = Len(l) + 1
    BY <1>0
  <2> QED
    BY <1>0, <2>1, <2>2, <2>3 DEF Low
<1>2. Low(resolve_leaves(c), n)
  <2>1. Typed(resolve_leaves(c)) /\ Len(resolve_leaves(c).leaves) <= Len(l)
    BY <1>0, LeavesResolved
  <2>2. Len(resolve_leaves(c).leaves) \in Nat
    BY <2>1, LowLen
  <2> QED
    BY <1>0, <2>1, <2>2 DEF Low
<1> QED
  BY <1>1, <1>2

LEMMA LowMore == ASSUME NEW n \in Nat PROVE \A c : Low(c, n) => Low(c, n + 1)
<1> SUFFICES ASSUME NEW c, Low(c, n) PROVE Low(c, n + 1)
  OBVIOUS
<1>1. Typed(c) /\ Len(c.leaves) <= n /\ Len(c.leaves) \in Nat
  BY LowLen DEF Low
<1> QED
  BY <1>1 DEF Low

LEMMA LowENDCASE == ASSUME NEW n \in Nat, NEW c, Low(c, n) PROVE Low(ENDCASE_(c), n)
<1> PICK k, j, st, l, f : c = [cells |-> k, jumps |-> j, cstack |-> st, leaves |-> l, failed |-> f]
  BY DEF Low, Typed
<1>1. Typed(c) /\ Len(l) <= n /\ c.leaves = l
  BY DEF Low
<1>2. Typed(ENDCASE_(c))
  BY <1>1, EndcaseTyped
<1>3. ENDCASE_(c) = error(c) \/ ENDCASE_(c).leaves = l
  BY DEF ENDCASE_, Point, comma
<1> QED
  BY <1>1, <1>2, <1>3, LowSteps DEF Low

LEMMA LowLEAVE == ASSUME NEW n \in Nat, NEW c, Low(c, n) PROVE Low(LEAVE_(c), n + 1)
<1> DEFINE e == Jump(c, Unresolved)
<1>1. Low(error(c), n + 1) /\ Low(e, n) /\ Typed(c) /\ c.cells + 1 \in Nat
  <2>1. Unresolved \in Int /\ Typed(c)
    BY DEF Unresolved, Low
  <2>2. Low(error(c), n) /\ Low(e, n) /\ c.cells + 1 \in Nat
    BY <2>1, LowSteps
  <2> QED
    BY <2>1, <2>2, LowMore
<1>2. Typed(LEAVE_(c))
  BY <1>1, LeaveTyped
<1>3. LEAVE_(c) = error(c) \/ LEAVE_(c) = [e EXCEPT !.leaves = Append(e.leaves, c.cells + 1)]
  BY DEF LEAVE_
<1> HIDE DEF e
<1>4. e.leaves \in Seq(Nat) /\ Len(e.leaves) \in Nat /\ Len(e.leaves) <= n
  BY <1>1, LowLen DEF Low
<1>5. Len(Append(e.leaves, c.cells + 1)) = Len(e.leaves) + 1
  BY <1>1, <1>4
<1>6. [e EXCEPT !.leaves = Append(e.leaves, c.cells + 1)].leaves = Append(e.leaves, c.cells + 1)
  BY <1>1 DEF Low, Typed
<1>7. CASE LEAVE_(c) = error(c)
  BY <1>1, <1>7
<1>8. CASE LEAVE_(c) = [e EXCEPT !.leaves = Append(e.leaves, c.cells + 1)]
  <2>1. LEAVE_(c).leaves = Append(e.leaves, c.cells + 1)
    BY <1>6, <1>8
  <2>2. Len(LEAVE_(c).leaves) = Len(e.leaves) + 1
    BY <1>5, <2>1
  <2>3. Len(LEAVE_(c).leaves) <= n + 1
    BY <1>4, <2>2
  <2> QED
    BY <1>2, <2>3 DEF Low
<1> QED
  BY <1>3, <1>7, <1>8

LEMMA LowCompiled ==
  ASSUME NEW n \in Nat, NEW w \in AllWords, Low(Now, n)
  PROVE  Low(Compiled(w), n + 1)
<1> PICK c : c = Now
  OBVIOUS
<1>0. /\ Low(c, n) /\ Unresolved \in Int /\ CS_QDO \in Int /\ CS_CASE \in Int
      /\ \A i \in Nat : i \in Int
  BY DEF Unresolved, CS_QDO, CS_CASE
<1>1. Low(comma(c, 1), n) /\ Low(comma(c, 2), n)
  BY <1>0, LowSteps
<1>2. ASSUME NEW r, Low(r, n) PROVE Low(Forward(r), n)
  <2>1. Low(Jump(r, Unresolved), n) /\ r.cells + 1 \in Int
    BY <1>0, <1>2, LowSteps
  <2> QED
    BY <2>1, LowSteps DEF Forward
<1>3. Low(IF_(c), n) /\ Low(BEGIN_(c), n) /\ Low(CASE_(c), n)
  <2>1. c.cells \in Int
    BY <1>0, LowSteps
  <2> QED
    BY <1>0, <1>2, <2>1, LowSteps DEF IF_, BEGIN_, CASE_
<1>4. Low(cpop(c), n) /\ Top(c) \in Int /\ Low(error(c), n)
  BY <1>0, LowSteps
<1>5. Low(cpop(cpop(c)), n) /\ Top(cpop(c)) \in Int /\ cpop(c).cells + 1 \in Int
  BY <1>4, LowSteps
<1>6. Low(cpop(cpop(cpop(c))), n) /\ Top(cpop(cpop(c))) \in Int
  BY <1>5, LowSteps
<1>7. Low(ELSE_(c), n)
  <2>1. Low(Resolve(Forward(cpop(c)), Top(c)), n)
    BY <1>2, <1>4, LowSteps
  <2> QED
    BY <1>4, <2>1 DEF ELSE_
<1>8. Low(THEN_(c), n)
  <2>1. Low(Resolve(cpop(c), Top(c)), n)
    BY <1>4, LowSteps
  <2> QED
    BY <1>4, <2>1 DEF THEN_
<1>9. Low(UNTIL_(c), n) /\ Low(Jump(cpop(c), Top(c)), n)
  <2>1. Low(Jump(cpop(c), Top(c)), n)
    BY <1>4, LowSteps
  <2> QED
    BY <1>4, <2>1 DEF UNTIL_
<1>10. Low(REPEAT_(c), n)
  <2>1. Low(Jump(cpop(cpop(c)), Top(cpop(c))), n)
    BY <1>5, LowSteps
  <2>2. Low(Resolve(Jump(cpop(cpop(c)), Top(cpop(c))), Top(c)), n)
    BY <1>4, <2>1, LowSteps
  <2> QED
    BY <1>4, <2>2 DEF REPEAT_
<1>11. Low(LOOP_(c), n)
  <2>1. Low(Jump(cpop(cpop(cpop(c))), Top(cpop(c))), n)
    BY <1>5, <1>6, LowSteps
  <2>2. Low(Resolve(Jump(cpop(cpop(cpop(c))), Top(cpop(c))), Top(cpop(cpop(c)))), n)
    BY <1>6, <2>1, LowSteps
  <2>3. /\ Low(resolve_leaves(Resolve(Jump(cpop(cpop(cpop(c))), Top(cpop(c))), Top(cpop(cpop(c))))), n)
        /\ Low(resolve_leaves(Jump(cpop(c), Top(c))), n)
    BY <1>9, <2>2, LowLoops
  <2> QED
    BY <1>4, <2>3 DEF LOOP_
<1>12. Low(DO_(c), n + 1)
  <2>1. Low(cpush(comma(c, 1), c.cells + 1), n)
    <3>1. c.cells + 1 \in Int
      BY <1>0, LowSteps
    <3> QED
      BY <1>1, <3>1, LowSteps
  <2> QED
    BY <2>1, LowLoops DEF DO_
<1>13. Low(QDO_(c), n + 1)
  <2>1. Low(Forward(c), n) /\ Forward(c).cells \in Int
    <3>1. Low(Forward(c), n)
      BY <1>0, <1>2
    <3> QED
      BY <3>1, LowSteps
  <2>2. Low(cpush(Forward(c), Forward(c).cells), n)
    BY <2>1, LowSteps
  <2>3. Low(cpush(cpush(Forward(c), Forward(c).cells), CS_QDO), n)
    BY <1>0, <2>2, LowSteps
  <2> QED
    BY <2>3, LowLoops DEF QDO_
<1>14. Low(LEAVE_(c), n + 1) /\ Low(ENDCASE_(c), n)
  BY <1>0, LowLEAVE, LowENDCASE
<1>15. Low(OF_(c), n)
  <2>1. Low(Forward(comma(c, 2)), n)
    BY <1>1, <1>2
  <2> QED
    BY <2>1, LowSteps DEF OF_
<1>16. Low(ENDOF_(c), n)
  <2>1. Low(Jump(cpop(c), Unresolved), n)
    BY <1>0, <1>4, LowSteps
  <2>2. Low(Resolve(Jump(cpop(c), Unresolved), Top(c)), n)
    BY <1>4, <2>1, LowSteps
  <2>3. Low(cpush(Resolve(Jump(cpop(c), Unresolved), Top(c)), cpop(c).cells + 1), n)
    BY <1>5, <2>2, LowSteps
  <2> QED
    BY <1>4, <2>3 DEF ENDOF_
<1> DEFINE Straight == {"X", "IF", "WHILE", "ELSE", "THEN", "BEGIN", "UNTIL", "AGAIN", "REPEAT"}
<1>17. CASE w \in Straight
  <2>1. Low(Compiled(w), n)
    BY <1>1, <1>3, <1>7, <1>8, <1>9, <1>10, <1>17 DEF Compiled
  <2> QED
    BY <2>1, LowMore
<1>18. CASE w \in AllWords \ Straight
  <2>1. /\ Low(CASE_(c), n + 1) /\ Low(LOOP_(c), n + 1) /\ Low(OF_(c), n + 1)
        /\ Low(ENDOF_(c), n + 1) /\ Low(ENDCASE_(c), n + 1)
    BY <1>3, <1>11, <1>14, <1>15, <1>16, LowMore
  <2> QED
    BY <1>12, <1>13, <1>14, <1>18, <2>1 DEF Compiled, AllWords
<1> QED
  BY <1>17, <1>18

FewLeaves ==
  /\ flow = "compiling" => Len(leaves) <= Len(source)
  /\ state \/ def_header # 0 => flow = "compiling"

LEMMA FewKept == ASSUME ThreadInv, ~Inside, FewLeaves, [Next]_vars PROVE FewLeaves'
<1>0. source \in Seq(Words) /\ Len(source) \in Nat /\ Typed(Now) /\ leaves \in Seq(Nat)
  BY NowFields DEF ThreadInv
<1>1. ASSUME flow' # "compiling", ~state', def_header' = 0 PROVE FewLeaves'
  BY <1>1 DEF FewLeaves
<1>2. ASSUME source' = source, leaves' = leaves, flow' = flow,
             state' \/ def_header' # 0 => state \/ def_header # 0
      PROVE  FewLeaves'
  BY <1>2 DEF FewLeaves
<1>3. CASE WordStep
  <2>1. PICK w \in Words : state /\ Word(w) /\ (flow' = "failed" => Error \/ Spill)
    BY <1>3 DEF WordStep
  <2>2. leaves' = Compiled(w).leaves /\ source' = Append(source, w) /\ flow' \in {"failed", "compiling"}
    BY <2>1 DEF Word
  <2>3. CASE flow' = "failed"
    <3>1. ~state' /\ def_header' = 0
      BY <2>1, <2>3 DEF Error, Undo, Spill
    <3> QED
      BY <1>1, <2>3, <3>1
  <2>4. CASE flow' = "compiling"
    <3>1. Low(Now, Len(source))
      BY <1>0, <2>1 DEF Low, FewLeaves, Now
    <3>2. Low(Compiled(w), Len(source) + 1)
      BY <1>0, <3>1, LowCompiled, ControlFlowAssumption
    <3>3. Len(source') = Len(source) + 1
      BY <1>0, <2>2
    <3> QED
      BY <2>2, <2>4, <3>2, <3>3 DEF FewLeaves, Low
  <2> QED
    BY <2>2, <2>3, <2>4
<1>4. CASE Begin
  <2>1. source' = <<>> /\ leaves' = <<>> /\ flow' = "compiling" /\ Len(<<>>) = 0
    BY <1>4 DEF Begin, Thread
  <2> QED
    BY <2>1 DEF FewLeaves
<1>5. CASE End
  <2>1. flow' # "compiling" /\ ~state' /\ def_header' = 0
    BY <1>5 DEF End, EndThread, Semi, Error, Undo
  <2> QED
    BY <1>1, <2>1
<1>6. CASE FailsAt
  <2>1. flow' = "idle" /\ ~state' /\ def_header' = 0
    BY <1>6 DEF FailsAt, Thread, Fails, Error, Undo
  <2> QED
    BY <1>1, <2>1
<1>7. CASE Overflows
  <2>1. flow' = "idle" /\ ~state' /\ def_header' = 0
    BY <1>7 DEF Overflows, Dropped, Spill, Error, Undo
  <2> QED
    BY <1>1, <2>1
<1>8. CASE Aside
  <2>1. def_header' = def_header /\ (state' = state \/ def_header # 0)
    BY <1>8 DEF Aside, Bracketed, Bracket, Variable, Forget, Hide, Keep, AppOpen, AppClose, defining
  <2>2. CASE state \/ def_header # 0
    <3>1. source' = source /\ leaves' = leaves /\ flow' = flow
      BY <1>8, <2>2 DEF Aside, cvars
    <3> QED
      BY <1>2, <2>2, <3>1
  <2>3. CASE ~state /\ def_header = 0
    <3>1. flow' = "idle" /\ ~state' /\ def_header' = 0
      BY <1>8, <2>1, <2>3 DEF Aside, Dropped
    <3> QED
      BY <1>1, <3>1
  <2> QED
    BY <2>2, <2>3
<1>9. CASE UNCHANGED vars
  <2>1. /\ source' = source /\ leaves' = leaves /\ flow' = flow
        /\ state' = state /\ def_header' = def_header
    BY <1>9 DEF vars, dvars, cvars, defining
  <2> QED
    BY <1>2, <2>1
<1> QED
  BY <1>3, <1>4, <1>5, <1>6, <1>7, <1>8, <1>9 DEF Next

\* With a place among the LEAVEs for every word of the longest definition (forth.c: LEAVES_MAX)
\* nothing is asked of what is defined: a word leaves one address or mark there at most.
THEOREM ShortWordsCompileAsMeant ==
  ASSUME ~Inside, MaxSource <= LEAVES_MAX
  PROVE  Spec => []CompilesAsMeant
<1>1. Init => ThreadInv /\ FewLeaves
  <2>1. NoThread /\ NoWords => flow = "idle" /\ ~state /\ def_header = 0
    BY DEF NoThread, NoWords
  <2> QED
    BY <2>1, InitThread DEF Init, FewLeaves
<1>2. (ThreadInv /\ FewLeaves) /\ [Next]_vars => (ThreadInv /\ FewLeaves)'
  BY FewKept, ThreadKept
<1>3. (ThreadInv /\ FewLeaves) /\ [Next]_vars => [LoopsHaveRoom]_vars
  <2> SUFFICES ASSUME ThreadInv, FewLeaves, Next, NEW u \in Loops, source' = Append(source, u)
               PROVE  Len(leaves) < LEAVES_MAX
    BY DEF LoopsHaveRoom, vars, cvars
  <2>1. source \in Seq(Words) /\ leaves \in Seq(Nat) /\ MaxSource \in Nat /\ LEAVES_MAX \in Nat
    BY NowFields, ControlFlowAssumption DEF ThreadInv
  <2>2. Len(source') = Len(source) + 1 /\ Len(source) \in Nat /\ Len(leaves) \in Nat
    BY <2>1
  <2>3. Len(source) < MaxSource /\ flow = "compiling"
    <3>1. source' # source /\ source' # <<>>
      BY <2>2
    <3>2. CASE WordStep
      BY <3>2 DEF WordStep, Word, Written, FewLeaves
    <3>3. CASE Begin \/ FailsAt
      BY <3>1, <3>3 DEF Begin, FailsAt, Thread
    <3>4. CASE End
      BY <3>1, <3>4 DEF End, EndThread
    <3>5. CASE Aside
      BY <3>1, <3>5 DEF Aside, Dropped, cvars
    <3>6. CASE Overflows
      BY <3>1, <3>6 DEF Overflows, Dropped
    <3> QED
      BY <3>2, <3>3, <3>4, <3>5, <3>6 DEF Next
  <2> QED
    BY <2>1, <2>2, <2>3 DEF FewLeaves
<1> QED
  BY <1>1, <1>2, <1>3, WordsCompileAsMeant, PTL DEF Spec

=============================================================================
