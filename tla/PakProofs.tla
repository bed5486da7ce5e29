------------------------------ MODULE PakProofs ------------------------------
(***************************************************************************)
(* What is proved of PakFS and PakSwap, for every size of volume, every    *)
(* set of names and contents, and whatever goes wrong.  In this order:     *)
(*    the operators of Volume;                                             *)
(*    TypeOK;                                                              *)
(*    CacheInv: the copy of a mounted pak is that pak's;                   *)
(*    SoundInv: a pak whose checksum is right is sound;                    *)
(*    KeptInv: a save leaves the other files alone, so that every step of  *)
(*      PakFS is a step that FileStore allows;                             *)
(*    SwapInv: and so it is when another pak has been put in;              *)
(*    Packet: what the check of a page finds, in a page of any length.     *)
(***************************************************************************)
EXTENDS PakSwap, Packet, NumberLemmas, FiniteSetTheorems, SequenceTheorems

-----------------------------------------------------------------------------
(* Facts about the operators of Volume.                                    *)

LEMMA DataPagesNat == DataPages \subseteq Nat /\ Slots \subseteq Nat
BY VolumeAssumption DEF DataPages, Slots

\* Every table entry and every directory entry lies in a metadata block.
LEMMA BlockBounds ==
  /\ MetaBlocks \in Nat \ {0}
  /\ \A p \in DataPages : FatBlock(p) \in 1 .. MetaBlocks - 1
  /\ \A s \in Slots : DirBlock(s) \in 1 .. MetaBlocks - 1
<1> DEFINE F == FAT_PER_BLOCK
<1>0. F \in Nat /\ F > 0 /\ PAGES \in Nat /\ FS_DIR_MAX \in Nat /\ FS_DIR_MAX > 0
  BY VolumeAssumption
<1>1. FatBlocks \in Nat
  BY <1>0 DEF FatBlocks
<1>2. ASSUME NEW p \in DataPages
      PROVE  FatBlock(p) \in 1 .. FatBlocks
  <2>1. p \in Nat /\ p <= PAGES - 1
    BY VolumeAssumption DEF DataPages
  <2>2. p \div F \in Nat /\ (p \div F) * F <= p
    BY <1>0, <2>1
  <2>3. PAGES + F - 1 < (FatBlocks + 1) * F
    BY <1>0 DEF FatBlocks
  <2>4. ((p \div F) + 1) * F < (FatBlocks + 1) * F
    BY <1>0, <1>1, <2>1, <2>2, <2>3
  <2>5. p \div F < FatBlocks
    BY <1>0, <1>1, <2>2, <2>4
  <2> QED
    BY <1>1, <2>2, <2>5 DEF FatBlock
<1>3. ASSUME NEW s \in Slots
      PROVE  DirBlock(s) \in 1 .. MetaBlocks - 1
  BY <1>0, <1>1 DEF Slots, DirBlock, MetaBlocks
<1> QED
  BY <1>0, <1>1, <1>2, <1>3 DEF MetaBlocks

-----------------------------------------------------------------------------
(* What the operators that build volumes return.                           *)

LEMMA ZeroVolumeType == ZeroVolume \in Volumes /\ BlankVolume \in Volumes
<1>1. NoEntry \in Entries
  BY DEF NoEntry, Entries, Links
<1>2. ZeroVolume.fat \in Tables /\ ZeroVolume.dir \in Dirs
  BY <1>1 DEF ZeroVolume, Tables, Dirs, Links
<1>3. ZeroVolume.head \in Heads /\ BlankVolume.head \in Heads
  BY DEF ZeroVolume, BlankVolume, Heads
<1> QED
  BY <1>2, <1>3 DEF ZeroVolume, BlankVolume, Volumes

\* commit() changes the header and nothing else.
LEMMA StampedType ==
  ASSUME NEW v \in Volumes
  PROVE  /\ Stamped(v) \in Volumes /\ WithSum(v) \in Volumes
         /\ Stamped(v).fat = v.fat /\ Stamped(v).dir = v.dir
         /\ Stamped(v).data = v.data
<1>1. ASSUME NEW u \in Volumes
      PROVE  /\ WithSum(u) \in Volumes /\ WithSum(u).fat = u.fat
             /\ WithSum(u).dir = u.dir /\ WithSum(u).data = u.data
  <2>1. checksum(u) \in [fat : Tables, dir : Dirs]
    BY DEF checksum, Volumes
  <2>2. [u.head EXCEPT !.sum = checksum(u)] \in Heads
    BY <2>1 DEF Volumes, Heads
  <2> QED
    BY <2>2 DEF WithSum, Volumes
<1> DEFINE next == [v EXCEPT !.head = [@ EXCEPT !.gen = v.head.gen + 1]]
<1>2. v.head \in Heads
  BY DEF Volumes
<1>3. [v.head EXCEPT !.gen = v.head.gen + 1] \in Heads
  BY <1>2 DEF Heads
<1>4. next \in Volumes /\ next.fat = v.fat /\ next.dir = v.dir /\ next.data = v.data
  BY <1>3 DEF Volumes
<1> QED
  BY <1>1, <1>4 DEF Stamped

\* Copying blocks copies metadata only.
LEMMA CopyBlocksType ==
  ASSUME NEW v \in Volumes, NEW w \in Volumes, NEW B
  PROVE  /\ CopyBlocks(v, w, B) \in Volumes
         /\ CopyBlocks(v, w, B).data = v.data
BY DEF CopyBlocks, Volumes, Tables, Dirs

\* Copying all of them copies all of it.
LEMMA CopyAllBlocks ==
  ASSUME NEW v \in Volumes, NEW w \in Volumes
  PROVE  /\ CopyBlocks(v, w, Blocks).head = w.head
         /\ CopyBlocks(v, w, Blocks).fat = w.fat
         /\ CopyBlocks(v, w, Blocks).dir = w.dir
<1>1. 0 \in Blocks
  BY BlockBounds DEF Blocks
<1>2. \A p \in DataPages : FatBlock(p) \in Blocks
  BY BlockBounds DEF Blocks
<1>3. \A s \in Slots : DirBlock(s) \in Blocks
  BY BlockBounds DEF Blocks
<1> QED
  BY <1>1, <1>2, <1>3 DEF CopyBlocks, Volumes, Tables, Dirs

\* Stored in their order, the blocks come to be the same one by one, and in the end
\* all of them are.
LEMMA SameBlocksStart ==
  ASSUME NEW v, NEW w
  PROVE  SameBlocks(v, w, 0)
BY BlockBounds DEF SameBlocks

LEMMA SameBlocksStep ==
  ASSUME NEW v \in Volumes, NEW w \in Volumes, NEW k \in Blocks, SameBlocks(v, w, k)
  PROVE  SameBlocks(CopyBlocks(v, w, {k}), w, k + 1)
<1>1. MetaBlocks \in Nat /\ k \in Nat
  BY BlockBounds DEF Blocks
<1>2. \A p \in DataPages : FatBlock(p) \in Nat \ {0}
  BY BlockBounds
<1>3. \A s \in Slots : DirBlock(s) \in Nat \ {0}
  BY BlockBounds
<1>4. CopyBlocks(v, w, {k}).head = IF k = 0 THEN w.head ELSE v.head
  BY DEF CopyBlocks, Volumes
<1>5. \A p \in DataPages : CopyBlocks(v, w, {k}).fat[p] =
                             IF FatBlock(p) = k THEN w.fat[p] ELSE v.fat[p]
  BY DEF CopyBlocks, Volumes
<1>6. \A s \in Slots : CopyBlocks(v, w, {k}).dir[s] =
                         IF DirBlock(s) = k THEN w.dir[s] ELSE v.dir[s]
  BY DEF CopyBlocks, Volumes
<1> DEFINE c == CopyBlocks(v, w, {k})
<1> HIDE DEF c
<1>7. c.head = w.head
  BY <1>1, <1>4 DEF SameBlocks, c
<1>8. \A p \in DataPages : FatBlock(p) < k + 1 => c.fat[p] = w.fat[p]
  <2> TAKE p \in DataPages
  <2>1. FatBlock(p) \in Nat /\ (FatBlock(p) < k => v.fat[p] = w.fat[p])
    BY <1>2 DEF SameBlocks
  <2>2. c.fat[p] = IF FatBlock(p) = k THEN w.fat[p] ELSE v.fat[p]
    BY <1>5 DEF c
  <2> HIDE DEF c
  <2> QED
    BY <1>1, <2>1, <2>2
<1>9. \A s \in Slots : DirBlock(s) < k + 1 => c.dir[s] = w.dir[s]
  <2> TAKE s \in Slots
  <2>1. DirBlock(s) \in Nat /\ (DirBlock(s) < k => v.dir[s] = w.dir[s])
    BY <1>3 DEF SameBlocks
  <2>2. c.dir[s] = IF DirBlock(s) = k THEN w.dir[s] ELSE v.dir[s]
    BY <1>6 DEF c
  <2> QED
    BY <1>1, <2>1, <2>2
<1> QED
  BY <1>7, <1>8, <1>9 DEF SameBlocks, c

LEMMA SameBlocksEnd ==
  ASSUME NEW v \in Volumes, NEW w \in Volumes, SameBlocks(v, w, MetaBlocks)
  PROVE  v.head = w.head /\ v.fat = w.fat /\ v.dir = w.dir
<1>1. MetaBlocks > 0 /\ \A p \in DataPages : FatBlock(p) < MetaBlocks
  BY BlockBounds
<1>2. \A s \in Slots : DirBlock(s) < MetaBlocks
  BY BlockBounds
<1> QED
  BY <1>1, <1>2 DEF SameBlocks, Volumes, Tables, Dirs

\* A transfer that goes wrong stays within its block.
LEMMA DamagedBlockType ==
  ASSUME NEW v \in Volumes, NEW w \in Volumes, NEW b,
         NEW x \in DamagedBlock(v, w, b)
  PROVE  x \in Volumes /\ x.data = v.data
<1>1. CASE x = v \/ x = CopyBlocks(v, w, {b})
  BY <1>1, CopyBlocksType
<1>2. CASE x = [v EXCEPT !.head = [@ EXCEPT !.sum = NoSum]]
           \/ x = [v EXCEPT !.head = [@ EXCEPT !.magic = "other"]]
  BY <1>2 DEF Volumes, Heads
<1>3. CASE x = CopyBlocks(v, [v EXCEPT !.fat = [p \in DataPages |-> TornLink],
                                      !.dir = [s \in Slots |-> TornEntry]], {b})
  <2>1. TornEntry \in Entries
    BY DEF TornEntry, NoEntry, Entries, Links
  <2>2. [v EXCEPT !.fat = [p \in DataPages |-> TornLink],
                  !.dir = [s \in Slots |-> TornEntry]] \in Volumes
    BY <2>1 DEF Volumes, Tables, Dirs, Links
  <2> QED
    BY <1>3, <2>2, CopyBlocksType
<1> QED
  BY <1>1, <1>2, <1>3 DEF DamagedBlock

LEMMA FreeChainType ==
  ASSUME NEW fat \in Tables, NEW first
  PROVE  free_chain(fat, first) \in Tables
BY DEF free_chain, Tables, Links

\* Allocation and the directory scan stay inside the table and the directory.
LEMMA ScansType ==
  /\ \A fat : FreePages(fat) # {} =>
       Min(FreePages(fat)) \in DataPages /\ fat[Min(FreePages(fat))] = FAT_FREE
  /\ \A v, n : dir_find(v, n) \subseteq Slots
<1>1. ASSUME NEW fat, FreePages(fat) # {}
      PROVE  Min(FreePages(fat)) \in FreePages(fat)
  BY <1>1, MinIsLeast, DataPagesNat DEF FreePages
<1>2. ASSUME NEW v, NEW n, SlotsOf(v, n) # {}
      PROVE  Min(SlotsOf(v, n)) \in SlotsOf(v, n)
  BY <1>2, MinIsLeast, DataPagesNat DEF SlotsOf
<1> QED
  BY <1>1, <1>2 DEF FreePages, SlotsOf, dir_find

-----------------------------------------------------------------------------
(* The chains of a table: what a chain is, what leaves it alone, and how    *)
(* allocation and freeing change it.                                        *)

\* A mark is not a page.
LEMMA MarksAreNotPages ==
  FAT_FREE \notin DataPages /\ FAT_END \notin DataPages /\ FAT_FREE # FAT_END
BY VolumeAssumption DEF FAT_FREE, FAT_END, DataPages

\* Sets of pages are finite, so pages can be counted.
LEMMA PagesFinite ==
  ASSUME NEW S \in SUBSET DataPages
  PROVE  IsFiniteSet(S) /\ Cardinality(S) \in Nat
<1>1. IsFiniteSet(DataPages)
  BY VolumeAssumption, FS_Interval DEF DataPages
<1>2. IsFiniteSet(S)
  BY <1>1, FS_Subset
<1> QED
  BY <1>2, FS_CardinalityType

\* The chain from a page is the least closed set of pages that has it.
LEMMA ChainFacts ==
  ASSUME NEW fat, NEW f
  PROVE  /\ Chain(fat, f) \subseteq DataPages
         /\ Closed(fat, Chain(fat, f))
         /\ f \in DataPages => f \in Chain(fat, f)
         /\ f \notin DataPages => Chain(fat, f) = {}
<1>1. ASSUME NEW p \in Chain(fat, f), fat[p] \in DataPages
      PROVE  fat[p] \in Chain(fat, f)
  <2>1. f \in DataPages
    BY <1>1 DEF Chain
  <2>2. ASSUME NEW S \in SUBSET DataPages, f \in S, Closed(fat, S)
        PROVE  fat[p] \in S
    <3>1. p \in S
      BY <1>1, <2>2 DEF Chain
    <3> QED
      BY <1>1, <2>2, <3>1 DEF Closed
  <2> QED
    BY <1>1, <2>1, <2>2 DEF Chain
<1>2. Closed(fat, Chain(fat, f))
  BY <1>1 DEF Closed
<1> QED
  BY <1>2 DEF Chain

LEMMA ChainIsLeast ==
  ASSUME NEW fat, NEW f, NEW S \in SUBSET DataPages, f \in S, Closed(fat, S)
  PROVE  Chain(fat, f) \subseteq S
BY DEF Chain

\* A chain is the same in every table that has the same links along it.
LEMMA ChainLocal ==
  ASSUME NEW fat, NEW g, NEW f, \A p \in Chain(fat, f) : g[p] = fat[p]
  PROVE  Chain(g, f) = Chain(fat, f)
<1>1. CASE f \notin DataPages
  BY <1>1, ChainFacts
<1>2. CASE f \in DataPages
  <2>1. Closed(g, Chain(fat, f))
    BY ChainFacts DEF Closed
  <2>2. Chain(g, f) \subseteq Chain(fat, f)
    BY <1>2, <2>1, ChainFacts, ChainIsLeast
  <2>3. Closed(fat, Chain(g, f))
    <3>1. Closed(g, Chain(g, f))
      BY ChainFacts
    <3> QED
      BY <2>2, <3>1 DEF Closed
  <2>4. Chain(fat, f) \subseteq Chain(g, f)
    BY <1>2, <2>3, ChainFacts, ChainIsLeast
  <2> QED
    BY <2>2, <2>4
<1> QED
  BY <1>1, <1>2

\* A page that ends the table's chain is a chain of one.
LEMMA ChainOfOne ==
  ASSUME NEW g, NEW p \in DataPages, g[p] = FAT_END
  PROVE  Chain(g, p) = {p}
<1>1. Closed(g, {p})
  BY MarksAreNotPages DEF Closed
<1>2. Chain(g, p) \subseteq {p}
  BY <1>1, ChainIsLeast
<1> QED
  BY <1>2, ChainFacts

\* A page linked to the end of a chain makes it longer by that page.
LEMMA ChainGrows ==
  ASSUME NEW fat, NEW f \in DataPages, NEW last \in Chain(fat, f), fat[last] = FAT_END,
         NEW p \in DataPages, p \notin Chain(fat, f),
         NEW g, g[last] = p, g[p] = FAT_END,
         \A q \in Chain(fat, f) : q # last => g[q] = fat[q]
  PROVE  Chain(g, f) = Chain(fat, f) \cup {p}
<1> DEFINE C == Chain(fat, f)
           G == Chain(g, f)
<1>1. C \subseteq DataPages /\ Closed(fat, C) /\ f \in C
  BY ChainFacts
<1>2. G \subseteq DataPages /\ Closed(g, G) /\ f \in G
  BY ChainFacts
<1> HIDE DEF C, G
<1>3. \A q \in C : q # last => g[q] = fat[q]
  BY DEF C
<1>4. last \in C /\ p \notin C
  BY DEF C
<1>5. Closed(g, C \cup {p})
  BY <1>1, <1>3, MarksAreNotPages DEF Closed
<1>6. G \subseteq C \cup {p}
  BY <1>1, <1>5, ChainIsLeast DEF G
<1>7. Closed(fat, C \cap G)
  <2> SUFFICES ASSUME NEW q \in C \cap G, fat[q] \in DataPages
               PROVE  fat[q] \in C \cap G
    BY DEF Closed
  <2>1. q # last
    BY MarksAreNotPages
  <2>2. g[q] = fat[q]
    BY <1>3, <2>1
  <2> QED
    BY <1>1, <1>2, <2>2 DEF Closed
<1>8. C \subseteq G
  <2>1. C \subseteq C \cap G
    BY <1>1, <1>2, <1>7, ChainIsLeast DEF C
  <2> QED
    BY <2>1
<1>9. p \in G
  BY <1>2, <1>4, <1>8 DEF Closed
<1> QED
  BY <1>6, <1>8, <1>9 DEF C, G

\* free_chain leaves every chain alone that the freed one does not meet, and the
\* pages of the freed one are free.
LEMMA FreeChainFreesIt ==
  ASSUME NEW fat \in Tables, NEW f
  PROVE  /\ FreePages(free_chain(fat, f)) = FreePages(fat) \cup Chain(fat, f)
         /\ \A h : Chain(fat, h) \cap Chain(fat, f) = {} =>
              Chain(free_chain(fat, f), h) = Chain(fat, h)
<1> DEFINE g == free_chain(fat, f)
<1>1. \A p \in DataPages : g[p] = IF p \in Chain(fat, f) THEN FAT_FREE ELSE fat[p]
  BY DEF free_chain
<1> HIDE DEF g
<1>2. Chain(fat, f) \subseteq DataPages
  BY ChainFacts
<1>3. FreePages(g) = FreePages(fat) \cup Chain(fat, f)
  BY <1>1, <1>2 DEF FreePages
<1>4. ASSUME NEW h, Chain(fat, h) \cap Chain(fat, f) = {}
      PROVE  Chain(g, h) = Chain(fat, h)
  <2>1. \A p \in Chain(fat, h) : g[p] = fat[p]
    BY <1>1, <1>4, ChainFacts
  <2> QED
    BY <2>1, ChainLocal
<1> QED
  BY <1>3, <1>4 DEF g

-----------------------------------------------------------------------------
(* Sound volumes.                                                          *)

\* Soundness is of the table and the directory alone.
LEMMA SoundIsOfMetadata ==
  ASSUME NEW v, NEW w, v.fat = w.fat, v.dir = w.dir, Sound(v)
  PROVE  Sound(w)
BY DEF Sound, NoCrossLinks, NoLostPages, SizesRight, UsedSlots, SlotsOf, ChainOf

LEMMA BlankIsSound == Sound(BlankVolume)
<1>1. /\ BlankVolume.fat = [p \in DataPages |-> FAT_FREE]
      /\ BlankVolume.dir = [s \in Slots |-> NoEntry]
  BY DEF BlankVolume, ZeroVolume
<1>2. UsedSlots(BlankVolume) = {} /\ FreePages(BlankVolume.fat) = DataPages
  BY <1>1 DEF UsedSlots, FreePages, NoEntry
<1> QED
  BY <1>2 DEF Sound, NoCrossLinks, NoLostPages, SizesRight

\* fs_delete: a file's chain freed and its entry cleared.
LEMMA DeleteIsSound ==
  ASSUME NEW v \in Volumes, Sound(v), NEW s \in UsedSlots(v), NEW w,
         w.fat = free_chain(v.fat, v.dir[s].first), w.dir = [v.dir EXCEPT ![s] = NoEntry]
  PROVE  Sound(w)
<1>1. v.fat \in Tables /\ v.dir \in Dirs /\ s \in Slots
  BY DEF Volumes, UsedSlots
<1>2. \A t \in Slots : w.dir[t] = IF t = s THEN NoEntry ELSE v.dir[t]
  BY <1>1 DEF Dirs
<1>3. UsedSlots(w) = UsedSlots(v) \ {s}
  BY <1>2 DEF UsedSlots, NoEntry
<1>4. FreePages(w.fat) = FreePages(v.fat) \cup ChainOf(v, s)
  BY <1>1, FreeChainFreesIt DEF ChainOf
<1>5. ASSUME NEW t \in UsedSlots(w)
      PROVE  t \in UsedSlots(v) /\ t # s /\ w.dir[t] = v.dir[t] /\ ChainOf(w, t) = ChainOf(v, t)
  <2>1. t \in UsedSlots(v) /\ t # s /\ w.dir[t] = v.dir[t]
    BY <1>2, <1>3 DEF UsedSlots
  <2>2. ChainOf(v, t) \cap ChainOf(v, s) = {}
    BY <2>1 DEF Sound, NoCrossLinks
  <2> QED
    BY <1>1, <2>1, <2>2, FreeChainFreesIt DEF ChainOf
<1>6. NoCrossLinks(w)
  BY <1>5 DEF Sound, NoCrossLinks
<1>7. NoLostPages(w)
  <2>1. DataPages \ FreePages(v.fat) = UNION {ChainOf(v, t) : t \in UsedSlots(v)}
    BY DEF Sound, NoLostPages
  <2>2. \A t \in UsedSlots(v) \ {s} : ChainOf(w, t) = ChainOf(v, t) /\ ChainOf(v, t) \cap ChainOf(v, s) = {}
    BY <1>3, <1>5 DEF Sound, NoCrossLinks
  <2>3. DataPages \ FreePages(w.fat) = (DataPages \ FreePages(v.fat)) \ ChainOf(v, s)
    BY <1>4
  <2> QED
    BY <1>3, <2>1, <2>2, <2>3 DEF NoLostPages
<1>8. SizesRight(w)
  <2> SUFFICES ASSUME NEW t \in UsedSlots(w)
               PROVE  /\ Cardinality(ChainOf(w, t)) = w.dir[t].size
                      /\ SlotsOf(w, w.dir[t].name) = {t}
    BY DEF SizesRight
  <2>1. Cardinality(ChainOf(v, t)) = v.dir[t].size /\ SlotsOf(v, v.dir[t].name) = {t}
    BY <1>5 DEF Sound, SizesRight
  <2>2. w.dir[t].name # NoName
    BY DEF UsedSlots
  <2> QED
    BY <1>2, <1>5, <2>1, <2>2 DEF SlotsOf, NoEntry
<1> QED
  BY <1>6, <1>7, <1>8 DEF Sound

\* fs_rename: a name that no other file has.
LEMMA RenameIsSound ==
  ASSUME NEW v \in Volumes, Sound(v), NEW s \in UsedSlots(v), NEW to \in Names,
         SlotsOf(v, to) \subseteq {s}, NEW w,
         w.fat = v.fat, w.dir = [v.dir EXCEPT ![s].name = to]
  PROVE  Sound(w)
<1>1. v.dir \in Dirs /\ s \in Slots /\ to # NoName
  BY VolumeAssumption DEF Volumes, UsedSlots
<1>2. /\ \A t \in Slots : t # s => w.dir[t] = v.dir[t]
      /\ w.dir[s].name = to /\ w.dir[s].first = v.dir[s].first /\ w.dir[s].size = v.dir[s].size
  BY <1>1 DEF Dirs, Entries
<1>3. UsedSlots(w) = UsedSlots(v) /\ \A t \in UsedSlots(v) : ChainOf(w, t) = ChainOf(v, t)
  BY <1>1, <1>2 DEF UsedSlots, ChainOf
<1>4. NoCrossLinks(w) /\ NoLostPages(w)
  BY <1>3 DEF Sound, NoCrossLinks, NoLostPages
<1>5. SizesRight(w)
  <2> SUFFICES ASSUME NEW t \in UsedSlots(w)
               PROVE  /\ Cardinality(ChainOf(w, t)) = w.dir[t].size
                      /\ SlotsOf(w, w.dir[t].name) = {t}
    BY DEF SizesRight
  <2>1. t \in Slots /\ t \in UsedSlots(v)
    BY <1>3 DEF UsedSlots
  <2>2. Cardinality(ChainOf(v, t)) = v.dir[t].size /\ SlotsOf(v, v.dir[t].name) = {t}
    BY <2>1 DEF Sound, SizesRight
  <2>3. Cardinality(ChainOf(w, t)) = w.dir[t].size
    BY <1>2, <1>3, <2>1, <2>2
  <2>4. SlotsOf(w, w.dir[t].name) = {t}
    <3>1. CASE t = s
      BY <1>1, <1>2, <3>1 DEF SlotsOf
    <3>2. CASE t # s
      <4>1. v.dir[t].name # to
        BY <2>1, <3>2 DEF SlotsOf
      <4> QED
        BY <1>1, <1>2, <2>1, <2>2, <3>2, <4>1 DEF SlotsOf
    <3> QED
      BY <3>1, <3>2
  <2> QED
    BY <2>3, <2>4
<1> QED
  BY <1>4, <1>5 DEF Sound

\* The end of fs_write: of a volume with a chain of pages apart from its files, in
\* which no slot but s is wrong, a sound one is made by giving s that chain and the
\* name, and freeing what it had.
LEMMA FinishIsSound ==
  ASSUME NEW v \in Volumes, NEW s \in Slots, NEW first, NEW e, NEW w,
         e.name \in Names, e.first = first, e.size = Cardinality(Chain(v.fat, first)),
         NoCrossLinks(v),
         \A t \in UsedSlots(v) : ChainOf(v, t) \cap Chain(v.fat, first) = {},
         DataPages \ FreePages(v.fat) =
           Chain(v.fat, first) \cup UNION {ChainOf(v, t) : t \in UsedSlots(v)},
         SlotsOf(v, e.name) = UsedSlots(v) \cap {s},
         \A t \in UsedSlots(v) \ {s} : /\ Cardinality(ChainOf(v, t)) = v.dir[t].size
                                       /\ SlotsOf(v, v.dir[t].name) = {t},
         w.fat = IF s \in UsedSlots(v) THEN free_chain(v.fat, v.dir[s].first) ELSE v.fat,
         w.dir = [v.dir EXCEPT ![s] = e]
  PROVE  Sound(w)
<1> DEFINE C == Chain(v.fat, first)
           Old == IF s \in UsedSlots(v) THEN ChainOf(v, s) ELSE {}
           Rest == UsedSlots(v) \ {s}
<1>1. v.fat \in Tables /\ v.dir \in Dirs /\ e.name # NoName
  BY VolumeAssumption DEF Volumes
<1>2. \A t \in Slots : w.dir[t] = IF t = s THEN e ELSE v.dir[t]
  BY <1>1 DEF Dirs
<1>3. UsedSlots(w) = Rest \cup {s}
  BY <1>1, <1>2 DEF UsedSlots
<1>4. /\ FreePages(w.fat) = FreePages(v.fat) \cup Old
      /\ \A h : Chain(v.fat, h) \cap Old = {} => Chain(w.fat, h) = Chain(v.fat, h)
  <2>1. CASE s \in UsedSlots(v)
    BY <1>1, <2>1, FreeChainFreesIt DEF ChainOf
  <2>2. CASE s \notin UsedSlots(v)
    BY <2>2
  <2> QED
    BY <2>1, <2>2
<1>5. C \cap Old = {} /\ ChainOf(w, s) = C
  <2>1. C \cap Old = {}
    OBVIOUS
  <2>2. w.dir[s].first = first
    BY <1>2
  <2> QED
    BY <1>4, <2>1, <2>2 DEF ChainOf
<1>6. ASSUME NEW t \in Rest
      PROVE  /\ t \in Slots /\ w.dir[t] = v.dir[t] /\ ChainOf(w, t) = ChainOf(v, t)
             /\ ChainOf(v, t) \cap Old = {} /\ ChainOf(v, t) \cap C = {}
  <2>1. t \in Slots /\ w.dir[t] = v.dir[t]
    BY <1>2 DEF UsedSlots
  <2>2. ChainOf(v, t) \cap Old = {} /\ ChainOf(v, t) \cap C = {}
    BY DEF NoCrossLinks
  <2> QED
    BY <1>4, <2>1, <2>2 DEF ChainOf
<1>7. NoCrossLinks(w)
  <2> SUFFICES ASSUME NEW t \in UsedSlots(w), NEW u \in UsedSlots(w), t # u
               PROVE  ChainOf(w, t) \cap ChainOf(w, u) = {}
    BY DEF NoCrossLinks
  <2> HIDE DEF C, Old
  <2>1. CASE t = s
    BY <1>3, <1>5, <1>6, <2>1
  <2>2. CASE u = s
    BY <1>3, <1>5, <1>6, <2>2
  <2>3. CASE t # s /\ u # s
    BY <1>3, <1>6, <2>3 DEF NoCrossLinks
  <2> QED
    BY <2>1, <2>2, <2>3
<1>8. NoLostPages(w)
  <2>1. DataPages \ FreePages(w.fat) = (C \cup UNION {ChainOf(v, t) : t \in UsedSlots(v)}) \ Old
    BY <1>4
  <2>2. UNION {ChainOf(v, t) : t \in UsedSlots(v)} = Old \cup UNION {ChainOf(v, t) : t \in Rest}
    OBVIOUS
  <2>3. UNION {ChainOf(w, t) : t \in UsedSlots(w)} = C \cup UNION {ChainOf(v, t) : t \in Rest}
    BY <1>3, <1>5, <1>6
  <2> HIDE DEF C, Old, Rest
  <2>4. (UNION {ChainOf(v, t) : t \in Rest}) \cap Old = {}
    BY <1>6
  <2> QED
    BY <1>5, <2>1, <2>2, <2>3, <2>4 DEF NoLostPages
<1>9. SizesRight(w)
  <2> SUFFICES ASSUME NEW t \in UsedSlots(w)
               PROVE  /\ Cardinality(ChainOf(w, t)) = w.dir[t].size
                      /\ SlotsOf(w, w.dir[t].name) = {t}
    BY DEF SizesRight
  <2>1. CASE t = s
    <3>1. Cardinality(ChainOf(w, t)) = w.dir[t].size /\ w.dir[t].name = e.name
      BY <1>2, <1>5, <2>1
    <3>2. \A u \in Slots : u # s => v.dir[u].name # e.name
      BY DEF SlotsOf
    <3> QED
      BY <1>2, <2>1, <3>1, <3>2 DEF SlotsOf
  <2>2. CASE t # s
    <3>1. t \in Rest /\ t \in Slots
      BY <1>3, <2>2 DEF UsedSlots
    <3>2. Cardinality(ChainOf(v, t)) = v.dir[t].size /\ SlotsOf(v, v.dir[t].name) = {t}
      BY <3>1
    <3>3. v.dir[t].name # e.name
      BY <2>2, <3>1 DEF SlotsOf
    <3> QED
      BY <1>2, <1>6, <2>2, <3>1, <3>2, <3>3 DEF SlotsOf
  <2> QED
    BY <2>1, <2>2
<1> QED
  BY <1>7, <1>8, <1>9 DEF Sound
\* fs_write, when the new version fits in no other way: the pages of the old one are
\* free, and nothing else is disturbed.
LEMMA ReleaseKeeps ==
  ASSUME NEW v \in Volumes, Sound(v), NEW s \in UsedSlots(v), NEW w,
         w.fat = free_chain(v.fat, v.dir[s].first),
         w.dir = [v.dir EXCEPT ![s].first = FAT_END]
  PROVE  /\ UsedSlots(w) = UsedSlots(v) /\ \A n : SlotsOf(w, n) = SlotsOf(v, n)
         /\ NoCrossLinks(w) /\ NoLostPages(w)
         /\ \A t \in UsedSlots(v) \ {s} : ChainOf(w, t) = ChainOf(v, t) /\ w.dir[t] = v.dir[t]
         /\ Cardinality(FreePages(w.fat)) =
              Cardinality(FreePages(v.fat)) + Cardinality(ChainOf(v, s))
<1>1. v.fat \in Tables /\ v.dir \in Dirs /\ s \in Slots
  BY DEF Volumes, UsedSlots
<1>2. /\ \A t \in Slots : t # s => w.dir[t] = v.dir[t]
      /\ \A t \in Slots : w.dir[t].name = v.dir[t].name
      /\ w.dir[s].first = FAT_END
  BY <1>1 DEF Dirs, Entries
<1>3. UsedSlots(w) = UsedSlots(v) /\ \A n : SlotsOf(w, n) = SlotsOf(v, n)
  BY <1>2 DEF UsedSlots, SlotsOf
<1>4. FreePages(w.fat) = FreePages(v.fat) \cup ChainOf(v, s)
  BY <1>1, FreeChainFreesIt DEF ChainOf
<1>5. ASSUME NEW t \in UsedSlots(v) \ {s}
      PROVE  /\ ChainOf(w, t) = ChainOf(v, t) /\ w.dir[t] = v.dir[t]
             /\ ChainOf(v, t) \cap ChainOf(v, s) = {}
  <2>1. t \in Slots /\ w.dir[t] = v.dir[t]
    BY <1>2 DEF UsedSlots
  <2>2. ChainOf(v, t) \cap ChainOf(v, s) = {}
    BY DEF Sound, NoCrossLinks
  <2> QED
    BY <1>1, <2>1, <2>2, FreeChainFreesIt DEF ChainOf
<1>6. ChainOf(w, s) = {}
  BY <1>2, MarksAreNotPages, ChainFacts DEF ChainOf
<1>7. NoCrossLinks(w)
  BY <1>3, <1>5, <1>6 DEF Sound, NoCrossLinks
<1>8. DataPages \ FreePages(v.fat) = UNION {ChainOf(v, t) : t \in UsedSlots(v)}
  BY DEF Sound, NoLostPages
<1>9. NoLostPages(w)
  <2>1. DataPages \ FreePages(w.fat) = (DataPages \ FreePages(v.fat)) \ ChainOf(v, s)
    BY <1>4
  <2> QED
    BY <1>3, <1>5, <1>6, <1>8, <2>1 DEF NoLostPages
<1>10. Cardinality(FreePages(w.fat)) =
         Cardinality(FreePages(v.fat)) + Cardinality(ChainOf(v, s))
  <2>1. ChainOf(v, s) \subseteq DataPages /\ FreePages(v.fat) \subseteq DataPages
    BY ChainFacts DEF ChainOf, FreePages
  <2>2. FreePages(v.fat) \cap ChainOf(v, s) = {}
    BY <1>8
  <2>3. IsFiniteSet(FreePages(v.fat)) /\ IsFiniteSet(ChainOf(v, s))
        /\ Cardinality(FreePages(v.fat)) \in Nat /\ Cardinality(ChainOf(v, s)) \in Nat
    BY <2>1, PagesFinite
  <2>4. Cardinality(FreePages(v.fat) \cap ChainOf(v, s)) = 0
    BY <2>2, FS_EmptySet
  <2>5. Cardinality(FreePages(v.fat) \cup ChainOf(v, s)) =
          Cardinality(FreePages(v.fat)) + Cardinality(ChainOf(v, s))
            - Cardinality(FreePages(v.fat) \cap ChainOf(v, s))
    BY <2>3, FS_Union, Zenon
  <2> QED
    BY <1>4, <2>3, <2>4, <2>5
<1> QED
  BY <1>3, <1>5, <1>7, <1>9, <1>10

-----------------------------------------------------------------------------
(* The pages of a chain one by one.  PageAt is recursive, and what it is for     *)
(* every i is proved by the least i for which it would not be so.          *)

\* The function that PageAt defines for itself.
Turn(fat, p) == IF p \in DataPages THEN fat[p] ELSE p
IsAt(g, fat, first, n) ==
  g = [k \in 1 .. n |-> IF k = 1 THEN first
                        ELSE IF g[k-1] \in DataPages THEN fat[g[k-1]] ELSE g[k-1]]

LEMMA AtFirst ==
  ASSUME NEW fat, NEW first, NEW n \in Nat, NEW g, IsAt(g, fat, first, n), 1 \in 1 .. n
  PROVE  g[1] = first
BY DEF IsAt

LEMMA AtLater ==
  ASSUME NEW fat, NEW first, NEW n \in Nat, NEW g, IsAt(g, fat, first, n),
         NEW k \in 1 .. n, k # 1
  PROVE  g[k] = Turn(fat, g[k - 1])
<1>1. g[k] = IF k = 1 THEN first
             ELSE IF g[k-1] \in DataPages THEN fat[g[k-1]] ELSE g[k-1]
  BY DEF IsAt
<1> QED
  BY <1>1 DEF Turn

LEMMA AtExists ==
  ASSUME NEW fat, NEW first
  PROVE  \A n \in Nat : \E g : IsAt(g, fat, first, n)
<1> DEFINE Bad == {n \in Nat : ~ \E g : IsAt(g, fat, first, n)}
           m == Min(Bad)
<1> SUFFICES ASSUME Bad # {} PROVE FALSE
  OBVIOUS
<1>1. m \in Bad /\ \A n \in Bad : m <= n
  BY MinIsLeast
<1> HIDE DEF m
<1>2. m \in Nat /\ ~ \E g : IsAt(g, fat, first, m)
  BY <1>1
<1>3. CASE m = 0
  <2> DEFINE e == [k \in 1 .. 0 |-> first]
  <2>1. e = [k \in 1 .. 0 |-> IF k = 1 THEN first
                              ELSE IF e[k-1] \in DataPages THEN fat[e[k-1]] ELSE e[k-1]]
    OBVIOUS
  <2>2. IsAt(e, fat, first, 0)
    BY <2>1 DEF IsAt
  <2> QED
    BY <1>2, <1>3, <2>2
<1>4. CASE m # 0
  <2>1. m - 1 \in Nat /\ m - 1 \notin Bad
    BY <1>1, <1>2, <1>4
  <2>2. PICK h : IsAt(h, fat, first, m - 1)
    BY <2>1
  <2> DEFINE g == [k \in 1 .. m |-> IF k < m THEN h[k]
                                    ELSE IF m = 1 THEN first ELSE Turn(fat, h[m - 1])]
  <2>3. ASSUME NEW k \in 1 .. m
        PROVE  g[k] = IF k = 1 THEN first
                      ELSE IF g[k-1] \in DataPages THEN fat[g[k-1]] ELSE g[k-1]
    <3>1. CASE k = 1
      <4>1. m > 1 => h[1] = first
        BY <1>2, <2>1, <2>2, AtFirst, AtLater
      <4> QED
        BY <1>2, <3>1, <4>1
    <3>2. CASE k # 1
      <4>1. k - 1 \in 1 .. m /\ k - 1 < m /\ g[k - 1] = h[k - 1]
        BY <1>2, <3>2
      <4>2. g[k] = Turn(fat, h[k - 1])
        <5>1. CASE k = m
          BY <3>2, <5>1
        <5>2. CASE k # m
          <6>1. k \in 1 .. m - 1 /\ g[k] = h[k]
            BY <1>2, <5>2
          <6> QED
            BY <2>1, <2>2, <3>2, <6>1, AtFirst, AtLater
        <5> QED
          BY <5>1, <5>2
      <4> QED
        BY <3>2, <4>1, <4>2 DEF Turn
    <3> QED
      BY <3>1, <3>2
  <2>4. DOMAIN g = 1 .. m /\ g = [k \in 1 .. m |-> g[k]]
    OBVIOUS
  <2> HIDE DEF g
  <2>5. IsAt(g, fat, first, m)
    BY <2>3, <2>4 DEF IsAt
  <2> QED
    BY <1>2, <2>5
<1> QED
  BY <1>3, <1>4

LEMMA AtUnique ==
  ASSUME NEW fat, NEW first, NEW n \in Nat, NEW m \in Nat, NEW g, NEW h,
         IsAt(g, fat, first, n), IsAt(h, fat, first, m)
  PROVE  \A k \in 1 .. n : k <= m => g[k] = h[k]
<1> DEFINE Bad == {k \in Nat : k \in 1 .. n /\ k <= m /\ g[k] # h[k]}
           b == Min(Bad)
<1> SUFFICES ASSUME Bad # {} PROVE FALSE
  OBVIOUS
<1>1. b \in Bad /\ \A k \in Bad : b <= k
  BY MinIsLeast
<1> HIDE DEF b
<1>2. b \in 1 .. n /\ b \in 1 .. m /\ g[b] # h[b]
  BY <1>1
<1>3. b # 1
  <2>1. 1 \in 1 .. n /\ 1 \in 1 .. m
    BY <1>2
  <2>2. g[1] = first
    BY <2>1, AtFirst, AtLater
  <2>3. h[1] = first
    BY <2>1, AtFirst, AtLater
  <2> QED
    BY <1>2, <2>2, <2>3
<1>4. b - 1 \in 1 .. n /\ b - 1 <= m /\ b - 1 \in Nat /\ b - 1 < b
  BY <1>2, <1>3
<1>5. g[b - 1] = h[b - 1]
  BY <1>1, <1>4
<1>6. g[b] = Turn(fat, g[b - 1])
  BY <1>2, <1>3, AtLater
<1>7. h[b] = Turn(fat, h[b - 1])
  BY <1>2, <1>3, AtLater
<1> QED
  BY <1>2, <1>5, <1>6, <1>7

\* The i-th page of a chain, by induction on i.
LEMMA PageAtSteps ==
  ASSUME NEW fat, NEW first
  PROVE  /\ PageAt(fat, first, 1) = first
         /\ \A i \in Nat \ {0} : PageAt(fat, first, i + 1) = Turn(fat, PageAt(fat, first, i))
<1> DEFINE at(n) == CHOOSE g : IsAt(g, fat, first, n)
<1>1. \A n \in Nat : IsAt(at(n), fat, first, n)
  BY AtExists, Zenon
<1>2. \A n : PageAt(fat, first, n) = at(n)[n]
  BY Zenon DEF PageAt, IsAt
<1> HIDE DEF at
<1>3. PageAt(fat, first, 1) = first
  <2>1. 1 \in Nat /\ 1 \in 1 .. 1
    OBVIOUS
  <2>2. IsAt(at(1), fat, first, 1)
    BY <1>1, <2>1
  <2>3. at(1)[1] = first
    BY <2>1, <2>2, AtFirst, AtLater
  <2> QED
    BY <1>2, <2>3
<1>4. ASSUME NEW i \in Nat \ {0}
      PROVE  PageAt(fat, first, i + 1) = Turn(fat, PageAt(fat, first, i))
  <2>1. i + 1 \in Nat /\ i + 1 # 1 /\ i + 1 \in 1 .. i + 1 /\ i + 1 - 1 = i /\ i \in 1 .. i + 1 /\ i \in Nat
    OBVIOUS
  <2>2. at(i + 1)[i + 1] = Turn(fat, at(i + 1)[i])
    <3>1. IsAt(at(i + 1), fat, first, i + 1)
      BY <1>1, <2>1
    <3>2. at(i + 1)[i + 1] = Turn(fat, at(i + 1)[i + 1 - 1])
      BY <2>1, <3>1, AtLater
    <3> QED
      BY <2>1, <3>2
  <2>3. at(i + 1)[i] = at(i)[i]
    BY <1>1, <2>1, AtUnique
  <2> QED
    BY <1>2, <2>2, <2>3
<1> QED
  BY <1>3, <1>4

-----------------------------------------------------------------------------
(* The pages of a file, in their order.                                    *)

\* The loop of fs_read and the one of free_chain follow the same links: as many
\* pages as the chain has are all of it.
LEMMA PagesOfChain ==
  ASSUME NEW fat, NEW first \in DataPages, NEW n \in Nat, n = Cardinality(Chain(fat, first))
  PROVE  \A i \in 1 .. n : PageAt(fat, first, i) \in Chain(fat, first)
<1> DEFINE C == Chain(fat, first)
           at(i) == PageAt(fat, first, i)
           Bad == {i \in Nat : i \in 1 .. n /\ at(i) \notin C}
           b == Min(Bad)
<1> SUFFICES ASSUME Bad # {} PROVE FALSE
  OBVIOUS
<1>1. b \in Bad /\ \A i \in Bad : b <= i
  BY MinIsLeast
<1>2. C \subseteq DataPages /\ Closed(fat, C) /\ first \in C
  BY ChainFacts
<1>3. at(1) = first /\ \A i \in Nat \ {0} : at(i + 1) = Turn(fat, at(i))
  BY PageAtSteps
<1> HIDE DEF b, C, at
<1>4. b \in 1 .. n /\ at(b) \notin C /\ b # 1
  BY <1>1, <1>2, <1>3
<1> DEFINE k == b - 1
<1>5. k \in Nat \ {0} /\ k + 1 = b /\ k < n
  BY <1>4
<1>6. \A j \in 1 .. k : at(j) \in C
  BY <1>1, <1>4
<1> HIDE DEF k
<1>7. fat[at(k)] \notin DataPages
  <2>1. at(k) \in C
    BY <1>5, <1>6
  <2>2. at(b) = fat[at(k)]
    BY <1>2, <1>3, <1>5, <2>1 DEF Turn
  <2> QED
    BY <1>2, <1>4, <2>1, <2>2 DEF Closed
<1> DEFINE S == {at(j) : j \in 1 .. k}
<1>8. S \subseteq C /\ S \in SUBSET DataPages /\ first \in S
  BY <1>2, <1>3, <1>5, <1>6
<1>9. Closed(fat, S)
  <2> SUFFICES ASSUME NEW j \in 1 .. k, fat[at(j)] \in DataPages
               PROVE  fat[at(j)] \in S
    BY DEF Closed
  <2>1. j \in Nat \ {0} /\ j # k
    BY <1>5, <1>7
  <2>2. j + 1 \in 1 .. k
    BY <1>5, <2>1
  <2>3. at(j + 1) = fat[at(j)]
    BY <1>2, <1>3, <1>6, <2>1 DEF Turn
  <2> QED
    BY <2>2, <2>3
<1>10. C \subseteq S
  BY <1>8, <1>9, ChainIsLeast DEF C
<1>11. Cardinality(S) <= k
  <2> DEFINE f == [j \in 1 .. k |-> at(j)]
  <2>1. f \in Surjection(1 .. k, S)
    BY DEF Surjection
  <2>2. ExistsSurjection(1 .. k, S)
    BY <2>1 DEF ExistsSurjection
  <2> HIDE DEF f, S
  <2> QED
    BY <1>5, <2>2, FS_SurjCardinalityBound
<1> HIDE DEF S
<1>12. Cardinality(C) <= Cardinality(S) /\ Cardinality(S) \in Nat
  BY <1>8, <1>10, PagesFinite, FS_Subset
<1> QED
  BY <1>5, <1>11, <1>12 DEF C

\* Two tables with the same links along the way lead the same way.
SameLinks(fat, g, first, n) ==
  \A i \in 1 .. n - 1 : g[PageAt(fat, first, i)] = fat[PageAt(fat, first, i)]

LEMMA SameWay ==
  ASSUME NEW fat, NEW g, NEW first, NEW n \in Nat, SameLinks(fat, g, first, n),
         NEW k \in 1 .. n
  PROVE  PageAt(g, first, k) = PageAt(fat, first, k)
<1> DEFINE at(i) == PageAt(fat, first, i)
           gt(i) == PageAt(g, first, i)
           Bad == {i \in Nat : i \in 1 .. n /\ gt(i) # at(i)}
           b == Min(Bad)
<1> SUFFICES ASSUME Bad # {} PROVE FALSE
  OBVIOUS
<1>1. b \in Bad /\ \A i \in Bad : b <= i
  BY MinIsLeast
<1>2. at(1) = first /\ \A i \in Nat \ {0} : at(i + 1) = Turn(fat, at(i))
  BY PageAtSteps
<1>3. gt(1) = first /\ \A i \in Nat \ {0} : gt(i + 1) = Turn(g, gt(i))
  BY PageAtSteps
<1>4. \A i \in 1 .. n - 1 : g[at(i)] = fat[at(i)]
  BY DEF SameLinks
<1> HIDE DEF b, at, gt
<1>5. b \in 1 .. n /\ gt(b) # at(b) /\ b # 1
  BY <1>1, <1>2, <1>3
<1>6. b - 1 \in Nat \ {0} /\ (b - 1) + 1 = b /\ b - 1 \in 1 .. n - 1 /\ b - 1 \in 1 .. n
  BY <1>5
<1>7. gt(b - 1) = at(b - 1) /\ g[at(b - 1)] = fat[at(b - 1)]
  BY <1>1, <1>4, <1>6
<1>8. gt(b) = Turn(g, gt(b - 1)) /\ at(b) = Turn(fat, at(b - 1))
  BY <1>2, <1>3, <1>6
<1> QED
  BY <1>5, <1>7, <1>8 DEF Turn

\* A page linked to the end of a chain is its next page, and moves no other.
LEMMA NextPage ==
  ASSUME NEW fat, NEW first \in DataPages, NEW n \in Nat \ {0},
         n = Cardinality(Chain(fat, first)),
         NEW last \in Chain(fat, first), fat[last] = FAT_END,
         PageAt(fat, first, n) = last,
         NEW p \in DataPages, NEW g, g[last] = p,
         \A q \in Chain(fat, first) : q # last => g[q] = fat[q]
  PROVE  /\ \A i \in 1 .. n : PageAt(g, first, i) = PageAt(fat, first, i)
         /\ PageAt(g, first, n + 1) = p
<1> DEFINE C == Chain(fat, first)
           S == C \ {last}
<1>1. \A i \in 1 .. n : PageAt(fat, first, i) \in C
  BY PagesOfChain
<1>2. C \subseteq DataPages
  BY ChainFacts
<1>3. ASSUME NEW i \in 1 .. n - 1
      PROVE  PageAt(fat, first, i) \in S
  <2>1. i \in 1 .. n /\ i + 1 \in 1 .. n /\ i \in Nat \ {0}
    OBVIOUS
  <2>2. PageAt(fat, first, i + 1) = Turn(fat, PageAt(fat, first, i))
    <3>1. \A k \in Nat \ {0} : PageAt(fat, first, k + 1) = Turn(fat, PageAt(fat, first, k))
      BY PageAtSteps
    <3> QED
      BY <2>1, <3>1
  <2>3. PageAt(fat, first, i) \in C /\ PageAt(fat, first, i + 1) \in C
    BY <1>1, <2>1
  <2>4. PageAt(fat, first, i) # last
    BY <1>2, <2>2, <2>3, MarksAreNotPages DEF Turn
  <2> QED
    BY <2>3, <2>4
<1>4. \A q \in S : g[q] = fat[q]
  OBVIOUS
<1> HIDE DEF S
<1>5. n \in Nat
  OBVIOUS
<1>6. \A i \in 1 .. n : PageAt(g, first, i) = PageAt(fat, first, i)
  <2>1. SameLinks(fat, g, first, n)
    BY <1>3, <1>4 DEF SameLinks
  <2> QED
    BY <1>5, <2>1, SameWay
<1>7. PageAt(g, first, n) = last
  BY <1>6
<1>8. PageAt(g, first, n + 1) = Turn(g, last)
  <2>1. \A i \in Nat \ {0} : PageAt(g, first, i + 1) = Turn(g, PageAt(g, first, i))
    BY PageAtSteps
  <2> QED
    BY <1>7, <2>1
<1>9. last \in DataPages
  BY <1>2
<1> QED
  BY <1>6, <1>8, <1>9 DEF Turn

\* What a file reads as depends on its own entry, links and pages, and on nothing else.
LEMMA SameContent ==
  ASSUME NEW v \in Volumes, NEW w, NEW s \in Slots, NEW t \in Slots,
         Cardinality(ChainOf(v, s)) = v.dir[s].size,
         w.dir[t].size = v.dir[s].size, w.dir[t].first = v.dir[s].first,
         \A p \in ChainOf(v, s) : w.fat[p] = v.fat[p] /\ w.data[p] = v.data[p]
  PROVE  FileContent(w, t) = FileContent(v, s)
<1> DEFINE n == v.dir[s].size
           first == v.dir[s].first
<1>1. n \in Nat
  BY DEF Volumes, Dirs, Entries
<1>2. CASE first \in DataPages
  <2>1. \A i \in 1 .. n : PageAt(v.fat, first, i) \in ChainOf(v, s)
    BY <1>1, <1>2, PagesOfChain DEF ChainOf
  <2> HIDE DEF n, first
  <2>2. SameLinks(v.fat, w.fat, first, n)
    BY <1>1, <2>1 DEF SameLinks
  <2>3. \A i \in 1 .. n : PageAt(w.fat, first, i) = PageAt(v.fat, first, i)
    BY <1>1, <2>2, SameWay
  <2>4. \A i \in 1 .. n : w.data[PageAt(w.fat, first, i)] = v.data[PageAt(v.fat, first, i)]
    BY <2>1, <2>3
  <2> QED
    BY <2>4 DEF FileContent, n, first
<1>3. CASE first \notin DataPages
  <2>1. Cardinality(ChainOf(v, s)) = 0
    BY <1>3, ChainFacts, FS_EmptySet DEF ChainOf
  <2>2. n = 0
    BY <2>1
  <2> QED
    BY <2>2 DEF FileContent
<1> QED
  BY <1>2, <1>3

\* A file has no more pages than the volume, and each holds something.
LEMMA ContentType ==
  ASSUME NEW v \in Volumes, NEW s \in Slots, Cardinality(ChainOf(v, s)) = v.dir[s].size
  PROVE  /\ v.dir[s].size \in 0 .. fs_capacity
         /\ FileContent(v, s) \in [1 .. v.dir[s].size -> Data \cup {Blank, Torn}]
<1> DEFINE n == v.dir[s].size
           first == v.dir[s].first
<1>1. n \in Nat
  BY DEF Volumes, Dirs, Entries
<1>2. ChainOf(v, s) \subseteq DataPages
  BY ChainFacts DEF ChainOf
<1>3. n <= fs_capacity
  <2>1. META_PAGES \in Int /\ PAGES - 1 \in Int /\ META_PAGES <= PAGES - 1
    BY VolumeAssumption
  <2>2. IsFiniteSet(DataPages) /\ Cardinality(DataPages) = (PAGES - 1) - META_PAGES + 1
    BY <2>1, FS_Interval DEF DataPages
  <2>3. Cardinality(DataPages) = fs_capacity
    BY <2>2, VolumeAssumption DEF fs_capacity
  <2> QED
    BY <1>2, <2>2, <2>3, FS_Subset
<1>4. ASSUME NEW i \in 1 .. n
      PROVE  v.data[PageAt(v.fat, first, i)] \in Data \cup {Blank, Torn}
  <2>1. CASE first \in DataPages
    <3>1. PageAt(v.fat, first, i) \in ChainOf(v, s)
      BY <1>1, <2>1, PagesOfChain DEF ChainOf
    <3> QED
      BY <1>2, <3>1 DEF Volumes
  <2>2. CASE first \notin DataPages
    <3>1. Cardinality(ChainOf(v, s)) = 0
      BY <2>2, ChainFacts, FS_EmptySet DEF ChainOf
    <3> QED
      BY <3>1
  <2> QED
    BY <2>1, <2>2
<1>5. fs_capacity \in Nat
  BY VolumeAssumption DEF fs_capacity
<1> QED
  BY <1>1, <1>3, <1>4, <1>5 DEF FileContent

-----------------------------------------------------------------------------
(* What the calls leave.                                                   *)

SaveType == [slot : Slots \cup {-1}, got : Nat, first : Links,
             prev : DataPages \cup {-1}, reuse : BOOLEAN]

LEMMA NoCallType == NoCall \in Calls \cup {NoCall} /\ NoSave \in SaveType
BY DEF NoSave, SaveType, Links

\* Every call carries contents that are a sequence of pages.
LEMMA CallFields ==
  ASSUME NEW c \in Calls \cup {NoCall}
  PROVE  /\ c.buf \in Seq(Data) /\ Len(c.buf) \in Nat
         /\ c.name \in Names \cup {NoName}
         /\ c.to \in Names \cup {NoName}
<1>1. /\ c.buf \in Contents \cup {<<>>}
      /\ c.name \in Names \cup {NoName} /\ c.to \in Names \cup {NoName}
  BY DEF Calls, NoCall
<1>2. <<>> \in Seq(Data) /\ Contents \subseteq Seq(Data)
  BY VolumeAssumption
<1>3. c.buf \in Seq(Data)
  BY <1>1, <1>2
<1>4. Len(c.buf) \in Nat
  BY <1>3
<1> QED
  BY <1>1, <1>3, <1>4

LEMMA EntryType ==
  ASSUME NEW n \in Names \cup {NoName}, NEW k \in Nat, NEW l \in Links, NEW z \in Nat
  PROVE  [name |-> n, size |-> k, first |-> l, serial |-> z] \in Entries
BY DEF Entries

LEMMA InitType == Init => TypeOK
<1> SUFFICES ASSUME Init PROVE TypeOK
  OBVIOUS
<1>1. pak \in Volumes
  BY PakAssumption DEF Init
<1>2. vol \in Volumes
  BY ZeroVolumeType DEF Init
<1>3. blk \in 0 .. MetaBlocks
  BY BlockBounds DEF Init
<1>4. seen \in BOOLEAN /\ slotFull \in BOOLEAN
  BY DEF Init
<1>5. save \in SaveType /\ call \in Calls \cup {NoCall}
  BY NoCallType DEF Init
<1> QED
  BY <1>1, <1>2, <1>3, <1>4, <1>5
  DEF Init, TypeOK, States, Phases, Results, SaveType

LEMMA MountType ==
  ASSUME TypeOK, NEW back \in {"idle", "body"}, Mount(back), UNCHANGED device
  PROVE  TypeOK'
<1>1. pak' \in Volumes /\ slotFull' \in BOOLEAN /\ seen' \in BOOLEAN
  BY DEF TypeOK, device
<1>2. state' \in States
  BY DEF Mount, MountRamDisk, MountPak, MountNoAnswer, MountBlankPak, TypeOK, States
<1>3. on_pak' \in BOOLEAN /\ loaded' \subseteq DataPages
  BY DEF Mount, MountRamDisk, MountPak, MountNoAnswer, MountBlankPak, TypeOK
<1>4. vol' \in Volumes
  <2>1. CASE MountRamDisk
    BY <2>1, ZeroVolumeType, StampedType DEF MountRamDisk, TypeOK
  <2>2. CASE MountPak
    BY <2>2, ZeroVolumeType, CopyBlocksType DEF MountPak, TypeOK
  <2>3. ASSUME NEW b \in Blocks, MountNoAnswer(b)
        PROVE  vol' \in Volumes
    <3>1. PICK h \in IF b = 0 THEN {vol.head, [vol.head EXCEPT !.magic = "other"]}
                              ELSE {pak.head} :
            vol' = [ZeroVolume EXCEPT !.head = h]
      BY <2>3, Zenon DEF MountNoAnswer
    <3>2. vol.head \in Heads /\ pak.head \in Heads
      BY DEF TypeOK, Volumes
    <3>3. [vol.head EXCEPT !.magic = "other"] \in Heads
      BY <3>2 DEF Heads
    <3>4. h \in Heads
      BY <3>2, <3>3
    <3> QED
      BY <3>1, <3>4, ZeroVolumeType DEF Volumes
  <2>4. CASE MountBlankPak(back)
    BY <2>4, ZeroVolumeType, StampedType DEF MountBlankPak
  <2> QED
    BY <2>1, <2>2, <2>3, <2>4 DEF Mount
<1>5. call' \in Calls \cup {NoCall} /\ save' \in SaveType
  BY NoCallType DEF Mount, MountBlankPak, Resume, TypeOK, SaveType
<1>6. pc' \in Phases /\ after' \in {"idle", "body"} /\ res' \in Results
  BY DEF Mount, MountBlankPak, TypeOK, Phases
<1>7. blk' \in 0 .. MetaBlocks /\ purpose' \in {"save", "format", "blank"}
  BY BlockBounds
  DEF Mount, MountRamDisk, MountPak, MountNoAnswer, MountBlankPak, TypeOK
<1> QED
  BY <1>1, <1>2, <1>3, <1>4, <1>5, <1>6, <1>7 DEF TypeOK, SaveType

\* fs_mount, fs_format and the calls that only look.
LEMMA LookType ==
  ASSUME TypeOK,
         DoMount \/ Revalidate \/ MountCall \/ FormatCall \/ StatCall \/ WriteRefused
  PROVE  TypeOK'
<1>1. CASE DoMount
  BY <1>1, MountType DEF DoMount
<1>2. CASE MountCall
  BY <1>2, MountType DEF MountCall
<1>3. CASE Revalidate
  <2>1. CASE CacheDoubted /\ Mount("body") /\ UNCHANGED device
    BY <2>1, MountType
  <2>2. CASE /\ CacheTrusted /\ pc' = "body"
             /\ UNCHANGED <<cache, call, save, blk, purpose, after, res>>
             /\ UNCHANGED device
    BY <2>2 DEF TypeOK, cache, device, Phases
  <2> QED
    BY <1>3, <2>1, <2>2 DEF Revalidate
<1>4. CASE FormatCall
  <2>1. vol' \in Volumes
    BY <1>4, ZeroVolumeType, StampedType DEF FormatCall
  <2>2. call' \in Calls \cup {NoCall} /\ save' \in SaveType
    BY <1>4, NoCallType DEF FormatCall, Return, TypeOK, SaveType
  <2>3. blk' \in 0 .. MetaBlocks
    BY <1>4, BlockBounds DEF FormatCall, Return, TypeOK
  <2>4. /\ state' \in States /\ on_pak' \in BOOLEAN /\ loaded' \subseteq DataPages
        /\ pc' \in Phases /\ res' \in Results
    BY <1>4 DEF FormatCall, Return, TypeOK, States, Phases, Results
  <2>5. purpose' \in {"save", "format", "blank"} /\ UNCHANGED <<device, after>>
    BY <1>4 DEF FormatCall, TypeOK
  <2> QED
    BY <2>1, <2>2, <2>3, <2>4, <2>5 DEF TypeOK, SaveType, device
<1>5. CASE StatCall
  BY <1>5, NoCallType
  DEF StatCall, Return, device, cache, TypeOK, SaveType, Phases, Results
<1>6. CASE WriteRefused
  <2>1. WriteCheck(call.name, call.buf) \in Results
    BY DEF WriteCheck, writable, Results
  <2> QED
    BY <1>6, <2>1, NoCallType
    DEF WriteRefused, Return, device, cache, TypeOK, SaveType, Phases
<1> QED
  BY <1>1, <1>2, <1>3, <1>4, <1>5, <1>6

LEMMA ReadType == ASSUME TypeOK, ReadCall PROVE TypeOK'
<1>1. UNCHANGED <<device, state, on_pak, blk, purpose, after>>
  BY DEF ReadCall
<1>2. \E r \in Results : Return(r)
  BY DEF ReadCall, Results
<1>3. vol' \in Volumes /\ loaded' \subseteq DataPages
  <2>1. CASE UNCHANGED <<vol, loaded>>
    BY <2>1 DEF TypeOK
  <2>2. ASSUME NEW got, got \subseteq DataPages,
               NEW new, new \subseteq got,
               vol' = [vol EXCEPT !.data =
                         [p \in DataPages |-> IF p \in new THEN pak.data[p] ELSE @[p]]],
               loaded' = loaded \cup new
        PROVE  vol' \in Volumes /\ loaded' \subseteq DataPages
    BY <2>2 DEF TypeOK, Volumes
  <2>3. ASSUME NEW s \in Find(call.name), NEW n, NEW j,
               LET got == FilePages(vol, s, j)
                   new == IF on_pak THEN got \ loaded ELSE {}
               IN  /\ got \subseteq DataPages
                   /\ vol' = [vol EXCEPT !.data =
                                [p \in DataPages |->
                                   IF p \in new THEN pak.data[p] ELSE @[p]]]
                   /\ loaded' = loaded \cup new
        PROVE  vol' \in Volumes /\ loaded' \subseteq DataPages
    <3> DEFINE new == IF on_pak THEN FilePages(vol, s, j) \ loaded ELSE {}
    <3>1. new \subseteq FilePages(vol, s, j)
      OBVIOUS
    <3> HIDE DEF new
    <3> QED
      BY <2>2, <2>3, <3>1, Zenon DEF new
  <2> QED
    BY <2>1, <2>3, Zenon DEF ReadCall
<1>4. call' \in Calls \cup {NoCall} /\ save' \in SaveType /\ pc' \in Phases
      /\ res' \in Results
  BY <1>2, NoCallType DEF Return, Phases
<1> QED
  BY <1>1, <1>3, <1>4 DEF TypeOK, SaveType, device

\* A volume with another table and directory.
LEMMA NewMetaType ==
  ASSUME NEW v \in Volumes, NEW t \in Tables, NEW d \in Dirs
  PROVE  /\ [v EXCEPT !.fat = t, !.dir = d] \in Volumes
         /\ [v EXCEPT !.dir = d] \in Volumes
         /\ [v EXCEPT !.fat = t] \in Volumes
BY DEF Volumes

LEMMA SetEntryType ==
  ASSUME NEW d \in Dirs, NEW s, NEW e \in Entries
  PROVE  [d EXCEPT ![s] = e] \in Dirs
BY DEF Dirs

LEMMA EntryFieldType ==
  ASSUME NEW d \in Dirs, NEW s
  PROVE  /\ \A l \in Links : [d EXCEPT ![s].first = l] \in Dirs
         /\ \A n \in Names \cup {NoName} : [d EXCEPT ![s].name = n] \in Dirs
<1>1. CASE s \in Slots
  <2>1. d[s] \in Entries
    BY <1>1 DEF Dirs
  <2>2. \A l \in Links : [d[s] EXCEPT !.first = l] \in Entries
    BY <2>1 DEF Entries
  <2>3. \A n \in Names \cup {NoName} : [d[s] EXCEPT !.name = n] \in Entries
    BY <2>1 DEF Entries
  <2> QED
    BY <2>2, <2>3 DEF Dirs
<1>2. CASE s \notin Slots
  BY <1>2 DEF Dirs
<1> QED
  BY <1>1, <1>2

\* Whoever commits a well-typed volume leaves well-typed variables.
LEMMA CommitType ==
  ASSUME TypeOK, NEW v \in Volumes,
         Commit(v, "save"), UNCHANGED <<device, state, on_pak, loaded, after>>
  PROVE  TypeOK'
<1>1. vol' \in Volumes
  BY StampedType DEF Commit
<1>2. blk' \in 0 .. MetaBlocks
  BY BlockBounds DEF Commit, TypeOK
<1>3. call' \in Calls \cup {NoCall} /\ save' \in SaveType
  BY NoCallType DEF Commit, Return, TypeOK, SaveType
<1> QED
  BY <1>1, <1>2, <1>3 DEF Commit, Return, TypeOK, SaveType, device, Phases, Results

LEMMA RefusedType ==
  ASSUME TypeOK, NEW r \in Results, Return(r),
         UNCHANGED <<vol, blk, purpose>>,
         UNCHANGED <<device, state, on_pak, loaded, after>>
  PROVE  TypeOK'
BY NoCallType DEF Return, TypeOK, SaveType, device, Phases

LEMMA ChangeType ==
  ASSUME TypeOK, DeleteCall \/ RenameCall \/ FinishWrite
  PROVE  TypeOK'
<1>0. vol \in Volumes /\ vol.fat \in Tables /\ vol.dir \in Dirs
      /\ call \in Calls \cup {NoCall}
  BY DEF TypeOK, Volumes
<1>1. CASE DeleteCall
  <2>1. DeleteCheck(call.name) \in Results
    BY DEF DeleteCheck, writable, NotOnPak, Results
  <2>2. NoEntry \in Entries
    BY DEF NoEntry, Entries, Links
  <2>3. ASSUME NEW s
        PROVE  [vol EXCEPT !.fat = free_chain(@, vol.dir[s].first),
                           !.dir = [@ EXCEPT ![s] = NoEntry]] \in Volumes
    BY <1>0, <2>2, FreeChainType, SetEntryType, NewMetaType
  <2> QED
    BY <1>1, <2>1, <2>3, CommitType, RefusedType, Zenon DEF DeleteCall
<1>2. CASE RenameCall
  <2>1. RenameCheck(call.name, call.to) \in Results
    BY DEF RenameCheck, writable, NotOnPak, Results
  <2>2. ASSUME NEW s
        PROVE  [vol EXCEPT !.dir = [@ EXCEPT ![s].name = call.to]] \in Volumes
    BY <1>0, CallFields, EntryFieldType, NewMetaType
  <2> QED
    BY <1>2, <2>1, <2>2, CommitType, RefusedType, Zenon DEF RenameCall
<1>3. CASE FinishWrite
  <2>1. NewEntry \in Entries
    <3>1. save.first \in Links /\ vol.head.gen + 1 \in Nat
      BY DEF TypeOK, Volumes, Heads
    <3> QED
      BY <1>0, <3>1, CallFields, EntryType DEF NewEntry
  <2>2. Finished \in Volumes
    BY <1>0, <2>1, FreeChainType, SetEntryType, NewMetaType DEF Finished
  <2> QED
    BY <1>3, <2>2, CommitType, Zenon DEF FinishWrite
<1> QED
  BY <1>1, <1>2, <1>3

\* The slot a save goes to is one of the directory's.
LEMMA SlotForType ==
  ASSUME NEW n, Find(n) # {} \/ UsedSlots(vol) # Slots
  PROVE  SlotFor(n) \in Slots
<1>1. Find(n) \subseteq Slots
  BY ScansType DEF Find
<1>2. CASE Find(n) # {}
  BY <1>1, <1>2, MinIsLeast, DataPagesNat DEF SlotFor
<1>3. CASE Find(n) = {}
  <2>1. UsedSlots(vol) \subseteq Slots
    BY DEF UsedSlots
  <2>2. {s \in Slots : s \notin UsedSlots(vol)} # {}
    BY <1>3, <2>1
  <2> QED
    BY <1>3, <2>2, MinIsLeast, DataPagesNat DEF SlotFor
<1> QED
  BY <1>2, <1>3

LEMMA WriteCallType == ASSUME TypeOK, WriteCall PROVE TypeOK'
<1>0. vol \in Volumes /\ vol.fat \in Tables /\ vol.dir \in Dirs
  BY DEF TypeOK, Volumes
<1>1. SlotFor(call.name) \in Slots
  <2>1. WriteCheck(call.name, call.buf) = "ok"
    BY DEF WriteCall
  <2>2. Find(call.name) # {} \/ UsedSlots(vol) # Slots
    BY <2>1 DEF WriteCheck, writable
  <2> QED
    BY <2>2, SlotForType
<1>2. ReleaseOld(call.name) \in Volumes
  <2>1. FAT_END \in Links
    BY DEF Links
  <2> QED
    BY <1>0, <2>1, FreeChainType, EntryFieldType, NewMetaType DEF ReleaseOld
<1>3. vol' \in Volumes
  BY <1>0, <1>2 DEF WriteCall
<1>4. save' \in SaveType
  BY <1>1, NoCallType DEF WriteCall, SaveType
<1> QED
  BY <1>3, <1>4 DEF WriteCall, TypeOK, SaveType, device, Phases

\* A page claimed: the table stays a table.
LEMMA ClaimType ==
  ASSUME NEW fat \in Tables, NEW p \in DataPages
  PROVE  Claim(fat, p) \in Tables
BY DEF Claim, Tables, Links

LEMMA DataType ==
  ASSUME NEW v \in Volumes, NEW p, NEW d \in Data \cup {Blank, Torn}
  PROVE  [v EXCEPT !.data = [@ EXCEPT ![p] = d]] \in Volumes
BY DEF Volumes

\* What the loop stores is the next page of the file, where it stores it a page.
LEMMA StoringFacts ==
  ASSUME TypeOK, Storing
  PROVE  /\ PageToStore \in DataPages /\ vol.fat[PageToStore] = FAT_FREE
         /\ call.buf[save.got + 1] \in Data
<1>1. PageToStore \in DataPages /\ vol.fat[PageToStore] = FAT_FREE
  BY ScansType DEF Storing, PagesLeft, PageToStore
<1>2. save.got \in Nat /\ call \in Calls \cup {NoCall}
  BY DEF TypeOK
<1>3. call.buf \in Seq(Data) /\ save.got < Len(call.buf)
  BY <1>2, CallFields DEF Storing, PagesLeft
<1> QED
  BY <1>1, <1>2, <1>3

LEMMA StoreType == ASSUME TypeOK, StorePage \/ StorePageFails PROVE TypeOK'
<1> DEFINE p == PageToStore
           d == call.buf[save.got + 1]
<1>1. p \in DataPages /\ d \in Data
  BY StoringFacts DEF StorePage, StorePageFails
<1>0. vol \in Volumes /\ vol.fat \in Tables /\ pak \in Volumes
  BY DEF TypeOK, Volumes
<1> HIDE DEF p, d
<1>2. CASE StorePage
  <2>1. vol' = [vol EXCEPT !.data = [@ EXCEPT ![p] = d], !.fat = Claim(@, p)]
    BY <1>2 DEF StorePage, p, d
  <2>2. [vol EXCEPT !.data = [@ EXCEPT ![p] = d]] \in Volumes
    BY <1>0, <1>1, DataType
  <2>3. vol' \in Volumes
    BY <1>0, <1>1, <2>1, <2>2, ClaimType, NewMetaType DEF Volumes
  <2>4. pak' \in Volumes
    BY <1>0, <1>1, <1>2, DataType DEF StorePage, p, d
  <2>5. save' \in SaveType
    <3>1. save \in SaveType
      BY DEF TypeOK, SaveType
    <3>2. save' = [save EXCEPT !.got = @ + 1, !.prev = p,
                               !.first = IF save.got = 0 THEN p ELSE @]
      BY <1>2 DEF StorePage, p
    <3>3. p \in Links
      BY <1>1 DEF Links
    <3>4. save.got + 1 \in Nat /\ save.first \in Links
      BY <3>1 DEF SaveType
    <3> DEFINE f1 == IF save.got = 0 THEN p ELSE save.first
    <3>5. f1 \in Links
      BY <3>3, <3>4
    <3>6. save' = [save EXCEPT !.got = save.got + 1, !.prev = p, !.first = f1]
      BY <3>2
    <3> HIDE DEF f1
    <3> QED
      BY <1>1, <3>1, <3>4, <3>5, <3>6 DEF SaveType
  <2>6. loaded' \subseteq DataPages
    BY <1>1, <1>2 DEF StorePage, TypeOK, p
  <2> QED
    BY <1>2, <2>3, <2>4, <2>5, <2>6 DEF StorePage, TypeOK, SaveType
<1>3. CASE StorePageFails
  <2>1. vol' \in Volumes
    BY <1>0, <1>1, <1>3, DataType DEF StorePageFails, p, d
  <2>2. pak' \in Volumes
    <3>1. PICK x \in {pak.data[p], d, Torn} :
            pak' = [pak EXCEPT !.data = [@ EXCEPT ![p] = x]]
      BY <1>3 DEF StorePageFails, p, d
    <3>2. x \in Data \cup {Blank, Torn}
      BY <1>0, <1>1, <3>1 DEF Volumes
    <3> QED
      BY <1>0, <3>1, <3>2, DataType
  <2> QED
    BY <1>3, <2>1, <2>2 DEF StorePageFails, TypeOK, Phases, Results
<1> QED
  BY <1>2, <1>3

LEMMA CommitStepType ==
  ASSUME TypeOK, CommitBlock \/ CommitFails \/ CommitDone
  PROVE  TypeOK'
<1>0. pak \in Volumes /\ vol \in Volumes /\ blk \in Nat /\ MetaBlocks \in Nat
  BY BlockBounds DEF TypeOK
<1>1. CASE CommitBlock
  <2>1. pak' \in Volumes
    BY <1>0, <1>1, CopyBlocksType DEF CommitBlock
  <2>2. blk' \in 0 .. MetaBlocks
    BY <1>0, <1>1 DEF CommitBlock, Committing
  <2> QED
    BY <1>1, <2>1, <2>2 DEF CommitBlock, cache, TypeOK
<1>2. CASE CommitFails
  <2>1. pak' \in Volumes
    BY <1>0, <1>2, DamagedBlockType DEF CommitFails
  <2>2. call' \in Calls \cup {NoCall} /\ save' \in SaveType
    BY <1>2, NoCallType DEF CommitFails, Return, Resume, TypeOK, SaveType
  <2>3. pc' \in Phases /\ res' \in Results /\ state' \in States
    BY <1>2 DEF CommitFails, Return, TypeOK, Phases, Results, States
  <2>4. blk' \in 0 .. MetaBlocks
    BY <1>0, <1>2 DEF CommitFails, CommitOver
  <2> QED
    BY <1>2, <2>1, <2>2, <2>3, <2>4 DEF CommitFails, CommitOver, TypeOK, SaveType
<1>3. CASE CommitDone
  <2>1. call' \in Calls \cup {NoCall} /\ save' \in SaveType
    BY <1>3, NoCallType DEF CommitDone, Return, Resume, TypeOK, SaveType
  <2>2. pc' \in Phases /\ res' \in Results /\ state' \in States
    BY <1>3 DEF CommitDone, Return, TypeOK, Phases, Results, States
  <2>3. blk' \in 0 .. MetaBlocks
    BY <1>0, <1>3 DEF CommitDone, CommitOver
  <2> QED
    BY <1>3, <2>1, <2>2, <2>3 DEF CommitDone, CommitOver, device, TypeOK, SaveType
<1> QED
  BY <1>1, <1>2, <1>3

LEMMA WorldType ==
  ASSUME TypeOK, World \/ \E c \in Calls : Call(c)
  PROVE  TypeOK'
<1>1. CASE Identify \/ Pull \/ Insert
  BY <1>1 DEF Identify, Pull, Insert, cache, flow, TypeOK, SaveType
<1>2. CASE PowerFail
  <2>1. vol' \in Volumes
    BY <1>2, ZeroVolumeType DEF PowerFail, Boot
  <2>2. call' \in Calls \cup {NoCall} /\ save' \in SaveType
    BY <1>2, NoCallType DEF PowerFail, Boot
  <2>3. blk' \in 0 .. MetaBlocks
    BY <1>2, BlockBounds DEF PowerFail, Boot
  <2>4. seen' \in BOOLEAN
    BY <1>2 DEF PowerFail, Boot, TypeOK
  <2> QED
    BY <1>2, <2>1, <2>2, <2>3, <2>4
    DEF PowerFail, Boot, TypeOK, SaveType, States, Phases, Results
<1>3. ASSUME NEW c \in Calls, Call(c)
      PROVE  TypeOK'
  BY <1>3 DEF Call, device, cache, TypeOK, SaveType, Phases, Results
<1> QED
  BY <1>1, <1>2, <1>3 DEF World

LEMMA NextType == TypeOK /\ [Next]_vars => TypeOK'
<1>1. ASSUME TypeOK, Next
      PROVE  TypeOK'
  BY <1>1, LookType, ReadType, WriteCallType, StoreType, ChangeType, CommitStepType,
     WorldType, Zenon
  DEF Next, Step
<1>2. ASSUME TypeOK, UNCHANGED vars
      PROVE  TypeOK'
  BY <1>2 DEF vars, TypeOK
<1> QED
  BY <1>1, <1>2

\* TypeOK is an invariant, for every volume and whatever goes wrong: in particular
\* the loop of fs_write never leaves the table, and a torn or partial directory is
\* still one that every operation can be asked about.
THEOREM TypeCorrect == Spec => []TypeOK
BY InitType, NextType, PTL DEF Spec

-----------------------------------------------------------------------------
(* CacheInv is inductive, so the kernel's copy of a mounted pak is that    *)
(* pak's, and no save writes over a page in use that it need not.          *)

LEMMA InitCache == Init => CacheInv
BY DEF Init, CacheInv, OnThePak, MountedCopy, StoredBlocks, ClaimsOnly,
    LastClaimed, CachedPages

\* Once fs_mount is back, what it read is what there is.
LEMMA MountCache ==
  ASSUME TypeOK, CacheInv, NEW back \in {"idle", "body"}, Mount(back), UNCHANGED device
  PROVE  CacheInv'
<1>0. pak' = pak /\ pak \in Volumes
  BY DEF device, TypeOK
<1>1. CASE MountRamDisk /\ pc' = back
  BY <1>1
  DEF MountRamDisk, CacheInv, OnThePak, MountedCopy, StoredBlocks, ClaimsOnly,
    LastClaimed, CachedPages
<1>2. CASE MountPak /\ pc' = back
  <2>1. vol'.head = pak'.head /\ vol'.fat = pak'.fat /\ vol'.dir = pak'.dir
    BY <1>0, <1>2, ZeroVolumeType, CopyAllBlocks DEF MountPak
  <2> QED
    BY <1>2, <2>1
    DEF MountPak, CacheInv, OnThePak, MountedCopy, StoredBlocks, ClaimsOnly,
    LastClaimed, CachedPages
<1>3. ASSUME NEW b \in Blocks, MountNoAnswer(b), pc' = back
      PROVE  CacheInv'
  BY <1>3
  DEF MountNoAnswer, CacheInv, OnThePak, MountedCopy, StoredBlocks, ClaimsOnly,
    LastClaimed, CachedPages
<1>4. CASE MountBlankPak(back)
  <2>1. on_pak' = TRUE /\ pc' = "commit" /\ purpose' = "blank" /\ blk' = 0
        /\ loaded' = DataPages /\ vol' = Stamped(BlankVolume) /\ state' = state
    BY <1>4 DEF MountBlankPak
  <2>2. vol'.fat = BlankVolume.fat
    BY <2>1, ZeroVolumeType, StampedType
  <2>3. \A p \in DataPages : vol'.fat[p] = FAT_FREE
    BY <2>2 DEF BlankVolume, ZeroVolume
  <2>4. SameBlocks(pak', vol', 0)
    BY SameBlocksStart
  <2> QED
    BY <2>1, <2>3, <2>4
    DEF CacheInv, OnThePak, MountedCopy, StoredBlocks, ClaimsOnly,
    LastClaimed, CachedPages
<1> QED
  BY <1>1, <1>2, <1>3, <1>4 DEF Mount

\* Nothing that CacheInv speaks of has changed, but for the call being over.
LEMMA ReturnCache ==
  ASSUME CacheInv, UNCHANGED <<pak, state, on_pak, vol, loaded>>,
         pc \in {"idle", "revalidate", "body"},
         pc' \in {"idle", "revalidate", "body"}
  PROVE  CacheInv'
BY DEF CacheInv, OnThePak, MountedCopy, StoredBlocks, ClaimsOnly,
    LastClaimed, CachedPages

LEMMA LookCache ==
  ASSUME TypeOK, CacheInv,
         DoMount \/ Revalidate \/ MountCall \/ FormatCall \/ StatCall \/ WriteRefused
  PROVE  CacheInv'
<1>1. CASE DoMount
  BY <1>1, MountCache DEF DoMount
<1>2. CASE MountCall
  BY <1>2, MountCache DEF MountCall
<1>3. CASE Revalidate
  <2>1. CASE CacheDoubted /\ Mount("body") /\ UNCHANGED device
    BY <2>1, MountCache
  <2>2. CASE pc' = "body" /\ UNCHANGED cache /\ UNCHANGED device
    BY <1>3, <2>2, ReturnCache DEF Revalidate, cache, device
  <2> QED
    BY <1>3, <2>1, <2>2 DEF Revalidate
<1>4. CASE FormatCall
  <2>1. CASE seen
    <3>1. on_pak' = TRUE /\ pc' = "commit" /\ purpose' = "format" /\ blk' = 0
          /\ loaded' = DataPages /\ vol' = Stamped(BlankVolume) /\ state' = state
      BY <1>4, <2>1 DEF FormatCall
    <3>2. vol'.fat = BlankVolume.fat
      BY <3>1, ZeroVolumeType, StampedType
    <3>3. \A p \in DataPages : vol'.fat[p] = FAT_FREE
      BY <3>2 DEF BlankVolume, ZeroVolume
    <3>4. SameBlocks(pak', vol', 0)
      BY SameBlocksStart
    <3> QED
      BY <3>1, <3>3, <3>4
      DEF CacheInv, OnThePak, MountedCopy, StoredBlocks, ClaimsOnly,
    LastClaimed, CachedPages
  <2>2. CASE ~seen
    BY <1>4, <2>2
    DEF FormatCall, Return, CacheInv, OnThePak, MountedCopy, StoredBlocks,
        ClaimsOnly,
    LastClaimed, CachedPages
  <2> QED
    BY <2>1, <2>2
<1>5. CASE StatCall
  BY <1>5, ReturnCache DEF StatCall, Return, device, cache
<1>6. CASE WriteRefused
  BY <1>6, ReturnCache DEF WriteRefused, Return, device, cache
<1> QED
  BY <1>1, <1>2, <1>3, <1>4, <1>5, <1>6

\* What fs_read loads is what the pak holds.
LEMMA ReadCache == ASSUME TypeOK, CacheInv, ReadCall PROVE CacheInv'
<1>1. /\ UNCHANGED <<pak, state, on_pak>> /\ pc = "body" /\ pc' = "idle"
  BY DEF ReadCall, device, Return
<1>2. /\ vol'.head = vol.head /\ vol'.fat = vol.fat /\ vol'.dir = vol.dir
      /\ on_pak => \A p \in loaded' : vol'.fat[p] # FAT_FREE => vol'.data[p] = pak.data[p]
  <2>0. vol \in Volumes /\ loaded \subseteq DataPages /\ CachedPages
    BY DEF TypeOK, CacheInv
  <2>1. CASE UNCHANGED <<vol, loaded>>
    BY <2>0, <2>1 DEF CachedPages
  <2>2. ASSUME NEW new, new \subseteq DataPages,
               vol' = [vol EXCEPT !.data =
                         [p \in DataPages |-> IF p \in new THEN pak.data[p] ELSE @[p]]],
               loaded' = loaded \cup new
        PROVE  /\ vol'.head = vol.head /\ vol'.fat = vol.fat /\ vol'.dir = vol.dir
               /\ on_pak => \A p \in loaded' :
                    vol'.fat[p] # FAT_FREE => vol'.data[p] = pak.data[p]
    BY <2>0, <2>2 DEF CachedPages, Volumes
  <2>3. ASSUME NEW s \in Find(call.name), NEW n, NEW j,
               LET got == FilePages(vol, s, j)
                   new == IF on_pak THEN got \ loaded ELSE {}
               IN  /\ got \subseteq DataPages
                   /\ vol' = [vol EXCEPT !.data =
                                [p \in DataPages |->
                                   IF p \in new THEN pak.data[p] ELSE @[p]]]
                   /\ loaded' = loaded \cup new
        PROVE  \E new : /\ new \subseteq DataPages
                        /\ vol' = [vol EXCEPT !.data =
                                     [p \in DataPages |->
                                        IF p \in new THEN pak.data[p] ELSE @[p]]]
                        /\ loaded' = loaded \cup new
    <3> DEFINE new == IF on_pak THEN FilePages(vol, s, j) \ loaded ELSE {}
    <3>1. new \subseteq FilePages(vol, s, j)
      OBVIOUS
    <3>2. new \subseteq DataPages
      BY <2>3, <3>1, Zenon
    <3> HIDE DEF new
    <3> WITNESS new
    <3> QED
      BY <2>3, <3>2, Zenon DEF new
  <2>4. UNCHANGED <<vol, loaded>>
        \/ \E new : /\ new \subseteq DataPages
                    /\ vol' = [vol EXCEPT !.data =
                                 [p \in DataPages |->
                                    IF p \in new THEN pak.data[p] ELSE @[p]]]
                    /\ loaded' = loaded \cup new
    BY <2>3, Zenon DEF ReadCall
  <2> QED
    BY <2>1, <2>2, <2>4, Zenon
<1> QED
  BY <1>1, <1>2
  DEF CacheInv, OnThePak, MountedCopy, StoredBlocks, ClaimsOnly,
    LastClaimed, CachedPages

\* commit() of a volume with the same pages, whose table has no page in use that
\* the table before did not have.
LEMMA CommitCache ==
  ASSUME TypeOK, CacheInv, NEW v \in Volumes, Commit(v, "save"),
         pc \in {"body", "store"}, Mounted,
         UNCHANGED <<device, state, on_pak, loaded, after>>,
         v.data = vol.data,
         \A p \in DataPages : v.fat[p] # FAT_FREE => vol.fat[p] # FAT_FREE
  PROVE  CacheInv'
<1>1. vol' = Stamped(v) /\ vol'.fat = v.fat /\ vol'.data = v.data
  BY StampedType DEF Commit
<1>2. on_pak' => \A p \in loaded' : vol'.fat[p] # FAT_FREE => vol'.data[p] = pak'.data[p]
  BY <1>1 DEF TypeOK, CacheInv, CachedPages, device
<1>3. CASE on_pak
  <2>1. state = "PAK"
    BY <1>3 DEF Mounted, CacheInv, OnThePak
  <2>2. pc' = "commit" /\ purpose' = "save" /\ blk' = 0
    BY <1>3 DEF Commit
  <2>3. SameBlocks(pak', vol', 0)
    BY SameBlocksStart
  <2> QED
    BY <1>2, <1>3, <2>1, <2>2, <2>3
    DEF CacheInv, OnThePak, MountedCopy, StoredBlocks, ClaimsOnly,
    LastClaimed, CachedPages
<1>4. CASE ~on_pak
  <2>1. pc' = "idle"
    BY <1>4 DEF Commit, Return
  <2> QED
    BY <1>2, <1>4, <2>1
    DEF CacheInv, OnThePak, MountedCopy, StoredBlocks, ClaimsOnly,
    LastClaimed, CachedPages
<1> QED
  BY <1>3, <1>4

\* free_chain only ever frees.
LEMMA FreeChainFrees ==
  ASSUME NEW fat, NEW first, NEW p \in DataPages, free_chain(fat, first)[p] # FAT_FREE
  PROVE  fat[p] # FAT_FREE
BY DEF free_chain

LEMMA ChangeCache ==
  ASSUME TypeOK, CacheInv, DeleteCall \/ RenameCall \/ FinishWrite
  PROVE  CacheInv'
<1>0. vol \in Volumes /\ vol.fat \in Tables /\ vol.dir \in Dirs
      /\ call \in Calls \cup {NoCall}
  BY DEF TypeOK, Volumes
<1>1. CASE DeleteCall
  <2>1. CASE /\ Return(DeleteCheck(call.name))
             /\ UNCHANGED <<vol, blk, purpose>>
    BY <1>1, <2>1, ReturnCache DEF DeleteCall, Return, device
  <2>2. ASSUME NEW s \in Find(call.name),
               Commit([vol EXCEPT !.fat = free_chain(@, vol.dir[s].first),
                                  !.dir = [@ EXCEPT ![s] = NoEntry]], "save")
        PROVE  CacheInv'
    <3> DEFINE v == [vol EXCEPT !.fat = free_chain(@, vol.dir[s].first),
                                !.dir = [@ EXCEPT ![s] = NoEntry]]
    <3>1. NoEntry \in Entries
      BY DEF NoEntry, Entries, Links
    <3>2. v \in Volumes
      BY <1>0, <3>1, FreeChainType, SetEntryType, NewMetaType
    <3>3. v.data = vol.data /\ v.fat = free_chain(vol.fat, vol.dir[s].first)
      BY <1>0 DEF Volumes
    <3>4. Mounted
      BY <2>2 DEF Find
    <3>5. Commit(v, "save")
      BY <2>2, Zenon
    <3>6. pc = "body" /\ UNCHANGED <<device, state, on_pak, loaded, after>>
      BY <1>1 DEF DeleteCall
    <3> HIDE DEF v
    <3>7. \A p \in DataPages : v.fat[p] # FAT_FREE => vol.fat[p] # FAT_FREE
      BY <3>3, FreeChainFrees
    <3> QED
      BY <3>2, <3>3, <3>4, <3>5, <3>6, <3>7, CommitCache
  <2> QED
    BY <1>1, <2>1, <2>2, Zenon DEF DeleteCall
<1>2. CASE RenameCall
  <2>1. CASE /\ Return(RenameCheck(call.name, call.to))
             /\ UNCHANGED <<vol, blk, purpose>>
    BY <1>2, <2>1, ReturnCache DEF RenameCall, Return, device
  <2>2. ASSUME NEW s \in Find(call.name),
               Commit([vol EXCEPT !.dir = [@ EXCEPT ![s].name = call.to]], "save")
        PROVE  CacheInv'
    <3> DEFINE v == [vol EXCEPT !.dir = [@ EXCEPT ![s].name = call.to]]
    <3>1. v \in Volumes
      BY <1>0, CallFields, EntryFieldType, NewMetaType
    <3>2. v.data = vol.data /\ v.fat = vol.fat
      BY <1>0 DEF Volumes
    <3>3. Mounted
      BY <2>2 DEF Find
    <3> HIDE DEF v
    <3> QED
      BY <1>2, <2>2, <3>1, <3>2, <3>3, CommitCache DEF RenameCall, v
  <2> QED
    BY <1>2, <2>1, <2>2, Zenon DEF RenameCall
<1>3. CASE FinishWrite
  <2>1. save.first \in Links /\ vol.head.gen + 1 \in Nat
    BY DEF TypeOK, Volumes, Heads
  <2>2. NewEntry \in Entries
    BY <1>0, <2>1, CallFields, EntryType DEF NewEntry
  <2>3. Finished \in Volumes
    BY <1>0, <2>2, FreeChainType, SetEntryType, NewMetaType DEF Finished
  <2>4. /\ Finished.data = vol.data
        /\ \A p \in DataPages : Finished.fat[p] # FAT_FREE => vol.fat[p] # FAT_FREE
    BY <1>0, FreeChainFrees DEF Finished, Volumes
  <2>5. Mounted /\ pc = "store"
    BY <1>3 DEF FinishWrite, CacheInv, OnThePak
  <2> QED
    BY <1>3, <2>3, <2>4, <2>5, CommitCache DEF FinishWrite
<1> QED
  BY <1>1, <1>2, <1>3

\* fs_write's checks are over, and it has freed nothing it need not.
LEMMA WriteCallCache == ASSUME TypeOK, CacheInv, WriteCall PROVE CacheInv'
<1>0. vol \in Volumes
  BY DEF TypeOK
<1>1. Mounted
  BY DEF WriteCall, WriteCheck, writable
<1>2. /\ pc = "body" /\ pc' = "store"
      /\ UNCHANGED <<pak, state, on_pak, loaded>>
  BY DEF WriteCall, device
<1>3. vol' = IF save'.reuse THEN ReleaseOld(call.name) ELSE vol
  BY DEF WriteCall, NoSave
<1>4. /\ ReleaseOld(call.name).fat = free_chain(vol.fat, OldFirst(call.name))
      /\ ReleaseOld(call.name).data = vol.data
  BY <1>0 DEF ReleaseOld, Volumes
<1>5. vol'.data = vol.data /\ \A p \in DataPages : vol'.fat[p] # FAT_FREE =>
                                vol.fat[p] # FAT_FREE
  BY <1>3, <1>4, FreeChainFrees
<1>6. CachedPages'
  BY <1>2, <1>5 DEF CachedPages, CacheInv, TypeOK
<1>7. ClaimsOnly'
  <2> SUFFICES ASSUME on_pak, ~save'.reuse
               PROVE  \A p \in DataPages : vol'.fat[p] = FAT_FREE => pak'.fat[p] = FAT_FREE
    BY <1>2 DEF ClaimsOnly
  <2>1. vol' = vol
    BY <1>3
  <2>2. state = "PAK"
    BY <1>1, <1>2 DEF Mounted, CacheInv, OnThePak
  <2>3. vol.fat = pak.fat
    BY <1>2, <2>2 DEF CacheInv, MountedCopy
  <2> QED
    BY <1>2, <2>1, <2>3
<1>8. OnThePak' /\ MountedCopy' /\ StoredBlocks' /\ LastClaimed'
  <2>1. save'.got = 0
    BY DEF WriteCall, NoSave
  <2> QED
  BY <1>1, <1>2, <2>1 DEF LastClaimed, CacheInv, OnThePak, MountedCopy, StoredBlocks, Mounted
<1> QED
  BY <1>6, <1>7, <1>8 DEF CacheInv

\* The loop claims a page that no file of the pak has, and then it is cached.
LEMMA StoreCache == ASSUME TypeOK, CacheInv, StorePage \/ StorePageFails PROVE CacheInv'
<1> DEFINE p == PageToStore
           d == call.buf[save.got + 1]
<1>1. p \in DataPages /\ vol.fat[p] = FAT_FREE /\ pc = "store"
  BY StoringFacts DEF StorePage, StorePageFails, Storing
<1>2. /\ vol \in Volumes /\ pak \in Volumes /\ loaded \subseteq DataPages
      /\ vol.data \in [DataPages -> Data \cup {Blank, Torn}]
      /\ pak.data \in [DataPages -> Data \cup {Blank, Torn}]
      /\ vol.fat \in Tables
  BY DEF TypeOK, Volumes
<1>3. Mounted /\ (on_pak => state = "PAK") /\ (state = "PAK" => on_pak)
  BY <1>1 DEF CacheInv, OnThePak, Mounted
<1>4. CachedPages /\ ClaimsOnly /\ LastClaimed
  BY DEF CacheInv
<1> HIDE DEF p, d
<1>5. CASE StorePage
  <2>1. /\ vol' = [vol EXCEPT !.data = [@ EXCEPT ![p] = d], !.fat = Claim(@, p)]
        /\ pak' = IF on_pak THEN [pak EXCEPT !.data = [@ EXCEPT ![p] = d]] ELSE pak
        /\ loaded' = IF on_pak THEN loaded \cup {p} ELSE loaded
        /\ save'.reuse = save.reuse
        /\ UNCHANGED <<state, on_pak, pc>>
    <3>1. save' = [save EXCEPT !.got = @ + 1, !.prev = PageToStore,
                               !.first = IF save.got = 0 THEN PageToStore ELSE @]
      BY <1>5 DEF StorePage
    <3>2. save'.reuse = save.reuse
      BY <3>1 DEF TypeOK
    <3> QED
      BY <1>5, <3>2 DEF StorePage, p, d
  <2>2. vol'.data = [vol.data EXCEPT ![p] = d] /\ vol'.fat = Claim(vol.fat, p)
    BY <1>2, <2>1 DEF Volumes
  <2>3. on_pak => pak'.data = [pak.data EXCEPT ![p] = d]
    BY <1>2, <2>1 DEF Volumes
  <2>4. pak'.fat = pak.fat
    BY <1>2, <2>1 DEF Volumes
  <2>0. save.got # 0 => save.prev \in DataPages /\ save.prev # p
    BY <1>1, <1>4 DEF LastClaimed
  <2>5. \A q \in DataPages : Claim(vol.fat, p)[q] # FAT_FREE =>
          q = p \/ vol.fat[q] # FAT_FREE
    <3>1. CASE save.got = 0
      BY <1>1, <1>2, <3>1 DEF Claim, Tables
    <3>2. CASE save.got # 0
      BY <1>1, <1>2, <1>4, <3>2 DEF Claim, Tables, LastClaimed
    <3> QED
      BY <3>1, <3>2
  <2>6. CachedPages'
    <3> SUFFICES ASSUME on_pak, NEW q \in loaded', vol'.fat[q] # FAT_FREE
                 PROVE  vol'.data[q] = pak'.data[q]
      BY <2>1 DEF CachedPages
    <3>1. vol'.data = [vol.data EXCEPT ![p] = d] /\ pak'.data = [pak.data EXCEPT ![p] = d]
      BY <2>2, <2>3
    <3>2. q \in loaded \cup {p} /\ q \in DataPages
      BY <1>1, <1>2, <2>1
    <3>3. CASE q = p
      BY <1>1, <1>2, <3>1, <3>3
    <3>4. CASE q # p
      <4>1. vol.fat[q] # FAT_FREE
        BY <2>2, <2>5, <3>2, <3>4
      <4>2. vol.data[q] = pak.data[q]
        BY <1>4, <3>2, <3>4, <4>1 DEF CachedPages
      <4> QED
        BY <1>1, <1>2, <3>1, <3>2, <3>4, <4>2
    <3> QED
      BY <3>3, <3>4
  <2>9. LastClaimed'
    <3>1. save'.prev = p
      BY <1>5 DEF StorePage, TypeOK, p
    <3>2. Claim(vol.fat, p)[p] # FAT_FREE
      <4>1. CASE save.got = 0
        BY <1>1, <1>2, <4>1 DEF Claim, Tables, FAT_END, FAT_FREE
      <4>2. CASE save.got # 0
        BY <1>1, <1>2, <2>0, <4>2 DEF Claim, Tables, FAT_END, FAT_FREE
      <4> QED
        BY <4>1, <4>2
    <3> QED
      BY <1>1, <2>2, <3>1, <3>2 DEF LastClaimed
  <2>7. ClaimsOnly'
    <3>1. \A q \in DataPages : Claim(vol.fat, p)[q] = FAT_FREE => vol.fat[q] = FAT_FREE
      <4>1. p # FAT_FREE
        BY <1>1, VolumeAssumption DEF DataPages, FAT_FREE
      <4>2. CASE save.got = 0
        BY <1>1, <1>2, <4>2 DEF Claim, Tables, FAT_END, FAT_FREE
      <4>3. CASE save.got # 0
        BY <1>1, <1>2, <2>0, <4>1, <4>3 DEF Claim, Tables, FAT_END, FAT_FREE
      <4> QED
        BY <4>2, <4>3
    <3> QED
      BY <1>1, <1>4, <2>1, <2>2, <2>4, <3>1 DEF ClaimsOnly
  <2>8. OnThePak' /\ MountedCopy' /\ StoredBlocks'
    BY <1>1, <1>3, <2>1 DEF CacheInv, OnThePak, MountedCopy, StoredBlocks, Mounted
  <2> QED
    BY <2>6, <2>7, <2>8, <2>9 DEF CacheInv
<1>6. CASE StorePageFails
  <2>1. /\ vol' = [vol EXCEPT !.data = [@ EXCEPT ![p] = d]]
        /\ pc' = "mount"
        /\ UNCHANGED <<state, on_pak, loaded>>
    BY <1>6 DEF StorePageFails, p, d
  <2>2. PICK x : pak' = [pak EXCEPT !.data = [@ EXCEPT ![p] = x]]
    BY <1>6 DEF StorePageFails, p, d
  <2>3. /\ vol'.data = [vol.data EXCEPT ![p] = d] /\ vol'.fat = vol.fat
        /\ pak'.data = [pak.data EXCEPT ![p] = x]
    BY <1>2, <2>1, <2>2 DEF Volumes
  <2>4. CachedPages'
    BY <1>1, <1>2, <1>4, <2>1, <2>3 DEF CachedPages
  <2> QED
    BY <1>3, <2>1, <2>4
    DEF CacheInv, OnThePak, MountedCopy, StoredBlocks, ClaimsOnly,
    LastClaimed, Mounted
<1> QED
  BY <1>5, <1>6

\* commit()'s loop stores the blocks one by one, and is over when all are stored.
LEMMA CommitStepCache ==
  ASSUME TypeOK, CacheInv, CommitBlock \/ CommitFails \/ CommitDone
  PROVE  CacheInv'
<1>0. /\ pak \in Volumes /\ vol \in Volumes /\ pc = "commit"
      /\ blk \in 0 .. MetaBlocks /\ MetaBlocks \in Nat
  BY BlockBounds DEF TypeOK, CommitBlock, CommitFails, CommitDone, Committing
<1>1. SameBlocks(pak, vol, blk) /\ on_pak /\ CachedPages
  BY <1>0 DEF CacheInv, OnThePak, StoredBlocks
<1>2. CASE CommitBlock
  <2>1. /\ pak' = CopyBlocks(pak, vol, {blk}) /\ blk' = blk + 1
        /\ UNCHANGED <<state, on_pak, vol, loaded, pc, purpose>>
    BY <1>2 DEF CommitBlock, cache
  <2>2. blk \in Blocks
    BY <1>0, <1>2 DEF CommitBlock, Committing, Blocks
  <2>3. SameBlocks(pak', vol', blk')
    BY <1>0, <1>1, <2>1, <2>2, SameBlocksStep
  <2>4. pak'.data = pak.data
    BY <1>0, <2>1, CopyBlocksType
  <2> QED
    BY <1>0, <1>1, <2>1, <2>3, <2>4
    DEF CacheInv, OnThePak, MountedCopy, StoredBlocks, ClaimsOnly,
        LastClaimed, CachedPages
<1>3. CASE CommitFails
  <2>1. pak'.data = pak.data
    BY <1>0, <1>3, DamagedBlockType DEF CommitFails
  <2>2. /\ UNCHANGED <<on_pak, vol, loaded>>
        /\ pc' \in {"mount", "idle", "body"}
        /\ \/ state' \in {"NOANSWER", "UNFORMATTED"}
           \/ pc' = "mount" /\ state' = state /\ purpose = "save"
    BY <1>3 DEF CommitFails, Return, TypeOK
  <2> QED
    BY <1>0, <1>1, <2>1, <2>2
    DEF CacheInv, OnThePak, MountedCopy, StoredBlocks, ClaimsOnly,
        LastClaimed, CachedPages
<1>4. CASE CommitDone
  <2>1. blk = MetaBlocks
    BY <1>4 DEF CommitDone
  <2>2. pak.head = vol.head /\ pak.fat = vol.fat /\ pak.dir = vol.dir
    BY <1>0, <1>1, <2>1, SameBlocksEnd
  <2>3. /\ UNCHANGED <<pak, on_pak, vol, loaded>>
        /\ pc' \in {"idle", "body"}
        /\ state' = "PAK" \/ (state' = state /\ purpose = "save")
    BY <1>4 DEF CommitDone, Return, TypeOK, device
  <2>4. state' = "PAK"
    BY <1>0, <2>3 DEF CacheInv, OnThePak
  <2> QED
    BY <1>0, <1>1, <2>2, <2>3, <2>4
    DEF CacheInv, OnThePak, MountedCopy, StoredBlocks, ClaimsOnly,
        LastClaimed, CachedPages
<1> QED
  BY <1>2, <1>3, <1>4

LEMMA WorldCache ==
  ASSUME TypeOK, CacheInv, World \/ \E c \in Calls : Call(c)
  PROVE  CacheInv'
<1>1. CASE Identify \/ Pull \/ Insert
  <2>1. UNCHANGED <<pak, state, on_pak, vol, loaded, pc, save, blk, purpose>>
    BY <1>1 DEF Identify, Pull, Insert, cache, flow
  <2> QED
    BY <2>1
    DEF CacheInv, OnThePak, MountedCopy, StoredBlocks, ClaimsOnly, LastClaimed,
        CachedPages, Mounted, SameBlocks
<1>2. CASE PowerFail
  BY <1>2
  DEF PowerFail, Boot, CacheInv, OnThePak, MountedCopy, StoredBlocks, ClaimsOnly,
      LastClaimed, CachedPages
<1>3. ASSUME NEW c \in Calls, Call(c)
      PROVE  CacheInv'
  BY <1>3, ReturnCache DEF Call, device, cache
<1> QED
  BY <1>1, <1>2, <1>3 DEF World

LEMMA NextCache == TypeOK /\ CacheInv /\ [Next]_vars => CacheInv'
<1>1. ASSUME TypeOK, CacheInv, Next
      PROVE  CacheInv'
  BY <1>1, LookCache, ReadCache, WriteCallCache, StoreCache, ChangeCache,
     CommitStepCache, WorldCache, Zenon
  DEF Next, Step
<1>2. ASSUME CacheInv, UNCHANGED vars
      PROVE  CacheInv'
  BY <1>2
  DEF vars, CacheInv, OnThePak, MountedCopy, StoredBlocks, ClaimsOnly, LastClaimed,
      CachedPages, Mounted
<1> QED
  BY <1>1, <1>2

\* CacheInv is an invariant.
THEOREM CacheInvariant == Spec => []CacheInv
<1>1. TypeOK /\ CacheInv /\ [Next]_vars => CacheInv'
  BY NextCache
<1> QED
  BY <1>1, InitCache, TypeCorrect, PTL DEF Spec

\* Whatever was pulled, failed or was switched off, the kernel's copy of a mounted
\* pak is that pak's directory, and its cached pages in use are that pak's pages.
THEOREM CacheCorrect == Spec => []CacheIsPak
<1>1. CacheInv => CacheIsPak
  BY DEF CacheInv, OnThePak, MountedCopy, CachedPages, CacheIsPak
<1> QED
  BY <1>1, CacheInvariant, PTL

LEMMA NextSafe == TypeOK /\ CacheInv /\ [Next]_vars => [SaveStep]_vars
<1> SUFFICES ASSUME TypeOK, CacheInv, Next,
                    NEW q \in DataPages, pak.data[q] # pak'.data[q]
             PROVE  pak.fat[q] = FAT_FREE \/ (pc = "store" /\ save.reuse)
  BY DEF SaveStep
<1>0. pak \in Volumes /\ vol \in Volumes
  BY DEF TypeOK
<1>1. CASE StorePage \/ StorePageFails
  <2>1. PageToStore \in DataPages /\ vol.fat[PageToStore] = FAT_FREE /\ pc = "store"
    BY <1>1, StoringFacts DEF StorePage, StorePageFails, Storing
  <2>2. PICK x : pak' = pak \/ pak' = [pak EXCEPT !.data = [@ EXCEPT ![PageToStore] = x]]
    BY <1>1, Zenon DEF StorePage, StorePageFails
  <2>3. on_pak
    BY <1>1 DEF StorePage, StorePageFails
  <2>4. q = PageToStore
    BY <1>0, <2>2 DEF Volumes
  <2> QED
    BY <2>1, <2>3, <2>4 DEF CacheInv, ClaimsOnly
<1>2. CASE CommitBlock
  BY <1>0, <1>2, CopyBlocksType DEF CommitBlock
<1>3. CASE CommitFails
  BY <1>0, <1>3, DamagedBlockType DEF CommitFails
<1>4. pak' = pak \/ StorePage \/ StorePageFails \/ CommitBlock \/ CommitFails
  BY DEF Next, Step, World, DoMount, Revalidate, MountCall, FormatCall, StatCall,
     ReadCall, WriteRefused, WriteCall, FinishWrite, DeleteCall, RenameCall,
     CommitDone, Identify, Pull, Insert, PowerFail, Call, device
<1> QED
  BY <1>1, <1>2, <1>3, <1>4

\* No save writes over a page that the pak's own table has in use, unless the new
\* version fits in no other way: pulling the pak mid-save costs the new version,
\* never the old one.
THEOREM SaveIsSafe == Spec => SafeSave
<1>1. TypeOK /\ CacheInv /\ [Next]_vars => [SaveStep]_vars
  BY NextSafe
<1> QED
  BY <1>1, TypeCorrect, CacheInvariant, PTL DEF Spec, SafeSave

-----------------------------------------------------------------------------
(* SoundInv is inductive.                                                  *)

LEMMA InitSound == Init => SoundInv
BY SoundPaks DEF Init, SoundInv, ReadablePakIsSound, MountedSound, CommittedSound,
    HalfSaved, Mounted

\* A stamp and a checksum change the header, and make it say what is there.
LEMMA StampKeeps ==
  ASSUME NEW v \in Volumes
  PROVE  /\ WithSum(v).fat = v.fat /\ WithSum(v).dir = v.dir
         /\ Stamped(v).fat = v.fat /\ Stamped(v).dir = v.dir
         /\ Stamped(v).head.sum = checksum(Stamped(v))
<1>1. ASSUME NEW u \in Volumes
      PROVE  /\ WithSum(u).fat = u.fat /\ WithSum(u).dir = u.dir
             /\ WithSum(u).head.sum = checksum(WithSum(u))
  BY DEF WithSum, Volumes, Heads, checksum
<1> DEFINE u == [v EXCEPT !.head = [@ EXCEPT !.gen = v.head.gen + 1]]
<1>2. u \in Volumes /\ u.fat = v.fat /\ u.dir = v.dir
  BY DEF Volumes, Heads
<1>3. Stamped(v) = WithSum(u)
  BY DEF Stamped
<1> HIDE DEF u
<1> QED
  BY <1>1, <1>2, <1>3

\* The pages of the pak may change, as long as its metadata do not.
LEMMA MetaKept ==
  ASSUME ReadablePakIsSound, pak'.head = pak.head, pak'.fat = pak.fat, pak'.dir = pak.dir
  PROVE  ReadablePakIsSound'
BY SoundIsOfMetadata DEF ReadablePakIsSound, Readable, checksum

\* A call that returns and has changed nothing.
LEMMA ReturnSound ==
  ASSUME SoundInv, UNCHANGED <<pak, state>>, vol'.fat = vol.fat, vol'.dir = vol.dir,
         pc \in {"idle", "revalidate", "body"},
         pc' \in {"idle", "revalidate", "body"}
  PROVE  SoundInv'
<1>1. ReadablePakIsSound'
  BY MetaKept DEF SoundInv
<1>2. MountedSound'
  BY SoundIsOfMetadata DEF SoundInv, MountedSound, Mounted
<1> QED
  BY <1>1, <1>2 DEF SoundInv, CommittedSound, HalfSaved

LEMMA StutterSound ==
  ASSUME SoundInv, UNCHANGED <<pak, state, vol, call, pc, save>>
  PROVE  SoundInv'
<1>1. ReadablePakIsSound' /\ MountedSound' /\ CommittedSound'
  BY DEF SoundInv, ReadablePakIsSound, MountedSound, CommittedSound, Mounted
<1>2. HalfSaved'
  <2>1. (ClaimedChain <=> ClaimedChain') /\ (ClaimedApart <=> ClaimedApart')
        /\ (OthersWhole <=> OthersWhole') /\ (RoomLeft <=> RoomLeft')
    BY DEF ClaimedChain, ClaimedApart, OthersWhole, RoomLeft, Claimed, Room
  <2> QED
    BY <2>1 DEF SoundInv, HalfSaved
<1> QED
  BY <1>1, <1>2 DEF SoundInv

\* Whatever a mount finds mounted it has found sound.
LEMMA MountSound ==
  ASSUME TypeOK, SoundInv, NEW back \in {"idle", "body"}, Mount(back), UNCHANGED device,
         pc \in {"mount", "revalidate", "body"}
  PROVE  SoundInv'
<1>0. pak \in Volumes /\ ReadablePakIsSound'
  BY MetaKept DEF SoundInv, device, TypeOK
<1>1. CASE MountRamDisk /\ pc' = back
  <2>1. state' = "RAM" /\ vol' = IF state = "RAM" THEN vol ELSE WithSum(BlankVolume)
    BY <1>1 DEF MountRamDisk
  <2>2. Sound(vol')
    <3>1. CASE state = "RAM"
      BY <2>1, <3>1 DEF SoundInv, MountedSound, Mounted
    <3>2. CASE state # "RAM"
      BY <2>1, <3>2, ZeroVolumeType, StampKeeps, BlankIsSound, SoundIsOfMetadata
    <3> QED
      BY <3>1, <3>2
  <2> QED
    BY <1>0, <1>1, <2>2 DEF SoundInv, MountedSound, CommittedSound, HalfSaved
<1>2. CASE (\E b \in Blocks : MountNoAnswer(b)) /\ pc' = back
  <2>1. state' = "NOANSWER"
    BY <1>2 DEF MountNoAnswer
  <2> QED
    BY <1>0, <1>2, <2>1 DEF SoundInv, MountedSound, CommittedSound, HalfSaved, Mounted
<1>3. CASE MountPak /\ pc' = back
  <2> DEFINE v == CopyBlocks(ZeroVolume, pak, Blocks)
  <2>1. v.head = pak.head /\ v.fat = pak.fat /\ v.dir = pak.dir
    BY <1>0, ZeroVolumeType, CopyAllBlocks
  <2>2. vol' = v /\ (state' = "PAK" => Readable(v)) /\ state' # "RAM"
    BY <1>3 DEF MountPak
  <2> HIDE DEF v
  <2>3. state' = "PAK" => Sound(vol')
    BY <2>1, <2>2, SoundIsOfMetadata
    DEF SoundInv, ReadablePakIsSound, Readable, checksum
  <2> QED
    BY <1>0, <1>3, <2>2, <2>3 DEF SoundInv, MountedSound, CommittedSound, HalfSaved, Mounted
<1>4. CASE MountBlankPak(back)
  <2>1. vol' = Stamped(BlankVolume) /\ pc' = "commit"
    BY <1>4 DEF MountBlankPak
  <2>2. vol'.head.sum = checksum(vol') /\ Sound(vol')
    BY <2>1, ZeroVolumeType, StampKeeps, BlankIsSound, SoundIsOfMetadata
  <2> QED
    BY <1>0, <2>1, <2>2 DEF SoundInv, MountedSound, CommittedSound, HalfSaved
<1> QED
  BY <1>1, <1>2, <1>3, <1>4 DEF Mount

LEMMA LookSound ==
  ASSUME TypeOK, SoundInv,
         DoMount \/ Revalidate \/ MountCall \/ FormatCall \/ StatCall \/ WriteRefused
  PROVE  SoundInv'
<1>1. CASE DoMount
  BY <1>1, MountSound DEF DoMount
<1>2. CASE MountCall
  BY <1>2, MountSound DEF MountCall
<1>3. CASE Revalidate
  <2>1. CASE CacheDoubted /\ Mount("body")
    BY <1>3, <2>1, MountSound DEF Revalidate
  <2>2. CASE ~(CacheDoubted /\ Mount("body"))
    BY <1>3, <2>2, ReturnSound DEF Revalidate, cache, device
  <2> QED
    BY <2>1, <2>2
<1>4. CASE FormatCall
  <2>1. pak' = pak /\ ReadablePakIsSound'
    BY <1>4, MetaKept DEF FormatCall, device, SoundInv
  <2>2. CASE seen
    <3>1. vol' = Stamped(BlankVolume) /\ pc' = "commit"
      BY <1>4, <2>2 DEF FormatCall
    <3>2. vol'.head.sum = checksum(vol') /\ Sound(vol')
      BY <3>1, ZeroVolumeType, StampKeeps, BlankIsSound, SoundIsOfMetadata
    <3> QED
      BY <2>1, <3>1, <3>2 DEF SoundInv, MountedSound, CommittedSound, HalfSaved
  <2>3. CASE ~seen
    <3>1. vol' = WithSum(BlankVolume) /\ pc' = "idle"
      BY <1>4, <2>3 DEF FormatCall, Return
    <3>2. Sound(vol')
      BY <3>1, ZeroVolumeType, StampKeeps, BlankIsSound, SoundIsOfMetadata
    <3> QED
      BY <2>1, <3>1, <3>2 DEF SoundInv, MountedSound, CommittedSound, HalfSaved
  <2> QED
    BY <2>2, <2>3
<1>5. CASE StatCall \/ WriteRefused
  BY <1>5, ReturnSound DEF StatCall, WriteRefused, Return, cache, device
<1> QED
  BY <1>1, <1>2, <1>3, <1>4, <1>5

LEMMA ReadSound == ASSUME TypeOK, SoundInv, ReadCall PROVE SoundInv'
<1>1. UNCHANGED <<pak, state>> /\ pc = "body" /\ pc' = "idle"
  BY DEF ReadCall, device, Return
<1>2. vol'.fat = vol.fat /\ vol'.dir = vol.dir
  BY DEF ReadCall, TypeOK, Volumes
<1> QED
  BY <1>1, <1>2, ReturnSound

\* commit() is given a sound volume.
LEMMA CommitSound ==
  ASSUME TypeOK, SoundInv, NEW v \in Volumes, Sound(v), Commit(v, "save"),
         UNCHANGED <<device, state, on_pak, loaded, after>>
  PROVE  SoundInv'
<1>1. ReadablePakIsSound'
  BY MetaKept DEF SoundInv, device
<1>2. vol' = Stamped(v) /\ pc' \in {"commit", "idle"}
  BY DEF Commit, Return
<1>3. vol'.head.sum = checksum(vol') /\ Sound(vol')
  BY <1>2, StampKeeps, SoundIsOfMetadata
<1> QED
  BY <1>1, <1>2, <1>3 DEF SoundInv, MountedSound, CommittedSound, HalfSaved

LEMMA ChangingCall ==
  ASSUME NEW c \in Calls \cup {NoCall}, c.kind \in Changing
  PROVE  /\ c.name \in Names /\ (c.kind = "rename" => c.to \in Names)
         /\ c.name # NoName /\ c.buf \in Seq(Data) /\ Len(c.buf) \in Nat
<1>1. c \in Calls
  BY DEF NoCall, Changing
<1>2. c.name \in Names /\ (c.kind = "rename" => c.to \in Names)
  BY <1>1 DEF Calls, Changing
<1> QED
  BY <1>2, CallFields, VolumeAssumption

\* What dir_find finds is the first of the slots with the name.
LEMMA FindFacts ==
  ASSUME NEW n
  PROVE  /\ \A s \in Find(n) : /\ Mounted /\ s \in Slots /\ vol.dir[s].name = n
                               /\ Find(n) = {s} /\ Min(Find(n)) = s
         /\ Mounted /\ Find(n) = {} => SlotsOf(vol, n) = {}
<1>1. SlotsOf(vol, n) \subseteq Nat /\ SlotsOf(vol, n) \subseteq Slots
  BY DataPagesNat DEF SlotsOf
<1>2. ASSUME NEW s \in Find(n)
      PROVE  /\ Mounted /\ s \in Slots /\ vol.dir[s].name = n
             /\ Find(n) = {s} /\ Min(Find(n)) = s
  <2>1. Mounted /\ SlotsOf(vol, n) # {} /\ Find(n) = {Min(SlotsOf(vol, n))}
    BY DEF Find, dir_find
  <2>2. s = Min(SlotsOf(vol, n)) /\ s \in SlotsOf(vol, n)
    BY <1>1, <2>1, MinIsLeast
  <2>3. s \in Slots /\ vol.dir[s].name = n /\ Find(n) = {s}
    BY <2>1, <2>2 DEF SlotsOf
  <2>4. Find(n) \in SUBSET Nat
    BY <1>1, <2>2, <2>3
  <2>5. Min(Find(n)) \in Find(n)
    BY <2>3, <2>4, MinIsLeast
  <2> QED
    BY <2>1, <2>3, <2>5
<1>3. ASSUME Mounted, Find(n) = {} PROVE SlotsOf(vol, n) = {}
  BY <1>3 DEF Find, dir_find
<1> QED
  BY <1>2, <1>3

LEMMA DeleteSound == ASSUME TypeOK, SoundInv, DeleteCall PROVE SoundInv'
<1>0. vol \in Volumes /\ vol.fat \in Tables /\ vol.dir \in Dirs /\ pc = "body"
  BY DEF TypeOK, Volumes, DeleteCall
<1>1. CASE /\ Return(DeleteCheck(call.name))
           /\ UNCHANGED <<vol, blk, purpose>>
  BY <1>1, ReturnSound DEF DeleteCall, Return, device
<1>2. ASSUME NEW s \in Find(call.name),
             Commit([vol EXCEPT !.fat = free_chain(@, vol.dir[s].first),
                                !.dir = [@ EXCEPT ![s] = NoEntry]], "save")
      PROVE  SoundInv'
  <2> DEFINE v == [vol EXCEPT !.fat = free_chain(@, vol.dir[s].first),
                              !.dir = [@ EXCEPT ![s] = NoEntry]]
  <2>1. NoEntry \in Entries
    BY DEF NoEntry, Entries, Links
  <2>2. v \in Volumes
    BY <1>0, <2>1, FreeChainType, SetEntryType, NewMetaType
  <2>3. v.fat = free_chain(vol.fat, vol.dir[s].first) /\ v.dir = [vol.dir EXCEPT ![s] = NoEntry]
    BY <1>0 DEF Volumes
  <2>4. call.name \in Names /\ call.name # NoName
    BY ChangingCall DEF TypeOK, DeleteCall, Changing
  <2>5. Mounted /\ s \in UsedSlots(vol)
    BY <2>4, FindFacts DEF UsedSlots
  <2>6. Sound(vol)
    BY <1>0, <2>5 DEF SoundInv, MountedSound
  <2>7. Commit(v, "save")
    BY <1>2, Zenon
  <2>8. UNCHANGED <<device, state, on_pak, loaded, after>>
    BY DEF DeleteCall
  <2> HIDE DEF v
  <2>9. Sound(v)
    BY <1>0, <2>3, <2>5, <2>6, DeleteIsSound
  <2> QED
    BY <2>2, <2>7, <2>8, <2>9, CommitSound
<1> QED
  BY <1>1, <1>2, Zenon DEF DeleteCall

LEMMA RenameSound == ASSUME TypeOK, SoundInv, RenameCall PROVE SoundInv'
<1>0. vol \in Volumes /\ vol.fat \in Tables /\ vol.dir \in Dirs /\ pc = "body"
  BY DEF TypeOK, Volumes, RenameCall
<1>1. CASE /\ Return(RenameCheck(call.name, call.to))
           /\ UNCHANGED <<vol, blk, purpose>>
  BY <1>1, ReturnSound DEF RenameCall, Return, device
<1>2. ASSUME RenameCheck(call.name, call.to) = "ok", NEW s \in Find(call.name),
             Commit([vol EXCEPT !.dir = [@ EXCEPT ![s].name = call.to]], "save")
      PROVE  SoundInv'
  <2> DEFINE v == [vol EXCEPT !.dir = [@ EXCEPT ![s].name = call.to]]
  <2>1. v \in Volumes
    BY <1>0, CallFields, EntryFieldType, NewMetaType DEF TypeOK
  <2>2. v.fat = vol.fat /\ v.dir = [vol.dir EXCEPT ![s].name = call.to]
    BY <1>0 DEF Volumes
  <2>3. call.name \in Names /\ call.name # NoName /\ call.to \in Names
    BY ChangingCall DEF TypeOK, RenameCall, Changing
  <2>4. Mounted /\ s \in UsedSlots(vol) /\ Find(call.name) = {s}
    BY <2>3, FindFacts DEF UsedSlots
  <2>5. Sound(vol)
    BY <1>0, <2>4 DEF SoundInv, MountedSound
  <2>6. SlotsOf(vol, call.to) \subseteq {s}
    <3>1. Find(call.to) \in {{}, Find(call.name)}
      BY <1>2 DEF RenameCheck, writable, NotOnPak, Mounted
    <3>2. CASE Find(call.to) = {}
      BY <2>4, <3>2, FindFacts
    <3>3. CASE Find(call.to) = {s}
      <4>1. vol.dir[s].name = call.to
        BY <3>3, FindFacts
      <4> QED
        BY <2>4, <2>5, <4>1 DEF Sound, SizesRight
    <3> QED
      BY <2>4, <3>1, <3>2, <3>3
  <2>7. UNCHANGED <<device, state, on_pak, loaded, after>>
    BY DEF RenameCall
  <2>8. Commit(v, "save")
    BY <1>2, Zenon
  <2> HIDE DEF v
  <2>9. Sound(v)
    BY <1>0, <2>2, <2>3, <2>4, <2>5, <2>6, RenameIsSound
  <2> QED
    BY <2>1, <2>7, <2>8, <2>9, CommitSound
<1> QED
  BY <1>1, <1>2, Zenon DEF RenameCall

\* The loop is over: every page of the file has been claimed, for there was room.
LEMMA FinishFacts ==
  ASSUME TypeOK, SoundInv, FinishWrite
  PROVE  /\ call.kind = "write" /\ call.name \in Names /\ save.slot \in Slots
         /\ save.got = Len(call.buf)
         /\ Finished \in Volumes /\ Sound(Finished)
         /\ Finished.fat = IF save.slot \in UsedSlots(vol)
                           THEN free_chain(vol.fat, vol.dir[save.slot].first) ELSE vol.fat
         /\ Finished.dir = [vol.dir EXCEPT ![save.slot] = NewEntry]
<1>0. /\ vol \in Volumes /\ vol.fat \in Tables /\ vol.dir \in Dirs /\ pc = "store"
      /\ save.got \in Nat /\ save.first \in Links
  BY DEF TypeOK, Volumes, FinishWrite
<1>1. /\ call.kind = "write" /\ save.slot \in Slots
      /\ ClaimedChain /\ ClaimedApart /\ OthersWhole /\ RoomLeft
  BY <1>0 DEF SoundInv, HalfSaved
<1>2. call.name \in Names /\ call.name # NoName /\ Len(call.buf) \in Nat
  BY <1>1, ChangingCall DEF TypeOK, Changing
<1>3. save.got = Len(call.buf)
  <2>1. save.got >= Len(call.buf) \/ FreePages(vol.fat) = {}
    BY <1>0, <1>2 DEF FinishWrite, PagesLeft
  <2>2. Cardinality({}) = 0
    BY FS_EmptySet
  <2>3. save.got <= Len(call.buf) /\ Len(call.buf) <= save.got + Cardinality(FreePages(vol.fat))
    BY <1>1 DEF RoomLeft, Room
  <2>4. CASE FreePages(vol.fat) = {}
    <3>1. Cardinality(FreePages(vol.fat)) = 0
      BY <2>2, <2>4
    <3> QED
      BY <1>0, <1>2, <2>3, <3>1
  <2> QED
    BY <1>0, <1>2, <2>1, <2>3, <2>4
<1>4. NewEntry \in Entries
  <2>1. vol.head.gen + 1 \in Nat
    BY DEF TypeOK, Volumes, Heads
  <2> QED
    BY <1>0, <1>2, <2>1, EntryType DEF NewEntry
<1>5. Finished \in Volumes
  BY <1>0, <1>4, FreeChainType, SetEntryType, NewMetaType DEF Finished
<1>6. /\ Finished.fat = IF save.slot \in UsedSlots(vol)
                        THEN free_chain(vol.fat, vol.dir[save.slot].first) ELSE vol.fat
      /\ Finished.dir = [vol.dir EXCEPT ![save.slot] = NewEntry]
  BY <1>0 DEF Finished, Volumes
<1>7. /\ NewEntry.name = call.name /\ NewEntry.first = save.first
      /\ NewEntry.size = Cardinality(Chain(vol.fat, save.first))
  BY <1>1, <1>3 DEF NewEntry, ClaimedChain, Claimed
<1>8. Sound(Finished)
  <2>1. /\ NoCrossLinks(vol)
        /\ \A t \in UsedSlots(vol) : ChainOf(vol, t) \cap Chain(vol.fat, save.first) = {}
        /\ DataPages \ FreePages(vol.fat) =
             Chain(vol.fat, save.first) \cup UNION {ChainOf(vol, t) : t \in UsedSlots(vol)}
    BY <1>1 DEF ClaimedApart, Claimed
  <2>2. /\ SlotsOf(vol, NewEntry.name) = UsedSlots(vol) \cap {save.slot}
        /\ \A t \in UsedSlots(vol) \ {save.slot} :
              /\ Cardinality(ChainOf(vol, t)) = vol.dir[t].size
              /\ SlotsOf(vol, vol.dir[t].name) = {t}
    BY <1>1, <1>7 DEF OthersWhole
  <2> DEFINE v == vol  e == NewEntry  w == Finished  slot == save.slot  first == save.first
  <2>3. v \in Volumes /\ slot \in Slots /\ e.name \in Names
    BY <1>0, <1>1, <1>2, <1>7
  <2> QED
    BY <1>6, <1>7, <2>1, <2>2, <2>3, FinishIsSound, Zenon
<1> QED
  BY <1>1, <1>2, <1>3, <1>5, <1>6, <1>8

LEMMA FinishSound == ASSUME TypeOK, SoundInv, FinishWrite PROVE SoundInv'
BY FinishFacts, CommitSound DEF FinishWrite

\* fs_write's checks are over.  It has room, with the old pages if need be.
LEMMA WriteCallSound == ASSUME TypeOK, SoundInv, WriteCall PROVE SoundInv'
<1> DEFINE n == call.name
           slot == SlotFor(n)
           reuse == ~Fits(n, Len(call.buf))
           Ready == /\ Len(call.buf) <= Cardinality(FreePages(vol'.fat))
                    /\ NoCrossLinks(vol') /\ NoLostPages(vol')
                    /\ SlotsOf(vol', n) = UsedSlots(vol') \cap {slot}
                    /\ \A t \in UsedSlots(vol') \ {slot} :
                         /\ Cardinality(ChainOf(vol', t)) = vol'.dir[t].size
                         /\ SlotsOf(vol', vol'.dir[t].name) = {t}
<1>0. vol \in Volumes /\ vol.dir \in Dirs /\ vol.fat \in Tables
      /\ pc = "body" /\ pc' = "store" /\ pak' = pak /\ call' = call /\ state' = state
  BY DEF TypeOK, Volumes, WriteCall, device
<1>1. WriteCheck(n, call.buf) = "ok" /\ call.kind = "write"
  BY DEF WriteCall
<1>2. Mounted /\ (Find(n) # {} \/ UsedSlots(vol) # Slots)
      /\ (Fits(n, Len(call.buf)) \/ FitsOver(n, Len(call.buf)))
  BY <1>1 DEF WriteCheck, writable
<1>3. Sound(vol)
  BY <1>0, <1>2 DEF SoundInv, MountedSound
<1>4. n \in Names /\ n # NoName /\ Len(call.buf) \in Nat
  BY <1>1, ChangingCall DEF TypeOK, Changing
<1>5. slot \in Slots
  BY <1>2, SlotForType
<1>6. /\ vol' = IF reuse THEN ReleaseOld(n) ELSE vol
      /\ save'.slot = slot /\ save'.got = 0 /\ save'.first = FAT_END
  BY DEF WriteCall, NoSave
<1>7. ASSUME Find(n) # {}
      PROVE  Ready
  <2>1. PICK s \in Find(n) : TRUE
    BY <1>7
  <2>2. /\ s \in Slots /\ vol.dir[s].name = n /\ slot = s
        /\ s \in UsedSlots(vol) /\ OldFirst(n) = vol.dir[s].first
    BY <1>4, <1>7, <2>1, FindFacts DEF SlotFor, OldFirst, UsedSlots
  <2>3. SlotsOf(vol, n) = {s}
    BY <1>3, <2>2 DEF Sound, SizesRight
  <2>4. ReleaseOld(n).fat = free_chain(vol.fat, vol.dir[s].first)
        /\ ReleaseOld(n).dir = [vol.dir EXCEPT ![s].first = FAT_END]
    BY <1>0, <2>2 DEF ReleaseOld, Volumes
  <2>5. Cardinality(ChainOf(vol, s)) \in Nat /\ Cardinality(FreePages(vol.fat)) \in Nat
    BY ChainFacts, PagesFinite DEF ChainOf, FreePages
  <2>6. Len(call.buf) <= Cardinality(FreePages(vol.fat)) + Cardinality(ChainOf(vol, s))
    BY <1>2, <1>4, <2>2, <2>5 DEF Fits, FitsOver, Room, ChainOf
  <2>7. Len(call.buf) <= Cardinality(FreePages(vol'.fat))
        /\ NoCrossLinks(vol') /\ NoLostPages(vol') /\ SlotsOf(vol', n) = {s}
        /\ UsedSlots(vol') = UsedSlots(vol)
        /\ \A t \in UsedSlots(vol') \ {s} :
             /\ Cardinality(ChainOf(vol', t)) = vol'.dir[t].size
             /\ SlotsOf(vol', vol'.dir[t].name) = {t}
    <3>1. CASE reuse
      <4>1. vol' = ReleaseOld(n)
        BY <1>6, <3>1
      <4>2. \A t \in UsedSlots(vol) : /\ Cardinality(ChainOf(vol, t)) = vol.dir[t].size
                                      /\ SlotsOf(vol, vol.dir[t].name) = {t}
        BY <1>3 DEF Sound, SizesRight
      <4>3. /\ UsedSlots(vol') = UsedSlots(vol) /\ \A m : SlotsOf(vol', m) = SlotsOf(vol, m)
            /\ NoCrossLinks(vol') /\ NoLostPages(vol')
            /\ \A t \in UsedSlots(vol) \ {s} : ChainOf(vol', t) = ChainOf(vol, t)
                                               /\ vol'.dir[t] = vol.dir[t]
            /\ Cardinality(FreePages(vol'.fat)) =
                 Cardinality(FreePages(vol.fat)) + Cardinality(ChainOf(vol, s))
        BY <1>0, <1>3, <2>2, <2>4, <4>1, ReleaseKeeps
      <4> QED
        BY <2>3, <2>6, <4>2, <4>3
    <3>2. CASE ~reuse
      <4>1. vol' = vol
        BY <1>6, <3>2
      <4>2. Len(call.buf) <= Cardinality(FreePages(vol.fat))
        BY <3>2 DEF Fits, Room
      <4> QED
        BY <1>3, <2>3, <4>1, <4>2 DEF Sound, SizesRight
    <3> QED
      BY <3>1, <3>2
  <2> QED
    BY <2>2, <2>7
<1>8. ASSUME Find(n) = {}
      PROVE  Ready
  <2>1. Chain(vol.fat, OldFirst(n)) = {}
    BY <1>8, ChainFacts, MarksAreNotPages DEF OldFirst
  <2>2. Cardinality(Chain(vol.fat, OldFirst(n))) = 0
    BY <2>1, FS_EmptySet
  <2>3. Cardinality(FreePages(vol.fat)) \in Nat
    BY PagesFinite DEF FreePages
  <2>4. Len(call.buf) <= Cardinality(FreePages(vol.fat)) /\ vol' = vol
    BY <1>2, <1>4, <1>6, <2>2, <2>3 DEF Fits, FitsOver, Room
  <2>5. SlotsOf(vol, n) = {}
    BY <1>2, <1>8, FindFacts
  <2>6. slot \notin UsedSlots(vol)
    <3> DEFINE U == {s \in Slots : s \notin UsedSlots(vol)}
    <3>1. U # {} /\ U \in SUBSET Nat
      BY <1>2, <1>8, DataPagesNat DEF UsedSlots
    <3>2. slot = Min(U)
      BY <1>8 DEF SlotFor
    <3>3. slot \in U
      BY <3>1, <3>2, MinIsLeast
    <3> QED
      BY <3>3
  <2> QED
    BY <1>3, <2>4, <2>5, <2>6 DEF Sound, SizesRight
<1>9. Ready
  BY <1>7, <1>8
<1>10. Claimed' = {}
  BY <1>6, ChainFacts, MarksAreNotPages DEF Claimed
<1>11. HalfSaved'
  <2>1. ClaimedChain'
    <3>1. Cardinality(Claimed') = 0
      BY <1>10, FS_EmptySet
    <3> QED
      BY <1>6, <3>1 DEF ClaimedChain
  <2>2. ClaimedApart'
    BY <1>9, <1>10 DEF ClaimedApart, NoLostPages
  <2>3. OthersWhole'
    BY <1>0, <1>6, <1>9 DEF OthersWhole
  <2>4. RoomLeft'
    <3>1. Cardinality(FreePages(vol'.fat)) \in Nat
      BY PagesFinite DEF FreePages
    <3> QED
      BY <1>0, <1>4, <1>6, <1>9, <3>1 DEF RoomLeft, Room
  <2> QED
    BY <1>0, <1>1, <1>5, <1>6, <2>1, <2>2, <2>3, <2>4 DEF HalfSaved
<1>12. ReadablePakIsSound'
  BY <1>0, MetaKept DEF SoundInv
<1> QED
  BY <1>0, <1>11, <1>12 DEF SoundInv, MountedSound, CommittedSound

\* The loop of fs_write: a free page is linked to the end of those claimed before.
LEMMA ClaimGrows ==
  ASSUME TypeOK, ClaimedChain, ClaimedApart, NEW p \in DataPages, vol.fat[p] = FAT_FREE
  PROVE  LET g == Claim(vol.fat, p) IN
         /\ Chain(g, IF save.got = 0 THEN p ELSE save.first) = Claimed \cup {p}
         /\ p \notin Claimed /\ g[p] = FAT_END
         /\ \A q \in DataPages : q \notin Claimed \cup {p} => g[q] = vol.fat[q]
         /\ FreePages(g) = FreePages(vol.fat) \ {p}
<1> DEFINE g == Claim(vol.fat, p)
<1>0. vol.fat \in [DataPages -> Links] /\ save.got \in Nat /\ Claimed \subseteq DataPages
  BY ChainFacts DEF TypeOK, Volumes, Tables, Claimed
<1>1. p \in FreePages(vol.fat) /\ p \notin Claimed
  BY DEF FreePages, ClaimedApart
<1>2. CASE save.got = 0
  <2>1. \A q \in DataPages : g[q] = IF q = p THEN FAT_END ELSE vol.fat[q]
    BY <1>0, <1>2 DEF Claim
  <2>2. Claimed = {}
    BY <1>2, ChainFacts, MarksAreNotPages DEF ClaimedChain, Claimed
  <2> HIDE DEF g
  <2>3. Chain(g, p) = {p}
    BY <2>1, ChainOfOne
  <2>4. FreePages(g) = FreePages(vol.fat) \ {p}
    BY <2>1, MarksAreNotPages DEF FreePages
  <2>5. \A q \in DataPages : q \notin Claimed \cup {p} => g[q] = vol.fat[q]
    BY <2>1
  <2> QED
    BY <1>1, <1>2, <2>1, <2>2, <2>3, <2>4, <2>5 DEF g
<1>3. CASE save.got # 0
  <2>1. /\ save.first \in DataPages /\ save.prev \in Claimed
        /\ vol.fat[save.prev] = FAT_END /\ save.prev # p
    BY <1>3, MarksAreNotPages DEF ClaimedChain
  <2>2. \A q \in DataPages : g[q] = IF q = save.prev THEN p
                                    ELSE IF q = p THEN FAT_END ELSE vol.fat[q]
    BY <1>0, <1>3, <2>1 DEF Claim
  <2> HIDE DEF g
  <2>3. /\ g[save.prev] = p /\ g[p] = FAT_END
        /\ \A q \in Claimed : q # save.prev => g[q] = vol.fat[q]
    BY <1>0, <1>1, <2>1, <2>2
  <2>4. Chain(g, save.first) = Claimed \cup {p}
    BY <1>1, <2>1, <2>3, ChainGrows DEF Claimed
  <2>5. FreePages(g) = FreePages(vol.fat) \ {p}
    <3> SUFFICES ASSUME NEW q \in DataPages
                 PROVE  g[q] = FAT_FREE <=> (vol.fat[q] = FAT_FREE /\ q # p)
      BY DEF FreePages
    <3> QED
      BY <2>1, <2>2, MarksAreNotPages
  <2>6. \A q \in DataPages : q \notin Claimed \cup {p} => g[q] = vol.fat[q]
    BY <2>1, <2>2
  <2> QED
    BY <1>1, <1>3, <2>3, <2>4, <2>5, <2>6 DEF g
<1> QED
  BY <1>0, <1>2, <1>3

LEMMA StoreSound == ASSUME TypeOK, SoundInv, StorePage PROVE SoundInv'
<1> DEFINE p == PageToStore
<1>0. /\ vol \in Volumes /\ pak \in Volumes /\ vol.fat \in Tables /\ save.got \in Nat
      /\ call \in Calls \cup {NoCall}
  BY DEF TypeOK, Volumes
<1>1. p \in DataPages /\ vol.fat[p] = FAT_FREE /\ pc = "store" /\ save.got < Len(call.buf)
  BY StoringFacts DEF StorePage, Storing, PagesLeft
<1>2. /\ call.kind = "write" /\ save.slot \in Slots
      /\ ClaimedChain /\ ClaimedApart /\ OthersWhole /\ RoomLeft
  BY <1>1 DEF SoundInv, HalfSaved
<1>3. /\ vol'.fat = Claim(vol.fat, p) /\ vol'.dir = vol.dir
      /\ UNCHANGED <<state, call, pc>>
      /\ save'.got = save.got + 1 /\ save'.prev = p /\ save'.slot = save.slot
      /\ save'.first = IF save.got = 0 THEN p ELSE save.first
  BY <1>0 DEF StorePage, Volumes, TypeOK
<1>4. ReadablePakIsSound'
  <2>1. pak'.head = pak.head /\ pak'.fat = pak.fat /\ pak'.dir = pak.dir
    BY <1>0 DEF StorePage, Volumes
  <2> QED
    BY <2>1, MetaKept DEF SoundInv
<1> HIDE DEF p
<1>5. /\ Claimed' = Claimed \cup {p} /\ p \notin Claimed /\ vol'.fat[p] = FAT_END
      /\ \A q \in DataPages : q \notin Claimed \cup {p} => vol'.fat[q] = vol.fat[q]
      /\ FreePages(vol'.fat) = FreePages(vol.fat) \ {p}
  BY <1>1, <1>2, <1>3, ClaimGrows DEF Claimed
<1>6. /\ p \in FreePages(vol.fat)
      /\ Claimed \in SUBSET DataPages /\ FreePages(vol.fat) \in SUBSET DataPages
  BY <1>1, ChainFacts DEF Claimed, FreePages
<1>7. UsedSlots(vol') = UsedSlots(vol) /\ \A m : SlotsOf(vol', m) = SlotsOf(vol, m)
  BY <1>3 DEF UsedSlots, SlotsOf
<1>8. ASSUME NEW t \in UsedSlots(vol)
      PROVE  ChainOf(vol', t) = ChainOf(vol, t) /\ ChainOf(vol, t) \cap (Claimed \cup {p}) = {}
  <2>1. ChainOf(vol, t) \cap (Claimed \cup {p}) = {}
    BY <1>2, <1>6 DEF ClaimedApart
  <2>2. \A q \in ChainOf(vol, t) : vol'.fat[q] = vol.fat[q]
    BY <1>5, <2>1, ChainFacts DEF ChainOf
  <2> QED
    BY <1>3, <2>1, <2>2, ChainLocal DEF ChainOf
<1>9. ClaimedChain'
  <2>1. Cardinality(Claimed') = save.got + 1
    BY <1>2, <1>5, <1>6, PagesFinite, FS_AddElement DEF ClaimedChain
  <2>2. save'.first \in DataPages
    BY <1>1, <1>2, <1>3 DEF ClaimedChain
  <2> QED
    BY <1>0, <1>3, <1>5, <2>1, <2>2 DEF ClaimedChain
<1>10. ClaimedApart'
  <2>1. NoCrossLinks(vol')
    BY <1>2, <1>7, <1>8 DEF ClaimedApart, NoCrossLinks
  <2>2. \A t \in UsedSlots(vol') : ChainOf(vol', t) \cap Claimed' = {}
    BY <1>5, <1>7, <1>8
  <2>3. UNION {ChainOf(vol', t) : t \in UsedSlots(vol')} =
          UNION {ChainOf(vol, t) : t \in UsedSlots(vol)}
    BY <1>7, <1>8
  <2>4. DataPages \ FreePages(vol'.fat) = (DataPages \ FreePages(vol.fat)) \cup {p}
    BY <1>5, <1>6
  <2> QED
    BY <1>2, <1>5, <2>1, <2>2, <2>3, <2>4 DEF ClaimedApart
<1>11. OthersWhole'
  BY <1>2, <1>3, <1>7, <1>8 DEF OthersWhole
<1>12. RoomLeft'
  <2>1. /\ Cardinality(FreePages(vol'.fat)) = Cardinality(FreePages(vol.fat)) - 1
        /\ Cardinality(FreePages(vol.fat)) \in Nat
    BY <1>5, <1>6, PagesFinite, FS_RemoveElement
  <2>2. Len(call.buf) \in Nat
    BY <1>0, CallFields
  <2> QED
    BY <1>0, <1>1, <1>2, <1>3, <2>1, <2>2 DEF RoomLeft, Room
<1>13. HalfSaved'
  BY <1>2, <1>3, <1>9, <1>10, <1>11, <1>12 DEF HalfSaved
<1> QED
  BY <1>1, <1>3, <1>4, <1>13 DEF SoundInv, MountedSound, CommittedSound

\* What a failed write of a page leaves in RAM is thrown away.
LEMMA StoreFailsSound == ASSUME TypeOK, OnThePak, SoundInv, StorePageFails PROVE SoundInv'
<1>1. pak \in Volumes
  BY DEF TypeOK
<1>2. pak'.head = pak.head /\ pak'.fat = pak.fat /\ pak'.dir = pak.dir
  BY <1>1 DEF StorePageFails, Volumes
<1>3. ReadablePakIsSound'
  BY <1>2, MetaKept DEF SoundInv
<1>4. pc' = "mount" /\ state' = state /\ state # "RAM"
  BY DEF StorePageFails, Storing, OnThePak
<1> QED
  BY <1>3, <1>4 DEF SoundInv, MountedSound, CommittedSound, HalfSaved

\* Behind the header that commit() has stored, either all of what it says is there,
\* or the checksum is wrong.
LEMMA HeaderSays ==
  ASSUME NEW x, x.head = vol.head, vol.head.sum = checksum(vol), Sound(vol), Readable(x)
  PROVE  Sound(x)
<1>1. x.fat = vol.fat /\ x.dir = vol.dir
  BY DEF Readable, checksum
<1> QED
  BY <1>1, SoundIsOfMetadata

\* A block that went wrong leaves the pak as it was, or unreadable, or with vol's
\* header.
LEMMA DamageTells ==
  ASSUME NEW v \in Volumes, NEW w \in Volumes, NEW b \in Nat, SameBlocks(v, w, b),
         NEW x \in DamagedBlock(v, w, b) \cup {v}, Readable(x)
  PROVE  x = v \/ x.head = w.head
<1>1. b > 0 => v.head = w.head
  BY DEF SameBlocks
<1>2. CASE x = CopyBlocks(v, w, {b})
  BY <1>1, <1>2 DEF CopyBlocks, Volumes
<1>3. CASE x = [v EXCEPT !.head = [@ EXCEPT !.sum = NoSum]]
  <2>1. x.head.sum = NoSum /\ x.fat = v.fat /\ x.dir = v.dir
    BY <1>3 DEF Volumes, Heads
  <2>2. checksum(x) \in [fat : Tables, dir : Dirs]
    BY <2>1 DEF checksum, Volumes
  <2> QED
    BY <2>1, <2>2, SumAssumption DEF Readable
<1>4. CASE x = [v EXCEPT !.head = [@ EXCEPT !.magic = "other"]]
  <2>1. x.head.magic = "other"
    BY <1>4 DEF Volumes, Heads
  <2> QED
    BY <2>1 DEF Readable
<1>5. CASE /\ b # 0
           /\ x = CopyBlocks(v, [v EXCEPT !.fat = [p \in DataPages |-> TornLink],
                                         !.dir = [s \in Slots |-> TornEntry]], {b})
  <2> DEFINE u == [v EXCEPT !.fat = [p \in DataPages |-> TornLink],
                            !.dir = [s \in Slots |-> TornEntry]]
  <2>1. x = CopyBlocks(v, u, {b})
    BY <1>5
  <2> HIDE DEF u
  <2>2. x.head = v.head
    BY <1>5, <2>1 DEF CopyBlocks, Volumes
  <2> QED
    BY <1>1, <1>5, <2>2
<1> QED
  BY <1>2, <1>3, <1>4, <1>5 DEF DamagedBlock

LEMMA CommitStepSound ==
  ASSUME TypeOK, OnThePak, StoredBlocks, SoundInv, CommitBlock \/ CommitFails \/ CommitDone
  PROVE  SoundInv'
<1>0. /\ pak \in Volumes /\ vol \in Volumes /\ pc = "commit" /\ blk \in Nat
      /\ vol.head.sum = checksum(vol) /\ Sound(vol) /\ SameBlocks(pak, vol, blk)
      /\ vol' = vol
  BY BlockBounds
  DEF TypeOK, CommitBlock, CommitFails, CommitDone, Committing, SoundInv, CommittedSound,
      StoredBlocks, cache
<1>1. blk > 0 => pak.head = vol.head
  BY <1>0 DEF SameBlocks
<1>2. ASSUME NEW b, b = blk
      PROVE  CopyBlocks(pak, vol, {b}).head = vol.head
  BY <1>0, <1>1, <1>2 DEF CopyBlocks, Volumes
<1>3. CASE CommitBlock
  <2>1. ReadablePakIsSound'
    BY <1>0, <1>2, <1>3, HeaderSays DEF CommitBlock, ReadablePakIsSound
  <2>2. pc' = "commit"
    BY <1>0, <1>3 DEF CommitBlock
  <2>3. CommittedSound'
    BY <1>0 DEF CommittedSound
  <2> QED
    BY <2>1, <2>2, <2>3 DEF SoundInv, MountedSound, HalfSaved
<1>4. CASE CommitFails
  <2>1. pak' \in DamagedBlock(pak, vol, blk) \cup {pak}
    BY <1>4 DEF CommitFails
  <2>2. ASSUME Readable(pak') PROVE Sound(pak')
    <3>1. CASE pak' = pak
      BY <2>2, <3>1 DEF SoundInv, ReadablePakIsSound
    <3>2. CASE pak'.head = vol.head
      BY <1>0, <2>2, <3>2, HeaderSays
    <3> QED
      BY <1>0, <2>1, <2>2, <3>1, <3>2, DamageTells
  <2>3. ReadablePakIsSound'
    BY <2>2 DEF ReadablePakIsSound
  <2>4. \/ pc' = "mount" /\ state' = state /\ state = "PAK"
        \/ pc' = "idle" /\ state' = "NOANSWER"
        \/ pc' \in {"idle", "body"} /\ state' = "UNFORMATTED"
    BY <1>0, <1>4 DEF CommitFails, Return, OnThePak, TypeOK
  <2> QED
    BY <2>3, <2>4 DEF SoundInv, MountedSound, CommittedSound, HalfSaved, Mounted
<1>5. CASE CommitDone
  <2>1. pak' = pak /\ pc' \in {"idle", "body"}
    BY <1>5 DEF CommitDone, Return, device, TypeOK
  <2>2. ReadablePakIsSound'
    BY <2>1, MetaKept DEF SoundInv
  <2> QED
    BY <1>0, <2>1, <2>2 DEF SoundInv, MountedSound, CommittedSound, HalfSaved
<1> QED
  BY <1>3, <1>4, <1>5

LEMMA WorldSound ==
  ASSUME TypeOK, SoundInv, World \/ \E c \in Calls : Call(c)
  PROVE  SoundInv'
<1>1. CASE Identify \/ Pull \/ Insert
  <2>1. UNCHANGED <<pak, state, vol, call, pc, save>>
    BY <1>1 DEF Identify, Pull, Insert, cache, flow
  <2> QED
    BY <2>1, StutterSound
<1>2. CASE PowerFail
  <2>1. pak' = pak /\ state' = "NONE" /\ pc' = "mount"
    BY <1>2 DEF PowerFail, Boot
  <2>2. ReadablePakIsSound'
    BY <2>1, MetaKept DEF SoundInv
  <2> QED
    BY <2>1, <2>2 DEF SoundInv, MountedSound, CommittedSound, HalfSaved, Mounted
<1>3. CASE \E c \in Calls : Call(c)
  BY <1>3, ReturnSound DEF Call, device, cache
<1> QED
  BY <1>1, <1>2, <1>3 DEF World

LEMMA NextSound ==
  TypeOK /\ OnThePak /\ StoredBlocks /\ SoundInv /\ [Next]_vars => SoundInv'
<1>1. ASSUME TypeOK, OnThePak, StoredBlocks, SoundInv, Next
      PROVE  SoundInv'
  BY <1>1, LookSound, ReadSound, DeleteSound, RenameSound, FinishSound, WriteCallSound,
     StoreSound, StoreFailsSound, CommitStepSound, WorldSound, Zenon
  DEF Next, Step
<1>2. ASSUME SoundInv, UNCHANGED vars
      PROVE  SoundInv'
  BY <1>2, StutterSound DEF vars
<1> QED
  BY <1>1, <1>2

\* SoundInv is an invariant.
THEOREM SoundInvariant == Spec => []SoundInv
<1>1. TypeOK /\ CacheInv /\ SoundInv /\ [Next]_vars => SoundInv'
  BY NextSound DEF CacheInv
<1> QED
  BY <1>1, InitSound, TypeCorrect, CacheInvariant, PTL DEF Spec

\* However a save, a delete, a rename or a format is cut short, a pak whose checksum is
\* right has no page in two files, none lost, and every file as long as it says.
THEOREM ReadablePaksAreSound == Spec => []ReadablePakIsSound
<1>1. SoundInv => ReadablePakIsSound
  BY DEF SoundInv
<1> QED
  BY <1>1, SoundInvariant, PTL

-----------------------------------------------------------------------------
(* What is on a volume.                                                    *)

\* The files are of the table, the directory and the pages.
LEMMA SameFile ==
  ASSUME NEW v, NEW w, v.fat = w.fat, v.dir = w.dir, v.data = w.data
  PROVE  \A n : FileOn(v, n) = FileOn(w, n)
BY DEF FileOn, SlotsOf, FileContent

\* The slot of a file, on a sound volume.
LEMMA SlotOfFile ==
  ASSUME NEW v, NEW n \in Names, NEW s \in SlotsOf(v, n), SizesRight(v)
  PROVE  /\ s \in UsedSlots(v) /\ SlotsOf(v, n) = {s} /\ Min(SlotsOf(v, n)) = s
         /\ FileOn(v, n) = <<"file", FileContent(v, s)>>
<1>1. s \in Slots /\ v.dir[s].name = n /\ n # NoName
  BY VolumeAssumption DEF SlotsOf
<1>2. s \in UsedSlots(v) /\ SlotsOf(v, n) = {s}
  BY <1>1 DEF UsedSlots, SizesRight
<1>3. {s} \in SUBSET Nat /\ {s} # {}
  BY <1>1, DataPagesNat
<1>4. Min({s}) = s
  BY <1>3, MinIsLeast
<1> QED
  BY <1>2, <1>4 DEF FileOn

\* A file whose entry, links and pages are the same is the same file.
LEMMA OtherFile ==
  ASSUME NEW v \in Volumes, SizesRight(v), NEW w, NEW n \in Names,
         SlotsOf(w, n) = SlotsOf(v, n),
         \A t \in SlotsOf(v, n) :
           /\ w.dir[t].size = v.dir[t].size /\ w.dir[t].first = v.dir[t].first
           /\ \A p \in ChainOf(v, t) : w.fat[p] = v.fat[p] /\ w.data[p] = v.data[p]
  PROVE  FileOn(w, n) = FileOn(v, n)
<1>1. CASE SlotsOf(v, n) = {}
  BY <1>1 DEF FileOn
<1>2. ASSUME NEW t \in SlotsOf(v, n)
      PROVE  FileOn(w, n) = FileOn(v, n)
  <2>1. /\ t \in UsedSlots(v) /\ SlotsOf(v, n) = {t} /\ Min(SlotsOf(v, n)) = t
        /\ FileOn(v, n) = <<"file", FileContent(v, t)>>
    BY SlotOfFile
  <2>2. t \in Slots /\ Cardinality(ChainOf(v, t)) = v.dir[t].size
    BY <2>1 DEF UsedSlots, SizesRight
  <2>3. FileContent(w, t) = FileContent(v, t)
    BY <2>2, SameContent
  <2>4. FileOn(w, n) = <<"file", FileContent(w, t)>>
    BY <2>1 DEF FileOn
  <2> QED
    BY <2>1, <2>3, <2>4
<1> QED
  BY <1>1, <1>2

\* What a sound volume holds are versions of files.
LEMMA FileType ==
  ASSUME NEW v \in Volumes, SizesRight(v), NEW n \in Names
  PROVE  FileOn(v, n) \in Versions \cup {<<"none">>}
<1>1. ASSUME NEW s \in SlotsOf(v, n)
      PROVE  FileOn(v, n) \in Versions
  <2>1. s \in UsedSlots(v) /\ FileOn(v, n) = <<"file", FileContent(v, s)>>
    BY SlotOfFile
  <2>2. s \in Slots /\ Cardinality(ChainOf(v, s)) = v.dir[s].size
    BY <2>1 DEF UsedSlots, SizesRight
  <2>3. /\ v.dir[s].size \in 0 .. fs_capacity
        /\ FileContent(v, s) \in [1 .. v.dir[s].size -> Data \cup {Blank, Torn}]
    BY <2>2, ContentType
  <2> QED
    BY <2>1, <2>3 DEF Versions
<1>2. CASE SlotsOf(v, n) = {}
  BY <1>2 DEF FileOn
<1> QED
  BY <1>1, <1>2

LEMMA FilesAreNotNothing == ASSUME NEW v PROVE FilesOn(v) # Nothing
<1>1. DOMAIN FilesOn(v) = Names /\ DOMAIN Nothing = {NoName}
  BY DEF FilesOn, Nothing
<1> QED
  BY <1>1, VolumeAssumption

LEMMA FileIsNotNone == \A c : <<"file", c>> # <<"none">>
OBVIOUS

-----------------------------------------------------------------------------
(* KeptInv is inductive.                                                   *)

LEMMA InitKept == Init => KeptInv
BY DEF Init, KeptInv, Unharmed, CommitIsAsked

\* A call that returns, or goes on, and has changed nothing of the metadata.
LEMMA ReturnKept ==
  ASSUME KeptInv, UNCHANGED <<pak, state>>, vol'.head = vol.head,
         pc \in {"idle", "revalidate", "body"},
         pc' \in {"idle", "revalidate", "body"},
         pc' = "idle" \/ res' # "ok"
  PROVE  KeptInv'
BY DEF KeptInv, Unharmed, CommitIsAsked, Readable

\* commit() is given the empty volume.
LEMMA BlankCommitKept ==
  ASSUME KeptInv, pak' = pak, vol' = Stamped(BlankVolume), pc' = "commit",
         purpose' \in {"format", "blank"}, purpose' = "format" => call'.kind = "format",
         res' # "ok"
  PROVE  KeptInv'
<1>1. vol'.head.magic = "ours"
  BY DEF Stamped, WithSum, BlankVolume, ZeroVolume
<1> QED
  BY <1>1 DEF KeptInv, Unharmed, CommitIsAsked

LEMMA MountKept ==
  ASSUME TypeOK, KeptInv, NEW back \in {"idle", "body"}, Mount(back), UNCHANGED device,
         pc # "idle"
  PROVE  KeptInv'
<1>0. pak' = pak /\ pak \in Volumes /\ res' # "ok"
  <2>1. res' = res
    BY DEF Mount, MountBlankPak
  <2> QED
    BY <2>1 DEF device, TypeOK, KeptInv, CommitIsAsked
<1>1. CASE MountRamDisk /\ pc' = back
  BY <1>0, <1>1 DEF MountRamDisk, KeptInv, Unharmed, CommitIsAsked
<1>2. CASE (\E b \in Blocks : MountNoAnswer(b)) /\ pc' = back
  <2>1. state' = "NOANSWER"
    BY <1>2 DEF MountNoAnswer
  <2> QED
    BY <1>0, <1>2, <2>1 DEF KeptInv, Unharmed, CommitIsAsked
<1>3. CASE MountPak /\ pc' = back
  <2> DEFINE v == CopyBlocks(ZeroVolume, pak, Blocks)
  <2>1. v.head = pak.head /\ v.fat = pak.fat /\ v.dir = pak.dir
    BY <1>0, ZeroVolumeType, CopyAllBlocks
  <2>2. vol' = v /\ (state' = "PAK" => Readable(v))
    BY <1>3 DEF MountPak
  <2> HIDE DEF v
  <2>3. state' = "PAK" => vol'.head.magic = "ours" /\ Readable(pak')
    BY <1>0, <2>1, <2>2 DEF Readable, checksum
  <2> QED
    BY <1>0, <1>3, <2>3 DEF KeptInv, Unharmed, CommitIsAsked
<1>4. CASE MountBlankPak(back)
  BY <1>0, <1>4, BlankCommitKept DEF MountBlankPak
<1> QED
  BY <1>1, <1>2, <1>3, <1>4 DEF Mount

LEMMA LookKept ==
  ASSUME TypeOK, KeptInv,
         DoMount \/ Revalidate \/ MountCall \/ FormatCall \/ StatCall \/ WriteRefused
         \/ ReadCall
  PROVE  KeptInv'
<1>0. pc # "idle" => res # "ok"
  BY DEF KeptInv, CommitIsAsked
<1>1. CASE DoMount
  BY <1>1, MountKept DEF DoMount
<1>2. CASE MountCall
  BY <1>2, MountKept DEF MountCall
<1>3. CASE Revalidate
  <2>1. CASE CacheDoubted /\ Mount("body")
    BY <1>3, <2>1, MountKept DEF Revalidate
  <2>2. CASE ~(CacheDoubted /\ Mount("body"))
    BY <1>0, <1>3, <2>2, ReturnKept DEF Revalidate, cache, device
  <2> QED
    BY <2>1, <2>2
<1>4. CASE FormatCall
  <2>1. CASE seen
    <3>1. /\ pak' = pak /\ vol' = Stamped(BlankVolume) /\ pc' = "commit"
          /\ purpose' = "format" /\ call'.kind = "format" /\ res' = res
      BY <1>4, <2>1 DEF FormatCall, device
    <3>2. res' # "ok"
      BY <1>0, <1>4, <3>1 DEF FormatCall
    <3> QED
      BY <3>1, <3>2, BlankCommitKept
  <2>2. CASE ~seen
    BY <1>4, <2>2 DEF FormatCall, Return, KeptInv, Unharmed, CommitIsAsked
  <2> QED
    BY <2>1, <2>2
<1>5. CASE StatCall \/ WriteRefused
  BY <1>5, ReturnKept DEF StatCall, WriteRefused, Return, cache, device
<1>6. CASE ReadCall
  <2>1. UNCHANGED <<pak, state>> /\ pc = "body" /\ pc' = "idle"
    BY <1>6 DEF ReadCall, device, Return
  <2>2. vol'.head = vol.head
    BY <1>6 DEF ReadCall, TypeOK, Volumes
  <2> QED
    BY <2>1, <2>2, ReturnKept
<1> QED
  BY <1>1, <1>2, <1>3, <1>4, <1>5, <1>6

\* commit() is given a volume on which what the call asked for is done.
LEMMA CommitKept ==
  ASSUME TypeOK, CacheInv, KeptInv, NEW v \in Volumes, Commit(v, "save"),
         v.head = vol.head, v.data = vol.data, pc \in {"body", "store"}, Mounted,
         on_pak => Done([v EXCEPT !.data = pak.data]),
         UNCHANGED <<device, state, on_pak, loaded, after>>
  PROVE  KeptInv'
<1>0. pak' = pak /\ vol' = Stamped(v)
  BY DEF Commit, device
<1>1. CASE on_pak
  <2>1. state = "PAK" /\ vol.head.magic = "ours" /\ res # "ok"
    BY <1>1 DEF Mounted, CacheInv, OnThePak, KeptInv, Unharmed, CommitIsAsked
  <2>2. vol'.head.magic = "ours"
    BY <1>0, <2>1 DEF Stamped, WithSum, Volumes, Heads
  <2>3. pc' = "commit" /\ purpose' = "save" /\ call' = call /\ res' = res
    BY <1>1 DEF Commit
  <2> DEFINE x == [v EXCEPT !.data = pak.data]
             y == [vol' EXCEPT !.data = pak'.data]
  <2>4. x.fat = y.fat /\ x.dir = y.dir /\ x.data = y.data
    <3>1. vol' \in Volumes /\ vol'.fat = v.fat /\ vol'.dir = v.dir
      BY <1>0, StampedType
    <3> QED
      BY <1>0, <3>1 DEF Volumes
  <2>5. Done(x)
    BY <1>1
  <2> HIDE DEF x, y
  <2>6. \A n : FileOn(x, n) = FileOn(y, n)
    BY <2>4, SameFile
  <2>7. /\ call'.kind = "write" => FileOn(y, call'.name) = <<"file", call'.buf>>
        /\ call'.kind = "delete" => FileOn(y, call'.name) = <<"none">>
        /\ call'.kind = "rename" => /\ FileOn(y, call'.to) # <<"none">>
                                    /\ call'.to # call'.name =>
                                         FileOn(y, call'.name) = <<"none">>
    BY <2>3, <2>5, <2>6 DEF Done
  <2>8. Done([vol EXCEPT !.data = pak.data])'
    BY <2>7 DEF Done, y
  <2> QED
    BY <2>1, <2>2, <2>3, <2>8 DEF KeptInv, Unharmed, CommitIsAsked
<1>2. CASE ~on_pak
  <2>1. pc' = "idle" /\ state' # "PAK"
    BY <1>2 DEF Commit, Return, CacheInv, OnThePak
  <2> QED
    BY <2>1 DEF KeptInv, Unharmed, CommitIsAsked
<1> QED
  BY <1>1, <1>2

LEMMA DeleteKept ==
  ASSUME TypeOK, CacheInv, SoundInv, KeptInv, DeleteCall
  PROVE  KeptInv'
<1>0. vol \in Volumes /\ vol.fat \in Tables /\ vol.dir \in Dirs /\ pc = "body"
  BY DEF TypeOK, Volumes, DeleteCall
<1>1. CASE /\ Return(DeleteCheck(call.name))
           /\ UNCHANGED <<vol, blk, purpose>>
  BY <1>1, ReturnKept DEF DeleteCall, Return, device
<1>2. ASSUME NEW s \in Find(call.name),
             Commit([vol EXCEPT !.fat = free_chain(@, vol.dir[s].first),
                                !.dir = [@ EXCEPT ![s] = NoEntry]], "save")
      PROVE  KeptInv'
  <2> DEFINE v == [vol EXCEPT !.fat = free_chain(@, vol.dir[s].first),
                              !.dir = [@ EXCEPT ![s] = NoEntry]]
  <2>1. NoEntry \in Entries
    BY DEF NoEntry, Entries, Links
  <2>2. v \in Volumes
    BY <1>0, <2>1, FreeChainType, SetEntryType, NewMetaType
  <2>3. v.dir = [vol.dir EXCEPT ![s] = NoEntry] /\ v.head = vol.head /\ v.data = vol.data
    BY <1>0 DEF Volumes
  <2>4. call.name \in Names /\ call.name # NoName /\ call.kind = "delete"
    BY ChangingCall DEF TypeOK, DeleteCall, Changing
  <2>5. Mounted /\ s \in UsedSlots(vol) /\ vol.dir[s].name = call.name
    BY <2>4, FindFacts DEF UsedSlots
  <2>6. SlotsOf(vol, call.name) = {s}
    BY <1>0, <2>5 DEF SoundInv, MountedSound, Sound, SizesRight
  <2>7. Commit(v, "save")
    BY <1>2, Zenon
  <2>8. UNCHANGED <<device, state, on_pak, loaded, after>>
    BY DEF DeleteCall
  <2> HIDE DEF v
  <2>9. SlotsOf(v, call.name) = {}
    BY <1>0, <2>3, <2>4, <2>6 DEF SlotsOf, Dirs, NoEntry
  <2>10. Done([v EXCEPT !.data = pak.data])
    <3>1. SlotsOf([v EXCEPT !.data = pak.data], call.name) = {}
      BY <2>2, <2>9 DEF SlotsOf, Volumes
    <3> QED
      BY <2>4, <3>1 DEF Done, FileOn
  <2> QED
    BY <1>0, <2>2, <2>3, <2>5, <2>7, <2>8, <2>10, CommitKept
<1> QED
  BY <1>1, <1>2, Zenon DEF DeleteCall

\* What fs_rename has seen to before it changes anything.
LEMMA RenameFacts ==
  ASSUME TypeOK, SoundInv, pc = "body", call.kind = "rename",
         RenameCheck(call.name, call.to) = "ok", NEW s \in Find(call.name)
  PROVE  /\ Mounted /\ s \in UsedSlots(vol) /\ Sound(vol)
         /\ call.name \in Names /\ call.to \in Names
         /\ SlotsOf(vol, call.name) = {s}
         /\ call.to # call.name => SlotsOf(vol, call.to) = {}
<1>1. call.name \in Names /\ call.name # NoName /\ call.to \in Names
  BY ChangingCall DEF TypeOK, Changing
<1>2. /\ Mounted /\ s \in UsedSlots(vol) /\ Find(call.name) = {s}
      /\ vol.dir[s].name = call.name
  BY <1>1, FindFacts DEF UsedSlots
<1>3. Sound(vol)
  BY <1>2 DEF SoundInv, MountedSound
<1>4. SlotsOf(vol, call.name) = {s}
  BY <1>2, <1>3 DEF Sound, SizesRight
<1>5. Find(call.to) \in {{}, Find(call.name)}
  BY DEF RenameCheck, writable, NotOnPak, Mounted
<1>6. CASE Find(call.to) = {}
  BY <1>1, <1>2, <1>3, <1>4, <1>6, FindFacts
<1>7. CASE Find(call.to) = {s}
  <2>1. vol.dir[s].name = call.to
    BY <1>7, FindFacts
  <2> QED
    BY <1>1, <1>2, <1>3, <1>4, <2>1
<1> QED
  BY <1>2, <1>5, <1>6, <1>7

LEMMA RenameKept ==
  ASSUME TypeOK, CacheInv, SoundInv, KeptInv, RenameCall
  PROVE  KeptInv'
<1>0. vol \in Volumes /\ vol.fat \in Tables /\ vol.dir \in Dirs /\ pc = "body"
      /\ call.kind = "rename"
  BY DEF TypeOK, Volumes, RenameCall
<1>1. CASE /\ Return(RenameCheck(call.name, call.to))
           /\ UNCHANGED <<vol, blk, purpose>>
  BY <1>1, ReturnKept DEF RenameCall, Return, device
<1>2. ASSUME RenameCheck(call.name, call.to) = "ok", NEW s \in Find(call.name),
             Commit([vol EXCEPT !.dir = [@ EXCEPT ![s].name = call.to]], "save")
      PROVE  KeptInv'
  <2> DEFINE v == [vol EXCEPT !.dir = [@ EXCEPT ![s].name = call.to]]
  <2>1. v \in Volumes
    BY <1>0, CallFields, EntryFieldType, NewMetaType DEF TypeOK
  <2>2. v.dir = [vol.dir EXCEPT ![s].name = call.to] /\ v.head = vol.head /\ v.data = vol.data
    BY <1>0 DEF Volumes
  <2>3. /\ Mounted /\ s \in UsedSlots(vol) /\ SlotsOf(vol, call.name) = {s}
    BY <1>0, <1>2, RenameFacts
  <2>4. Commit(v, "save")
    BY <1>2, Zenon
  <2>5. UNCHANGED <<device, state, on_pak, loaded, after>>
    BY DEF RenameCall
  <2> HIDE DEF v
  <2>6. s \in SlotsOf(v, call.to) /\ (call.to # call.name => SlotsOf(v, call.name) = {})
    BY <1>0, <2>2, <2>3 DEF SlotsOf, UsedSlots, Dirs, Entries
  <2>7. Done([v EXCEPT !.data = pak.data])
    <3> DEFINE x == [v EXCEPT !.data = pak.data]
    <3>1. x.dir = v.dir
      BY <2>1 DEF Volumes
    <3> HIDE DEF x
    <3>2. \A n : SlotsOf(x, n) = SlotsOf(v, n)
      BY <3>1 DEF SlotsOf
    <3>3. SlotsOf(x, call.to) # {} /\ (call.to # call.name => SlotsOf(x, call.name) = {})
      BY <2>6, <3>2
    <3>4. Done(x)
      BY <1>0, <3>3 DEF Done, FileOn
    <3> QED
      BY <3>4 DEF x
  <2> QED
    BY <1>0, <2>1, <2>2, <2>3, <2>4, <2>5, <2>7, CommitKept
<1> QED
  BY <1>1, <1>2, Zenon DEF RenameCall

\* What the loop of fs_write has stored is what its entry is going to say.
LEMMA FinishKept ==
  ASSUME TypeOK, CacheInv, SoundInv, KeptInv, FinishWrite
  PROVE  KeptInv'
<1>0. /\ vol \in Volumes /\ vol.fat \in Tables /\ vol.dir \in Dirs /\ pc = "store"
      /\ call \in Calls \cup {NoCall} /\ pak \in Volumes
  BY DEF TypeOK, Volumes, FinishWrite
<1> DEFINE n == call.name
           slot == save.slot
           x == [Finished EXCEPT !.data = pak.data]
<1>1. /\ call.kind = "write" /\ n \in Names /\ slot \in Slots
      /\ save.got = Len(call.buf)
      /\ Finished \in Volumes /\ Sound(Finished)
      /\ Finished.fat = IF slot \in UsedSlots(vol)
                        THEN free_chain(vol.fat, vol.dir[slot].first) ELSE vol.fat
      /\ Finished.dir = [vol.dir EXCEPT ![slot] = NewEntry]
  BY FinishFacts
<1>2. Mounted /\ ClaimedChain /\ ClaimedApart
  BY <1>0 DEF CacheInv, OnThePak, SoundInv, HalfSaved
<1>3. Finished.head = vol.head /\ Finished.data = vol.data
  BY <1>0 DEF Finished, Volumes
<1>4. /\ x.fat = Finished.fat /\ x.dir = Finished.dir /\ x.data = pak.data
  BY <1>1 DEF Volumes
<1> HIDE DEF x
<1>5. ASSUME on_pak
      PROVE  Done(x)
  <2>1. StoredSoFar
    BY <1>0, <1>5 DEF KeptInv
  <2>2. /\ x.dir[slot].name = n /\ x.dir[slot].size = Len(call.buf)
        /\ x.dir[slot].first = save.first
    BY <1>0, <1>1, <1>4 DEF Dirs, NewEntry
  <2>3. slot \in SlotsOf(x, n)
    BY <1>1, <2>2 DEF SlotsOf
  <2>4. SizesRight(x)
    BY <1>1, <1>4, SoundIsOfMetadata DEF Sound
  <2>5. FileOn(x, n) = <<"file", FileContent(x, slot)>>
    BY <1>1, <2>3, <2>4, SlotOfFile
  <2>6. call.buf \in Seq(Data) /\ Len(call.buf) \in Nat
    BY <1>0, CallFields
  <2>7. ASSUME NEW i \in 1 .. Len(call.buf)
        PROVE  x.data[PageAt(x.fat, save.first, i)] = call.buf[i]
    <3>1. save.got # 0 /\ save.first \in DataPages
      BY <1>1, <1>2, <2>6 DEF ClaimedChain
    <3>2. \A j \in 1 .. save.got : PageAt(vol.fat, save.first, j) \in Claimed
      BY <1>1, <1>2, <2>6, <3>1, PagesOfChain DEF ClaimedChain, Claimed
    <3>3. \A q \in Claimed : x.fat[q] = vol.fat[q]
      <4>1. Claimed \subseteq DataPages
        BY ChainFacts DEF Claimed
      <4>2. CASE slot \in UsedSlots(vol)
        <5>1. ChainOf(vol, slot) \cap Claimed = {}
          BY <1>2, <4>2 DEF ClaimedApart
        <5> QED
          BY <1>1, <1>4, <4>1, <4>2, <5>1 DEF free_chain, ChainOf
      <4> QED
        BY <1>1, <1>4, <4>2
    <3>4. SameLinks(vol.fat, x.fat, save.first, save.got)
      BY <1>1, <2>6, <3>2, <3>3 DEF SameLinks
    <3>5. PageAt(x.fat, save.first, i) = PageAt(vol.fat, save.first, i)
      BY <1>1, <2>6, <3>4, SameWay
    <3> QED
      BY <1>1, <1>4, <2>1, <3>5 DEF StoredSoFar
  <2>8. FileContent(x, slot) = call.buf
    <3>1. FileContent(x, slot) = [i \in 1 .. Len(call.buf) |-> call.buf[i]]
      BY <2>2, <2>7 DEF FileContent
    <3> QED
      BY <2>6, <3>1
  <2> QED
    BY <1>1, <2>5, <2>8 DEF Done
<1>6. Commit(Finished, "save") /\ UNCHANGED <<device, state, on_pak, loaded, after>>
  BY DEF FinishWrite
<1> QED
  BY <1>0, <1>1, <1>2, <1>3, <1>5, <1>6, CommitKept DEF x

\* The old pages are released only when there is an old file to release.
LEMMA ReuseFacts ==
  ASSUME TypeOK, SoundInv, WriteCall
  PROVE  /\ Mounted /\ Sound(vol) /\ call.kind = "write" /\ call.name \in Names
         /\ save'.slot = SlotFor(call.name) /\ save'.got = 0
         /\ vol' = IF save'.reuse THEN ReleaseOld(call.name) ELSE vol
         /\ save'.reuse => Find(call.name) # {}
<1> DEFINE n == call.name
<1>1. WriteCheck(n, call.buf) = "ok" /\ call.kind = "write" /\ pc = "body"
  BY DEF WriteCall
<1>2. Mounted /\ (Fits(n, Len(call.buf)) \/ FitsOver(n, Len(call.buf)))
  BY <1>1 DEF WriteCheck, writable
<1>3. Sound(vol)
  BY <1>1, <1>2 DEF SoundInv, MountedSound
<1>4. n \in Names /\ Len(call.buf) \in Nat
  BY <1>1, ChangingCall DEF TypeOK, Changing
<1>5. /\ save'.slot = SlotFor(n) /\ save'.got = 0 /\ save'.reuse = ~Fits(n, Len(call.buf))
      /\ vol' = IF save'.reuse THEN ReleaseOld(n) ELSE vol
  BY DEF WriteCall, NoSave
<1>6. ASSUME Find(n) = {} PROVE Fits(n, Len(call.buf))
  <2>1. Chain(vol.fat, OldFirst(n)) = {}
    BY <1>6, ChainFacts, MarksAreNotPages DEF OldFirst
  <2>2. Cardinality(Chain(vol.fat, OldFirst(n))) = 0
    BY <2>1, FS_EmptySet
  <2>3. Cardinality(FreePages(vol.fat)) \in Nat
    BY PagesFinite DEF FreePages
  <2> QED
    BY <1>2, <1>4, <2>2, <2>3 DEF Fits, FitsOver, Room
<1> QED
  BY <1>1, <1>2, <1>3, <1>4, <1>5, <1>6

\* The other files' entries and links are left alone when the old pages are released.
LEMMA WriteCallOthers ==
  ASSUME TypeOK, SoundInv, WriteCall, vol.fat = pak.fat, vol.dir = pak.dir
  PROVE  OthersKept'
<1> DEFINE n == call.name
           slot == SlotFor(n)
<1>0. vol \in Volumes /\ vol.fat \in Tables /\ vol.dir \in Dirs /\ pak' = pak
  BY DEF TypeOK, Volumes, WriteCall, device
<1>1. /\ Sound(vol) /\ n \in Names /\ save'.slot = slot
      /\ vol' = IF save'.reuse THEN ReleaseOld(n) ELSE vol
      /\ save'.reuse => Find(n) # {}
  BY ReuseFacts
<1>2. CASE ~save'.reuse
  BY <1>0, <1>1, <1>2 DEF OthersKept
<1>3. CASE save'.reuse
  <2>1. PICK s \in Find(n) : slot = s /\ OldFirst(n) = vol.dir[s].first
    BY <1>1, <1>3, FindFacts DEF SlotFor, OldFirst
  <2>2. s \in UsedSlots(vol)
    BY <1>1, <2>1, FindFacts, VolumeAssumption DEF UsedSlots
  <2>3. /\ vol'.fat = free_chain(vol.fat, vol.dir[s].first)
        /\ vol'.dir = [vol.dir EXCEPT ![s].first = FAT_END]
    BY <1>0, <1>1, <1>3, <2>1 DEF ReleaseOld, Volumes
  <2>4. \A t \in Slots : /\ t # s => vol'.dir[t] = pak.dir[t]
                         /\ vol'.dir[t].name = pak.dir[t].name
    BY <1>0, <2>3 DEF Dirs, Entries
  <2>5. ASSUME NEW t \in UsedSlots(pak) \ {s}, NEW p \in ChainOf(pak, t)
        PROVE  vol'.fat[p] = pak.fat[p]
    <3>1. t \in UsedSlots(vol) /\ ChainOf(pak, t) = ChainOf(vol, t)
      BY DEF UsedSlots, ChainOf
    <3>2. p \notin ChainOf(vol, s) /\ p \in DataPages
      BY <1>1, <2>2, <2>5, <3>1, ChainFacts DEF Sound, NoCrossLinks, ChainOf
    <3> QED
      BY <2>3, <3>2 DEF free_chain, ChainOf
  <2>6. s \in UsedSlots(vol')
    BY <2>2, <2>4 DEF UsedSlots
  <2> QED
    BY <1>0, <1>1, <2>1, <2>4, <2>5, <2>6 DEF OthersKept
<1> QED
  BY <1>2, <1>3

LEMMA WriteCallKept ==
  ASSUME TypeOK, CacheInv, SoundInv, KeptInv, WriteCall
  PROVE  KeptInv'
<1>0. /\ vol \in Volumes
      /\ pc = "body" /\ pc' = "store" /\ UNCHANGED <<pak, state, on_pak, res>>
  BY DEF TypeOK, WriteCall, device
<1>1. /\ Mounted /\ save'.got = 0
      /\ vol' = IF save'.reuse THEN ReleaseOld(call.name) ELSE vol
  BY ReuseFacts
<1>2. CASE ~on_pak
  <2>1. state # "PAK"
    BY <1>2 DEF CacheInv, OnThePak
  <2> QED
    BY <1>0, <1>2, <2>1 DEF KeptInv, Unharmed, CommitIsAsked
<1>3. CASE on_pak
  <2>1. state = "PAK"
    BY <1>0, <1>1, <1>3 DEF Mounted, CacheInv, OnThePak
  <2>2. /\ vol.fat = pak.fat /\ vol.dir = pak.dir
        /\ Readable(pak) /\ vol.head.magic = "ours" /\ res # "ok"
    BY <1>0, <2>1 DEF CacheInv, MountedCopy, KeptInv, Unharmed, CommitIsAsked
  <2>3. vol'.head.magic = "ours"
    BY <1>0, <1>1, <2>2 DEF ReleaseOld, Volumes
  <2>4. OthersKept'
    BY <2>2, WriteCallOthers
  <2>5. StoredSoFar'
    BY <1>1 DEF StoredSoFar
  <2> QED
    BY <1>0, <1>3, <2>1, <2>2, <2>3, <2>4, <2>5 DEF KeptInv, Unharmed, CommitIsAsked
<1> QED
  BY <1>2, <1>3

\* While fs_write claims and stores, the files of the pak and what it has claimed do
\* not meet.
LEMMA OthersApart ==
  ASSUME SoundInv, pc = "store", OthersKept
  PROVE  /\ call.kind = "write" /\ save.slot \in Slots
         /\ ClaimedChain /\ ClaimedApart /\ OthersWhole
         /\ \A t \in UsedSlots(pak) \ {save.slot} :
              /\ t \in UsedSlots(vol) /\ vol.dir[t] = pak.dir[t]
              /\ ChainOf(vol, t) = ChainOf(pak, t)
              /\ \A p \in ChainOf(pak, t) : p \notin Claimed /\ vol.fat[p] # FAT_FREE
<1>1. /\ call.kind = "write" /\ save.slot \in Slots
      /\ ClaimedChain /\ ClaimedApart /\ OthersWhole
  BY DEF SoundInv, HalfSaved
<1>2. ASSUME NEW t \in UsedSlots(pak) \ {save.slot}
      PROVE  /\ t \in UsedSlots(vol) /\ vol.dir[t] = pak.dir[t]
             /\ ChainOf(vol, t) = ChainOf(pak, t)
             /\ \A p \in ChainOf(pak, t) : p \notin Claimed /\ vol.fat[p] # FAT_FREE
  <2>1. t \in UsedSlots(vol) /\ vol.dir[t] = pak.dir[t]
    BY DEF OthersKept, UsedSlots
  <2>2. ChainOf(vol, t) = ChainOf(pak, t)
    BY <2>1, ChainLocal DEF OthersKept, ChainOf
  <2>3. ChainOf(vol, t) \cap Claimed = {}
    BY <1>1, <2>1 DEF ClaimedApart
  <2>4. ChainOf(vol, t) \subseteq DataPages \ FreePages(vol.fat)
    BY <1>1, <2>1 DEF ClaimedApart
  <2> QED
    BY <2>1, <2>2, <2>3, <2>4 DEF FreePages
<1> QED
  BY <1>1, <1>2

LEMMA ChainsOnThePak ==
  ASSUME TypeOK, SoundInv, KeptInv, pc = "store", on_pak
  PROVE  /\ OthersKept /\ StoredSoFar /\ call.kind = "write" /\ save.slot \in Slots
         /\ ClaimedChain /\ ClaimedApart /\ OthersWhole
         /\ \A t \in UsedSlots(pak) \ {save.slot} :
              /\ t \in UsedSlots(vol) /\ vol.dir[t] = pak.dir[t]
              /\ ChainOf(vol, t) = ChainOf(pak, t)
              /\ \A p \in ChainOf(pak, t) : p \notin Claimed /\ vol.fat[p] # FAT_FREE
<1>1. OthersKept /\ StoredSoFar
  BY DEF KeptInv
<1> QED
  BY <1>1, OthersApart

\* Claiming one more page, whatever the pak's pages hold, is no business of theirs.
LEMMA StoreOthers ==
  ASSUME TypeOK, SoundInv, OthersKept, StorePage
  PROVE  OthersKept'
<1> DEFINE p == PageToStore
<1>0. /\ vol \in Volumes /\ vol.fat \in Tables /\ pak \in Volumes
  BY DEF TypeOK, Volumes
<1>1. p \in DataPages /\ vol.fat[p] = FAT_FREE /\ pc = "store"
  BY StoringFacts DEF StorePage, Storing
<1>2. /\ vol'.fat = Claim(vol.fat, p) /\ vol'.dir = vol.dir
      /\ save'.slot = save.slot /\ save'.reuse = save.reuse
      /\ save'.first = IF save.got = 0 THEN p ELSE save.first
  BY <1>0 DEF StorePage, Volumes, TypeOK
<1>3. pak'.fat = pak.fat /\ pak'.dir = pak.dir
  BY <1>0 DEF StorePage, Volumes
<1> HIDE DEF p
<1>4. /\ ClaimedChain /\ ClaimedApart
      /\ \A t \in UsedSlots(pak) \ {save.slot} : \A q \in ChainOf(pak, t) :
           q \notin Claimed /\ vol.fat[q] # FAT_FREE
  BY <1>1, OthersApart
<1>5. \A q \in DataPages : q \notin Claimed \cup {p} => vol'.fat[q] = vol.fat[q]
  BY <1>1, <1>2, <1>4, ClaimGrows
<1>6. ASSUME NEW t \in UsedSlots(pak) \ {save.slot}, NEW q \in ChainOf(pak, t)
      PROVE  vol'.fat[q] = pak.fat[q]
  <2>1. q \in DataPages /\ q \notin Claimed \cup {p}
    BY <1>1, <1>4, <1>6, ChainFacts DEF ChainOf
  <2>2. vol.fat[q] = pak.fat[q]
    BY <1>6 DEF OthersKept
  <2> QED
    BY <1>5, <2>1, <2>2
<1>7. UsedSlots(pak') = UsedSlots(pak) /\ UsedSlots(vol') = UsedSlots(vol)
      /\ \A t : ChainOf(pak', t) = ChainOf(pak, t)
  BY <1>2, <1>3 DEF UsedSlots, ChainOf
<1> QED
  BY <1>2, <1>3, <1>6, <1>7 DEF OthersKept

LEMMA StoreKept ==
  ASSUME TypeOK, CacheInv, SoundInv, KeptInv, StorePage
  PROVE  KeptInv'
<1> DEFINE p == PageToStore
           d == call.buf[save.got + 1]
<1>0. /\ vol \in Volumes /\ vol.fat \in Tables /\ pak \in Volumes /\ save.got \in Nat
      /\ pak.data \in [DataPages -> Data \cup {Blank, Torn}]
  BY DEF TypeOK, Volumes
<1>1. p \in DataPages /\ vol.fat[p] = FAT_FREE /\ pc = "store" /\ d \in Data
  BY StoringFacts DEF StorePage, Storing
<1>2. /\ vol'.fat = Claim(vol.fat, p) /\ vol'.dir = vol.dir /\ vol'.head = vol.head
      /\ UNCHANGED <<state, on_pak, call, pc, res>>
      /\ save'.got = save.got + 1 /\ save'.prev = p /\ save'.slot = save.slot
      /\ save'.reuse = save.reuse
      /\ save'.first = IF save.got = 0 THEN p ELSE save.first
  BY <1>0 DEF StorePage, Volumes, TypeOK
<1>3. pak'.head = pak.head /\ pak'.fat = pak.fat /\ pak'.dir = pak.dir
  BY <1>0 DEF StorePage, Volumes
<1>4. Unharmed' /\ CommitIsAsked'
  BY <1>1, <1>2, <1>3 DEF KeptInv, Unharmed, CommitIsAsked, Readable, checksum
<1>5. CASE on_pak
  <2>1. pak'.data = [pak.data EXCEPT ![p] = d]
    BY <1>0, <1>5 DEF StorePage, Volumes
  <2> HIDE DEF p, d
  <2>2. /\ OthersKept /\ StoredSoFar /\ ClaimedChain /\ ClaimedApart
        /\ \A t \in UsedSlots(pak) \ {save.slot} : \A q \in ChainOf(pak, t) :
             q \notin Claimed /\ vol.fat[q] # FAT_FREE
    BY <1>1, <1>5, ChainsOnThePak
  <2>3. /\ Claimed' = Claimed \cup {p} /\ p \notin Claimed
        /\ \A q \in DataPages : q \notin Claimed \cup {p} => vol'.fat[q] = vol.fat[q]
    BY <1>1, <1>2, <2>2, ClaimGrows DEF Claimed
  <2>4. OthersKept'
    BY <2>2, StoreOthers
  <2>5. /\ \A i \in 1 .. save.got :
             /\ PageAt(vol'.fat, save'.first, i) = PageAt(vol.fat, save.first, i)
             /\ PageAt(vol.fat, save.first, i) \in Claimed
        /\ PageAt(vol'.fat, save'.first, save.got + 1) = p
    <3>1. CASE save.got = 0
      BY <1>2, <3>1, PageAtSteps
    <3>2. CASE save.got # 0
      <4>1. /\ save.first \in DataPages /\ save.prev \in Claimed
            /\ vol.fat[save.prev] = FAT_END /\ Cardinality(Claimed) = save.got
            /\ PageAt(vol.fat, save.first, save.got) = save.prev
        BY <2>2, <3>2 DEF ClaimedChain, StoredSoFar
      <4>2. Claimed \subseteq DataPages
        BY ChainFacts DEF Claimed
      <4>3. vol'.fat[save.prev] = p
        BY <1>0, <1>1, <1>2, <2>3, <3>2, <4>1, <4>2 DEF Claim, Tables
      <4>4. \A q \in Claimed : q # save.prev => vol'.fat[q] = vol.fat[q]
        BY <1>0, <1>1, <1>2, <2>3, <3>2, <4>1, <4>2 DEF Claim, Tables
      <4>5. \A i \in 1 .. save.got : PageAt(vol.fat, save.first, i) \in Claimed
        BY <1>0, <4>1, PagesOfChain DEF Claimed
      <4> DEFINE f == vol.fat  g == vol'.fat  n == save.got  last == save.prev
      <4>6. /\ n \in Nat \ {0} /\ n = Cardinality(Chain(f, save.first))
            /\ last \in Chain(f, save.first) /\ f[last] = FAT_END
            /\ PageAt(f, save.first, n) = last /\ g[last] = p
            /\ \A q \in Chain(f, save.first) : q # last => g[q] = f[q]
        BY <1>0, <3>2, <4>1, <4>3, <4>4 DEF Claimed
      <4> HIDE DEF f, g, n, last
      <4>7. /\ \A i \in 1 .. n : PageAt(g, save.first, i) = PageAt(f, save.first, i)
            /\ PageAt(g, save.first, n + 1) = p
        BY <1>1, <4>1, <4>6, NextPage
      <4> QED
        BY <1>2, <3>2, <4>5, <4>7 DEF f, g, n
    <3> QED
      BY <3>1, <3>2
  <2>6. ASSUME NEW i \in 1 .. save'.got
        PROVE  pak'.data[PageAt(vol'.fat, save'.first, i)] = call'.buf[i]
    <3>1. CASE i = save.got + 1
      BY <1>0, <1>1, <1>2, <2>1, <2>5, <3>1 DEF d
    <3>2. CASE i # save.got + 1
      <4>1. i \in 1 .. save.got
        BY <1>0, <1>2, <3>2
      <4>2. /\ PageAt(vol'.fat, save'.first, i) = PageAt(vol.fat, save.first, i)
            /\ PageAt(vol.fat, save.first, i) \in DataPages \ {p}
        BY <2>3, <2>5, <4>1, ChainFacts DEF Claimed
      <4>3. pak.data[PageAt(vol.fat, save.first, i)] = call.buf[i]
        BY <2>2, <4>1 DEF StoredSoFar
      <4> QED
        BY <1>0, <1>2, <2>1, <4>2, <4>3
    <3> QED
      BY <3>1, <3>2
  <2>7. StoredSoFar'
    BY <1>2, <2>5, <2>6 DEF StoredSoFar
  <2> QED
    BY <1>4, <2>4, <2>7 DEF KeptInv
<1>6. CASE ~on_pak
  BY <1>2, <1>4, <1>6 DEF KeptInv
<1> QED
  BY <1>5, <1>6

\* Nothing of vol is changed by storing it.
LEMMA CommitStepKept ==
  ASSUME TypeOK, CacheInv, SoundInv, KeptInv, CommitBlock \/ CommitFails \/ CommitDone
  PROVE  KeptInv'
<1>0. /\ pak \in Volumes /\ vol \in Volumes /\ pc = "commit" /\ vol' = vol
      /\ vol.head.magic = "ours" /\ res # "ok"
      /\ vol.head.sum = checksum(vol) /\ SameBlocks(pak, vol, blk)
  BY DEF TypeOK, CommitBlock, CommitFails, CommitDone, Committing, cache, KeptInv, Unharmed,
         CommitIsAsked, SoundInv, CommittedSound, CacheInv, StoredBlocks
<1>1. CASE CommitBlock
  <2>1. pak'.data = pak.data /\ pc' = "commit" /\ UNCHANGED <<call, purpose, res>>
    BY <1>0, <1>1, CopyBlocksType DEF CommitBlock
  <2>2. purpose = "save" => Done([vol EXCEPT !.data = pak.data])'
    BY <1>0, <2>1 DEF KeptInv, CommitIsAsked, Done
  <2> QED
    BY <1>0, <2>1, <2>2 DEF KeptInv, Unharmed, CommitIsAsked
<1>2. CASE CommitFails
  <2>1. \/ pc' = "mount" /\ res' = "EIO"
        \/ pc' = "idle" /\ state' = "NOANSWER"
        \/ pc' \in {"idle", "body"} /\ state' = "UNFORMATTED" /\ res' = res
    BY <1>0, <1>2 DEF CommitFails, Return, TypeOK
  <2> QED
    BY <1>0, <2>1 DEF KeptInv, Unharmed, CommitIsAsked
<1>3. CASE CommitDone
  <2>1. pak' = pak /\ (pc' = "idle" \/ (pc' = "body" /\ res' = res))
    BY <1>3 DEF CommitDone, Return, device, TypeOK
  <2>2. pak.head = vol.head /\ pak.fat = vol.fat /\ pak.dir = vol.dir
    BY <1>0, <1>3, SameBlocksEnd DEF CommitDone
  <2>3. Readable(pak')
    BY <1>0, <2>1, <2>2 DEF Readable, checksum
  <2> QED
    BY <1>0, <2>1, <2>3 DEF KeptInv, Unharmed, CommitIsAsked
<1> QED
  BY <1>1, <1>2, <1>3

LEMMA WorldKept ==
  ASSUME TypeOK, KeptInv, World \/ (\E c \in Calls : Call(c)) \/ StorePageFails
  PROVE  KeptInv'
<1>1. CASE Identify \/ Pull \/ Insert
  <2>1. UNCHANGED <<pak, vol, state, on_pak, call, pc, save, purpose, res>>
    BY <1>1 DEF Identify, Pull, Insert, cache, flow
  <2> QED
    BY <2>1 DEF KeptInv, Unharmed, CommitIsAsked, OthersKept, StoredSoFar, Done
<1>2. CASE PowerFail
  <2>1. state' = "NONE" /\ pc' = "mount" /\ res' = "none"
    BY <1>2 DEF PowerFail, Boot
  <2> QED
    BY <2>1 DEF KeptInv, Unharmed, CommitIsAsked
<1>3. CASE \E c \in Calls : Call(c)
  BY <1>3, ReturnKept DEF Call, device, cache
<1>4. CASE StorePageFails
  <2>1. vol'.head = vol.head /\ state' = state /\ pc' = "mount" /\ res' = "EIO"
    BY <1>4 DEF StorePageFails, TypeOK, Volumes
  <2>2. state = "PAK" => vol.head.magic = "ours"
    BY DEF KeptInv, Unharmed
  <2> QED
    BY <2>1, <2>2 DEF KeptInv, Unharmed, CommitIsAsked
<1> QED
  BY <1>1, <1>2, <1>3, <1>4 DEF World

LEMMA NextKept == TypeOK /\ CacheInv /\ SoundInv /\ KeptInv /\ [Next]_vars => KeptInv'
<1>1. ASSUME TypeOK, CacheInv, SoundInv, KeptInv, Next
      PROVE  KeptInv'
  BY <1>1, LookKept, DeleteKept, RenameKept, FinishKept, WriteCallKept,
     StoreKept, CommitStepKept, WorldKept, Zenon
  DEF Next, Step
<1>2. ASSUME KeptInv, UNCHANGED vars
      PROVE  KeptInv'
  BY <1>2
  DEF vars, KeptInv, Unharmed, CommitIsAsked, OthersKept, StoredSoFar, Done
<1> QED
  BY <1>1, <1>2

\* At every step of every call, with whatever has failed before it: the copy in RAM is
\* what it stands for, it and the pak are as sound as this stage of a save allows, and
\* the pak holds what was on it and what has been stored.
THEOREM SaveInvariant == Spec => []SaveInv
<1>1. TypeOK /\ CacheInv /\ SoundInv /\ KeptInv /\ [Next]_vars => KeptInv'
  BY NextKept
<1>2. CacheInv /\ SoundInv /\ KeptInv => SaveInv
  BY DEF SaveInv
<1> QED
  BY <1>1, <1>2, InitKept, TypeCorrect, CacheInvariant, SoundInvariant, PTL DEF Spec

-----------------------------------------------------------------------------
(* PakFS implements FileStore.                                             *)

Promised == [Promise!Next]_(Promise!svars)

\* Nothing that FileStore speaks of has changed.
LEMMA QuietStep ==
  ASSUME pak' = pak, pc # "commit", pc' # "commit", GivenUp' = GivenUp
  PROVE  Promised
<1>1. Intended' = Intended /\ Files' = Files /\ Readable(pak)' = Readable(pak)
  BY DEF Intended, Files
<1> QED
  BY <1>1 DEF Promised, Promise!svars

\* One file changed, and no other.
LEMMA OneFile ==
  ASSUME NEW v, NEW w, NEW n \in Names,
         \A m \in Names : m # n => FileOn(w, m) = FileOn(v, m)
  PROVE  FilesOn(w) = [FilesOn(v) EXCEPT ![n] = FileOn(w, n)]
BY DEF FilesOn

\* A change of the directory begins with what the pak holds.
LEMMA CommitBegins ==
  ASSUME TypeOK, CacheInv, SoundInv, KeptInv, NEW v \in Volumes, Commit(v, "save"),
         on_pak, Mounted, pc \in {"body", "store"}, pak' = pak
  PROVE  /\ Readable(pak) /\ Sound(pak) /\ Files = FilesOn(pak) /\ state = "PAK"
         /\ Intended = Nothing /\ GivenUp' = NoName
         /\ Readable(pak)' = Readable(pak) /\ Files' = Files
         /\ Intended' = FilesOn([v EXCEPT !.data = pak.data])
<1>1. state = "PAK"
  BY DEF Mounted, CacheInv, OnThePak
<1>2. Readable(pak) /\ Sound(pak)
  BY <1>1 DEF KeptInv, Unharmed, SoundInv, ReadablePakIsSound
<1>3. vol' = Stamped(v) /\ pc' = "commit"
  BY DEF Commit
<1> DEFINE x == [v EXCEPT !.data = pak.data]
           y == [vol' EXCEPT !.data = pak'.data]
<1>4. x.fat = y.fat /\ x.dir = y.dir /\ x.data = y.data
  <2>1. vol' \in Volumes /\ vol'.fat = v.fat /\ vol'.dir = v.dir
    BY <1>3, StampedType
  <2> QED
    BY <2>1 DEF Volumes
<1>5. Intended' = FilesOn(y)
  BY <1>3 DEF Intended
<1> HIDE DEF x, y
<1>6. FilesOn(x) = FilesOn(y)
  BY <1>4, SameFile DEF FilesOn
<1> QED
  BY <1>1, <1>2, <1>3, <1>5, <1>6 DEF Files, Intended, GivenUp, x

\* What a file is on x, and on the pak v whose directory x is a change of.  x is v
\* without the file n of slot s.
Without(v, s, n, x) ==
  /\ v.dir[s].name = n /\ x.fat = free_chain(v.fat, v.dir[s].first) /\ x.data = v.data
  /\ x.dir[s] = NoEntry /\ \A t \in Slots : t # s => x.dir[t] = v.dir[t]

\* The one that was deleted is gone, and the others are what they were.
LEMMA OthersDelete ==
  ASSUME NEW v \in Volumes, Sound(v), NEW s \in Slots, NEW n \in Names,
         NEW x, Without(v, s, n, x)
  PROVE  /\ SlotsOf(x, n) = {} /\ SlotsOf(v, n) = {s}
         /\ \A m \in Names : m # n => FileOn(x, m) = FileOn(v, m)
<1>0. v.fat \in Tables /\ v.dir \in Dirs
  BY DEF Volumes
<1>0a. /\ v.dir[s].name = n /\ x.fat = free_chain(v.fat, v.dir[s].first) /\ x.data = v.data
      /\ \A t \in Slots : x.dir[t] = IF t = s THEN NoEntry ELSE v.dir[t]
  BY DEF Without
<1>1. s \in UsedSlots(v) /\ SlotsOf(v, n) = {s}
  BY <1>0a, VolumeAssumption DEF UsedSlots, Sound, SizesRight
<1>2. SlotsOf(x, n) = {}
  BY <1>0, <1>0a, <1>1, VolumeAssumption DEF SlotsOf, Dirs, NoEntry
<1>3. ASSUME NEW m \in Names, m # n
      PROVE  FileOn(x, m) = FileOn(v, m)
  <2>1. SlotsOf(x, m) = SlotsOf(v, m)
    BY <1>0, <1>0a, <1>3, VolumeAssumption DEF SlotsOf, Dirs, NoEntry
  <2>2. ASSUME NEW t \in SlotsOf(v, m)
        PROVE  /\ x.dir[t].size = v.dir[t].size /\ x.dir[t].first = v.dir[t].first
               /\ \A p \in ChainOf(v, t) : x.fat[p] = v.fat[p] /\ x.data[p] = v.data[p]
    <3>1. t # s /\ t \in Slots /\ t \in UsedSlots(v)
      BY <1>0a, <1>3, VolumeAssumption DEF SlotsOf, UsedSlots
    <3>2. ChainOf(v, t) \cap ChainOf(v, s) = {} /\ ChainOf(v, t) \subseteq DataPages
      BY <1>1, <3>1, ChainFacts DEF Sound, NoCrossLinks, ChainOf
    <3>3. \A p \in ChainOf(v, t) : x.fat[p] = v.fat[p]
      BY <1>0a, <3>2 DEF free_chain, ChainOf
    <3> QED
      BY <1>0, <1>0a, <3>1, <3>3 DEF Dirs
  <2> QED
    BY <2>1, <2>2, OtherFile DEF Sound
<1> QED
  BY <1>1, <1>2, <1>3

\* The one that was renamed is there by its new name.
LEMMA OthersRename ==
  ASSUME NEW v \in Volumes, Sound(v), NEW s \in UsedSlots(v), NEW n \in Names,
         NEW to \in Names, SlotsOf(v, n) = {s}, to # n => SlotsOf(v, to) = {},
         NEW x, x.fat = v.fat, x.data = v.data, x.dir[s].name = to,
         \A t \in Slots : /\ t # s => x.dir[t] = v.dir[t]
                         /\ x.dir[t].size = v.dir[t].size
                         /\ x.dir[t].first = v.dir[t].first
  PROVE  /\ SlotsOf(x, to) = {s} /\ (to # n => SlotsOf(x, n) = {})
         /\ FileOn(x, to) = FileOn(v, n)
         /\ \A m \in Names : m # n /\ m # to => FileOn(x, m) = FileOn(v, m)
<1>2. v.dir[s].name = n /\ s \in Slots
  BY DEF SlotsOf
<1>3. SlotsOf(x, to) = {s} /\ (to # n => SlotsOf(x, n) = {})
  BY <1>2 DEF SlotsOf
<1>4. FileOn(x, to) = FileOn(v, n)
  <2>1. FileOn(v, n) = <<"file", FileContent(v, s)>> /\ Min({s}) = s
    BY SlotOfFile DEF Sound
  <2>2. Cardinality(ChainOf(v, s)) = v.dir[s].size
    BY DEF Sound, SizesRight
  <2>3. FileContent(x, s) = FileContent(v, s)
    BY <1>2, <2>2, SameContent
  <2> QED
    BY <1>3, <2>1, <2>3 DEF FileOn
<1>5. ASSUME NEW m \in Names, m # n, m # to
      PROVE  FileOn(x, m) = FileOn(v, m)
  <2>1. SlotsOf(x, m) = SlotsOf(v, m)
    BY <1>2, <1>5 DEF SlotsOf
  <2>2. \A t \in SlotsOf(v, m) : t \in Slots
    BY DEF SlotsOf
  <2> QED
    BY <2>1, <2>2, OtherFile DEF Sound
<1> QED
  BY <1>3, <1>4, <1>5

\* And what is saved is saved beside the others.
LEMMA OthersFinish ==
  ASSUME TypeOK, SoundInv, OthersKept, FinishWrite, Sound(pak),
         NEW x, x.fat = Finished.fat, x.dir = Finished.dir, x.data = pak.data
  PROVE  \A m \in Names : m # call.name => FileOn(x, m) = FileOn(pak, m)
<1> DEFINE n == call.name
           slot == save.slot
<1>0. /\ vol \in Volumes /\ vol.dir \in Dirs /\ pak \in Volumes /\ pc = "store"
  BY DEF TypeOK, Volumes, FinishWrite
<1>1. /\ n \in Names /\ slot \in Slots
      /\ Finished.fat = IF slot \in UsedSlots(vol)
                        THEN free_chain(vol.fat, vol.dir[slot].first) ELSE vol.fat
      /\ Finished.dir = [vol.dir EXCEPT ![slot] = NewEntry]
  BY FinishFacts
<1>2. /\ OthersWhole /\ ClaimedApart
      /\ \A t \in UsedSlots(pak) \ {slot} :
            /\ t \in UsedSlots(vol) /\ vol.dir[t] = pak.dir[t]
            /\ ChainOf(vol, t) = ChainOf(pak, t)
  BY <1>0, OthersApart
<1>3. \A t \in Slots : x.dir[t] = IF t = slot THEN NewEntry ELSE vol.dir[t]
  BY <1>0, <1>1 DEF Dirs
<1>4. NewEntry.name = n /\ pak.dir[slot].name \in {n, NoName}
  <2>1. vol.dir[slot].name = pak.dir[slot].name
    BY <1>1 DEF OthersKept
  <2>2. slot \in UsedSlots(vol) => vol.dir[slot].name = n
    BY <1>2 DEF OthersWhole, SlotsOf
  <2> QED
    BY <1>1, <2>1, <2>2 DEF NewEntry, UsedSlots
<1>5. ASSUME NEW m \in Names, m # n
      PROVE  FileOn(x, m) = FileOn(pak, m)
  <2>1. SlotsOf(x, m) = SlotsOf(pak, m)
    BY <1>1, <1>3, <1>4, <1>5, VolumeAssumption DEF SlotsOf, OthersKept
  <2>2. ASSUME NEW t \in SlotsOf(pak, m)
        PROVE  /\ x.dir[t].size = pak.dir[t].size /\ x.dir[t].first = pak.dir[t].first
               /\ \A p \in ChainOf(pak, t) : x.fat[p] = pak.fat[p] /\ x.data[p] = pak.data[p]
    <3>1. t # slot /\ t \in Slots /\ t \in UsedSlots(pak)
      BY <1>4, <1>5, VolumeAssumption DEF SlotsOf, UsedSlots
    <3>2. /\ t \in UsedSlots(vol) /\ vol.dir[t] = pak.dir[t]
          /\ ChainOf(vol, t) = ChainOf(pak, t)
          /\ \A p \in ChainOf(pak, t) : vol.fat[p] = pak.fat[p]
      BY <1>2, <3>1 DEF OthersKept
    <3>3. ChainOf(pak, t) \subseteq DataPages
      BY ChainFacts DEF ChainOf
    <3>4. slot \in UsedSlots(vol) => ChainOf(pak, t) \cap ChainOf(vol, slot) = {}
      BY <1>2, <3>1, <3>2 DEF ClaimedApart, NoCrossLinks
    <3>5. \A p \in ChainOf(pak, t) : x.fat[p] = vol.fat[p]
      BY <1>1, <3>3, <3>4 DEF free_chain, ChainOf
    <3> QED
      BY <1>3, <3>1, <3>2, <3>5
  <2> QED
    BY <1>0, <2>1, <2>2, OtherFile DEF Sound
<1> QED
  BY <1>5

LEMMA DeletePromised ==
  ASSUME TypeOK, CacheInv, SoundInv, KeptInv, DeleteCall
  PROVE  Promised
<1>0. /\ vol \in Volumes /\ vol.fat \in Tables /\ vol.dir \in Dirs /\ pak \in Volumes
      /\ pc = "body" /\ pak' = pak /\ call.kind = "delete"
  BY DEF TypeOK, Volumes, DeleteCall, device
<1>1. CASE pc' = "idle"
  BY <1>0, <1>1, QuietStep DEF GivenUp
<1>2. ASSUME pc' # "idle", NEW s \in Find(call.name),
             Commit([vol EXCEPT !.fat = free_chain(@, vol.dir[s].first),
                                !.dir = [@ EXCEPT ![s] = NoEntry]], "save")
      PROVE  Promised
  <2> DEFINE v == [vol EXCEPT !.fat = free_chain(@, vol.dir[s].first),
                              !.dir = [@ EXCEPT ![s] = NoEntry]]
             x == [v EXCEPT !.data = pak.data]
             n == call.name
  <2>1. NoEntry \in Entries
    BY DEF NoEntry, Entries, Links
  <2>2. v \in Volumes
    BY <1>0, <2>1, FreeChainType, SetEntryType, NewMetaType
  <2>3. v.fat = free_chain(vol.fat, vol.dir[s].first) /\ v.dir = [vol.dir EXCEPT ![s] = NoEntry]
    BY <1>0 DEF Volumes
  <2>4. Commit(v, "save")
    BY <1>2, Zenon
  <2> HIDE DEF v
  <2>5. x.fat = v.fat /\ x.dir = v.dir /\ x.data = pak.data
    BY <2>2 DEF Volumes
  <2>6. on_pak
    BY <1>2, <2>4 DEF Commit, Return
  <2>7. n \in Names /\ n # NoName /\ Mounted /\ s \in Slots /\ vol.dir[s].name = n
    BY <1>0, ChangingCall, FindFacts DEF TypeOK, Changing
  <2>8. /\ Readable(pak) /\ Sound(pak) /\ Files = FilesOn(pak) /\ state = "PAK"
        /\ Intended = Nothing /\ GivenUp' = NoName
        /\ Readable(pak)' = Readable(pak) /\ Files' = Files
        /\ Intended' = FilesOn(x)
    BY <1>0, <2>2, <2>4, <2>6, <2>7, CommitBegins
  <2>9. vol.fat = pak.fat /\ vol.dir = pak.dir
    BY <1>0, <2>8 DEF CacheInv, MountedCopy
  <2> HIDE DEF x
  <2>9a. Without(pak, s, n, x)
    BY <1>0, <2>3, <2>5, <2>7, <2>9 DEF Dirs, Without
  <2>10. /\ SlotsOf(x, n) = {} /\ SlotsOf(pak, n) = {s}
         /\ \A m \in Names : m # n => FileOn(x, m) = FileOn(pak, m)
    BY <1>0, <2>7, <2>8, <2>9a, OthersDelete
  <2>11. FileOn(x, n) = <<"none">> /\ FileOn(pak, n) # <<"none">>
    BY <2>10 DEF FileOn
  <2>13. Intended' = [Files EXCEPT ![n] = <<"none">>]
    BY <2>7, <2>8, <2>10, <2>11, OneFile
  <2>14. Files[n] # <<"none">> /\ GivenUp = NoName
    BY <1>0, <2>7, <2>8, <2>11 DEF FilesOn, GivenUp
  <2>15. Promise!Begin
    BY <2>7, <2>8, <2>13, <2>14 DEF Promise!Begin, Promise!Deleted
  <2> QED
    BY <2>15 DEF Promised, Promise!Next
<1> QED
  BY <1>1, <1>2, Zenon DEF DeleteCall, Return

LEMMA RenamePromised ==
  ASSUME TypeOK, CacheInv, SoundInv, KeptInv, RenameCall
  PROVE  Promised
<1>0. /\ vol \in Volumes /\ vol.fat \in Tables /\ vol.dir \in Dirs /\ pak \in Volumes
      /\ pc = "body" /\ pak' = pak /\ call.kind = "rename"
  BY DEF TypeOK, Volumes, RenameCall, device
<1>1. CASE pc' = "idle"
  BY <1>0, <1>1, QuietStep DEF GivenUp
<1>2. ASSUME pc' # "idle", RenameCheck(call.name, call.to) = "ok", NEW s \in Find(call.name),
             Commit([vol EXCEPT !.dir = [@ EXCEPT ![s].name = call.to]], "save")
      PROVE  Promised
  <2> DEFINE v == [vol EXCEPT !.dir = [@ EXCEPT ![s].name = call.to]]
             x == [v EXCEPT !.data = pak.data]
             n == call.name
             to == call.to
  <2>1. v \in Volumes
    BY <1>0, CallFields, EntryFieldType, NewMetaType DEF TypeOK
  <2>2. v.fat = vol.fat /\ v.dir = [vol.dir EXCEPT ![s].name = to]
    BY <1>0 DEF Volumes
  <2>3. Commit(v, "save")
    BY <1>2, Zenon
  <2> HIDE DEF v
  <2>4. x.fat = v.fat /\ x.dir = v.dir /\ x.data = pak.data
    BY <2>1 DEF Volumes
  <2>5. on_pak
    BY <1>2, <2>3 DEF Commit, Return
  <2>6. /\ Mounted /\ s \in UsedSlots(vol)
        /\ n \in Names /\ to \in Names /\ SlotsOf(vol, n) = {s}
        /\ to # n => SlotsOf(vol, to) = {}
    BY <1>0, <1>2, RenameFacts
  <2>7. /\ Readable(pak) /\ Sound(pak) /\ Files = FilesOn(pak) /\ state = "PAK"
        /\ Intended = Nothing /\ GivenUp' = NoName
        /\ Readable(pak)' = Readable(pak) /\ Files' = Files
        /\ Intended' = FilesOn(x)
    BY <1>0, <2>1, <2>3, <2>5, <2>6, CommitBegins
  <2>8. vol.fat = pak.fat /\ vol.dir = pak.dir
    BY <1>0, <2>7 DEF CacheInv, MountedCopy
  <2> HIDE DEF x
  <2>9. s \in UsedSlots(pak) /\ SlotsOf(pak, n) = {s} /\ (to # n => SlotsOf(pak, to) = {})
    BY <2>6, <2>8 DEF SlotsOf, UsedSlots
  <2>9a. /\ x.fat = pak.fat /\ x.data = pak.data /\ x.dir[s].name = to
         /\ \A t \in Slots : /\ t # s => x.dir[t] = pak.dir[t]
                            /\ x.dir[t].size = pak.dir[t].size
                            /\ x.dir[t].first = pak.dir[t].first
    BY <1>0, <2>2, <2>4, <2>6, <2>8 DEF Dirs, Entries, UsedSlots
  <2>10. /\ SlotsOf(x, to) = {s} /\ (to # n => SlotsOf(x, n) = {})
         /\ FileOn(x, to) = FileOn(pak, n)
         /\ \A m \in Names : m # n /\ m # to => FileOn(x, m) = FileOn(pak, m)
    BY <1>0, <2>6, <2>7, <2>9, <2>9a, OthersRename
  <2>15. to # n => FileOn(x, n) = <<"none">> /\ FileOn(pak, to) = <<"none">>
    BY <2>9, <2>10 DEF FileOn
  <2>17. Intended' = [[Files EXCEPT ![n] = <<"none">>] EXCEPT ![to] = Files[n]]
    <3> DEFINE new == [[FilesOn(pak) EXCEPT ![n] = <<"none">>] EXCEPT ![to] = FilesOn(pak)[n]]
    <3>1. FilesOn(pak)[n] = FileOn(pak, n)
      BY <2>6 DEF FilesOn
    <3>2. \A m \in Names : FilesOn(x)[m] = new[m]
      BY <2>6, <2>10, <2>15, <3>1 DEF FilesOn
    <3>3. FilesOn(x) = new
      BY <3>2 DEF FilesOn
    <3> QED
      BY <2>7, <3>3
  <2>18. Files[n] # <<"none">> /\ (Files[to] = <<"none">> \/ to = n) /\ GivenUp = NoName
    <3>1. FileOn(pak, n) # <<"none">>
      BY <2>9 DEF FileOn
    <3> QED
      BY <1>0, <2>6, <2>7, <2>15, <3>1 DEF FilesOn, GivenUp
  <2>19. Promise!Begin
    BY <2>6, <2>7, <2>17, <2>18 DEF Promise!Begin, Promise!Renamed
  <2> QED
    BY <2>19 DEF Promised, Promise!Next
<1> QED
  BY <1>1, <1>2, Zenon DEF RenameCall, Return

LEMMA FinishPromised ==
  ASSUME TypeOK, CacheInv, SoundInv, KeptInv, FinishWrite
  PROVE  Promised
<1>0. /\ vol \in Volumes /\ vol.fat \in Tables /\ vol.dir \in Dirs /\ pak \in Volumes
      /\ pc = "store" /\ pak' = pak /\ Commit(Finished, "save") /\ Mounted
      /\ UNCHANGED <<on_pak, state>>
  BY DEF TypeOK, Volumes, FinishWrite, device, CacheInv, OnThePak
<1>1. CASE ~on_pak
  BY <1>0, <1>1, QuietStep DEF GivenUp, Commit, Return
<1>2. CASE on_pak
  <2> DEFINE n == call.name
             slot == save.slot
             x == [Finished EXCEPT !.data = pak.data]
  <2>1. /\ call.kind = "write" /\ n \in Names /\ slot \in Slots
        /\ save.got = Len(call.buf)
        /\ Finished \in Volumes /\ Sound(Finished)
        /\ Finished.fat = IF slot \in UsedSlots(vol)
                          THEN free_chain(vol.fat, vol.dir[slot].first) ELSE vol.fat
        /\ Finished.dir = [vol.dir EXCEPT ![slot] = NewEntry]
    BY FinishFacts
  <2>2. x.fat = Finished.fat /\ x.dir = Finished.dir /\ x.data = pak.data
    BY <2>1 DEF Volumes
  <2>3. /\ Readable(pak) /\ Sound(pak) /\ Files = FilesOn(pak) /\ state = "PAK"
        /\ Intended = Nothing /\ GivenUp' = NoName
        /\ Readable(pak)' = Readable(pak) /\ Files' = Files
        /\ Intended' = FilesOn(x)
    BY <1>0, <1>2, <2>1, CommitBegins
  <2>4. /\ OthersKept /\ OthersWhole /\ ClaimedApart /\ ClaimedChain
        /\ \A t \in UsedSlots(pak) \ {slot} :
              /\ t \in UsedSlots(vol) /\ vol.dir[t] = pak.dir[t]
              /\ ChainOf(vol, t) = ChainOf(pak, t)
    BY <1>0, <1>2, ChainsOnThePak
  <2>5. FileOn(x, n) = <<"file", call.buf>>
    <3>1. KeptInv' /\ pc' = "commit" /\ purpose' = "save" /\ call' = call
      BY <1>0, <1>2, FinishKept DEF Commit
    <3>2. Done([vol EXCEPT !.data = pak.data])'
      BY <3>1 DEF KeptInv, CommitIsAsked
    <3>3. Intended'[n] = <<"file", call.buf>>
      BY <2>1, <3>1, <3>2 DEF Done, Intended, FilesOn
    <3> QED
      BY <2>1, <2>3, <3>3 DEF FilesOn
  <2> HIDE DEF x
  <2>6. \A t \in Slots : x.dir[t] = IF t = slot THEN NewEntry ELSE vol.dir[t]
    BY <1>0, <2>1, <2>2 DEF Dirs
  <2>8. \A m \in Names : m # n => FileOn(x, m) = FileOn(pak, m)
    BY <2>2, <2>3, <2>4, OthersFinish
  <2>9. <<"file", call.buf>> \in Versions
    <3>1. call.buf \in Seq(Data) /\ Len(call.buf) \in Nat
      BY CallFields DEF TypeOK
    <3>2. call.buf \in [1 .. Len(call.buf) -> Data \cup {Blank, Torn}]
      BY <3>1
    <3>3. Len(call.buf) \in 0 .. fs_capacity
      <4>1. slot \in UsedSlots(Finished) /\ Finished.dir[slot].size = Len(call.buf)
        BY <1>0, <2>1, <2>2, <2>6, VolumeAssumption DEF UsedSlots, NewEntry
      <4>2. Cardinality(ChainOf(Finished, slot)) = Finished.dir[slot].size
        BY <2>1, <4>1 DEF Sound, SizesRight
      <4>3. Finished.dir[slot].size \in 0 .. fs_capacity
        BY <2>1, <4>2, ContentType
      <4> QED
        BY <4>1, <4>3
    <3> QED
      BY <3>2, <3>3 DEF Versions
  <2>10. Intended' = [Files EXCEPT ![n] = <<"file", call.buf>>]
    BY <2>1, <2>3, <2>5, <2>8, OneFile
  <2>11. GivenUp \in {NoName, n}
    BY DEF GivenUp
  <2>12. Promise!Begin
    BY <2>1, <2>3, <2>9, <2>10, <2>11 DEF Promise!Begin, Promise!Saved
  <2> QED
    BY <2>12 DEF Promised, Promise!Next
<1> QED
  BY <1>1, <1>2

LEMMA WriteCallPromised ==
  ASSUME TypeOK, CacheInv, SoundInv, KeptInv, WriteCall
  PROVE  Promised
<1> DEFINE n == call.name
<1>0. pc = "body" /\ pc' = "store" /\ UNCHANGED <<pak, on_pak, call, state>>
  BY DEF WriteCall, device
<1>1. /\ Mounted /\ Sound(vol) /\ n \in Names
      /\ save'.reuse => Find(n) # {}
  BY ReuseFacts
<1>2. CASE ~on_pak \/ ~save'.reuse
  BY <1>0, <1>2, QuietStep DEF GivenUp
<1>3. CASE on_pak /\ save'.reuse
  <2>1. state = "PAK"
    BY <1>0, <1>1, <1>3 DEF Mounted, CacheInv, OnThePak
  <2>2. vol.dir = pak.dir /\ Readable(pak)
    BY <1>0, <2>1 DEF CacheInv, MountedCopy, KeptInv, Unharmed
  <2>3. FileOn(pak, n) # <<"none">>
    <3>1. PICK s \in Find(n) : s \in Slots /\ vol.dir[s].name = n
      BY <1>1, <1>3, FindFacts
    <3>2. SlotsOf(pak, n) # {}
      BY <2>2, <3>1 DEF SlotsOf
    <3> QED
      BY <3>2 DEF FileOn
  <2>4. /\ Files = FilesOn(pak) /\ Files' = Files /\ Readable(pak)' = Readable(pak)
        /\ Intended = Nothing /\ Intended' = Nothing
        /\ GivenUp = NoName /\ GivenUp' = n
    BY <1>0, <1>3, <2>2 DEF Files, Intended, GivenUp
  <2>5. Files[n] # <<"none">>
    BY <1>1, <2>3, <2>4 DEF FilesOn
  <2>6. Promise!GiveUp(n)
    BY <2>2, <2>4, <2>5 DEF Promise!GiveUp
  <2> QED
    BY <1>1, <2>6 DEF Promised, Promise!Next
<1> QED
  BY <1>2, <1>3

\* What is stored in a page that is free is in no other file.
LEMMA PagePromised ==
  ASSUME TypeOK, CacheInv, SoundInv, KeptInv, pc = "store", on_pak, pc' # "commit",
         NEW p \in DataPages, vol.fat[p] = FAT_FREE,
         NEW x \in Data \cup {Blank, Torn},
         pak' = [pak EXCEPT !.data = [@ EXCEPT ![p] = x]],
         GivenUp' \in {GivenUp, NoName}
  PROVE  Promised
<1> DEFINE n == call.name
           slot == save.slot
<1>0. pak \in Volumes /\ call \in Calls \cup {NoCall} /\ pak' \in Volumes
  BY DataType DEF TypeOK
<1>1. /\ pak'.head = pak.head /\ pak'.fat = pak.fat /\ pak'.dir = pak.dir
      /\ \A q \in DataPages : q # p => pak'.data[q] = pak.data[q]
  BY <1>0 DEF Volumes
<1>2. /\ OthersKept /\ OthersWhole /\ call.kind = "write" /\ slot \in Slots
      /\ \A t \in UsedSlots(pak) \ {slot} : \A q \in ChainOf(pak, t) : vol.fat[q] # FAT_FREE
  BY ChainsOnThePak
<1>3. state = "PAK"
  BY DEF CacheInv, OnThePak, Mounted
<1>4. Readable(pak) /\ Readable(pak') /\ Sound(pak) /\ Sound(pak')
  <2>1. Readable(pak) /\ Sound(pak)
    BY <1>3 DEF KeptInv, Unharmed, SoundInv, ReadablePakIsSound
  <2> QED
    BY <1>1, <2>1, SoundIsOfMetadata DEF Readable, checksum
<1>5. Files = FilesOn(pak) /\ Files' = FilesOn(pak') /\ Intended = Nothing /\ Intended' = Nothing
  BY <1>4 DEF Files, Intended
<1>6. n \in Names /\ n # NoName
  BY <1>0, <1>2, ChangingCall DEF Changing
<1>7. \A m : SlotsOf(pak', m) = SlotsOf(pak, m)
  BY <1>1 DEF SlotsOf
<1>8. ASSUME NEW m \in Names, \A t \in SlotsOf(pak, m) : p \notin ChainOf(pak, t)
      PROVE  FileOn(pak', m) = FileOn(pak, m)
  <2>1. ASSUME NEW t \in SlotsOf(pak, m)
        PROVE  /\ pak'.dir[t].size = pak.dir[t].size /\ pak'.dir[t].first = pak.dir[t].first
               /\ \A q \in ChainOf(pak, t) : pak'.fat[q] = pak.fat[q] /\ pak'.data[q] = pak.data[q]
    <3>1. ChainOf(pak, t) \subseteq DataPages /\ p \notin ChainOf(pak, t)
      BY <1>8, ChainFacts DEF ChainOf
    <3> QED
      BY <1>1, <3>1
  <2> DEFINE w == pak'
  <2>2. /\ SlotsOf(w, m) = SlotsOf(pak, m)
        /\ \A t \in SlotsOf(pak, m) :
             /\ w.dir[t].size = pak.dir[t].size /\ w.dir[t].first = pak.dir[t].first
             /\ \A q \in ChainOf(pak, t) : w.fat[q] = pak.fat[q] /\ w.data[q] = pak.data[q]
    BY <1>7, <2>1
  <2> HIDE DEF w
  <2>3. FileOn(w, m) = FileOn(pak, m)
    BY <1>0, <1>4, <2>2, OtherFile DEF Sound
  <2> QED
    BY <2>3 DEF w
<1>9. CASE GivenUp = NoName
  <2>1. ~save.reuse
    BY <1>6, <1>9 DEF GivenUp
  <2>2. p \in FreePages(pak.fat)
    BY <2>1 DEF CacheInv, ClaimsOnly, FreePages
  <2>3. ASSUME NEW m \in Names, NEW t \in SlotsOf(pak, m)
        PROVE  p \notin ChainOf(pak, t)
    <3>1. t \in UsedSlots(pak)
      BY <2>3, VolumeAssumption DEF SlotsOf, UsedSlots
    <3> QED
      BY <1>4, <2>2, <3>1 DEF Sound, NoLostPages
  <2>4. FilesOn(pak') = FilesOn(pak)
    BY <1>8, <2>3 DEF FilesOn
  <2> QED
    BY <1>4, <1>5, <1>9, <2>4 DEF Promised, Promise!svars
<1>10. CASE GivenUp # NoName
  <2>1. GivenUp = n /\ slot \in UsedSlots(vol)
    BY <1>2, <1>10 DEF GivenUp, OthersKept
  <2>2. pak.dir[slot].name = n /\ slot \in SlotsOf(pak, n)
    BY <1>2, <2>1 DEF OthersKept, OthersWhole, SlotsOf
  <2>3. ASSUME NEW m \in Names, m # n
        PROVE  FileOn(pak', m) = FileOn(pak, m)
    <3>1. ASSUME NEW t \in SlotsOf(pak, m)
          PROVE  p \notin ChainOf(pak, t)
      <4>1. t \in UsedSlots(pak) \ {slot}
        BY <2>2, <2>3, <3>1, VolumeAssumption DEF SlotsOf, UsedSlots
      <4> QED
        BY <1>2, <4>1
    <3> QED
      BY <1>8, <2>3, <3>1
  <2>4. FileOn(pak', n) \in Versions
    <3>1. FileOn(pak', n) \in Versions \cup {<<"none">>}
      BY <1>0, <1>4, <1>6, FileType DEF Sound
    <3>2. FileOn(pak', n) # <<"none">>
      BY <1>7, <2>2 DEF FileOn
    <3> QED
      BY <3>1, <3>2
  <2>5. Files' = [Files EXCEPT ![n] = FileOn(pak', n)]
    <3> DEFINE w == pak'
    <3>1. /\ Files' = FilesOn(w) /\ Files = FilesOn(pak)
          /\ \A m \in Names : m # n => FileOn(w, m) = FileOn(pak, m)
      BY <1>5, <2>3
    <3> HIDE DEF w
    <3>2. FilesOn(w) = [FilesOn(pak) EXCEPT ![n] = FileOn(w, n)]
      BY <1>6, <3>1, OneFile
    <3> QED
      BY <3>1, <3>2 DEF w
  <2>6. Promise!WriteOver
    BY <1>4, <1>5, <1>10, <2>1, <2>4, <2>5 DEF Promise!WriteOver, Promise!Saved
  <2> QED
    BY <2>6 DEF Promised, Promise!Next
<1> QED
  BY <1>9, <1>10

LEMMA StorePromised ==
  ASSUME TypeOK, CacheInv, SoundInv, KeptInv, StorePage \/ StorePageFails
  PROVE  Promised
<1> DEFINE p == PageToStore
           d == call.buf[save.got + 1]
<1>1. p \in DataPages /\ vol.fat[p] = FAT_FREE /\ pc = "store" /\ d \in Data
  BY StoringFacts DEF StorePage, StorePageFails, Storing
<1>2. pak.data[p] \in Data \cup {Blank, Torn}
  BY <1>1 DEF TypeOK, Volumes
<1> HIDE DEF p, d
<1>3. CASE StorePage /\ ~on_pak
  <2>1. pak' = pak /\ pc' = pc /\ on_pak' = on_pak
    BY <1>3 DEF StorePage
  <2> QED
    BY <1>1, <1>3, <2>1, QuietStep DEF GivenUp
<1>4. CASE StorePage /\ on_pak
  <2>1. pak' = [pak EXCEPT !.data = [@ EXCEPT ![p] = d]] /\ pc' = pc
        /\ UNCHANGED <<on_pak, call>> /\ save'.reuse = save.reuse
    BY <1>4 DEF StorePage, p, d, TypeOK
  <2>2. GivenUp' = GivenUp
    BY <2>1 DEF GivenUp
  <2> QED
    BY <1>1, <1>4, <2>1, <2>2, PagePromised
<1>5. CASE StorePageFails
  <2>1. on_pak /\ pc' = "mount"
    BY <1>5 DEF StorePageFails
  <2>2. PICK x \in {pak.data[p], d, Torn} : pak' = [pak EXCEPT !.data = [@ EXCEPT ![p] = x]]
    BY <1>5 DEF StorePageFails, p, d
  <2>3. x \in Data \cup {Blank, Torn} /\ GivenUp' = NoName
    BY <1>1, <1>2, <2>1 DEF GivenUp
  <2> QED
    BY <1>1, <2>1, <2>2, <2>3, PagePromised
<1> QED
  BY <1>3, <1>4, <1>5

\* A format sets out to leave no files at all.
LEMMA BlankPromised ==
  ASSUME pak' = pak, vol' = Stamped(BlankVolume), pc # "commit", pc # "store", pc' = "commit"
  PROVE  Promised
<1>1. vol' \in Volumes /\ vol'.dir = [s \in Slots |-> NoEntry]
  <2>1. BlankVolume.dir = [s \in Slots |-> NoEntry]
    BY DEF BlankVolume, ZeroVolume
  <2> QED
    BY <2>1, ZeroVolumeType, StampedType
<1> DEFINE y == [vol' EXCEPT !.data = pak'.data]
<1>2. Intended' = FilesOn(y)
  BY DEF Intended
<1>3. y.dir = [s \in Slots |-> NoEntry]
  BY <1>1 DEF Volumes
<1> HIDE DEF y
<1>4. \A n \in Names : SlotsOf(y, n) = {}
  BY <1>3, VolumeAssumption DEF SlotsOf, NoEntry
<1>5. Intended' = [n \in Names |-> <<"none">>]
  BY <1>2, <1>4 DEF FilesOn, FileOn
<1>6. /\ Intended = Nothing /\ GivenUp = NoName /\ GivenUp' = NoName
      /\ Readable(pak)' = Readable(pak) /\ Files' = Files
  BY DEF Intended, GivenUp, Files
<1>7. Promise!Begin
  BY <1>5, <1>6 DEF Promise!Begin, Promise!NoFiles
<1> QED
  BY <1>7 DEF Promised, Promise!Next

LEMMA MountPromised ==
  ASSUME NEW back \in {"idle", "body"}, Mount(back), UNCHANGED device,
         pc # "commit", pc # "store"
  PROVE  Promised
<1>1. CASE MountBlankPak(back)
  BY <1>1, BlankPromised DEF MountBlankPak, device
<1>2. CASE pc' = back
  BY <1>2, QuietStep DEF GivenUp, device
<1> QED
  BY <1>1, <1>2 DEF Mount

LEMMA LookPromised ==
  ASSUME TypeOK,
         DoMount \/ Revalidate \/ MountCall \/ FormatCall \/ StatCall \/ WriteRefused
         \/ ReadCall \/ \E c \in Calls : Call(c)
  PROVE  Promised
<1>1. CASE DoMount \/ MountCall
  BY <1>1, MountPromised DEF DoMount, MountCall
<1>2. CASE Revalidate
  <2>1. CASE CacheDoubted /\ Mount("body")
    BY <1>2, <2>1, MountPromised DEF Revalidate
  <2>2. CASE ~(CacheDoubted /\ Mount("body"))
    BY <1>2, <2>2, QuietStep DEF Revalidate, device, GivenUp
  <2> QED
    BY <2>1, <2>2
<1>3. CASE FormatCall
  <2>1. CASE seen
    <3>1. pak' = pak /\ vol' = Stamped(BlankVolume) /\ pc = "body" /\ pc' = "commit"
      BY <1>3, <2>1 DEF FormatCall, device
    <3> QED
      BY <3>1, BlankPromised
  <2>2. CASE ~seen
    BY <1>3, <2>2, QuietStep DEF FormatCall, device, Return, GivenUp
  <2> QED
    BY <2>1, <2>2
<1>4. CASE StatCall \/ WriteRefused
  BY <1>4, QuietStep DEF StatCall, WriteRefused, device, Return, GivenUp
<1>5. CASE ReadCall
  <2>1. pak' = pak /\ pc = "body" /\ pc' = "idle"
    BY <1>5 DEF ReadCall, device, Return
  <2> QED
    BY <2>1, QuietStep DEF GivenUp
<1>6. ASSUME NEW c \in Calls, Call(c)
      PROVE  Promised
  BY <1>6, QuietStep DEF Call, device, GivenUp
<1> QED
  BY <1>1, <1>2, <1>3, <1>4, <1>5, <1>6

\* A pak with the new header is unreadable, or holds the files that were meant.
LEMMA HeaderMeans ==
  ASSUME NEW x, x.head = vol.head, vol \in Volumes, pak \in Volumes,
         vol.head.sum = checksum(vol), x.data = pak.data, Readable(x)
  PROVE  FilesOn(x) = FilesOn([vol EXCEPT !.data = pak.data])
<1>1. x.fat = vol.fat /\ x.dir = vol.dir
  BY DEF Readable, checksum
<1> DEFINE y == [vol EXCEPT !.data = pak.data]
<1>2. y.fat = vol.fat /\ y.dir = vol.dir /\ y.data = pak.data
  BY DEF Volumes
<1> HIDE DEF y
<1>3. FilesOn(x) = FilesOn(y)
  BY <1>1, <1>2, SameFile DEF FilesOn
<1> QED
  BY <1>3 DEF y

LEMMA CommitStepPromised ==
  ASSUME TypeOK, CacheInv, SoundInv, CommitBlock \/ CommitFails \/ CommitDone
  PROVE  Promised
<1>0. /\ pak \in Volumes /\ vol \in Volumes /\ pc = "commit" /\ blk \in Nat
      /\ vol.head.sum = checksum(vol) /\ SameBlocks(pak, vol, blk)
      /\ vol' = vol /\ after \in {"idle", "body"}
  BY BlockBounds
  DEF TypeOK, CommitBlock, CommitFails, CommitDone, Committing, SoundInv, CommittedSound,
      CacheInv, StoredBlocks, cache
<1> DEFINE y == [vol EXCEPT !.data = pak.data]
<1>1. Intended = FilesOn(y) /\ GivenUp = NoName
  BY <1>0 DEF Intended, GivenUp
<1>2. Intended # Nothing
  BY <1>1, FilesAreNotNothing
<1>3. blk > 0 => pak.head = vol.head
  BY <1>0 DEF SameBlocks
<1> HIDE DEF y
<1>4. CASE CommitBlock
  <2>1. /\ pak' = CopyBlocks(pak, vol, {blk}) /\ pc' = "commit"
        /\ pak'.data = pak.data
    BY <1>0, <1>4, CopyBlocksType DEF CommitBlock
  <2>2. pak'.head = vol.head
    BY <1>0, <1>3, <2>1 DEF CopyBlocks, Volumes
  <2>3. Intended' = Intended /\ GivenUp' = GivenUp
    BY <1>0, <1>1, <2>1 DEF Intended, GivenUp, y
  <2>4. CASE Readable(pak')
    <3>1. FilesOn(pak') = FilesOn(y)
      BY <1>0, <2>1, <2>2, <2>4, HeaderMeans DEF y
    <3>2. Files' = Intended /\ Readable(pak)' = TRUE
      BY <1>1, <2>4, <3>1 DEF Files
    <3>3. Promise!Complete
      BY <1>2, <2>3, <3>2 DEF Promise!Complete
    <3> QED
      BY <3>3 DEF Promised, Promise!Next
  <2>5. CASE ~Readable(pak')
    <3>1. Promise!Tear
      BY <1>2, <2>3, <2>5 DEF Promise!Tear, Promise!NoFiles, Files
    <3> QED
      BY <3>1 DEF Promised, Promise!Next
  <2> QED
    BY <2>4, <2>5
<1>5. CASE CommitFails \/ CommitDone
  <2>1. pc' \in {"mount", "idle", "body"}
    BY <1>0, <1>5 DEF CommitFails, CommitDone, Return
  <2>2. Intended' = Nothing /\ GivenUp' = NoName
    BY <2>1 DEF Intended, GivenUp
  <2>3. pak' \in DamagedBlock(pak, vol, blk) \cup {pak}
    BY <1>5 DEF CommitFails, CommitDone, device
  <2>4. pak'.data = pak.data
    BY <1>0, <2>3, DamagedBlockType
  <2>5. CASE pak' = pak
    <3>1. Promise!GiveOver
      BY <1>2, <2>2, <2>5 DEF Promise!GiveOver, Files
    <3> QED
      BY <3>1 DEF Promised, Promise!Next
  <2>6. CASE ~Readable(pak')
    <3>1. Promise!GiveOver
      BY <1>2, <2>2, <2>6 DEF Promise!GiveOver, Promise!NoFiles, Files
    <3> QED
      BY <3>1 DEF Promised, Promise!Next
  <2>7. CASE Readable(pak') /\ pak'.head = vol.head
    <3>1. FilesOn(pak') = FilesOn(y)
      BY <1>0, <2>4, <2>7, HeaderMeans DEF y
    <3>2. Files' = Intended /\ Readable(pak)' = TRUE
      BY <1>1, <2>7, <3>1 DEF Files
    <3>3. Promise!GiveOver
      BY <1>2, <2>2, <3>2 DEF Promise!GiveOver
    <3> QED
      BY <3>3 DEF Promised, Promise!Next
  <2> QED
    BY <1>0, <2>3, <2>5, <2>6, <2>7, DamageTells
<1> QED
  BY <1>4, <1>5

LEMMA WorldPromised == ASSUME World PROVE Promised
<1>1. CASE Identify \/ Pull \/ Insert
  <2>1. UNCHANGED <<pak, vol, on_pak, call, pc, save>>
    BY <1>1 DEF Identify, Pull, Insert, cache, flow
  <2>2. Readable(pak)' = Readable(pak) /\ Files' = Files /\ Intended' = Intended
        /\ GivenUp' = GivenUp
    BY <2>1 DEF Files, Intended, GivenUp
  <2> QED
    BY <2>2 DEF Promised, Promise!svars
<1>2. CASE PowerFail
  <2>1. pak' = pak /\ pc' = "mount"
    BY <1>2 DEF PowerFail, Boot
  <2>2. /\ Intended' = Nothing /\ GivenUp' = NoName
        /\ Readable(pak)' = Readable(pak) /\ Files' = Files
    BY <2>1 DEF Intended, GivenUp, Files
  <2>3. CASE Intended # Nothing \/ GivenUp # NoName
    <3>1. Promise!GiveOver
      BY <2>2, <2>3 DEF Promise!GiveOver
    <3> QED
      BY <3>1 DEF Promised, Promise!Next
  <2>4. CASE Intended = Nothing /\ GivenUp = NoName
    BY <2>2, <2>4 DEF Promised, Promise!svars
  <2> QED
    BY <2>3, <2>4
<1> QED
  BY <1>1, <1>2 DEF World

LEMMA NextPromised == TypeOK /\ CacheInv /\ SoundInv /\ KeptInv /\ [Next]_vars => Promised
<1>1. ASSUME TypeOK, CacheInv, SoundInv, KeptInv, Next
      PROVE  Promised
  BY <1>1, LookPromised, DeletePromised, RenamePromised, FinishPromised, WriteCallPromised,
     StorePromised, CommitStepPromised, WorldPromised, Zenon
  DEF Next, Step
<1>2. ASSUME UNCHANGED vars
      PROVE  Promised
  <2>1. Readable(pak)' = Readable(pak) /\ Files' = Files /\ Intended' = Intended
        /\ GivenUp' = GivenUp
    BY <1>2 DEF vars, Files, Intended, GivenUp
  <2> QED
    BY <2>1 DEF Promised, Promise!svars
<1> QED
  BY <1>1, <1>2

LEMMA InitPromised == TypeOK /\ Init => Promise!Init
<1> SUFFICES ASSUME TypeOK, Init
             PROVE  Promise!Init
  OBVIOUS
<1>1. Readable(pak) \in BOOLEAN
  BY DEF Readable
<1>2. Files \in [Names -> Versions \cup {<<"none">>}]
  <2>1. ASSUME Readable(pak), NEW n \in Names
        PROVE  FileOn(pak, n) \in Versions \cup {<<"none">>}
    BY <2>1, SoundPaks, FileType DEF Init, TypeOK, Sound
  <2> QED
    BY <2>1 DEF Files, FilesOn
<1>3. Intended = Nothing /\ GivenUp = NoName
  BY DEF Init, Intended, GivenUp
<1>4. ~Readable(pak) => Files = Promise!NoFiles
  BY DEF Files, Promise!NoFiles
<1> QED
  BY <1>1, <1>2, <1>3, <1>4 DEF Promise!Init

\* PakFS implements FileStore: whatever is pulled, fails or is switched off, a file on the
\* pak changes only by a call that names it, and a call that is cut short leaves the files
\* as they were, as it meant them to be, or unreadable and known to be so.
THEOREM PromiseIsKept == Spec => PromiseKept
<1>1. TypeOK /\ CacheInv /\ SoundInv /\ KeptInv /\ [Next]_vars => Promised
  BY NextPromised
<1>2. SaveInv => CacheInv /\ SoundInv /\ KeptInv
  BY DEF SaveInv
<1>3. Spec => [][Promised]_(Promise!svars)
  <2>1. Promised => [Promised]_(Promise!svars)
    OBVIOUS
  <2> QED
    BY <1>1, <1>2, <2>1, TypeCorrect, SaveInvariant, PTL DEF Spec
<1>4. Spec => Promise!Init
  BY InitType, InitPromised DEF Spec
<1> QED
  BY <1>3, <1>4, PTL DEF PromiseKept, Promise!Spec, Promised

LEMMA NextOk ==
  ASSUME TypeOK, CacheInv, SoundInv, KeptInv, [Next]_vars,
         pc = "commit", pc' = "idle", res' = "ok", call.kind \in Changing
  PROVE  Readable(pak') /\ Done(pak')
<1>1. CommitDone
  <2>1. res # "ok"
    BY DEF KeptInv, CommitIsAsked
  <2>2. UNCHANGED vars => FALSE
    BY DEF vars
  <2>3. CommitFails => FALSE
    BY <2>1 DEF CommitFails, Return
  <2>4. CommitBlock => FALSE
    BY DEF CommitBlock
  <2>5. World => FALSE
    BY <2>1 DEF World, Identify, Pull, Insert, PowerFail, Boot, flow
  <2>6. Next
    BY <2>2
  <2> QED
    BY <2>3, <2>4, <2>5, <2>6
    DEF Next, Step, DoMount, Revalidate, MountCall, FormatCall, StatCall, ReadCall,
        WriteRefused, WriteCall, StorePage, StorePageFails, Storing, FinishWrite,
        DeleteCall, RenameCall, Call
<1>2. /\ pak \in Volumes /\ vol \in Volumes /\ pak' = pak /\ blk = MetaBlocks
      /\ res # "ok" /\ vol.head.magic = "ours" /\ vol.head.sum = checksum(vol)
      /\ SameBlocks(pak, vol, blk)
  BY <1>1 DEF TypeOK, CommitDone, device, KeptInv, Unharmed, CommitIsAsked, SoundInv,
              CommittedSound, CacheInv, StoredBlocks
<1>3. pak.head = vol.head /\ pak.fat = vol.fat /\ pak.dir = vol.dir
  BY <1>2, SameBlocksEnd
<1>4. Readable(pak')
  BY <1>2, <1>3 DEF Readable, checksum
<1>5. purpose = "save"
  BY <1>1, <1>2 DEF CommitDone, KeptInv, CommitIsAsked, Changing
<1> DEFINE y == [vol EXCEPT !.data = pak.data]
<1>6. Done(y)
  BY <1>5 DEF KeptInv, CommitIsAsked
<1>7. y.fat = pak.fat /\ y.dir = pak.dir /\ y.data = pak.data
  BY <1>2, <1>3 DEF Volumes
<1> HIDE DEF y
<1>8. \A n : FileOn(y, n) = FileOn(pak, n)
  BY <1>7, SameFile
<1>9. Done(pak)
  BY <1>6, <1>8 DEF Done
<1> QED
  BY <1>2, <1>4, <1>9 DEF Done

\* A call that reports success has done what it was asked, on the pak: the file reads back
\* as it was given, is gone, or has its new name and not its old one.
THEOREM OkIsTrue == Spec => OkIsDone
<1> DEFINE Said == pc = "commit" /\ pc' = "idle" /\ res' = "ok" /\ call.kind \in Changing
                     => Readable(pak') /\ Done(pak')
<1>1. TypeOK /\ CacheInv /\ SoundInv /\ KeptInv /\ [Next]_vars => [Said]_vars
  BY NextOk
<1>2. SaveInv => CacheInv /\ SoundInv /\ KeptInv
  BY DEF SaveInv
<1> QED
  BY <1>1, <1>2, TypeCorrect, SaveInvariant, PTL DEF Spec, OkIsDone

-----------------------------------------------------------------------------
(* A second pak (PakSwap).  With another pak put in, the copy is not kept  *)
(* in step with the one at hand, so CacheInv is lost.  What is left is     *)
(* CopyInv: a copy that is not being changed has its own checksum right,   *)
(* so when revalidate() finds its header on a pak whose checksum is right  *)
(* too, the two directories are one.                                       *)

LEMMA SwapInitInv == SwapInit => TypeOK /\ SwapInv
<1> SUFFICES ASSUME SwapInit PROVE TypeOK /\ SwapInv
  OBVIOUS
<1>1. Init /\ shelf \in InitialPaks
  BY DEF SwapInit
<1>2. CopyInv
  BY <1>1 DEF Init, CopyInv, OnThePak, StoredBlocks, CopyIsWhole, CopyIsOfThisPak
<1>3. shelf \in Volumes /\ (Readable(shelf) => Sound(shelf))
  BY <1>1, PakAssumption, SoundPaks
<1>4. pc # "store"
  BY <1>1 DEF Init
<1> QED
  BY <1>1, <1>2, <1>3, <1>4, InitType, InitSound DEF SwapInv

\* What a mount finds mounted on the pak has the header of the pak, and its checksum.
LEMMA MountCopies ==
  ASSUME TypeOK, CopyInv, NEW back \in {"idle", "body"}, Mount(back), UNCHANGED device
  PROVE  CopyInv'
<1>0. pak' = pak /\ pak \in Volumes
  BY DEF device, TypeOK
<1>1. CASE MountRamDisk /\ pc' = back
  BY <1>1
  DEF MountRamDisk, CopyInv, OnThePak, StoredBlocks, CopyIsWhole, CopyIsOfThisPak
<1>2. CASE MountPak /\ pc' = back
  <2> DEFINE v == CopyBlocks(ZeroVolume, pak, Blocks)
  <2>1. v.head = pak.head
    BY <1>0, ZeroVolumeType, CopyAllBlocks
  <2>2. vol' = v /\ on_pak' = TRUE /\ state' \in {"UNFORMATTED", "PAK", "CORRUPT"}
        /\ (state' = "PAK" => Readable(v))
    BY <1>2 DEF MountPak
  <2> HIDE DEF v
  <2>3. vol'.head = pak'.head /\ (state' = "PAK" => vol'.head.sum = checksum(vol'))
    BY <1>0, <2>1, <2>2 DEF Readable
  <2> QED
    BY <1>2, <2>2, <2>3 DEF CopyInv, OnThePak, StoredBlocks, CopyIsWhole, CopyIsOfThisPak
<1>3. ASSUME NEW b \in Blocks, MountNoAnswer(b), pc' = back
      PROVE  CopyInv'
  BY <1>3
  DEF MountNoAnswer, CopyInv, OnThePak, StoredBlocks, CopyIsWhole, CopyIsOfThisPak
<1>4. CASE MountBlankPak(back)
  <2>1. on_pak' = TRUE /\ pc' = "commit" /\ purpose' = "blank" /\ blk' = 0
        /\ vol' = Stamped(BlankVolume) /\ state' = state
    BY <1>4 DEF MountBlankPak
  <2>2. vol'.head.sum = checksum(vol')
    BY <2>1, ZeroVolumeType, StampKeeps
  <2>3. SameBlocks(pak', vol', 0)
    BY SameBlocksStart
  <2> QED
    BY <2>1, <2>2, <2>3 DEF CopyInv, OnThePak, StoredBlocks, CopyIsWhole, CopyIsOfThisPak
<1> QED
  BY <1>1, <1>2, <1>3, <1>4 DEF Mount

\* A call that looked, and is over.
LEMMA ReturnCopies ==
  ASSUME CopyInv, UNCHANGED <<pak, state, on_pak>>, pc = "body", pc' = "idle",
         vol'.head = vol.head, vol'.fat = vol.fat, vol'.dir = vol.dir
  PROVE  CopyInv'
BY DEF CopyInv, OnThePak, StoredBlocks, CopyIsWhole, CopyIsOfThisPak, checksum

LEMMA LookCopies ==
  ASSUME TypeOK, CopyInv,
         DoMount \/ Revalidate \/ MountCall \/ FormatCall \/ StatCall \/ WriteRefused
  PROVE  CopyInv'
<1>1. CASE DoMount
  BY <1>1, MountCopies DEF DoMount
<1>2. CASE MountCall
  BY <1>2, MountCopies DEF MountCall
<1>3. CASE Revalidate
  <2>1. CASE CacheDoubted /\ Mount("body") /\ UNCHANGED device
    BY <2>1, MountCopies
  <2>2. CASE CacheTrusted /\ pc' = "body" /\ UNCHANGED cache /\ UNCHANGED device
    <3>1. UNCHANGED <<pak, state, on_pak, vol>> /\ pc = "revalidate"
      BY <1>3, <2>2 DEF Revalidate, cache, device
    <3>2. state = "PAK" => vol.head = pak.head
      BY <2>2 DEF CacheTrusted, CopyInv, OnThePak
    <3> QED
      BY <2>2, <3>1, <3>2
      DEF CopyInv, OnThePak, StoredBlocks, CopyIsWhole, CopyIsOfThisPak
  <2> QED
    BY <1>3, <2>1, <2>2 DEF Revalidate
<1>4. CASE FormatCall
  <2>1. CASE seen
    <3>1. on_pak' = TRUE /\ pc' = "commit" /\ purpose' = "format" /\ blk' = 0
          /\ vol' = Stamped(BlankVolume) /\ state' = state
      BY <1>4, <2>1 DEF FormatCall
    <3>2. vol'.head.sum = checksum(vol')
      BY <3>1, ZeroVolumeType, StampKeeps
    <3>3. SameBlocks(pak', vol', 0)
      BY SameBlocksStart
    <3> QED
      BY <3>1, <3>2, <3>3
      DEF CopyInv, OnThePak, StoredBlocks, CopyIsWhole, CopyIsOfThisPak
  <2>2. CASE ~seen
    BY <1>4, <2>2
    DEF FormatCall, Return, CopyInv, OnThePak, StoredBlocks, CopyIsWhole, CopyIsOfThisPak
  <2> QED
    BY <2>1, <2>2
<1>5. CASE StatCall \/ WriteRefused
  BY <1>5, ReturnCopies DEF StatCall, WriteRefused, Return, cache, device
<1> QED
  BY <1>1, <1>2, <1>3, <1>4, <1>5

\* commit() begins with a copy that is whole, or is over at once.
LEMMA CommitCopies ==
  ASSUME TypeOK, CopyInv, NEW v \in Volumes, Commit(v, "save"), Mounted,
         pc \in {"body", "store"}, UNCHANGED <<device, state, on_pak, loaded, after>>
  PROVE  CopyInv'
<1>1. vol' = Stamped(v) /\ vol'.head.sum = checksum(vol')
  BY StampKeeps DEF Commit
<1>2. CASE on_pak
  <2>1. state = "PAK"
    BY <1>2 DEF Mounted, CopyInv, OnThePak
  <2>2. pc' = "commit" /\ purpose' = "save" /\ blk' = 0
    BY <1>2 DEF Commit
  <2>3. SameBlocks(pak', vol', 0)
    BY SameBlocksStart
  <2> QED
    BY <1>1, <1>2, <2>1, <2>2, <2>3
    DEF CopyInv, OnThePak, StoredBlocks, CopyIsWhole, CopyIsOfThisPak
<1>3. CASE ~on_pak
  <2>1. pc' = "idle" /\ state # "PAK"
    BY <1>3 DEF Commit, Return, CopyInv, OnThePak
  <2> QED
    BY <1>3, <2>1 DEF CopyInv, OnThePak, StoredBlocks, CopyIsWhole, CopyIsOfThisPak
<1> QED
  BY <1>2, <1>3


\* What a change is a change of: the volume that commit() is given, as the calls that
\* end in one make it.
LEMMA ChangeIsCommit ==
  ASSUME TypeOK, SoundInv, DeleteCall \/ RenameCall \/ FinishWrite, pc' = "commit"
  PROVE  /\ UNCHANGED <<device, state, on_pak, loaded, after, call>>
         /\ \/ \E s \in Find(call.name), v \in Volumes :
                 /\ call.kind = "delete" /\ pc = "body" /\ Commit(v, "save") /\ on_pak
                 /\ v.fat = free_chain(vol.fat, vol.dir[s].first)
                 /\ v.dir = [vol.dir EXCEPT ![s] = NoEntry]
            \/ \E s \in Find(call.name), v \in Volumes :
                 /\ call.kind = "rename" /\ pc = "body" /\ Commit(v, "save") /\ on_pak
                 /\ RenameCheck(call.name, call.to) = "ok"
                 /\ v.fat = vol.fat /\ v.dir = [vol.dir EXCEPT ![s].name = call.to]
            \/ /\ FinishWrite /\ Finished \in Volumes /\ Commit(Finished, "save") /\ on_pak
<1>0. /\ vol \in Volumes /\ vol.fat \in Tables /\ vol.dir \in Dirs
      /\ call \in Calls \cup {NoCall} /\ UNCHANGED <<device, state, on_pak, loaded, after>>
  BY DEF TypeOK, Volumes, DeleteCall, RenameCall, FinishWrite
<1>a. ASSUME NEW v, Commit(v, "save")
      PROVE  on_pak /\ call' = call
  BY <1>a DEF Commit, Return
<1>1. CASE DeleteCall
  <2>1. PICK s \in Find(call.name) :
          Commit([vol EXCEPT !.fat = free_chain(@, vol.dir[s].first),
                             !.dir = [@ EXCEPT ![s] = NoEntry]], "save")
    BY <1>1, Zenon DEF DeleteCall, Return
  <2> DEFINE v == [vol EXCEPT !.fat = free_chain(@, vol.dir[s].first),
                              !.dir = [@ EXCEPT ![s] = NoEntry]]
  <2>2. NoEntry \in Entries
    BY DEF NoEntry, Entries, Links
  <2>3. v \in Volumes
    BY <1>0, <2>2, FreeChainType, SetEntryType, NewMetaType
  <2>4. v.fat = free_chain(vol.fat, vol.dir[s].first) /\ v.dir = [vol.dir EXCEPT ![s] = NoEntry]
    BY <1>0 DEF Volumes
  <2>5. Commit(v, "save") /\ call.kind = "delete" /\ pc = "body"
    BY <1>1, <2>1, Zenon DEF DeleteCall
  <2> HIDE DEF v
  <2> QED
    BY <1>0, <1>a, <2>3, <2>4, <2>5
<1>2. CASE RenameCall
  <2>1. /\ call.kind = "rename" /\ pc = "body" /\ RenameCheck(call.name, call.to) = "ok"
        /\ \E s \in Find(call.name) :
             Commit([vol EXCEPT !.dir = [@ EXCEPT ![s].name = call.to]], "save")
    BY <1>2, Zenon DEF RenameCall, Return
  <2>2. PICK s \in Find(call.name) :
          Commit([vol EXCEPT !.dir = [@ EXCEPT ![s].name = call.to]], "save")
    BY <2>1, Zenon
  <2> DEFINE v == [vol EXCEPT !.dir = [@ EXCEPT ![s].name = call.to]]
  <2>3. v \in Volumes
    BY <1>0, CallFields, EntryFieldType, NewMetaType
  <2>4. v.fat = vol.fat /\ v.dir = [vol.dir EXCEPT ![s].name = call.to]
    BY <1>0 DEF Volumes
  <2>5. Commit(v, "save")
    BY <2>2, Zenon
  <2> HIDE DEF v
  <2> QED
    BY <1>0, <1>a, <2>1, <2>3, <2>4, <2>5
<1>3. CASE FinishWrite
  BY <1>0, <1>3, <1>a, FinishFacts DEF FinishWrite
<1> QED
  BY <1>1, <1>2, <1>3

LEMMA ChangeCopies ==
  ASSUME TypeOK, CopyInv, SoundInv, DeleteCall \/ RenameCall \/ FinishWrite
  PROVE  CopyInv'
<1>0. UNCHANGED <<device, state, on_pak, loaded, after>> /\ pc \in {"body", "store"}
  BY DEF DeleteCall, RenameCall, FinishWrite
<1>1. CASE pc' = "commit"
  <2>1. /\ \E v \in Volumes : Commit(v, "save")
        /\ Find(call.name) # {} \/ FinishWrite
    BY <1>1, ChangeIsCommit
  <2>2. Mounted
    BY <2>1 DEF FinishWrite, CopyInv, OnThePak, Find
  <2> QED
    BY <1>0, <2>1, <2>2, CommitCopies
<1>2. CASE pc' # "commit"
  <2>1. pc' = "idle" /\ (on_pak => pc = "body" /\ vol' = vol)
    BY <1>2, Zenon DEF DeleteCall, RenameCall, FinishWrite, Commit, Return
  <2>2. pak' = pak
    BY <1>0 DEF device
  <2>3. CASE on_pak
    BY <1>0, <2>1, <2>2, <2>3, ReturnCopies
  <2>4. CASE ~on_pak
    BY <1>0, <2>1, <2>2, <2>4
    DEF CopyInv, OnThePak, StoredBlocks, CopyIsWhole, CopyIsOfThisPak
  <2> QED
    BY <2>3, <2>4
<1> QED
  BY <1>1, <1>2

\* A copy that is being filled is not looked at.
LEMMA StoreCopies ==
  ASSUME TypeOK, CopyInv, WriteCall \/ StorePage \/ StorePageFails
  PROVE  CopyInv'
<1>1. /\ UNCHANGED <<state, on_pak>> /\ pc \in {"body", "store"} /\ pc' \in {"store", "mount"}
      /\ pc' = "store" => Mounted
  BY DEF WriteCall, StorePage, StorePageFails, Storing, WriteCheck, writable, CopyInv, OnThePak
<1> QED
  BY <1>1 DEF CopyInv, OnThePak, StoredBlocks, CopyIsWhole, CopyIsOfThisPak, Mounted

LEMMA CommitStepCopies ==
  ASSUME TypeOK, CopyInv, CommitBlock \/ CommitFails \/ CommitDone
  PROVE  CopyInv'
<1>0. /\ pak \in Volumes /\ vol \in Volumes /\ pc = "commit" /\ vol' = vol /\ on_pak' = on_pak
      /\ vol.head.sum = checksum(vol) /\ SameBlocks(pak, vol, blk) /\ on_pak
  BY DEF TypeOK, CommitBlock, CommitFails, CommitDone, Committing, cache, CopyInv,
         CopyIsWhole, StoredBlocks, OnThePak
<1>1. CASE CommitBlock
  <2>1. blk \in Blocks /\ pak' = CopyBlocks(pak, vol, {blk}) /\ blk' = blk + 1
    BY <1>1, BlockBounds DEF CommitBlock, Committing, TypeOK, Blocks
  <2>2. SameBlocks(pak', vol', blk')
    BY <1>0, <2>1, SameBlocksStep
  <2>3. UNCHANGED <<state, pc, purpose>>
    BY <1>1 DEF CommitBlock, cache
  <2> QED
    BY <1>0, <2>2, <2>3 DEF CopyInv, OnThePak, StoredBlocks, CopyIsWhole, CopyIsOfThisPak
<1>2. CASE CommitFails
  <2>1. \/ pc' = "mount" /\ state' = state /\ state = "PAK"
        \/ pc' = "idle" /\ state' = "NOANSWER"
        \/ pc' \in {"idle", "body"} /\ state' = "UNFORMATTED"
    BY <1>0, <1>2 DEF CommitFails, Return, CopyInv, OnThePak, TypeOK
  <2> QED
    BY <1>0, <2>1 DEF CopyInv, OnThePak, StoredBlocks, CopyIsWhole, CopyIsOfThisPak
<1>3. CASE CommitDone
  <2>1. pak' = pak /\ pc' \in {"idle", "body"} /\ state' = "PAK"
    BY <1>0, <1>3 DEF CommitDone, Return, device, TypeOK, CopyInv, OnThePak
  <2>2. pak.head = vol.head
    BY <1>0, <1>3, SameBlocksEnd DEF CommitDone
  <2> QED
    BY <1>0, <2>1, <2>2 DEF CopyInv, OnThePak, StoredBlocks, CopyIsWhole, CopyIsOfThisPak
<1> QED
  BY <1>1, <1>2, <1>3

LEMMA WorldCopies ==
  ASSUME TypeOK, CopyInv, World \/ (\E c \in Calls : Call(c)) \/ UNCHANGED vars
  PROVE  CopyInv'
<1>1. CASE Identify \/ Pull \/ Insert \/ UNCHANGED vars
  <2>1. UNCHANGED <<pak, state, on_pak, vol, call, pc, blk, purpose>>
    BY <1>1 DEF Identify, Pull, Insert, vars, cache, flow
  <2>2. OnThePak'
    BY <2>1 DEF CopyInv, OnThePak, Mounted
  <2>3. StoredBlocks' /\ CopyIsWhole' /\ CopyIsOfThisPak'
    BY <2>1 DEF CopyInv, StoredBlocks, CopyIsWhole, CopyIsOfThisPak
  <2> QED
    BY <2>2, <2>3 DEF CopyInv
<1>2. CASE PowerFail
  BY <1>2
  DEF PowerFail, Boot, CopyInv, OnThePak, StoredBlocks, CopyIsWhole, CopyIsOfThisPak
<1>3. ASSUME NEW c \in Calls, Call(c)
      PROVE  CopyInv'
  BY <1>3
  DEF Call, device, cache, CopyInv, OnThePak, StoredBlocks, CopyIsWhole, CopyIsOfThisPak
<1> QED
  BY <1>1, <1>2, <1>3 DEF World

LEMMA NextCopies == ASSUME TypeOK, CopyInv, SoundInv, [Next]_vars PROVE CopyInv'
<1>1. CASE ReadCall
  <2>1. UNCHANGED <<pak, state, on_pak>> /\ pc = "body" /\ pc' = "idle"
    BY <1>1 DEF ReadCall, device, Return
  <2>2. vol'.head = vol.head /\ vol'.fat = vol.fat /\ vol'.dir = vol.dir
    BY <1>1 DEF ReadCall, TypeOK, Volumes
  <2> QED
    BY <2>1, <2>2, ReturnCopies
<1> QED
  BY <1>1, LookCopies, ChangeCopies, StoreCopies, CommitStepCopies, WorldCopies, Zenon
  DEF Next, Step

\* A pak is exchanged for the one on the shelf between calls, when no header has been
\* compared yet.
LEMMA ExchangeCopies == ASSUME TypeOK, CopyInv, Exchange PROVE CopyInv'
BY DEF Exchange, cache, flow, CopyInv, OnThePak, StoredBlocks, CopyIsWhole, CopyIsOfThisPak


\* When revalidate() has let the copy through, it is of the pak at hand, if that can be
\* read: two headers with their checksums right are equal only over equal directories.
LEMMA TrustedIsThisPaks ==
  ASSUME CopyInv, state = "PAK", pc = "body", call.kind \notin {"mount", "format"},
         Readable(pak)
  PROVE  vol.fat = pak.fat /\ vol.dir = pak.dir
<1>1. vol.head = pak.head /\ vol.head.sum = checksum(vol) /\ pak.head.sum = checksum(pak)
  BY DEF CopyInv, CopyIsWhole, CopyIsOfThisPak, Readable
<1> QED
  BY <1>1 DEF checksum

\* Who claims pages: fs_write, when it begins and at every page; anything else that
\* happens meanwhile leaves the pak and the copy as they are.
LEMMA StoringComesFrom ==
  ASSUME TypeOK, [Next]_vars, pc' = "store"
  PROVE  \/ WriteCall \/ StorePage
         \/ pc = "store" /\ UNCHANGED <<pak, vol, save, on_pak>>
<1>1. CASE DoMount \/ Revalidate \/ MountCall
  BY <1>1 DEF DoMount, Revalidate, MountCall, Mount, MountBlankPak
<1>2. CASE FormatCall \/ StatCall \/ ReadCall \/ WriteRefused
  <2>1. CASE FormatCall
    BY <2>1 DEF FormatCall, Return
  <2>2. CASE StatCall \/ ReadCall \/ WriteRefused
    BY <2>2 DEF StatCall, ReadCall, WriteRefused, Return
  <2> QED
    BY <1>2, <2>1, <2>2
<1>3. CASE DeleteCall \/ RenameCall \/ FinishWrite
  BY <1>3, Zenon DEF DeleteCall, RenameCall, FinishWrite, Commit, Return
<1>4. CASE StorePageFails \/ CommitBlock \/ CommitFails \/ CommitDone
  BY <1>4 DEF StorePageFails, CommitBlock, CommitFails, CommitDone, Committing, Return, TypeOK
<1>5. CASE World \/ UNCHANGED vars
  BY <1>5 DEF World, Identify, Pull, Insert, PowerFail, Boot, vars, cache, flow
<1>6. ASSUME NEW c \in Calls, Call(c)
      PROVE  FALSE
  BY <1>6 DEF Call
<1> QED
  BY <1>1, <1>2, <1>3, <1>4, <1>5, <1>6, Zenon DEF Next, Step

\* While it stores a file on a pak that can be read, the other files are what they were.
LEMMA NextOthers ==
  ASSUME TypeOK, SwapInv, [Next]_vars, pc' = "store", on_pak', Readable(pak')
  PROVE  OthersKept'
<1>1. CASE WriteCall
  <2>1. pak' = pak /\ on_pak /\ pc = "body" /\ call.kind = "write" /\ Mounted
    BY <1>1 DEF WriteCall, WriteCheck, writable, device
  <2>2. state = "PAK"
    BY <2>1 DEF SwapInv, CopyInv, OnThePak, Mounted
  <2>3. vol.fat = pak.fat /\ vol.dir = pak.dir
    BY <2>1, <2>2, TrustedIsThisPaks DEF SwapInv
  <2> QED
    BY <1>1, <2>3, WriteCallOthers DEF SwapInv
<1>2. CASE StorePage
  <2>1. pak.head = pak'.head /\ pak.fat = pak'.fat /\ pak.dir = pak'.dir
        /\ on_pak /\ pc = "store"
    BY <1>2 DEF StorePage, Storing, TypeOK, Volumes
  <2>2. Readable(pak)
    BY <2>1 DEF Readable, checksum
  <2> QED
    BY <1>2, <2>1, <2>2, StoreOthers DEF SwapInv
<1>3. CASE pc = "store" /\ UNCHANGED <<pak, vol, save, on_pak>>
  <2>1. OthersKept
    BY <1>3 DEF SwapInv
  <2> QED
    BY <1>3, <2>1 DEF OthersKept
<1> QED
  BY <1>1, <1>2, <1>3, StoringComesFrom

LEMMA NextSwap == TypeOK /\ SwapInv /\ [SwapNext]_swapVars => TypeOK' /\ SwapInv'
<1>1. ASSUME TypeOK, SwapInv, [Next]_vars, shelf' = shelf
      PROVE  TypeOK' /\ SwapInv'
  <2>1. TypeOK' /\ CopyInv' /\ SoundInv'
    BY <1>1, NextType, NextCopies, NextSound DEF SwapInv, CopyInv
  <2>2. (pc = "store" /\ on_pak /\ Readable(pak) => OthersKept)'
    BY <1>1, NextOthers
  <2>3. (shelf \in Volumes /\ (Readable(shelf) => Sound(shelf)))'
    BY <1>1 DEF SwapInv
  <2> QED
    BY <2>1, <2>2, <2>3 DEF SwapInv
<1>2. ASSUME TypeOK, SwapInv, Exchange
      PROVE  TypeOK' /\ SwapInv'
  <2>1. /\ pak' = shelf /\ shelf' = pak /\ pc = "idle" /\ pc' = pc
        /\ UNCHANGED <<slotFull, seen, state, on_pak, vol, loaded, call, save, blk, purpose,
                       after, res>>
    BY <1>2 DEF Exchange, cache, flow
  <2>2. TypeOK'
    BY <1>2, <2>1 DEF TypeOK, SwapInv
  <2>3. CopyInv'
    BY <1>2, ExchangeCopies DEF SwapInv
  <2>4. ReadablePakIsSound' /\ (shelf \in Volumes /\ (Readable(shelf) => Sound(shelf)))'
    BY <1>2, <2>1 DEF SwapInv, SoundInv, ReadablePakIsSound, TypeOK
  <2>5. MountedSound' /\ CommittedSound' /\ HalfSaved'
    BY <1>2, <2>1 DEF SwapInv, SoundInv, MountedSound, CommittedSound, HalfSaved, Mounted
  <2> QED
    BY <2>1, <2>2, <2>3, <2>4, <2>5 DEF SwapInv, SoundInv
<1> QED
  BY <1>1, <1>2 DEF SwapNext, swapVars

THEOREM SwapInvariant == SwapSpec => [](TypeOK /\ SwapInv)
BY SwapInitInv, NextSwap, PTL DEF SwapSpec

\* Whichever pak is put in and whatever fails, the directory that a call works on is the
\* directory of the pak in the controller, if that pak's own is whole.
THEOREM SwappedPakIsReadAgain == SwapSpec => []DirectoryIsThisPaks
<1>1. SwapInv => DirectoryIsThisPaks
  BY TrustedIsThisPaks DEF SwapInv, DirectoryIsThisPaks, Trusting
<1> QED
  BY <1>1, SwapInvariant, PTL


LEMMA SaveLeavesOthers ==
  ASSUME TypeOK, SwapInv, [Next]_vars, Readable(pak), pc # "commit", pc' = "commit",
         purpose' = "save", NEW n \in Names \ {call.name, call.to}
  PROVE  FileOn([vol' EXCEPT !.data = pak.data], n) = FileOn(pak, n)
<1> DEFINE x == [vol' EXCEPT !.data = pak.data]
<1>0. /\ vol \in Volumes /\ vol.dir \in Dirs /\ pak \in Volumes /\ Sound(pak)
      /\ SoundInv /\ CopyInv
  BY DEF TypeOK, SwapInv, SoundInv, ReadablePakIsSound, Volumes
<1>1. DeleteCall \/ RenameCall \/ FinishWrite
  <2>1. CASE DoMount \/ Revalidate \/ MountCall \/ FormatCall
    BY <2>1
    DEF DoMount, Revalidate, MountCall, Mount, MountBlankPak, FormatCall, Return, TypeOK
  <2>2. CASE StatCall \/ ReadCall \/ WriteRefused \/ WriteCall \/ StorePage \/ StorePageFails
    BY <2>2
    DEF StatCall, ReadCall, WriteRefused, WriteCall, StorePage, StorePageFails, Return
  <2>3. CASE CommitBlock \/ CommitFails \/ CommitDone
    BY <2>3 DEF CommitBlock, CommitFails, CommitDone, Committing
  <2>4. CASE World \/ UNCHANGED vars
    BY <2>4 DEF World, Identify, Pull, Insert, PowerFail, Boot, vars, cache, flow
  <2>5. ASSUME NEW c \in Calls, Call(c)
        PROVE  FALSE
    BY <2>5 DEF Call
  <2> QED
    BY <2>1, <2>2, <2>3, <2>4, <2>5, Zenon DEF Next, Step
<1>2. ASSUME NEW v \in Volumes, Commit(v, "save")
      PROVE  x.fat = v.fat /\ x.dir = v.dir /\ x.data = pak.data
  <2>1. vol' = Stamped(v)
    BY <1>2 DEF Commit
  <2>2. vol' \in Volumes /\ vol'.fat = v.fat /\ vol'.dir = v.dir
    BY <2>1, StampedType
  <2> QED
    BY <2>2 DEF Volumes
<1> HIDE DEF x
<1>3. ASSUME call.kind \in Changing, Mounted, on_pak, pc = "body"
      PROVE  vol.fat = pak.fat /\ vol.dir = pak.dir
  <2>1. state = "PAK" /\ call.kind \notin {"mount", "format"}
    BY <1>0, <1>3 DEF CopyInv, OnThePak, Mounted, Changing
  <2> QED
    BY <1>0, <1>3, <2>1, TrustedIsThisPaks
<1>4. ASSUME NEW s \in Find(call.name), NEW v \in Volumes, call.kind = "delete", pc = "body",
             Commit(v, "save"), on_pak,
             v.fat = free_chain(vol.fat, vol.dir[s].first),
             v.dir = [vol.dir EXCEPT ![s] = NoEntry]
      PROVE  FileOn(x, n) = FileOn(pak, n)
  <2>1. call.name \in Names /\ Mounted /\ s \in Slots /\ vol.dir[s].name = call.name
    BY <1>4, ChangingCall, FindFacts DEF TypeOK, Changing
  <2>2. vol.fat = pak.fat /\ vol.dir = pak.dir
    BY <1>3, <1>4, <2>1 DEF Changing
  <2>3. x.fat = v.fat /\ x.dir = v.dir /\ x.data = pak.data
    BY <1>2, <1>4
  <2>4. Without(pak, s, call.name, x)
    BY <1>0, <1>4, <2>1, <2>2, <2>3 DEF Without, Dirs
  <2> QED
    BY <1>0, <2>1, <2>4, OthersDelete
<1>5. ASSUME NEW s \in Find(call.name), NEW v \in Volumes, call.kind = "rename", pc = "body",
             Commit(v, "save"), on_pak, RenameCheck(call.name, call.to) = "ok",
             v.fat = vol.fat, v.dir = [vol.dir EXCEPT ![s].name = call.to]
      PROVE  FileOn(x, n) = FileOn(pak, n)
  <2> DEFINE m == call.name
             to == call.to
  <2>1. /\ Mounted /\ s \in UsedSlots(vol) /\ m \in Names /\ to \in Names
        /\ SlotsOf(vol, m) = {s} /\ (to # m => SlotsOf(vol, to) = {})
    BY <1>0, <1>5, RenameFacts
  <2>2. vol.fat = pak.fat /\ vol.dir = pak.dir
    BY <1>3, <1>5, <2>1 DEF Changing
  <2>3. x.fat = v.fat /\ x.dir = v.dir /\ x.data = pak.data
    BY <1>2, <1>5
  <2>4. s \in UsedSlots(pak) /\ SlotsOf(pak, m) = {s} /\ (to # m => SlotsOf(pak, to) = {})
    BY <2>1, <2>2 DEF SlotsOf, UsedSlots
  <2>5. /\ x.fat = pak.fat /\ x.data = pak.data /\ x.dir[s].name = to
        /\ \A t \in Slots : /\ t # s => x.dir[t] = pak.dir[t]
                           /\ x.dir[t].size = pak.dir[t].size
                           /\ x.dir[t].first = pak.dir[t].first
    BY <1>0, <1>5, <2>1, <2>2, <2>3 DEF Dirs, Entries, UsedSlots
  <2> QED
    BY <1>0, <2>1, <2>4, <2>5, OthersRename
<1>6. ASSUME FinishWrite, Finished \in Volumes, Commit(Finished, "save"), on_pak
      PROVE  FileOn(x, n) = FileOn(pak, n)
  <2>1. OthersKept
    BY <1>6 DEF SwapInv, FinishWrite
  <2>2. x.fat = Finished.fat /\ x.dir = Finished.dir /\ x.data = pak.data
    BY <1>2, <1>6
  <2> QED
    BY <1>0, <1>6, <2>1, <2>2, OthersFinish
<1> QED
  BY <1>0, <1>1, <1>4, <1>5, <1>6, ChangeIsCommit DEF x

\* And a change is stored on the pak whose directory it is a change of: every file it does
\* not name is to be there what it was.
THEOREM NoPakIsWrittenOver == SwapSpec => NeverWrittenOver
<1>1. ASSUME TypeOK, SwapInv, [SwapNext]_swapVars, Readable(pak), pc # "commit",
             pc' = "commit", purpose' = "save", NEW n \in Names \ {call.name, call.to}
      PROVE  FileOn([vol' EXCEPT !.data = pak.data], n) = FileOn(pak, n)
  <2>1. [Next]_vars
    BY <1>1 DEF SwapNext, swapVars, Exchange, flow
  <2> QED
    BY <1>1, <2>1, SaveLeavesOthers
<1>2. TypeOK /\ SwapInv /\ [SwapNext]_swapVars
        => [Readable(pak) /\ pc # "commit" /\ pc' = "commit" /\ purpose' = "save" =>
              \A n \in Names \ {call.name, call.to} :
                FileOn([vol' EXCEPT !.data = pak.data], n) = FileOn(pak, n)]_swapVars
  BY <1>1
<1> QED
  BY <1>2, SwapInvariant, PTL DEF SwapSpec, NeverWrittenOver

-----------------------------------------------------------------------------
(* The check of a packet (Packet), bit by bit.                             *)

Octet == [1 .. 8 -> BOOLEAN]

\* The polynomial has a last term; with x^8 it has an even number of them.
Terms == {1, 6, 8}

LEMMA PolynomialIs == Polynomial \in Octet /\ \A i \in 1 .. 8 : Polynomial[i] = (i \in Terms)
<1>1. Polynomial = [i \in 1 .. 8 |-> (133 \div 2^(8 - i)) % 2 = 1]
  BY DEF Polynomial, BitsOf
<1>2. \A i \in 1 .. 8 : Polynomial[i] = ((133 \div 2^(8 - i)) % 2 = 1)
  BY <1>1, Zenon
<1>3. /\ 1 \in 1 .. 8 /\ 2 \in 1 .. 8 /\ 3 \in 1 .. 8 /\ 4 \in 1 .. 8
      /\ 5 \in 1 .. 8 /\ 6 \in 1 .. 8 /\ 7 \in 1 .. 8 /\ 8 \in 1 .. 8
  OBVIOUS
<1>4. /\ (133 \div 2^(8 - 1)) % 2 = 1 /\ (133 \div 2^(8 - 2)) % 2 = 0
      /\ (133 \div 2^(8 - 3)) % 2 = 0 /\ (133 \div 2^(8 - 4)) % 2 = 0
      /\ (133 \div 2^(8 - 5)) % 2 = 0 /\ (133 \div 2^(8 - 6)) % 2 = 1
      /\ (133 \div 2^(8 - 7)) % 2 = 0 /\ (133 \div 2^(8 - 8)) % 2 = 1
  OBVIOUS
<1>5. /\ Polynomial[1] = TRUE /\ Polynomial[2] = FALSE /\ Polynomial[3] = FALSE /\ Polynomial[4] = FALSE
      /\ Polynomial[5] = FALSE /\ Polynomial[6] = TRUE /\ Polynomial[7] = FALSE /\ Polynomial[8] = TRUE
  <2>1. 0 # 1
    OBVIOUS
  <2> QED
    BY <1>2, <1>3, <1>4, <2>1, Zenon
<1>6. Polynomial \in Octet
  BY <1>1 DEF Octet
<1>7. \A i \in 1 .. 8 : i = 1 \/ i = 2 \/ i = 3 \/ i = 4 \/ i = 5 \/ i = 6 \/ i = 7 \/ i = 8
  OBVIOUS
<1>8. /\ 1 \in Terms /\ 6 \in Terms /\ 8 \in Terms
      /\ 2 \notin Terms /\ 3 \notin Terms /\ 4 \notin Terms /\ 5 \notin Terms /\ 7 \notin Terms
  BY DEF Terms
<1>9. \A i \in 1 .. 8 : Polynomial[i] = (i \in Terms)
  <2> TAKE i \in 1 .. 8
  <2>1. CASE i \in {1, 6, 8}
    BY <1>5, <1>8, <2>1
  <2>2. CASE i \in {2, 3, 4, 5, 7}
    <3>1. Polynomial[i] = FALSE
      BY <1>5, <2>2
    <3>2. (i \in Terms) = FALSE
      BY <1>8, <2>2
    <3> QED
      BY <3>1, <3>2
  <2> QED
    BY <1>7, <2>1, <2>2
<1> QED
  BY <1>6, <1>9

LEMMA OctetLen == ASSUME NEW c \in Octet PROVE c \in Seq(BOOLEAN) /\ Len(c) = 8 /\ DOMAIN c = 1 .. 8
<1>1. c = [i \in 1 .. 8 |-> c[i]] /\ 8 \in Nat /\ \A i \in 1 .. 8 : c[i] \in BOOLEAN
  BY DEF Octet
<1>2. [i \in 1 .. 8 |-> c[i]] \in Seq(BOOLEAN)
  BY <1>1, IsASeq
<1>3. c \in Seq(BOOLEAN) /\ DOMAIN c = 1 .. 8
  BY <1>1, <1>2
<1>4. Len(c) = 8
  BY <1>3, LenProperties
<1> QED
  BY <1>3, <1>4

\* What a bit is after one more has come, before and after dividing.
Up(c, b, i) == IF i < 8 THEN c[i + 1] ELSE b
Turned(c, b, i) == Xor(Up(c, b, i), c[1] /\ i \in Terms)

LEMMA ShiftedIs ==
  ASSUME NEW c \in Octet, NEW b \in BOOLEAN
  PROVE  Shifted(c, b) = [i \in 1 .. 8 |-> Turned(c, b, i)] /\ Shifted(c, b) \in Octet
<1> DEFINE up == Append(Tail(c), b)
<1>1. c \in Seq(BOOLEAN) /\ Len(c) = 8 /\ c # <<>> /\ Head(c) = c[1] /\ c[1] \in BOOLEAN
  BY OctetLen
<1>2. Tail(c) \in Seq(BOOLEAN) /\ Len(Tail(c)) = 7 /\ \A i \in 1 .. 7 : Tail(c)[i] = c[i + 1]
  <2>1. \A s \in Seq(BOOLEAN) : Len(s) = 8 =>
          Tail(s) \in Seq(BOOLEAN) /\ Len(Tail(s)) = 7 /\ \A i \in 1 .. 7 : Tail(s)[i] = s[i + 1]
    <3> TAKE s \in Seq(BOOLEAN)
    <3> HAVE Len(s) = 8
    <3>1. s # <<>>
      BY SMTT(30)
    <3> QED
      <4>1. /\ Tail(s) \in Seq(BOOLEAN) /\ Len(Tail(s)) = Len(s) - 1
            /\ \A i \in 1 .. Len(Tail(s)) : Tail(s)[i] = s[i + 1]
        BY <3>1, HeadTailProperties
      <4>2. Len(Tail(s)) = 7
        BY <4>1
      <4> QED
        BY <4>1, <4>2
  <2> QED
    BY <1>1, <2>1
<1>3. up \in Seq(BOOLEAN) /\ Len(up) = 8 /\ \A i \in 1 .. 8 : up[i] = Up(c, b, i)
  <2>1. up \in Seq(BOOLEAN) /\ Len(up) = 7 + 1
    BY <1>2, AppendProperties
  <2>5. /\ \A i \in 1 .. Len(Tail(c)) : up[i] = Tail(c)[i]
        /\ up[Len(Tail(c)) + 1] = b
    <3>1. \A s \in Seq(BOOLEAN) : Append(s, b)[Len(s) + 1] = b /\ \A i \in 1 .. Len(s) : Append(s, b)[i] = s[i]
      OBVIOUS
    <3> QED
      BY <1>2, <3>1
  <2>6. Len(Tail(c)) + 1 = 8
    BY <1>2
  <2>2. \A i \in 1 .. 7 : up[i] = Tail(c)[i]
    BY <1>2, <2>5
  <2>3. up[8] = b
    BY <2>5, <2>6, Zenon
  <2>4. ASSUME NEW i \in 1 .. 8 PROVE up[i] = Up(c, b, i)
    <3> HIDE DEF up
    <3>1. CASE i < 8
      <4>1. i \in 1 .. 7
        BY <3>1
      <4> QED
        BY <1>2, <2>2, <3>1, <4>1 DEF Up
    <3>2. CASE i = 8
      BY <2>3, <3>2 DEF Up
    <3> QED
      BY <3>1, <3>2
  <2>7. Len(up) = 8
    BY <2>1
  <2> QED
    BY <2>1, <2>4, <2>7
<1>4. up = [i \in 1 .. 8 |-> up[i]] /\ \A i \in 1 .. 8 : up[i] \in BOOLEAN
  <2> HIDE DEF up
  <2>1. up \in [1 .. 8 -> BOOLEAN]
    BY <1>3, LenProperties
  <2> QED
    BY <2>1
<1> HIDE DEF up
<1>5. up = [i \in 1 .. 8 |-> Up(c, b, i)] /\ DOMAIN up = 1 .. 8
  BY <1>3, <1>4
<1>6. Shifted(c, b) = IF c[1] THEN Xors(up, Polynomial) ELSE up
  BY <1>1 DEF Shifted, up
<1>7. CASE c[1]
  <2>1. Xors(up, Polynomial) = [i \in 1 .. 8 |-> Xor(up[i], Polynomial[i])]
    BY <1>5 DEF Xors
  <2>2. \A i \in 1 .. 8 : Xor(up[i], Polynomial[i]) = Turned(c, b, i)
    BY <1>3, <1>7, PolynomialIs DEF Turned, Xor
  <2>3. Shifted(c, b) = [i \in 1 .. 8 |-> Turned(c, b, i)]
    BY <1>6, <1>7, <2>1, <2>2
  <2>4. \A i \in 1 .. 8 : Turned(c, b, i) \in BOOLEAN
    BY DEF Turned, Xor
  <2> QED
    BY <2>3, <2>4 DEF Octet
<1>8. CASE ~ c[1]
  <2>1. \A i \in 1 .. 8 : up[i] = Turned(c, b, i)
    <3> TAKE i \in 1 .. 8
    <3>1. (c[1] /\ i \in Terms) = FALSE
      BY <1>8
    <3>2. up[i] = Up(c, b, i) /\ up[i] \in BOOLEAN
      BY <1>3, <1>4
    <3> QED
      BY <3>1, <3>2 DEF Turned, Xor
  <2>2. Shifted(c, b) = [i \in 1 .. 8 |-> Turned(c, b, i)]
    BY <1>4, <1>6, <1>8, <2>1
  <2>3. \A i \in 1 .. 8 : Turned(c, b, i) \in BOOLEAN
    BY DEF Turned, Xor
  <2> QED
    BY <2>2, <2>3 DEF Octet
<1> QED
  BY <1>1, <1>7, <1>8

\* It is linear:
LEMMA ShiftedXors ==
  ASSUME NEW c \in Octet, NEW d \in Octet, NEW b \in BOOLEAN, NEW e \in BOOLEAN
  PROVE  Xors(c, d) \in Octet /\ Shifted(Xors(c, d), Xor(b, e)) = Xors(Shifted(c, b), Shifted(d, e))
<1> DEFINE x == Xors(c, d)
<1>1. x = [i \in 1 .. 8 |-> Xor(c[i], d[i])]
  BY OctetLen DEF Xors
<1>2. x \in Octet /\ \A i \in 1 .. 8 : x[i] = Xor(c[i], d[i])
  BY <1>1 DEF Octet, Xor
<1> HIDE DEF x
<1>3. Xor(b, e) \in BOOLEAN
  BY DEF Xor
<1>4. Shifted(x, Xor(b, e)) = [i \in 1 .. 8 |-> Turned(x, Xor(b, e), i)]
  BY <1>2, <1>3, ShiftedIs
<1>5. /\ Shifted(c, b) = [i \in 1 .. 8 |-> Turned(c, b, i)] /\ Shifted(c, b) \in Octet
      /\ Shifted(d, e) = [i \in 1 .. 8 |-> Turned(d, e, i)]
  BY ShiftedIs
<1>6. Xors(Shifted(c, b), Shifted(d, e)) = [i \in 1 .. 8 |-> Xor(Turned(c, b, i), Turned(d, e, i))]
  BY <1>5, OctetLen DEF Xors
<1>7. ASSUME NEW i \in 1 .. 8
      PROVE  Turned(x, Xor(b, e), i) = Xor(Turned(c, b, i), Turned(d, e, i))
  <2>1. Up(x, Xor(b, e), i) = Xor(Up(c, b, i), Up(d, e, i))
    BY <1>2 DEF Up
  <2>2. Up(c, b, i) \in BOOLEAN /\ Up(d, e, i) \in BOOLEAN
    BY DEF Up, Octet
  <2>3. x[1] = Xor(c[1], d[1]) /\ c[1] \in BOOLEAN /\ d[1] \in BOOLEAN
    BY <1>2 DEF Octet
  <2>5. (i \in Terms) \in BOOLEAN
    OBVIOUS
  <2> QED
    <3> DEFINE t == i \in Terms
    <3>1. Turned(x, Xor(b, e), i) = Xor(Up(x, Xor(b, e), i), x[1] /\ t)
      BY Zenon DEF Turned
    <3>2. Turned(c, b, i) = Xor(Up(c, b, i), c[1] /\ t) /\ Turned(d, e, i) = Xor(Up(d, e, i), d[1] /\ t)
      BY Zenon DEF Turned
    <3>3. t \in BOOLEAN
      BY <2>5
    <3> HIDE DEF t
    <3>4. Xor(Xor(Up(c, b, i), Up(d, e, i)), Xor(c[1], d[1]) /\ t)
            = Xor(Xor(Up(c, b, i), c[1] /\ t), Xor(Up(d, e, i), d[1] /\ t))
      <4> PICK p, q, r, u : /\ p = Up(c, b, i) /\ q = Up(d, e, i) /\ r = c[1] /\ u = d[1]
                            /\ p \in BOOLEAN /\ q \in BOOLEAN /\ r \in BOOLEAN /\ u \in BOOLEAN
        BY <2>2, <2>3
      <4>1. Xor(Xor(p, q), Xor(r, u) /\ t) = Xor(Xor(p, r /\ t), Xor(q, u /\ t))
        BY <3>3 DEF Xor
      <4> QED
        BY <4>1, Zenon
    <3> QED
      BY <2>1, <2>3, <3>1, <3>2, <3>4
<1> QED
  BY <1>2, <1>4, <1>6, <1>7 DEF x

\* The register after each bit: what pak_data_crc computes, of any bits.
Register(all) ==
  LET crc[i \in 0 .. Len(all)] == IF i = 0 THEN Zeroes(8) ELSE Shifted(crc[i - 1], all[i])
  IN  crc

LEMMA ZeroesAre == \A n \in Nat : Zeroes(n) \in Seq(BOOLEAN) /\ Len(Zeroes(n)) = n /\ \A i \in 1 .. n : Zeroes(n)[i] = FALSE
<1> TAKE n \in Nat
<1>1. Zeroes(n) = [i \in 1 .. n |-> FALSE]
  BY DEF Zeroes
<1>2. [i \in 1 .. n |-> FALSE] \in Seq(BOOLEAN)
  BY IsASeq
<1>3. Zeroes(n) \in Seq(BOOLEAN) /\ DOMAIN Zeroes(n) = 1 .. n
  BY <1>1, <1>2
<1>4. Len(Zeroes(n)) = n
  BY <1>3, LenProperties
<1>5. \A i \in 1 .. n : Zeroes(n)[i] = FALSE
  BY <1>1
<1> QED
  BY <1>3, <1>4, <1>5

LEMMA ZeroOctet == Zeroes(8) \in Octet /\ \A i \in 1 .. 8 : Zeroes(8)[i] = FALSE
BY DEF Zeroes, Octet

\* (The function is a CHOOSE to the provers.)
LEMMA RegisterTurns ==
  ASSUME NEW s \in Seq(BOOLEAN)
  PROVE  /\ Register(s) \in [0 .. Len(s) -> Octet] /\ Register(s)[0] = Zeroes(8)
         /\ \A i \in 1 .. Len(s) : Register(s)[i] = Shifted(Register(s)[i - 1], s[i])
<1> DEFINE m == Len(s)
           step == [i \in 1 .. m |-> [x \in Octet |-> Shifted(x, s[i])]]
           Is(o) == o = [i \in 0 .. Len(s) |-> IF i = 0 THEN Zeroes(8) ELSE Shifted(o[i - 1], s[i])]
           c == CHOOSE o : Is(o)
<1>1. m \in Nat /\ Zeroes(8) \in Octet /\ \A i \in 1 .. m : s[i] \in BOOLEAN
  BY ZeroOctet
<1>2. ASSUME NEW i \in 1 .. m, NEW x \in Octet
      PROVE  Shifted(x, s[i]) \in Octet /\ step[i][x] = Shifted(x, s[i])
  <2>1. s[i] \in BOOLEAN
    BY <1>1
  <2>2. Shifted(x, s[i]) \in Octet
    BY <2>1, ShiftedIs
  <2> QED
    BY <2>2
<1>3. \A i \in 1 .. m : \A x \in Octet : step[i][x] \in Octet
  BY <1>2
<1> HIDE DEF step
<1>4. PICK P \in [0 .. m -> Octet] : LoopOf(P, m, Zeroes(8), step)
  BY <1>1, <1>3, LoopExists
<1>5. ASSUME NEW i \in 0 .. m PROVE P[i] = IF i = 0 THEN Zeroes(8) ELSE Shifted(P[i - 1], s[i])
  <2>1. CASE i = 0
    BY <1>4, <2>1 DEF LoopOf
  <2>2. CASE i # 0
    <3>1. i \in 1 .. m /\ i - 1 \in 0 .. m
      BY <1>1, <2>2
    <3>2. P[i] = step[i][P[i - 1]] /\ P[i - 1] \in Octet
      BY <1>4, <3>1 DEF LoopOf
    <3> QED
      BY <1>2, <2>2, <3>1, <3>2
  <2> QED
    BY <2>1, <2>2
<1>6. P = [i \in 0 .. m |-> P[i]]
  BY <1>4
<1>7. Is(P)
  BY <1>5, <1>6
<1> HIDE DEF Is
<1>8. Is(c)
  BY <1>7
<1>9. c = Register(s)
  BY Zenon DEF Register, Is
<1> HIDE DEF c
<1>10. c = [i \in 0 .. m |-> IF i = 0 THEN Zeroes(8) ELSE Shifted(c[i - 1], s[i])]
  BY <1>8 DEF Is
<1>11. c[0] = Zeroes(8)
  BY <1>1, <1>10
<1>12. ASSUME NEW i \in 1 .. m PROVE c[i] = Shifted(c[i - 1], s[i])
  <2>1. i \in 0 .. m /\ i # 0
    BY <1>1
  <2> QED
    BY <1>10, <2>1
<1>13. \A i \in 0 .. m : c[i] \in Octet
  <2> DEFINE G == {i \in 0 .. m : c[i] \in Octet}
  <2>1. 0 \in G
    BY <1>1, <1>11
  <2>2. ASSUME NEW i \in 1 .. m, i - 1 \in G PROVE i \in G
    <3>1. c[i - 1] \in Octet /\ i \in 0 .. m
      BY <1>1, <2>2
    <3>2. c[i] \in Octet
      <4>1. s[i] \in BOOLEAN
        BY <1>1
      <4>2. Shifted(c[i - 1], s[i]) \in Octet
        BY <3>1, <4>1, ShiftedIs
      <4> QED
        BY <1>12, <4>2
    <3> QED
      BY <3>1, <3>2
  <2> HIDE DEF G
  <2>3. \A i \in 0 .. m : i \in G
    BY <1>1, <2>1, <2>2, UpTo
  <2> QED
    BY <2>3 DEF G
<1> QED
  BY <1>9, <1>10, <1>11, <1>12, <1>13

\* It depends on the bits so far only, and is linear too.
LEMMA RegisterSame ==
  ASSUME NEW s \in Seq(BOOLEAN), NEW t \in Seq(BOOLEAN), NEW n \in Nat, n <= Len(s), n <= Len(t),
         \A i \in 1 .. n : s[i] = t[i]
  PROVE  \A i \in 0 .. n : Register(s)[i] = Register(t)[i]
<1> DEFINE G == {i \in 0 .. n : Register(s)[i] = Register(t)[i]}
<1>1. 0 \in G
  BY RegisterTurns
<1>2. ASSUME NEW i \in 1 .. n, i - 1 \in G PROVE i \in G
  <2>1. i \in 1 .. Len(s) /\ i \in 1 .. Len(t) /\ Register(s)[i - 1] = Register(t)[i - 1]
    BY <1>2
  <2>2. Register(s)[i] = Shifted(Register(s)[i - 1], s[i]) /\ Register(t)[i] = Shifted(Register(t)[i - 1], t[i])
    BY <2>1, RegisterTurns
  <2> QED
    BY <2>1, <2>2
<1> HIDE DEF G
<1>3. \A i \in 0 .. n : i \in G
  BY <1>1, <1>2, UpTo
<1> QED
  BY <1>3 DEF G

LEMMA RegisterXors ==
  ASSUME NEW s \in Seq(BOOLEAN), NEW t \in Seq(BOOLEAN), NEW u \in Seq(BOOLEAN),
         Len(t) = Len(s), Len(u) = Len(s), \A i \in 1 .. Len(s) : u[i] = Xor(s[i], t[i])
  PROVE  \A i \in 0 .. Len(s) : Register(u)[i] = Xors(Register(s)[i], Register(t)[i])
<1> DEFINE G == {i \in 0 .. Len(s) : Register(u)[i] = Xors(Register(s)[i], Register(t)[i])}
<1>0. Len(s) \in Nat
  OBVIOUS
<1>1. 0 \in G
  <2>1. Xors(Zeroes(8), Zeroes(8)) = Zeroes(8)
    BY DEF Xors, Xor, Zeroes
  <2>2. Register(u)[0] = Zeroes(8) /\ Register(s)[0] = Zeroes(8) /\ Register(t)[0] = Zeroes(8)
    BY RegisterTurns
  <2> QED
    BY <1>0, <2>1, <2>2
<1>2. ASSUME NEW i \in 1 .. Len(s), i - 1 \in G PROVE i \in G
  <2> PICK a, b : a = Register(s)[i - 1] /\ b = Register(t)[i - 1]
    OBVIOUS
  <2>1. a \in Octet /\ b \in Octet /\ s[i] \in BOOLEAN /\ t[i] \in BOOLEAN
    <3>1. i - 1 \in 0 .. Len(s) /\ i - 1 \in 0 .. Len(t) /\ i \in 1 .. Len(t)
      BY <1>0
    <3>2. Register(s) \in [0 .. Len(s) -> Octet] /\ Register(t) \in [0 .. Len(t) -> Octet]
      BY RegisterTurns
    <3>3. Register(s)[i - 1] \in Octet
      BY <3>1, <3>2
    <3>4. Register(t)[i - 1] \in Octet
      BY <3>1, <3>2
    <3>5. s[i] \in BOOLEAN /\ t[i] \in BOOLEAN
      BY <3>1
    <3> QED
      BY <3>3, <3>4, <3>5
  <2>2. Register(s)[i] = Shifted(a, s[i]) /\ Register(t)[i] = Shifted(b, t[i])
    BY RegisterTurns
  <2>3. Register(u)[i] = Shifted(Register(u)[i - 1], u[i])
    BY RegisterTurns
  <2>4. Register(u)[i] = Shifted(Xors(a, b), Xor(s[i], t[i]))
    BY <1>2, <2>3
  <2>5. Shifted(Xors(a, b), Xor(s[i], t[i])) = Xors(Shifted(a, s[i]), Shifted(b, t[i]))
    BY <2>1, ShiftedXors
  <2> QED
    BY <1>0, <2>2, <2>4, <2>5
<1> HIDE DEF G
<1>3. \A i \in 0 .. Len(s) : i \in G
  BY <1>0, <1>1, <1>2, UpTo
<1> QED
  BY <1>3 DEF G

\* Up to eight bits that come into an empty register are all there.
LEMMA Fed ==
  ASSUME NEW s \in Seq(BOOLEAN), NEW j \in Nat, NEW m \in 0 .. 8, j + m <= Len(s), Register(s)[j] = Zeroes(8)
  PROVE  \A k \in 0 .. m : \A i \in 1 .. 8 :
           Register(s)[j + k][i] = IF i > 8 - k THEN s[j + k + i - 8] ELSE FALSE
<1> DEFINE Bit(k, i) == IF i > 8 - k THEN s[j + k + i - 8] ELSE FALSE
           G == {k \in 0 .. m : \A i \in 1 .. 8 : Register(s)[j + k][i] = Bit(k, i)}
<1>0. Len(s) \in Nat /\ m \in Nat
  OBVIOUS
<1>1. 0 \in G
  <2>1. ASSUME NEW i \in 1 .. 8 PROVE Register(s)[j + 0][i] = Bit(0, i)
    <3>1. j + 0 = j /\ ~ (i > 8 - 0)
      OBVIOUS
    <3>2. Bit(0, i) = FALSE
      BY <3>1
    <3> QED
      BY <3>1, <3>2, ZeroOctet
  <2>2. 0 \in 0 .. m
    BY <1>0
  <2> HIDE DEF Bit
  <2> QED
    BY <2>1, <2>2
<1>2. ASSUME NEW k \in 1 .. m, k - 1 \in G PROVE k \in G
  <2> PICK c, n : c = Register(s)[j + (k - 1)] /\ n = j + k
    OBVIOUS
  <2>1. /\ n \in 1 .. Len(s) /\ n - 1 = j + (k - 1) /\ n - 1 \in 0 .. Len(s) /\ k - 1 \in 0 .. 7
        /\ 1 \in 1 .. 8 /\ ~ (1 > 8 - (k - 1))
    BY <1>0
  <2>2. c \in Octet /\ s[n] \in BOOLEAN /\ Register(s)[n] = Shifted(c, s[n])
    <3>1. Register(s) \in [0 .. Len(s) -> Octet]
      BY RegisterTurns
    <3>2. Register(s)[n - 1] \in Octet
      BY <2>1, <3>1
    <3>3. Register(s)[n] = Shifted(Register(s)[n - 1], s[n])
      BY <2>1, RegisterTurns
    <3>4. s[n] \in BOOLEAN
      BY <2>1
    <3> QED
      BY <2>1, <3>2, <3>3, <3>4
  <2>3. \A i \in 1 .. 8 : c[i] = Bit(k - 1, i)
    BY <1>2
  <2>4. c[1] = FALSE
    BY <2>1, <2>3
  <2>5. ASSUME NEW i \in 1 .. 8 PROVE Register(s)[n][i] = Bit(k, i)
    <3>1. Shifted(c, s[n])[i] = Turned(c, s[n], i)
      <4>1. Shifted(c, s[n]) = [h \in 1 .. 8 |-> Turned(c, s[n], h)]
        BY <2>2, ShiftedIs, Zenon
      <4> QED
        BY <4>1, Zenon
    <3>2. Up(c, s[n], i) \in BOOLEAN
      BY <2>2 DEF Up, Octet
    <3>3. Turned(c, s[n], i) = Up(c, s[n], i)
      BY <2>4, <3>2 DEF Turned, Xor
    <3>4. Up(c, s[n], i) = Bit(k, i)
      <4>1. CASE i < 8
        <5>1. i + 1 \in 1 .. 8 /\ (i + 1 > 8 - (k - 1) <=> i > 8 - k) /\ j + (k - 1) + (i + 1) - 8 = j + k + i - 8
          BY <4>1
        <5>2. c[i + 1] = Bit(k - 1, i + 1)
          BY <2>3, <5>1
        <5> QED
          BY <4>1, <5>1, <5>2 DEF Up
      <4>2. CASE i = 8
        <5>1. 8 > 8 - k /\ j + k + 8 - 8 = n /\ ~ (8 < 8)
          OBVIOUS
        <5> QED
          BY <4>2, <5>1 DEF Up
      <4>3. i < 8 \/ i = 8
        OBVIOUS
      <4> HIDE DEF Bit
      <4> QED
        BY <4>1, <4>2, <4>3, Zenon
    <3>5. Register(s)[n][i] = Shifted(c, s[n])[i]
      BY <2>2
    <3> QED
      BY <3>1, <3>3, <3>4, <3>5, Zenon
  <2>6. k \in 0 .. m /\ n = j + k
    BY <1>0
  <2> QED
    BY <2>5, <2>6
<1> HIDE DEF G
<1>3. \A k \in 0 .. m : k \in G
  BY <1>0, <1>1, <1>2, UpTo
<1> QED
  BY <1>3 DEF G

\* What is not zero stays so, for the polynomial has a last term; and what is does.
LEMMA StaysZero ==
  ASSUME NEW s \in Seq(BOOLEAN), NEW j \in Nat, NEW n \in Nat, j <= n, n <= Len(s),
         \A i \in j + 1 .. n : s[i] = FALSE
  PROVE  Register(s)[n] = Zeroes(8) <=> Register(s)[j] = Zeroes(8)
<1>1. ASSUME NEW c \in Octet PROVE Shifted(c, FALSE) = Zeroes(8) <=> c = Zeroes(8)
  <2>1. Shifted(c, FALSE) \in Octet /\ \A i \in 1 .. 8 : Shifted(c, FALSE)[i] = Turned(c, FALSE, i)
    BY ShiftedIs
  <2>2. \A d \in Octet : d = Zeroes(8) <=> \A i \in 1 .. 8 : d[i] = FALSE
    BY ZeroOctet DEF Octet
  <2>3. CASE c = Zeroes(8)
    <3>1. \A i \in 1 .. 8 : c[i] = FALSE
      BY <2>3, ZeroOctet
    <3>2. ASSUME NEW i \in 1 .. 8 PROVE Turned(c, FALSE, i) = FALSE
      <4>1. Up(c, FALSE, i) = FALSE
        BY <3>1 DEF Up
      <4>2. c[1] = FALSE
        BY <3>1
      <4> QED
        BY <4>1, <4>2 DEF Turned, Xor
    <3> QED
      BY <2>1, <2>2, <2>3, <3>2
  <2>4. CASE Shifted(c, FALSE) = Zeroes(8)
    <3>1. \A i \in 1 .. 8 : Turned(c, FALSE, i) = FALSE
      BY <2>1, <2>4, ZeroOctet
    <3>2. c[1] = FALSE
      <4>1. 8 \in Terms /\ c[1] \in BOOLEAN /\ 8 \in 1 .. 8 /\ ~ (8 < 8)
        BY DEF Terms, Octet
      <4>2. Turned(c, FALSE, 8) = FALSE
        BY <3>1, <4>1, Zenon
      <4>3. (FALSE # (c[1] /\ 8 \in Terms)) = FALSE
        BY <4>1, <4>2, Zenon DEF Turned, Up, Xor
      <4> QED
        BY <4>1, <4>3
    <3>3. ASSUME NEW i \in 1 .. 7 PROVE c[i + 1] = FALSE
      <4>1. i \in 1 .. 8 /\ i < 8 /\ i + 1 \in 1 .. 8
        OBVIOUS
      <4>2. Turned(c, FALSE, i) = FALSE
        BY <3>1, <4>1, Zenon
      <4>3. Up(c, FALSE, i) = c[i + 1]
        BY <4>1, Zenon DEF Up
      <4>4. (c[i + 1] # (c[1] /\ i \in Terms)) = FALSE
        BY <4>2, <4>3, Zenon DEF Turned, Xor
      <4>5. c[i + 1] \in BOOLEAN
        BY <4>1 DEF Octet
      <4> QED
        BY <3>2, <4>4, <4>5
    <3>4. ASSUME NEW i \in 1 .. 8 PROVE c[i] = FALSE
      <4>1. CASE i = 1
        BY <3>2, <4>1
      <4>2. CASE i # 1
        <5>1. i - 1 \in 1 .. 7 /\ (i - 1) + 1 = i
          BY <4>2
        <5> QED
          BY <3>3, <5>1
      <4> QED
        BY <4>1, <4>2
    <3> QED
      BY <2>2, <2>4, <3>4
  <2> QED
    BY <2>3, <2>4
<1> DEFINE G == {k \in 0 .. n - j : Register(s)[j + k] = Zeroes(8) <=> Register(s)[j] = Zeroes(8)}
<1>2. Len(s) \in Nat /\ n - j \in Nat
  OBVIOUS
<1>3. 0 \in G
  <2>1. j + 0 = j
    OBVIOUS
  <2> QED
    BY <1>2, <2>1
<1>4. ASSUME NEW k \in 1 .. n - j, k - 1 \in G PROVE k \in G
  <2> PICK c, p : c = Register(s)[j + (k - 1)] /\ p = j + k
    OBVIOUS
  <2>1. p \in 1 .. Len(s) /\ p - 1 = j + (k - 1) /\ p - 1 \in 0 .. Len(s) /\ p \in j + 1 .. n
    BY <1>2
  <2>2. c \in Octet /\ Register(s)[p] = Shifted(c, s[p]) /\ s[p] = FALSE
    BY <2>1, RegisterTurns
  <2>3. Register(s)[p] = Zeroes(8) <=> c = Zeroes(8)
    BY <1>1, <2>2
  <2> QED
    BY <1>2, <1>4, <2>3
<1> HIDE DEF G
<1>5. \A k \in 0 .. n - j : k \in G
  BY <1>2, <1>3, <1>4, UpTo
<1>6. n - j \in G /\ j + (n - j) = n
  BY <1>2, <1>5
<1> QED
  BY <1>6 DEF G

LEMMA CheckIs ==
  ASSUME NEW page \in Seq(BOOLEAN)
  PROVE  /\ pak_data_crc(page) = Register(page \o Zeroes(8))[Len(page) + 8]
         /\ pak_data_crc(page) \in Octet
<1> DEFINE all == page \o Zeroes(8)
<1>1. all \in Seq(BOOLEAN) /\ Len(all) = Len(page) + 8
  <2>1. Zeroes(8) \in Seq(BOOLEAN) /\ Len(Zeroes(8)) = 8
    BY ZeroesAre
  <2>2. /\ page \o Zeroes(8) \in Seq(BOOLEAN)
        /\ Len(page \o Zeroes(8)) = Len(page) + Len(Zeroes(8))
    BY <2>1, ConcatProperties
  <2> QED
    BY <2>1, <2>2
<1>2. pak_data_crc(page) = Register(all)[Len(all)]
  BY Zenon DEF pak_data_crc, Register
<1> HIDE DEF all
<1>3. Register(all)[Len(all)] \in Octet
  BY <1>1, RegisterTurns
<1> QED
  BY <1>1, <1>2, <1>3 DEF all

\* Two octets are the same when nothing is left of their difference.
LEMMA SameOctet ==
  ASSUME NEW c \in Octet, NEW d \in Octet
  PROVE  Xors(c, d) = Zeroes(8) <=> c = d
<1>1. Xors(c, d) = [i \in 1 .. 8 |-> Xor(c[i], d[i])]
  BY OctetLen DEF Xors
<1>2. c = [i \in 1 .. 8 |-> c[i]] /\ d = [i \in 1 .. 8 |-> d[i]] /\ \A i \in 1 .. 8 : c[i] \in BOOLEAN /\ d[i] \in BOOLEAN
  BY DEF Octet
<1>3. Zeroes(8) = [i \in 1 .. 8 |-> FALSE]
  BY DEF Zeroes
<1>4. CASE c = d
  <2>1. \A i \in 1 .. 8 : Xor(c[i], d[i]) = FALSE
    BY <1>4 DEF Xor
  <2> QED
    BY <1>1, <1>3, <1>4, <2>1
<1>5. CASE Xors(c, d) = Zeroes(8)
  <2>1. ASSUME NEW i \in 1 .. 8 PROVE c[i] = d[i]
    <3>1. Xors(c, d)[i] = Xor(c[i], d[i]) /\ Zeroes(8)[i] = FALSE
      BY <1>1, <1>3
    <3>2. (c[i] # d[i]) = FALSE
      BY <1>5, <3>1, Zenon DEF Xor
    <3> QED
      BY <3>2
  <2> QED
    BY <1>2, <1>5, <2>1
<1> QED
  BY <1>4, <1>5

\* What arrives is taken when the register is empty after all of it.
LEMMA PassesIs ==
  ASSUME NEW p \in Seq(BOOLEAN), NEW n \in Nat, n = Len(p), n >= 8
  PROVE  Passes(p) <=> Register(p)[n] = Zeroes(8)
<1> DEFINE page == SubSeq(p, 1, n - 8)
           c == SubSeq(p, n - 7, n)
           u == page \o Zeroes(8)
           T(i) == IF i <= n - 8 THEN FALSE ELSE p[i]
           t == [i \in 1 .. n |-> T(i)]
<1>1. page \in Seq(BOOLEAN) /\ Len(page) = n - 8 /\ \A i \in 1 .. n - 8 : page[i] = p[i]
  <2>1. n - 8 \in Nat /\ n - 8 \in 1 - 1 .. Len(p) /\ 1 \in 1 .. Len(p) + 1
    OBVIOUS
  <2> QED
    BY <2>1, SubSeqProperties
<1>2. c \in Seq(BOOLEAN) /\ Len(c) = 8 /\ \A i \in 1 .. 8 : c[i] = p[n - 8 + i]
  <2>1. n - 7 \in 1 .. Len(p) + 1 /\ n \in n - 7 - 1 .. Len(p)
    OBVIOUS
  <2>2. /\ c \in Seq(BOOLEAN)
        /\ Len(c) = IF n - 7 <= n THEN n - (n - 7) + 1 ELSE 0
        /\ \A i \in 1 .. n - (n - 7) + 1 : c[i] = p[n - 7 + i - 1]
    BY <2>1, SubSeqProperties
  <2>3. n - 7 <= n /\ n - (n - 7) + 1 = 8 /\ \A i \in 1 .. 8 : n - 7 + i - 1 = n - 8 + i
    OBVIOUS
  <2> HIDE DEF c
  <2> QED
    BY <2>2, <2>3
<1> HIDE DEF page, c
<1>3. c \in Octet
  <2>1. c = [i \in 1 .. Len(c) |-> c[i]] /\ \A i \in 1 .. Len(c) : c[i] \in BOOLEAN
    BY <1>2
  <2> QED
    BY <1>2, <2>1 DEF Octet
<1>4. /\ u \in Seq(BOOLEAN) /\ Len(u) = n
      /\ \A i \in 1 .. n : u[i] = IF i <= n - 8 THEN p[i] ELSE FALSE
  <2>1. Zeroes(8) \in Seq(BOOLEAN) /\ Len(Zeroes(8)) = 8 /\ \A i \in 1 .. 8 : Zeroes(8)[i] = FALSE
    BY ZeroesAre
  <2>5. /\ page \o Zeroes(8) \in Seq(BOOLEAN)
        /\ Len(page \o Zeroes(8)) = Len(page) + Len(Zeroes(8))
        /\ \A i \in 1 .. Len(page) + Len(Zeroes(8)) :
             (page \o Zeroes(8))[i] = IF i <= Len(page) THEN page[i] ELSE Zeroes(8)[i - Len(page)]
    <3> PICK z \in Seq(BOOLEAN) : z = Zeroes(8)
      BY <2>1
    <3> QED
      BY <1>1, ConcatProperties
  <2> HIDE DEF u
  <2>2. u \in Seq(BOOLEAN) /\ Len(u) = Len(page) + 8
    BY <2>1, <2>5 DEF u
  <2>3. \A i \in 1 .. Len(page) + 8 : u[i] = IF i <= Len(page) THEN page[i] ELSE Zeroes(8)[i - Len(page)]
    BY <2>1, <2>5 DEF u
  <2>4. ASSUME NEW i \in 1 .. n PROVE u[i] = IF i <= n - 8 THEN p[i] ELSE FALSE
    <3>1. CASE i <= n - 8
      <4>1. i \in 1 .. Len(page) + 8 /\ i <= Len(page) /\ i \in 1 .. n - 8
        BY <1>1, <3>1
      <4> QED
        BY <1>1, <2>3, <3>1, <4>1
    <3>2. CASE ~ (i <= n - 8)
      <4>1. i \in 1 .. Len(page) + 8 /\ ~ (i <= Len(page)) /\ i - Len(page) \in 1 .. 8
        BY <1>1, <3>2
      <4>2. u[i] = Zeroes(8)[i - Len(page)]
        BY <2>3, <4>1
      <4> QED
        BY <2>1, <3>2, <4>1, <4>2
    <3> QED
      BY <3>1, <3>2
  <2>6. Len(u) = n
    BY <1>1, <2>2
  <2> QED
    BY <2>2, <2>4, <2>6
<1>5. t \in Seq(BOOLEAN) /\ Len(t) = n /\ \A i \in 1 .. n : t[i] = T(i)
  <2>1. ASSUME NEW i \in 1 .. n PROVE T(i) \in BOOLEAN
    <3>1. p[i] \in BOOLEAN
      OBVIOUS
    <3> QED
      BY <3>1
  <2> HIDE DEF T
  <2>2. t \in Seq(BOOLEAN) /\ DOMAIN t = 1 .. n
    BY <2>1, IsASeq
  <2>3. Len(t) = n
    BY <2>2, LenProperties
  <2> QED
    BY <2>2, <2>3
<1> HIDE DEF u, t
<1>6. \A i \in 1 .. Len(u) : p[i] = Xor(u[i], t[i])
  <2> SUFFICES ASSUME NEW i \in 1 .. n PROVE p[i] = Xor(u[i], t[i])
    BY <1>4
  <2>1. p[i] \in BOOLEAN
    OBVIOUS
  <2>2. CASE i <= n - 8
    <3>1. u[i] = p[i] /\ t[i] = FALSE
      BY <1>4, <1>5, <2>2
    <3> QED
      BY <2>1, <3>1 DEF Xor
  <2>3. CASE ~ (i <= n - 8)
    <3>1. u[i] = FALSE /\ t[i] = p[i]
      BY <1>4, <1>5, <2>3
    <3> QED
      BY <2>1, <3>1 DEF Xor
  <2> QED
    BY <2>2, <2>3
<1>7. Register(p)[n] = Xors(Register(u)[n], Register(t)[n])
  <2>3. Len(t) = Len(u) /\ Len(p) = Len(u)
    BY <1>4, <1>5
  <2>1. \A i \in 0 .. Len(u) : Register(p)[i] = Xors(Register(u)[i], Register(t)[i])
    BY <1>4, <1>5, <1>6, <2>3, RegisterXors
  <2>2. n \in 0 .. Len(u)
    BY <1>4
  <2> QED
    BY <2>1, <2>2
<1>8. Register(t)[n - 8] = Zeroes(8)
  <2>1. Register(t)[0] = Zeroes(8)
    BY <1>5, RegisterTurns
  <2>2. n - 8 \in Nat /\ 0 \in Nat /\ 0 <= n - 8 /\ n - 8 <= Len(t) /\ \A i \in 0 + 1 .. n - 8 : i \in 1 .. n /\ i <= n - 8
    BY <1>5
  <2>3. \A i \in 0 + 1 .. n - 8 : t[i] = FALSE
    BY <1>5, <2>2
  <2> QED
    BY <1>5, <2>1, <2>2, <2>3, StaysZero
<1>9. Register(t)[n] = c
  <2>1. \A k \in 0 .. 8 : \A i \in 1 .. 8 :
          Register(t)[(n - 8) + k][i] = IF i > 8 - k THEN t[(n - 8) + k + i - 8] ELSE FALSE
    <3>1. n - 8 \in Nat /\ 8 \in 0 .. 8 /\ (n - 8) + 8 <= Len(t)
      BY <1>5
    <3> QED
      BY <1>5, <1>8, <3>1, Fed
  <2>2. ASSUME NEW i \in 1 .. 8 PROVE Register(t)[n][i] = c[i]
    <3>1. 8 \in 0 .. 8 /\ (n - 8) + 8 = n /\ i > 8 - 8 /\ (n - 8) + 8 + i - 8 = n - 8 + i
      OBVIOUS
    <3>2. Register(t)[n][i] = t[n - 8 + i]
      BY <2>1, <3>1
    <3>3. n - 8 + i \in 1 .. n /\ ~ (n - 8 + i <= n - 8)
      OBVIOUS
    <3>4. t[n - 8 + i] = p[n - 8 + i]
      BY <1>5, <3>3
    <3> QED
      BY <1>2, <3>2, <3>4
  <2>3. Register(t)[n] \in Octet
    BY <1>5, RegisterTurns
  <2> QED
    BY <1>3, <2>2, <2>3 DEF Octet
<1>10. Register(u)[n] = pak_data_crc(page) /\ pak_data_crc(page) \in Octet
  <2>1. Len(page) + 8 = n
    BY <1>1
  <2> QED
    BY <1>1, <2>1, CheckIs DEF u
<1>11. Passes(p) <=> pak_data_crc(page) = c
  BY DEF Passes, Accepted, page, c
<1> QED
  BY <1>3, <1>7, <1>9, <1>10, <1>11, SameOctet

LEMMA SentIs ==
  ASSUME NEW page \in Seq(BOOLEAN)
  PROVE  Sent(page) \in Seq(BOOLEAN) /\ Len(Sent(page)) = Len(page) + 8 /\ Passes(Sent(page))
<1> DEFINE c == pak_data_crc(page)
           p == page \o c
           m == Len(page)
<1>1. c \in Seq(BOOLEAN) /\ Len(c) = 8 /\ m \in Nat
  BY CheckIs, OctetLen
<1> HIDE DEF c
<1>2. p \in Seq(BOOLEAN) /\ Len(p) = m + 8
  <2>1. page \o c \in Seq(BOOLEAN) /\ Len(page \o c) = Len(page) + Len(c)
    BY <1>1, ConcatProperties
  <2> QED
    BY <1>1, <2>1
<1>3. SubSeq(p, 1, Len(p) - 8) = page
  <2>1. Len(p) - 8 = m
    BY <1>1, <1>2
  <2>2. SubSeq(page \o c, 1, Len(page)) = page
    BY <1>1
  <2> HIDE DEF p
  <2> QED
    BY <2>1, <2>2 DEF p
<1>4. SubSeq(p, Len(p) - 7, Len(p)) = c
  <2>1. Len(p) - 7 = m + 1 /\ Len(p) = m + Len(c)
    BY <1>1, <1>2
  <2>2. SubSeq(page \o c, Len(page) + 1, Len(page) + Len(c)) = c
    <3> DEFINE t == page \o c
    <3>1. t \in Seq(BOOLEAN) /\ Len(t) = m + 8 /\ \A i \in 1 .. m + 8 : t[i] = IF i <= m THEN page[i] ELSE c[i - m]
      <4>1. /\ t \in Seq(BOOLEAN) /\ Len(t) = Len(page) + Len(c)
            /\ \A i \in 1 .. Len(page) + Len(c) : t[i] = IF i <= Len(page) THEN page[i] ELSE c[i - Len(page)]
        BY <1>1, ConcatProperties
      <4> HIDE DEF t
      <4> QED
        BY <1>1, <4>1
    <3>2. m + 1 \in 1 .. Len(t) + 1 /\ m + 8 \in (m + 1) - 1 .. Len(t) /\ m + 1 <= m + 8 /\ (m + 8) - (m + 1) + 1 = 8
      BY <1>1, <3>1
    <3> HIDE DEF t
    <3> PICK a, b : a = m + 1 /\ b = m + 8
      OBVIOUS
    <3>3. /\ SubSeq(t, a, b) \in Seq(BOOLEAN)
          /\ Len(SubSeq(t, a, b)) = IF a <= b THEN b - a + 1 ELSE 0
          /\ \A i \in 1 .. b - a + 1 : SubSeq(t, a, b)[i] = t[a + i - 1]
      BY <3>1, <3>2, SubSeqProperties
    <3>4. ASSUME NEW i \in 1 .. 8 PROVE t[a + i - 1] = c[i]
      <4>1. a + i - 1 \in 1 .. m + 8 /\ ~ (a + i - 1 <= m) /\ a + i - 1 - m = i
        BY <1>1
      <4> QED
        BY <3>1, <4>1
    <3> PICK r \in Seq(BOOLEAN) : r = SubSeq(t, a, b)
      BY <3>3
    <3>5. Len(r) = Len(c) /\ \A i \in 1 .. Len(c) : r[i] = c[i]
      BY <1>1, <3>2, <3>3, <3>4
    <3>6. r = c
      BY <1>1, <3>5, SeqEqual
    <3> QED
      BY <1>1, <3>6 DEF t
  <2> HIDE DEF p
  <2> QED
    BY <2>1, <2>2 DEF p
<1>5. p = Sent(page)
  BY DEF Sent, c
<1> HIDE DEF p
<1>6. Passes(p)
  BY <1>3, <1>4 DEF Passes, Accepted, c
<1> QED
  BY <1>2, <1>5, <1>6

\* So what is taken of a damaged packet is a matter of the damage alone.
Where(d, n) == [i \in 1 .. n |-> i \in d]

LEMMA WhereIs ==
  ASSUME NEW n \in Nat, NEW d
  PROVE  Where(d, n) \in Seq(BOOLEAN) /\ Len(Where(d, n)) = n /\ \A i \in 1 .. n : Where(d, n)[i] = (i \in d)
<1>1. Where(d, n) \in Seq(BOOLEAN) /\ DOMAIN Where(d, n) = 1 .. n
  <2>1. \A i \in 1 .. n : (i \in d) \in BOOLEAN
    OBVIOUS
  <2> QED
    BY <2>1, IsASeq DEF Where
<1>2. Len(Where(d, n)) = n
  BY <1>1, LenProperties
<1> QED
  BY <1>1, <1>2 DEF Where

LEMMA DamageIs ==
  ASSUME NEW page \in Seq(BOOLEAN), NEW n \in Nat, n = Len(page) + 8, NEW d
  PROVE  Passes(Arrives(Sent(page), d)) <=> Register(Where(d, n))[n] = Zeroes(8)
<1> DEFINE p == Sent(page)
           w == Where(d, n)
           a == Arrives(p, d)
<1>1. p \in Seq(BOOLEAN) /\ Len(p) = n /\ Passes(p) /\ n >= 8
  BY SentIs
<1>2. w \in Seq(BOOLEAN) /\ Len(w) = n /\ \A i \in 1 .. n : w[i] = (i \in d)
  BY WhereIs
<1> HIDE DEF p, w
<1>3. DOMAIN p = 1 .. n
  BY <1>1
<1>4. a = [i \in 1 .. n |-> Xor(p[i], i \in d)]
  BY <1>3 DEF Arrives
<1>5. \A i \in 1 .. n : Xor(p[i], i \in d) \in BOOLEAN
  BY DEF Xor
<1>6. a \in Seq(BOOLEAN) /\ DOMAIN a = 1 .. n
  BY <1>4, <1>5, IsASeq
<1>7. Len(a) = n
  BY <1>6, LenProperties
<1>8. \A i \in 1 .. Len(p) : a[i] = Xor(p[i], w[i])
  BY <1>1, <1>2, <1>4, Zenon
<1> HIDE DEF a
<1>9. Register(a)[n] = Xors(Register(p)[n], Register(w)[n])
  <2>3. Len(w) = Len(p) /\ Len(a) = Len(p)
    BY <1>1, <1>2, <1>7
  <2>1. \A i \in 0 .. Len(p) : Register(a)[i] = Xors(Register(p)[i], Register(w)[i])
    BY <1>1, <1>2, <1>6, <1>8, <2>3, RegisterXors
  <2>2. n \in 0 .. Len(p)
    BY <1>1
  <2> QED
    BY <2>1, <2>2
<1>10. Register(p)[n] = Zeroes(8)
  BY <1>1, PassesIs
<1>11. Register(w)[n] \in Octet
  BY <1>2, RegisterTurns
<1>12. Register(a)[n] = Zeroes(8) <=> Zeroes(8) = Register(w)[n]
  BY <1>9, <1>10, <1>11, ZeroOctet, SameOctet
<1>13. Passes(a) <=> Register(a)[n] = Zeroes(8)
  BY <1>1, <1>6, <1>7, PassesIs
<1> QED
  BY <1>12, <1>13 DEF a, p, w

\* Eight bits in a row at most leave something in the register.
LEMMA BurstLeft ==
  ASSUME NEW n \in Nat, n >= 8, NEW d, NEW f \in d, f \in 1 .. n, d \subseteq f .. f + 7
  PROVE  Register(Where(d, n))[n] # Zeroes(8)
<1> DEFINE w == Where(d, n)
<1>1. w \in Seq(BOOLEAN) /\ Len(w) = n /\ \A i \in 1 .. n : w[i] = (i \in d)
  BY WhereIs
<1> HIDE DEF w
<1> PICK j, m : j = f - 1 /\ m = IF j + 8 <= n THEN 8 ELSE n - j
  OBVIOUS
<1>2. j \in Nat /\ m \in 0 .. 8 /\ m >= 1 /\ j + m <= n /\ j + m \in Nat /\ (m = 8 \/ j + m = n)
  OBVIOUS
<1>3. Register(w)[j] = Zeroes(8)
  <2>1. Register(w)[0] = Zeroes(8)
    BY <1>1, RegisterTurns
  <2>2. \A i \in 0 + 1 .. j : w[i] = FALSE
    <3> TAKE i \in 0 + 1 .. j
    <3>1. i \in 1 .. n /\ i \notin f .. f + 7
      BY <1>2
    <3>2. (i \in d) = FALSE
      BY <3>1
    <3> QED
      BY <1>1, <3>1, <3>2
  <2>3. 0 \in Nat /\ 0 <= j /\ j <= Len(w)
    BY <1>1, <1>2
  <2> QED
    BY <1>1, <1>2, <2>1, <2>2, <2>3, StaysZero
<1>4. Register(w)[j + m] # Zeroes(8)
  <2>1. \A k \in 0 .. m : \A i \in 1 .. 8 :
          Register(w)[j + k][i] = IF i > 8 - k THEN w[j + k + i - 8] ELSE FALSE
    <3>1. j + m <= Len(w)
      BY <1>1, <1>2
    <3> QED
      BY <1>1, <1>2, <1>3, <3>1, Fed, Zenon
  <2>2. m \in 0 .. m /\ 9 - m \in 1 .. 8 /\ 9 - m > 8 - m /\ j + m + (9 - m) - 8 = f
    BY <1>2
  <2>3. Register(w)[j + m][9 - m] = w[f]
    BY <2>1, <2>2
  <2>4. w[f] = TRUE
    BY <1>1
  <2> QED
    BY <2>2, <2>3, <2>4, ZeroOctet
<1>5. \A i \in (j + m) + 1 .. n : w[i] = FALSE
  <2> TAKE i \in (j + m) + 1 .. n
  <2>1. i \in 1 .. n /\ i \notin f .. f + 7
    BY <1>2
  <2>2. (i \in d) = FALSE
    BY <2>1
  <2> QED
    BY <1>1, <2>1, <2>2
<1>7. j + m \in Nat /\ j + m <= n /\ n <= Len(w)
  BY <1>1, <1>2
<1>6. Register(w)[n] = Zeroes(8) <=> Register(w)[j + m] = Zeroes(8)
  BY <1>1, <1>5, <1>7, StaysZero
<1> QED
  BY <1>4, <1>6 DEF w

\* What is sent passes, and pak_data_crc (pak.c) finds every burst of up to eight bits turned
\* over on the way: in the page, in its check or across both, whatever the page and its length.
THEOREM BurstsAreCaught == \A page \in Seq(BOOLEAN) : Caught(page, Bursts(Len(page) + 8))
<1> TAKE page \in Seq(BOOLEAN)
<1> PICK n \in Nat : n = Len(page) + 8 /\ n >= 8
  OBVIOUS
<1>1. ASSUME NEW d \in Bursts(n) PROVE ~ Passes(Arrives(Sent(page), d))
  <2>1. \E f \in d : f \in 1 .. n /\ d \subseteq f .. f + 7
    <3>1. CASE d \in {{i} : i \in 1 .. n}
      BY <3>1
    <3>2. CASE d \in UNION {{{i} \cup {i + k : k \in ks} : ks \in SUBSET (1 .. 7)} : i \in 1 .. n - 7}
      <4>1. PICK i \in 1 .. n - 7, ks \in SUBSET (1 .. 7) : d = {i} \cup {i + k : k \in ks}
        BY <3>2
      <4>2. \A k \in ks : i + k \in i .. i + 7
        OBVIOUS
      <4>3. i \in d /\ i \in 1 .. n /\ i \in i .. i + 7
        BY <4>1
      <4>4. d \subseteq i .. i + 7
        BY <4>1, <4>2, <4>3
      <4> QED
        BY <4>3, <4>4
    <3> QED
      BY <3>1, <3>2 DEF Bursts
  <2>2. Register(Where(d, n))[n] # Zeroes(8)
    BY <2>1, BurstLeft
  <2> QED
    BY <2>2, DamageIs
<1>2. Passes(Sent(page))
  BY SentIs
<1> QED
  BY <1>1, <1>2 DEF Caught

\* The bits in the register that are set are odd in number when those that came were.
IsOdd(c) == Xor(Xor(Xor(c[1], c[2]), Xor(c[3], c[4])), Xor(Xor(c[5], c[6]), Xor(c[7], c[8])))

LEMMA ShiftedOdd ==
  ASSUME NEW c \in Octet, NEW b \in BOOLEAN
  PROVE  IsOdd(c) \in BOOLEAN /\ IsOdd(Shifted(c, b)) = Xor(IsOdd(c), b)
<1>1. \A i \in 1 .. 8 : Shifted(c, b)[i] = Turned(c, b, i)
  BY ShiftedIs
<1>2. PICK p, q, r, s, t, u, v, w :
        /\ p = c[1] /\ q = c[2] /\ r = c[3] /\ s = c[4] /\ t = c[5] /\ u = c[6] /\ v = c[7] /\ w = c[8]
        /\ p \in BOOLEAN /\ q \in BOOLEAN /\ r \in BOOLEAN /\ s \in BOOLEAN
        /\ t \in BOOLEAN /\ u \in BOOLEAN /\ v \in BOOLEAN /\ w \in BOOLEAN
  <2>1. /\ c[1] \in BOOLEAN /\ c[2] \in BOOLEAN /\ c[3] \in BOOLEAN /\ c[4] \in BOOLEAN
        /\ c[5] \in BOOLEAN /\ c[6] \in BOOLEAN /\ c[7] \in BOOLEAN /\ c[8] \in BOOLEAN
    BY DEF Octet
  <2> QED
    BY <2>1
<1>3. /\ Up(c, b, 1) = q /\ Up(c, b, 2) = r /\ Up(c, b, 3) = s /\ Up(c, b, 4) = t
      /\ Up(c, b, 5) = u /\ Up(c, b, 6) = v /\ Up(c, b, 7) = w /\ Up(c, b, 8) = b
  BY <1>2 DEF Up
<1>4. /\ 1 \in Terms /\ 6 \in Terms /\ 8 \in Terms
      /\ 2 \notin Terms /\ 3 \notin Terms /\ 4 \notin Terms /\ 5 \notin Terms /\ 7 \notin Terms
  BY DEF Terms
<1> DEFINE x == Shifted(c, b)
<1>5. /\ x[1] = Xor(q, p) /\ x[2] = r /\ x[3] = s /\ x[4] = t /\ x[5] = u /\ x[6] = Xor(v, p) /\ x[7] = w /\ x[8] = Xor(b, p)
  <2>1. /\ Turned(c, b, 1) = Xor(q, p) /\ Turned(c, b, 6) = Xor(v, p) /\ Turned(c, b, 8) = Xor(b, p)
    BY <1>2, <1>3, <1>4 DEF Turned, Xor
  <2>2. /\ Turned(c, b, 2) = r /\ Turned(c, b, 3) = s /\ Turned(c, b, 4) = t /\ Turned(c, b, 5) = u /\ Turned(c, b, 7) = w
    BY <1>2, <1>3, <1>4 DEF Turned, Xor
  <2>3. /\ 1 \in 1 .. 8 /\ 2 \in 1 .. 8 /\ 3 \in 1 .. 8 /\ 4 \in 1 .. 8
        /\ 5 \in 1 .. 8 /\ 6 \in 1 .. 8 /\ 7 \in 1 .. 8 /\ 8 \in 1 .. 8
    OBVIOUS
  <2> QED
    BY <1>1, <2>1, <2>2, <2>3
<1> HIDE DEF x
<1>6. /\ IsOdd(c) = Xor(Xor(Xor(p, q), Xor(r, s)), Xor(Xor(t, u), Xor(v, w)))
      /\ IsOdd(x) = Xor(Xor(Xor(Xor(q, p), r), Xor(s, t)), Xor(Xor(u, Xor(v, p)), Xor(w, Xor(b, p))))
  BY <1>2, <1>5, Zenon DEF IsOdd
<1>7. /\ Xor(Xor(Xor(p, q), Xor(r, s)), Xor(Xor(t, u), Xor(v, w))) \in BOOLEAN
      /\ Xor(Xor(Xor(Xor(q, p), r), Xor(s, t)), Xor(Xor(u, Xor(v, p)), Xor(w, Xor(b, p))))
           = Xor(Xor(Xor(Xor(p, q), Xor(r, s)), Xor(Xor(t, u), Xor(v, w))), b)
  BY <1>2 DEF Xor
<1> QED
  BY <1>6, <1>7 DEF x

LEMMA ZeroIsEven == ~ IsOdd(Zeroes(8))
<1>1. PICK z : z = Zeroes(8)
  OBVIOUS
<1>2. /\ z[1] = FALSE /\ z[2] = FALSE /\ z[3] = FALSE /\ z[4] = FALSE
      /\ z[5] = FALSE /\ z[6] = FALSE /\ z[7] = FALSE /\ z[8] = FALSE
  BY <1>1, ZeroOctet
<1>3. Xor(z[1], z[2]) = FALSE /\ Xor(z[3], z[4]) = FALSE /\ Xor(z[5], z[6]) = FALSE /\ Xor(z[7], z[8]) = FALSE
  BY <1>2 DEF Xor
<1> QED
  BY <1>1, <1>3 DEF IsOdd, Xor

LEMMA RegisterOdd ==
  ASSUME NEW n \in Nat, NEW d \in SUBSET (1 .. n)
  PROVE  IsOdd(Register(Where(d, n))[n]) <=> Cardinality(d) % 2 = 1
<1> DEFINE w == Where(d, n)
           So(k) == d \cap (1 .. k)
           G == {k \in 0 .. n : IsFiniteSet(So(k)) /\ (IsOdd(Register(w)[k]) <=> Cardinality(So(k)) % 2 = 1)}
<1>1. w \in Seq(BOOLEAN) /\ Len(w) = n /\ \A i \in 1 .. n : w[i] = (i \in d)
  BY WhereIs
<1> HIDE DEF w
<1>2. 0 \in G
  <2>1. So(0) = {}
    OBVIOUS
  <2>2. IsFiniteSet(So(0)) /\ Cardinality(So(0)) = 0
    BY <2>1, FS_EmptySet
  <2>3. Register(w)[0] = Zeroes(8)
    BY <1>1, RegisterTurns
  <2>4. ~ IsOdd(Zeroes(8))
    BY ZeroIsEven
  <2>5. 0 % 2 # 1 /\ 0 \in 0 .. n
    OBVIOUS
  <2> HIDE DEF So
  <2> QED
    BY <2>2, <2>3, <2>4, <2>5
<1>3. ASSUME NEW k \in 1 .. n, k - 1 \in G PROVE k \in G
  <2> PICK c : c = Register(w)[k - 1]
    OBVIOUS
  <2>1. c \in Octet /\ Register(w)[k] = Shifted(c, w[k]) /\ w[k] \in BOOLEAN
    <3>1. k - 1 \in 0 .. Len(w) /\ k \in 1 .. Len(w)
      BY <1>1
    <3>2. Register(w)[k - 1] \in Octet
      BY <1>1, <3>1, RegisterTurns
    <3>3. Register(w)[k] = Shifted(Register(w)[k - 1], w[k])
      BY <1>1, <3>1, RegisterTurns
    <3>4. w[k] \in BOOLEAN
      BY <1>1, <3>1
    <3> QED
      BY <3>2, <3>3, <3>4
  <2>2. IsOdd(c) \in BOOLEAN /\ IsOdd(Register(w)[k]) = Xor(IsOdd(c), w[k])
    BY <2>1, ShiftedOdd
  <2>3. IsFiniteSet(So(k - 1)) /\ (IsOdd(c) <=> Cardinality(So(k - 1)) % 2 = 1)
    BY <1>3
  <2>4. Cardinality(So(k - 1)) \in Nat
    BY <2>3, FS_CardinalityType
  <2>5. CASE k \in d
    <3>1. So(k) = So(k - 1) \cup {k} /\ k \notin So(k - 1)
      BY <2>5
    <3>2. IsFiniteSet(So(k)) /\ Cardinality(So(k)) = Cardinality(So(k - 1)) + 1
      <4> HIDE DEF So
      <4> QED
        BY <2>3, <3>1, FS_AddElement
    <3>3. \A z \in Nat : (z + 1) % 2 = 1 <=> ~ (z % 2 = 1)
      OBVIOUS
    <3>4. w[k] = TRUE
      BY <1>1, <2>5
    <3>5. IsOdd(Register(w)[k]) <=> ~ IsOdd(c)
      BY <2>2, <3>4 DEF Xor
    <3> HIDE DEF So
    <3>6. IsOdd(Register(w)[k]) <=> Cardinality(So(k)) % 2 = 1
      BY <2>3, <2>4, <3>2, <3>3, <3>5
    <3> QED
      BY <3>2, <3>6
  <2>6. CASE k \notin d
    <3>1. So(k) = So(k - 1)
      BY <2>6
    <3>4. w[k] = FALSE
      BY <1>1, <2>6
    <3>5. IsOdd(Register(w)[k]) <=> IsOdd(c)
      BY <2>2, <3>4 DEF Xor
    <3> HIDE DEF So
    <3> QED
      BY <2>3, <3>1, <3>5
  <2> QED
    BY <2>5, <2>6
<1> HIDE DEF G
<1>4. \A k \in 0 .. n : k \in G
  BY <1>2, <1>3, UpTo
<1>5. n \in G /\ So(n) = d
  <2>1. n \in 0 .. n
    OBVIOUS
  <2>3. So(n) = d
    OBVIOUS
  <2> QED
    BY <1>4, <2>1, <2>3
<1> QED
  BY <1>5 DEF G, w

\* And it finds any odd number of bits turned over, wherever they are: with x^8 the polynomial
\* has an even number of terms, and so has every multiple of it.
THEOREM OddIsCaught ==
  \A page \in Seq(BOOLEAN) : Caught(page, {d \in SUBSET (1 .. Len(page) + 8) : Cardinality(d) % 2 = 1})
<1> TAKE page \in Seq(BOOLEAN)
<1> PICK n \in Nat : n = Len(page) + 8
  OBVIOUS
<1>1. ASSUME NEW d \in SUBSET (1 .. n), Cardinality(d) % 2 = 1
      PROVE  ~ Passes(Arrives(Sent(page), d))
  <2>1. IsOdd(Register(Where(d, n))[n])
    BY <1>1, RegisterOdd
  <2>2. ~ IsOdd(Zeroes(8))
    BY ZeroIsEven
  <2>3. Register(Where(d, n))[n] # Zeroes(8)
    BY <2>1, <2>2
  <2> QED
    BY <2>3, DamageIs
<1>2. Passes(Sent(page))
  BY SentIs
<1> QED
  BY <1>1, <1>2 DEF Caught

==============================================================================
