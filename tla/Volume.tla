------------------------------- MODULE Volume -------------------------------
(***************************************************************************)
(* The 32 KiB volume of src/src/fs.c as a value: what one Controller Pak   *)
(* holds, and equally what the kernel's RAM copy `vol' holds.              *)
(*                                                                         *)
(* A volume is a record                                                    *)
(*    head  the header block: magic, generation, checksum                  *)
(*    fat   the allocation table, a link for every data page               *)
(*    dir   the directory, an entry for every slot                         *)
(*    data  the data pages                                                 *)
(*                                                                         *)
(* What is abstracted: a page's 256 bytes are one value, a file's size is  *)
(* its number of pages, names are compared after folding case (so a name   *)
(* is a value), the label is left out, and the 16-bit checksum is perfect: *)
(* it is the content it is computed over.  Header bytes past the label and *)
(* the three blocks of page 0 that hold neither header nor table never     *)
(* change once a volume is formatted, and are left out.                    *)
(***************************************************************************)
EXTENDS Integers, FiniteSets, Sequences, FiniteSetsExt

CONSTANTS
  Names,          \* file names, up to case
  NoName,         \* the name of an unused directory entry
  Contents,       \* what a caller may save: sequences of page contents
  Data,           \* what a page of a saved file may hold
  Blank,          \* a page of zeroes
  Torn,           \* a page of which only some blocks were written
  NoSum,          \* a checksum that no table and directory have
  META_PAGES,     \* pages 0 .. META_PAGES-1 are metadata
  PAGES,          \* pages in the volume
  FAT_PER_BLOCK,  \* table entries in one 32-byte block
  FS_DIR_MAX      \* directory entries, one block each

ASSUME VolumeAssumption ==
  /\ NoName \notin Names
  /\ Contents \subseteq Seq(Data)
  /\ META_PAGES \in Nat \ {0}
  /\ PAGES \in Nat /\ META_PAGES < PAGES /\ PAGES < 253
  /\ FAT_PER_BLOCK \in Nat \ {0}
  /\ FS_DIR_MAX \in Nat \ {0}

FAT_FREE == 0
FAT_END  == 255
TornLink == 253     \* what a damaged table block holds: no page, no mark

DataPages == META_PAGES .. PAGES - 1
Slots     == 0 .. FS_DIR_MAX - 1
Links     == DataPages \cup {FAT_FREE, FAT_END, TornLink}

fs_capacity == PAGES - META_PAGES

-----------------------------------------------------------------------------
(* The metadata is stored block by block: the header, the table, and the   *)
(* directory, an entry to a block.                                         *)

FatBlocks   == (PAGES + FAT_PER_BLOCK - 1) \div FAT_PER_BLOCK
MetaBlocks  == 1 + FatBlocks + FS_DIR_MAX
Blocks      == 0 .. MetaBlocks - 1
FatBlock(p) == 1 + p \div FAT_PER_BLOCK
DirBlock(s) == 1 + FatBlocks + s

NoEntry   == [name |-> NoName, size |-> 0, first |-> FAT_FREE, serial |-> 0]
TornEntry == [NoEntry EXCEPT !.first = TornLink]

Entries == [name : Names \cup {NoName}, size : Nat, first : Links, serial : Nat]
Tables  == [DataPages -> Links]
Dirs    == [Slots -> Entries]
Heads   == [magic : {"ours", "zero", "other"}, gen : Nat,
            sum : [fat : Tables, dir : Dirs] \cup {NoSum}]
Volumes == [head : Heads, fat : Tables, dir : Dirs,
            data : [DataPages -> Data \cup {Blank, Torn}]]

ASSUME SumAssumption == NoSum \notin [fat : Tables, dir : Dirs]

checksum(v) == [fat |-> v.fat, dir |-> v.dir]

\* The test fs_mount makes before it calls a volume FS_PAK.
Readable(v) == v.head.magic = "ours" /\ v.head.sum = checksum(v)

\* Volume v with the metadata blocks B taken from w.
CopyBlocks(v, w, B) ==
  [v EXCEPT !.head = IF 0 \in B THEN w.head ELSE v.head,
            !.fat  = [p \in DataPages |->
                        IF FatBlock(p) \in B THEN w.fat[p] ELSE v.fat[p]],
            !.dir  = [s \in Slots |->
                        IF DirBlock(s) \in B THEN w.dir[s] ELSE v.dir[s]]]

\* The first k metadata blocks of v are those of w.
SameBlocks(v, w, k) ==
  /\ k > 0 => v.head = w.head
  /\ \A p \in DataPages : FatBlock(p) < k => v.fat[p] = w.fat[p]
  /\ \A s \in Slots : DirBlock(s) < k => v.dir[s] = w.dir[s]

\* What block b of v may hold after a transfer of it from w went wrong: what it
\* held, what it was sent, or neither.
DamagedBlock(v, w, b) ==
  {v, CopyBlocks(v, w, {b})} \cup
  IF b = 0
    THEN {[v EXCEPT !.head = [@ EXCEPT !.sum = NoSum]],
          [v EXCEPT !.head = [@ EXCEPT !.magic = "other"]]}
    ELSE {CopyBlocks(v, [v EXCEPT !.fat = [p \in DataPages |-> TornLink],
                                  !.dir = [s \in Slots |-> TornEntry]], {b})}

-----------------------------------------------------------------------------
ZeroVolume ==
  [head |-> [magic |-> "zero", gen |-> 0, sum |-> NoSum],
   fat  |-> [p \in DataPages |-> FAT_FREE],
   dir  |-> [s \in Slots |-> NoEntry],
   data |-> [p \in DataPages |-> Blank]]

\* Nothing at all in the metadata pages.
AllZero(v) == /\ v.head = ZeroVolume.head
              /\ v.fat = ZeroVolume.fat
              /\ v.dir = ZeroVolume.dir

\* blank(): the metadata of an empty volume.
BlankVolume == [ZeroVolume EXCEPT !.head = [@ EXCEPT !.magic = "ours"]]

\* A volume with its checksum put right: blank() and checksum() on the RAM disk.
WithSum(v) == [v EXCEPT !.head = [@ EXCEPT !.sum = checksum(v)]]

\* What commit() stores: the next generation, and its checksum.
Stamped(v) == WithSum([v EXCEPT !.head = [@ EXCEPT !.gen = v.head.gen + 1]])

-----------------------------------------------------------------------------
(* The allocation table.                                                   *)

FreePages(fat) == {p \in DataPages : fat[p] = FAT_FREE}

\* A set of pages with every page their links lead to.
Closed(fat, S) == \A p \in S : fat[p] \in DataPages => fat[p] \in S

\* The pages of the chain that starts at `first': the smallest closed set that
\* has it, and none when it is not a page.  MCPakFS compares it with the loop of
\* free_chain on every table.
Chain(fat, first) ==
  {p \in DataPages :
     /\ first \in DataPages
     /\ \A S \in SUBSET DataPages :
          first \in S /\ Closed(fat, S) => p \in S}

\* Mutant: only the first page of the chain is freed.
free_chain_head_only(fat, first) ==
  [p \in DataPages |-> IF p = first THEN FAT_FREE ELSE fat[p]]

free_chain(fat, first) ==
  [p \in DataPages |-> IF p \in Chain(fat, first) THEN FAT_FREE ELSE fat[p]]

\* The i-th page of the chain from `first', for as long as it leads to pages.
PageAt(fat, first, i) ==
  LET at[k \in 1 .. i] ==
        IF k = 1 THEN first
        ELSE IF at[k-1] \in DataPages THEN fat[at[k-1]] ELSE at[k-1]
  IN  at[i]

-----------------------------------------------------------------------------
(* The directory.                                                          *)

UsedSlots(v) == {s \in Slots : v.dir[s].name # NoName}
SlotsOf(v, n) == {s \in Slots : v.dir[s].name = n}

\* dir_find, as a set that is empty when there is no such file.
dir_find(v, n) == IF SlotsOf(v, n) = {} THEN {} ELSE {Min(SlotsOf(v, n))}

\* The first n pages of the file in slot s.
FilePages(v, s, n) == {PageAt(v.fat, v.dir[s].first, i) : i \in 1 .. n}

FileContent(v, s) ==
  [i \in 1 .. v.dir[s].size |-> v.data[PageAt(v.fat, v.dir[s].first, i)]]

-----------------------------------------------------------------------------
(* What is true of a volume no file of which can harm another.             *)

ChainOf(v, s) == Chain(v.fat, v.dir[s].first)

\* No page belongs to two files.
NoCrossLinks(v) ==
  \A s, t \in UsedSlots(v) : s # t => ChainOf(v, s) \cap ChainOf(v, t) = {}

\* Every claimed page belongs to a file, and every page of a file is claimed.
NoLostPages(v) ==
  DataPages \ FreePages(v.fat) = UNION {ChainOf(v, s) : s \in UsedSlots(v)}

\* A file has as many pages as its size says, and a name is a single file's.
SizesRight(v) ==
  \A s \in UsedSlots(v) :
    /\ Cardinality(ChainOf(v, s)) = v.dir[s].size
    /\ SlotsOf(v, v.dir[s].name) = {s}

Sound(v) == NoCrossLinks(v) /\ NoLostPages(v) /\ SizesRight(v)
=============================================================================
