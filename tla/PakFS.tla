-------------------------------- MODULE PakFS --------------------------------
(***************************************************************************)
(* src/src/fs.c over one Controller Pak: the kernel's RAM copy of the      *)
(* volume, the pak it stands for, and the calls that change either.        *)
(*                                                                         *)
(* A call runs to its end without anything else of the kernel running, but *)
(* the pak can be pulled and the power can fail between any two transfers, *)
(* and any transfer can go wrong.  So a call is a sequence of steps, one   *)
(* for each page or metadata block stored, and `pc' says where it is:      *)
(*    "idle"        no call                                                *)
(*    "revalidate"  about to run revalidate()                              *)
(*    "body"        the call's guards, and what it does in RAM             *)
(*    "store"       fs_write's loop over the pages it claims               *)
(*    "commit"      commit()'s store_range over the metadata blocks        *)
(*    "mount"       about to run fs_mount(): at boot, or from resync()     *)
(*                                                                         *)
(* Assumed of the world: a pak that is pulled stays out until the call in  *)
(* progress has failed (a transfer takes about a millisecond), and a bad   *)
(* read never passes its CRC.                                              *)
(***************************************************************************)
EXTENDS Volume

CONSTANTS
  RomNames,   \* names of files in the cartridge
  BadNames,   \* names fs_name_ok refuses
  InitialPaks,\* what the pak may hold at the start
  Kinds,      \* bound: the calls that are made
  Troubles,   \* bound: what goes wrong: "pull", "power", "read", "write"
  MaxGen,     \* bound: no call changes the pak past this generation
  MaxRamGen   \* bound: nor the RAM disk past this one

ASSUME PakAssumption ==
  /\ RomNames \subseteq Names
  /\ BadNames \subseteq Names
  /\ InitialPaks \subseteq Volumes
  /\ MaxGen \in Nat /\ MaxRamGen \in Nat

\* A pak whose checksum is right was left so by this code.
ASSUME SoundPaks == \A v \in InitialPaks : Readable(v) => Sound(v)

VARIABLES
  pak,        \* the volume on the pak
  slotFull,   \* the pak is in the controller
  seen,       \* pak_present(): what the last identify() saw there
  state,      \* fs.c: state
  on_pak,     \* fs.c: on_pak
  vol,        \* fs.c: vol, the RAM copy
  loaded,     \* fs.c: loaded, the data pages of vol that are cached
  call,       \* the call in progress
  pc,         \* where it is
  save,       \* the locals of fs_write
  blk,        \* the next metadata block commit() stores
  purpose,    \* what that commit is for: "save", "format", or "blank"
  after,      \* where fs_mount() returns to
  res         \* what the last call returned

device == <<pak, slotFull, seen>>
cache  == <<state, on_pak, vol, loaded>>
flow   == <<call, pc, save, blk, purpose, after, res>>
vars   == <<pak, slotFull, seen, state, on_pak, vol, loaded, call, pc, save,
            blk, purpose, after, res>>

States  == {"NONE", "PAK", "RAM", "UNFORMATTED", "CORRUPT", "NOANSWER"}
Results == {"none", "ok", "ENOENT", "EFULL", "EDIRFULL", "ETOOBIG", "EREADONLY",
            "EBADNAME", "EEXISTS", "EIO", "EUNFORMATTED", "ECORRUPT"}

NoCall == [kind |-> "none", name |-> NoName, to |-> NoName, buf |-> <<>>]
NoSave == [slot |-> -1, got |-> 0, first |-> FAT_END, prev |-> -1,
           reuse |-> FALSE]

Calls ==
  [kind : {"write"}, name : Names, to : {NoName}, buf : Contents]
    \cup [kind : {"delete", "read", "stat"}, name : Names, to : {NoName},
          buf : {<<>>}]
    \cup [kind : {"rename"}, name : Names, to : Names, buf : {<<>>}]
    \cup [kind : {"mount", "format"}, name : {NoName}, to : {NoName},
          buf : {<<>>}]

Changing == {"write", "delete", "rename"}
Mounted  == state \in {"PAK", "RAM"}

Return(r) == /\ pc' = "idle"
             /\ res' = r
             /\ call' = NoCall
             /\ save' = NoSave

\* Go on with the call, or, when `back' is "idle", be done with it.
Resume(back) ==
  /\ call' = IF back = "idle" THEN NoCall ELSE call
  /\ save' = IF back = "idle" THEN NoSave ELSE save

\* commit(): stamp the new metadata v, and start storing it.  On the RAM disk
\* there is nothing to store.
Commit(v, why) ==
  /\ vol' = Stamped(v)
  /\ IF on_pak
       THEN /\ pc' = "commit" /\ blk' = 0 /\ purpose' = why
            /\ UNCHANGED <<call, save, res>>
       ELSE Return("ok") /\ UNCHANGED <<blk, purpose>>

-----------------------------------------------------------------------------
(* fs_mount.  pak_present() is `seen', which is up to a second old; the     *)
(* reads that follow are of what is really there.                           *)

MountRamDisk ==
  /\ ~seen
  /\ on_pak' = FALSE
  /\ loaded' = {}
  /\ vol' = IF state = "RAM" THEN vol ELSE WithSum(BlankVolume)
  /\ state' = "RAM"
  /\ UNCHANGED <<blk, purpose>>

\* Block b fails its three reads: those before it are loaded, and it is as it was
\* (nothing answered) or holds what came back.  Of a volume that is not mounted
\* only the header is ever looked at again, so the model forgets the rest.
MountNoAnswer(b) ==
  /\ seen
  /\ IF slotFull THEN "read" \in Troubles ELSE b = 0
  /\ on_pak' = TRUE
  /\ loaded' = {}
  /\ \E h \in IF b = 0 THEN {vol.head, [vol.head EXCEPT !.magic = "other"]}
                         ELSE {pak.head} :
       vol' = [ZeroVolume EXCEPT !.head = h]
  /\ state' = "NOANSWER"
  /\ UNCHANGED <<blk, purpose>>

\* The data pages are not loaded yet: what vol holds of them is of no account.
MountPak ==
  LET v == CopyBlocks(ZeroVolume, pak, Blocks) IN
  /\ seen /\ slotFull
  /\ ~AllZero(pak)
  /\ on_pak' = TRUE
  /\ loaded' = {}
  /\ vol' = v
  /\ state' = IF v.head.magic # "ours" THEN "UNFORMATTED"
              ELSE IF Readable(v) THEN "PAK" ELSE "CORRUPT"
  /\ UNCHANGED <<blk, purpose>>

\* A blank pak is formatted on the spot: fs_format, up to its commit().
MountBlankPak(back) ==
  /\ seen /\ slotFull
  /\ AllZero(pak)
  /\ on_pak' = TRUE
  /\ loaded' = DataPages
  /\ vol' = Stamped(BlankVolume)
  /\ pc' = "commit" /\ blk' = 0 /\ purpose' = "blank" /\ after' = back
  /\ UNCHANGED <<state, call, save, res>>

Mount(back) ==
  \/ /\ MountRamDisk \/ MountPak \/ \E b \in Blocks : MountNoAnswer(b)
     /\ pc' = back
     /\ Resume(back)
     /\ UNCHANGED <<after, res>>
  \/ MountBlankPak(back)

\* fs_mount() of boot, and of resync() after a write that failed.
DoMount ==
  /\ pc = "mount"
  /\ Mount("idle")
  /\ UNCHANGED device

-----------------------------------------------------------------------------
(* revalidate: is the RAM copy still the pak in the controller?            *)

\* Mutant: only the magic is compared, not the generation and the checksum.
CacheTrusted_magic ==
  \/ state = "RAM" /\ ~seen
  \/ state # "RAM" /\ ~on_pak
  \/ state # "RAM" /\ on_pak /\ slotFull /\ pak.head.magic = vol.head.magic

CacheTrusted ==
  \/ state = "RAM" /\ ~seen
  \/ state # "RAM" /\ ~on_pak
  \/ state # "RAM" /\ on_pak /\ slotFull /\ pak.head = vol.head

\* The one read of the header can fail although the pak is there.
CacheDoubted ==
  \/ state = "RAM" /\ seen
  \/ /\ state # "RAM" /\ on_pak
     /\ "read" \in Troubles \/ ~slotFull \/ pak.head # vol.head

Revalidate ==
  /\ pc = "revalidate"
  /\ \/ /\ CacheTrusted
        /\ pc' = "body"
        /\ UNCHANGED <<cache, call, save, blk, purpose, after, res>>
     \/ CacheDoubted /\ Mount("body")
  /\ UNCHANGED device

-----------------------------------------------------------------------------
(* The calls.                                                              *)

writable ==
  IF Mounted THEN "ok"
  ELSE IF state = "UNFORMATTED" THEN "EUNFORMATTED"
  ELSE IF state = "CORRUPT" THEN "ECORRUPT"
  ELSE "EIO"

\* dir_find finds nothing on a volume that is not mounted.
Find(n) == IF Mounted THEN dir_find(vol, n) ELSE {}

NotOnPak(n) == IF n \in RomNames THEN "EREADONLY" ELSE "ENOENT"

Call(c) ==
  /\ pc = "idle"
  /\ c.kind \in Kinds
  /\ c.kind \in Changing =>
       /\ pak.head.gen < MaxGen
       /\ state = "RAM" => vol.head.gen < MaxRamGen
  /\ call' = c
  /\ pc' = IF c.kind \in {"mount", "format"} THEN "body" ELSE "revalidate"
  /\ res' = "none"
  /\ UNCHANGED <<device, cache, save, blk, purpose, after>>

\* MOUNT, and the Files window opening.
MountCall ==
  /\ pc = "body" /\ call.kind = "mount"
  /\ Mount("idle")
  /\ UNCHANGED device

\* fs_format looks at pak_present() and not at what the state was.
FormatCall ==
  /\ pc = "body" /\ call.kind = "format"
  /\ IF seen
       THEN /\ on_pak' = TRUE
            /\ loaded' = DataPages
            /\ vol' = Stamped(BlankVolume)
            /\ pc' = "commit" /\ blk' = 0 /\ purpose' = "format"
            /\ UNCHANGED <<state, call, save, res>>
       ELSE /\ on_pak' = FALSE
            /\ vol' = WithSum(BlankVolume)
            /\ state' = "RAM"
            /\ Return("ok")
            /\ UNCHANGED <<loaded, blk, purpose>>
  /\ UNCHANGED <<device, after>>

\* fs_stat and fs_count: they look, and change nothing but what revalidate did.
StatCall ==
  /\ pc = "body" /\ call.kind = "stat"
  /\ Return(IF Find(call.name) # {} \/ call.name \in RomNames
              THEN "ok" ELSE "ENOENT")
  /\ UNCHANGED <<device, cache, blk, purpose, after>>

\* fs_read: the first n pages of the file are loaded, in order, until one is not
\* a page or cannot be read; j of them were.
ReadCall ==
  /\ pc = "body" /\ call.kind = "read"
  /\ UNCHANGED <<device, state, on_pak, blk, purpose, after>>
  /\ IF Find(call.name) = {}
       THEN /\ Return(IF call.name \in RomNames THEN "ok" ELSE "ENOENT")
            /\ UNCHANGED <<vol, loaded>>
       ELSE \E s \in Find(call.name) : \E n \in 0 .. vol.dir[s].size :
              \E j \in 0 .. n :
                LET got == FilePages(vol, s, j)
                    new == IF on_pak THEN got \ loaded ELSE {}
                IN  /\ got \subseteq DataPages
                    /\ slotFull \/ new = {}
                    /\ vol' = [vol EXCEPT !.data =
                                 [p \in DataPages |->
                                    IF p \in new THEN pak.data[p] ELSE @[p]]]
                    /\ loaded' = loaded \cup new
                    /\ \/ j = n /\ Return("ok")
                       \/ j < n /\ LET p == PageAt(vol.fat, vol.dir[s].first, j + 1)
                                   IN  IF p \notin DataPages
                                       THEN Return("ECORRUPT")
                                       ELSE /\ on_pak /\ p \notin loaded'
                                            /\ slotFull => "read" \in Troubles
                                            /\ Return("EIO")

-----------------------------------------------------------------------------
(* fs_write.                                                               *)

\* The slot a file of this name goes into: its own, or the first free one.
SlotFor(n) ==
  IF Find(n) # {} THEN Min(Find(n)) ELSE Min({s \in Slots : s \notin UsedSlots(vol)})

OldFirst(n) == IF Find(n) # {} THEN vol.dir[Min(Find(n))].first ELSE FAT_END
Room        == Cardinality(FreePages(vol.fat))
Fits(n, k)  == k <= Room
FitsOver(n, k) == k <= Room + Cardinality(Chain(vol.fat, OldFirst(n)))

WriteCheck(n, buf) ==
  IF writable # "ok" THEN writable
  ELSE IF n \in BadNames THEN "EBADNAME"
  ELSE IF Len(buf) > fs_capacity THEN "ETOOBIG"
  ELSE IF Find(n) = {} /\ UsedSlots(vol) = Slots THEN "EDIRFULL"
  ELSE IF ~Fits(n, Len(buf)) /\ ~FitsOver(n, Len(buf)) THEN "EFULL"
  ELSE "ok"

WriteRefused ==
  /\ pc = "body" /\ call.kind = "write"
  /\ WriteCheck(call.name, call.buf) # "ok"
  /\ Return(WriteCheck(call.name, call.buf))
  /\ UNCHANGED <<device, cache, blk, purpose, after>>

\* The old pages stay claimed until the directory says otherwise, unless the new
\* version fits in no other way.
ReleaseOld(n) ==
  [vol EXCEPT !.fat = free_chain(vol.fat, OldFirst(n)),
              !.dir = [@ EXCEPT ![SlotFor(n)].first = FAT_END]]

\* Mutant: the old pages are always released first.
WriteCall_releases_first ==
  /\ pc = "body" /\ call.kind = "write"
  /\ WriteCheck(call.name, call.buf) = "ok"
  /\ vol' = ReleaseOld(call.name)
  /\ save' = [NoSave EXCEPT !.slot = SlotFor(call.name),
                            !.reuse = ~Fits(call.name, Len(call.buf))]
  /\ pc' = "store"
  /\ UNCHANGED <<device, state, on_pak, loaded, call, blk, purpose, after, res>>

WriteCall ==
  /\ pc = "body" /\ call.kind = "write"
  /\ WriteCheck(call.name, call.buf) = "ok"
  /\ LET reuse == ~Fits(call.name, Len(call.buf)) IN
       /\ vol' = IF reuse THEN ReleaseOld(call.name) ELSE vol
       /\ save' = [NoSave EXCEPT !.slot = SlotFor(call.name), !.reuse = reuse]
  /\ pc' = "store"
  /\ UNCHANGED <<device, state, on_pak, loaded, call, blk, purpose, after, res>>

\* The loop goes up through the table and claims every free page it meets, so
\* the page it is at is the lowest free one.  It ends with the file, or the table.
PageToStore == Min(FreePages(vol.fat))

\* Page p claimed for the new file, after those claimed before it.
Claim(fat, p) ==
  [[fat EXCEPT ![p] = FAT_END] EXCEPT ![IF save.got = 0 THEN p ELSE save.prev] =
     IF save.got = 0 THEN FAT_END ELSE p]

PagesLeft == save.got < Len(call.buf) /\ FreePages(vol.fat) # {}
Storing   == pc = "store" /\ PagesLeft

StorePage ==
  /\ Storing
  /\ on_pak => slotFull
  /\ LET p == PageToStore
         d == call.buf[save.got + 1]
     IN  /\ vol' = [vol EXCEPT !.data = [@ EXCEPT ![p] = d], !.fat = Claim(@, p)]
         /\ pak' = IF on_pak THEN [pak EXCEPT !.data = [@ EXCEPT ![p] = d]] ELSE pak
         /\ loaded' = IF on_pak THEN loaded \cup {p} ELSE loaded
         /\ save' = [save EXCEPT !.got = @ + 1, !.prev = p,
                       !.first = IF save.got = 0 THEN p ELSE @]
  /\ UNCHANGED <<slotFull, seen, state, on_pak, call, pc, blk, purpose, after, res>>

\* A block of the page fails its three writes: resync(FS_EIO).  The page may hold
\* what it held, all of the new, or some of each.
StorePageFails ==
  /\ Storing /\ on_pak
  /\ slotFull => "write" \in Troubles
  /\ LET p == PageToStore
         d == call.buf[save.got + 1]
     IN  /\ vol' = [vol EXCEPT !.data = [@ EXCEPT ![p] = d]]
         /\ \E x \in {pak.data[p], d, Torn} :
              /\ slotFull \/ x = pak.data[p]
              /\ pak' = [pak EXCEPT !.data = [@ EXCEPT ![p] = x]]
  /\ pc' = "mount" /\ res' = "EIO"
  /\ UNCHANGED <<slotFull, seen, state, on_pak, loaded, call, save, blk,
                 purpose, after>>

\* Mutant: the size is that of a file of at least one page.
NewEntry_size_less_one ==
  [name |-> call.name, size |-> Len(call.buf) - 1,
   first |-> save.first, serial |-> vol.head.gen + 1]

NewEntry ==
  [name |-> call.name, size |-> Len(call.buf),
   first |-> save.first, serial |-> vol.head.gen + 1]

\* The file's entry, and the pages it had free; a new file had none.
Finished ==
  [vol EXCEPT !.fat = IF save.slot \in UsedSlots(vol)
                      THEN free_chain(@, vol.dir[save.slot].first) ELSE @,
              !.dir = [@ EXCEPT ![save.slot] = NewEntry]]

FinishWrite ==
  /\ pc = "store" /\ ~PagesLeft
  /\ Commit(Finished, "save")
  /\ UNCHANGED <<device, state, on_pak, loaded, after>>

-----------------------------------------------------------------------------
(* fs_delete and fs_rename.                                                *)

DeleteCheck(n) ==
  IF writable # "ok" THEN (IF n \in RomNames THEN "EREADONLY" ELSE writable)
  ELSE IF Find(n) = {} THEN NotOnPak(n)
  ELSE "ok"

DeleteCall ==
  /\ pc = "body" /\ call.kind = "delete"
  /\ IF DeleteCheck(call.name) # "ok"
       THEN /\ Return(DeleteCheck(call.name))
            /\ UNCHANGED <<vol, blk, purpose>>
       ELSE \E s \in Find(call.name) :
              Commit([vol EXCEPT !.fat = free_chain(@, vol.dir[s].first),
                                 !.dir = [@ EXCEPT ![s] = NoEntry]], "save")
  /\ UNCHANGED <<device, state, on_pak, loaded, after>>

RenameCheck(n, to) ==
  IF writable # "ok" THEN writable
  ELSE IF to \in BadNames THEN "EBADNAME"
  ELSE IF Find(n) = {} THEN NotOnPak(n)
  ELSE IF Find(to) \notin {{}, Find(n)} THEN "EEXISTS"
  ELSE "ok"

RenameCall ==
  /\ pc = "body" /\ call.kind = "rename"
  /\ IF RenameCheck(call.name, call.to) # "ok"
       THEN /\ Return(RenameCheck(call.name, call.to))
            /\ UNCHANGED <<vol, blk, purpose>>
       ELSE \E s \in Find(call.name) :
              Commit([vol EXCEPT !.dir = [@ EXCEPT ![s].name = call.to]], "save")
  /\ UNCHANGED <<device, state, on_pak, loaded, after>>

-----------------------------------------------------------------------------
(* commit()'s store_range over the metadata blocks, in their order on the  *)
(* pak: the header first.                                                  *)

Committing == pc = "commit" /\ blk < MetaBlocks

CommitBlock ==
  /\ Committing /\ slotFull
  /\ pak' = CopyBlocks(pak, vol, {blk})
  /\ blk' = blk + 1
  /\ UNCHANGED <<slotFull, seen, cache, call, pc, save, purpose, after, res>>

CommitOver == blk' = 0 /\ purpose' = "save" /\ after' = "idle"

\* Mutant: the call that failed to save returns without resync().
CommitFails_no_resync ==
  /\ Committing
  /\ slotFull => "write" \in Troubles
  /\ pak' \in IF slotFull THEN DamagedBlock(pak, vol, blk) ELSE {pak}
  /\ \/ purpose = "save" /\ Return("EIO") /\ UNCHANGED state
     \/ purpose = "format" /\ state' = "NOANSWER" /\ Return("EIO")
     \/ /\ purpose = "blank"
        /\ state' = "UNFORMATTED" /\ pc' = after
        /\ Resume(after) /\ UNCHANGED res
  /\ CommitOver
  /\ UNCHANGED <<slotFull, seen, on_pak, vol, loaded>>

\* Mutant: a block that fails is tried again for as long as it fails.
CommitFails_retries ==
  /\ Committing
  /\ slotFull => "write" \in Troubles
  /\ UNCHANGED vars

\* A block fails its three writes.  A call that saves reads the pak's own idea of
\* itself back; a format gives up; a mount that was formatting says so.
CommitFails ==
  /\ Committing
  /\ slotFull => "write" \in Troubles
  /\ pak' \in IF slotFull THEN DamagedBlock(pak, vol, blk) ELSE {pak}
  /\ \/ /\ purpose = "save"
        /\ pc' = "mount" /\ res' = "EIO"
        /\ UNCHANGED <<state, call, save>>
     \/ /\ purpose = "format"
        /\ state' = "NOANSWER"
        /\ Return("EIO")
     \/ /\ purpose = "blank"
        /\ state' = "UNFORMATTED"
        /\ pc' = after
        /\ Resume(after)
        /\ UNCHANGED res
  /\ CommitOver
  /\ UNCHANGED <<slotFull, seen, on_pak, vol, loaded>>

CommitDone ==
  /\ pc = "commit" /\ blk = MetaBlocks
  /\ \/ /\ purpose = "save"
        /\ Return("ok")
        /\ UNCHANGED state
     \/ /\ purpose = "format"
        /\ state' = "PAK"
        /\ Return("ok")
     \/ /\ purpose = "blank"
        /\ state' = "PAK"
        /\ pc' = after
        /\ Resume(after)
        /\ UNCHANGED res
  /\ CommitOver
  /\ UNCHANGED <<device, on_pak, vol, loaded>>

-----------------------------------------------------------------------------
(* The world.                                                              *)

\* identify(), once a second from input_poll(), which no call runs.  A controller
\* may fail to answer it.
Identify ==
  /\ pc = "idle"
  /\ seen' \in {slotFull, FALSE}
  /\ UNCHANGED <<pak, slotFull, cache, flow>>

Pull ==
  /\ "pull" \in Troubles
  /\ slotFull
  /\ slotFull' = FALSE
  /\ UNCHANGED <<pak, seen, cache, flow>>

Insert ==
  /\ ~slotFull /\ pc = "idle"
  /\ slotFull' = TRUE
  /\ UNCHANGED <<pak, seen, cache, flow>>

\* The power fails: what is left is the pak.  kernel_main identifies what is in
\* the controller and mounts it.
Boot ==
  /\ seen' \in {slotFull, FALSE}
  /\ state' = "NONE" /\ on_pak' = FALSE
  /\ vol' = ZeroVolume /\ loaded' = {}
  /\ call' = NoCall /\ save' = NoSave
  /\ pc' = "mount" /\ blk' = 0 /\ purpose' = "save" /\ after' = "idle"
  /\ res' = "none"

PowerFail ==
  /\ "power" \in Troubles
  /\ Boot
  /\ UNCHANGED <<pak, slotFull>>

-----------------------------------------------------------------------------
Init ==
  /\ pak \in InitialPaks
  /\ slotFull \in BOOLEAN
  /\ seen \in {slotFull, FALSE}
  /\ state = "NONE" /\ on_pak = FALSE
  /\ vol = ZeroVolume /\ loaded = {}
  /\ call = NoCall /\ save = NoSave
  /\ pc = "mount" /\ blk = 0 /\ purpose = "save" /\ after = "idle"
  /\ res = "none"

\* The steps of the call in progress.
Step ==
  \/ DoMount \/ Revalidate
  \/ MountCall \/ FormatCall \/ StatCall \/ ReadCall
  \/ WriteRefused \/ WriteCall \/ StorePage \/ StorePageFails \/ FinishWrite
  \/ DeleteCall \/ RenameCall
  \/ CommitBlock \/ CommitFails \/ CommitDone

World == Identify \/ Pull \/ Insert \/ PowerFail

Next == Step \/ World \/ \E c \in Calls : Call(c)

Spec == Init /\ [][Next]_vars

FairSpec == Spec /\ WF_vars(Step)

-----------------------------------------------------------------------------
(* Properties.                                                             *)

Phases == {"idle", "revalidate", "body", "store", "commit", "mount"}

\* What the variables hold.
TypeOK ==
  /\ pak \in Volumes
  /\ slotFull \in BOOLEAN /\ seen \in BOOLEAN
  /\ state \in States
  /\ on_pak \in BOOLEAN
  /\ vol \in Volumes
  /\ loaded \subseteq DataPages
  /\ call \in Calls \cup {NoCall}
  /\ pc \in Phases
  /\ save \in [slot : Slots \cup {-1}, got : Nat, first : Links,
               prev : DataPages \cup {-1}, reuse : BOOLEAN]
  /\ blk \in 0 .. MetaBlocks
  /\ purpose \in {"save", "format", "blank"}
  /\ after \in {"idle", "body"}
  /\ res \in Results

FileOn(v, n) ==
  IF SlotsOf(v, n) = {} THEN <<"none">>
  ELSE <<"file", FileContent(v, Min(SlotsOf(v, n)))>>
FilesOn(v) == [n \in Names |-> FileOn(v, n)]

\* What the call asked for, on v.
Done(v) ==
  /\ call.kind = "write" => FileOn(v, call.name) = <<"file", call.buf>>
  /\ call.kind = "delete" => FileOn(v, call.name) = <<"none">>
  /\ call.kind = "rename" => /\ FileOn(v, call.to) # <<"none">>
                             /\ call.to # call.name => FileOn(v, call.name) = <<"none">>

\* Whenever the pak's checksum is right -- at every step of every save, and after
\* any failure -- its directory is sound: no page in two files, none lost, every
\* chain as long as its file.  fs_write and fs_delete keep this with free_chain
\* and the order in which they claim and free.
ReadablePakIsSound == Readable(pak) => Sound(pak)

\* While the kernel calls the pak mounted and is not changing it, its copy of the
\* metadata is the pak's, and every page in use that it has cached holds what the
\* pak holds: whatever failed before, resync() has seen to it.
CacheIsPak ==
  state = "PAK" /\ pc \in {"idle", "revalidate", "body"} =>
    /\ vol.head = pak.head /\ vol.fat = pak.fat /\ vol.dir = pak.dir
    /\ \A p \in loaded : vol.fat[p] # FAT_FREE => vol.data[p] = pak.data[p]

\* A save never writes over a page the pak's own table has in use, except a save
\* that has no other room (fs.c, "which is what makes the save safe").
SaveStep ==
  \A p \in DataPages :
    pak.data[p] # pak'.data[p] =>
      pak.fat[p] = FAT_FREE \/ (pc = "store" /\ save.reuse)

SafeSave == [][SaveStep]_vars

\* Why the three above hold, as one inductive invariant.  What the state says of
\* where vol came from:
OnThePak ==
  /\ state = "PAK" => on_pak
  /\ on_pak /\ state \in {"NONE", "RAM"} =>
       pc = "commit" /\ purpose \in {"format", "blank"}
  /\ pc = "store" => Mounted
  /\ pc = "commit" => on_pak
  /\ pc = "commit" /\ purpose = "save" => state = "PAK"

MountedCopy ==
  state = "PAK" /\ pc \in {"idle", "revalidate", "body"} =>
    vol.head = pak.head /\ vol.fat = pak.fat /\ vol.dir = pak.dir

\* The blocks that commit() has stored are vol's.
StoredBlocks ==
  pc = "commit" => SameBlocks(pak, vol, blk)

\* fs_write frees nothing on the way, unless it has to.
ClaimsOnly ==
  pc = "store" /\ on_pak /\ ~save.reuse =>
    \A p \in DataPages : vol.fat[p] = FAT_FREE => pak.fat[p] = FAT_FREE

\* The page claimed last is claimed, which is what the next one is linked from.
LastClaimed ==
  pc = "store" /\ save.got # 0 =>
    save.prev \in DataPages /\ vol.fat[save.prev] # FAT_FREE

CachedPages ==
  on_pak => \A p \in loaded : vol.fat[p] # FAT_FREE => vol.data[p] = pak.data[p]

CacheInv ==
  /\ OnThePak /\ MountedCopy /\ StoredBlocks
  /\ ClaimsOnly /\ LastClaimed /\ CachedPages

\* What is sound when.  Between the changes the copy of a mounted volume is, and
\* what a mount finds in RAM after a failure is thrown away;
MountedSound ==
  /\ Mounted /\ pc \in {"idle", "revalidate", "body"} => Sound(vol)
  /\ pc = "mount" => state # "RAM"

\* what commit() stores is, and is what its header says;
CommittedSound ==
  pc = "commit" => vol.head.sum = checksum(vol) /\ Sound(vol)

\* and while fs_write claims pages, they are a chain of their own, and the slot it
\* is to go into is the only one that is not as it should be.
Claimed == Chain(vol.fat, save.first)

ClaimedChain ==
  /\ Cardinality(Claimed) = save.got
  /\ IF save.got = 0 THEN save.first = FAT_END
     ELSE /\ save.first \in DataPages /\ save.prev \in Claimed
          /\ vol.fat[save.prev] = FAT_END

ClaimedApart ==
  /\ NoCrossLinks(vol)
  /\ \A s \in UsedSlots(vol) : ChainOf(vol, s) \cap Claimed = {}
  /\ DataPages \ FreePages(vol.fat) =
       Claimed \cup UNION {ChainOf(vol, s) : s \in UsedSlots(vol)}

OthersWhole ==
  /\ SlotsOf(vol, call.name) = UsedSlots(vol) \cap {save.slot}
  /\ \A s \in UsedSlots(vol) \ {save.slot} :
       /\ Cardinality(ChainOf(vol, s)) = vol.dir[s].size
       /\ SlotsOf(vol, vol.dir[s].name) = {s}

RoomLeft == save.got <= Len(call.buf) /\ Len(call.buf) <= save.got + Room

HalfSaved ==
  pc = "store" =>
    /\ call.kind = "write" /\ save.slot \in Slots
    /\ ClaimedChain /\ ClaimedApart /\ OthersWhole /\ RoomLeft

SoundInv == ReadablePakIsSound /\ MountedSound /\ CommittedSound /\ HalfSaved

\* What is on the pak meanwhile.  A pak that is mounted can be read until something
\* of a new directory is stored;
Unharmed ==
  /\ state = "PAK" \/ pc = "commit" => vol.head.magic = "ours"
  /\ state = "PAK" /\ pc \in {"idle", "revalidate", "body", "store"} => Readable(pak)

\* a save leaves the other files' entries and links alone;
OthersKept ==
  /\ \A s \in Slots : /\ s # save.slot => vol.dir[s] = pak.dir[s]
                      /\ vol.dir[s].name = pak.dir[s].name
  /\ \A s \in UsedSlots(pak) \ {save.slot} :
       \A p \in ChainOf(pak, s) : vol.fat[p] = pak.fat[p]
  /\ save.reuse => save.slot \in UsedSlots(vol)

\* what it has stored is along the chain it has claimed;
StoredSoFar ==
  /\ \A i \in 1 .. save.got : pak.data[PageAt(vol.fat, save.first, i)] = call.buf[i]
  /\ save.got # 0 => PageAt(vol.fat, save.first, save.got) = save.prev

\* and what commit() stores is what the call asked for.
CommitIsAsked ==
  /\ pc = "commit" /\ purpose = "save" => Done([vol EXCEPT !.data = pak.data])
  /\ pc = "commit" /\ purpose = "format" => call.kind = "format"
  /\ pc # "idle" => res # "ok"

KeptInv ==
  /\ Unharmed /\ CommitIsAsked
  /\ pc = "store" /\ on_pak => OthersKept /\ StoredSoFar

SaveInv == CacheInv /\ SoundInv /\ KeptInv

\* A call that reports success has done what it was asked, on the pak: the file
\* reads back as it was given, is gone, or has its new name and not its old one.
OkIsDone ==
  [][pc = "commit" /\ pc' = "idle" /\ res' = "ok" /\ call.kind \in Changing =>
       Readable(pak') /\ Done(pak')]_vars

\* However much goes wrong, a call comes back.
CallsReturn == pc # "idle" ~> pc = "idle"

-----------------------------------------------------------------------------
(* The promise: PakFS implements FileStore.                                *)

\* No files of anybody's.
Nothing == [n \in {NoName} |-> <<"none">>]

\* The files of the pak, when it can be told what they are.
Files ==
  IF Readable(pak) THEN FilesOn(pak) ELSE [n \in Names |-> <<"none">>]

\* The files the change under way is to leave on the pak.
Intended ==
  IF pc = "commit" THEN FilesOn([vol EXCEPT !.data = pak.data]) ELSE Nothing

GivenUp == IF pc = "store" /\ on_pak /\ save.reuse THEN call.name ELSE NoName

Versions ==
  UNION {{<<"file", c>> : c \in [1 .. k -> Data \cup {Blank, Torn}]}
           : k \in 0 .. fs_capacity}

Promise == INSTANCE FileStore WITH
  readable <- Readable(pak),
  files    <- Files,
  intent   <- Intended,
  given_up <- GivenUp,
  NoFile   <- <<"none">>,
  None     <- Nothing

\* Every step of a call, and everything the world does to it, is a step FileStore
\* allows: whatever fails, a file changes only by a call that names it.
PromiseKept == Promise!Spec

-----------------------------------------------------------------------------
(* What is said of the code and is not so (README, "What was found").      *)

\* What docs/HARDWARE.md says of "not answering": a pak said it was there but its
\* reads failed.  So a call whose read of the header succeeded does not go on
\* calling the pak that.
NotAnsweringIsTrue ==
  [][pc = "revalidate" /\ pc' = "body" /\ seen /\ slotFull /\ "read" \notin Troubles
       => state' # "NOANSWER"]_vars
=============================================================================
