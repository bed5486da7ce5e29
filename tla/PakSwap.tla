------------------------------- MODULE PakSwap -------------------------------
(***************************************************************************)
(* PakFS with a second pak on the shelf: revalidate() of src/src/fs.c is   *)
(* all that stands between the RAM copy of one pak's directory and the     *)
(* other pak.  It compares the header block: magic, checksum, generation.  *)
(***************************************************************************)
EXTENDS PakFS

VARIABLE shelf      \* the pak that is not the one `pak' stands for

swapVars == <<vars, shelf>>

SwapInit == Init /\ shelf \in InitialPaks

\* The other pak is the one at hand, while none is in the controller.
Exchange ==
  /\ ~slotFull /\ pc = "idle"
  /\ pak' = shelf /\ shelf' = pak
  /\ UNCHANGED <<slotFull, seen, cache, flow>>

SwapNext == (Next /\ UNCHANGED shelf) \/ Exchange

SwapSpec == SwapInit /\ [][SwapNext]_swapVars

-----------------------------------------------------------------------------
\* A call that asked revalidate(), as all do but those that mount and format, is at its
\* guards.
Trusting ==
  /\ pc = "body" /\ call.kind \notin {"mount", "format"}
  /\ state = "PAK" /\ slotFull

\* A directory that revalidate() let through is the directory of the pak in the
\* controller, whichever pak that is, if that pak's own directory is whole.
DirectoryIsThisPaks ==
  Trusting /\ Readable(pak) => vol.fat = pak.fat /\ vol.dir = pak.dir

\* A change is made to the directory of the pak it is stored on: every file the
\* call does not name will be on that pak what it was before (README, "read again
\* rather than written over").
NeverWrittenOver ==
  [][Readable(pak) /\ pc # "commit" /\ pc' = "commit" /\ purpose' = "save" =>
       \A n \in Names \ {call.name, call.to} :
         FileOn([vol' EXCEPT !.data = pak.data], n) = FileOn(pak, n)]_swapVars

\* Why.  While the copy is not being changed its header's checksum is of the copy, so
\* two headers that are equal are of two directories that are;
CopyIsWhole ==
  (state = "PAK" /\ pc \in {"idle", "revalidate", "body"}) \/ pc = "commit" =>
    vol.head.sum = checksum(vol)

\* and revalidate() has just compared them.
CopyIsOfThisPak ==
  state = "PAK" /\ pc = "body" /\ call.kind \notin {"mount", "format"} =>
    vol.head = pak.head

CopyInv == OnThePak /\ StoredBlocks /\ CopyIsWhole /\ CopyIsOfThisPak

\* Both paks are sound, and a save leaves the other files of the one at hand alone, if
\* it could be read.
SwapInv ==
  /\ CopyInv /\ SoundInv
  /\ shelf \in Volumes /\ (Readable(shelf) => Sound(shelf))
  /\ pc = "store" /\ on_pak /\ Readable(pak) => OthersKept

-----------------------------------------------------------------------------
(* What is said of the code and is not so (README, "What was found").      *)

\* What README.md promises of a swap: a different pak is read again.  So a page that
\* is in use and counts as cached, after revalidate(), is this pak's.
PagesAreThisPaks ==
  Trusting /\ Readable(pak) =>
    \A p \in loaded : pak.fat[p] # FAT_FREE => vol.data[p] = pak.data[p]

\* What fs.c says of a save cut short in its metadata: the checksum catches it.  So
\* the directory of a pak that is worked on has its checksum right.
ChecksumCatches == Trusting => Readable(pak)
=============================================================================
