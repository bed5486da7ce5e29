------------------------------ MODULE MCPakFS ------------------------------
(* PakFS over small volumes.                                               *)
EXTENDS PakFS, TLC

CONSTANTS f, g, a, b

TwoNames == {f, g}
NoNames  == {}
JustG    == {g}
TwoData  == {a, b}

\* A file of no pages, of one, of two with different pages, and one too big
\* for the volume of three data pages.
SmallContents == {<<>>, <<a>>, <<b, a>>, <<a, a, b, b>>}
\* Two versions that fit a volume of two pages only one at a time.
TightContents == {<<a>>, <<a, b>>, <<b, a>>}

FormattedPak == Stamped(BlankVolume)
ForeignPak   == [ZeroVolume EXCEPT !.head = [@ EXCEPT !.magic = "other"]]

AnyPak == {ZeroVolume, ForeignPak, FormattedPak}
Formatted == {FormattedPak}

\* The loop of free_chain: after k turns, the table and the page it is at.
Loop(fat, first) ==
  LET turn[k \in 0 .. PAGES] ==
        IF k = 0 THEN [fat |-> fat, page |-> first]
        ELSE LET at == turn[k - 1] IN
             IF at.page \notin DataPages THEN at
             ELSE [fat  |-> [at.fat EXCEPT ![at.page] = FAT_FREE],
                   page |-> at.fat[at.page]]
  IN  turn[PAGES]

\* On every table, circles and chains that run into others included, the loop ends
\* before its guard does, and frees the pages that can be reached and no other.
ASSUME LoopFreesTheChain ==
  \A fat \in Tables, first \in Links :
    LET end == Loop(fat, first) IN
    /\ end.page \notin DataPages
    /\ {p \in DataPages : end.fat[p] # fat[p]} = {p \in Chain(fat, first) : fat[p] # FAT_FREE}
    /\ \A p \in Chain(fat, first) : end.fat[p] = FAT_FREE
=============================================================================
