----------------------------- MODULE MCPakSwap -----------------------------
(* PakSwap over two paks of two data pages; and what makes a transfer of   *)
(* theirs fail: the checks, on pages of one, two and 32 bytes.             *)
EXTENDS PakSwap, Packet, TLC

CONSTANTS f, g, a, b

TwoNames == {f, g}
NoNames  == {}
TwoData  == {a, b}
OnePage  == {<<a>>, <<b>>}
Formatted == {Stamped(BlankVolume)}

ASSUME PacketIsChecked ==
  /\ \A n \in 0 .. 255 : IsMultiple(Sent(BitsOf(n, 8)))
  /\ \A n \in {0, 4660} : Caught(BitsOf(n, 16), Bursts(24) \cup Pairs(24))
  /\ Caught(Zeroes(256), {{i} : i \in 1 .. 264})
  /\ \A i \in 0 .. 10 : AddressCaught(BitsOf(2^i, 11))

\* Not caught: two bits 127 apart, which only a page of that length has, and a reply that
\* is all zeroes.
ASSUME NotCaught ==
  /\ \A i \in {1, 50, 137} : Passes(Arrives(Sent(Zeroes(256)), {i, i + 127}))
  /\ Passes(Zeroes(264))
=============================================================================
