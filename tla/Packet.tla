-------------------------------- MODULE Packet --------------------------------
(***************************************************************************)
(* src/src/pak.c: what goes over the joybus with an address or a page of   *)
(* the Controller Pak, that a damaged one be told from a good one.  PakFS  *)
(* has a transfer fail or succeed; here is what makes it fail.             *)
(*                                                                         *)
(* Bits are in the order they are sent, each TRUE or FALSE; a page is a    *)
(* sequence of them, 256 in the code.                                      *)
(***************************************************************************)
EXTENDS Integers, Sequences, SequencesExt

Xor(a, b) == a # b
Xors(s, t) == [i \in DOMAIN s |-> Xor(s[i], t[i])]
Zeroes(n) == [i \in 1 .. n |-> FALSE]

\* The bits of n, the highest of the width first.
BitsOf(n, width) == [i \in 1 .. width |-> (n \div 2^(width - i)) % 2 = 1]

\* CRC-8, polynomial 0x85 (and x^8).
Polynomial == BitsOf(133, 8)

\* The register goes up by one bit of the page, and is divided when one falls out.
Shifted(crc, b) ==
  LET up == Append(Tail(crc), b) IN IF Head(crc) THEN Xors(up, Polynomial) ELSE up

\* pak_data_crc: over the page and one byte of zeroes.
pak_data_crc(page) ==
  LET all == page \o Zeroes(8)
      crc[i \in 0 .. Len(all)] == IF i = 0 THEN Zeroes(8) ELSE Shifted(crc[i - 1], all[i])
  IN  crc[Len(all)]

\* address_crc: of the bits 15 to 5 of an address, a number for each that is set.
Table == [i \in 5 .. 15 |-> BitsOf(<<21, 31, 11, 22, 25, 7, 14, 28, 13, 26, 1>>[i - 4], 5)]

address_crc(pages) ==
  FoldLeft(LAMBDA crc, i : IF pages[16 - i] THEN Xors(crc, Table[i]) ELSE crc,
           Zeroes(5), [k \in 1 .. 11 |-> 16 - k])

\* pak_read and pak_write: what came with the page, or came back for it, is its own.
Accepted(page, crc) == pak_data_crc(page) = crc

-----------------------------------------------------------------------------
(* What the checks are worth, for a page of n bits and as many of its check.*)

\* What is sent, and what arrives when the bits of where are turned over.
Sent(page) == page \o pak_data_crc(page)
Arrives(packet, where) == [i \in DOMAIN packet |-> Xor(packet[i], i \in where)]
Passes(packet) == Accepted(SubSeq(packet, 1, Len(packet) - 8), SubSeq(packet, Len(packet) - 7, Len(packet)))

\* Damage of up to 8 bits in a row, and of any two.
Bursts(n) == {{i} : i \in 1 .. n} \cup
             UNION {{{i} \cup {i + k : k \in ks} : ks \in SUBSET (1 .. 7)} : i \in 1 .. n - 7}
Pairs(n)  == {{i, j} : i, j \in 1 .. n}

\* "A loose pak or a bad contact is an error rather than a corrupt file": these are.
Caught(page, damages) ==
  LET sent == Sent(page)
  IN  Passes(sent) /\ \A d \in damages : ~Passes(Arrives(sent, d))

\* What it is that pak_data_crc computes: page and check are a multiple of the polynomial.
IsMultiple(packet) ==
  LET gen == <<TRUE>> \o Polynomial
      n == Len(packet)
      shift(k) == [i \in 1 .. n |-> i - k \in 1 .. 9 /\ gen[i - k]]
      Divide[k \in 0 .. n - 8] ==
        IF k = 0 THEN packet ELSE IF Divide[k - 1][k] THEN Xors(Divide[k - 1], shift(k - 1)) ELSE Divide[k - 1]
  IN  Divide[n - 8] = Zeroes(n)

\* An address with one bit or two turned over has another check.
AddressCaught(pages) ==
  \A i, j \in 1 .. 11 :
    address_crc([pages EXCEPT ![i] = ~@]) # address_crc(pages)
    /\ (i # j => address_crc([pages EXCEPT ![i] = ~@, ![j] = ~@]) # address_crc(pages))
=============================================================================
