----------------------------- MODULE FixedPoint -----------------------------
(***************************************************************************)
(* src/src/forth.c: the arithmetic of numbers with HALF bits before the    *)
(* point and HALF behind it, in cells of twice that.  The code has 16; the *)
(* widths at which it turns from one way to divide to the next are halves  *)
(* and quarters of it, so a smaller HALF takes the same ways.              *)
(***************************************************************************)
EXTENDS Integers

CONSTANTS
  HALF   \* 16 in the code

ASSUME FixedPointAssumption == HALF \in 2 .. 16 /\ HALF % 2 = 0

BITS == 2 * HALF
STEP == HALF \div 2           \* the bits of a step of the two-step division
Unsigned == 0 .. 2^BITS - 1
MOST == 2^(BITS - 1) - 1
LEAST == -(2^(BITS - 1))
Cell == LEAST .. MOST

\* What an unsigned cell is as a signed one.
Signed(u) == IF u > MOST THEN u - 2^BITS ELSE u
Bit(x, i) == (x \div 2^i) % 2

-----------------------------------------------------------------------------

(***************************************************************************)
(* Restoring division, a bit of the quotient a round, of a number of two   *)
(* cells whose quotient fits in one: rem after the rounds down to bit i.   *)
(***************************************************************************)
Udiv64_32(n, d) ==
  LET R[i \in 0 .. BITS] ==
        IF i = BITS THEN [rem |-> n \div 2^BITS, q |-> 0]
        ELSE LET r == 2 * R[i + 1].rem + Bit(n, i)
             IN IF r >= d THEN [rem |-> r - d, q |-> R[i + 1].q + 2^i]
                ELSE [rem |-> r, q |-> R[i + 1].q]
  IN IF d = 0 \/ n \div 2^BITS >= d THEN MOST ELSE R[0].q

\* Two bits of the number, and one of the root, a round: k more rounds take the bits below.
TwoBits(v, k) == ((v \div 2^k) \div 2^k) % 4

Usqrt64(v) ==
  LET S[i \in 0 .. BITS] ==
        IF i = 0 THEN [rem |-> 0, root |-> 0]
        ELSE LET rem == 4 * S[i - 1].rem + TwoBits(v, BITS - i)
                 root == 2 * S[i - 1].root
             IN IF root < rem THEN [rem |-> rem - root - 1, root |-> root + 2]
                ELSE [rem |-> rem, root |-> root]
  IN S[BITS].root \div 2

\* The 64-bit product, shifted down with its sign, and the low cell of what is left.
FixedMul(x, y) == Signed(((x * y) \div 2^HALF) % 2^BITS)

(***************************************************************************)
(* The fraction of rem / ub: in one division of the processor's where      *)
(* nothing is shifted out, in two steps where half of it can be, and bit   *)
(* by bit otherwise.  A shift out of the cell loses what is shifted.       *)
(***************************************************************************)
Fraction(rem, ub) ==
  LET up == (rem * 2^STEP) % 2^BITS
  IN IF ub < 2^(HALF - 1) THEN ((rem * 2^HALF) % 2^BITS) \div ub
     ELSE IF ub < 2^(HALF + STEP - 1)
     THEN ((up \div ub) * 2^STEP) + (((up % ub) * 2^STEP) % 2^BITS) \div ub
     ELSE Udiv64_32(rem * 2^HALF, ub)

\* Absolute values are unsigned, where that of the least cell fits.
FixedDiv(x, y) ==
  LET ua == IF x < 0 THEN -x ELSE x
      ub == IF y < 0 THEN -y ELSE y
      neg == (x < 0) # (y < 0)
      whole == ua \div ub
      q == whole * 2^HALF + (Fraction(ua % ub, ub) % 2^HALF)
  IN IF ub = 0 THEN 0
     ELSE IF whole > 2^(HALF - 1) - 1 THEN IF neg THEN LEAST ELSE MOST
     ELSE IF neg THEN -q ELSE q

-----------------------------------------------------------------------------

FMul(x, y) == FixedMul(x, y)

\* Dividing by nothing is an error before it comes to this.
FDiv(x, y) == FixedDiv(x, y)

\* Of a negative number, the root of nothing.
FSqrt(x) == Signed(Usqrt64((IF x < 0 THEN 0 ELSE x) * 2^HALF) % 2^BITS)

-----------------------------------------------------------------------------
(* What they should be.                                                    *)

Abs(x) == IF x < 0 THEN -x ELSE x
Clamp(x) == IF x > MOST THEN MOST ELSE IF x < LEAST THEN LEAST ELSE x

\* "Exact, and several times faster": F/ is the quotient, cut off towards zero, on each of
\* its three ways, and the cell next to it if it does not fit.
DivIsExact(x, y) ==
  LET q == (Abs(x) * 2^HALF) \div Abs(y)
  IN  FDiv(x, y) = Clamp(IF (x < 0) # (y < 0) THEN -q ELSE q)

\* FSQRT is the greatest cell whose square is not above the number.
RootIsExact(x) ==
  LET v == (IF x < 0 THEN 0 ELSE x) * 2^HALF
      root == FSqrt(x)
  IN  root >= 0 /\ root * root <= v /\ v < (root + 1) * (root + 1)

\* What F/ divides, F* multiplies back to less than the divisor's worth of a last place,
\* and one for the cutting off, when nothing was clamped.
MulUndoesDiv(x, y) ==
  FDiv(x, y) \in LEAST + 1 .. MOST - 1 =>
    Abs(FMul(FDiv(x, y), y) - x) * 2^HALF < Abs(y) + 2^HALF
=============================================================================
