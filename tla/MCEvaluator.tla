---------------------------- MODULE MCEvaluator ----------------------------
(* Evaluator on small stacks; and the fixed point words it may run, which   *)
(* take and leave cells like any other, on every cell of 2 * HALF bits.     *)
EXTENDS Evaluator, FixedPoint

\* The divisors around the powers of two, which is where one way to divide ends.
Divisors == {y \in Cell \ {0} : \E i \in 0 .. BITS : Abs(y) - 2^i \in {-1, 0, 1}}

ASSUME FixedPointIsExact ==
  /\ \A x \in Cell : RootIsExact(x)
  /\ \A x \in Cell, y \in Divisors : DivIsExact(x, y) /\ MulUndoesDiv(x, y)
=============================================================================
