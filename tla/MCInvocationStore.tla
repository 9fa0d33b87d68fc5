------------------------- MODULE MCInvocationStore -------------------------
(* A small instance of InvocationStore for TLC. *)
EXTENDS InvocationStore, TLC

CONSTANTS i1, i2, k1, c1

\* A value is its own size.
MCSize == [v \in Values |-> v]
MCSymmetry == Permutations(Invocations)
=============================================================================
