--------------------------- MODULE MCRecordedWork ---------------------------
(* A small instance of RecordedWork for TLC. *)
EXTENDS RecordedWork, TLC

CONSTANTS w1, w2, k1, k2, d1, d2, o1, o2, o3

\* A result is its own size.
MCSize == [v \in Results |-> v]

\* Two workers contend for one key, with two inputs; or one worker fills the
\* table, with results of which some are too large for it.
Contention == [asks |-> {w1, w2} \X {k1} \X {d1, d2}, gives |-> {1}]
Pressure == [asks |-> {w1} \X {k1, k2} \X {d1}, gives |-> {1, 2}]
MCLoads == {Contention, Pressure}
=============================================================================
