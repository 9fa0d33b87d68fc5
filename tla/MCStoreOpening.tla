--------------------------- MODULE MCStoreOpening ---------------------------
(* A small instance of StoreOpening for TLC: two hosts with different      *)
(* budgets, and every kind of file at the path.                            *)
EXTENDS StoreOpening, TLC

CONSTANTS h1, h2

MCBudget == h1 :> 4 @@ h2 :> 3

\* The identities and object sets in every combination; one of the fields that
\* are independent of them.
MCFiles ==
    {[intact |-> i, app |-> a, version |-> v, objects |-> o, wal |-> w,
      revision |-> IF o = {} THEN -1 ELSE r, rows |-> IF o = {} THEN {} ELSE {r},
      pages |-> IF o = {} THEN 0 ELSE 2 + (IF w THEN 1 ELSE 0)] :
        i \in BOOLEAN, a \in {0, 1, APPLICATION_ID}, v \in -1 .. 3,
        o \in SUBSET SchemaObjects, w \in BOOLEAN, r \in {-1, 1}}
=============================================================================
