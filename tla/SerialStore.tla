---------------------------- MODULE SerialStore ----------------------------
(***************************************************************************)
(* What a durable store promises its clients: those that write take effect *)
(* one after the other, each in one step that finds the contents as the    *)
(* client saw them and applies all of its writes.                          *)
(***************************************************************************)
CONSTANTS Clients, Items, Absent, Unknown

VARIABLES
    contents,  \* the stored rows
    seen,      \* seen[c][x]: what c has read of x, or Unknown
    written,   \* written[c][x]: what c wrote of x, or Unknown
    ready      \* ready[c]: c has asked for its outcome to be committed

Transact(c) ==
    /\ ready[c] /\ ~ready'[c]
    /\ \A x \in Items : seen[c][x] \in {Unknown, contents[x]}
    /\ contents' = [x \in Items |->
                       IF written[c][x] = Unknown THEN contents[x] ELSE written[c][x]]

Init == contents = [x \in Items |-> Absent]

Spec == Init /\ [][\E c \in Clients : Transact(c)]_contents
=============================================================================
