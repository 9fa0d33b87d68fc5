------------------------------ MODULE Recency ------------------------------
(***************************************************************************)
(* Least-recently-used order.  The caches of the host stamp an entry with  *)
(* a number that grows with every use (krit-cache: Entry::stamp;           *)
(* krit-runtime: last_used of the idempotency responses and of the rate    *)
(* windows) and evict the entry with the least stamp until what is left    *)
(* fits.  Only the order of the stamps matters: it is a set of pairs       *)
(* <<a, b>>, entry a was used less recently than entry b.                  *)
(***************************************************************************)

\* order is a strict total order of the entries S: each has its own stamp.
OrdersStrictly(order, S) ==
    /\ order \subseteq S \X S
    /\ \A s \in S : <<s, s>> \notin order
    /\ \A s, t \in S : s # t => <<s, t>> \in order \/ <<t, s>> \in order
    /\ \A s, t, u \in S : <<s, t>> \in order /\ <<t, u>> \in order => <<s, u>> \in order

\* The order of those entries that stay.
Among(order, S) == order \cap (S \X S)

\* s gets a stamp above those of all the entries S.
UsedNow(order, S, s) == Among(order, S \ {s}) \cup ((S \ {s}) \X {s})

\* The entries of S that go when S is evicted, least recently used first, as
\* far as s.
UpTo(order, S, s) == {t \in S : t = s \/ <<t, s>> \in order}

\* What goes when S is evicted until the first of `enough` went, or nothing of
\* S is left.
Victims(order, S, enough) == {s \in S : \A t \in enough : s \in UpTo(order, S, t)}
=============================================================================
