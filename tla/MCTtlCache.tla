----------------------------- MODULE MCTtlCache -----------------------------
(* A small instance of TtlCache for TLC. *)
EXTENDS TtlCache, TLC

\* A key and the overhead of an entry cost one byte each, a value its size.
MCKeyBytes == [k \in Keys |-> 1]
MCValueBytes == [v \in Values |-> v]

\* Guests may write to "session" and only read "reference"; the two budgets
\* together exceed the budget of the cache.
MCPolicy == [n \in Namespaces |->
    IF n = "session"
    THEN [mode |-> "read-write", max_entries |-> 2, max_bytes |-> 7,
          max_key_bytes |-> 1, max_value_bytes |-> 2, max_ttl |-> 2]
    ELSE [mode |-> "read-only", max_entries |-> 1, max_bytes |-> 6,
          max_key_bytes |-> 1, max_value_bytes |-> 1, max_ttl |-> 1]]
=============================================================================
