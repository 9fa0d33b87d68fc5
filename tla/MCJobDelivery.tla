--------------------------- MODULE MCJobDelivery ---------------------------
(* Small instances of JobDelivery for TLC. *)
EXTENDS JobDelivery, TLC

CONSTANTS j1, j2, j3, w1, w2

MCQueues == {"q"}
MCTarget == [j \in JobIds |-> "q"]
MCSize == [j \in JobIds |-> 1]

\* Two attempts under leases that cover one deadline, one place in the queue
\* for three jobs, one retained dead letter.
MCPolicy == [q \in Queues |->
    [max_depth |-> 1, max_job_bytes |-> 1, max_queue_bytes |-> 1, max_attempts |-> 2,
     lease |-> 1, backoff |-> 1, max_backoff |-> 1,
     dead_letter_max_entries |-> 1, dead_letter_ttl |-> 1]]

MCSymmetry == Permutations(Workers) \cup Permutations(JobIds)
=============================================================================
