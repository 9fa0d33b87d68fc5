--------------------------- MODULE QueueContract ---------------------------
(***************************************************************************)
(* What the durable queue promises, without tables, leases or clocks: a    *)
(* published job is handed out at most MaxAttempts times and ends either   *)
(* acknowledged, together with the writes and publishes of that one        *)
(* delivery, or dead-lettered with its budget spent.                       *)
(***************************************************************************)
EXTENDS Naturals

CONSTANTS JobIds, MaxAttempts   \* MaxAttempts[j]: the attempt budget of j

VARIABLES
    status,    \* status[j]: where job j is in its life
    attempts,  \* attempts[j]: deliveries of j
    applied    \* applied[j]: committed outcomes carrying j's writes

vars == <<status, attempts, applied>>

Statuses == {"unpublished", "queued", "acked", "dead"}

Init ==
    /\ status = [j \in JobIds |-> "unpublished"]
    /\ attempts = [j \in JobIds |-> 0]
    /\ applied = [j \in JobIds |-> 0]

Publish(S) ==
    /\ \A j \in S : status[j] = "unpublished"
    /\ status' = [j \in JobIds |-> IF j \in S THEN "queued" ELSE status[j]]
    /\ UNCHANGED <<attempts, applied>>

\* Bury the spent jobs B, then hand out the jobs of D (at most one).
Deliver(B, D) ==
    /\ \A j \in B : status[j] = "queued" /\ attempts[j] = MaxAttempts[j]
    /\ \A j \in D : status[j] = "queued" /\ attempts[j] < MaxAttempts[j]
    /\ status' = [j \in JobIds |-> IF j \in B THEN "dead" ELSE status[j]]
    /\ attempts' = [j \in JobIds |-> IF j \in D THEN attempts[j] + 1 ELSE attempts[j]]
    /\ UNCHANGED applied

Acknowledge(j, S, wrote) ==
    /\ status[j] = "queued" /\ attempts[j] > 0
    /\ \A k \in S : status[k] = "unpublished"
    /\ status' = [k \in JobIds |-> IF k = j THEN "acked"
                                   ELSE IF k \in S THEN "queued" ELSE status[k]]
    /\ applied' = [applied EXCEPT ![j] = @ + wrote]
    /\ UNCHANGED attempts

Next ==
    \/ \E S \in SUBSET JobIds : Publish(S)
    \/ \E B \in SUBSET JobIds : \E D \in {{}} \cup {{j} : j \in JobIds} : Deliver(B, D)
    \/ \E j \in JobIds, S \in SUBSET JobIds, wrote \in {0, 1} : Acknowledge(j, S, wrote)

Spec == Init /\ [][Next]_vars
=============================================================================
