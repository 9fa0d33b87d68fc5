------------------------------ MODULE JobQueue ------------------------------
(***************************************************************************)
(* The durable queue tables of krit-state: queue_jobs, queue_dead and the  *)
(* two counters of the meta row (crates/krit-state/src/jobs.rs).           *)
(*                                                                         *)
(* Every operator below is one SQLite IMMEDIATE transaction of the store,  *)
(* so it is one atomic step.  The instant `now` each transaction works     *)
(* with is a parameter of the call in the code as well: no clock belongs   *)
(* to the store.                                                           *)
(***************************************************************************)
EXTENDS Naturals, Sequences, FiniteSets, FiniteSetsExt, Backoff

CONSTANTS
    JobIds,             \* the 16-byte job identities (drawn fresh per publish)
    Queues,             \* queue names configured on the host
    Target,             \* Target[j]: the queue job j is published to
    Size,               \* Size[j]: the bytes of job j's body
    Policy,             \* Policy[q]: the QueuePolicy configured for q
    MaxReservationScan, \* MAX_RESERVATION_SCAN
    MaxInstant,         \* the largest representable instant (i64::MAX)
    NoJob,              \* "no such row"
    NoOwner             \* SQL NULL in the owner column

QueuePolicy ==
    [max_depth: Nat \ {0}, max_job_bytes: Nat \ {0}, max_queue_bytes: Nat \ {0},
     max_attempts: Nat \ {0}, lease: Nat \ {0}, backoff: Nat \ {0},
     max_backoff: Nat \ {0}, dead_letter_max_entries: Nat \ {0},
     dead_letter_ttl: Nat \ {0}]

\* QueuePolicy::validate: the relations between the fields.
ValidPolicy(p) ==
    /\ p \in QueuePolicy
    /\ p.max_job_bytes <= p.max_queue_bytes
    /\ p.backoff <= p.max_backoff

Instants == 0 .. MaxInstant

\* Owners are never reused: the n-th lease owner handed out is n.
Owners == Nat \ {0}

\* lease_until is NULL exactly when owner is; both are 0/NoOwner together.
JobRow == [seq: Nat, attempts: Nat, visible_at: Nat,
           owner: Owners \cup {NoOwner}, lease_until: Nat]

DeadRow == [seq: Nat, attempts: Nat, failed_at: Nat]

ASSUME JobQueueAssumption ==
    /\ IsFiniteSet(JobIds)
    /\ Target \in [JobIds -> Queues]
    /\ Size \in [JobIds -> Nat]
    /\ Policy \in [Queues -> QueuePolicy]
    /\ \A q \in Queues : ValidPolicy(Policy[q])
    /\ MaxReservationScan \in Nat \ {0}
    /\ MaxInstant \in Nat
    /\ NoJob \notin JobRow /\ NoJob \notin DeadRow
    /\ NoOwner \notin Owners

VARIABLES
    jobs,      \* queue_jobs: row of each job, or NoJob
    dead,      \* queue_dead: row of each dead letter, or NoJob
    sequence,  \* meta.sequence, the publication counter
    revision   \* meta.revision, the state revision

storeVars == <<jobs, dead, sequence, revision>>

-----------------------------------------------------------------------------
(* Table queries                                                           *)

Queued(q) == {j \in JobIds : jobs[j] # NoJob /\ Target[j] = q}

SizeOf(S) == MapThenSumSet(LAMBDA j : Size[j], S)

\* WHERE queue = q AND visible_at <= now AND (lease_until IS NULL OR
\* lease_until <= now)
Eligible(q, now) ==
    {j \in Queued(q) : /\ jobs[j].visible_at <= now
                       /\ jobs[j].owner = NoOwner \/ jobs[j].lease_until <= now}

\* Faulty variant: the budget is compared before the new attempt is counted.
ExhaustedLate(j) == jobs[j].attempts > Policy[Target[j]].max_attempts

Exhausted(j) == jobs[j].attempts + 1 > Policy[Target[j]].max_attempts

\* preflight_instants: every instant the call could record is representable.
Preflight(q, now) ==
    /\ now + Policy[q].lease <= MaxInstant
    /\ now + Policy[q].max_backoff <= MaxInstant
    /\ now + Policy[q].dead_letter_ttl <= MaxInstant

-----------------------------------------------------------------------------
(* Dead letters                                                            *)

DeadOf(d, q) == {j \in JobIds : d[j] # NoJob /\ Target[j] = q}

\* Faulty variant: one row too many survives.
EnforceDeadLetterBoundsLoose(d, q) ==
    [j \in JobIds |->
        IF /\ j \in DeadOf(d, q)
           /\ Cardinality({k \in DeadOf(d, q) : d[k].seq > d[j].seq})
                 > Policy[q].dead_letter_max_entries
        THEN NoJob ELSE d[j]]

\* enforce_dead_letter_bounds: only the rows with the highest sequences stay.
EnforceDeadLetterBounds(d, q) ==
    [j \in JobIds |->
        IF /\ j \in DeadOf(d, q)
           /\ Cardinality({k \in DeadOf(d, q) : d[k].seq > d[j].seq})
                 >= Policy[q].dead_letter_max_entries
        THEN NoJob ELSE d[j]]

\* cleanup_dead_letters: by age, then by count.
CleanupDeadLetters(d, q, now) ==
    EnforceDeadLetterBounds(
        [j \in JobIds |->
            IF /\ j \in DeadOf(d, q)
               /\ d[j].failed_at + Policy[q].dead_letter_ttl <= now
            THEN NoJob ELSE d[j]], q)

\* dead_letter for every job of S, all of queue q.  Keeping the newest rows
\* after each insertion keeps the newest rows of the union.
DeadLetter(d, q, S, now) ==
    EnforceDeadLetterBounds(
        [j \in JobIds |->
            IF j \in S
            THEN [seq |-> jobs[j].seq, attempts |-> jobs[j].attempts,
                  failed_at |-> now]
            ELSE d[j]], q)

-----------------------------------------------------------------------------
(* commit_plan                                                             *)

\* The publish mutations are accepted one after the other; the depth and byte
\* bounds are monotone in the prefix, so they are stated on the whole batch.
\* The job being acknowledged still occupies its row while they are checked.
PublishAccepted(pubs) ==
    LET batch(q) == {j \in Range(pubs) : Target[j] = q}
    IN  \A q \in Queues :
          batch(q) # {} =>
            /\ \A j \in batch(q) : /\ jobs[j] = NoJob
                                   /\ Size[j] <= Policy[q].max_job_bytes
            /\ Cardinality(Queued(q)) + Cardinality(batch(q)) <= Policy[q].max_depth
            /\ SizeOf(Queued(q)) + SizeOf(batch(q)) <= Policy[q].max_queue_bytes

PublishedRow(pubs, j, now) ==
    [seq |-> sequence + (CHOOSE i \in DOMAIN pubs : pubs[i] = j), attempts |-> 0,
     visible_at |-> now, owner |-> NoOwner, lease_until |-> 0]

\* The lease of a Completion::Job names the row's current owner; its expiry is
\* not looked at.
OwnsJob(j, owner) == jobs[j] # NoJob /\ jobs[j].owner = owner

\* Faulty variant: the acknowledgement's row count is not looked at.
CommitAcceptedUnacknowledged(writes, expected, pubs, completion, owner) ==
    /\ writes => revision = expected
    /\ PublishAccepted(pubs)

\* Everything that makes commit_plan roll back: a stale revision under a
\* revision-sensitive plan, a rejected publish, a lost acknowledgement.
\* completion is {} or {j}.
CommitAccepted(writes, expected, pubs, completion, owner) ==
    /\ writes => revision = expected
    /\ PublishAccepted(pubs)
    /\ \A j \in completion : OwnsJob(j, owner)

CommitPlan(writes, expected, pubs, completion, owner, now) ==
    /\ CommitAccepted(writes, expected, pubs, completion, owner)
    /\ jobs' = [j \in JobIds |->
                   IF j \in completion THEN NoJob
                   ELSE IF j \in Range(pubs) THEN PublishedRow(pubs, j, now)
                   ELSE jobs[j]]
    /\ sequence' = sequence + Len(pubs)
    /\ revision' = IF writes THEN revision + 1 ELSE revision
    /\ UNCHANGED dead

-----------------------------------------------------------------------------
(* reserve_job                                                             *)

Before(j, k) == jobs[j].seq < jobs[k].seq

\* The rows the bounded scan can reach: the first min(max_depth,
\* MAX_RESERVATION_SCAN) eligible rows in sequence order.
Scanned(q, now) ==
    LET E == Eligible(q, now)
        rank(j) == Cardinality({k \in E : Before(k, j)})
    IN  {j \in E : rank(j) < Policy[q].max_depth /\ rank(j) < MaxReservationScan}

\* The row that is delivered, as a set of at most one: the first scanned row
\* that has an attempt left.
Deliverable(q, now) ==
    {j \in Scanned(q, now) :
        /\ ~Exhausted(j)
        /\ \A k \in Scanned(q, now) : Before(k, j) => Exhausted(k)}

\* The exhausted rows the scan meets before it delivers or ends.
Terminalized(q, now) ==
    {j \in Scanned(q, now) :
        /\ Exhausted(j)
        /\ \A k \in Scanned(q, now) : Before(k, j) => Exhausted(k)}

LeasedRow(j, owner, now) ==
    [jobs[j] EXCEPT !.attempts = @ + 1, !.owner = owner,
                    !.lease_until = now + Policy[Target[j]].lease]

ReserveJob(q, owner, now) ==
    /\ Preflight(q, now)
    /\ dead' = DeadLetter(CleanupDeadLetters(dead, q, now), q,
                          Terminalized(q, now), now)
    /\ jobs' = [j \in JobIds |->
                   IF j \in Terminalized(q, now) THEN NoJob
                   ELSE IF j \in Deliverable(q, now) THEN LeasedRow(j, owner, now)
                   ELSE jobs[j]]
    /\ UNCHANGED <<sequence, revision>>

-----------------------------------------------------------------------------
(* fail_job                                                                *)

FailLost(j, owner) ==
    /\ ~OwnsJob(j, owner)
    /\ UNCHANGED storeVars

\* Faulty variant: the job is found by identity alone.
FailDeadLetterUnfenced(j, owner, now) ==
    /\ jobs[j] # NoJob
    /\ jobs[j].attempts >= Policy[Target[j]].max_attempts
    /\ dead' = DeadLetter(dead, Target[j], {j}, now)
    /\ jobs' = [jobs EXCEPT ![j] = NoJob]
    /\ UNCHANGED <<sequence, revision>>

FailDeadLetter(j, owner, now) ==
    /\ OwnsJob(j, owner)
    /\ jobs[j].attempts >= Policy[Target[j]].max_attempts
    /\ dead' = DeadLetter(dead, Target[j], {j}, now)
    /\ jobs' = [jobs EXCEPT ![j] = NoJob]
    /\ UNCHANGED <<sequence, revision>>

FailRetry(j, owner, now) ==
    /\ OwnsJob(j, owner)
    /\ jobs[j].attempts < Policy[Target[j]].max_attempts
    /\ jobs' = [jobs EXCEPT ![j].visible_at =
                                now + BackoffFor(Policy[Target[j]], jobs[j].attempts),
                            ![j].owner = NoOwner,
                            ![j].lease_until = 0]
    /\ UNCHANGED <<dead, sequence, revision>>

FailJob(j, owner, now) ==
    /\ Preflight(Target[j], now)
    /\ \/ FailLost(j, owner)
       \/ FailDeadLetter(j, owner, now)
       \/ FailRetry(j, owner, now)

=============================================================================
