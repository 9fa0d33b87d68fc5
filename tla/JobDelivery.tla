---------------------------- MODULE JobDelivery ----------------------------
(***************************************************************************)
(* Host processes dispatching durable queue deliveries                     *)
(* (Runtime::dispatch_job in crates/krit-runtime/src/jobs.rs) over the     *)
(* tables of JobQueue, next to invocations that publish and write state.   *)
(*                                                                         *)
(* A worker is one host process with one Runtime.  The Runtime's scheduler *)
(* mutex is held from before the reservation to after the outcome commit,  *)
(* so a worker has at most one delivery in flight; several workers share   *)
(* the store.  The instant a dispatch starts from is the caller's wall     *)
(* clock: it may be anything, and the clocks of two workers need not       *)
(* agree.  Within one dispatch time only moves forward (DeliveryClock).    *)
(***************************************************************************)
EXTENDS JobQueue

CONSTANTS
    Workers,      \* host processes that dispatch deliveries
    Deadline,     \* RuntimeLimits::deadline, the longest guest execution
    MaxOwner,     \* bound: lease owners handed out
    MaxStaged,    \* bound: publishes one invocation stages
    MaxRevision   \* bound: state revisions explored

ASSUME JobDeliveryAssumption ==
    /\ Deadline \in Nat
    /\ MaxOwner \in Nat
    /\ MaxStaged \in Nat
    /\ MaxRevision \in Nat
    /\ \A q \in Queues : Deadline <= Policy[q].lease   \* validate_lease

VARIABLES
    worker,      \* worker[w]: the dispatch w is executing
    lastOwner,   \* the lease owners handed out so far are 1 .. lastOwner
    applied,     \* applied[j]: committed outcomes that carry j's staged writes
    \* History, read by no action:
    published,   \* jobs whose publication committed
    acked,       \* jobs acknowledged by a committed outcome
    buried,      \* jobs that were moved to the dead-letter table
    delivered    \* delivered[j]: reservations handed out for j

procVars == <<worker, lastOwner>>
history == <<published, acked, buried, delivered>>
vars == <<storeVars, procVars, applied, history>>

\* The dispatch's local state: the leased job and its owner, the last reading
\* of its DeliveryClock, and the ActiveStore it stages into: base revision,
\* whether it staged a revision-sensitive mutation, its staged publishes.
Idle == [pc |-> "idle", job |-> NoJob, owner |-> NoOwner, clock |-> 0,
         rev |-> 0, writes |-> FALSE, pubs |-> << >>]

PCs == {"idle", "reserved", "running", "returned", "failing"}

WorkerState ==
    [pc: PCs, job: JobIds \cup {NoJob}, owner: Owners \cup {NoOwner}, clock: Nat,
     rev: Nat, writes: BOOLEAN, pubs: Seq(JobIds)]

-----------------------------------------------------------------------------
Init ==
    /\ jobs = [j \in JobIds |-> NoJob]
    /\ dead = [j \in JobIds |-> NoJob]
    /\ sequence = 0
    /\ revision = 0
    /\ worker = [w \in Workers |-> Idle]
    /\ lastOwner = 0
    /\ applied = [j \in JobIds |-> 0]
    /\ published = {} /\ acked = {} /\ buried = {}
    /\ delivered = [j \in JobIds |-> 0]

\* next_lease_owner never returns the same identity twice, so a publish always
\* stages an identity nobody else has staged or published.
Fresh(j) ==
    /\ j \notin published
    /\ \A w \in Workers : j \notin Range(worker[w].pubs)

\* Another invocation (a webhook) that publishes and possibly writes state;
\* its commit has no completion.
InvocationCommit(pubs, writes, now) ==
    /\ \A j \in Range(pubs) : Fresh(j)
    /\ writes => revision < MaxRevision
    /\ pubs # << >> \/ writes
    /\ CommitPlan(writes, revision, pubs, {}, NoOwner, now)
    /\ published' = published \cup Range(pubs)
    /\ UNCHANGED <<procVars, applied, acked, buried, delivered>>

-----------------------------------------------------------------------------
(* dispatch_job                                                            *)

\* Reservation under scheduler ownership, with a new owner.  No delivery:
\* the dispatch reports idle, after any dead-lettering it did.
Reserve(w, q, now) ==
    /\ worker[w].pc = "idle"
    /\ ReserveJob(q, lastOwner + 1, now)
    /\ LET D == Deliverable(q, now)
       IN  /\ D # {} => lastOwner < MaxOwner
           /\ worker' = [worker EXCEPT ![w] =
                  IF D = {} THEN Idle
                  ELSE [Idle EXCEPT !.pc = "reserved", !.job = CHOOSE j \in D : TRUE,
                                    !.owner = lastOwner + 1, !.clock = now]]
           /\ lastOwner' = IF D = {} THEN lastOwner ELSE lastOwner + 1
           /\ delivered' = [j \in JobIds |->
                               IF j \in D THEN delivered[j] + 1 ELSE delivered[j]]
    /\ buried' = buried \cup Terminalized(q, now)
    /\ UNCHANGED <<applied, published, acked>>

\* require_execution_window passes, the invocation binds the queue's store and
\* snapshots its revision, and the guest starts.
StartGuest(w, now) ==
    /\ worker[w].pc = "reserved"
    /\ now >= worker[w].clock
    /\ (now - worker[w].clock) + Deadline <= Policy[Target[worker[w].job]].lease
    /\ worker' = [worker EXCEPT ![w].pc = "running", ![w].clock = now,
                                ![w].rev = revision]
    /\ UNCHANGED <<storeVars, lastOwner, applied, history>>

\* The guest puts or deletes a key, a checkpoint or an object.
StageWrite(w) ==
    /\ worker[w].pc = "running"
    /\ worker' = [worker EXCEPT ![w].writes = TRUE]
    /\ UNCHANGED <<storeVars, lastOwner, applied, history>>

\* The guest publishes: InvocationState::queue_publish and its two bounds.
StagePublish(w, j) ==
    LET staged == worker[w].pubs
        same == {i \in DOMAIN staged : Target[staged[i]] = Target[j]}
    IN  /\ worker[w].pc = "running"
        /\ Fresh(j)
        /\ Len(staged) < MaxStaged
        /\ Size[j] <= Policy[Target[j]].max_job_bytes
        /\ Cardinality(same) < Policy[Target[j]].max_depth
        /\ worker' = [worker EXCEPT ![w].pubs = Append(@, j)]
        /\ UNCHANGED <<storeVars, lastOwner, applied, history>>

\* The guest returned Ok within its deadline and was not cancelled.
GuestOk(w) ==
    /\ worker[w].pc = "running"
    /\ worker' = [worker EXCEPT ![w].pc = "returned"]
    /\ UNCHANGED <<storeVars, lastOwner, applied, history>>

\* Everything before the outcome commit that ends in fail_job: the lease no
\* longer covers the deadline, cancellation, a trap, the wall deadline, an Err
\* outcome, an abandoned database transaction.  What was staged is dropped.
GuestFailed(w) ==
    /\ worker[w].pc \in {"reserved", "running"}
    /\ worker' = [worker EXCEPT ![w].pc = "failing", ![w].writes = FALSE,
                                ![w].pubs = << >>]
    /\ UNCHANGED <<storeVars, lastOwner, applied, history>>

\* commit_outcome with Completion::Job: staged mutations, publishes and the
\* acknowledgement in one transaction.
CommitOutcome(w, now) ==
    LET s == worker[w]
    IN  /\ s.pc = "returned"
        /\ now >= s.clock
        /\ s.writes => revision < MaxRevision
        /\ CommitPlan(s.writes, s.rev, s.pubs, {s.job}, s.owner, now)
        /\ worker' = [worker EXCEPT ![w] = Idle]
        /\ applied' = [applied EXCEPT ![s.job] = IF s.writes THEN @ + 1 ELSE @]
        /\ published' = published \cup Range(s.pubs)
        /\ acked' = acked \cup {s.job}
        /\ UNCHANGED <<lastOwner, buried, delivered>>

\* The outcome commit rolled back: CommitAccepted is false, or SQLite was busy
\* or out of space, which can happen to any transaction.
CommitRejected(w) ==
    /\ worker[w].pc = "returned"
    /\ worker' = [worker EXCEPT ![w].pc = "failing", ![w].writes = FALSE,
                                ![w].pubs = << >>]
    /\ UNCHANGED <<storeVars, lastOwner, applied, history>>

\* fail_job after a failed execution or a failed commit.
FailDelivery(w, now) ==
    LET j == worker[w].job
    IN  /\ worker[w].pc = "failing"
        /\ now >= worker[w].clock
        /\ FailJob(j, worker[w].owner, now)
        /\ worker' = [worker EXCEPT ![w] = Idle]
        /\ buried' = IF OwnsJob(j, worker[w].owner) /\ jobs'[j] = NoJob
                     THEN buried \cup {j} ELSE buried
        /\ UNCHANGED <<lastOwner, applied, published, acked, delivered>>

\* The process dies at any point of a dispatch, or fail_job itself fails
\* (with_cleanup_failure): the row keeps its lease.
Crash(w) ==
    /\ worker[w].pc # "idle"
    /\ worker' = [worker EXCEPT ![w] = Idle]
    /\ UNCHANGED <<storeVars, lastOwner, applied, history>>

-----------------------------------------------------------------------------
Invocation ==
    \E now \in Instants, writes \in BOOLEAN :
        \E pubs \in {<< >>} \cup {<<j>> : j \in JobIds} :
            InvocationCommit(pubs, writes, now)

Dispatch(w) ==
    \/ \E q \in Queues, now \in Instants : Reserve(w, q, now)
    \/ \E now \in Instants : StartGuest(w, now)
    \/ StageWrite(w)
    \/ \E j \in JobIds : StagePublish(w, j)
    \/ GuestOk(w)
    \/ GuestFailed(w)
    \/ \E now \in Instants : CommitOutcome(w, now)
    \/ CommitRejected(w)
    \/ \E now \in Instants : FailDelivery(w, now)
    \/ Crash(w)

Next == Invocation \/ \E w \in Workers : Dispatch(w)

Spec == Init /\ [][Next]_vars

-----------------------------------------------------------------------------
(* Properties                                                              *)

\* Every table, counter and local record stays in its type.
TypeOK ==
    /\ jobs \in [JobIds -> JobRow \cup {NoJob}]
    /\ dead \in [JobIds -> DeadRow \cup {NoJob}]
    /\ sequence \in Nat /\ revision \in Nat
    /\ worker \in [Workers -> WorkerState]
    /\ lastOwner \in Nat
    /\ applied \in [JobIds -> Nat]
    /\ published \subseteq JobIds /\ acked \subseteq JobIds /\ buried \subseteq JobIds
    /\ delivered \in [JobIds -> Nat]

\* No published job is lost or duplicated: it is in the queue, or was
\* acknowledged, or was dead-lettered, and never two of these, whatever crashes,
\* late owners and skewed clocks do (commit_plan, reserve_job, fail_job).
Conservation ==
    \A j \in JobIds :
        /\ j \in published <=> (jobs[j] # NoJob \/ j \in acked \/ j \in buried)
        /\ jobs[j] # NoJob => j \notin acked /\ j \notin buried
        /\ ~(j \in acked /\ j \in buried)

\* The writes a job's guest staged are committed at most once over all its
\* deliveries, and only together with its acknowledgement (one transaction in
\* commit_plan).
EffectOnlyWithAck ==
    \A j \in JobIds : applied[j] = 0 \/ (applied[j] = 1 /\ j \in acked)

\* A delivery costs an attempt at reservation, so a job is handed out at most
\* max_attempts times, and is dead-lettered only when its budget is spent
\* (reserve_job and fail_job).
AttemptBudget ==
    \A j \in JobIds :
        /\ delivered[j] <= Policy[Target[j]].max_attempts
        /\ j \in buried => delivered[j] = Policy[Target[j]].max_attempts
        /\ jobs[j] # NoJob => jobs[j].attempts = delivered[j]

\* The three together are what a publisher relies on: a job is handed out
\* within its budget, takes effect once and ends in exactly one place.
DeliveredOnce == Conservation /\ EffectOnlyWithAck /\ AttemptBudget

\* Two dispatches never both own a job's row: an acknowledgement or a failure
\* of one of them finds another owner (OwnsJob).
OneCurrentOwner ==
    \A v, w \in Workers :
        /\ worker[v].pc # "idle" /\ worker[w].pc # "idle"
        /\ worker[v].job = worker[w].job
        /\ OwnsJob(worker[v].job, worker[v].owner)
        /\ OwnsJob(worker[w].job, worker[w].owner)
        => v = w

\* queue_jobs never holds more rows or bytes than the policy allows, although
\* a retried job keeps its row and an acknowledging outcome publishes before
\* its own row goes.
QueueBounded ==
    \A q \in Queues :
        /\ Cardinality(Queued(q)) <= Policy[q].max_depth
        /\ SizeOf(Queued(q)) <= Policy[q].max_queue_bytes

\* Publication sequences are unique over both tables and never ahead of
\* meta.sequence, so FIFO order within a queue is a total order.
SequenceUnique ==
    \A j, k \in JobIds :
        /\ jobs[j] # NoJob => jobs[j].seq \in 1 .. sequence
        /\ dead[j] # NoJob => dead[j].seq \in 1 .. sequence
        /\ jobs[j] # NoJob /\ jobs[k] # NoJob /\ j # k => jobs[j].seq # jobs[k].seq
        /\ jobs[j] # NoJob /\ dead[k] # NoJob => jobs[j].seq # dead[k].seq
        /\ dead[j] # NoJob /\ dead[k] # NoJob /\ j # k => dead[j].seq # dead[k].seq

\* A dead letter is a job that spent its budget, and the table keeps at most
\* dead_letter_max_entries per queue at every instant, although fail_job and
\* reserve_job both add to it.
DeadLettersBounded ==
    /\ \A j \in JobIds : dead[j] # NoJob => j \in buried
    /\ \A q \in Queues :
          Cardinality(DeadOf(dead, q)) <= Policy[q].dead_letter_max_entries

\* Both tables keep their bounds and their order at every instant, whichever
\* of publish, acknowledgement, retry, reservation and failure comes next.
TablesSound == QueueBounded /\ DeadLettersBounded /\ SequenceUnique

\* A step of a worker that no longer owns the row of the job it works on (the
\* lease expired and another worker reserved the job) leaves that job, the
\* dead letters and the state revision alone.
StaleOwnerMutatesNothing ==
    [][\A w \in Workers :
          /\ worker[w].pc \in {"returned", "failing"}
          /\ worker'[w].pc # worker[w].pc
          /\ ~OwnsJob(worker[w].job, worker[w].owner)
          => UNCHANGED <<storeVars, applied, acked>>]_vars

\* An acknowledgement commits only for the dispatch that owns the row at that
\* instant, with all of its staged writes, and only over the state revision its
\* guest read from (commit_plan).
CommittedOutcomeOwned ==
    [][\A j \in JobIds : j \in acked' \ acked =>
          \E w \in Workers :
              /\ worker[w].job = j /\ OwnsJob(j, worker[w].owner)
              /\ applied'[j] = applied[j] + (IF worker[w].writes THEN 1 ELSE 0)
              /\ (worker[w].writes => worker[w].rev = revision)]_vars

-----------------------------------------------------------------------------
(* The contract this system implements                                     *)

Status ==
    [j \in JobIds |-> IF j \in acked THEN "acked"
                      ELSE IF j \in buried THEN "dead"
                      ELSE IF j \in published THEN "queued" ELSE "unpublished"]

Contract ==
    INSTANCE QueueContract WITH
        status <- Status, attempts <- delivered,
        MaxAttempts <- [j \in JobIds |-> Policy[Target[j]].max_attempts]

\* Dispatching workers with expiring leases, crashes and skewed clocks implement
\* the queue's contract: every step of theirs is a contract step or invisible.
ImplementsContract == Contract!Spec

=============================================================================
