--------------------------- MODULE ScheduleFires ---------------------------
(***************************************************************************)
(* Durable schedules: the schedule_fires and schedule_cursors tables of    *)
(* krit-state (crates/krit-state/src/jobs.rs) and the host processes that  *)
(* tick them with Runtime::dispatch_schedule                               *)
(* (crates/krit-runtime/src/jobs.rs).                                      *)
(*                                                                         *)
(* One schedule: rows of different schedules never meet.  Each table       *)
(* operation is one SQLite IMMEDIATE transaction.  A tick supplies an      *)
(* instant of the caller's wall clock, which may lie before an earlier     *)
(* one; within a dispatch time moves forward.  The policy is host          *)
(* configuration and may differ after a restart; the tables stay.          *)
(***************************************************************************)
EXTENDS Integers, FiniteSets, Backoff

CONSTANTS
    Workers,            \* host processes that tick the schedule
    Policies,           \* the SchedulePolicy values the host is started with
    MaxReservationScan, \* MAX_RESERVATION_SCAN
    MaxInstant,         \* the largest representable instant (i64::MAX)
    NoFire, NoOwner, NoCursor

SchedulePolicy ==
    [interval: Nat \ {0}, start: Nat, max_catch_up: Nat \ {0},
     max_attempts: Nat \ {0}, lease: Nat \ {0}, backoff: Nat \ {0},
     max_backoff: Nat \ {0}, retention: Nat \ {0}, max_retained_fires: Nat \ {0}]

Instants == 0 .. MaxInstant
Owners == Nat \ {0}

\* The status column: 0, 1 and 2.
Statuses == {"pending", "done", "dead"}

FireRow == [status: Statuses, attempts: Nat, visible_at: Instants,
            owner: Owners \cup {NoOwner}, lease_until: Instants, updated_at: Instants]

ASSUME ScheduleAssumption ==
    /\ Policies # {} /\ Policies \subseteq SchedulePolicy
    /\ \A p \in Policies : p.backoff <= p.max_backoff
    /\ MaxReservationScan \in Nat \ {0}
    /\ MaxInstant \in Nat
    /\ NoFire \notin FireRow
    /\ NoOwner \notin Owners
    /\ NoCursor \notin Nat

VARIABLES
    policy,     \* the policy the host currently runs with
    fires,      \* schedule_fires: the row of each due instant, or NoFire
    cursor,     \* schedule_cursors.last_due_at, or NoCursor
    worker,     \* worker[w]: the dispatch w is executing
    lastOwner,  \* the lease owners handed out so far are 1 .. lastOwner
    \* History, read by no action:
    created,    \* created[d]: times a fire row was inserted for d
    delivered,  \* delivered[d]: times a fire for d was handed out
    committed,  \* committed[d]: outcomes that acknowledged the fire of d
    accounted   \* every due occurrence was materialized or reported as skipped

tableVars == <<fires, cursor>>
history == <<created, delivered, committed, accounted>>
vars == <<policy, tableVars, worker, lastOwner, history>>

Idle == [pc |-> "idle", due |-> 0, owner |-> NoOwner, clock |-> 0]

WorkerState ==
    [pc: {"idle", "ticked", "running", "returned", "failing"}, due: Instants,
     owner: Owners \cup {NoOwner}, clock: Instants]

-----------------------------------------------------------------------------
(* materialize_schedule                                                    *)

\* validate_instant: every instant a tick could record is representable.
Preflight(now) ==
    /\ now + policy.lease <= MaxInstant
    /\ now + policy.max_backoff <= MaxInstant
    /\ now + policy.retention <= MaxInstant

\* Fires with status 1 or 2.
Terminal(f) == {d \in Instants : f[d] # NoFire /\ f[d].status # "pending"}

\* cleanup_schedule_fires: completed and dead fires, by age and then by count.
CleanupScheduleFires(f, now) ==
    LET aged == [d \in Instants |->
                   IF d \in Terminal(f) /\ f[d].updated_at + policy.retention <= now
                   THEN NoFire ELSE f[d]]
    IN  [d \in Instants |->
           IF /\ d \in Terminal(aged)
              /\ Cardinality({e \in Terminal(aged) : e > d}) >= policy.max_retained_fires
           THEN NoFire ELSE aged[d]]

\* Rust's integer division truncates toward zero.
TruncDiv(a, b) == IF a >= 0 THEN a \div b ELSE -((-a) \div b)

OccurrenceInstant(index) == policy.start + index * policy.interval

CurrentIndex(now) == (now - policy.start) \div policy.interval

\* Faulty variant: the cursor's own occurrence is materialized again.
FirstIndexInclusive(now) ==
    IF cursor = NoCursor THEN CurrentIndex(now)
    ELSE TruncDiv(cursor - policy.start, policy.interval)

\* Faulty variant: one occurrence too far.
FirstIndexPastCursor(now) ==
    IF cursor = NoCursor THEN CurrentIndex(now)
    ELSE TruncDiv(cursor - policy.start, policy.interval) + 2

\* The first occurrence after the cursor; the current one at first sight.
FirstIndex(now) ==
    IF cursor = NoCursor THEN CurrentIndex(now)
    ELSE TruncDiv(cursor - policy.start, policy.interval) + 1

\* Nothing is due: before the start, or the cursor already covers now.
NothingDue(now) == now < policy.start \/ FirstIndex(now) > CurrentIndex(now)

\* The catch-up bound keeps the newest occurrences.
CatchUpFrom(now) ==
    LET newest == CurrentIndex(now) - policy.max_catch_up + 1
    IN  IF newest > FirstIndex(now) THEN newest ELSE FirstIndex(now)

DueNow(now) ==
    IF NothingDue(now) THEN {}
    ELSE {OccurrenceInstant(i) : i \in CatchUpFrom(now) .. CurrentIndex(now)}

\* What the tick reports as skipped.
SkippedNow(now) ==
    IF NothingDue(now) THEN {}
    ELSE {OccurrenceInstant(i) : i \in FirstIndex(now) .. CatchUpFrom(now) - 1}

NewFire(due, now) ==
    [status |-> "pending", attempts |-> 0, visible_at |-> due, owner |-> NoOwner,
     lease_until |-> 0, updated_at |-> now]

\* The occurrences in (cursor, now] of the running policy.
Occurrences(now) ==
    IF cursor = NoCursor THEN {}
    ELSE {d \in Instants : /\ cursor < d /\ d <= now /\ d >= policy.start
                           /\ (d - policy.start) % policy.interval = 0}

MaterializeSchedule(now) ==
    LET kept == CleanupScheduleFires(fires, now)
        inserted == {d \in DueNow(now) : kept[d] = NoFire}
    IN  /\ Preflight(now)
        /\ fires' = [d \in Instants |-> IF d \in inserted THEN NewFire(d, now) ELSE kept[d]]
        /\ cursor' = IF NothingDue(now) THEN cursor ELSE OccurrenceInstant(CurrentIndex(now))
        /\ created' = [d \in Instants |-> IF d \in inserted THEN created[d] + 1 ELSE created[d]]
        /\ accounted' = (accounted /\ (cursor # NoCursor =>
                            Occurrences(now) = inserted \cup SkippedNow(now)))

-----------------------------------------------------------------------------
(* reserve_schedule_fire, the acknowledgement and fail_schedule_fire       *)

Eligible(now) ==
    {d \in Instants : /\ fires[d] # NoFire /\ fires[d].status = "pending"
                      /\ fires[d].visible_at <= now
                      /\ fires[d].owner = NoOwner \/ fires[d].lease_until <= now}

Exhausted(d) == fires[d].attempts + 1 > policy.max_attempts

Scanned(now) ==
    LET rank(d) == Cardinality({e \in Eligible(now) : e < d})
    IN  {d \in Eligible(now) : rank(d) < policy.max_retained_fires
                               /\ rank(d) < MaxReservationScan}

Deliverable(now) ==
    {d \in Scanned(now) : ~Exhausted(d) /\ \A e \in Scanned(now) : e < d => Exhausted(e)}

Terminalized(now) ==
    {d \in Scanned(now) : Exhausted(d) /\ \A e \in Scanned(now) : e < d => Exhausted(e)}

DeadFire(d, now) == [fires[d] EXCEPT !.status = "dead", !.owner = NoOwner,
                                     !.lease_until = 0, !.updated_at = now]

LeasedFire(d, owner, now) ==
    [fires[d] EXCEPT !.attempts = @ + 1, !.owner = owner,
                     !.lease_until = now + policy.lease, !.updated_at = now]

ReserveScheduleFire(owner, now) ==
    /\ Preflight(now)
    /\ fires' = [d \in Instants |->
                    IF d \in Terminalized(now) THEN DeadFire(d, now)
                    ELSE IF d \in Deliverable(now) THEN LeasedFire(d, owner, now)
                    ELSE fires[d]]
    /\ UNCHANGED cursor

OwnsFire(due, owner) ==
    /\ fires[due] # NoFire
    /\ fires[due].status = "pending" /\ fires[due].owner = owner

\* commit_plan with Completion::Fire.
CompleteFire(due, owner, now) ==
    /\ OwnsFire(due, owner)
    /\ fires' = [fires EXCEPT ![due].status = "done", ![due].owner = NoOwner,
                              ![due].lease_until = 0, ![due].updated_at = now]
    /\ UNCHANGED cursor

FailScheduleFire(due, owner, now) ==
    /\ Preflight(now)
    /\ fires' = IF ~OwnsFire(due, owner) THEN fires
                ELSE IF fires[due].attempts >= policy.max_attempts
                THEN [fires EXCEPT ![due] = DeadFire(due, now)]
                ELSE [fires EXCEPT ![due].visible_at = now + BackoffFor(policy, fires[due].attempts),
                                   ![due].owner = NoOwner, ![due].lease_until = 0,
                                   ![due].updated_at = now]
    /\ UNCHANGED cursor

-----------------------------------------------------------------------------
Init ==
    /\ policy \in Policies
    /\ fires = [d \in Instants |-> NoFire]
    /\ cursor = NoCursor
    /\ worker = [w \in Workers |-> Idle]
    /\ lastOwner = 0
    /\ created = [d \in Instants |-> 0]
    /\ delivered = [d \in Instants |-> 0]
    /\ committed = [d \in Instants |-> 0]
    /\ accounted = TRUE

\* dispatch_schedule under scheduler ownership: the instant the reservation will
\* use is validated first, then the tick materializes with the caller's instant.
Tick(w, now, reservedAt) ==
    /\ worker[w].pc = "idle"
    /\ reservedAt >= now
    /\ Preflight(reservedAt)
    /\ MaterializeSchedule(now)
    /\ worker' = [worker EXCEPT ![w] = [Idle EXCEPT !.pc = "ticked", !.clock = reservedAt]]
    /\ UNCHANGED <<policy, lastOwner, delivered, committed>>

\* Reservation at the instant validated before the tick; no fire: idle.
Reserve(w) ==
    LET now == worker[w].clock
        D == Deliverable(now)
    IN  /\ worker[w].pc = "ticked"
        /\ ReserveScheduleFire(lastOwner + 1, now)
        /\ worker' = [worker EXCEPT ![w] =
               IF D = {} THEN Idle
               ELSE [pc |-> "running", due |-> CHOOSE d \in D : TRUE,
                     owner |-> lastOwner + 1, clock |-> now]]
        /\ lastOwner' = IF D = {} THEN lastOwner ELSE lastOwner + 1
        /\ delivered' = [d \in Instants |-> IF d \in D THEN delivered[d] + 1 ELSE delivered[d]]
        /\ UNCHANGED <<policy, created, committed, accounted>>

\* The guest returns Ok, or anything that ends in fail_schedule_fire: the lease
\* no longer covers the deadline, cancellation, a trap, an Err outcome.
GuestReturns(w, ok) ==
    /\ worker[w].pc = "running"
    /\ worker' = [worker EXCEPT ![w].pc = IF ok THEN "returned" ELSE "failing"]
    /\ UNCHANGED <<policy, tableVars, lastOwner, history>>

CommitOutcome(w, now) ==
    LET s == worker[w]
    IN  /\ s.pc = "returned"
        /\ now >= s.clock
        /\ CompleteFire(s.due, s.owner, now)
        /\ worker' = [worker EXCEPT ![w] = Idle]
        /\ committed' = [committed EXCEPT ![s.due] = @ + 1]
        /\ UNCHANGED <<policy, lastOwner, created, delivered, accounted>>

\* The outcome commit rolled back: a lost lease, a revision conflict, a busy or
\* full database.
CommitRejected(w) ==
    /\ worker[w].pc = "returned"
    /\ worker' = [worker EXCEPT ![w].pc = "failing"]
    /\ UNCHANGED <<policy, tableVars, lastOwner, history>>

FailDelivery(w, now) ==
    LET s == worker[w]
    IN  /\ s.pc = "failing"
        /\ now >= s.clock
        /\ FailScheduleFire(s.due, s.owner, now)
        /\ worker' = [worker EXCEPT ![w] = Idle]
        /\ UNCHANGED <<policy, lastOwner, history>>

\* The process dies, is cancelled after the tick, or fail_schedule_fire fails.
Crash(w) ==
    /\ worker[w].pc # "idle"
    /\ worker' = [worker EXCEPT ![w] = Idle]
    /\ UNCHANGED <<policy, tableVars, lastOwner, history>>

\* The host is stopped and started with another configuration.
Reconfigure(p) ==
    /\ p # policy
    /\ \A w \in Workers : worker[w].pc = "idle"
    /\ policy' = p
    /\ UNCHANGED <<tableVars, worker, lastOwner, history>>

Dispatch(w) ==
    \/ \E now, at \in Instants : Tick(w, now, at)
    \/ Reserve(w)
    \/ \E ok \in BOOLEAN : GuestReturns(w, ok)
    \/ \E now \in Instants : CommitOutcome(w, now)
    \/ CommitRejected(w)
    \/ \E now \in Instants : FailDelivery(w, now)
    \/ Crash(w)

Next == (\E w \in Workers : Dispatch(w)) \/ (\E p \in Policies : Reconfigure(p))

Spec == Init /\ [][Next]_vars

-----------------------------------------------------------------------------
(* Properties                                                              *)

\* Every table, counter and local record stays in its type: every lease expiry,
\* retry visibility and update time is a representable instant (validate_instant).
TypeOK ==
    /\ policy \in Policies
    /\ fires \in [Instants -> FireRow \cup {NoFire}]
    /\ cursor \in Instants \cup {NoCursor}
    /\ worker \in [Workers -> WorkerState]
    /\ lastOwner \in Nat
    /\ created \in [Instants -> Nat]
    /\ delivered \in [Instants -> Nat]
    /\ committed \in [Instants -> Nat]
    /\ accounted \in BOOLEAN

\* A due instant is materialized at most once, although its completed row is
\* pruned, the clock may be set back, hosts restart and the policy may change
\* (materialize_schedule, cleanup_schedule_fires).
MaterializedOnce == \A d \in Instants : created[d] <= 1

\* At most one outcome commits per due instant, and a fire whose outcome
\* committed is not pending again (Completion::Fire in commit_plan).
CommittedOnce ==
    \A d \in Instants :
        /\ committed[d] <= 1
        /\ committed[d] = 1 /\ fires[d] # NoFire => fires[d].status = "done"

\* A fire is handed out at most as often as the most generous policy allows,
\* although its attempts live in a row that retention may prune.
FireBudget ==
    \A d \in Instants : \E p \in Policies : delivered[d] <= p.max_attempts

\* Every occurrence in (cursor, now] is materialized by the tick or counted in
\* its skipped report (materialize_schedule).
EveryOccurrenceAccounted == accounted

\* A dispatch that lost its fire to another owner cannot fail or complete it.
StaleOwnerMutatesNothing ==
    [][\A w \in Workers :
          /\ worker[w].pc \in {"returned", "failing"}
          /\ worker'[w].pc # worker[w].pc
          /\ ~(fires[worker[w].due] # NoFire /\ fires[worker[w].due].status = "pending"
               /\ fires[worker[w].due].owner = worker[w].owner)
          => UNCHANGED <<tableVars, committed>>]_vars

\* Together: an occurrence becomes a fire once, is handed out within its budget,
\* has one committed outcome and obeys its current owner alone, although
\* retention forgets rows, the clock may be set back and hosts restart with
\* another policy.
OccurrenceOnce ==
    [](MaterializedOnce /\ CommittedOnce /\ FireBudget) /\ StaleOwnerMutatesNothing
=============================================================================
