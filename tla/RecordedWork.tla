---------------------------- MODULE RecordedWork ----------------------------
(***************************************************************************)
(* Work whose result is recorded so that a retry need not do it again: the *)
(* replay and idempotency tables of krit-state (crates/krit-state/src/     *)
(* lib.rs) and the hosts that use them (crates/krit-runtime/src/policy.rs  *)
(* and lib.rs).                                                            *)
(*                                                                         *)
(* Inbound = TRUE is durable inbound idempotency: a key is an              *)
(* Idempotency-Key, the work a guest invocation, its effect the commit of  *)
(* the invocation's state.  Inbound = FALSE is replay: a key is a named    *)
(* operation, the work and its effect an HTTP or AI provider call.  Both   *)
(* tables have the same columns and the same statements.                   *)
(*                                                                         *)
(* Instants are kept relative to the present: a row knows how long it is   *)
(* still good, a worker how long ago it read the clock or entered its      *)
(* phase.  Tick lets time pass.  Waiting for the database lock takes at    *)
(* most Busy, a guest or a provider call runs for less than Deadline, and  *)
(* the host's own code takes no time.                                      *)
(***************************************************************************)
EXTENDS Integers, FiniteSets, FiniteSetsExt, Recency

CONSTANTS
    Inbound,
    Workers,
    Keys,        \* (artifact, request_key), or (artifact, kind, operation)
    Digests,     \* request_digest, input_digest
    Results,     \* encoded responses
    Size,        \* Size[v]: how many bytes v has
    Owners,      \* lease owners
    Loads,       \* which requests may come in and what may be answered to them
    Busy,        \* StoreLimits::busy_timeout
    Deadline,    \* RuntimeLimits::deadline
    Lease, Ttl, MaxEntries, MaxBytes,  \* RetentionPolicy
    Absent,      \* no row
    None         \* no key, digest, owner or result

\* RetentionPolicy::validate and, for the lease, validate_for_runtime.  Keys are
\* texts of bounded length, so there are finitely many.
ASSUME RetentionAssumption ==
    /\ Inbound \in BOOLEAN
    /\ IsFiniteSet(Keys)
    /\ Size \in [Results -> Nat]
    /\ Loads \subseteq [asks: SUBSET (Workers \X Keys \X Digests), gives: SUBSET Results]
    /\ Busy \in Nat /\ Deadline \in Nat /\ Lease \in Nat /\ Ttl \in Nat
    /\ MaxEntries \in Nat \ {0} /\ MaxBytes \in Nat \ {0}
    /\ Lease >= Deadline + Busy
    /\ None \notin Keys \cup Digests \cup Owners \cup Results

Row ==
    [status: {"leased", "done"}, digest: Digests, owner: Owners \cup {None},
     left: Int, result: Results \cup {None}]

ASSUME AbsentIsNoRow == Absent \notin Row

Phases == {"idle", "deciding", "executing", "committing", "completing", "aborting"}

WorkerState ==
    [pc: Phases, key: Keys \cup {None}, digest: Digests \cup {None},
     owner: Owners \cup {None}, age: Nat, result: Results \cup {None}]

VARIABLES
    load,     \* what the callers and the guests of this host do; never changes
    rows,     \* the table
    older,    \* <<a, b>> when last_used of a is below that of b
    worker,
    \* History, read by no action:
    effects,  \* <<key, digest, result>> of every effect that took place
    answers   \* <<key, digest, result>> of every successful answer

vars == <<load, rows, older, worker, effects, answers>>

Idle == [pc |-> "idle", key |-> None, digest |-> None, owner |-> None, age |-> 0, result |-> None]

-----------------------------------------------------------------------------
(* The table                                                               *)

\* Faulty variant: a lease is never over.
ExpiredDone(k, age) ==
    rows[k] # Absent /\ rows[k].status = "done" /\ rows[k].left + age <= 0

\* expires_at or lease_until is not after the instant read age ago.
Expired(k, age) == rows[k] # Absent /\ rows[k].left + age <= 0

\* cleanup_replay, cleanup_idempotency.
Cleaned(age) == [k \in Keys |-> IF Expired(k, age) THEN Absent ELSE rows[k]]

\* last_used of k becomes the next sequence number.
Used(k) == UsedNow(older, Keys, k)

Done(table) == {k \in Keys : table[k] # Absent /\ table[k].status = "done"}
BytesOf(table, S) ==
    LET bytes == [k \in S |-> Size[table[k].result]]
    IN  MapThenSumSet(LAMBDA k : bytes[k], S)

\* The completed rows S are within the retention policy.
Fits(table, S) == Cardinality(S) <= MaxEntries /\ BytesOf(table, S) <= MaxBytes

\* Faulty variant: only the entries are counted.
EnforceTableLimitsByCount(table, order) ==
    LET Kept == {k \in Done(table) :
                    Cardinality({x \in Done(table) : <<x, k>> \notin order}) <= MaxEntries}
    IN  [k \in Keys |-> IF k \in Done(table) \ Kept THEN Absent ELSE table[k]]

\* enforce_table_limits: completed rows go, least recently used first, until
\* the others fit.
EnforceTableLimits(table, order) ==
    LET Kept == {k \in Done(table) :
                    Fits(table, {x \in Done(table) : <<x, k>> \notin order})}
    IN  [k \in Keys |-> IF k \in Done(table) \ Kept THEN Absent ELSE table[k]]

\* Faulty variant: the row is found by its key and digest alone.
OwnsRowByDigest(w) ==
    LET r == rows[worker[w].key]
    IN  r # Absent /\ r.status = "leased" /\ r.digest = worker[w].digest

\* The WHERE clause of the complete and abort statements.
OwnsRow(w) ==
    LET r == rows[worker[w].key]
    IN  /\ r # Absent /\ r.status = "leased"
        /\ r.digest = worker[w].digest /\ r.owner = worker[w].owner

\* abort_replay, abort_idempotency: no row is no error.
Aborted(w) == IF OwnsRow(w) THEN [rows EXCEPT ![worker[w].key] = Absent] ELSE rows

LeasedRow(w) ==
    [status |-> "leased", digest |-> worker[w].digest, owner |-> worker[w].owner,
     left |-> Lease - worker[w].age, result |-> None]

DoneRow(w) ==
    [status |-> "done", digest |-> worker[w].digest, owner |-> None,
     left |-> Ttl - worker[w].age, result |-> worker[w].result]

-----------------------------------------------------------------------------
Init ==
    /\ load \in Loads
    /\ rows = [k \in Keys |-> Absent]
    /\ older = {}
    /\ worker = [w \in Workers |-> Idle]
    /\ effects = {}
    /\ answers = {}

Answer(w, v) == answers' = answers \cup {<<worker[w].key, worker[w].digest, v>>}

InUse ==
    {worker[w].owner : w \in Workers} \cup {rows[k].owner : k \in {x \in Keys : rows[x] # Absent}}

\* A request or a replay call comes in.  next_lease_owner never repeats an
\* owner; one that nothing refers to any more is as good as a new one.
Arrive(w, k, d, o) ==
    /\ worker[w].pc = "idle"
    /\ o \notin InUse
    /\ worker' = [worker EXCEPT ![w] =
                    [pc |-> "deciding", key |-> k, digest |-> d, owner |-> o, age |-> 0, result |-> None]]
    /\ UNCHANGED <<load, rows, older, effects, answers>>

\* The row the decision finds, after the cleanup that begins its transaction.
Found(w) == Cleaned(worker[w].age)[worker[w].key]

\* Recorded, or being worked on, for another input: 409, or a replay error.
Conflict(w) ==
    /\ worker[w].pc = "deciding"
    /\ Found(w) # Absent /\ Found(w).digest # worker[w].digest
    /\ rows' = Cleaned(worker[w].age)
    /\ worker' = [worker EXCEPT ![w] = Idle]
    /\ UNCHANGED <<load, older, effects, answers>>

\* Faulty variant: whatever the key has recorded is replayed.
ReplayableByKey(w) == Found(w) # Absent /\ Found(w).status = "done"

Replayable(w) ==
    Found(w) # Absent /\ Found(w).digest = worker[w].digest /\ Found(w).status = "done"

Replay(w) ==
    /\ worker[w].pc = "deciding"
    /\ Replayable(w)
    /\ rows' = Cleaned(worker[w].age)
    /\ older' = Used(worker[w].key)
    /\ Answer(w, Found(w).result)
    /\ worker' = [worker EXCEPT ![w] = Idle]
    /\ UNCHANGED <<load, effects>>

\* A lease the cleanup has left is live: the branch that takes an expired one
\* over in place is never reached.
InProgress(w) ==
    /\ worker[w].pc = "deciding"
    /\ Found(w) # Absent /\ Found(w).digest = worker[w].digest /\ Found(w).status = "leased"
    /\ rows' = Cleaned(worker[w].age)
    /\ worker' = [worker EXCEPT ![w] = Idle]
    /\ UNCHANGED <<load, older, effects, answers>>

Execute(w) ==
    /\ worker[w].pc = "deciding"
    /\ Found(w) = Absent
    /\ rows' = [Cleaned(worker[w].age) EXCEPT ![worker[w].key] = LeasedRow(w)]
    /\ older' = Used(worker[w].key)
    /\ worker' = [worker EXCEPT ![w].pc = "executing", ![w].age = 0]
    /\ UNCHANGED <<load, effects, answers>>

\* The guest returned a valid response, or the provider call begins to
\* succeed.  One that reaches its deadline is interrupted instead.
Returns(w, v) ==
    /\ worker[w].pc = "executing" /\ worker[w].age < Deadline
    /\ worker' = [worker EXCEPT ![w].pc = "committing", ![w].age = 0, ![w].result = v]
    /\ UNCHANGED <<load, rows, older, effects, answers>>

\* commit_outcome commits, or the provider has acted: nothing undoes it.
Effect(w) ==
    /\ worker[w].pc = "committing"
    /\ effects' = effects \cup {<<worker[w].key, worker[w].digest, worker[w].result>>}
    /\ worker' = [worker EXCEPT ![w].pc = "completing", ![w].age = 0]
    /\ UNCHANGED <<load, rows, older, answers>>

\* complete_replay, complete_idempotency; a lease that ran out is still owned
\* until a later decision removes its row.
Complete(w) ==
    LET table == [rows EXCEPT ![worker[w].key] = DoneRow(w)]
        order == Used(worker[w].key)
    IN  /\ worker[w].pc = "completing"
        /\ Size[worker[w].result] <= MaxBytes
        /\ OwnsRow(w)
        /\ rows' = EnforceTableLimits(table, order)
        /\ older' = order
        /\ Answer(w, worker[w].result)
        /\ worker' = [worker EXCEPT ![w] = Idle]
        /\ UNCHANGED <<load, effects>>

\* A response the policy cannot retain is answered and not recorded.
CompleteOversized(w) ==
    /\ Inbound
    /\ worker[w].pc = "completing"
    /\ Size[worker[w].result] > MaxBytes
    /\ rows' = Aborted(w)
    /\ Answer(w, worker[w].result)
    /\ worker' = [worker EXCEPT ![w] = Idle]
    /\ UNCHANGED <<load, older, effects>>

\* A trap, a provider error, the deadline, cancellation, a failed commit, a
\* failed completion: a lost lease, an oversized replay result, a locked store.
Fail(w) ==
    /\ worker[w].pc \in {"executing", "committing", "completing"}
    /\ worker' = [worker EXCEPT ![w].pc = "aborting", ![w].age = 0]
    /\ UNCHANGED <<load, rows, older, effects, answers>>

\* abort_idempotency, finish_replay_attempt.
Abort(w) ==
    /\ worker[w].pc = "aborting"
    /\ rows' = Aborted(w)
    /\ worker' = [worker EXCEPT ![w] = Idle]
    /\ UNCHANGED <<load, older, effects, answers>>

\* The worker stops with its row as it is: the process died, or the store
\* stayed locked for Busy.
Crash(w) ==
    /\ worker[w].pc # "idle"
    /\ worker' = [worker EXCEPT ![w] = Idle]
    /\ UNCHANGED <<load, rows, older, effects, answers>>

\* How long a worker may stay in its phase.
Patience(pc) ==
    CASE pc = "executing" -> Deadline
      [] pc = "committing" /\ ~Inbound -> 0
      [] OTHER -> Busy

Tick ==
    /\ \A w \in Workers : worker[w].pc # "idle" => worker[w].age < Patience(worker[w].pc)
    /\ worker' = [w \in Workers |->
                    IF worker[w].pc = "idle" THEN worker[w] ELSE [worker[w] EXCEPT !.age = @ + 1]]
    /\ rows' = [k \in Keys |->
                  IF rows[k] = Absent \/ rows[k].left <= -Busy THEN rows[k]
                  ELSE [rows[k] EXCEPT !.left = @ - 1]]
    /\ UNCHANGED <<load, older, effects, answers>>

Decide(w) == Conflict(w) \/ Replay(w) \/ InProgress(w) \/ Execute(w)

Work(w) ==
    \/ Decide(w)
    \/ \E v \in Results : v \in load.gives /\ Returns(w, v)
    \/ Effect(w)
    \/ Complete(w)
    \/ CompleteOversized(w)
    \/ Fail(w)
    \/ Abort(w)
    \/ Crash(w)

Request(w) ==
    \E k \in Keys, d \in Digests, o \in Owners :
        <<w, k, d>> \in load.asks /\ Arrive(w, k, d, o)

Next == Tick \/ \E w \in Workers : Request(w) \/ Work(w)

Spec == Init /\ [][Next]_vars

\* Time passes, a worker does not stay in a phase for ever, callers retry, and
\* the store is not locked for ever.
Fairness ==
    /\ SF_vars(Tick)
    /\ \A w \in Workers : WF_vars(Request(w)) /\ WF_vars(Work(w))
    /\ SF_vars(\E w \in Workers : Decide(w))

FairSpec == Spec /\ Fairness

-----------------------------------------------------------------------------
(* Properties                                                              *)

\* Every variable keeps its type.
TypeOK ==
    /\ load \in Loads
    /\ rows \in [Keys -> Row \cup {Absent}]
    /\ older \subseteq Keys \X Keys
    /\ worker \in [Workers -> WorkerState]
    /\ effects \subseteq Keys \X Digests \X Results
    /\ answers \subseteq Keys \X Digests \X Results

Running(w) == worker[w].pc = "executing" /\ worker[w].age < Deadline

\* Leases, lapses, stale aborts and evictions notwithstanding, one key is
\* never worked on twice at the same time: a lease covers the wait for the
\* lock it was taken under and the whole deadline (validate_lease,
\* idempotency_decision, replay_decision, the owner in the abort statements).
WorkExclusive ==
    \A v, w \in Workers : Running(v) /\ Running(w) /\ v # w => worker[v].key # worker[w].key

\* Whatever a caller is told, first hand or replayed, is the result of an
\* effect that took place for the same key and the same input digest
\* (idempotency_decision, replay_decision).
AnswersEffective == answers \subseteq effects

\* Making room for a result never evicts that result, and evicts enough: a
\* successful answer that could be recorded is recorded, and the completed rows
\* are then within the entries and the bytes of the retention policy
\* (complete_idempotency, enforce_table_limits).
AnswerIsRecorded ==
    [][\A w \in Workers :
          LET k == worker[w].key
          IN  (answers' # answers /\ worker[w].pc = "completing" /\ worker'[w].pc = "idle"
                 /\ Size[worker[w].result] <= MaxBytes)
              => /\ rows'[k] # Absent /\ rows'[k].status = "done"
                 /\ rows'[k].result = worker[w].result
                 /\ Fits(rows', Done(rows'))]_vars

\* A lease that nobody works under.
Orphaned(k) ==
    /\ rows[k] # Absent /\ rows[k].status = "leased"
    /\ \A w \in Workers : worker[w].owner # rows[k].owner

\* "Process death leaves a lease that becomes recoverable after its bounded
\* TTL": a lease nobody works under goes away (cleanup_idempotency,
\* cleanup_replay).
OrphanedLeaseRecovered == \A k \in Keys : Orphaned(k) ~> ~Orphaned(k)
=============================================================================
