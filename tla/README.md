# Krit: verification of the language and its durable host

Krit compiles a small typed language to WebAssembly components and runs them on
a host that owns every effect: state, queues, schedules, objects, HTTP and AI
calls, SQL databases, caches. Two kinds of code in it are hard to get right and
hard to test. The host: several processes share SQLite files, work under leases
that lapse while their owners still run, crash between two transactions, race
timeouts, decide authority in several places, and must neither lose nor repeat
what they promised. And the compiler: six stages that each walk the program
again and have to agree with each other about it. This directory models both
from the code under `crates/`, checks them with TLC on small instances, and
proves every safety property of the host with TLAPS for every value of the
constants.

Paths below are relative to the repository root. `PROJECT.json` maps every
definition to the lines it models and lists the hazards, line by line.

## 1. Inventory

### Durable parts

| Part (code) | State | Operations | Meets | Hard behaviour | Correct when |
| --- | --- | --- | --- | --- | --- |
| Durable queue (`krit-state/src/jobs.rs`, `krit-runtime/src/jobs.rs`) | `queue_jobs`, `queue_dead`, `meta.sequence`, `meta.revision`; the lease a dispatch holds | publish, reserve (with terminalization), commit with acknowledgement, fail/retry/bury, prune dead letters, dispatch | invocation state (one commit for both), clocks of the callers | a lease lapses while its guest runs; a crash between reservation and outcome; clocks of two hosts disagree; bounds checked inside an outcome | no job is lost, duplicated or over-delivered; a delivery's writes commit once and with its acknowledgement; a stale owner changes nothing; bounds hold |
| Durable schedule (same files) | `schedule_fires`, `schedule_cursors` | materialize, reserve, complete, fail, prune, dispatch, restart with another policy | the same commit and leases | the cursor outlives the policy it was written under; finished rows are pruned; a host whose clock lies behind ticks late | an occurrence is materialized once or reported as skipped; one outcome commits per occurrence |
| Invocation state and buckets (`krit-runtime/src/state.rs`, `krit-state`) | rows of `kv`, `checkpoints`, `objects`; `meta.revision`; an overlay per invocation | activate, read at a revision, stage, publish, commit, abandon | queue and schedule completions | reads of one invocation straddle the commits of another; lost updates; bucket bounds while one outcome puts and deletes | reads come from one state, writers are serial, the bucket is bounded |
| Inbound idempotency and outbound replay (`krit-state/src/lib.rs`, `krit-runtime/src/{lib,state}.rs`) | one row per key: leased or done, digest, owner, expiry, result, use order | decide, complete, abort, clean up, evict | the invocation commit or the provider call between decision and completion | a lease lapsing during work, late aborts and completions, process death, eviction while completing | a key is not worked on twice at once; an answer belongs to an effect of the same key and input; orphaned leases go away |
| Application database (`krit-database/src/connection.rs`, `krit-runtime/src/database.rs`) | the file, SQLite's locks, staged pages, the poison flag, the one live handle and its counters | begin, query, execute, commit, rollback, drop, cleanup at the end of an invocation | guests of several hosts through SQLite's locks and one disk budget | SQLite unwinding by itself, failed rollbacks, a check after COMMIT, a journal of somebody else on the disk | nothing is inherited by the next invocation, only whole transactions are published, reports are true, locks are released |
| Cache (`krit-cache/src/{store,config}.rs`) | entries, access order, expiry order, incremental byte and entry counters | get, put, seed, delete, sweep, evict locally and globally | every invocation in the process through one mutex | the clock is read before the mutex; expired entries linger; counters drift | counters exact, budgets kept, a valid write fits, a hit is fresh, eviction in order |
| Store opening and migration (`krit-state/src/{schema,lib}.rs`) | the file: identity, schema objects, meta row, journal mode, size; one opener per host | check length and integrity, read the identity, initialize or migrate under the lock, validate, configure, verify the budget | other hosts opening or using the same file | the identity is read before the lock is held; a host dies in the middle of a migration; the file belongs to somebody else or is too large | only a complete store is open, nothing unknown is touched, nothing is lost, racing openers do not reject each other's work |

### Host and package

| Part (code) | State | Operations | Meets | Hard behaviour | Correct when |
| --- | --- | --- | --- | --- | --- |
| Package manifest and artifacts (`krit-package`, `krit-cli/src/main.rs`, `krit-wasm/src/{wit,validation,lib}.rs`) | the manifest, the artifact with its metadata | load, build, validate, select a world | compiler, runtime | what is granted is computed in four places; the manifest may change after the build | all views of a manifest agree; what was built loads; what is served makes only granted calls |
| Permissions (`krit-runtime/src/permissions.rs`, `krit-capability`) | the grant set of the manifest in force | evaluate an artifact, authorize, bind a bearer to an origin | every host call | a call the host makes on the guest's behalf has other authority than the guest | a secret reaches bound origins only; the host's own calls never lack authority at run time |
| Host configuration (`krit-cli/src/host_config.rs`) | six schemas of one file, the files it names | load, validate, create and open stores | manifest, runtime validation | the last of many checks fails after files could have been created | a refused load leaves a file behind only if a store itself failed; what loads passes what the runtime checks again |
| Agent policy (`krit-runtime/src/policy.rs`) | approvals, rate windows and their recency, idempotency responses and their bytes | approve, check a rate, decide, complete | all runtimes that share the host | full tables evict; an approval is withdrawn between attempts; two runtimes complete one key | caps hold, replays are recorded answers, withdrawal takes effect |
| Webhook invocation and outbound calls (`krit-runtime/src/{lib,network,ai,search}.rs`) | the invocation, its attempt, its resolver workers, its deadline | invoke, call out, resolve, transfer, retry, back off, cancel | policy, permissions, peers | peers and resolvers that never answer, failures after the peer acted | only safe requests are sent again; every invocation ends |

### Language

| Part (code) | What it computes | Correct when |
| --- | --- | --- |
| Parser (`krit/src/parser.rs`) | tokens to a tree, with depth limits and speculative readings | a text has one reading |
| Formatter (`krit/src/formatter.rs`) | tokens and tree to laid-out tokens | it keeps program, docs and comments, and settles at once |
| Analysis (`krit/src/{analysis,patterns}.rs`) | types by unification, effects and requirements as a fixpoint, exhaustiveness | accepted programs do not fail dynamically and stay within their effects |
| Core and verifier (`krit/src/core.rs`) | lowering to operations and blocks; a check of the result | what is accepted lowers and verifies |
| Evaluator (`krit/src/evaluator.rs`) | direct execution | the reference for the component |
| WebAssembly backend (`krit-wasm/src/{support,compiler}.rs`) | the support check, code for scalar module programs | what is supported encodes and does what the evaluator does |

### Left out

| Part | What it does | Why |
| --- | --- | --- |
| Statement catalog and values (`krit-database`) | parses SQL once, converts values | pure functions over strings |
| Observability | formats and redacts events | feeds nothing back |
| Language server, guided authoring | answer requests one at a time over the analyzer and formatter; exchange redacted text with a provider | no state that interleaves; their own logic is positions and strings |
| Lexer and lints | text to tokens; advice | strings; tokens of the model carry what the lexer records of them |

The parts interact at five places. A dispatch (queue or schedule) reserves a row,
runs a guest whose state operations are staged in an `InvocationState`, and
commits the staged rows, the publications and the acknowledgement in **one**
`commit_plan`. A webhook does the same without an acknowledgement, between the
decision and the completion of its idempotency row, which are **separate**
transactions. Database transactions of a guest are independent of all of that
and end before the outcome commits. The cache is shared by all invocations of a
process and survives none. And a package goes from the compiler's requirements
through the manifest, the artifact and the host configuration to the runtime,
which decides again at every call.

## 2. Modules

| Module | Models | Written for |
| --- | --- | --- |
| `JobQueue` | the queue tables, one operator per SQLite transaction | EXTENDS |
| `JobDelivery` | host processes running `Runtime::dispatch_job` over `JobQueue`, next to invocations that publish | TLC, TLAPS |
| `QueueContract` | what the queue promises, without tables, leases and clocks | abstract specification of `JobDelivery` |
| `ScheduleFires` | the schedule tables and `Runtime::dispatch_schedule` | TLC, TLAPS |
| `Backoff` | the retry delay of jobs and fires | EXTENDS |
| `InvocationStore` | the overlay, snapshot and commit of invocations over one store | TLC, TLAPS |
| `SerialStore` | writers that happen at one instant each | abstract specification of `InvocationStore` |
| `StoreOpening` | opening, initializing and migrating the file of a store by several hosts | TLC, TLAPS |
| `RecordedWork` | the idempotency and the replay table with the hosts that use them | TLC, TLAPS |
| `DatabaseSession` | connections, transaction handles and cleanup of the application database | TLC, TLAPS |
| `TtlCache` | the cache | TLC, TLAPS |
| `Recency` | least-recently-used order, for the cache, the two durable tables, the rate windows and the responses in memory | EXTENDS |
| `Package` | manifests, requirements, build, validation, grants | EXTENDS |
| `HostAdmission` | host configurations: loading, validation, admission of an artifact | EXTENDS `Package` |
| `AgentHost` | a deployment: build, load, admit, then invocations of several runtimes on one host | TLC, TLAPS, EXTENDS `HostAdmission` |
| `Syntax` | the tree, built-ins, contract records | EXTENDS |
| `Parser`, `Formatter` | tokens to trees, and back to laid-out tokens | operators |
| `Patterns`, `Unification`, `Analysis` | match checking, types and effect variables, the analyzer | operators |
| `MachineIntegers` | the integers of the evaluator (checked) and of the backend (wrap-around), for any width | EXTENDS, TLAPS |
| `Evaluator` | direct execution | operators |
| `Lowering`, `CoreVerifier` | Core IR and its verifier | operators |
| `WasmSupport`, `WasmBackend` | the support check; encoding and what the code does | operators |
| `Toolchain` | the stages as actions over one source file | TLC |
| `MC...` | constants, deployments, programs and layouts for TLC; `DatabaseSession` needs none | |
| `Arithmetic` | sums over finite sets, orders of use and machine integers: lemmas and theorems about the operators of the models | TLAPS |
| `StoreProofs` | theorems about `InvocationStore` and `StoreOpening` | TLAPS |
| `...Proofs` | theorems about the module they are named after | TLAPS |

`JobDelivery` composes the queue tables with the processes; `AgentHost` composes
compiler output, manifest, configuration and runtime; `Toolchain` composes the
language modules, which are its parameters and are given to it in `MCToolchain`.

A definition named "Faulty variant" in a comment is a plausible mistake in the
definition after it. No action uses one; replacing the definition by it must make
TLC report a violation, which is how each property is shown to say something.

### JobQueue and JobDelivery

`jobs` and `dead` are the two tables as functions from job identities to a row or
`NoJob`; `sequence` and `revision` are the two counters of `meta`. `CommitPlan`,
`ReserveJob`, `FailJob` are the transactions of the same names, and the order in
them is kept: `reserve_job` validates every instant it could record, cleans up
dead letters by age and count, and walks a bounded scan in sequence order,
burying exhausted rows until it meets one to deliver.

A worker of `JobDelivery` is a process with one `Runtime`; the scheduler mutex is
held through the whole dispatch, so it has one delivery in flight, and its
program counter says where: reserved, running, returned, failing. `now` is
chosen afresh in each transaction from all instants and only has to be
monotone within one dispatch, which is what `DeliveryClock` guarantees; two
workers' clocks are unrelated. Therefore a lease can lapse at any moment in
another worker's view. `Crash` ends a dispatch anywhere and keeps the row's
lease. `CommitRejected` may happen to any outcome (SQLite may be busy or full),
and `FailDelivery` then has to cope. Owners are drawn fresh (`next_lease_owner`);
`MaxStaged` and `MaxRevision` bound exploration only.

### ScheduleFires

One schedule (rows of two schedules never meet). Rows are indexed by due instant.
`FirstIndex` keeps Rust's truncating division (`TruncDiv`); `DueNow` and
`SkippedNow` are the occurrences a tick inserts and the ones it reports. `Tick`
and `Reserve` are the two transactions of a dispatch, so another host can come in
between. `Reconfigure` restarts the hosts with another policy over the same
tables. The staged state of a fire is `JobDelivery`'s and `InvocationStore`'s;
here an outcome is its acknowledgement.

### InvocationStore

`contents` is the union of three tables, `inv[i]` the `InvocationState` of an
invocation: its revision once activated, its operation count and its staged map.
Each access of the database is one step. `Commit` applies staged objects in key
order, each against the rows as the earlier ones left them, as the code's loop
does. `Publish` counts as an operation and takes no part in the revision guard.
The listing of keys and the byte limit of the overlay are left out.

### StoreOpening

`file` is what SQLite has committed at the path: whether `quick_check` accepts it,
`application_id` and `user_version`, its schema objects, the revision of its meta
row, rows, journal mode and size in pages. The comparison of definitions is
abstracted to which of the two complete sets a file holds, and whether it holds
anything else. `op[p]` is one call of `DurableStore::open`. Each statement, or group
of statements that nobody can come between, is a step: `Check` (the page ceiling,
then `quick_check`), `ReadIdentity`, `Lock` (the exclusive transaction begins and
the identity is read again), `Define`, `Stamp`, `CommitSchema`, `Validate`, `Persist`,
`Verify`. The transaction works on a copy. Readers wait for it in rollback mode and
not in WAL mode. A busy timeout (`Busy`), an error of SQLite (`Fails`) and the end of
the process (`Exits`) may come at any step, and a host that has the store open
commits. SQLite refuses to lower `max_page_count` below the present size
(`PageLimit`), and the length check of `Start` does not see the write-ahead log.

### RecordedWork

One module for two tables with the same columns and statements. `Inbound` says
which: a guest invocation whose effect is the state commit, or a provider call.
Times are kept relative: `left` of a row, `age` of a worker's reading. `Tick` lets
time pass and is disabled while a worker has used up its phase. This encodes the
timing assumption under which `WorkExclusive` holds: waiting for the SQLite lock
takes at most `Busy` (`busy_timeout`), a guest is stopped before `Deadline`, and
the host's own code takes no time. `Lease >= Deadline + Busy` is not assumed out
of convenience but is what `validate_lease` enforces at start-up. An expired lease
is still owned until a later decision removes it, as in the code. A `load` says
which worker asks for which keys with which digest and which results there are;
one is chosen at the start of a behaviour. The branch of
the decision that takes an expired lease over in place cannot be reached after the
cleanup that starts its transaction, and is not an action.

### DatabaseSession

A host is one `Runtime` with its own connection on a shared file, and runs one
invocation at a time. The file is a set of rows of one page each; a mutation
inserts an unused row; a journal of `JournalPages` exists from a transaction's
first mutation to its end and counts against the disk budget of everyone, as
`total_disk_bytes` does. `lock` distinguishes autocommit, a deferred BEGIN, a
reader and a writer. Every failed host call traps, so the guest does not run on.
COMMIT and `checkpoint_and_verify` after it are two steps (`Commit`, then `Verify`).
The second may fail at any time (`CommitUnverified`): one of its two
`journal_size_limit` pragmas fails, or the disk is over its budget; it succeeds
(`CommitVerified`) only within the budget. A failed ROLLBACK leaves the transaction
in place and poisons the database. Row values, query results and the K5302 verdict
of `finalize_transactions` on a guest that left a transaction open are left out.

### TtlCache

Every operation holds the mutex, so each is one action, but it works with an
instant read before that (`MaxLag` behind at most). Only the order of access
stamps matters, so `older` is that order as a set of pairs (`Recency`); the byte and entry counters, which the
code maintains by adding and releasing, are variables of their own with the same
saturating subtraction, so that drift would show. A write sweeps `MaxSweep`
expired entries, releases what it replaces, evicts for its namespace, then for
the whole cache. Misses, statistics and refused arguments change nothing and are
left out.

### Package, HostAdmission and AgentHost

A manifest is a record of sets of names, a requirement a pair of a capability and
a resource. A program is what its calls are: `CallRequirements` and `CallEffects`
say what analysis derives from each direct host call, replay included.
`BuildPackage` follows `build_command`: load the manifest, analyze, compare every
requirement with it, derive the granted effects, emit, validate. `GrantSet`,
`GrantsPermission` and `PermissionPlan` are the three computations of what a
manifest grants, kept apart because the code keeps them apart.

`LoadHost` keeps the order of `load_for_platform`: the sections of the schema,
inputs and secrets, policies, paths and aliases, and only then the opening of
databases and the creation and opening of stores. It returns the files it created
also when it fails. `OpenDurableState` creates the missing files in the order of
the stores' names (`Precedes`, the order of a `BTreeMap`) up to the first that
cannot be created, and then opens every store. `ValidateAgentHost` is what the
runtime checks again with the artifact at hand. A file system is a set of paths
with inodes, so that a linked path aliases another, with the paths at which no
file can be created and those whose file, new or old, does not open.
`defaultRetry` and `defaultRate` of a configuration stand for the HTTP default and
the AI default alike, which the code keeps and validates as two.

In `AgentHost` a runtime runs one invocation at a time and several runtimes share
one host. The steps of `send_with_retry` and `network::send` are separate
actions, one for each lock taken or wait made: the approval and deadline check of
an attempt, the charge of its rate window, the start of a resolver, the transfer,
the outcome, the backoff. `Answer` lets a peer answer with any status or fail in
a retryable or a final way; a peer or a resolver need never answer. A resolver
worker that timed out goes on until the system resolver returns. Cancellation and
withdrawal may come between any two steps, and time only moves with `Tick`.
`windows`, `wire` and `answers` are history: the rate windows of a table that
never evicts, the credentials sent, and what guests produced. Calls recorded by a
state store, and durable idempotency, are `RecordedWork`'s.

### The language modules

A token has a kind, a text where it matters, whether a line break precedes it and
the comments before it: everything the parser and the formatter ask about. The
parser is a set of operators from a position to a position; its position
carries the depths, the first diagnostic and the speculative flags of `Parser`.
One loop over levels stands for the six functions of the operator hierarchy.

Expressions are paths into the tree, and the analyzer's state holds bindings of
type variables with their heights and constraints, effect variables with their
dependencies, and a fact per path, which is what lowering reads. Diagnostics are
their codes; the first one ends a stage, as in the code. Strings are sequences
of byte codes and integers have the width `MaxInt`, with the same overflow,
truncating division and special case of the smallest integer in the evaluator
(checked operations) and in the backend (wrap-around and sign tests), each as its
own code does it.

`Lowering` emits operations into blocks with value and binding numbers;
`CoreVerifier` checks the module it gets from scratch. `WasmSupport` computes
live and static functions and the support of every operation; `WasmBackend` says
whether encoding finds a type and a local for everything it loads, and runs the
code on locals that start at zero. Its prints go to `HostWrite`, which is
`HostState::write`: it stops a cancelled run, then counts the call against
`host_call_limit`, then the bytes against `output_limit`, then appends. A `host` has
these two limits and the number of writes after which its run is cancelled. The
fuel and the deadline of a run are left out. The generator modelled is the one of
module programs (`compiler.rs`); webhook components are checked up to their
support, world and metadata. JSON and URL conversions are left out of the
built-ins.

`Toolchain` holds what each stage returned for the file as it is. A formatting
request rewrites the file and forgets all of it; running and building are
independent, so their steps interleave.

## 3. Runs

Run any of them with `tlc -config <cfg> <module>`. All instances are complete
state spaces; none is a simulation.

| Run | Instance | Shows |
| --- | --- | --- |
| `delivery_race` (`MCJobDelivery.cfg`) | 2 workers, 3 jobs for one place of one byte, 2 attempts, lease, backoff and dead-letter age 1, one retained dead letter, a scan of 1, instants 0..3, 5 owners | `DeliveredOnce`, `TablesSound`, `StaleOwnerMutatesNothing`, and `ImplementsContract`: the whole implements `QueueContract` |
| `schedule_race` (`MCScheduleFires.cfg`) | 2 hosts, intervals 1 and 2 and catch-up 1 and 2 with restarts between them, one retained fire, instants 0..3 | `EveryOccurrenceAccounted`, `OccurrenceOnce` |
| `store_serial` (`MCInvocationStore.cfg`) | 2 invocations of 2 operations, a key, a checkpoint, 2 objects in a bucket for one | `SnapshotReads`, `BucketBounded`, `ImplementsSerialStore` |
| `store_opening` (`MCStoreOpening.cfg`) | 2 hosts with budgets of 3 and 4 pages, 900 files: identities, versions -1 to 3 and schema objects in every combination, either journal mode, damaged or not; 4 attempts | `OpenedStoreHolds`, `SoundStoreNotRejected`, `FileIsRespected` |
| `recorded_race` (`MCRecordedWork.cfg`) | two loads: 2 workers on one key with 2 digests, and 1 worker with 2 keys and results of 1 and 2 bytes where 2 entries and 1 byte are retained; lease = deadline + busy = 2, `FairSpec` | `WorkExclusive`, `AnswersEffective`, `AnswerIsRecorded`, `OrphanedLeaseRecovered` |
| `database_race` (`MCDatabase.cfg`) | 2 hosts, 2 rows, 2 transactions an invocation, a budget of 2 pages with a journal of 2, `FairSpec` | `OutcomesSettled`, `TransactionsSound`, `LockReleased` |
| `cache_pressure` (`MCTtlCache.cfg`) | 2 namespaces whose budgets together exceed the cache, 2 keys, values of 1 and 2 bytes, lag 1, sweep 1 | `BudgetsExact`, `HitsAreFresh`, `EvictsLeastRecent` |
| `agent_host` (`MCAgentHost.cfg`) | 36 manifests, 36 programs and 65 configurations, each a full one edited in one place (two stores in two); 8 deployments that serve, with 1 or 2 runtimes | the package properties (`GrantViewsAgree`, `BuiltCallsAuthorized`, `LoadedHostAdmitted`, `OnlyStoresLeaveFiles`) and those of serving (`SecretsReachBoundOrigins`, `AdmissionSuffices`, `RateCapHolds`, `AttemptsWithinPolicy`, `ResponsesReliable`, `InvocationEnds`) |
| `toolchain` (`MCToolchain.cfg`) | 3,104 programs of nine families and 2,145 laid-out or damaged files with comments, integers of 3 bits, lines of 20, hosts with and without a small call limit, a small output limit and a cancellation | `OneReading`, `FormatKeepsProgram`, `FormatStable`, `AcceptedRunsSafely`, `EffectsCoverRun`, `LoweringVerifies`, `SupportedEncodes`, `ComponentAgrees` |
| `schedule_start_moved` (`MCMovedStart.cfg`), `capture` (`MCCapture.cfg`), `build_ungranted` (`MCBuildUngranted.cfg`) | see Findings | a statement of the repository the code does not keep |

Several of these properties are conjunctions of named parts, each with its own
comment in the module: `DeliveredOnce` is conservation, effects only with the
acknowledgement, and the attempt budget; `TablesSound` the bounds of the queue and
of its dead letters and unique sequences; `OccurrenceOnce` one materialization, one
commit, the budget and fencing of a fire; `OpenedStoreHolds` a complete store and a
ceiling in force; `FileIsRespected` that an unknown file is untouched and a known one
loses nothing; `AdmissionSuffices` granted calls and host calls that never lack
authority; `AttemptsWithinPolicy` at most one request after a withdrawal and resends
only when safe; `ResponsesReliable` exact bounds and replays of recorded answers;
`OutcomesSettled`, `TransactionsSound` and `BudgetsExact` likewise. `ComponentAgrees`
compares a run of the component with direct execution: the same output and a trap
exactly at K4004 and K4005, unless the host's limits or its cancellation cut the
component short, which then has written a prefix.

### Why these bounds are enough

- *Two actors.* Every mechanism that separates actors (an owner in a WHERE
  clause, a revision, a lock, a digest) relates two of them at a time: the one
  that lost and the one that took over. Owners, revisions and sequences are
  counters and never compared across more than two.
- *Two attempts, instants 0..3.* With a lease and a backoff of 1 a job can be
  reserved, lost, reserved by the other worker and buried or retried; dead
  letters age out within the instants. The last instants exercise the refusal to
  record an instant beyond the representable range. When all jobs are finished
  and the clock has no instant left the system may stop, so this run does not
  check for deadlock. `MaxOwner` bounds the owners handed out: five
  reservations are one more than two attempts of two jobs need.
- *Three jobs for one place.* More than fits, so that a publication is refused
  and, in an outcome that also acknowledges, refused although a row is about to
  go; two jobs can be buried where one dead letter is kept. With one place at most
  one row is queued at a time: how several rows share the bytes of a queue and are
  ordered by their sequences rests on the theorems `TablesStaySound` and
  `RefinesContract`, which hold for any policy.
- *Catch-up 1 and 2, intervals 1 and 2, instants 0..3.* The clock leaves room for
  a tick after two missed occurrences: with a bound of 2 it materializes both, with
  a bound of 1 it skips one. Retention 1 prunes rows the cursor still covers.
- *Bucket for one of two objects.* A put before, after and instead of a
  delete in key order, and a replacement.
- *Every file, growth of 0, 1 or 2 pages.* A file fits one budget and not the
  other, before or after its migration; free pages may spare it the growth. Two
  openers suffice for a lost race. The number of attempts is the code's.
- *Lease exactly at its validated minimum.* The tightest case for
  `WorkExclusive`: a lease one unit shorter could lapse inside the deadline.
- *Two keys, results of one and two bytes, one byte kept.* A completion evicts
  the other result, or is too large to be kept at all. Evictions of several results
  rest on the theorem `AnswersAreRecorded`.
- *Two transactions an invocation.* A second one follows an undone, a committed or
  an unverified first one on the same connection.
- *Budget equal to the journal.* The page-count check, the disk check
  during a statement and the disk check after COMMIT each refuse in some state.
- *Lag 1, sweep 1.* An operation can work with an instant before its
  predecessor's, and more entries can be expired than a write sweeps.
- *One edit at a time.* A full manifest, program and configuration use every
  capability; each of their checks compares one part of one of them with one part
  of another, so one edit on each side reaches every refusal. Where one store is
  created before another fails, two paths are edited, in both orders. The serving
  deployments have deadlines of 1 or 2, windows and delays of 1 and one or two
  calls: enough for a retry, a window that ends, an expired response, an eviction
  and a deadline in each phase. The clock stops at `until`, and requests arrive
  only while they can still reach their deadline; a deployment may stop after
  that, so deadlock is not checked.
- *Small programs.* Each family fills the holes of a template with every
  expression of a set, well-typed or not: all integers of the width under all
  operators, every operator under every other, operands of every kind, every
  way for a body to use its parameter, `?` and let-else under every result type,
  nested patterns in threes, scopes and captures of data, scalar recursion,
  handlers and host calls. The layouts have comments and breaks in every gap of
  groups, chains, matches and let-else around the line width. A function that
  captures another function is left to the run `capture`.

Symmetry is used for workers, jobs, keys and owners where the run checks only
safety properties; the runs with liveness properties use none.

### Fairness

`recorded_race` assumes that time passes (SF on `Tick`), that a worker does not
stay in a phase for ever (a guest has a deadline, a lock wait has a timeout, the
host's code returns), that callers retry, and that the store is not locked for
ever when decisions keep being tried (SF on some decision). The last one is
needed because a lease is removed by the cleanup of the next decision, not by a
timer. Nothing is assumed of the worker that died: it may die again each time.

`database_race` assumes weak fairness of `Verify` and `Finish` per host: a guest is
bounded by its fuel and its deadline, and the code after COMMIT and after a guest
always returns. No fairness is given to COMMIT, rollback by the guest or any host
call, since a guest need never make one.

`agent_host` assumes weak fairness of the clock and of each runtime's own threads
(`RuntimeStep`): the loops that poll cancellation and deadline every few
milliseconds, and the epoch deadline that ends a guest. No fairness is given to
guests, peers, resolvers or the embedding: `InvocationEnds` holds although none of
them ever acts.

## 4. Findings

Three statements of the repository have a run that shows a shortest behaviour in
which the code does otherwise.

1. `schedule_start_moved`, `EveryOccurrenceAccounted`
   (`crates/krit-state/src/jobs.rs:616`). The first index after the cursor is
   `(last_due - start) / interval + 1` with a division that truncates toward zero.
   If the configured start was moved less than an interval past the cursor, the
   quotient is 0 instead of -1 and the occurrence at the new start is neither
   inserted nor counted as skipped. `spec/JOBS-AND-STORAGE.md:197` says every
   occurrence in `(cursor, now]` is materialized; `docs/technical-design.md:465`
   that skipped ones are reported. Changing only the interval is safe:
   `schedule_race` does that.
2. `capture`, `SupportedEncodes` (`crates/krit-wasm/src/compiler.rs:273`). A
   top-level function that calls another captures it. The support check accepts a
   capture that is a static function (`support.rs:538`), but `encode_function` of
   module programs gives captures neither a type nor a local, and emission fails
   with "missing type". `krit-wasm/src/lib.rs` says support findings are collected
   exhaustively before emission, and names a test
   `emission_never_fails_after_the_support_check_passes`. The webhook generator
   (`agent_compiler.rs:498`) does register captures.
3. `build_ungranted`, `BuildComparesRequirements`
   (`crates/krit-cli/src/main.rs:1362`). `krit build` looks for missing grants in the
   requirements of expressions; the requirement of a declaration is not among them,
   and emission only asks whether the manifest grants its effect for some resource.
   A job whose queue is not in `consumes`, while another one is, is built; the
   runtime refuses the artifact. `spec/PACKAGES.md:185-199` says that build planning
   compares the requirements with the manifest before emission, and that
   `queue.consume` and `schedule.trigger` require an exact entry.
   `BuiltCallsAuthorized`, checked and proved, says that nothing else slips through.

Met while modelling, and without a run of their own:

- What follows a successful COMMIT (`crates/krit-database/src/connection.rs:451`,
  `checkpoint_and_verify` at 474) can fail: a `journal_size_limit` pragma, or the disk
  check, which another connection's journal may push over the budget. The
  transaction is then reported as rolled back while its rows are in the file.
  `spec/DATABASE.md:341-343` says an over-budget write is rolled back rather than
  published. The action `CommitUnverified` of `DatabaseSession` does what the code
  does, so a property with the document's words would fail; what does hold is
  `UndoneOnlyAfterCommit` (part of `TransactionsSound`, checked and proved): a
  transaction reported as undone is in the file only if its COMMIT had succeeded.
- `spec/DATABASE.md:90` says that dropping a transaction handle fails the
  invocation; `crates/krit-runtime/src/database.rs:360` rolls back and lets it
  succeed. The compiler emits no resource drop, so only a component built
  elsewhere gets there.
- The verifier compares the head of a list match with `!=` where every other
  place uses type equivalence (`crates/krit/src/core.rs:2990`), and `QueueJob` and
  `ScheduleEvent` do not unify with themselves structurally
  (`crates/krit/src/analysis.rs:3026`); `spec/TYPES-AND-EFFECTS.md:44` calls them
  aliases. Ordinary programs do not get there.
- `sanitize_transfer_error` (`crates/krit-runtime/src/network.rs:82`) classifies a
  few more transfer failures as retryable than `spec/AI-OBSERVABILITY.md:286` lists.
- Two requests with one key that run at the same time under the in-memory
  idempotency table both execute; only completed responses are replayed.
- An AI adapter with a secret on a plain-HTTP origin loads and is refused at
  dispatch.
- Two artifacts that share one host are admitted separately, and together may
  touch more rate buckets than the table holds.

## 5. Proofs

Check them with `tlapm <module>`. Every theorem holds for all values of the
constants that satisfy the named assumptions, which TLC evaluates in every run:

| Assumption | Says |
| --- | --- |
| `JobQueueAssumption`, `JobDeliveryAssumption`, `ScheduleAssumption` | policies are numbers that the constructors of `QueuePolicy` and `SchedulePolicy` accept; "no row" is not a row |
| `StoreAssumption`, `RetentionAssumption`, `AbsentIsNoRow`, `DatabaseAssumption` | sizes and bounds are numbers, the lease is at least what `validate_lease` asks for |
| `OpeningAssumption` | budgets and growths are numbers; the file at the path is any file, but one without tables has no rows |
| `CacheAssumption` | `CacheConfig::validate` accepted the configuration |
| `MaxCapabilitiesAssumption`, `DeploymentAssumption` | a program has finitely many calls; sizes, times, rates and attempts are unsigned integers; a host without a configuration file (schema 0) has no section |

Nothing is assumed of a deployment's manifests, program, configuration, limits or
file system beyond that: what the build, the load and the admission check is
derived from their code, not assumed.

Each module proves `Init => IInv`, one lemma per action (or per group of actions
with the same effect), `IInv /\ [Next]_vars => IInv'`, and from `Spec => []IInv`
the theorems. Actions that change only one worker's record share a lemma
(`LocalStep`), which is where the hierarchy of the proofs starts.

**`Arithmetic`** holds what the bounds rest on. Bytes are sums over sets of rows,
and what a row's arrival, departure or replacement does to a sum needs an
induction over finite sets. The library's induction theorem takes a predicate as
its parameter, which the provers cannot instantiate, so each induction here is a
descent: the sets for which the claim fails are a set of subsets, which has a
minimal member (`MinimalSubset`, from the well-foundedness of strict inclusion),
and a minimal counterexample is refuted. That gives `SumAdd`, `SumRemove`,
`SumSplit`, `SumMonotone` and `SumSame`; `NewestBounded` (at most `m` rows have fewer
than `m` newer ones); and for orders of use `UsedNowOrdered` and `VictimsStop`:
evicting from the least recently used on until enough went evicts a beginning of
the order, or everything.

It also settles the integers of the language. Direct execution computes exactly and
tests whether the result is a word (`CheckedBinary`); compiled code computes modulo
the word size and finds an overflow afterwards, from signs or by dividing the
product again (`CompiledTraps`, `CompiledWord`). `ArithmeticAgrees`: for every width,
each of `+ - * / %` and all operands, compiled code traps exactly when direct
execution reports K4004 or K4005, and otherwise both give the same word;
`NegationAgrees` says so of unary minus. The run `toolchain` sees this on words of 3
bits, the theorem covers 64. The argument: a sum or a difference is at most one
range away, so wrapping changes its sign in just the way the sign test looks for
(`WrapNear`, `SumsTested`); a wrapped product that divides back to the left operand is the product,
because the remainder is smaller than the divisor and the smallest word divided
by -1 is tested apart (`QuotientRounds`, `ProductsTested`).

**`JobDeliveryProofs`**: `TypeCorrect`, `JobsConserved`, `EffectsOnce`,
`BudgetKept`, the three together as `JobsDeliveredOnce`, `OwnersExclusive`,
`StaleOwnersFenced`, `OutcomesOwned`, `TablesStaySound`, `RefinesContract`.
`Conservation` and `AttemptBudget` are not inductive: a late worker might
acknowledge for somebody else, or publish what somebody else has published.
`OwnerInv` says owners are handed out once, so that "the row's owner is mine"
means "I reserved it last"; `StagedInv` says what a dispatch has staged is
published nowhere else; `LifeInv` adds that an unpublished job has never been
delivered. `CommittedOutcomeOwned` and `StaleOwnerMutatesNothing` are action
properties proved from the same invariant. `TablesSound` is inductive on top of it:
a commit compares the sum of what stays and what it publishes with the bounds, a
burial appends to the dead letters and then cuts them to the newest, and new rows
take sequences above the counter. `RefinesContract` maps each step to a step of
`QueueContract` or to none; that sequences are unique makes a reservation hand out
one job (`DeliverableSingle`), and `DispatchedInv` that an outcome belongs to a job
that was delivered.

**`ScheduleFiresProofs`**: `ScheduleTypeCorrect`, `OccurrencesHappenOnce`,
`OccurrencesAccounted`. `FireSound`: whatever was ever materialized lies at or below
the cursor, and a tick only materializes above it, so a row that retention forgot
cannot come back; attempts are those of the row; a committed fire is done. The
arithmetic (`Division`, `Multiples`, and what truncating division does to an instant
before the start) shows that the indices of a tick are the occurrences in
`(cursor, now]`. `OccurrencesAccounted` has the hypothesis `FixedStart`: all policies
the hosts are restarted with have the same start. It cannot be dropped, finding 1
above is what happens without it; intervals, catch-up and retention may change.

**`StoreProofs`**, on `InvocationStore`: `StoreTypeCorrect`, `ReadsOneSnapshot`,
`ChangesAdvanceRevision`, `StoreIsSerial`, `BucketStaysBounded`. `GuardInv`: a revision that was read is
never ahead of the store, and while it is the store's own, nothing has changed
since. That turns the comparison of two numbers into equality of contents, and
makes both the snapshot property and the refinement follow. `ActiveInv`: only an
active invocation has read or staged. `StoreIsSerial` proves the refinement
`InvocationStore => SerialStore` step by step; the mapping takes the staged map as
the client's writes. A reader without writes is not a `Transact` step: its
reads are `SnapshotReads`. `BucketStaysBounded` looks at the last put of a commit in
key order: what it was checked against is at least what is stored in the end,
because only deletes come after it.

**`StoreProofs`**, on `StoreOpening`: `OpeningTypeCorrect`, `OpenStoresSound`,
`UnknownFilesUntouched`, `StoresMoveForward`, `SoundStoresNotRejected`,
`BudgetsInForce`, and the pairs `OpenedStoresHold` and `FilesAreRespected`, all from
`OpeningInv` (`OpeningSound`). None of them is inductive: an
opener acts on an identity it read earlier. `OpenerSound` says in which ways that
can be old: a sound file read as version 0 is still empty or complete, one read as
version 1 is still that or complete. It also says that the copy of a transaction is
one step ahead of the file; `LockExclusive`, with the guards of readers and
committers, keeps the file still meanwhile. `Forward` is how the file may change,
and `OnlyForward` that it changes in no other way; the two action properties follow
from it. For the budget, a ceiling above the budget is no more than the size of the
file, so every allocation under it fails.

**`RecordedWorkProofs`**: `RecordsTypeCorrect`, `AnswersAreEffective`,
`WorkIsExclusive`, `AnswersAreRecorded`. `LeaseInv` is the heart of exclusion: the row of a key whose
worker is within its deadline is that worker's lease and has at least
`Deadline - age` left, so no decision, whose reading is at most `Busy` old, can
find it expired, and no abort of another owner can remove it (`DistinctInv`).
`EffectInv` and `RowInv` carry an effect from the commit through the completion
to the row that replays it. `PhaseInv` relates the phase to the fields and bounds
the age of a reading. `AnswersAreRecorded` adds `OrderInv`, that use is a strict
order: eviction then stops at the first row after which the rest fits, and never
reaches the row just completed, which is the newest and fits alone.

**`DatabaseSessionProofs`**: `SessionTypeCorrect`, `NoTransactionInherited`,
`CommitsAreDurable`, `TransactionsAreWhole`, `FailuresUndo`, and from them
`TransactionsAreSound` and `OutcomesAreSettled`. `Agrees(h)` ties the
handle, the connection and the phase of one host: an open handle of a running
guest stands for the connection's transaction with everything it wrote; without
a handle the connection is in autocommit or poisoned; during verification the rows
are already in the file. It speaks of one host only, so a step of another host
keeps it (`LocalStep`), except through the file, which only grows. `Apart` adds
that the rows under an open handle belong to it alone and are not in the file
before their COMMIT, which is what `FailuresUndo` needs.

**`TtlCacheProofs`**: `BudgetsStayExact`, `HitsStayFresh`, `EvictionFollowsUse`. The
operations are functions of a store, so the lemmas are about those: taking out
entries keeps a store `Sound` (counters and order are those of its entries) and
`Within` its budgets, and eviction makes room because `validate` admits an entry of
every size it lets in. `EntriesCurrent` ties each entry to the last write of its
slot; readings of the clock may lag by any amount.

**`AgentHostProofs`**: one theorem for each safety property of the run `agent_host`.

- `Deployed` records what each stage established: the build is `BuildPackage` of the
  manifest at build time, the load succeeded, the grants are those of the manifest
  in force, admission passed. The package theorems follow by going through the
  code of each stage. For `BuiltArtifactsAgree` every combination of entrypoint and
  effects is shown to select a world whose imports are exactly those of its
  effects (`SelectedWorldValid`); for `LoadedHostsAdmitted` the checks of
  `load_for_platform` are shown to imply those of `validate_agent_host`; for
  `RefusedLoads`, that whatever is checked after the stores repeats an earlier check.
- `Served` says of every invocation that its call is one the grants, the bindings
  and the artifact allow (`CallAllowed`), how attempts and requests on the wire
  relate in each phase (`AttemptsCounted`), and that a late request means a
  withdrawal that is still in force, after which no attempt begins (`LateOnce`;
  approvals are only withdrawn and a cancellation is final). `SecretsStayBound`,
  `HostAuthoritySuffices`, `WithdrawalTakesEffect` and `ResendsAreSafe` follow, and
  from them `AdmissionIsEnough` and `AttemptsStayWithinPolicy`.
- `Rated`: the table holds windows of buckets the artifact can touch only; admission
  bounds their number by the size of the table, so it never evicts
  (`NothingEvicted`) and equals the one that cannot. `RatesStayCapped` follows.
- `Remembered` and `Recorded`: the responses are counted exactly, ordered and within
  bounds, also when a completion replaces a response and evicts others
  (`CompletionSound`: an empty table has room, so the eviction ends in time); each
  live one expires a time to live after a guest produced it.
  `ResponsesStayBounded` and `ReplaysAreRecorded` follow, together
  `ResponsesStayReliable`.

Proving changed the models in form: the three orders of use, which were sequences,
are relations; alternatives whose guards overlap are chains of `IF`, since a `CASE`
leaves open which of two true guards it takes; delays are a function of their own
(`Backoff`). What the runs check is the same.

### Checked by TLC only

- Liveness (`OrphanedLeaseRecovered`, `LockReleased`, `InvocationEnds`): temporal
  reasoning under fairness and ENABLED are outside this prover's reach.
- The language properties (`OneReading`, `FormatKeepsProgram`, `FormatStable`,
  `AcceptedRunsSafely`, `EffectsCoverRun`, `LoweringVerifies`, `SupportedEncodes`,
  `ComponentAgrees`): the stages are recursive operators over trees, and what they
  compute for every program needs induction over trees. What `ComponentAgrees` rests
  on for one operation on integers is proved (`ArithmeticAgrees`, `NegationAgrees`).

Every other property of a passing run is a theorem.

## 6. Not modelled

- Contents: payloads, row values, responses and digests are opaque or have only a
  size. Names are model values; case folding, canonicalization and the syntax of
  origins, paths and versions are predicates or left out.
- Statistics, listings and other operations that change nothing.
- Fuel and memory limits appear as "the guest may trap at any point" of a served
  invocation, and not at all in the runs of `Toolchain`.
- The lexer, the lints and the wording and spans of diagnostics. The formatter's
  treatment of text blocks and interpolated strings is that of one token.
- JSON and URL conversions among the built-ins, and the generator of webhook
  components (`agent_compiler.rs`, `strings.rs`, `stdlib.rs`): memory layout and
  byte-level code, out of TLC's reach as a model that is shorter than the code.
- The bearer approvals of functions that are live but never called.
- Hard links of store files under host-configuration schemas 3 and 4, which only
  later schemas look for.
- TLS, address classes, header limits and provider formats.
- A process dying between the state commit and the completion of its idempotency row
  runs the guest again after the lease. `docs/technical-design.md:436` disclaims
  exactly-once there, so no property forbids it; `AnswersEffective` still holds.
- Pending fires are bounded per tick only; the code promises no total bound.
- Two runtimes sharing one `AgentHost` share its database connection. A host in
  `DatabaseSession` is one runtime with its own connection.
- The SQL text of the store's schema, and how it is compared.
- Everything in the table "Left out" of the inventory.

## 7. Plan

Done, in order of importance: the queue with its dispatch and contract, the
schedule, the invocation store with its refinement, recorded work, database
sessions, the cache; packages, host admission and the agent host; the language
from tokens to running code; the opening of a store; theorems for every safety
property of the host and for the integers of the language.

Next, theorems: the refinement of the responses in memory against a table that
never evicts.

Next, models: the execution window of a delivery in real time
(`require_execution_window` in `krit-runtime/src/jobs.rs`), and two runtimes on one
database connection.
